---------------------------- MODULE MCPolicyEngine ----------------------------
(* PolicyEngine on small instances: every ticket belongs to one project.   *)
EXTENDS PolicyEngine, FiniteSets, TLC

CONSTANT TheAgent

OneProject == [t \in Tickets |-> TheAgent]

\* Users are only told apart by being equal or not.
Symmetry ==
    UNION {Permutations(S) : S \in {Users, Addrs, Tickets, Handlers}}

OldMeetsActive ==
    (\E a \in Agents : older[a] > 0 \/ a \in robbed) => \A t \in Tickets : status[t] = "active"

\* Faults meet one handler at a time, no web shells and a steady enrolment, and
\* old Controls meet an active ticket with no command under way; without faults
\* all of these mix.
Calm ==
    faults > 0 =>
        /\ webShells = {} /\ \A h \in Handlers : pc[h] # "open"
        /\ enrolled = Agents \/ \A t \in Tickets : status[t] \in {"new", "pending"}
        /\ Cardinality({h \in Handlers : pc[h] # "idle"}) <= 1
        /\ OldMeetsActive
        /\ (\E t \in Tickets : late[t] # <<>>) => \A a \in Agents : older[a] = 0 /\ a \notin robbed

\* For the liveness run, whose one fault may be any: no web shells.
NoShells ==
    /\ webShells = {} /\ \A h \in Handlers : pc[h] # "open"
    /\ OldMeetsActive
=============================================================================
