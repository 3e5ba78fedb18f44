------------------------------- MODULE Forwarder -------------------------------
(***************************************************************************)
(* agent/internal/forward/forward.go: the Agent's listeners, one per rule, *)
(* their TTL timers and the connections they relay.                        *)
(*                                                                         *)
(* Goroutines: the command loop of the control client, which runs one      *)
(* Apply or Revoke at a time (client.go, session); one callback per timer, *)
(* which runs Revoke; one pipe per accepted connection.  A step is what    *)
(* runs under one hold of the mutex or between two calls of the system.    *)
(***************************************************************************)
EXTENDS Naturals

CONSTANTS
    Rules,
    Listeners,      \* what net.Listen returns, each used once (bound)
    Clients,        \* connections to a listener, each used once (bound)
    Allowed,        \* those that come from an allow-listed address
    Loop,           \* the command loop
    NoRule, NoListener

ASSUME ConstantsAssumption ==
    /\ NoRule \notin Rules
    /\ NoListener \notin Listeners
    /\ Loop \notin Listeners
    /\ Allowed \subseteq Clients

\* Who runs Revoke: the loop, and the timer callback of a listener.
Runners == Listeners \cup {Loop}

VARIABLES
    rules,      \* Forwarder.rules
    open,       \* listeners whose socket is open
    cancelled,  \* listeners whose context is cancelled
    rule,       \* rule[l]: the rule l was opened for, NoRule if it never was
    timer,      \* timer[l]: entry.timer
    job,        \* job[x]: where runner x is
    cmd,        \* cmd[x]: the rule x works on
    held,       \* held[x]: the entry x works on
    answer,     \* what the loop answered last
    ttl,        \* the loop's command came within the window of its rule
    over,       \* rules whose window has ended
    pipe, via,  \* a connection, and the listener that accepted it
    deaf,       \* open listeners whose accept loop has ended
    late,       \* listeners opened by an Apply with ttl <= 0
    missed      \* listeners whose callback ran before they were in the table

table  == <<rules, timer>>
socket == <<open, cancelled, rule>>
runner == <<job, cmd, held, answer, ttl>>
conns  == <<pipe, via, deaf>>
history == <<late, missed>>
vars == <<table, socket, runner, over, conns, history>>

TypeOK ==
    /\ rules \in [Rules -> Listeners \cup {NoListener}]
    /\ open \in SUBSET Listeners
    /\ cancelled \in SUBSET Listeners
    /\ rule \in [Listeners -> Rules \cup {NoRule}]
    /\ timer \in [Listeners -> {"none", "armed", "stopped", "fired"}]
    /\ job \in [Runners -> {"idle", "lookup", "listen", "insert", "delete", "cancel", "close"}]
    /\ cmd \in [Runners -> Rules \cup {NoRule}]
    /\ held \in [Runners -> Listeners \cup {NoListener}]
    /\ answer \in {"none", "ok", "failed"}
    /\ ttl \in BOOLEAN
    /\ over \in SUBSET Rules
    /\ pipe \in [Clients -> {"none", "dial", "relay", "gone"}]
    /\ via \in [Clients -> Listeners \cup {NoListener}]
    /\ deaf \in SUBSET Listeners
    /\ late \in SUBSET Listeners
    /\ missed \in SUBSET Listeners
    \* whoever works on a rule knows it, and whoever works on an entry has one
    /\ \A x \in Runners : job[x] # "idle" => cmd[x] \in Rules
    /\ \A x \in Runners : job[x] \in {"insert", "cancel", "close"} => held[x] \in Listeners

Go(x, from, to) == job[x] = from /\ job' = [job EXCEPT ![x] = to]

-----------------------------------------------------------------------------
(* Mutants: bugs these steps could plausibly have, for the properties to find *)

\* Every Apply opens a listener.
ApplyLookupBlind ==
    /\ Go(Loop, "lookup", "listen")
    /\ UNCHANGED <<table, socket, cmd, held, answer, ttl, over, conns, history>>

\* No timer is armed.
ApplyListenUntimed(l) ==
    /\ Go(Loop, "listen", "insert")
    /\ rule[l] = NoRule
    /\ rule' = [rule EXCEPT ![l] = cmd[Loop]]
    /\ open' = open \cup {l}
    /\ held' = [held EXCEPT ![Loop] = l]
    /\ late' = IF ttl THEN late ELSE late \cup {l}
    /\ UNCHANGED <<table, cancelled, cmd, answer, ttl, over, conns, missed>>

\* The connections are not cancelled.
RevokeCancelNone(x) ==
    /\ Go(x, "cancel", "close")
    /\ UNCHANGED <<table, socket, cmd, held, answer, ttl, over, conns, history>>

\* The timer runs out before the window does.
TimerFiresEarly(l) ==
    /\ timer[l] = "armed"
    /\ timer' = [timer EXCEPT ![l] = "fired"]
    /\ job' = [job EXCEPT ![l] = "delete"]
    /\ cmd' = [cmd EXCEPT ![l] = rule[l]]
    /\ UNCHANGED <<rules, socket, held, answer, ttl, over, conns, history>>

-----------------------------------------------------------------------------

Init ==
    /\ rules = [r \in Rules |-> NoListener]
    /\ open = {}
    /\ cancelled = {}
    /\ rule = [l \in Listeners |-> NoRule]
    /\ timer = [l \in Listeners |-> "none"]
    /\ job = [x \in Runners |-> "idle"]
    /\ cmd = [x \in Runners |-> NoRule]
    /\ held = [x \in Runners |-> NoListener]
    /\ answer = "none"
    /\ ttl = FALSE
    /\ over = {}
    /\ pipe = [k \in Clients |-> "none"]
    /\ via = [k \in Clients |-> NoListener]
    /\ deaf = {}
    /\ late = {}
    /\ missed = {}

-----------------------------------------------------------------------------
(* Apply, run by the command loop *)

\* handleApply has computed the ttl from the expiry in the command.
ApplyBegin(r) ==
    /\ Go(Loop, "idle", "lookup")
    /\ cmd' = [cmd EXCEPT ![Loop] = r]
    /\ ttl' = (r \notin over)
    /\ UNCHANGED <<table, socket, held, answer, over, conns, history>>

\* A rule that is up is left alone, and its address answered.
ApplyLookup ==
    /\ Go(Loop, "lookup", IF rules[cmd[Loop]] = NoListener THEN "listen" ELSE "idle")
    /\ answer' = IF rules[cmd[Loop]] = NoListener THEN answer ELSE "ok"
    /\ UNCHANGED <<table, socket, cmd, held, ttl, over, conns, history>>

\* net.Listen fails: the command is answered with an error.
ApplyListenFails ==
    /\ Go(Loop, "listen", "idle")
    /\ answer' = "failed"
    /\ UNCHANGED <<table, socket, cmd, held, ttl, over, conns, history>>

\* The listener is open from now on; the timer runs if there is time left.
ApplyListen(l) ==
    /\ Go(Loop, "listen", "insert")
    /\ rule[l] = NoRule
    /\ rule' = [rule EXCEPT ![l] = cmd[Loop]]
    /\ open' = open \cup {l}
    /\ timer' = [timer EXCEPT ![l] = IF ttl THEN "armed" ELSE "none"]
    /\ held' = [held EXCEPT ![Loop] = l]
    /\ late' = IF ttl THEN late ELSE late \cup {l}
    /\ UNCHANGED <<rules, cancelled, cmd, answer, ttl, over, conns, missed>>

ApplyInsert ==
    /\ Go(Loop, "insert", "idle")
    /\ rules' = [rules EXCEPT ![cmd[Loop]] = held[Loop]]
    /\ answer' = "ok"
    /\ UNCHANGED <<timer, socket, cmd, held, ttl, over, conns, history>>

-----------------------------------------------------------------------------
(* Revoke, run by the command loop and by the timers *)

RevokeBegin(r) ==
    /\ Go(Loop, "idle", "delete")
    /\ cmd' = [cmd EXCEPT ![Loop] = r]
    /\ UNCHANGED <<table, socket, held, answer, ttl, over, conns, history>>

\* The ttl was computed so that the timer fires when the window ends.
TimerFires(l) ==
    /\ timer[l] = "armed"
    /\ rule[l] \in over
    /\ timer' = [timer EXCEPT ![l] = "fired"]
    /\ job' = [job EXCEPT ![l] = "delete"]
    /\ cmd' = [cmd EXCEPT ![l] = rule[l]]
    /\ UNCHANGED <<rules, socket, held, answer, ttl, over, conns, history>>

\* Whatever the table holds for the rule is taken out, or there is nothing.
RevokeDelete(x) ==
    LET l == rules[cmd[x]] IN
    /\ Go(x, "delete", IF l = NoListener THEN "idle" ELSE "cancel")
    /\ held' = [held EXCEPT ![x] = l]
    /\ rules' = [rules EXCEPT ![cmd[x]] = NoListener]
    /\ missed' = IF x # Loop /\ job[Loop] = "insert" /\ held[Loop] = x
                 THEN missed \cup {x} ELSE missed
    /\ answer' = IF x = Loop /\ l = NoListener THEN "ok" ELSE answer
    /\ UNCHANGED <<timer, socket, cmd, ttl, over, conns, late>>

\* A timer that has fired cannot be stopped.
RevokeCancel(x) ==
    LET l == held[x] IN
    /\ Go(x, "cancel", "close")
    /\ timer' = [timer EXCEPT ![l] = IF @ = "armed" THEN "stopped" ELSE @]
    /\ cancelled' = cancelled \cup {l}
    /\ UNCHANGED <<rules, open, rule, cmd, held, answer, ttl, over, conns, history>>

RevokeClose(x) ==
    /\ Go(x, "close", "idle")
    /\ open' = open \ {held[x]}
    /\ deaf' = deaf \ {held[x]}
    /\ answer' = IF x = Loop THEN "ok" ELSE answer
    /\ UNCHANGED <<table, cancelled, rule, cmd, held, ttl, over, pipe, via, history>>

-----------------------------------------------------------------------------
(* serve and pipe *)

\* Accepted; who is not allow-listed is shown the door.
Accept(k, l) ==
    /\ pipe[k] = "none"
    /\ l \in open /\ l \notin deaf
    /\ pipe' = [pipe EXCEPT ![k] = IF k \in Allowed THEN "dial" ELSE "gone"]
    /\ via' = [via EXCEPT ![k] = l]
    /\ UNCHANGED <<table, socket, runner, over, deaf, history>>

\* Accept fails for want of descriptors: the loop ends, as it does when the
\* listener is closed, and the listener, its entry and its timer stay.
AcceptFails(l) ==
    /\ l \in open /\ l \notin deaf
    /\ deaf' = deaf \cup {l}
    /\ UNCHANGED <<table, socket, runner, over, pipe, via, history>>

\* The asset answers, or does not within ten seconds.
Dialled(k) ==
    /\ pipe[k] = "dial"
    /\ \E outcome \in {"relay", "gone"} : pipe' = [pipe EXCEPT ![k] = outcome]
    /\ UNCHANGED <<table, socket, runner, over, via, deaf, history>>

\* One side closes.
PipeEnds(k) ==
    /\ pipe[k] = "relay"
    /\ pipe' = [pipe EXCEPT ![k] = "gone"]
    /\ UNCHANGED <<table, socket, runner, over, via, deaf, history>>

\* The listener's context is cancelled: both sides are closed.
PipeCut(k) ==
    /\ pipe[k] = "relay"
    /\ via[k] \in cancelled
    /\ pipe' = [pipe EXCEPT ![k] = "gone"]
    /\ UNCHANGED <<table, socket, runner, over, via, deaf, history>>

-----------------------------------------------------------------------------

WindowEnds(r) ==
    /\ over' = over \cup {r}
    /\ r \notin over
    /\ UNCHANGED <<table, socket, runner, conns, history>>

LoopStep ==
    \/ ApplyLookup \/ ApplyListenFails \/ ApplyInsert
    \/ \E l \in Listeners : ApplyListen(l)

RevokeStep(x) == RevokeDelete(x) \/ RevokeCancel(x) \/ RevokeClose(x)

PipeStep(k) == Dialled(k) \/ PipeCut(k)

Next ==
    \/ \E r \in Rules : ApplyBegin(r) \/ RevokeBegin(r) \/ WindowEnds(r)
    \/ LoopStep
    \/ \E x \in Runners : RevokeStep(x)
    \/ \E l \in Listeners : TimerFires(l) \/ AcceptFails(l)
    \/ \E k \in Clients : PipeStep(k) \/ PipeEnds(k)
    \/ \E k \in Clients, l \in Listeners : Accept(k, l)

Spec == Init /\ [][Next]_vars

\* Started goroutines go on and timers fire.  No command need ever come.
Fairness ==
    /\ WF_vars(LoopStep)
    /\ \A x \in Runners : WF_vars(RevokeStep(x))
    /\ \A l \in Listeners : WF_vars(TimerFires(l))
    /\ \A k \in Clients : WF_vars(PipeStep(k))

FairSpec == Spec /\ Fairness

-----------------------------------------------------------------------------
(* Safety *)

Closing(l) == \E x \in Runners : job[x] \in {"cancel", "close"} /\ held[x] = l

\* An open listener can be found and closed: it is in the table, or the loop is
\* about to put it there, or somebody is closing it.  None is ever orphaned.
NoOrphan ==
    \A l \in open :
        \/ rules[rule[l]] = l
        \/ job[Loop] = "insert" /\ held[Loop] = l
        \/ Closing(l)

\* The address a repeated Apply answers is that of an open listener which nobody
\* has begun to close, even if its accept loop has failed; no connection of it is
\* cut.
TableIsLive ==
    \A r \in Rules :
        LET l == rules[r] IN
        l # NoListener =>
            /\ l \in open
            /\ rule[l] = r
            /\ l \notin cancelled
            /\ ~Closing(l)

\* What ExpiredIsClosed rests on: an open listener has a timer that will fire or a
\* callback that is under way, or somebody is closing it.  There are two ways to
\* be without: no ttl was left, or the callback came before the entry.
TimerIsPending ==
    \A l \in open :
        \/ timer[l] = "armed"
        \/ job[l] = "delete" \/ Closing(l)
        \/ l \in late \cup missed

\* Table and listeners agree: what is open can be found and will be closed, and
\* what the table answers is open.
ListenerIsKept == NoOrphan /\ TableIsLive /\ TimerIsPending

-----------------------------------------------------------------------------
(* Implementation of the promise *)

\* The command the loop is at.
Command ==
    IF job[Loop] = "idle" THEN <<>>
    ELSE <<IF job[Loop] \in {"lookup", "listen", "insert"} THEN "apply" ELSE "revoke",
           cmd[Loop]>>

\* The listener of a rule: the one in the table, or the one on its way there.
Serving ==
    [r \in Rules |-> IF job[Loop] = "insert" /\ cmd[Loop] = r THEN held[Loop] ELSE rules[r]]

Table == INSTANCE RuleTable WITH
    command <- Command,
    serving <- Serving,
    opened <- rule,
    listening <- open

\* Loop, timers and mutex keep the promise of RuleTable, which PolicyEngine takes
\* for granted of an Agent: a rule opens for an apply only, closes for a revoke of
\* its own or after its window, and an answered revoke leaves nothing behind but
\* what a timer is closing.
ImplementsRuleTable == Table!Spec

-----------------------------------------------------------------------------
(* Liveness *)

\* A listener closes once the window of its rule has ended, unless it was opened
\* after that, or its timer fired before Apply had put it in the table.
ExpiredIsClosed ==
    \A l \in Listeners :
        l \in open /\ rule[l] \in over
            ~> l \notin open \/ l \in late \/ l \in missed

\* No connection outlives its listener, also one that was still being dialled.
ClosedIsCut ==
    \A k \in Clients :
        via[k] # NoListener /\ via[k] \notin open ~> pipe[k] = "gone"

=============================================================================
