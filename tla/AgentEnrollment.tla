---------------------------- MODULE AgentEnrollment ----------------------------
(***************************************************************************)
(* How Agents of one project come in: Register and pickRole of             *)
(* server/internal/agentctl/controller.go, setEnrollment and CreateAgent   *)
(* of server/internal/services/catalog.go with their queries, and the      *)
(* enrolment gate of agent/internal/control/client.go.                     *)
(*                                                                         *)
(* A daemon registers by host name.  Register is not a transaction: it     *)
(* looks its row up, lists the rows to pick a role, inserts a row, and     *)
(* issues a session token from the copy of the row it has.  A daemon whose *)
(* row is not approved registers again later; one whose row is opens a     *)
(* control stream with its token (ControlStream takes over from there).    *)
(* Two daemons of one host are a daemon and its former self whose Register *)
(* is still under way.                                                     *)
(***************************************************************************)
EXTENDS Naturals, Sequences

CONSTANTS
    Daemons,
    Hosts,
    Host,       \* Host[d]: the host name daemon d registers with
    MaxFaults   \* failed queries and restarts of the server (bound)

Roles == {"primary", "secondary"}

ASSUME ConstantsAssumption ==
    Host \in [Daemons -> Hosts] /\ MaxFaults \in Nat

VARIABLES
    agents,     \* table yusui.agents: the row with id n is agents[n]
    pc,         \* pc[d]: how far daemon d is, in Register or behind it
    role,       \* role[d]: the role pickRole gave to its Register
    row,        \* row[d]: id and copy of its row, as Register read it
    tokens,     \* daemons whose last token is in Controller.tokens, for row[d].id
    faults,
    excused,    \* hosts that had two rows on their way at once, or a row misread
    vetted      \* ids of the rows an admin has approved, or made, at some time

vars == <<agents, pc, role, row, tokens, faults, excused, vetted>>

Enrollments == {"pending", "approved", "rejected"}

Row == [host : Hosts, role : Roles, auto : BOOLEAN, enrollment : Enrollments]

\* What a Register knows of its row: there are two at most, see RolesInOrder.
Known == [id : {1, 2}, enrollment : Enrollments]

NoRow == [id |-> 0]

Copy(n) == [id |-> n, enrollment |-> agents[n].enrollment]

TypeOK ==
    /\ agents \in Seq(Row) /\ Len(agents) <= 2
    /\ pc \in [Daemons -> {"out", "pick", "create", "issue", "registered", "stream"}]
    /\ role \in [Daemons -> Roles \cup {"none"}]
    /\ row \in [Daemons -> Known \cup {NoRow}]
    /\ \A d \in Daemons :
          IF pc[d] \in {"issue", "registered", "stream"}
          THEN row[d].id \in DOMAIN agents
          ELSE row[d] = NoRow
    /\ tokens \in SUBSET Daemons
    /\ faults \in 0 .. MaxFaults
    /\ excused \in SUBSET Hosts
    /\ vetted \in SUBSET DOMAIN agents

Init ==
    /\ agents = <<>>
    /\ pc = [d \in Daemons |-> "out"]
    /\ role = [d \in Daemons |-> "none"]
    /\ row = [d \in Daemons |-> NoRow]
    /\ tokens = {}
    /\ faults = 0
    /\ excused = {}
    /\ vetted = {}

-----------------------------------------------------------------------------

(* The queries: each is one statement.  UNIQUE (project_id, role) is a guard of
   the actions that insert.                                                  *)

\* GetAgentByProjectAndHostname, whatever the enrolment.
RowsOf(host) == {n \in DOMAIN agents : agents[n].host = host}

\* The roles in ListAgentsByProject.
Taken == {agents[n].role : n \in DOMAIN agents}

\* A row a daemon made.
CreatePendingAgent(host, r) ==
    agents' = Append(agents, [host |-> host, role |-> r, auto |-> TRUE,
                              enrollment |-> "pending"])

\* A row an admin made is approved as it stands.
CreateApprovedAgent(host, r) ==
    agents' = Append(agents, [host |-> host, role |-> r, auto |-> FALSE,
                              enrollment |-> "approved"])

-----------------------------------------------------------------------------

\* A Register that has found no row of its host and not inserted one.
Inserting(d) == pc[d] \in {"pick", "create"}

At(d, here, there) == pc[d] = here /\ pc' = [pc EXCEPT ![d] = there]

\* What daemon d was told, and what its Register knew, is forgotten.  The
\* token stays with the server, but nobody will show it again.
Back(d) ==
    /\ pc' = [pc EXCEPT ![d] = "out"]
    /\ row' = [row EXCEPT ![d] = NoRow]
    /\ role' = [role EXCEPT ![d] = "none"]
    /\ tokens' = tokens \ {d}
    /\ UNCHANGED <<agents, excused, vetted>>

-----------------------------------------------------------------------------
(* Register *)

\* Several rows of one host are as good as each other to the query.
RegisterFinds(d) ==
    /\ At(d, "out", "issue")
    /\ \E n \in RowsOf(Host[d]) : row' = [row EXCEPT ![d] = Copy(n)]
    /\ UNCHANGED <<agents, role, tokens, faults, excused, vetted>>

\* Mutant: only approved rows are looked at.
RegisterFindsNoneApproved(d) ==
    /\ At(d, "out", "pick")
    /\ \A n \in RowsOf(Host[d]) : agents[n].enrollment # "approved"
    /\ UNCHANGED <<agents, role, row, tokens, faults, excused, vetted>>

RegisterFindsNone(d) ==
    /\ At(d, "out", "pick")
    /\ RowsOf(Host[d]) = {}
    /\ excused' = IF \E e \in Daemons : Host[e] = Host[d] /\ Inserting(e)
                  THEN excused \cup {Host[d]} ELSE excused
    /\ UNCHANGED <<agents, role, row, tokens, faults, vetted>>

\* Any error of the query is taken for "no such row".
RegisterMisreads(d) ==
    /\ At(d, "out", "pick")
    /\ faults < MaxFaults
    /\ faults' = faults + 1
    /\ excused' = excused \cup {Host[d]}
    /\ UNCHANGED <<agents, role, row, tokens, vetted>>

\* Mutant: the secondary slot is filled first.
PickRoleSecondary(d) ==
    /\ At(d, "pick", "create")
    /\ \E r \in Roles \ Taken :
          /\ r = "primary" => "secondary" \in Taken
          /\ role' = [role EXCEPT ![d] = r]
    /\ UNCHANGED <<agents, row, tokens, faults, excused, vetted>>

PickRole(d) ==
    /\ At(d, "pick", "create")
    /\ \E r \in Roles \ Taken :
          /\ r = "secondary" => "primary" \in Taken
          /\ role' = [role EXCEPT ![d] = r]
    /\ UNCHANGED <<agents, row, tokens, faults, excused, vetted>>

\* Both slots are taken: the daemon tries again.
PickRoleFails(d) == pc[d] = "pick" /\ Taken = Roles /\ Back(d) /\ UNCHANGED faults

CreateRow(d) ==
    /\ At(d, "create", "issue")
    /\ role[d] \notin Taken
    /\ CreatePendingAgent(Host[d], role[d])
    /\ row' = [row EXCEPT ![d] = [id |-> Len(agents'), enrollment |-> "pending"]]
    /\ role' = [role EXCEPT ![d] = "none"]
    /\ UNCHANGED <<tokens, faults, excused, vetted>>

\* UNIQUE (project_id, role): another Register, or an admin, was faster.
CreateRowFails(d) == pc[d] = "create" /\ role[d] \in Taken /\ Back(d) /\ UNCHANGED faults

\* Mutant: the token is kept for rows that are not approved only.
IssueTokenPending(d) ==
    /\ At(d, "issue", "registered")
    /\ tokens' = IF row[d].enrollment = "approved" THEN tokens
                 ELSE tokens \cup {d}
    /\ UNCHANGED <<agents, role, row, faults, excused, vetted>>

\* What the daemon is told is what Register read (with the setup key of its row,
\* which is left out, if that says approved).
IssueToken(d) ==
    /\ At(d, "issue", "registered")
    /\ tokens' = tokens \cup {d}
    /\ UNCHANGED <<agents, role, row, faults, excused, vetted>>

-----------------------------------------------------------------------------
(* The daemon *)

\* Not approved: register again in ten seconds.
AwaitApproval(d) ==
    /\ pc[d] = "registered"
    /\ row[d].enrollment # "approved"
    /\ Back(d) /\ UNCHANGED faults

\* Mutant: only a pending daemon stays out.
OpenStreamUnlessPending(d) ==
    /\ At(d, "registered", "stream")
    /\ row[d].enrollment # "pending"
    /\ d \in tokens
    /\ UNCHANGED <<agents, role, row, tokens, faults, excused, vetted>>

OpenStream(d) ==
    /\ At(d, "registered", "stream")
    /\ row[d].enrollment = "approved"
    /\ d \in tokens
    /\ UNCHANGED <<agents, role, row, tokens, faults, excused, vetted>>

\* The server does not know the token any more.
OpenStreamFails(d) ==
    /\ pc[d] = "registered"
    /\ row[d].enrollment = "approved"
    /\ d \notin tokens
    /\ Back(d) /\ UNCHANGED faults

\* The stream or the daemon ends, at any point (bounded like a fault).
DaemonBreaks(d) ==
    /\ pc[d] # "out"
    /\ faults < MaxFaults
    /\ faults' = faults + 1
    /\ Back(d)

\* The tokens are in memory; calls and streams under way are lost.
ServerRestarts ==
    /\ faults < MaxFaults
    /\ faults' = faults + 1
    /\ tokens' = {}
    /\ pc' = [d \in Daemons |-> IF pc[d] = "registered" THEN pc[d] ELSE "out"]
    /\ row' = [d \in Daemons |-> IF pc[d] = "registered" THEN row[d] ELSE NoRow]
    /\ role' = [d \in Daemons |-> "none"]
    /\ UNCHANGED <<agents, excused, vetted>>

-----------------------------------------------------------------------------
(* The admin *)

CreateAgent(host, r) ==
    /\ r \notin Taken
    /\ CreateApprovedAgent(host, r)
    /\ excused' = IF \/ RowsOf(host) # {}
                     \/ \E e \in Daemons : Host[e] = host /\ Inserting(e)
                  THEN excused \cup {host} ELSE excused
    /\ vetted' = vetted \cup {Len(agents')}
    /\ UNCHANGED <<pc, role, row, tokens, faults>>

ApproveAgent(n) ==
    /\ agents' = [agents EXCEPT ![n].enrollment = "approved"]
    /\ vetted' = vetted \cup {n}
    /\ UNCHANGED <<pc, role, row, tokens, faults, excused>>

\* The tokens stay in the table, and a stream stays open.
RejectAgent(n) ==
    /\ agents' = [agents EXCEPT ![n].enrollment = "rejected"]
    /\ UNCHANGED <<pc, role, row, tokens, faults, excused, vetted>>

-----------------------------------------------------------------------------

DaemonStep(d) ==
    \/ RegisterFinds(d) \/ RegisterFindsNone(d)
    \/ PickRole(d) \/ PickRoleFails(d)
    \/ CreateRow(d) \/ CreateRowFails(d)
    \/ IssueToken(d)
    \/ AwaitApproval(d) \/ OpenStream(d) \/ OpenStreamFails(d)

Next ==
    \/ \E d \in Daemons : DaemonStep(d) \/ RegisterMisreads(d) \/ DaemonBreaks(d)
    \/ ServerRestarts
    \/ \E host \in Hosts, r \in Roles : CreateAgent(host, r)
    \/ \E n \in DOMAIN agents : ApproveAgent(n) \/ RejectAgent(n)

Spec == Init /\ [][Next]_vars

\* A daemon goes on registering (Client.Run), and the server answers.
FairSpec == Spec /\ \A d \in Daemons : WF_vars(DaemonStep(d))

-----------------------------------------------------------------------------
(* Properties *)

\* A daemon with a stream, which an earlier Register told it to open, is on a row
\* of its own host, and one that an admin has approved at some time, through
\* races, misreads and restarts (controller.go 99-130, client.go 74).
StreamIsApproved ==
    \A d \in Daemons :
        pc[d] = "stream" =>
            /\ agents[row[d].id].host = Host[d]
            /\ row[d].id \in vetted

\* Each role is given away once, and Register leaves the primary slot to nobody
\* by accident: a secondary it made has a primary (controller.go 134-151).
RolesInOrder ==
    /\ \A m, n \in DOMAIN agents : m # n => agents[m].role # agents[n].role
    /\ \A n \in DOMAIN agents :
          agents[n].auto /\ agents[n].role = "secondary" => "primary" \in Taken

\* A host has one row, however often it registers, unless two rows were on
\* their way at once or its row could not be read (controller.go 99-105).
HostKeepsItsRow ==
    \A m, n \in DOMAIN agents :
        m # n /\ agents[m].host = agents[n].host =>
            agents[m].host \in excused

\* A daemon whose only row is approved, and stays so, gets a stream (client.go
\* 47-88: registering again until it does, also after the tokens were lost).
ApprovedConnects ==
    \A d \in Daemons :
        LET approved == /\ RowsOf(Host[d]) # {}
                        /\ \A n \in RowsOf(Host[d]) : agents[n].enrollment = "approved"
        IN  approved ~> pc[d] = "stream" \/ ~approved

=============================================================================
