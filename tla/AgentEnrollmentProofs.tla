------------------------- MODULE AgentEnrollmentProofs -------------------------
(***************************************************************************)
(* What registration promises, for any daemons, hosts and faults.          *)
(* Register looks its row up and answers later from its copy: Copied says  *)
(* what that copy is still good for.  It inserts a row later than it found *)
(* none: Alone says what it can rely on until then.                        *)
(***************************************************************************)
EXTENDS AgentEnrollment, TLAPS

USE DEF CreatePendingAgent, CreateApprovedAgent

\* A copy is of a row of the daemon's own host, and one that says approved of a
\* row an admin has approved: so is every row that says it.
Copied ==
    /\ \A n \in DOMAIN agents : agents[n].enrollment = "approved" => n \in vetted
    /\ \A d \in Daemons : row[d].id # 0 =>
          /\ agents[row[d].id].host = Host[d]
          /\ row[d].enrollment = "approved" => row[d].id \in vetted
          /\ pc[d] = "stream" => row[d].enrollment = "approved"

\* A secondary is only picked with the primary taken.
Picked ==
    \A d \in Daemons : pc[d] = "create" =>
        /\ role[d] \in Roles
        /\ role[d] = "secondary" => "primary" \in Taken

\* Unless its host is excused, a Register that has found no row of its host is
\* the only one, and there is still none.
Alone ==
    \A d \in Daemons : Inserting(d) /\ Host[d] \notin excused =>
        /\ RowsOf(Host[d]) = {}
        /\ \A e \in Daemons \ {d} : Host[e] = Host[d] => ~Inserting(e)

IInv == TypeOK /\ RolesInOrder /\ HostKeepsItsRow /\ Copied /\ Picked /\ Alone

USE ConstantsAssumption

-----------------------------------------------------------------------------

\* New has no rows and knows nobody.
LEMMA InitIInv == Init => IInv
<1> SUFFICES ASSUME Init PROVE IInv
    OBVIOUS
<1> USE DEF Init
<1>1. TypeOK
    BY DEF TypeOK, Row
<1>2. RolesInOrder /\ HostKeepsItsRow
    BY DEF RolesInOrder, HostKeepsItsRow
<1>3. Copied /\ Picked /\ Alone
    BY DEF Copied, Picked, Alone, Inserting, NoRow
<1> QED BY <1>1, <1>2, <1>3 DEF IInv

\* UNIQUE (project_id, role) leaves room for two rows, and an insert that keeps
\* to it keeps the roles in order.
LEMMA Inserted ==
    ASSUME IInv, NEW r \in Row, r.role \notin Taken,
           agents' = Append(agents, r),
           r.auto /\ r.role = "secondary" => "primary" \in Taken
    PROVE  /\ agents' \in Seq(Row) /\ Len(agents') = Len(agents) + 1
           /\ Len(agents') <= 2 /\ Len(agents') \in {1, 2}
           /\ \A n \in DOMAIN agents : n \in DOMAIN agents' /\ agents'[n] = agents[n]
           /\ DOMAIN agents' = DOMAIN agents \cup {Len(agents')}
           /\ agents'[Len(agents')] = r
           /\ Taken' = Taken \cup {r.role}
           /\ RolesInOrder'
<1>1. /\ agents' \in Seq(Row) /\ Len(agents') = Len(agents) + 1
      /\ \A n \in DOMAIN agents : n \in DOMAIN agents' /\ agents'[n] = agents[n]
      /\ DOMAIN agents' = DOMAIN agents \cup {Len(agents')}
      /\ agents'[Len(agents')] = r
    BY DEF IInv, TypeOK
<1>2. Taken' = Taken \cup {r.role}
    BY <1>1 DEF Taken
<1>3. RolesInOrder'
    BY <1>1, <1>2 DEF IInv, TypeOK, RolesInOrder, Taken
<1>4. Len(agents) # 2
    <2> SUFFICES ASSUME Len(agents) = 2 PROVE FALSE
        OBVIOUS
    <2>1. 1 \in DOMAIN agents /\ 2 \in DOMAIN agents
        BY DEF IInv, TypeOK
    <2>2. agents[1].role # agents[2].role /\ agents[1] \in Row /\ agents[2] \in Row
        BY <2>1 DEF IInv, TypeOK, RolesInOrder
    <2>3. agents[1].role \in Taken /\ agents[2].role \in Taken
        BY <2>1 DEF Taken
    <2> QED BY <2>2, <2>3 DEF Row, Roles
<1>5. Len(agents') <= 2 /\ Len(agents') \in {1, 2}
    <2>1. PICK n \in Nat : n = Len(agents)
        BY DEF IInv, TypeOK
    <2>2. n <= 2 /\ n # 2 /\ Len(agents') = n + 1
        BY <1>1, <1>4, <2>1 DEF IInv, TypeOK
    <2> QED BY <2>2
<1> QED BY <1>1, <1>2, <1>3, <1>5

\* An admin's decision changes nothing of a row but its enrolment.
LEMMA Decided ==
    ASSUME IInv, NEW n \in DOMAIN agents, NEW e \in Enrollments,
           agents' = [agents EXCEPT ![n].enrollment = e],
           vetted' = IF e = "approved" THEN vetted \cup {n} ELSE vetted,
           UNCHANGED <<pc, role, row, tokens, faults, excused>>
    PROVE  IInv'
<1>1. agents \in Seq(Row) /\ agents[n] \in Row
    BY DEF IInv, TypeOK
<1>2. [agents[n] EXCEPT !.enrollment = e] \in Row
    BY <1>1 DEF Row
<1>3. agents' \in Seq(Row) /\ Len(agents') = Len(agents) /\ DOMAIN agents' = DOMAIN agents
    BY <1>1, <1>2
<1>4. \A m \in DOMAIN agents :
        /\ agents'[m].host = agents[m].host
        /\ agents'[m].role = agents[m].role
        /\ agents'[m].auto = agents[m].auto
        /\ agents'[m].enrollment = "approved" => agents[m].enrollment = "approved" \/ m \in vetted'
    BY <1>1, <1>2 DEF Row
<1>5. Taken' = Taken /\ \A h \in Hosts : RowsOf(h)' = RowsOf(h)
    BY <1>3, <1>4 DEF Taken, RowsOf
<1>6. TypeOK'
    BY <1>3 DEF IInv, TypeOK
<1>11. vetted \subseteq vetted'
    OBVIOUS
<1>7. RolesInOrder' /\ HostKeepsItsRow'
    BY <1>3, <1>4, <1>5 DEF IInv, RolesInOrder, HostKeepsItsRow
<1>8. \A d \in Daemons : row[d].id # 0 => row[d].id \in DOMAIN agents
    BY DEF IInv, TypeOK, NoRow
<1>9. Copied'
    BY <1>3, <1>4, <1>8, <1>11 DEF IInv, Copied
<1>10. Picked' /\ Alone'
    BY <1>5 DEF IInv, Picked, Alone, Inserting
<1> QED BY <1>6, <1>7, <1>9, <1>10 DEF IInv

\* No step of a daemon, of the server or of an admin breaks it.
LEMMA NextIInv == IInv /\ [Next]_vars => IInv'
<1> SUFFICES ASSUME IInv, [Next]_vars PROVE IInv'
    OBVIOUS
<1> USE DEF IInv, TypeOK, RolesInOrder, HostKeepsItsRow, Copied, Picked, Alone, NoRow, Known,
            Copy, At, Back, RowsOf, Taken, Inserting
<1>1. ASSUME NEW d \in Daemons, RegisterFinds(d) PROVE IInv'
    <2>1. PICK n \in RowsOf(Host[d]) : row' = [row EXCEPT ![d] = Copy(n)]
        BY <1>1 DEF RegisterFinds
    <2>2. n \in {1, 2} /\ n \in DOMAIN agents /\ agents[n] \in Row /\ agents[n].host = Host[d]
        <3>1. n \in DOMAIN agents /\ agents[n].host = Host[d]
            BY <2>1
        <3>2. n \in Nat /\ 1 <= n /\ n <= 2
            BY <3>1
        <3> QED BY <3>1, <3>2
    <2>3. Copy(n) \in Known
        BY <2>2 DEF Row
    <2>4. TypeOK'
        BY <1>1, <2>1, <2>2, <2>3 DEF RegisterFinds
    <2>5. Copied'
        BY <1>1, <2>1, <2>2 DEF RegisterFinds
    <2>6. RolesInOrder' /\ HostKeepsItsRow' /\ Picked' /\ Alone'
        BY <1>1 DEF RegisterFinds
    <2> QED BY <2>4, <2>5, <2>6
<1>2. ASSUME NEW d \in Daemons, RegisterFindsNone(d) PROVE IInv'
    BY <1>2 DEF RegisterFindsNone
<1>3. ASSUME NEW d \in Daemons, RegisterMisreads(d) PROVE IInv'
    BY <1>3 DEF RegisterMisreads
<1>4. ASSUME NEW d \in Daemons, PickRole(d) PROVE IInv'
    BY <1>4 DEF PickRole
<1>5. ASSUME NEW d \in Daemons, PickRoleFails(d) PROVE IInv'
    BY <1>5 DEF PickRoleFails
<1>6. ASSUME NEW d \in Daemons, CreateRow(d) PROVE IInv'
    <2> DEFINE r == [host |-> Host[d], role |-> role[d], auto |-> TRUE, enrollment |-> "pending"]
    <2>1. /\ agents' = Append(agents, r) /\ r \in Row /\ r.role \notin Taken
          /\ r.auto /\ r.role = "secondary" => "primary" \in Taken
          /\ r.host = Host[d] /\ r.enrollment = "pending"
        BY <1>6 DEF CreateRow, Row, Enrollments
    <2>2. /\ agents' \in Seq(Row) /\ Len(agents') <= 2 /\ RolesInOrder'
          /\ Taken \subseteq Taken'
          /\ \A n \in DOMAIN agents : n \in DOMAIN agents' /\ agents'[n] = agents[n]
          /\ DOMAIN agents' = DOMAIN agents \cup {Len(agents')}
          /\ agents'[Len(agents')] = r
          /\ Len(agents') \in {1, 2}
        <3> HIDE DEF IInv, Taken, RolesInOrder, r
        <3> QED BY <2>1, Inserted
    <2> HIDE DEF r
    <2>3. TypeOK'
        BY <1>6, <2>2 DEF CreateRow, Enrollments
    <2>4. HostKeepsItsRow'
        BY <1>6, <2>1, <2>2 DEF CreateRow
    <2>5. Copied'
        BY <1>6, <2>1, <2>2 DEF CreateRow
    <2>6. Picked'
        BY <1>6, <2>2 DEF CreateRow
    <2>7. Alone'
        BY <1>6, <2>1, <2>2 DEF CreateRow
    <2> QED BY <2>2, <2>3, <2>4, <2>5, <2>6, <2>7
<1>7. ASSUME NEW d \in Daemons, CreateRowFails(d) PROVE IInv'
    BY <1>7 DEF CreateRowFails
<1>8. ASSUME NEW d \in Daemons, IssueToken(d) PROVE IInv'
    BY <1>8 DEF IssueToken
<1>9. ASSUME NEW d \in Daemons, AwaitApproval(d) PROVE IInv'
    BY <1>9 DEF AwaitApproval
<1>10. ASSUME NEW d \in Daemons, OpenStream(d) PROVE IInv'
    BY <1>10 DEF OpenStream
<1>11. ASSUME NEW d \in Daemons, OpenStreamFails(d) PROVE IInv'
    BY <1>11 DEF OpenStreamFails
<1>12. ASSUME NEW d \in Daemons, DaemonBreaks(d) PROVE IInv'
    BY <1>12 DEF DaemonBreaks
<1>13. ASSUME ServerRestarts PROVE IInv'
    BY <1>13 DEF ServerRestarts
<1>14. ASSUME NEW host \in Hosts, NEW r \in Roles, CreateAgent(host, r) PROVE IInv'
    <2> DEFINE q == [host |-> host, role |-> r, auto |-> FALSE, enrollment |-> "approved"]
    <2>1. /\ agents' = Append(agents, q) /\ q \in Row /\ q.role \notin Taken /\ ~q.auto
          /\ q.host = host /\ q.enrollment = "approved"
        BY <1>14 DEF CreateAgent, Row, Enrollments
    <2>2. /\ agents' \in Seq(Row) /\ Len(agents') <= 2 /\ RolesInOrder'
          /\ Taken \subseteq Taken'
          /\ \A n \in DOMAIN agents : n \in DOMAIN agents' /\ agents'[n] = agents[n]
          /\ DOMAIN agents' = DOMAIN agents \cup {Len(agents')}
          /\ agents'[Len(agents')] = q
        <3> HIDE DEF IInv, Taken, RolesInOrder, q
        <3> QED BY <2>1, Inserted
    <2> HIDE DEF q
    <2> QED BY <1>14, <2>1, <2>2 DEF CreateAgent
<1>15. ASSUME NEW n \in DOMAIN agents, ApproveAgent(n) PROVE IInv'
    <2>1. agents' = [agents EXCEPT ![n].enrollment = "approved"] /\ UNCHANGED <<pc, role, row, tokens, faults, excused>>
        BY <1>15 DEF ApproveAgent
    <2>3. vetted' = vetted \cup {n}
        BY <1>15 DEF ApproveAgent
    <2>2. "approved" \in Enrollments
        BY DEF Enrollments
    <2> HIDE DEF IInv
    <2> QED BY <2>1, <2>2, <2>3, Decided
<1>16. ASSUME NEW n \in DOMAIN agents, RejectAgent(n) PROVE IInv'
    <2>1. agents' = [agents EXCEPT ![n].enrollment = "rejected"] /\ UNCHANGED <<pc, role, row, tokens, faults, excused>>
        BY <1>16 DEF RejectAgent
    <2>3. vetted' = vetted
        BY <1>16 DEF RejectAgent
    <2>2. "rejected" \in Enrollments
        BY DEF Enrollments
    <2> HIDE DEF IInv
    <2> QED BY <2>1, <2>2, <2>3, Decided
<1>17. CASE UNCHANGED vars
    BY <1>17 DEF vars
<1> QED BY <1>1, <1>2, <1>3, <1>4, <1>5, <1>6, <1>7, <1>8, <1>9, <1>10, <1>11, <1>12, <1>13, <1>14, <1>15, <1>16, <1>17 DEF Next, DaemonStep

\* The strengthening holds in every reachable state.
LEMMA Invariant == Spec => []IInv
<1> QED BY InitIInv, NextIInv, PTL DEF Spec

-----------------------------------------------------------------------------

\* Every variable keeps its type: a project has two rows at most, and a Register
\* past its lookup has a row that exists.
THEOREM TypeCorrect == Spec => []TypeOK
<1>1. IInv => TypeOK
    BY DEF IInv
<1> QED BY <1>1, Invariant, PTL

\* However many Registers and admins pick a role at once, each is given away once,
\* and no daemon is made a secondary without a primary.
THEOREM RolesHold == Spec => []RolesInOrder
<1>1. IInv => RolesInOrder
    BY DEF IInv
<1> QED BY <1>1, Invariant, PTL

\* A host has one row, but for the overlaps and misreads that the model names.
THEOREM HostHolds == Spec => []HostKeepsItsRow
<1>1. IInv => HostKeepsItsRow
    BY DEF IInv
<1> QED BY <1>1, Invariant, PTL

\* No daemon opens a stream on a row that no admin has approved, or on another
\* host's, whatever it was told and however long ago.
THEOREM StreamHolds == Spec => []StreamIsApproved
<1>1. IInv => StreamIsApproved
    BY DEF IInv, TypeOK, Copied, StreamIsApproved
<1> QED BY <1>1, Invariant, PTL

=============================================================================
