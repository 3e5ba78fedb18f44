------------------------ MODULE WebShellSessionsProofs ------------------------
(***************************************************************************)
(* The safety of WebShellSessions for every set of tickets, connections    *)
(* and sessions.  What a session is to its ticket is spread over the table *)
(* (which a second session of the ticket overwrites), the session's own    *)
(* once and the ticket's revoke; IInv relates the three.                   *)
(***************************************************************************)
EXTENDS WebShellSessions, FiniteSetTheorems, SequenceTheorems, TLAPS

USE DEF CreateSession, SetSessionRunning, CloseSession

-----------------------------------------------------------------------------
(* The inductive invariant *)

\* A session being set up belongs to the one handler that made it.
Making ==
    /\ \A c \in Conns : pc[c] # "idle" => want[c] \in Tickets
    /\ \A c \in Conns : pc[c] \in {"made", "saved"} =>
        /\ at[c] \in Sessions
        /\ once[at[c]] = "fresh"
        /\ owner[at[c]] = want[c]
        /\ row[at[c]] \in {"allocated", "running"}
        /\ pc[c] = "made" => row[at[c]] = "allocated"
    /\ \A c, d \in Conns :
        pc[c] \in {"made", "saved"} /\ pc[d] \in {"made", "saved"} /\ at[c] = at[d] => c = d
    /\ \A s \in Sessions : once[s] # "unused" => owner[s] \in Tickets

\* broadcast is under way only while somebody is left to serve.
Serving == \A s \in Sessions : pump[s] = "send" => queue[s] # <<>>

\* Sessions of one ticket that overlap are on record, and so is whoever the table
\* has lost.
Sharing ==
    /\ \A s \in beside : once[s] \notin {"unused", "fresh"}
    /\ \A s, u \in Sessions :
        /\ s # u /\ owner[s] = owner[u]
        /\ once[s] \in {"open", "torn"} /\ once[u] \in {"open", "torn"}
        => s \in beside
    /\ \A s \in Sessions :
        once[s] = "open" => sessions[owner[s]] = s \/ s \in beside

\* The sessions a revoke must find: which they are, and where they are found.
Finding ==
    /\ \A s \in early : once[s] \notin {"unused", "fresh"}
    /\ \A s \in early : once[s] = "open" =>
        /\ ticket[owner[s]] = "closing" => target[owner[s]] = s \/ s \in beside
        /\ ticket[owner[s]] = "revoked" => s \in beside

IInv == TypeOK /\ Making /\ Serving /\ TableIsLive /\ Sharing /\ Finding /\ RowsAreTrue

-----------------------------------------------------------------------------
(* The steps, by what they touch *)

\* The steps that leave the table, the life of every session and every revoke
\* as they are, and set up no session.
Quiet ==
    UNCHANGED <<engine, sessions, owner, row, once, history>>

\* The process is gone, and one of the two reasons is on record.
Died == Down /\ (panicked' \/ crashed')

\* Every step of the module is quiet, or one of those that are not.
LEMMA StepCases ==
    ASSUME Next
    PROVE  \/ Quiet
           \/ \E c \in Conns, s \in Sessions : OpenDial(c, s)
           \/ \E c \in Conns : OpenAbandon(c) \/ OpenSave(c) \/ OpenInsert(c)
           \/ \E s \in Sessions : CloseTear(s) \/ CloseUnlist(s) \/ CloseRow(s)
           \/ \E t \in Tickets : RevokeClaim(t) \/ ForceLookup(t) \/ ForceDone(t)
           \/ Died
<1> USE DEF Quiet, life, engine, history, conns, pumps
<1>1. ASSUME NEW c \in Conns, NEW t \in Tickets, OpenCheck(c, t) PROVE Quiet
  BY <1>1 DEF OpenCheck, Go
<1>2. ASSUME NEW c \in Conns, OpenLookup(c) PROVE Quiet
  BY <1>2 DEF OpenLookup, Go
<1>3. ASSUME NEW c \in Conns, OpenFail(c) PROVE Quiet
  BY <1>3 DEF OpenFail, Go
<1>4. ASSUME NEW c \in Conns, Subscribe(c) PROVE Quiet
  BY <1>4 DEF Subscribe, Go
<1>5. ASSUME NEW c \in Conns, ClientLeaves(c) PROVE Quiet
  BY <1>5 DEF ClientLeaves, Go
<1>6. ASSUME NEW c \in Conns, ReadEnds(c) PROVE Quiet
  BY <1>6 DEF ReadEnds, Go
<1>7. ASSUME NEW c \in Conns, Unsubscribe(c) PROVE Quiet
  BY <1>7 DEF Unsubscribe, Go
<1>8. ASSUME NEW c \in Conns, WriterTake(c) PROVE Quiet
  BY <1>8 DEF WriterTake
<1>9. ASSUME NEW c \in Conns, WriterSent(c) PROVE Quiet
  BY <1>9 DEF WriterSent
<1>10. ASSUME NEW c \in Conns, WriterEnds(c) PROVE Quiet
  BY <1>10 DEF WriterEnds
<1>11. ASSUME NEW s \in Sessions, PumpRead(s) PROVE Quiet
  BY <1>11 DEF PumpRead
<1>12. ASSUME NEW s \in Sessions, PumpSend(s) PROVE Quiet
  BY <1>12 DEF PumpSend
<1>13. ASSUME NEW s \in Sessions, PumpAbort(s) PROVE Quiet
  BY <1>13 DEF PumpAbort
<1>14. ASSUME NEW s \in Sessions, PumpFails(s) PROVE Quiet
  BY <1>14 DEF PumpFails
<1>15. ASSUME NEW s \in Sessions, PumpEnds(s) PROVE Quiet
  BY <1>15 DEF PumpEnds
<1>16. ASSUME NEW s \in Sessions, RemoteEnds(s) PROVE Quiet
  BY <1>16 DEF RemoteEnds
<1>17. ASSUME NEW s \in Sessions, PumpPanic(s) PROVE Died
  BY <1>17 DEF PumpPanic, Down, Died
<1>18. Crash => Died
  BY DEF Crash, Down, Died
<1> QED
  BY Zenon, <1>1, <1>2, <1>3, <1>4, <1>5, <1>6, <1>7, <1>8, <1>9, <1>10, <1>11, <1>12, <1>13, <1>14, <1>15, <1>16, <1>17, <1>18
  DEF Next, HandlerStep, WriterStep, PumpStep, CloseStep, ForceStep





-----------------------------------------------------------------------------
(* Types *)

\* What broadcast copies is a sequence of connections, empty for nobody.
LEMMA OrdersAreSequences ==
    ASSUME NEW s \in Sessions, NEW order \in SetToSeqs(Subs(s)), Subs(s) # {}
    PROVE  order \in Seq(Conns) /\ order # <<>>
<1>1. IsFiniteSet(Subs(s))
  BY ConstantsAssumption, FS_Subset DEF Subs
<1> DEFINE n == Cardinality(Subs(s))
<1>2. n \in Nat /\ n # 0
  BY <1>1, FS_CardinalityType, FS_EmptySet
<1>3. order \in [1..n -> Subs(s)]
  BY DEF SetToSeqs
<1>4. Subs(s) \subseteq Conns
  BY DEF Subs
<1> HIDE DEF n
<1> QED
  BY <1>2, <1>3, <1>4

\* Serving, and the types with it: a pump in "send" has a queue to take from.
LEMMA TypeStep ==
    ASSUME TypeOK, Making, Serving, Next
    PROVE  TypeOK' /\ Serving'
<1> USE DEF TypeOK, Serving, life, engine, history, conns, pumps

<1>1. ASSUME NEW c \in Conns, NEW t \in Tickets, OpenCheck(c, t) PROVE TypeOK' /\ Serving'
  BY <1>1 DEF OpenCheck, Go
<1>2. ASSUME NEW c \in Conns, OpenLookup(c) PROVE TypeOK' /\ Serving'
  BY <1>2 DEF OpenLookup, Go, Making
<1>3. ASSUME NEW c \in Conns, NEW s \in Sessions, OpenDial(c, s) PROVE TypeOK' /\ Serving'
  BY <1>3 DEF OpenDial, Go, Making
<1>4. ASSUME NEW c \in Conns, OpenFail(c) PROVE TypeOK' /\ Serving'
  BY <1>4 DEF OpenFail, Go
<1>5. ASSUME NEW c \in Conns, OpenAbandon(c) PROVE TypeOK' /\ Serving'
  BY <1>5 DEF OpenAbandon, Go, Making
<1>6. ASSUME NEW c \in Conns, OpenInsert(c) PROVE TypeOK' /\ Serving'
  <2>1. at[c] \in Sessions /\ want[c] \in Tickets
    BY <1>6 DEF OpenInsert, Go, Making
  <2>2. beside' \in SUBSET Sessions
    BY <1>6, <2>1 DEF OpenInsert, Unfinished
  <2> QED BY <1>6, <2>1, <2>2 DEF OpenInsert, Go
<1>7. ASSUME NEW c \in Conns, Subscribe(c) PROVE TypeOK' /\ Serving'
  BY <1>7 DEF Subscribe, Go
<1>8. ASSUME NEW c \in Conns, ClientLeaves(c) PROVE TypeOK' /\ Serving'
  BY <1>8 DEF ClientLeaves, Go
<1>9. ASSUME NEW c \in Conns, ReadEnds(c) PROVE TypeOK' /\ Serving'
  BY <1>9 DEF ReadEnds, Go
<1>10. ASSUME NEW c \in Conns, Unsubscribe(c) PROVE TypeOK' /\ Serving'
  BY <1>10 DEF Unsubscribe, Go
<1>11. ASSUME NEW c \in Conns, WriterTake(c) PROVE TypeOK' /\ Serving'
  <2>1. chan' \in [Conns -> 0..Cap]
    BY <1>11, ConstantsAssumption DEF WriterTake
  <2> QED
    BY <1>11, <2>1 DEF WriterTake
<1>12. ASSUME NEW c \in Conns, WriterSent(c) PROVE TypeOK' /\ Serving'
  BY <1>12 DEF WriterSent
<1>13. ASSUME NEW c \in Conns, WriterEnds(c) PROVE TypeOK' /\ Serving'
  BY <1>13 DEF WriterEnds
<1>14. ASSUME NEW s \in Sessions, PumpRead(s) PROVE TypeOK' /\ Serving'
  <2>1. PICK order \in SetToSeqs(Subs(s)) : queue' = [queue EXCEPT ![s] = order]
    BY <1>14 DEF PumpRead
  <2>2. order \in Seq(Conns) /\ order # <<>>
    BY <1>14, OrdersAreSequences DEF PumpRead
  <2> QED
    BY <1>14, <2>1, <2>2 DEF PumpRead
<1>15. ASSUME NEW s \in Sessions, PumpSend(s) PROVE TypeOK' /\ Serving'
  <2>1. queue[s] \in Seq(Conns) /\ queue[s] # <<>>
    BY <1>15 DEF PumpSend
  <2>2. Head(queue[s]) \in Conns /\ Tail(queue[s]) \in Seq(Conns)
    BY <2>1
  <2>3. Len(queue[s]) # 1 => Tail(queue[s]) # <<>>
    <3>1. Len(queue[s]) = Len(Tail(queue[s])) + 1
      <4>1. Len(queue[s]) \in Nat
        BY <2>1
      <4> QED
        BY <2>1, <4>1, HeadTailProperties
    <3>2. Len(<<>>) = 0
      BY EmptySeq
    <3>3. Tail(queue[s]) = <<>> => Len(Tail(queue[s])) = 0
      BY ONLY <3>2, Zenon
    <3> QED
      BY ONLY <3>1, <3>3
  <2>4. chan' \in [Conns -> 0..Cap]
    BY <1>15, <2>2, ConstantsAssumption DEF PumpSend
  <2> QED
    BY <1>15, <2>2, <2>3, <2>4 DEF PumpSend
<1>16. ASSUME NEW s \in Sessions, PumpAbort(s) PROVE TypeOK' /\ Serving'
  BY <1>16 DEF PumpAbort
<1>17. ASSUME NEW s \in Sessions, PumpFails(s) PROVE TypeOK' /\ Serving'
  BY <1>17 DEF PumpFails
<1>18. ASSUME NEW s \in Sessions, PumpEnds(s) PROVE TypeOK' /\ Serving'
  BY <1>18 DEF PumpEnds
<1>19. ASSUME NEW s \in Sessions, RemoteEnds(s) PROVE TypeOK' /\ Serving'
  BY <1>19 DEF RemoteEnds
<1>20. ASSUME NEW s \in Sessions, CloseTear(s) PROVE TypeOK' /\ Serving'
  BY <1>20 DEF CloseTear
<1>21. ASSUME NEW s \in Sessions, CloseUnlist(s) PROVE TypeOK' /\ Serving'
  BY <1>21 DEF CloseUnlist
<1>22. ASSUME NEW s \in Sessions, CloseRow(s) PROVE TypeOK' /\ Serving'
  BY <1>22 DEF CloseRow
<1>23. ASSUME NEW t \in Tickets, RevokeClaim(t) PROVE TypeOK' /\ Serving'
  BY <1>23 DEF RevokeClaim
<1>24. ASSUME NEW t \in Tickets, ForceLookup(t) PROVE TypeOK' /\ Serving'
  BY <1>24 DEF ForceLookup
<1>25. ASSUME NEW t \in Tickets, ForceDone(t) PROVE TypeOK' /\ Serving'
  BY <1>25 DEF ForceDone
<1>26. ASSUME Down, panicked' \in BOOLEAN, crashed' \in BOOLEAN
       PROVE  TypeOK' /\ Serving'
  BY <1>26, ConstantsAssumption DEF Down
<1>27. ASSUME NEW s \in Sessions, PumpPanic(s) PROVE TypeOK' /\ Serving'
  BY <1>27, <1>26 DEF PumpPanic
<1>28. Crash => TypeOK' /\ Serving'
  BY <1>26 DEF Crash
<1>29. ASSUME NEW c \in Conns, OpenSave(c) PROVE TypeOK' /\ Serving'
  <2>1. at[c] \in Sessions
    BY <1>29 DEF OpenSave, Go, Making
  <2>2. row' \in [Sessions -> {"none", "allocated", "running", "closed"}]
    BY <1>29, <2>1 DEF OpenSave
  <2> QED
    BY <1>29, <2>2 DEF OpenSave, Go
<1> QED
  BY Zenon, <1>1, <1>2, <1>3, <1>4, <1>5, <1>6, <1>7, <1>8, <1>9, <1>10,
     <1>11, <1>12, <1>13, <1>14, <1>15, <1>16, <1>17, <1>18, <1>19, <1>20,
     <1>21, <1>22, <1>23, <1>24, <1>25, <1>26, <1>27, <1>28, <1>29
  DEF Next, HandlerStep, WriterStep, PumpStep, CloseStep, ForceStep

-----------------------------------------------------------------------------
(* Sessions being set up *)

LEMMA MakingStep ==
    ASSUME TypeOK, Making, Next
    PROVE  Making'
<1> USE DEF TypeOK, Making, life, engine, history, conns, pumps

<1>1. ASSUME NEW c \in Conns, NEW t \in Tickets, OpenCheck(c, t) PROVE Making'
  BY <1>1, ConstantsAssumption DEF OpenCheck, Go
<1>2. ASSUME NEW c \in Conns, OpenLookup(c) PROVE Making'
  BY <1>2, ConstantsAssumption DEF OpenLookup, Go
<1>3. ASSUME NEW c \in Conns, NEW s \in Sessions, OpenDial(c, s) PROVE Making'
  BY <1>3, ConstantsAssumption DEF OpenDial, Go
<1>4. ASSUME NEW c \in Conns, OpenFail(c) PROVE Making'
  BY <1>4, ConstantsAssumption DEF OpenFail, Go
<1>5. ASSUME NEW c \in Conns, OpenAbandon(c) PROVE Making'
  BY <1>5, ConstantsAssumption DEF OpenAbandon, Go
<1>6. ASSUME NEW c \in Conns, OpenInsert(c) PROVE Making'
  BY <1>6, ConstantsAssumption DEF OpenInsert, Go
<1>7. ASSUME NEW c \in Conns, Subscribe(c) PROVE Making'
  BY <1>7, ConstantsAssumption DEF Subscribe, Go
<1>8. ASSUME NEW c \in Conns, ClientLeaves(c) PROVE Making'
  BY <1>8, ConstantsAssumption DEF ClientLeaves, Go
<1>9. ASSUME NEW c \in Conns, ReadEnds(c) PROVE Making'
  BY <1>9, ConstantsAssumption DEF ReadEnds, Go
<1>10. ASSUME NEW c \in Conns, Unsubscribe(c) PROVE Making'
  BY <1>10, ConstantsAssumption DEF Unsubscribe, Go
<1>11. ASSUME NEW c \in Conns, WriterTake(c) PROVE Making'
  BY <1>11, ConstantsAssumption DEF WriterTake
<1>12. ASSUME NEW c \in Conns, WriterSent(c) PROVE Making'
  BY <1>12, ConstantsAssumption DEF WriterSent
<1>13. ASSUME NEW c \in Conns, WriterEnds(c) PROVE Making'
  BY <1>13, ConstantsAssumption DEF WriterEnds
<1>14. ASSUME NEW s \in Sessions, PumpRead(s) PROVE Making'
  BY <1>14, ConstantsAssumption DEF PumpRead
<1>15. ASSUME NEW s \in Sessions, PumpSend(s) PROVE Making'
  BY <1>15, ConstantsAssumption DEF PumpSend
<1>16. ASSUME NEW s \in Sessions, PumpAbort(s) PROVE Making'
  BY <1>16, ConstantsAssumption DEF PumpAbort
<1>17. ASSUME NEW s \in Sessions, PumpFails(s) PROVE Making'
  BY <1>17, ConstantsAssumption DEF PumpFails
<1>18. ASSUME NEW s \in Sessions, PumpEnds(s) PROVE Making'
  BY <1>18, ConstantsAssumption DEF PumpEnds
<1>19. ASSUME NEW s \in Sessions, RemoteEnds(s) PROVE Making'
  BY <1>19, ConstantsAssumption DEF RemoteEnds
<1>20. ASSUME NEW s \in Sessions, CloseTear(s) PROVE Making'
  BY <1>20, ConstantsAssumption DEF CloseTear
<1>21. ASSUME NEW s \in Sessions, CloseUnlist(s) PROVE Making'
  BY <1>21, ConstantsAssumption DEF CloseUnlist
<1>22. ASSUME NEW s \in Sessions, CloseRow(s) PROVE Making'
  BY <1>22, ConstantsAssumption DEF CloseRow
<1>23. ASSUME NEW t \in Tickets, RevokeClaim(t) PROVE Making'
  BY <1>23, ConstantsAssumption DEF RevokeClaim
<1>24. ASSUME NEW t \in Tickets, ForceLookup(t) PROVE Making'
  BY <1>24, ConstantsAssumption DEF ForceLookup
<1>25. ASSUME NEW t \in Tickets, ForceDone(t) PROVE Making'
  BY <1>25, ConstantsAssumption DEF ForceDone
<1>26. Down => Making'
  BY DEF Down
<1>27. ASSUME NEW c \in Conns, OpenSave(c) PROVE Making'
  BY <1>27 DEF OpenSave, Go
<1> QED
  BY Zenon, <1>1, <1>2, <1>3, <1>4, <1>5, <1>6, <1>7, <1>8, <1>9, <1>10,
     <1>11, <1>12, <1>13, <1>14, <1>15, <1>16, <1>17, <1>18, <1>19, <1>20,
     <1>21, <1>22, <1>23, <1>24, <1>25, <1>26, <1>27
  DEF Next, HandlerStep, WriterStep, PumpStep, CloseStep, ForceStep,
      PumpPanic, Crash

-----------------------------------------------------------------------------
(* The table, the rows and the sessions a revoke must find *)

LEMMA TableStep ==
    ASSUME TypeOK, Making, TableIsLive, Next
    PROVE  TableIsLive'
<1> USE DEF TypeOK, Making, TableIsLive
<1>1. CASE Quiet
  BY <1>1 DEF Quiet
<1>2. ASSUME NEW c \in Conns, NEW s \in Sessions, OpenDial(c, s) PROVE TableIsLive'
  BY <1>2 DEF OpenDial, Go
<1>3. ASSUME NEW c \in Conns, OpenAbandon(c) PROVE TableIsLive'
  BY <1>3 DEF OpenAbandon, Go
<1>4. ASSUME NEW c \in Conns, OpenInsert(c) PROVE TableIsLive'
  BY <1>4 DEF OpenInsert, Go
<1>5. ASSUME NEW s \in Sessions, CloseTear(s) PROVE TableIsLive'
  BY <1>5 DEF CloseTear
<1>6. ASSUME NEW s \in Sessions, CloseUnlist(s) PROVE TableIsLive'
  BY <1>6 DEF CloseUnlist
<1>7. ASSUME NEW s \in Sessions, CloseRow(s) PROVE TableIsLive'
  BY <1>7 DEF CloseRow
<1>8. ASSUME NEW t \in Tickets, RevokeClaim(t) \/ ForceLookup(t) \/ ForceDone(t)
      PROVE  TableIsLive'
  BY <1>8 DEF RevokeClaim, ForceLookup, ForceDone, life
<1>9. CASE Died
  BY <1>9 DEF Died, Down
<1>10. ASSUME NEW c \in Conns, OpenSave(c) PROVE TableIsLive'
  BY <1>10 DEF OpenSave
<1> QED
  BY StepCases, <1>1, <1>2, <1>3, <1>4, <1>5, <1>6, <1>7, <1>8, <1>9, <1>10

LEMMA RowsStep ==
    ASSUME TypeOK, Making, RowsAreTrue, Next
    PROVE  RowsAreTrue'
<1> USE DEF TypeOK, Making, RowsAreTrue, history
<1>1. CASE Quiet
  BY <1>1 DEF Quiet
<1>2. ASSUME NEW c \in Conns, NEW s \in Sessions, OpenDial(c, s) PROVE RowsAreTrue'
  BY <1>2 DEF OpenDial, Go
<1>3. ASSUME NEW c \in Conns, OpenAbandon(c) PROVE RowsAreTrue'
  BY <1>3 DEF OpenAbandon, Go
<1>4. ASSUME NEW c \in Conns, OpenInsert(c) PROVE RowsAreTrue'
  BY <1>4 DEF OpenInsert, Go
<1>5. ASSUME NEW s \in Sessions, CloseTear(s) PROVE RowsAreTrue'
  BY <1>5 DEF CloseTear
<1>6. ASSUME NEW s \in Sessions, CloseUnlist(s) PROVE RowsAreTrue'
  BY <1>6 DEF CloseUnlist
<1>7. ASSUME NEW s \in Sessions, CloseRow(s) PROVE RowsAreTrue'
  BY <1>7 DEF CloseRow
<1>8. ASSUME NEW t \in Tickets, RevokeClaim(t) \/ ForceLookup(t) \/ ForceDone(t)
      PROVE  RowsAreTrue'
  BY <1>8 DEF RevokeClaim, ForceLookup, ForceDone, life
<1>9. CASE Died
  BY <1>9 DEF Died, Down
<1>10. ASSUME NEW c \in Conns, OpenSave(c) PROVE RowsAreTrue'
  BY <1>10 DEF OpenSave, Go
<1> QED
  BY StepCases, <1>1, <1>2, <1>3, <1>4, <1>5, <1>6, <1>7, <1>8, <1>9, <1>10

\* A session becomes one of two only by OpenInsert, which puts both on record.
LEMMA SharingStep ==
    ASSUME TypeOK, Making, TableIsLive, Sharing, Next
    PROVE  Sharing'
<1> USE DEF TypeOK, Making, Sharing
<1>1. CASE Quiet
  BY <1>1 DEF Quiet, history
<1>2. ASSUME NEW c \in Conns, NEW s \in Sessions, OpenDial(c, s) PROVE Sharing'
  <2>1. /\ once[s] = "unused" /\ once' = [once EXCEPT ![s] = "fresh"]
        /\ owner' = [owner EXCEPT ![s] = want[c]]
        /\ UNCHANGED <<sessions, beside>>
    BY <1>2 DEF OpenDial, history
  <2> QED
    BY <2>1
<1>3. ASSUME NEW c \in Conns, OpenAbandon(c) \/ OpenSave(c) PROVE Sharing'
  <2>1. CASE OpenAbandon(c)
    <3>1. /\ at[c] \in Sessions /\ once[at[c]] = "fresh"
          /\ once' = [once EXCEPT ![at[c]] = "dead"]
          /\ UNCHANGED <<sessions, owner, beside>>
      BY <2>1 DEF OpenAbandon, Go, history
    <3> QED
      BY <3>1
  <2>2. CASE OpenSave(c)
    BY <2>2 DEF OpenSave, history
  <2> QED
    BY <1>3, <2>1, <2>2
<1>4. ASSUME NEW c \in Conns, OpenInsert(c) PROVE Sharing'
  <2> DEFINE s == at[c]
             t == want[c]
  <2>1. s \in Sessions /\ once[s] = "fresh" /\ s \notin beside /\ owner[s] = t /\ t \in Tickets
    BY <1>4 DEF OpenInsert, Go
  <2>2. /\ once' = [once EXCEPT ![s] = "open"]
        /\ sessions' = [sessions EXCEPT ![t] = s]
        /\ beside' = IF Unfinished(t) = {} THEN beside ELSE beside \cup Unfinished(t) \cup {s}
        /\ UNCHANGED owner
    BY <1>4 DEF OpenInsert
  <2>3. \A x \in Sessions : once[x] \in {"open", "torn"} /\ owner[x] = t => x \in beside' /\ s \in beside'
    BY <2>2 DEF Unfinished
  <2>4. \A x \in beside' : x \in beside \/ x = s \/ once[x] \in {"open", "torn"}
    BY <2>2 DEF Unfinished
  <2>5. beside \subseteq beside' /\ beside' \subseteq Sessions
    BY <2>1, <2>2 DEF Unfinished
  <2> HIDE DEF s, t
  <2>6. ASSUME NEW x \in beside' PROVE once'[x] \notin {"unused", "fresh"}
    <3>1. once'[x] = IF x = s THEN "open" ELSE once[x]
      BY <2>2, <2>5
    <3> QED
      BY <2>4, <3>1
  <2>7. ASSUME NEW x \in Sessions, NEW y \in Sessions, x # y, owner'[x] = owner'[y],
               once'[x] \in {"open", "torn"}, once'[y] \in {"open", "torn"}
        PROVE  x \in beside'
    BY <2>1, <2>2, <2>3, <2>5, <2>7
  <2>8. ASSUME NEW x \in Sessions, once'[x] = "open"
        PROVE  sessions'[owner'[x]] = x \/ x \in beside'
    BY <2>1, <2>2, <2>3, <2>5, <2>8
  <2> QED
    BY <2>6, <2>7, <2>8
<1>5. ASSUME NEW s \in Sessions, CloseTear(s) PROVE Sharing'
  BY <1>5 DEF CloseTear, history
<1>6. ASSUME NEW s \in Sessions, CloseUnlist(s) PROVE Sharing'
  <2>1. /\ once[s] = "torn" /\ once' = [once EXCEPT ![s] = "unlisted"]
        /\ sessions' = [sessions EXCEPT ![owner[s]] = NoSession]
        /\ UNCHANGED <<owner, beside>>
    BY <1>6 DEF CloseUnlist, history
  <2>2. owner[s] \in Tickets
    BY <2>1
  <2>3. ASSUME NEW x \in Sessions, once'[x] = "open"
        PROVE  sessions'[owner[x]] = x \/ x \in beside
    BY <2>1, <2>2, <2>3
  <2> QED
    BY <2>1, <2>3
<1>7. ASSUME NEW s \in Sessions, CloseRow(s) PROVE Sharing'
  BY <1>7 DEF CloseRow
<1>8. ASSUME NEW t \in Tickets, RevokeClaim(t) \/ ForceLookup(t) \/ ForceDone(t)
      PROVE  Sharing'
  BY <1>8 DEF RevokeClaim, ForceLookup, ForceDone, life, history
<1>9. CASE Died
  BY <1>9 DEF Died, Down
<1> QED
  BY StepCases, <1>1, <1>2, <1>3, <1>4, <1>5, <1>6, <1>7, <1>8, <1>9

LEMMA FindingStep ==
    ASSUME TypeOK, Making, TableIsLive, Sharing, Finding, Next
    PROVE  Finding'
<1> USE DEF TypeOK, Making, Finding
<1>1. CASE Quiet
  BY <1>1 DEF Quiet, engine, history
<1>2. ASSUME NEW c \in Conns, NEW s \in Sessions, OpenDial(c, s) PROVE Finding'
  <2>1. s \notin early
    BY <1>2 DEF OpenDial
  <2>2. /\ once' = [once EXCEPT ![s] = "fresh"]
        /\ owner' = [owner EXCEPT ![s] = want[c]]
        /\ UNCHANGED <<ticket, target, early, beside>>
    BY <1>2 DEF OpenDial, engine, history
  <2> QED
    BY <2>1, <2>2
<1>3. ASSUME NEW c \in Conns, OpenAbandon(c) \/ OpenSave(c) PROVE Finding'
  BY <1>3 DEF OpenAbandon, OpenSave, Go, engine, history
<1>4. ASSUME NEW c \in Conns, OpenInsert(c) PROVE Finding'
  <2> DEFINE s == at[c]
             t == want[c]
  <2>1. s \in Sessions /\ once[s] = "fresh" /\ s \notin early /\ owner[s] = t
    BY <1>4 DEF OpenInsert, Go
  <2>2. /\ once' = [once EXCEPT ![s] = "open"]
        /\ early' = IF ticket[t] \in {"active", "revoking"} THEN early \cup {s} ELSE early
        /\ beside \subseteq beside'
        /\ UNCHANGED <<ticket, target, owner>>
    BY <1>4 DEF OpenInsert, engine
  <2> HIDE DEF s, t
  <2> QED
    BY <2>1, <2>2
<1>5. ASSUME NEW s \in Sessions, CloseTear(s) PROVE Finding'
  BY <1>5 DEF CloseTear, engine, history
<1>6. ASSUME NEW s \in Sessions, CloseUnlist(s) PROVE Finding'
  BY <1>6 DEF CloseUnlist, engine, history
<1>7. ASSUME NEW s \in Sessions, CloseRow(s) PROVE Finding'
  BY <1>7 DEF CloseRow, engine
<1>8. ASSUME NEW t \in Tickets, RevokeClaim(t) \/ ForceLookup(t) \/ ForceDone(t)
      PROVE  Finding'
  <2>1. UNCHANGED <<sessions, owner, once, early, beside>>
    BY <1>8 DEF RevokeClaim, ForceLookup, ForceDone, life, history
  <2>3. CASE RevokeClaim(t)
    BY <2>1, <2>3 DEF RevokeClaim
  <2>4. CASE ForceLookup(t)
    BY <2>1, <2>4, ConstantsAssumption DEF ForceLookup, Sharing
  <2>5. CASE ForceDone(t)
    BY <2>1, <2>5 DEF ForceDone
  <2> QED
    BY <1>8, <2>3, <2>4, <2>5
<1>9. CASE Died
  BY <1>9 DEF Died, Down
<1> QED
  BY StepCases, <1>1, <1>2, <1>3, <1>4, <1>5, <1>6, <1>7, <1>8, <1>9

\* No step strands a pump or a revoke: a session leaves "open" in Close only, its
\* pump ends after that, and a revoke finds what TableIsLive says it does.
LEMMA CloseStands ==
    ASSUME TypeOK, Making, TableIsLive, CloseCanGoOn, Next
    PROVE  CloseCanGoOn'
<1> USE DEF TypeOK, CloseCanGoOn, Closed, engine, life, conns, pumps, history, Go
<1>1. CASE UNCHANGED <<ticket, target, once, pump>>
  BY <1>1
<1>2. ASSUME NEW c \in Conns,
             \/ \E t \in Tickets : OpenCheck(c, t)
             \/ OpenLookup(c) \/ OpenFail(c) \/ OpenSave(c)
             \/ Subscribe(c) \/ ReadEnds(c) \/ Unsubscribe(c)
             \/ ClientLeaves(c) \/ WriterStep(c) \/ WriterSent(c)
      PROVE  UNCHANGED <<ticket, target, once, pump>>
  BY <1>2 DEF OpenCheck, OpenLookup, OpenFail, OpenSave, Subscribe, ReadEnds, Unsubscribe, ClientLeaves,
              WriterStep, WriterTake, WriterEnds, WriterSent
<1>3. ASSUME NEW s \in Sessions, RemoteEnds(s)
      PROVE  UNCHANGED <<ticket, target, once, pump>>
  BY <1>3 DEF RemoteEnds
<1>4. ASSUME NEW s \in Sessions, PumpRead(s) \/ PumpSend(s) \/ PumpAbort(s) \/ PumpFails(s)
      PROVE  CloseCanGoOn'
  <2>1. /\ pump[s] \in {"read", "send"}
        /\ \E to \in {"read", "send", "close"} : pump' = [pump EXCEPT ![s] = to]
        /\ UNCHANGED <<ticket, target, once>>
    BY <1>4 DEF PumpRead, PumpSend, PumpAbort, PumpFails
  <2> QED
    BY <2>1
<1>5. ASSUME NEW s \in Sessions, PumpEnds(s) PROVE CloseCanGoOn'
  BY <1>5 DEF PumpEnds
<1>6. ASSUME NEW c \in Conns, NEW s \in Sessions, OpenDial(c, s) PROVE CloseCanGoOn'
  BY <1>6 DEF OpenDial
<1>7. ASSUME NEW c \in Conns, OpenAbandon(c) PROVE CloseCanGoOn'
  BY <1>7 DEF OpenAbandon, Making
<1>8. ASSUME NEW c \in Conns, OpenInsert(c) PROVE CloseCanGoOn'
  <2> DEFINE s == at[c]
  <2>1. /\ s \in Sessions /\ once[s] = "fresh"
        /\ once' = [once EXCEPT ![s] = "open"] /\ pump' = [pump EXCEPT ![s] = "read"]
        /\ UNCHANGED <<ticket, target>>
    BY <1>8 DEF OpenInsert, Making
  <2> HIDE DEF s
  <2> QED
    BY <2>1
<1>9. ASSUME NEW s \in Sessions, CloseStep(s) PROVE CloseCanGoOn'
  <2>1. /\ once[s] \in {"open", "torn", "unlisted"}
        /\ \E to \in {"torn", "unlisted", "done"} : once' = [once EXCEPT ![s] = to]
        /\ UNCHANGED <<ticket, target, pump>>
    BY <1>9 DEF CloseStep, CloseTear, CloseUnlist, CloseRow
  <2> QED
    BY <2>1
<1>10. ASSUME NEW t \in Tickets, RevokeClaim(t) \/ ForceDone(t) PROVE CloseCanGoOn'
  BY <1>10 DEF RevokeClaim, ForceDone
<1>11. ASSUME NEW t \in Tickets, ForceLookup(t) PROVE CloseCanGoOn'
  BY <1>11 DEF ForceLookup, TableIsLive
<1>12. ASSUME Down PROVE CloseCanGoOn'
  BY <1>12 DEF Down
<1> QED
  BY Zenon, <1>1, <1>2, <1>3, <1>4, <1>5, <1>6, <1>7, <1>8, <1>9, <1>10, <1>11, <1>12
  DEF Next, HandlerStep, PumpStep, ForceStep, PumpPanic, Crash

-----------------------------------------------------------------------------
(* The theorems *)

LEMMA InitIInv == Init => IInv
<1> SUFFICES ASSUME Init PROVE IInv
  OBVIOUS
<1>1. TypeOK
  <2>1. chan \in [Conns -> 0..Cap]
    BY ConstantsAssumption DEF Init
  <2>2. queue \in [Sessions -> Seq(Conns)]
    BY DEF Init
  <2> QED
    BY <2>1, <2>2 DEF Init, TypeOK
<1>2. Making /\ Serving /\ TableIsLive /\ Sharing /\ Finding /\ RowsAreTrue
  BY ConstantsAssumption DEF Init, Making, Serving, TableIsLive, Sharing, Finding, RowsAreTrue
<1> QED
  BY <1>1, <1>2 DEF IInv

LEMMA Invariance == Spec => []IInv
<1>1. IInv /\ [Next]_vars => IInv'
  <2>1. CASE IInv /\ Next
    BY <2>1, TypeStep, MakingStep, TableStep, SharingStep, FindingStep, RowsStep DEF IInv
  <2>2. CASE IInv /\ UNCHANGED vars
    BY <2>2
    DEF vars, engine, life, conns, pumps, history, IInv, TypeOK, Making, Serving,
        TableIsLive, Sharing, Finding, RowsAreTrue
  <2> QED
    BY <2>1, <2>2
<1> QED
  BY InitIInv, <1>1, PTL DEF Spec

\* Every variable keeps its type: a broadcast counts into channels with room
\* and serves connections only.
THEOREM TypeCorrect == Spec => []TypeOK
<1>1. IInv => TypeOK
  BY DEF IInv
<1> QED
  BY <1>1, Invariance, PTL

\* OpenForTicket and ForceCloseByTicket never act on a session of the past, for
\* any number of handlers that dial at once.
THEOREM TableLive == Spec => []TableIsLive
<1>1. IInv => TableIsLive
  BY DEF IInv
<1> QED
  BY <1>1, Invariance, PTL

\* A revoke shuts every session it could find; one it misses had overlapped with
\* another session of the ticket.
THEOREM ForceCloseThorough == Spec => []ForceCloseIsThorough
<1>1. IInv => ForceCloseIsThorough
  BY DEF IInv, TypeOK, Finding, ForceCloseIsThorough
<1> QED
  BY <1>1, Invariance, PTL

\* What the session rows say of a session is so, but for a crash or an update
\* that failed.
THEOREM RowsTrue == Spec => []RowsAreTrue
<1>1. IInv => RowsAreTrue
  BY DEF IInv
<1> QED
  BY <1>1, Invariance, PTL

\* Whoever calls Close, ForceCloseByTicket or the pump, is not left waiting for one
\* that cannot run, and no session is left without anybody to call it, however
\* many tickets, handlers and closers there are.
THEOREM CloseGoesOn == Spec => []CloseCanGoOn
<1>1. Init => CloseCanGoOn
  BY DEF Init, CloseCanGoOn
<1>2. CloseCanGoOn /\ UNCHANGED vars => CloseCanGoOn'
  BY DEF CloseCanGoOn, Closed, vars, engine, life, pumps
<1>3. IInv /\ CloseCanGoOn /\ [Next]_vars => CloseCanGoOn'
  BY <1>2, CloseStands DEF IInv
<1> QED
  BY <1>1, <1>3, Invariance, PTL DEF Spec

\* Together: the manager's table holds no session of the past, and none that nobody
\* will take out.
THEOREM TableKept == Spec => []TableIsKept
BY TableLive, CloseGoesOn, PTL DEF TableIsKept

-----------------------------------------------------------------------------
(* Implementation of ShellTable *)

\* The session a revoke found is one of its ticket.
Found == \A t \in Tickets : ticket[t] = "closing" => owner[target[t]] = t

LEMMA FoundStep ==
    ASSUME TypeOK, Making, TableIsLive, CloseCanGoOn, Found, Next
    PROVE  Found'
<1> USE DEF TypeOK, Found
<1>1. CASE Quiet
  BY <1>1 DEF Quiet, engine
<1>2. ASSUME NEW c \in Conns, NEW s \in Sessions, OpenDial(c, s) PROVE Found'
  <2>1. /\ once[s] = "unused" /\ owner' = [owner EXCEPT ![s] = want[c]]
        /\ UNCHANGED <<ticket, target>>
    BY <1>2 DEF OpenDial, engine
  <2>2. \A t \in Tickets : ticket[t] = "closing" => target[t] # s
    BY <2>1 DEF CloseCanGoOn, Closed
  <2> QED
    BY <2>1, <2>2
<1>3. ASSUME NEW c \in Conns, OpenAbandon(c) \/ OpenSave(c) \/ OpenInsert(c) PROVE Found'
  BY <1>3 DEF OpenAbandon, OpenSave, OpenInsert, engine
<1>4. ASSUME NEW s \in Sessions, CloseTear(s) \/ CloseUnlist(s) \/ CloseRow(s) PROVE Found'
  BY <1>4 DEF CloseTear, CloseUnlist, CloseRow, engine
<1>5. ASSUME NEW t \in Tickets, RevokeClaim(t) \/ ForceDone(t) PROVE Found'
  BY <1>5 DEF RevokeClaim, ForceDone, life
<1>6. ASSUME NEW t \in Tickets, ForceLookup(t) PROVE Found'
  BY <1>6 DEF ForceLookup, life, TableIsLive
<1>7. CASE Died
  BY <1>7 DEF Died, Down
<1> QED
  BY StepCases, <1>1, <1>2, <1>3, <1>4, <1>5, <1>6, <1>7

PInv == IInv /\ CloseCanGoOn /\ Found

\* What is visible of a revoke depends on the session it found, and on no other.
LEMMA RevokeStays ==
    ASSUME UNCHANGED engine,
           \A t \in Tickets : ticket[t] = "closing" =>
               (Closed(target[t])' <=> Closed(target[t]))
    PROVE  UNCHANGED Revoke
BY DEF Revoke, engine, Closed

\* The view of one revoke moves.
LEMMA RevokeMoves ==
    ASSUME NEW t \in Tickets, NEW to, Revoke'[t] = to,
           \A u \in Tickets \ {t} : Revoke'[u] = Revoke[u]
    PROVE  Revoke' = [Revoke EXCEPT ![t] = to]
BY DEF Revoke

\* A terminal that goes on to where no session is made any more.
LEMMA Leaves ==
    ASSUME TypeOK, NEW c \in Conns, NEW to \in {"attach", "gone"},
           pc' = [pc EXCEPT ![c] = to], UNCHANGED want
    PROVE  Admitted' = [Admitted EXCEPT ![c] = NoTicket]
BY DEF TypeOK, Admitted

\* The shells are those that are registered or being torn down: nothing else that
\* happens to a session shows.
LEMMA ShellsStay ==
    ASSUME \A s \in Sessions :
               \/ once'[s] = once[s] /\ owner'[s] = owner[s]
               \/ /\ once[s] \notin {"open", "torn"}
                  /\ once'[s] \notin {"open", "torn"}
    PROVE  UNCHANGED <<Live, Ending>>
<1>1. \A t \in Tickets : Live'[t] = Live[t] /\ Ending'[t] = Ending[t]
  BY DEF Live, Ending
<1> QED
  BY <1>1 DEF Live, Ending

\* The shells of one ticket move.
LEMMA LiveMoves ==
    ASSUME NEW t \in Tickets, NEW to, Live'[t] = to,
           \A u \in Tickets : u # t => Live'[u] = Live[u]
    PROVE  Live' = [Live EXCEPT ![t] = to]
BY DEF Live

LEMMA EndingMoves ==
    ASSUME NEW t \in Tickets, NEW to, Ending'[t] = to,
           \A u \in Tickets : u # t => Ending'[u] = Ending[u]
    PROVE  Ending' = [Ending EXCEPT ![t] = to]
BY DEF Ending

\* The steps that change nothing of what is promised.
LEMMA HiddenShells ==
    ASSUME UNCHANGED <<engine, once, owner, beside, pc, want>>
    PROVE  UNCHANGED Shells!vars
<1>1. UNCHANGED Revoke /\ UNCHANGED Admitted
  BY DEF Revoke, Admitted, engine, Closed
<1>2. UNCHANGED <<Live, Ending>>
  BY ShellsStay
<1> QED
  BY <1>1, <1>2 DEF Shells!vars

\* Two live shells of a ticket are both on record.
LEMMA BothBeside ==
    ASSUME TypeOK, Sharing, NEW t \in Tickets, NEW s \in Sessions,
           once[s] \in {"open", "torn"}, owner[s] = t
    PROVE  Shells!Swept(t, {s})
BY DEF TypeOK, Sharing, Live, Shells!Swept

\* A terminal is admitted, and then opens a session or does not.
LEMMA TerminalShells ==
    ASSUME PInv, NEW c \in Conns,
           \/ \E t \in Tickets : OpenCheck(c, t)
           \/ HandlerStep(c) \/ ClientLeaves(c)
    PROVE  [Shells!Next]_(Shells!vars)
<1> USE DEF PInv, IInv, TypeOK, Making, Go, pumps
<1>1. ASSUME NEW t \in Tickets, OpenCheck(c, t) PROVE Shells!Next
  <2>1. UNCHANGED <<engine, once, owner, beside>>
    BY <1>1 DEF OpenCheck, life, history
  <2>2. UNCHANGED Revoke /\ UNCHANGED <<Live, Ending>>
    BY <2>1, ShellsStay DEF Revoke, engine, Closed
  <2>3. Revoke[t] = "active" /\ Admitted[c] = NoTicket
        /\ Admitted' = [Admitted EXCEPT ![c] = t]
    BY <1>1 DEF OpenCheck, Revoke, Admitted
  <2> QED
    BY <2>1, <2>2, <2>3 DEF Shells!Next, Shells!Admit
<1>2. ASSUME OpenInsert(c) PROVE Shells!Next
  <2> DEFINE s == at[c]
             t == want[c]
  <2>1. /\ s \in Sessions /\ t \in Tickets /\ once[s] = "fresh" /\ owner[s] = t
        /\ once' = [once EXCEPT ![s] = "open"]
        /\ beside' = IF Unfinished(t) = {} THEN beside ELSE beside \cup Unfinished(t) \cup {s}
        /\ UNCHANGED <<engine, owner, want>>
    BY <1>2 DEF OpenInsert
  <2>2. UNCHANGED Revoke
    <3>1. \A u \in Tickets : ticket[u] = "closing" => target[u] # s
      BY <2>1 DEF CloseCanGoOn, Closed
    <3>2. \A u \in Tickets : ticket[u] = "closing" =>
              (Closed(target[u])' <=> Closed(target[u]))
      BY <2>1, <3>1 DEF Closed, engine
    <3> QED
      BY <2>1, <3>2, RevokeStays
  <2>3. Admitted[c] = t /\ t # NoTicket /\ Admitted' = [Admitted EXCEPT ![c] = NoTicket]
    <3>1. pc[c] = "saved" /\ pc' = [pc EXCEPT ![c] = "attach"]
      BY <1>2 DEF OpenInsert
    <3>2. Admitted[c] = t
      BY <3>1 DEF Admitted
    <3>3. t # NoTicket
      BY <2>1, ConstantsAssumption
    <3>4. Admitted' = [Admitted EXCEPT ![c] = NoTicket]
      BY <2>1, <3>1, Leaves
    <3> QED
      BY <3>2, <3>3, <3>4
  <2>4. Live' = [Live EXCEPT ![t] = @ \cup {s}]
    <3>1. Live'[t] = Live[t] \cup {s}
      BY <2>1 DEF Live
    <3>2. \A u \in Tickets : u # t => Live'[u] = Live[u]
      BY <2>1 DEF Live
    <3> QED
      BY <2>1, <3>1, <3>2, LiveMoves
  <2>5. UNCHANGED Ending
    <3>1. \A u \in Tickets : Ending'[u] = Ending[u]
      BY <2>1 DEF Ending
    <3> QED
      BY <3>1 DEF Ending
  <2>6. Live[t] \cup Ending[t] = Unfinished(t)
    BY <2>1 DEF Live, Ending, Unfinished
  <2>7. s \notin beside /\ \A u \in Tickets : s \notin Live[u] \cup Ending[u]
    BY <2>1 DEF Sharing, Live, Ending
  <2> HIDE DEF s, t
  <2>8. Shells!Open(c, s)
    BY <2>1, <2>2, <2>3, <2>4, <2>5, <2>6, <2>7 DEF Shells!Open
  <2> QED
    BY <2>1, <2>8 DEF Shells!Next
<1>3. ASSUME (OpenLookup(c) /\ sessions[want[c]] # NoSession) \/ OpenFail(c) \/ OpenAbandon(c)
      PROVE  Shells!Next
  <2>1. /\ Admitted' = [Admitted EXCEPT ![c] = NoTicket]
        /\ UNCHANGED engine /\ UNCHANGED beside
    BY <1>3, Leaves DEF OpenLookup, OpenFail, OpenAbandon, history
  <2>2. UNCHANGED Revoke /\ UNCHANGED <<Live, Ending>>
    <3>1. CASE OpenAbandon(c)
      <4>1. /\ at[c] \in Sessions /\ once[at[c]] = "fresh"
            /\ once' = [once EXCEPT ![at[c]] = "dead"] /\ UNCHANGED owner
        BY <3>1 DEF OpenAbandon
      <4>2. \A u \in Tickets : ticket[u] = "closing" =>
                (Closed(target[u])' <=> Closed(target[u]))
        BY <2>1, <4>1 DEF Closed, engine, CloseCanGoOn
      <4> QED
        BY <2>1, <4>1, <4>2, RevokeStays, ShellsStay
    <3>2. CASE OpenLookup(c) \/ OpenFail(c)
      <4>1. UNCHANGED <<once, owner>>
        BY <3>2 DEF OpenLookup, OpenFail, life
      <4> QED
        BY <2>1, <4>1, RevokeStays, ShellsStay DEF Closed, engine
    <3> QED
      BY <1>3, <3>1, <3>2
  <2> QED
    BY <2>1, <2>2 DEF Shells!Next, Shells!OpensNone
<1>4. ASSUME NEW s \in Sessions, OpenDial(c, s) PROVE UNCHANGED Shells!vars
  <2>1. /\ once[s] = "unused" /\ once' = [once EXCEPT ![s] = "fresh"]
        /\ owner' = [owner EXCEPT ![s] = want[c]]
        /\ UNCHANGED <<engine, beside>>
    BY <1>4 DEF OpenDial, history
  <2>2. UNCHANGED Revoke
    <3>1. \A u \in Tickets : ticket[u] = "closing" =>
              (Closed(target[u])' <=> Closed(target[u]))
      BY <2>1 DEF Closed, engine, CloseCanGoOn
    <3> QED
      BY <2>1, <3>1, RevokeStays
  <2>3. UNCHANGED Admitted
    BY <1>4 DEF OpenDial, Admitted
  <2>4. UNCHANGED <<Live, Ending>>
    BY <2>1, ShellsStay
  <2> QED
    BY <2>1, <2>2, <2>3, <2>4 DEF Shells!vars
<1>5. CASE \/ OpenLookup(c) /\ sessions[want[c]] = NoSession
           \/ OpenSave(c) \/ Subscribe(c) \/ ReadEnds(c) \/ Unsubscribe(c) \/ ClientLeaves(c)
  <2>1. UNCHANGED <<engine, once, owner, beside>> /\ UNCHANGED Admitted
    BY <1>5 DEF OpenLookup, OpenSave, Subscribe, ReadEnds, Unsubscribe, ClientLeaves, Admitted,
                life, history
  <2>2. UNCHANGED Revoke /\ UNCHANGED <<Live, Ending>>
    BY <2>1, ShellsStay DEF Revoke, engine, Closed
  <2> QED
    BY <2>1, <2>2 DEF Shells!vars
<1> QED
  BY <1>1, <1>2, <1>3, <1>4, <1>5 DEF HandlerStep

\* Close ends a shell, and with it the sweep of the revoke that found it.
LEMMA CloseShells ==
    ASSUME PInv, NEW s \in Sessions, CloseStep(s)
    PROVE  [Shells!Next]_(Shells!vars)
<1> USE DEF PInv, IInv, TypeOK, Making, pumps
<1>1. UNCHANGED Admitted /\ UNCHANGED <<ticket, target, owner, beside>>
  BY DEF CloseStep, CloseTear, CloseUnlist, CloseRow, Admitted, engine, history, conns
<1> DEFINE t == owner[s]
<1>2. CASE CloseTear(s)
  <2>1. once[s] = "open" /\ once' = [once EXCEPT ![s] = "torn"] /\ t \in Tickets
    BY <1>2 DEF CloseTear
  <2>2. Live' = [Live EXCEPT ![t] = @ \ {s}]
    <3>1. Live'[t] = Live[t] \ {s}
      BY <1>1, <2>1 DEF Live
    <3>2. \A u \in Tickets : u # t => Live'[u] = Live[u]
      BY <1>1, <2>1 DEF Live
    <3> QED
      BY <2>1, <3>1, <3>2, LiveMoves
  <2>3. Ending' = [Ending EXCEPT ![t] = @ \cup {s}]
    <3>1. Ending'[t] = Ending[t] \cup {s}
      BY <1>1, <2>1 DEF Ending
    <3>2. \A u \in Tickets : u # t => Ending'[u] = Ending[u]
      BY <1>1, <2>1 DEF Ending
    <3> QED
      BY <2>1, <3>1, <3>2, EndingMoves
  <2>4. s \in Live[t]
    BY <2>1 DEF Live
  <2>5. Shells!Ends(t, s)
    BY <1>1, <2>2, <2>3, <2>4 DEF Shells!Ends
  <2>6. CASE ticket[t] = "closing" /\ target[t] = s
    <3>1. \A u \in Tickets \ {t} : ticket[u] = "closing" => target[u] # s
      BY DEF Found
    <3>2. Revoke[t] = "revoking" /\ Revoke'[t] = "swept"
      BY <1>1, <2>1, <2>6 DEF Revoke, Closed
    <3>3. \A u \in Tickets \ {t} : Revoke'[u] = Revoke[u]
      BY <1>1, <2>1, <3>1 DEF Revoke, Closed
    <3>4. Revoke' = [Revoke EXCEPT ![t] = "swept"]
      BY <2>1, <3>2, <3>3, RevokeMoves
    <3>5. Shells!Swept(t, {s})
      BY <2>1, BothBeside
    <3> QED
      BY <2>1, <2>5, <3>2, <3>4, <3>5 DEF Shells!Next, Shells!SweepEnding
  <2>7. CASE ~(ticket[t] = "closing" /\ target[t] = s)
    <3>1. \A u \in Tickets : ticket[u] = "closing" => target[u] # s
      BY <2>7 DEF Found
    <3>2. UNCHANGED Revoke
      BY <1>1, <2>1, <3>1 DEF Revoke, Closed
    <3> QED
      BY <2>1, <2>5, <3>2 DEF Shells!Next
  <2> QED
    BY <2>6, <2>7
<1>3. CASE CloseUnlist(s)
  <2>1. once[s] = "torn" /\ once' = [once EXCEPT ![s] = "unlisted"] /\ t \in Tickets
    BY <1>3 DEF CloseUnlist
  <2>2. UNCHANGED Revoke
    BY <1>1, <2>1 DEF Revoke, Closed
  <2>3. UNCHANGED Live
    <3>1. \A u \in Tickets : Live'[u] = Live[u]
      BY <1>1, <2>1 DEF Live
    <3> QED
      BY <3>1 DEF Live
  <2>4. Ending' = [Ending EXCEPT ![t] = @ \ {s}]
    <3>1. Ending'[t] = Ending[t] \ {s}
      BY <1>1, <2>1 DEF Ending
    <3>2. \A u \in Tickets : u # t => Ending'[u] = Ending[u]
      BY <1>1, <2>1 DEF Ending
    <3> QED
      BY <2>1, <3>1, <3>2, EndingMoves
  <2>5. s \in Ending[t]
    BY <2>1 DEF Ending
  <2>6. Shells!Gone(t, s)
    BY <1>1, <2>2, <2>3, <2>4, <2>5 DEF Shells!Gone
  <2> QED
    BY <2>1, <2>6 DEF Shells!Next
<1>4. CASE CloseRow(s)
  <2>1. once[s] = "unlisted" /\ once' = [once EXCEPT ![s] = "done"]
    BY <1>4 DEF CloseRow
  <2>2. UNCHANGED Revoke
    BY <1>1, <2>1 DEF Revoke, Closed
  <2>3. UNCHANGED <<Live, Ending>>
    BY <1>1, <2>1, ShellsStay
  <2> QED
    BY <1>1, <2>2, <2>3 DEF Shells!vars
<1> QED
  BY <1>2, <1>3, <1>4 DEF CloseStep

\* A revoke returns when the table has no session of its ticket, so that whoever
\* lives is one it lost, or when the one it had found is closed.
LEMMA RevokeShells ==
    ASSUME PInv, NEW t \in Tickets, RevokeClaim(t) \/ ForceStep(t)
    PROVE  [Shells!Next]_(Shells!vars)
<1> USE DEF PInv, IInv, TypeOK
<1>1. UNCHANGED Admitted /\ UNCHANGED <<sessions, once, owner, beside>>
  BY DEF RevokeClaim, ForceStep, ForceLookup, ForceDone, Admitted, life, history, conns
<1>2. UNCHANGED <<Live, Ending>>
  BY <1>1, ShellsStay
<1>3. CASE RevokeClaim(t)
  <2>1. Revoke[t] = "active" /\ Revoke' = [Revoke EXCEPT ![t] = "revoking"]
    BY <1>1, <1>3 DEF RevokeClaim, Revoke, Closed
  <2> QED
    BY <1>1, <1>2, <2>1 DEF Shells!Next, Shells!Begin
<1>4. CASE ForceLookup(t) /\ sessions[t] = NoSession
  <2>1. Revoke[t] = "revoking" /\ Revoke'[t] = "revoked"
    BY <1>1, <1>4 DEF ForceLookup, Revoke
  <2>2. \A u \in Tickets \ {t} : Revoke'[u] = Revoke[u]
    BY <1>1, <1>4 DEF ForceLookup, Revoke, Closed
  <2>3. Revoke' = [Revoke EXCEPT ![t] = "revoked"]
    BY <2>1, <2>2, RevokeMoves
  <2>4. Shells!Swept(t, {})
    BY <1>4, ConstantsAssumption DEF Sharing, Live, Shells!Swept
  <2> QED
    BY <1>1, <1>2, <2>1, <2>3, <2>4 DEF Shells!Next, Shells!Return
<1>5. CASE ForceLookup(t) /\ sessions[t] # NoSession
  <2> DEFINE s == sessions[t]
  <2>1. s \in Sessions /\ owner[s] = t /\ once[s] \in {"open", "torn"}
    BY <1>5 DEF TableIsLive
  <2>2. /\ ticket[t] = "revoking" /\ ticket' = [ticket EXCEPT ![t] = "closing"]
        /\ target' = [target EXCEPT ![t] = s]
    BY <1>5 DEF ForceLookup
  <2> HIDE DEF s
  <2>3. \A u \in Tickets \ {t} : Revoke'[u] = Revoke[u]
    BY <1>1, <2>2 DEF Revoke, Closed
  <2>4. CASE once[s] = "open"
    <3>1. Revoke'[t] = Revoke[t]
      BY <1>1, <2>1, <2>2, <2>4 DEF Revoke, Closed
    <3>2. UNCHANGED Revoke
      BY <2>3, <3>1 DEF Revoke
    <3> QED
      BY <1>1, <1>2, <3>2 DEF Shells!vars
  <2>5. CASE once[s] = "torn"
    <3>1. Revoke[t] = "revoking" /\ Revoke'[t] = "swept"
      BY <1>1, <2>1, <2>2, <2>5 DEF Revoke, Closed
    <3>2. Revoke' = [Revoke EXCEPT ![t] = "swept"]
      BY <2>3, <3>1, RevokeMoves
    <3>3. Shells!Swept(t, {})
      <4>1. s \notin Live[t]
        BY <2>5 DEF Live
      <4>2. Shells!Swept(t, {s})
        BY <2>1, BothBeside
      <4> QED
        BY <4>1, <4>2 DEF Shells!Swept
    <3> QED
      BY <1>1, <1>2, <3>1, <3>2, <3>3 DEF Shells!Next, Shells!Sweep
  <2> QED
    BY <2>1, <2>4, <2>5
<1>6. CASE ForceDone(t)
  <2>1. Revoke[t] = "swept" /\ Revoke'[t] = "revoked"
    BY <1>1, <1>6 DEF ForceDone, Revoke, Closed
  <2>2. \A u \in Tickets \ {t} : Revoke'[u] = Revoke[u]
    BY <1>1, <1>6 DEF ForceDone, Revoke, Closed
  <2>3. Revoke' = [Revoke EXCEPT ![t] = "revoked"]
    BY <2>1, <2>2, RevokeMoves
  <2> QED
    BY <1>1, <1>2, <2>1, <2>3 DEF Shells!Next, Shells!Return
<1> QED
  BY <1>3, <1>4, <1>5, <1>6 DEF ForceStep

\* The end of the process is one step there too.
LEMMA DownShells ==
    ASSUME PInv, Down
    PROVE  Shells!Next
<1> USE DEF PInv, IInv, TypeOK, Down
<1>1. Live' = [t \in Tickets |-> {}] /\ Ending' = [t \in Tickets |-> {}]
  BY DEF Live, Ending
<1>2. Admitted' = [c \in Conns |-> NoTicket]
  BY DEF Admitted
<1>3. Revoke' = [t \in Tickets |-> IF Revoke[t] \in {"revoking", "swept"} THEN "stuck" ELSE Revoke[t]]
  BY DEF Revoke
<1> QED
  BY <1>1, <1>2, <1>3 DEF Shells!Next, Shells!Die

\* Every step is one the promise allows, or changes nothing of it.
LEMMA ShellsStep == PInv /\ [Next]_vars => [Shells!Next]_(Shells!vars)
<1> SUFFICES ASSUME PInv, [Next]_vars PROVE [Shells!Next]_(Shells!vars)
  OBVIOUS
<1> USE DEF life, pumps, history, conns
<1>1. ASSUME NEW c \in Conns, WriterStep(c) \/ WriterSent(c) PROVE UNCHANGED Shells!vars
  BY <1>1, HiddenShells DEF WriterStep, WriterTake, WriterEnds, WriterSent
<1>2. ASSUME NEW s \in Sessions,
             \/ PumpRead(s) \/ PumpSend(s) \/ PumpAbort(s) \/ PumpFails(s) \/ PumpEnds(s)
             \/ RemoteEnds(s)
      PROVE  UNCHANGED Shells!vars
  BY <1>2, HiddenShells DEF PumpRead, PumpSend, PumpAbort, PumpFails, PumpEnds, RemoteEnds
<1>3. CASE UNCHANGED vars
  BY <1>3, HiddenShells DEF vars
<1> QED
  BY <1>1, <1>2, <1>3, TerminalShells, CloseShells, RevokeShells, DownShells
  DEF Next, PumpStep, PumpPanic, Crash

\* The manager's sessions keep the promise of ShellTable, for any number of
\* terminals, sessions and tickets: a shell that a revoke leaves alive is one that
\* overlapped with another of its ticket, or of a terminal admitted before.
THEOREM KeepsThePromise == Spec => ImplementsShellTable
<1>1. Init => Shells!Init /\ Found
  <2> SUFFICES ASSUME Init PROVE Shells!Init /\ Found
    OBVIOUS
  <2>1. Revoke = [t \in Tickets |-> "active"] /\ Admitted = [c \in Conns |-> NoTicket]
    BY DEF Init, Revoke, Admitted
  <2>2. Live = [t \in Tickets |-> {}] /\ Ending = [t \in Tickets |-> {}]
    BY DEF Init, Live, Ending
  <2> QED
    BY <2>1, <2>2 DEF Init, Found, Shells!Init
<1>2. IInv /\ CloseCanGoOn /\ Found /\ [Next]_vars => Found'
  BY FoundStep DEF IInv, Found, vars, engine, life
<1>3. IInv /\ CloseCanGoOn /\ Found => PInv
  BY DEF PInv
<1> QED
  BY <1>1, <1>2, <1>3, ShellsStep, Invariance, CloseGoesOn, PTL
  DEF Spec, Shells!Spec, ImplementsShellTable

=============================================================================
