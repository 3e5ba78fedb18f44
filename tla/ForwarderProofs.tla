---------------------------- MODULE ForwarderProofs ----------------------------
(***************************************************************************)
(* What the Agent's table promises, for any rules, listeners and           *)
(* connections.  NoOrphan and TableIsLive are not inductive: the mutex is  *)
(* free while Apply listens and while Revoke closes, and Handed says what  *)
(* a goroutine that has let go of it can still rely on.  Taken says whose  *)
(* listeners are being closed, and with it the steps are those RuleTable   *)
(* allows.                                                                 *)
(***************************************************************************)
EXTENDS Forwarder, TLAPS

\* Between its look at the table and its entry the loop is the only one that
\* could put its rule there, and nobody closes the listener it has opened.
Handed ==
    /\ job[Loop] \in {"listen", "insert"} => rules[cmd[Loop]] = NoListener
    /\ job[Loop] = "insert" =>
        /\ held[Loop] \in open \ cancelled
        /\ rule[held[Loop]] = cmd[Loop]
        /\ ~Closing(held[Loop])

\* What is open, cancelled or being closed was opened for a rule.
Opened ==
    /\ \A l \in open \cup cancelled : rule[l] \in Rules
    /\ \A x \in Runners : job[x] \in {"cancel", "close"} => rule[held[x]] \in Rules

\* A callback runs once, only after its timer has fired, and for the rule the
\* listener was opened for.
FiredOnce ==
    \A l \in Listeners :
        /\ timer[l] # "fired" => job[l] = "idle"
        /\ job[l] # "idle" => cmd[l] = rule[l]
        /\ timer[l] # "none" => rule[l] \in Rules

\* An entry is closed for the rule it was opened for, by the loop on a revoke of
\* that rule, by a timer after the window; the loop's rule stays out of the table.
Taken ==
    /\ job[Loop] \in {"cancel", "close"} => rules[cmd[Loop]] = NoListener
    /\ \A x \in Runners : job[x] \in {"cancel", "close"} => rule[held[x]] = cmd[x]
    /\ \A x \in Listeners : job[x] # "idle" => cmd[x] \in over

IInv == TypeOK /\ TableIsLive /\ NoOrphan /\ Handed /\ Opened /\ FiredOnce /\ Taken

USE ConstantsAssumption DEF Runners

-----------------------------------------------------------------------------

\* New has nothing up.
LEMMA InitIInv == Init => IInv
<1> SUFFICES ASSUME Init PROVE IInv
    OBVIOUS
<1> USE DEF Init
<1>1. TypeOK
    BY DEF TypeOK
<1>2. TableIsLive /\ NoOrphan /\ Handed /\ Opened /\ FiredOnce /\ Taken
    BY DEF TableIsLive, NoOrphan, Handed, Opened, FiredOnce, Taken
<1> QED BY <1>1, <1>2 DEF IInv

\* No step of the loop, of a timer or of a connection breaks it.
LEMMA NextIInv == IInv /\ [Next]_vars => IInv'
<1> SUFFICES ASSUME IInv, [Next]_vars PROVE IInv'
    OBVIOUS
<1> USE DEF IInv, TypeOK, TableIsLive, NoOrphan, Handed, Opened, FiredOnce, Taken, Closing,
            Go, table, socket, runner, conns, history
<1>1. ASSUME NEW r \in Rules, ApplyBegin(r) PROVE IInv'
    BY <1>1 DEF ApplyBegin
<1>2. ASSUME NEW r \in Rules, RevokeBegin(r) PROVE IInv'
    BY <1>2 DEF RevokeBegin
<1>3. ASSUME NEW r \in Rules, WindowEnds(r) PROVE IInv'
    BY <1>3 DEF WindowEnds
<1>4. ASSUME ApplyLookup PROVE IInv'
    BY <1>4 DEF ApplyLookup
<1>5. ASSUME ApplyListenFails PROVE IInv'
    BY <1>5 DEF ApplyListenFails
<1>6. ASSUME ApplyInsert PROVE IInv'
    BY <1>6 DEF ApplyInsert
<1>7. ASSUME NEW l \in Listeners, ApplyListen(l) PROVE IInv'
    BY <1>7 DEF ApplyListen
<1>8. ASSUME NEW x \in Runners, RevokeDelete(x) PROVE IInv'
    BY <1>8 DEF RevokeDelete
<1>9. ASSUME NEW x \in Runners, RevokeCancel(x) PROVE IInv'
    BY <1>9 DEF RevokeCancel
<1>10. ASSUME NEW x \in Runners, RevokeClose(x) PROVE IInv'
    BY <1>10 DEF RevokeClose
<1>11. ASSUME NEW l \in Listeners, TimerFires(l) PROVE IInv'
    BY <1>11 DEF TimerFires
<1>12. ASSUME NEW k \in Clients, Dialled(k) PROVE IInv'
    BY <1>12 DEF Dialled
<1>13. ASSUME NEW k \in Clients, PipeCut(k) PROVE IInv'
    BY <1>13 DEF PipeCut
<1>14. ASSUME NEW k \in Clients, PipeEnds(k) PROVE IInv'
    BY <1>14 DEF PipeEnds
<1>15. ASSUME NEW k \in Clients, NEW l \in Listeners, Accept(k, l) PROVE IInv'
    BY <1>15 DEF Accept
<1>16. ASSUME NEW l \in Listeners, AcceptFails(l) PROVE IInv'
    BY <1>16 DEF AcceptFails
<1>17. CASE UNCHANGED vars
    BY <1>17 DEF vars
<1> QED BY <1>1, <1>2, <1>3, <1>4, <1>5, <1>6, <1>7, <1>8, <1>9, <1>10, <1>11, <1>12, <1>13, <1>14, <1>15, <1>16, <1>17 DEF Next, LoopStep, RevokeStep, PipeStep

\* The strengthening holds in every reachable state.
LEMMA Invariant == Spec => []IInv
<1> QED BY InitIInv, NextIInv, PTL DEF Spec

-----------------------------------------------------------------------------

\* Every variable keeps its type, and who works on a rule or on an entry of
\* Forwarder.rules has one: Apply never goes on after net.Listen failed.
THEOREM TypeCorrect == Spec => []TypeOK
<1>1. IInv => TypeOK
    BY DEF IInv
<1> QED BY <1>1, Invariant, PTL

\* Apply and Revoke never lose a listener, however the loop and the timers
\* interleave: one that is open is in the table, or in somebody's hands.
THEOREM NothingIsOrphaned == Spec => []NoOrphan
<1>1. IInv => NoOrphan
    BY DEF IInv
<1> QED BY <1>1, Invariant, PTL

\* The address Apply answers for a rule that is up is one that is open: Revoke
\* takes an entry out of the table before it touches anything of it.
THEOREM TableHolds == Spec => []TableIsLive
<1>1. IInv => TableIsLive
    BY DEF IInv
<1> QED BY <1>1, Invariant, PTL

\* No step leaves an open listener without its timer, a callback, or somebody who
\* closes it: a callback that finds the table empty has come too early, or somebody
\* else has the listener in hand.
LEMMA TimersStep ==
    ASSUME IInv, TimerIsPending, [Next]_vars
    PROVE  TimerIsPending'
<1> USE DEF IInv, TypeOK, TimerIsPending, Closing, Go, table, socket, runner, history
<1>1. CASE \/ \E r \in Rules : ApplyBegin(r) \/ RevokeBegin(r) \/ WindowEnds(r)
           \/ ApplyLookup \/ ApplyListenFails \/ ApplyInsert
    BY <1>1 DEF ApplyBegin, RevokeBegin, WindowEnds, ApplyLookup, ApplyListenFails, ApplyInsert
<1>2. ASSUME NEW l \in Listeners, ApplyListen(l) PROVE TimerIsPending'
    BY <1>2 DEF ApplyListen, Opened
<1>3. ASSUME NEW x \in Runners, RevokeDelete(x) PROVE TimerIsPending'
    BY <1>3 DEF RevokeDelete, NoOrphan, FiredOnce, Handed
<1>4. ASSUME NEW x \in Runners, RevokeCancel(x) PROVE TimerIsPending'
    BY <1>4 DEF RevokeCancel
<1>5. ASSUME NEW x \in Runners, RevokeClose(x) PROVE TimerIsPending'
    BY <1>5 DEF RevokeClose
<1>6. ASSUME NEW l \in Listeners, TimerFires(l) PROVE TimerIsPending'
    BY <1>6 DEF TimerFires, FiredOnce
<1>7. CASE \/ \E k \in Clients : PipeStep(k) \/ PipeEnds(k)
           \/ \E k \in Clients, l \in Listeners : Accept(k, l)
           \/ \E l \in Listeners : AcceptFails(l)
           \/ UNCHANGED vars
    BY <1>7 DEF PipeStep, Dialled, PipeCut, PipeEnds, Accept, AcceptFails, vars
<1> QED BY <1>1, <1>2, <1>3, <1>4, <1>5, <1>6, <1>7 DEF Next, LoopStep, RevokeStep

\* A listener that Apply opened in time is on its way to being closed from the
\* first moment on: its timer runs, its callback does, or somebody has taken it.
\* Only a callback that came before the entry may have run in vain.
THEOREM TimersPend == Spec => []TimerIsPending
<1>1. Init => TimerIsPending
    BY DEF Init, TimerIsPending
<1>2. IInv /\ TimerIsPending /\ [Next]_vars => TimerIsPending'
    BY TimersStep
<1> QED BY <1>1, <1>2, Invariant, PTL DEF Spec

\* Together: Forwarder.rules and the open listeners agree at every moment, and none
\* is open that nothing will close.
THEOREM ListenersKept == Spec => []ListenerIsKept
BY NothingIsOrphaned, TableHolds, TimersPend, PTL DEF ListenerIsKept

-----------------------------------------------------------------------------
(* Implementation of RuleTable *)

\* What the abstract state is made of.
LEMMA SameTable ==
    ASSUME UNCHANGED <<rules, open, rule, over, cmd, held, answer>>, UNCHANGED job[Loop]
    PROVE  UNCHANGED Table!vars
<1>1. UNCHANGED Command /\ UNCHANGED Serving
    BY DEF Command, Serving
<1> QED BY <1>1 DEF Table!vars

\* New starts the abstract table too.
LEMMA InitTable == Init => Table!Init
<1> SUFFICES ASSUME Init PROVE Table!Init
    OBVIOUS
<1>1. Command = <<>>
    BY DEF Init, Command
<1>2. Serving = [r \in Rules |-> NoListener]
    BY DEF Init, Serving
<1> QED BY <1>1, <1>2 DEF Init, Table!Init

\* The loop takes the next command once it has answered the one before.
LEMMA TakeStep ==
    ASSUME IInv, NEW r \in Rules, ApplyBegin(r) \/ RevokeBegin(r)
    PROVE  Table!Next
<1> USE DEF IInv, TypeOK, Go
<1>1. Command = <<>> /\ \E c \in Table!Commands : Command' = c
  <2>1. CASE ApplyBegin(r)
    <3>1. Command' = <<"apply", r>>
        BY <2>1 DEF ApplyBegin, Command
    <3> QED BY <2>1, <3>1 DEF ApplyBegin, Command, Table!Commands
  <2>2. CASE RevokeBegin(r)
    <3>1. Command' = <<"revoke", r>>
        BY <2>2 DEF RevokeBegin, Command
    <3> QED BY <2>2, <3>1 DEF RevokeBegin, Command, Table!Commands
  <2> QED BY <2>1, <2>2
<1>2. UNCHANGED <<answer, Serving, rule, open, over>>
    BY DEF ApplyBegin, RevokeBegin, Serving, socket, table
<1> QED BY <1>1, <1>2 DEF Table!Next, Table!Take

\* Apply: the listener serves its rule as soon as it is open.
LEMMA ApplyTable ==
    ASSUME IInv, LoopStep
    PROVE  [Table!Next]_(Table!vars)
<1> USE DEF IInv, TypeOK, Go, table, socket
<1>1. CASE ApplyLookup /\ rules[cmd[Loop]] = NoListener
  <2>1. UNCHANGED Command /\ UNCHANGED Serving
      BY <1>1 DEF ApplyLookup, Command, Serving
  <2> QED BY <1>1, <2>1 DEF ApplyLookup, Table!vars
<1>2. CASE \/ ApplyLookup /\ rules[cmd[Loop]] # NoListener
           \/ ApplyListenFails \/ ApplyInsert
  <2>1. cmd[Loop] \in Rules /\ Command = <<"apply", cmd[Loop]>> /\ Command' = <<>>
      BY <1>2 DEF ApplyLookup, ApplyListenFails, ApplyInsert, Command
  <2>2. UNCHANGED Serving
      BY <1>2 DEF ApplyLookup, ApplyListenFails, ApplyInsert, Serving
  <2>3. answer' = IF Serving[cmd[Loop]] = NoListener THEN "failed" ELSE "ok"
      BY <1>2, <2>1 DEF ApplyLookup, ApplyListenFails, ApplyInsert, Serving, Handed
  <2>4. UNCHANGED <<rule, open, over>>
      BY <1>2 DEF ApplyLookup, ApplyListenFails, ApplyInsert
  <2> QED BY <2>1, <2>2, <2>3, <2>4 DEF Table!Next, Table!AnswerApply
<1>3. ASSUME NEW l \in Listeners, ApplyListen(l) PROVE Table!Next
  <2> DEFINE r == cmd[Loop]
  <2>1. r \in Rules /\ Command = <<"apply", r>> /\ UNCHANGED Command
      BY <1>3 DEF ApplyListen, Command
  <2>2. Serving[r] = NoListener /\ Serving' = [Serving EXCEPT ![r] = l]
      BY <1>3, <2>1 DEF ApplyListen, Serving, Handed
  <2>3. Table!Open(r, l)
      BY <1>3, <2>1, <2>2 DEF ApplyListen, Table!Open
  <2> QED BY <2>1, <2>3 DEF Table!Next
<1> QED BY <1>1, <1>2, <1>3 DEF LoopStep

\* Whoever takes a listener out of service may: the loop for the revoke it is at,
\* a timer for a rule whose window has ended.
LEMMA DeleteTable ==
    ASSUME IInv, NEW x \in Runners, RevokeDelete(x)
    PROVE  [Table!Next]_(Table!vars)
<1> USE DEF IInv, TypeOK, Go, table, socket
<1> DEFINE r == cmd[x]
           l == rules[r]
<1>1. r \in Rules /\ job[x] = "delete" /\ l \in Listeners \cup {NoListener}
    BY DEF RevokeDelete
<1>2. /\ UNCHANGED <<rule, open, over>>
      /\ answer' = IF x = Loop /\ l = NoListener THEN "ok" ELSE answer
    BY DEF RevokeDelete
<1>3. CASE x = Loop /\ l = NoListener
  <2>1. Command = <<"revoke", r>> /\ Command' = <<>>
      BY <1>1, <1>3 DEF RevokeDelete, Command
  <2>2. Serving[r] = NoListener /\ UNCHANGED Serving
      BY <1>1, <1>3 DEF RevokeDelete, Serving
  <2>3. ASSUME NEW k \in open, rule[k] = r PROVE r \in over
      BY <1>1, <1>3, <2>3 DEF NoOrphan, Closing, Taken
  <2> QED BY <1>1, <1>2, <1>3, <2>1, <2>2, <2>3 DEF Table!Next, Table!AnswerRevoke
<1>4. CASE x = Loop /\ l # NoListener
  <2>1. Command = <<"revoke", r>> /\ UNCHANGED Command
      BY <1>1, <1>4 DEF RevokeDelete, Command
  <2>2. Serving[r] # NoListener /\ Serving' = [Serving EXCEPT ![r] = NoListener]
      BY <1>1, <1>4 DEF RevokeDelete, Serving
  <2> QED BY <1>1, <1>2, <1>4, <2>1, <2>2 DEF Table!Next, Table!Close
<1>5. CASE x # Loop
  <2>1. UNCHANGED Command /\ r \in over
      BY <1>1, <1>5 DEF RevokeDelete, Command, Taken
  <2>2. CASE l = NoListener
    <3>1. UNCHANGED Serving
        BY <1>1, <1>5, <2>2 DEF RevokeDelete, Serving
    <3> QED BY <1>2, <1>5, <2>1, <3>1 DEF Table!vars
  <2>3. CASE l # NoListener
    <3>1. ~(job[Loop] = "insert" /\ cmd[Loop] = r)
        BY <2>3 DEF Handed
    <3>2. Serving[r] # NoListener /\ Serving' = [Serving EXCEPT ![r] = NoListener]
        BY <1>1, <1>5, <2>3, <3>1 DEF RevokeDelete, Serving
    <3> QED BY <1>1, <1>2, <1>5, <2>1, <3>2 DEF Table!Next, Table!Close
  <2> QED BY <2>2, <2>3
<1> QED BY <1>3, <1>4, <1>5

\* The listener that is closed serves nobody, and after the loop's own nothing is
\* left for the rule but what a timer has in hand.
LEMMA CloseTable ==
    ASSUME IInv, NEW x \in Runners, RevokeClose(x)
    PROVE  Table!Next
<1> USE DEF IInv, TypeOK, Go, table, socket
<1> DEFINE r == cmd[x]
           l == held[x]
<1>1. l \in Listeners /\ r \in Rules /\ job[x] = "close" /\ rule[l] = r
    BY DEF RevokeClose, Taken
<1>2. Closing(l)
    BY <1>1 DEF Closing
<1>3. Table!OutOfService(l)
  <2>1. job[Loop] = "insert" => held[Loop] # l
      BY <1>2 DEF Handed
  <2>2. \A q \in Rules : rules[q] # l
      BY <1>1, <1>2 DEF TableIsLive
  <2>3. \A q \in Rules : Serving[q] # l
      BY <2>1, <2>2 DEF Serving
  <2> QED BY <2>3 DEF Table!OutOfService
<1>4. /\ UNCHANGED <<Serving, rule, over>> /\ open' = open \ {l}
      /\ answer' = IF x = Loop THEN "ok" ELSE answer
    BY <1>1 DEF RevokeClose, Serving
<1>5. CASE x = Loop
  <2>1. Command = <<"revoke", r>> /\ Command' = <<>>
      BY <1>1, <1>5 DEF RevokeClose, Command
  <2>2. Serving[r] = NoListener
      BY <1>1, <1>5 DEF Serving, Taken
  <2>3. ASSUME NEW k \in open \ {l}, rule[k] = r PROVE r \in over
      BY <1>1, <1>5, <2>3 DEF NoOrphan, Closing, Taken
  <2> QED BY <1>1, <1>3, <1>4, <1>5, <2>1, <2>2, <2>3 DEF Table!Next, Table!AnswerRevoke
<1>6. CASE x # Loop
  <2>1. UNCHANGED Command
      BY <1>1, <1>6 DEF RevokeClose, Command
  <2> QED BY <1>1, <1>3, <1>4, <1>6, <2>1 DEF Table!Next, Table!Stop
<1> QED BY <1>5, <1>6

\* The steps in between change nothing of what is promised.
LEMMA InnerTable ==
    ASSUME IInv,
           \/ \E x \in Runners : RevokeCancel(x)
           \/ \E l \in Listeners : TimerFires(l)
           \/ \E k \in Clients : PipeStep(k) \/ PipeEnds(k)
           \/ \E k \in Clients, l \in Listeners : Accept(k, l)
           \/ \E l \in Listeners : AcceptFails(l)
    PROVE  UNCHANGED Table!vars
<1> USE DEF IInv, TypeOK, Go, table, socket, runner
<1>1. CASE \E x \in Runners : RevokeCancel(x)
  <2>1. UNCHANGED Command /\ UNCHANGED Serving
      BY <1>1 DEF RevokeCancel, Command, Serving
  <2> QED BY <1>1, <2>1 DEF RevokeCancel, Table!vars
<1>2. CASE \E l \in Listeners : TimerFires(l)
  <2>1. UNCHANGED Command /\ UNCHANGED Serving
      BY <1>2 DEF TimerFires, Command, Serving
  <2> QED BY <1>2, <2>1 DEF TimerFires, Table!vars
<1>3. CASE \/ \E k \in Clients : PipeStep(k) \/ PipeEnds(k)
           \/ \E k \in Clients, l \in Listeners : Accept(k, l)
           \/ \E l \in Listeners : AcceptFails(l)
    BY <1>3, SameTable DEF PipeStep, Dialled, PipeCut, PipeEnds, Accept, AcceptFails
<1> QED BY <1>1, <1>2, <1>3

\* Every step of the loop, of a timer or of a connection is one the promise
\* allows, or changes nothing of it.
LEMMA TableStep == IInv /\ [Next]_vars => [Table!Next]_(Table!vars)
<1> SUFFICES ASSUME IInv, [Next]_vars PROVE [Table!Next]_(Table!vars)
    OBVIOUS
<1>1. ASSUME NEW r \in Rules, WindowEnds(r) PROVE Table!Next
  <2>1. UNCHANGED Command /\ UNCHANGED Serving
      BY <1>1 DEF WindowEnds, Command, Serving, table, runner
  <2> QED BY <1>1, <2>1 DEF WindowEnds, socket, runner, Table!Next, Table!WindowEnds
<1>2. CASE UNCHANGED vars
    BY <1>2, SameTable DEF vars, table, socket, runner
<1> QED BY <1>1, <1>2, TakeStep, ApplyTable, DeleteTable, CloseTable, InnerTable DEF Next, RevokeStep

\* Apply, Revoke and the timers keep the promise of RuleTable.
THEOREM KeepsThePromise == Spec => ImplementsRuleTable
<1> QED BY InitTable, TableStep, Invariant, PTL DEF Spec, Table!Spec, ImplementsRuleTable

=============================================================================
