-------------------------- MODULE PolicyEngineProofs --------------------------
(***************************************************************************)
(* Theorems about PolicyEngine, for any tickets, users, agents, goroutines *)
(* and bounds: ownership and the audit log, then decisions and rules, and  *)
(* the refinement.  Most properties are not inductive: each part of the    *)
(* strengthening says what a goroutine's position and locals tell about    *)
(* the ticket it works on.                                                 *)
(***************************************************************************)
EXTENDS PolicyEngine, TLAPS

USE ConstantsAssumption DEF Procs

\* One column or one comparison each: always in view.
USE DEF CreateTicket, SetTicketApproved, SetTicketActive, SetTicketStatus, UpsertBinding,
        InsertAudit, HasPrimary

\* A transition keeps the two columns it writes well typed.
LEMMA TransitionTyped ==
    ASSUME TypeOK, NEW t \in Tickets, NEW from, NEW to \in Statuses, NEW e \in Events,
           Transition(t, from, to, e)
    PROVE  /\ status' \in [Tickets -> Statuses]
           /\ audit' \in [Tickets -> Seq(Events)]
<1>1. Append(audit[t], e) \in Seq(Events)
  BY DEF TypeOK
<1> QED
  BY <1>1 DEF TypeOK, Transition

\* What an Agent does with an apply command keeps its rules well typed.
LEMMA AgentApplyTyped ==
    ASSUME TypeOK, NEW t \in Tickets, NEW until \in Nat,
           \E a \in Addrs : AgentApply(t, until, a)
    PROVE  /\ listener' \in [Tickets -> Addrs \cup {NoAddr}]
           /\ timer' \in [Tickets -> Nat]
<1>1. PICK a \in Addrs : AgentApply(t, until, a)
  OBVIOUS
<1>2. (IF until > now THEN until ELSE 0) \in Nat
  BY DEF TypeOK
<1>3. CASE listener[t] # NoAddr
  BY <1>1, <1>3 DEF TypeOK, AgentApply
<1>4. CASE listener[t] = NoAddr
  <2>1. \A n \in Nat : [timer EXCEPT ![t] = n] \in [Tickets -> Nat]
    BY DEF TypeOK
  <2>2. timer' \in [Tickets -> Nat]
    BY <1>1, <1>2, <1>4, <2>1 DEF AgentApply
  <2>3. listener' = [listener EXCEPT ![t] = a]
    BY <1>1, <1>4 DEF AgentApply
  <2> QED
    BY <2>2, <2>3 DEF TypeOK
<1> QED
  BY <1>3, <1>4

\* A command that is under way is a number among the others.
LEMMA GivenUpTyped ==
    ASSUME TypeOK, NEW t \in Tickets, NEW a, NEW command \in Nat, GivenUp(t, a, command)
    PROVE  late' \in [Tickets -> Seq(Nat)] /\ faults' \in Nat
<1>1. Append(late[t], command) \in Seq(Nat)
  BY DEF TypeOK
<1>2. faults' \in Nat
  BY DEF GivenUp, Fault, Sound, TypeOK
<1>3. late' = late \/ late' = [late EXCEPT ![t] = Append(late[t], command)]
  BY DEF GivenUp
<1>4. late \in [Tickets -> Seq(Nat)]
  BY DEF TypeOK
<1>5. late' \in [Tickets -> Seq(Nat)]
  BY <1>1, <1>3, <1>4
<1> QED
  BY <1>2, <1>5

\* One Control more that has yet to return.
LEMMA OneMoreTyped ==
    ASSUME TypeOK, NEW a \in Agents
    PROVE  older \in [Agents -> Nat] /\ [older EXCEPT ![a] = older[a] + 1] \in [Agents -> Nat]
<1>1. older \in [Agents -> Nat] /\ older[a] + 1 \in Nat
  BY DEF TypeOK
<1> QED
  BY <1>1

\* Every step keeps every variable in its type, and every goroutine that is in
\* the middle of a ticket knows which one.
THEOREM TypeCorrect == Spec => []TypeOK
<1>1. Init => TypeOK
  BY DEF Init, TypeOK, Statuses, Labels, Busy, Events
<1>2. TypeOK /\ [Next]_vars => TypeOK'
  <2> SUFFICES ASSUME TypeOK, [Next]_vars PROVE TypeOK'
    OBVIOUS
  <2> USE DEF TypeOK, ticketRows, memory, links, locals, rules
  <2>1. ASSUME NEW t \in Tickets, NEW u \in Users, Submit(t, u) PROVE TypeOK'
    BY <2>1 DEF Submit, Transition, Labels, Busy, Statuses, Events
  <2>2. ASSUME NEW h \in Handlers, NEW t \in Tickets, NEW u \in Users,
       Approve(h, t, u) PROVE TypeOK'
    BY <2>2 DEF Approve, Jump, Transition, Labels, Busy, Statuses, Events
  <2>3. ASSUME NEW h \in Handlers, NEW t \in Tickets, NEW u \in Users,
       Reject(h, t, u) PROVE TypeOK'
    BY <2>3 DEF Reject, Transition, Labels, Busy, Statuses, Events
  <2>4. ASSUME NEW h \in Handlers, ApplyRead(h) PROVE TypeOK'
    <3> USE <2>4
    <3>1. cur[h] \in Tickets
      BY DEF ApplyRead, Jump, Busy, Labels
    <3>2. pc' \in [Procs -> Labels]
      BY DEF ApplyRead, Jump, Labels
    <3>3. \A q \in Procs : pc'[q] \in Busy => cur'[q] \in Tickets
      BY <3>1 DEF ApplyRead, Jump, Release, Busy
    <3>4. exp' \in [Procs -> Nat]
      BY DEF ApplyRead
    <3> QED
      BY <3>1, <3>2, <3>3, <3>4 DEF ApplyRead
  <2>5. ASSUME NEW h \in Handlers, ApplyAbandon(h) PROVE TypeOK'
    BY <2>5 DEF ApplyAbandon, Jump, Release, Fault, Sound, Labels, Busy
  <2>6. ASSUME NEW h \in Handlers, ApplyCall(h) PROVE TypeOK'
    <3> USE <2>6
    <3>1. cur[h] \in Tickets
      BY DEF ApplyCall, Jump, Busy, Labels
    <3>2. pc' \in [Procs -> Labels]
      BY DEF ApplyCall, Jump, Labels
    <3>3. \A q \in Procs : pc'[q] \in Busy => cur'[q] \in Tickets
      <4>1. cur' = cur /\ \A q \in Procs \ {h} : pc'[q] = pc[q]
        BY DEF ApplyCall, Jump
      <4> QED
        BY <3>1, <4>1
    <3>4. exp[h] \in Nat
      BY <3>1
    <3>5. \E a \in Addrs : AgentApply(cur[h], exp[h], a)
      BY DEF ApplyCall
    <3>6. listener' \in [Tickets -> Addrs \cup {NoAddr}] /\ timer' \in
         [Tickets -> Nat]
      BY <3>1, <3>4, <3>5, AgentApplyTyped
    <3>7. got' \in [Procs -> Addrs \cup {NoAddr}]
      BY DEF ApplyCall
    <3> QED
      BY <3>1, <3>2, <3>3, <3>4, <3>5, <3>6, <3>7 DEF ApplyCall
  <2>7. ASSUME NEW h \in Handlers, ApplyCallLost(h) PROVE TypeOK'
    <3>1. cur[h] \in Tickets /\ exp[h] \in Nat
      BY <2>7 DEF ApplyCallLost, Jump, Labels, Busy
    <3>2. late' \in [Tickets -> Seq(Nat)] /\ faults' \in Nat
      BY <2>7, <3>1, GivenUpTyped DEF ApplyCallLost
    <3> QED
      BY <2>7, <3>1, <3>2 DEF ApplyCallLost, Jump, Labels, Busy
  <2>8. ASSUME NEW h \in Handlers, ApplySetForward(h) PROVE TypeOK'
    BY <2>8 DEF ApplySetForward, Jump, StoreForward, Labels, Busy, Causes
  <2>9. ASSUME NEW h \in Handlers, ApplyCommit(h) PROVE TypeOK'
    <3> USE <2>9
    <3>1. cur[h] \in Tickets
      BY DEF ApplyCommit, Jump, Busy, Labels
    <3>2. pc' \in [Procs -> Labels]
      BY DEF ApplyCommit, Jump, Labels
    <3>3. \A q \in Procs : pc'[q] \in Busy => cur'[q] \in Tickets
      BY <3>1 DEF ApplyCommit, Jump, Release, Busy
    <3>4. status' \in [Tickets -> Statuses] /\ audit' \in [Tickets ->
         Seq(Events)]
      BY <3>1, TransitionTyped DEF ApplyCommit, Statuses, Events
    <3>5. binding' \in [Tickets -> Agents \cup {NoAgent}]
      BY <3>1 DEF ApplyCommit
    <3>6. expires' \in [Tickets -> Nat]
      BY <3>1 DEF ApplyCommit
    <3>7. got' \in [Procs -> Addrs \cup {NoAddr}] /\ exp' \in [Procs -> Nat]
      BY DEF ApplyCommit, Release
    <3>8. cur' \in [Procs -> Tickets \cup {NoTicket}]
      BY DEF ApplyCommit, Release
    <3> QED
      BY <3>1, <3>2, <3>3, <3>4, <3>5, <3>6, <3>7, <3>8 DEF ApplyCommit,
         Release
  <2>10. ASSUME NEW h \in Handlers, ApplyFail(h) PROVE TypeOK'
    <3> USE <2>10
    <3>1. cur[h] \in Tickets
      BY DEF ApplyFail, Jump, Busy, Labels
    <3>2. pc' \in [Procs -> Labels]
      BY DEF ApplyFail, Jump, Labels
    <3>3. \A q \in Procs : pc'[q] \in Busy => cur'[q] \in Tickets
      BY <3>1 DEF ApplyFail, Jump, Release, Busy
    <3>4. status' \in [Tickets -> Statuses] /\ audit' \in [Tickets ->
         Seq(Events)]
      BY <3>1, TransitionTyped DEF ApplyFail, Statuses, Events
    <3> QED
      BY <3>1, <3>2, <3>3, <3>4 DEF ApplyFail, Release
  <2>11. ASSUME NEW h \in Handlers, NEW t \in Tickets, Revoke(h, t) PROVE
       TypeOK'
    BY <2>11 DEF Revoke, RevokeClaim, Transition, Labels, Busy, Statuses,
         Events
  <2>12. ASSUME NEW p \in Procs, RevokeCloseShells(p) PROVE TypeOK'
    BY <2>12 DEF RevokeCloseShells, Jump, Labels, Busy
  <2>13. ASSUME NEW p \in Procs, RevokeCall(p) PROVE TypeOK'
    <3> USE <2>13
    <3>1. cur[p] \in Tickets
      BY DEF RevokeCall, Jump, Busy, Labels
    <3>2. pc' \in [Procs -> Labels]
      BY DEF RevokeCall, Jump, Labels
    <3>3. \A q \in Procs : pc'[q] \in Busy => cur'[q] \in Tickets
      BY <3>1 DEF RevokeCall, Jump, Release, Busy
    <3>4. listener' \in [Tickets -> Addrs \cup {NoAddr}] /\ timer' \in
         [Tickets -> Nat]
      BY DEF RevokeCall, AgentRevoke
    <3> QED
      BY <3>1, <3>2, <3>3, <3>4 DEF RevokeCall
  <2>14. ASSUME NEW p \in Procs, RevokeCallLost(p) PROVE TypeOK'
    <3> USE <2>14
    <3>1. cur[p] \in Tickets
      BY DEF RevokeCallLost, Jump, Busy, Labels
    <3>2. pc' \in [Procs -> Labels]
      BY DEF RevokeCallLost, Jump, Labels
    <3>3. \A q \in Procs : pc'[q] \in Busy => cur'[q] \in Tickets
      BY <3>1 DEF RevokeCallLost, Jump, Release, Busy
    <3>4. late' \in [Tickets -> Seq(Nat)] /\ faults' \in Nat
      BY <3>1, GivenUpTyped DEF RevokeCallLost, Closing
    <3> QED
      BY <3>1, <3>2, <3>3, <3>4 DEF RevokeCallLost
  <2>15. ASSUME NEW p \in Procs, RevokeBindingUnread(p) PROVE TypeOK'
    <3> USE <2>15
    <3>1. cur[p] \in Tickets
      BY DEF RevokeBindingUnread, Jump, Busy, Labels
    <3>2. pc' \in [Procs -> Labels]
      BY DEF RevokeBindingUnread, Jump, Labels
    <3>3. \A q \in Procs : pc'[q] \in Busy => cur'[q] \in Tickets
      BY <3>1 DEF RevokeBindingUnread, Jump, Release, Busy
    <3>4. cause' \in [Tickets -> SUBSET Causes]
      BY <3>1 DEF RevokeBindingUnread, Causes
    <3>5. faults' \in Nat
      BY DEF RevokeBindingUnread, Fault, Sound
    <3> QED
      BY <3>1, <3>2, <3>3, <3>4, <3>5 DEF RevokeBindingUnread
  <2>16. ASSUME NEW p \in Procs, RevokeClearForward(p) PROVE TypeOK'
    BY <2>16 DEF RevokeClearForward, Jump, Labels, Busy
  <2>17. ASSUME NEW p \in Procs, RevokeCommit(p) PROVE TypeOK'
    <3> USE <2>17
    <3>1. cur[p] \in Tickets
      BY DEF RevokeCommit, Jump, Busy, Labels
    <3>2. pc' \in [Procs -> Labels]
      BY DEF RevokeCommit, Jump, Labels, AfterRevoke
    <3>3. \A q \in Procs : pc'[q] \in Busy => cur'[q] \in Tickets
      BY <3>1 DEF RevokeCommit, Jump, Release, Busy, AfterRevoke
    <3>4. status' \in [Tickets -> Statuses] /\ audit' \in [Tickets ->
         Seq(Events)]
      BY <3>1, TransitionTyped DEF RevokeCommit, Statuses, Events
    <3> QED
      BY <3>1, <3>2, <3>3, <3>4 DEF RevokeCommit, Release
  <2>18. ASSUME NEW p \in Procs, RevokeDefer(p) PROVE TypeOK'
    <3> USE <2>18
    <3>1. cur[p] \in Tickets
      BY DEF RevokeDefer, Jump, Busy, Labels
    <3>2. pc' \in [Procs -> Labels]
      BY DEF RevokeDefer, Jump, Labels, AfterRevoke
    <3>3. \A q \in Procs : pc'[q] \in Busy => cur'[q] \in Tickets
      BY <3>1 DEF RevokeDefer, Jump, Release, Busy, AfterRevoke
    <3>4. status' \in [Tickets -> Statuses] /\ audit' \in [Tickets ->
         Seq(Events)]
      BY <3>1, TransitionTyped DEF RevokeDefer, Statuses, Events
    <3> QED
      BY <3>1, <3>2, <3>3, <3>4 DEF RevokeDefer, Release
  <2>19. ASSUME NEW p \in Procs, FinalTxLost(p) PROVE TypeOK'
    BY <2>19 DEF FinalTxLost, AfterRevoke, Fault, Release, Labels, Busy
  <2>20. CASE ExpireList
    BY <2>20 DEF ExpireList, Jump, ListExpiredActiveTickets, Labels, Busy
  <2>21. ASSUME NEW t \in Tickets, ExpireNext(t) PROVE TypeOK'
    <3> USE <2>21
    <3>1. pc' \in [Procs -> Labels]
      BY DEF ExpireNext, RevokeClaim, Labels
    <3>2. \A q \in Procs : pc'[q] \in Busy => cur'[q] \in Tickets
      BY DEF ExpireNext, RevokeClaim, Busy, Labels
    <3>3. status' \in [Tickets -> Statuses] /\ audit' \in [Tickets ->
         Seq(Events)]
      BY TransitionTyped DEF ExpireNext, RevokeClaim, Statuses, Events
    <3>4. cur' \in [Procs -> Tickets \cup {NoTicket}]
      BY DEF ExpireNext, RevokeClaim
    <3>5. faults' \in Nat
      BY DEF ExpireNext, Fault, Sound
    <3> QED
      BY <3>1, <3>2, <3>3, <3>4, <3>5 DEF ExpireNext
  <2>22. CASE ExpireDone
    BY <2>22 DEF ExpireDone, Jump, Labels, Busy
  <2>23. ASSUME NEW p \in Procs, RebuildList(p) PROVE TypeOK'
    BY <2>23 DEF RebuildList, Jump, ListActiveTickets, Labels, Busy
  <2>24. ASSUME NEW p \in Procs, NEW t \in Tickets, RebuildSkip(p, t) PROVE
       TypeOK'
    BY <2>24 DEF RebuildSkip, Labels, Busy
  <2>25. ASSUME NEW p \in Procs, NEW t \in Tickets, RebuildNext(p, t) PROVE
       TypeOK'
    BY <2>25 DEF RebuildNext, Jump, Labels, Busy
  <2>26. ASSUME NEW p \in Procs, RebuildCall(p) PROVE TypeOK'
    <3> USE <2>26
    <3>1. cur[p] \in Tickets
      BY DEF RebuildCall, Jump, Busy, Labels
    <3>2. pc' = [pc EXCEPT ![p] = "rebuild.set"] /\ cur' = cur
      BY DEF RebuildCall, Jump
    <3>3. pc' \in [Procs -> Labels]
      BY <3>2 DEF Labels
    <3>4. \A q \in Procs : pc'[q] \in Busy => cur'[q] \in Tickets
      BY <3>1, <3>2
    <3>5. expires[cur[p]] \in Nat
      BY <3>1
    <3>6. \E a \in Addrs : AgentApply(cur[p], expires[cur[p]], a)
      BY DEF RebuildCall
    <3>7. listener' \in [Tickets -> Addrs \cup {NoAddr}] /\ timer' \in
         [Tickets -> Nat]
      BY <3>1, <3>5, <3>6, AgentApplyTyped
    <3>8. got' \in [Procs -> Addrs \cup {NoAddr}]
      BY DEF RebuildCall
    <3>9. cause' \in [Tickets -> SUBSET Causes]
      BY <3>1 DEF RebuildCall, Causes
    <3> QED
      BY <3>1, <3>2, <3>3, <3>4, <3>7, <3>8, <3>9 DEF RebuildCall
  <2>27. ASSUME NEW p \in Procs, RebuildCallLost(p) PROVE TypeOK'
    <3> USE <2>27
    <3>1. cur[p] \in Tickets
      BY DEF RebuildCallLost, Jump, Busy, Labels
    <3>2. expires[cur[p]] \in Nat
      BY <3>1
    <3>3. late' \in [Tickets -> Seq(Nat)] /\ faults' \in Nat
      BY <3>1, <3>2, GivenUpTyped DEF RebuildCallLost
    <3>4. cause' \in [Tickets -> SUBSET Causes]
      BY <3>1 DEF RebuildCallLost, Causes
    <3>5. /\ pc' \in [Procs -> Labels] /\ cur' \in [Procs -> Tickets \cup {NoTicket}]
          /\ got' \in [Procs -> Addrs \cup {NoAddr}] /\ exp' \in [Procs -> Nat]
      BY DEF RebuildCallLost, Jump, Release, Labels
    <3>6. \A q \in Procs : pc'[q] \in Busy => cur'[q] \in Tickets
      BY DEF RebuildCallLost, Jump, Release, Busy
    <3> QED
      BY <3>3, <3>4, <3>5, <3>6 DEF RebuildCallLost
  <2>28. ASSUME NEW p \in Procs, RebuildSetForward(p) PROVE TypeOK'
    BY <2>28 DEF RebuildSetForward, Jump, StoreForward, Release, Labels,
         Busy, Causes
  <2>29. ASSUME NEW p \in Procs, RebuildDone(p) PROVE TypeOK'
    BY <2>29 DEF RebuildDone, Jump, Labels, Busy
  <2>30. ASSUME NEW p \in Procs, ListLost(p) PROVE TypeOK'
    <3> USE <2>30
    <3>1. pc' \in [Procs -> Labels]
      BY DEF ListLost, Jump, Labels
    <3>2. \A q \in Procs : pc'[q] \in Busy => cur'[q] \in Tickets
      BY DEF ListLost, Jump, Busy, Labels
    <3>3. faults' \in Nat
      BY DEF ListLost, Fault, Sound
    <3>4. peer' \in [Procs -> Agents \cup {NoAgent}]
      BY DEF ListLost
    <3> QED
      BY <3>1, <3>2, <3>3, <3>4 DEF ListLost
  <2>31. ASSUME NEW a \in Agents, NEW w \in Watchers, AgentConnect(a, w)
       PROVE TypeOK'
    BY <2>31 DEF AgentConnect, DropLate, Jump, Labels, Busy
  <2>32. ASSUME NEW w \in Watchers, ReconnectList(w) PROVE TypeOK'
    <3> USE <2>32
    <3>1. /\ pc[w] = "recon"
         /\ \/ pc' = [pc EXCEPT ![w] = "clear"]
            \/ pc' = [pc EXCEPT ![w] = "idle"]
      BY DEF ReconnectList, Jump
    <3>2. pc' \in [Procs -> Labels]
      <4>1. \E l \in Labels : pc' = [pc EXCEPT ![w] = l]
        BY <3>1 DEF Labels
      <4>2. pc \in [Procs -> Labels]
        OBVIOUS
      <4> HIDE DEF TypeOK
      <4> QED
        BY <4>1, <4>2
    <3>3. \A q \in Procs : pc'[q] \in Busy => cur'[q] \in Tickets
      BY <3>1 DEF ReconnectList, Busy
    <3>4. todo' \in [Procs -> SUBSET Tickets]
      BY DEF ReconnectList, ListActiveTickets
    <3>5. peer' \in [Procs -> Agents \cup {NoAgent}]
      BY DEF ReconnectList
    <3>6. cause' \in [Tickets -> SUBSET Causes]
      BY DEF ReconnectList, MissReconnect, Causes
    <3>7. faults' \in Nat
      BY DEF ReconnectList, Fault, Sound
    <3> QED
      BY <3>1, <3>2, <3>3, <3>4, <3>5, <3>6, <3>7 DEF ReconnectList
  <2>33. ASSUME NEW w \in Watchers, NEW t \in Tickets, ReconnectClear(w, t)
       PROVE TypeOK'
    BY <2>33 DEF ReconnectClear, Labels, Busy
  <2>34. ASSUME NEW w \in Watchers, ReconnectCleared(w) PROVE TypeOK'
    BY <2>34 DEF ReconnectCleared, Jump, Labels, Busy
  <2>35. ASSUME NEW a \in Agents, AgentDisconnect(a) PROVE TypeOK'
    <3>1. older' = older \/ older' = [older EXCEPT ![a] = older[a] + 1]
      BY <2>35 DEF AgentDisconnect
    <3>2. older' \in [Agents -> Nat]
      BY <3>1, OneMoreTyped
    <3> QED
      BY <2>35, <3>2 DEF AgentDisconnect, Fault, Labels, Busy
  <2>36. ASSUME NEW a \in Agents, AgentRestart(a) PROVE TypeOK'
    <3>1. older' = older \/ older' = [older EXCEPT ![a] = older[a] + 1]
      BY <2>36 DEF AgentRestart
    <3>2. older' \in [Agents -> Nat]
      BY <3>1, OneMoreTyped
    <3> QED
      BY <2>36, <3>2 DEF AgentRestart, DropLate, Fault, Labels, Busy
  <2>37. ASSUME NEW t \in Tickets, TimerFires(t) PROVE TypeOK'
    BY <2>37 DEF TimerFires, AgentRevoke, Labels, Busy
  <2>38. ASSUME NEW a \in Agents, SetEnrollment(a) PROVE TypeOK'
    BY <2>38 DEF SetEnrollment, Labels, Busy
  <2>39. ASSUME NEW h \in Handlers, NEW t \in Tickets, OpenCheck(h, t) PROVE
       TypeOK'
    BY <2>39 DEF OpenCheck, Jump, Labels, Busy
  <2>40. ASSUME NEW h \in Handlers, OpenDone(h) PROVE TypeOK'
    <3> USE <2>40
    <3>1. cur[h] \in Tickets
      BY DEF OpenDone, Jump, Busy, Labels
    <3>2. pc' \in [Procs -> Labels]
      BY DEF OpenDone, Jump, Labels
    <3>3. \A q \in Procs : pc'[q] \in Busy => cur'[q] \in Tickets
      BY <3>1 DEF OpenDone, Jump, Release, Busy
    <3>4. webShells' \in SUBSET Tickets
      BY <3>1 DEF OpenDone
    <3> QED
      BY <3>1, <3>2, <3>3, <3>4 DEF OpenDone, Release
  <2>41. ASSUME NEW t \in Tickets, WebShellEnds(t) PROVE TypeOK'
    BY <2>41 DEF WebShellEnds, Labels, Busy
  <2>42. CASE Crash
    BY <2>42 DEF Crash, Fault, Labels, Busy
  <2>43. CASE Tick
    BY <2>43 DEF Tick, Labels, Busy
  <2>44. CASE UNCHANGED vars
    BY <2>44 DEF vars
  <2>45. ASSUME NEW a \in Agents, OldControlReturns(a) PROVE TypeOK'
    BY <2>45 DEF OldControlReturns, Labels, Busy
  <2>46. ASSUME NEW t \in Tickets, LateHandled(t) PROVE TypeOK'
    <3> USE <2>46
    <3>1. Head(late[t]) \in Nat /\ Tail(late[t]) \in Seq(Nat)
      BY DEF LateHandled
    <3>2. late' \in [Tickets -> Seq(Nat)]
      BY <3>1 DEF LateHandled
    <3>3. cause' \in [Tickets -> SUBSET Causes]
      <4>1. cause' = cause \/ cause' = [cause EXCEPT ![t] = cause[t] \cup {"late_apply"}]
        BY DEF LateHandled
      <4>2. cause \in [Tickets -> SUBSET Causes]
        OBVIOUS
      <4>3. cause[t] \cup {"late_apply"} \in SUBSET Causes
        BY <4>2 DEF Causes
      <4> HIDE DEF TypeOK
      <4> QED
        BY <4>1, <4>2, <4>3
    <3>4. listener' \in [Tickets -> Addrs \cup {NoAddr}] /\ timer' \in [Tickets -> Nat]
      <4>1. CASE AgentRevoke(t)
        BY <4>1 DEF AgentRevoke
      <4>2. CASE \E a \in Addrs : AgentApply(t, Head(late[t]), a)
        BY <3>1, <4>2, AgentApplyTyped
      <4> QED
        BY <4>1, <4>2 DEF LateHandled
    <3> QED
      BY <3>2, <3>3, <3>4 DEF LateHandled
  <2> QED
    BY <2>1, <2>2, <2>3, <2>4, <2>5, <2>6, <2>7, <2>8, <2>9, <2>10, <2>11,
       <2>12, <2>13, <2>14, <2>15, <2>16, <2>17, <2>18, <2>19, <2>20, <2>21,
       <2>22, <2>23, <2>24, <2>25, <2>26, <2>27, <2>28, <2>29, <2>30, <2>31,
       <2>32, <2>33, <2>34, <2>35, <2>36, <2>37, <2>38, <2>39, <2>40, <2>41,
       <2>42, <2>43, <2>44, <2>45, <2>46 DEF Next, Procs, Request, HandlerStep, ApplyStep,
       RevokeStep, SchedulerStep, ExpireStep, RebuildStep, WatcherStep,
       ReconnectStep, AgentStep, TicketStep
<1> QED
  BY <1>1, <1>2, PTL DEF Spec

-----------------------------------------------------------------------------
(* Ownership *)

\* No step makes a second goroutine apply or revoke a ticket, or moves a ticket
\* on under the one that does.
LEMMA OwnershipStep ==
    ASSUME TypeOK, Ownership, [Next]_vars
    PROVE  Ownership'
<1> USE DEF TypeOK, Ownership, ticketRows, memory, links, locals, rules
<1>1. ASSUME NEW t \in Tickets, NEW u \in Users, Submit(t, u) PROVE Ownership'
  BY <1>1 DEF Submit, Transition, ApplyLabels, RevokeLabels
<1>2. ASSUME NEW h \in Handlers, NEW t \in Tickets, NEW u \in Users,
     Approve(h, t, u) PROVE Ownership'
  BY <1>2 DEF Approve, Jump, Transition, ApplyLabels, RevokeLabels
<1>3. ASSUME NEW h \in Handlers, NEW t \in Tickets, NEW u \in Users,
     Reject(h, t, u) PROVE Ownership'
  BY <1>3 DEF Reject, Transition, ApplyLabels, RevokeLabels
<1>4. ASSUME NEW h \in Handlers, ApplyRead(h) PROVE Ownership'
  BY <1>4 DEF ApplyRead, Jump, ApplyLabels, RevokeLabels
<1>5. ASSUME NEW h \in Handlers, ApplyAbandon(h) PROVE Ownership'
  BY <1>5 DEF ApplyAbandon, Jump, Release, Fault, Sound, ApplyLabels,
     RevokeLabels
<1>6. ASSUME NEW h \in Handlers, ApplyCall(h) PROVE Ownership'
  <2> USE <1>6
  <2>1. /\ pc[h] = "apply.call"
        /\ \/ pc' = [pc EXCEPT ![h] = "apply.set"]
          
        /\ cur' = cur /\ status' = status
    BY DEF ApplyCall, Jump
  <2>2. \A q \in Procs :
         /\ pc'[q] \in ApplyLabels => pc[q] \in ApplyLabels /\ cur'[q] = cur[q]
         /\ pc'[q] \in RevokeLabels => pc[q] \in RevokeLabels /\ cur'[q] = cur[q]
    BY <2>1 DEF ApplyLabels, RevokeLabels
  <2> QED
    BY <2>1, <2>2 DEF Ownership
<1>7. ASSUME NEW h \in Handlers, ApplyCallLost(h) PROVE Ownership'
  BY <1>7 DEF ApplyCallLost, Jump, ApplyLabels, RevokeLabels
<1>8. ASSUME NEW h \in Handlers, ApplySetForward(h) PROVE Ownership'
  BY <1>8 DEF ApplySetForward, Jump, StoreForward, ApplyLabels, RevokeLabels
<1>9. ASSUME NEW h \in Handlers, ApplyCommit(h) PROVE Ownership'
  BY <1>9 DEF ApplyCommit, Jump, Transition, Release, ApplyLabels,
     RevokeLabels
<1>10. ASSUME NEW h \in Handlers, ApplyFail(h) PROVE Ownership'
  BY <1>10 DEF ApplyFail, Jump, Transition, Release, ApplyLabels, RevokeLabels
<1>11. ASSUME NEW h \in Handlers, NEW t \in Tickets, Revoke(h, t) PROVE
     Ownership'
  BY <1>11 DEF Revoke, RevokeClaim, Transition, ApplyLabels, RevokeLabels
<1>12. ASSUME NEW p \in Procs, RevokeCloseShells(p) PROVE Ownership'
  BY <1>12 DEF RevokeCloseShells, Jump, ApplyLabels, RevokeLabels
<1>13. ASSUME NEW p \in Procs, RevokeCall(p) PROVE Ownership'
  BY <1>13 DEF RevokeCall, Jump, AgentRevoke, ApplyLabels,
     RevokeLabels
<1>14. ASSUME NEW p \in Procs, RevokeCallLost(p) PROVE Ownership'
  BY <1>14 DEF RevokeCallLost, Jump, ApplyLabels, RevokeLabels
<1>15. ASSUME NEW p \in Procs, RevokeBindingUnread(p) PROVE Ownership'
  BY <1>15 DEF RevokeBindingUnread, Jump, Fault, ApplyLabels, RevokeLabels
<1>16. ASSUME NEW p \in Procs, RevokeClearForward(p) PROVE Ownership'
  BY <1>16 DEF RevokeClearForward, Jump, ApplyLabels, RevokeLabels
<1>17. ASSUME NEW p \in Procs, RevokeCommit(p) PROVE Ownership'
  BY <1>17 DEF RevokeCommit, Jump, AfterRevoke, Transition, Release,
     ApplyLabels, RevokeLabels
<1>18. ASSUME NEW p \in Procs, RevokeDefer(p) PROVE Ownership'
  BY <1>18 DEF RevokeDefer, Jump, AfterRevoke, Transition, Release,
     ApplyLabels, RevokeLabels
<1>19. ASSUME NEW p \in Procs, FinalTxLost(p) PROVE Ownership'
  BY <1>19 DEF FinalTxLost, AfterRevoke, Fault, Release, ApplyLabels,
     RevokeLabels
<1>20. CASE ExpireList
  BY <1>20 DEF ExpireList, Jump, ListExpiredActiveTickets, ApplyLabels, RevokeLabels
<1>21. ASSUME NEW t \in Tickets, ExpireNext(t) PROVE Ownership'
  <2>1. CASE RevokeClaim(Scheduler, t)
    BY <1>21, <2>1 DEF ExpireNext, RevokeClaim, Transition, ApplyLabels, RevokeLabels
  <2>2. CASE UNCHANGED <<status, pc, cur>>
    BY <2>2
  <2> QED
    BY <1>21, <2>1, <2>2 DEF ExpireNext
<1>22. CASE ExpireDone
  BY <1>22 DEF ExpireDone, Jump, ApplyLabels, RevokeLabels
<1>23. ASSUME NEW p \in Procs, RebuildList(p) PROVE Ownership'
  BY <1>23 DEF RebuildList, Jump, ListActiveTickets, ApplyLabels, RevokeLabels
<1>24. ASSUME NEW p \in Procs, NEW t \in Tickets, RebuildSkip(p, t) PROVE
     Ownership'
  BY <1>24 DEF RebuildSkip, ApplyLabels, RevokeLabels
<1>25. ASSUME NEW p \in Procs, NEW t \in Tickets, RebuildNext(p, t) PROVE
     Ownership'
  BY <1>25 DEF RebuildNext, Jump, ApplyLabels, RevokeLabels
<1>26. ASSUME NEW p \in Procs, RebuildCall(p) PROVE Ownership'
  <2> USE <1>26
  <2>1. /\ pc[p] = "rebuild.call"
        /\ pc' = [pc EXCEPT ![p] = "rebuild.set"]
        /\ cur' = cur /\ status' = status
    BY DEF RebuildCall, Jump
  <2>2. \A q \in Procs :
         /\ pc'[q] \in ApplyLabels => pc[q] \in ApplyLabels /\ cur'[q] = cur[q]
         /\ pc'[q] \in RevokeLabels => pc[q] \in RevokeLabels /\ cur'[q] = cur[q]
    BY <2>1 DEF ApplyLabels, RevokeLabels
  <2> QED
    BY <2>1, <2>2 DEF Ownership
<1>27. ASSUME NEW p \in Procs, RebuildCallLost(p) PROVE Ownership'
  BY <1>27 DEF RebuildCallLost, Jump, Release, ApplyLabels,
     RevokeLabels
<1>28. ASSUME NEW p \in Procs, RebuildSetForward(p) PROVE Ownership'
  BY <1>28 DEF RebuildSetForward, Jump, StoreForward, Release, ApplyLabels,
     RevokeLabels
<1>29. ASSUME NEW p \in Procs, RebuildDone(p) PROVE Ownership'
  BY <1>29 DEF RebuildDone, Jump, ApplyLabels, RevokeLabels
<1>30. ASSUME NEW p \in Procs, ListLost(p) PROVE Ownership'
  <2> USE <1>30
  <2>1. /\ pc[p] \in {"rebuild.list", "idle"}
        /\ \/ pc' = [pc EXCEPT ![p] = "idle"]
           \/ pc' = [pc EXCEPT ![p] = "rebuild.list"]
        /\ cur' = cur /\ status' = status
    BY DEF ListLost, Jump
  <2>2. \A q \in Procs :
         /\ pc'[q] \in ApplyLabels => pc[q] \in ApplyLabels /\ cur'[q] = cur[q]
         /\ pc'[q] \in RevokeLabels => pc[q] \in RevokeLabels /\ cur'[q] = cur[q]
    BY <2>1 DEF ApplyLabels, RevokeLabels
  <2> QED
    BY <2>1, <2>2 DEF Ownership
<1>31. ASSUME NEW a \in Agents, NEW w \in Watchers, AgentConnect(a, w) PROVE
     Ownership'
  BY <1>31 DEF AgentConnect, Jump, ApplyLabels, RevokeLabels
<1>32. ASSUME NEW w \in Watchers, ReconnectList(w) PROVE Ownership'
  <2> USE <1>32
  <2>1. /\ pc[w] = "recon"
        /\ \/ pc' = [pc EXCEPT ![w] = "clear"]
           \/ pc' = [pc EXCEPT ![w] = "idle"]
        /\ cur' = cur /\ status' = status
    BY DEF ReconnectList, Jump
  <2>2. \A q \in Procs :
         /\ pc'[q] \in ApplyLabels => pc[q] \in ApplyLabels /\ cur'[q] = cur[q]
         /\ pc'[q] \in RevokeLabels => pc[q] \in RevokeLabels /\ cur'[q] = cur[q]
    BY <2>1 DEF ApplyLabels, RevokeLabels
  <2> QED
    BY <2>1, <2>2 DEF Ownership
<1>33. ASSUME NEW w \in Watchers, NEW t \in Tickets, ReconnectClear(w, t)
     PROVE Ownership'
  BY <1>33 DEF ReconnectClear, ApplyLabels, RevokeLabels
<1>34. ASSUME NEW w \in Watchers, ReconnectCleared(w) PROVE Ownership'
  BY <1>34 DEF ReconnectCleared, Jump, ApplyLabels, RevokeLabels
<1>35. ASSUME NEW a \in Agents, AgentDisconnect(a) PROVE Ownership'
  BY <1>35 DEF AgentDisconnect, Fault, ApplyLabels, RevokeLabels
<1>36. ASSUME NEW a \in Agents, AgentRestart(a) PROVE Ownership'
  BY <1>36 DEF AgentRestart, Fault, ApplyLabels, RevokeLabels
<1>37. ASSUME NEW t \in Tickets, TimerFires(t) PROVE Ownership'
  BY <1>37 DEF TimerFires, AgentRevoke, ApplyLabels, RevokeLabels
<1>38. ASSUME NEW a \in Agents, SetEnrollment(a) PROVE Ownership'
  BY <1>38 DEF SetEnrollment, ApplyLabels, RevokeLabels
<1>39. ASSUME NEW h \in Handlers, NEW t \in Tickets, OpenCheck(h, t) PROVE
     Ownership'
  BY <1>39 DEF OpenCheck, Jump, ApplyLabels, RevokeLabels
<1>40. ASSUME NEW h \in Handlers, OpenDone(h) PROVE Ownership'
  BY <1>40 DEF OpenDone, Jump, Release, ApplyLabels, RevokeLabels
<1>41. ASSUME NEW t \in Tickets, WebShellEnds(t) PROVE Ownership'
  BY <1>41 DEF WebShellEnds, ApplyLabels, RevokeLabels
<1>42. CASE Crash
  BY <1>42 DEF Crash, Fault, ApplyLabels, RevokeLabels
<1>43. CASE Tick
  BY <1>43 DEF Tick, ApplyLabels, RevokeLabels
<1>44. CASE UNCHANGED vars
  BY <1>44 DEF vars, ApplyLabels, RevokeLabels
<1>45. ASSUME NEW a \in Agents, OldControlReturns(a) PROVE Ownership'
  BY <1>45 DEF OldControlReturns, ApplyLabels, RevokeLabels
<1>46. ASSUME NEW t \in Tickets, LateHandled(t) PROVE Ownership'
  BY <1>46 DEF LateHandled, AgentApply, AgentRevoke, ApplyLabels, RevokeLabels
<1> QED
  BY <1>1, <1>2, <1>3, <1>4, <1>5, <1>6, <1>7, <1>8, <1>9, <1>10, <1>11,
     <1>12, <1>13, <1>14, <1>15, <1>16, <1>17, <1>18, <1>19, <1>20, <1>21,
     <1>22, <1>23, <1>24, <1>25, <1>26, <1>27, <1>28, <1>29, <1>30, <1>31,
     <1>32, <1>33, <1>34, <1>35, <1>36, <1>37, <1>38, <1>39, <1>40, <1>41,
     <1>42, <1>43, <1>44, <1>45, <1>46 DEF Next, Procs, Request, HandlerStep, ApplyStep,
     RevokeStep, SchedulerStep, ExpireStep, RebuildStep, WatcherStep,
     ReconnectStep, AgentStep, TicketStep

\* A ticket is being applied or revoked by at most one goroutine, and its row
\* says so until that goroutine is done, whatever requests, scheduler passes,
\* reconnects and crashes are interleaved: transition()'s guarded UPDATE is
\* enough of a lock.
THEOREM OwnershipHolds == Spec => []Ownership
<1>1. Init => Ownership
  BY DEF Init, Ownership, ApplyLabels, RevokeLabels
<1>2. TypeOK /\ Ownership /\ [Next]_vars => Ownership'
  BY OwnershipStep
<1> QED
  BY <1>1, <1>2, TypeCorrect, PTL DEF Spec

-----------------------------------------------------------------------------
(* The audit trail *)

\* One transition appends to one audit log what its new status calls for.
LEMMA TransitionTrail ==
    ASSUME TypeOK, AuditTrail, NEW t \in Tickets, NEW from \in Statuses, NEW to \in Statuses,
           NEW e, Transition(t, from, to, e), Trail[to] = Append(Trail[from], e)
    PROVE AuditTrail'
BY DEF TypeOK, AuditTrail, Transition

\* The trail of each status extends the trail of the one before it.
LEMMA TrailSteps ==
    /\ Trail["pending"] = Append(Trail["new"], "ticket.submit")
    /\ Trail["approved"] = Append(Trail["pending"], "ticket.approve")
    /\ Trail["rejected"] = Append(Trail["pending"], "ticket.reject")
    /\ Trail["active"] = Append(Trail["approved"], "policy.apply")
    /\ Trail["apply_failed"] = Append(Trail["approved"], "policy.apply_failed")
    /\ Trail["revoking"] = Append(Trail["active"], "ticket.revoke")
    /\ Trail["closed"] = Append(Trail["revoking"], "policy.revoke")
    /\ Trail["revoke_pending"] = Append(Trail["revoking"], "policy.revoke_pending")
BY DEF Trail

\* No step parts a ticket's audit log from its status.
LEMMA AuditTrailStep ==
    ASSUME TypeOK, AuditTrail, [Next]_vars
    PROVE  AuditTrail'
<1> USE DEF TypeOK, AuditTrail, ticketRows, memory, links, locals, rules
<1>1. ASSUME NEW t \in Tickets, NEW u \in Users, Submit(t, u) PROVE
     AuditTrail'
  BY <1>1, TransitionTrail, TrailSteps DEF Submit, Statuses
<1>2. ASSUME NEW h \in Handlers, NEW t \in Tickets, NEW u \in Users,
     Approve(h, t, u) PROVE AuditTrail'
  BY <1>2, TransitionTrail, TrailSteps DEF Approve, Statuses
<1>3. ASSUME NEW h \in Handlers, NEW t \in Tickets, NEW u \in Users,
     Reject(h, t, u) PROVE AuditTrail'
  BY <1>3, TransitionTrail, TrailSteps DEF Reject, Statuses
<1>4. ASSUME NEW h \in Handlers, ApplyRead(h) PROVE AuditTrail'
  BY <1>4 DEF ApplyRead, Jump
<1>5. ASSUME NEW h \in Handlers, ApplyAbandon(h) PROVE AuditTrail'
  BY <1>5 DEF ApplyAbandon, Jump, Release, Fault, Sound
<1>6. ASSUME NEW h \in Handlers, ApplyCall(h) PROVE AuditTrail'
  BY <1>6 DEF ApplyCall, Jump, AgentApply
<1>7. ASSUME NEW h \in Handlers, ApplyCallLost(h) PROVE AuditTrail'
  BY <1>7 DEF ApplyCallLost, Jump
<1>8. ASSUME NEW h \in Handlers, ApplySetForward(h) PROVE AuditTrail'
  BY <1>8 DEF ApplySetForward, Jump, StoreForward
<1>9. ASSUME NEW h \in Handlers, ApplyCommit(h) PROVE AuditTrail'
  <2> USE <1>9
  <2>1. cur[h] \in Tickets
    BY DEF ApplyCommit, Jump, Busy, Labels
  <2>2. AuditTrail'
    BY <2>1, TransitionTrail, TrailSteps DEF ApplyCommit, Statuses
  <2> QED
    BY <2>1, <2>2
<1>10. ASSUME NEW h \in Handlers, ApplyFail(h) PROVE AuditTrail'
  <2> USE <1>10
  <2>1. cur[h] \in Tickets
    BY DEF ApplyFail, Jump, Busy, Labels
  <2>2. AuditTrail'
    BY <2>1, TransitionTrail, TrailSteps DEF ApplyFail, Statuses
  <2> QED
    BY <2>1, <2>2
<1>11. ASSUME NEW h \in Handlers, NEW t \in Tickets, Revoke(h, t) PROVE
     AuditTrail'
  BY <1>11, TransitionTrail, TrailSteps DEF Revoke, RevokeClaim, Statuses
<1>12. ASSUME NEW p \in Procs, RevokeCloseShells(p) PROVE AuditTrail'
  BY <1>12 DEF RevokeCloseShells, Jump
<1>13. ASSUME NEW p \in Procs, RevokeCall(p) PROVE AuditTrail'
  BY <1>13 DEF RevokeCall, Jump, AgentRevoke
<1>14. ASSUME NEW p \in Procs, RevokeCallLost(p) PROVE AuditTrail'
  BY <1>14 DEF RevokeCallLost, Jump
<1>15. ASSUME NEW p \in Procs, RevokeBindingUnread(p) PROVE AuditTrail'
  BY <1>15 DEF RevokeBindingUnread, Jump, Fault
<1>16. ASSUME NEW p \in Procs, RevokeClearForward(p) PROVE AuditTrail'
  BY <1>16 DEF RevokeClearForward, Jump
<1>17. ASSUME NEW p \in Procs, RevokeCommit(p) PROVE AuditTrail'
  <2> USE <1>17
  <2>1. cur[p] \in Tickets
    BY DEF RevokeCommit, Jump, Busy, Labels
  <2>2. AuditTrail'
    BY <2>1, TransitionTrail, TrailSteps DEF RevokeCommit, Statuses
  <2> QED
    BY <2>1, <2>2
<1>18. ASSUME NEW p \in Procs, RevokeDefer(p) PROVE AuditTrail'
  <2> USE <1>18
  <2>1. cur[p] \in Tickets
    BY DEF RevokeDefer, Jump, Busy, Labels
  <2>2. AuditTrail'
    BY <2>1, TransitionTrail, TrailSteps DEF RevokeDefer, Statuses
  <2> QED
    BY <2>1, <2>2
<1>19. ASSUME NEW p \in Procs, FinalTxLost(p) PROVE AuditTrail'
  BY <1>19 DEF FinalTxLost, AfterRevoke, Fault, Release
<1>20. CASE ExpireList
  BY <1>20 DEF ExpireList, Jump, ListExpiredActiveTickets
<1>21. ASSUME NEW t \in Tickets, ExpireNext(t) PROVE AuditTrail'
  <2> USE <1>21
  <2>1. \/ Transition(t, "active", "revoking", "ticket.revoke")
        \/ UNCHANGED <<status, audit>>
    BY DEF ExpireNext, RevokeClaim
  <2>2. AuditTrail'
    BY <2>1, TransitionTrail, TrailSteps DEF Statuses
  <2> QED
    BY <2>1, <2>2
<1>22. CASE ExpireDone
  BY <1>22 DEF ExpireDone, Jump
<1>23. ASSUME NEW p \in Procs, RebuildList(p) PROVE AuditTrail'
  BY <1>23 DEF RebuildList, Jump, ListActiveTickets
<1>24. ASSUME NEW p \in Procs, NEW t \in Tickets, RebuildSkip(p, t) PROVE
     AuditTrail'
  BY <1>24 DEF RebuildSkip
<1>25. ASSUME NEW p \in Procs, NEW t \in Tickets, RebuildNext(p, t) PROVE
     AuditTrail'
  BY <1>25 DEF RebuildNext, Jump
<1>26. ASSUME NEW p \in Procs, RebuildCall(p) PROVE AuditTrail'
  BY <1>26 DEF RebuildCall, Jump, AgentApply
<1>27. ASSUME NEW p \in Procs, RebuildCallLost(p) PROVE AuditTrail'
  BY <1>27 DEF RebuildCallLost, Jump, Release
<1>28. ASSUME NEW p \in Procs, RebuildSetForward(p) PROVE AuditTrail'
  BY <1>28 DEF RebuildSetForward, Jump, StoreForward, Release
<1>29. ASSUME NEW p \in Procs, RebuildDone(p) PROVE AuditTrail'
  BY <1>29 DEF RebuildDone, Jump
<1>30. ASSUME NEW p \in Procs, ListLost(p) PROVE AuditTrail'
  BY <1>30 DEF ListLost, Jump, Fault
<1>31. ASSUME NEW a \in Agents, NEW w \in Watchers, AgentConnect(a, w) PROVE
     AuditTrail'
  BY <1>31 DEF AgentConnect, Jump
<1>32. ASSUME NEW w \in Watchers, ReconnectList(w) PROVE AuditTrail'
  BY <1>32 DEF ReconnectList, Jump, ListActiveTickets, MissReconnect, Fault,
     Sound
<1>33. ASSUME NEW w \in Watchers, NEW t \in Tickets, ReconnectClear(w, t)
     PROVE AuditTrail'
  BY <1>33 DEF ReconnectClear
<1>34. ASSUME NEW w \in Watchers, ReconnectCleared(w) PROVE AuditTrail'
  BY <1>34 DEF ReconnectCleared, Jump
<1>35. ASSUME NEW a \in Agents, AgentDisconnect(a) PROVE AuditTrail'
  BY <1>35 DEF AgentDisconnect, Fault
<1>36. ASSUME NEW a \in Agents, AgentRestart(a) PROVE AuditTrail'
  BY <1>36 DEF AgentRestart, Fault
<1>37. ASSUME NEW t \in Tickets, TimerFires(t) PROVE AuditTrail'
  BY <1>37 DEF TimerFires, AgentRevoke
<1>38. ASSUME NEW a \in Agents, SetEnrollment(a) PROVE AuditTrail'
  BY <1>38 DEF SetEnrollment
<1>39. ASSUME NEW h \in Handlers, NEW t \in Tickets, OpenCheck(h, t) PROVE
     AuditTrail'
  BY <1>39 DEF OpenCheck, Jump
<1>40. ASSUME NEW h \in Handlers, OpenDone(h) PROVE AuditTrail'
  BY <1>40 DEF OpenDone, Jump, Release
<1>41. ASSUME NEW t \in Tickets, WebShellEnds(t) PROVE AuditTrail'
  BY <1>41 DEF WebShellEnds
<1>42. CASE Crash
  BY <1>42 DEF Crash, Fault
<1>43. CASE Tick
  BY <1>43 DEF Tick
<1>44. CASE UNCHANGED vars
  BY <1>44 DEF vars
<1>45. ASSUME NEW a \in Agents, OldControlReturns(a) PROVE AuditTrail'
  BY <1>45 DEF OldControlReturns
<1>46. ASSUME NEW t \in Tickets, LateHandled(t) PROVE AuditTrail'
  BY <1>46 DEF LateHandled, AgentApply, AgentRevoke
<1> QED
  BY <1>1, <1>2, <1>3, <1>4, <1>5, <1>6, <1>7, <1>8, <1>9, <1>10, <1>11,
     <1>12, <1>13, <1>14, <1>15, <1>16, <1>17, <1>18, <1>19, <1>20, <1>21,
     <1>22, <1>23, <1>24, <1>25, <1>26, <1>27, <1>28, <1>29, <1>30, <1>31,
     <1>32, <1>33, <1>34, <1>35, <1>36, <1>37, <1>38, <1>39, <1>40, <1>41,
     <1>42, <1>43, <1>44, <1>45, <1>46 DEF Next, Procs, Request, HandlerStep, ApplyStep,
     RevokeStep, SchedulerStep, ExpireStep, RebuildStep, WatcherStep,
     ReconnectStep, AgentStep, TicketStep

\* The audit log of a ticket is exactly the path to its status, at every moment
\* and in every interleaving: transition() commits both or none.
THEOREM AuditTrailHolds == Spec => []AuditTrail
<1>1. Init => AuditTrail
  <2>1. Trail["new"] = <<>>
    BY DEF Trail
  <2>2. ASSUME Init, NEW t \in Tickets PROVE audit[t] = <<>> /\ status[t] = "new"
    BY <2>2 DEF Init
  <2> QED
    BY <2>1, <2>2, Zenon DEF AuditTrail
<1>2. TypeOK /\ AuditTrail /\ [Next]_vars => AuditTrail'
  BY AuditTrailStep
<1> QED
  BY <1>1, <1>2, TypeCorrect, PTL DEF Spec

-----------------------------------------------------------------------------
(* Decisions and rules *)

\* A ticket's row says no more and no less than its status calls for, and an
\* Apply under way holds an expiry that is a whole window long and still ahead.
Recorded ==
    /\ \A t \in Tickets :
        /\ status[t] \in Granted <=> approver[t] # NoUser
        /\ status[t] # "new" => requester[t] # NoUser
        /\ approver[t] # NoUser => requester[t] # approver[t]
        /\ status[t] \in Activated => binding[t] = AgentOf[t] /\ expires[t] >= Duration
        /\ status[t] \notin Activated => binding[t] = NoAgent /\ expires[t] = 0
    /\ \A p \in Procs :
        pc[p] \in {"apply.call", "apply.set", "apply.commit"} =>
            exp[p] >= Duration /\ exp[p] > now

\* The tickets a pass has listed were activated: a list is never of tickets
\* that have no binding, however old it is.
Listed ==
    \A p \in Procs :
        /\ \A t \in todo[p] : status[t] \in Activated
        /\ pc[p] \in {"rebuild.call", "rebuild.set"} => status[cur[p]] \in Activated

\* The commands of a ticket that are under way although nobody waits for them.
UnderWay(t) == {late[t][i] : i \in DOMAIN late[t]}

Opening == {"apply", "apply.call", "apply.set", "apply.commit"}
Ended   == {"revoking", "revoke_pending", "closed"}

\* A command nobody waits for is of a granted ticket: a Revoke of one that ends,
\* an Apply with the row's expiry or, before there is one, with one at most a
\* window ahead.  None is under way for a ticket that Apply is working on.
Carried ==
    /\ \A t \in Tickets : \A n \in UnderWay(t) :
        /\ status[t] \in Granted
        /\ n = Closing => status[t] \in Ended
        /\ n # Closing => IF expires[t] = 0 THEN n <= now + Duration ELSE n = expires[t]
    /\ \A p \in Procs :
        /\ pc[p] \in Opening => UnderWay(cur[p]) = {}
        /\ pc[p] = "apply.call" => exp[p] <= now + Duration

\* RuleNeedsGrant and RuleWithinWindow, and what they rest on: a ticket being
\* applied had no rule, and gets one that fires when its row will say.
Ruled ==
    /\ RuleNeedsGrant
    /\ RuleWithinWindow
    /\ \A t \in Tickets : timer[t] # 0 => listener[t] # NoAddr
    /\ \A p \in Procs :
        /\ pc[p] \in {"apply", "apply.call"} => listener[cur[p]] = NoAddr
        /\ pc[p] \in {"apply.set", "apply.commit"} /\ timer[cur[p]] # 0
             => timer[cur[p]] = exp[p]

\* No rule, and no Apply under way to make one.
IsSwept(t) == listener[t] = NoAddr /\ UnderWay(t) \subseteq {Closing}

\* ClosedIsUnreachable, and why it comes about: past the call to the Agent a
\* revoke has removed the rule, and nothing but the named causes opens it again.
ClosedIsSwept ==
    \A t \in Tickets :
        /\ status[t] = "closed"
        /\ cause[t] \cap {"stale_reapply", "unread_binding"} = {}
        => IsSwept(t)

Swept ==
    /\ ClosedIsSwept
    /\ \A p \in Procs :
        /\ pc[p] \in {"revoke.clear", "revoke.commit"}
        /\ cause[cur[p]] \cap {"stale_reapply", "unread_binding"} = {}
        => IsSwept(cur[p])

\* A ticket within its window, or about to be: Apply is at its last transaction.
Live(t) ==
    \/ status[t] = "active" /\ expires[t] > now
    \/ \E h \in Handlers : pc[h] = "apply.commit" /\ cur[h] = t

\* Its address is not where its rule listens, and no cause accounts for it.
Stale(t) ==
    /\ Live(t)
    /\ forwards[t] \notin {NoAddr, listener[t]}
    /\ cause[t] \cap {"late_store", "missed_reconnect"} = {}

\* A reconnect of its agent has the ticket still before it.
Awaited(t, w) ==
    /\ peer[w] = AgentOf[t]
    /\ pc[w] = "recon" \/ (pc[w] = "clear" /\ t \in todo[w])

Fresh ==
    \A t \in Tickets :
        Stale(t) => AgentOf[t] \notin connected \/ \E w \in Watchers : Awaited(t, w)

-----------------------------------------------------------------------------
(* Decisions *)

\* No step writes a column of a row whose status does not call for it.
LEMMA RecordedStep ==
    ASSUME TypeOK, Recorded, [Next]_vars
    PROVE  Recorded'
<1> USE DEF TypeOK, Recorded, ticketRows, memory, links, locals, rules
<1>1. ASSUME NEW t \in Tickets, NEW u \in Users, Submit(t, u) PROVE Recorded'
  BY <1>1 DEF Submit, Transition, Granted, Activated
<1>2. ASSUME NEW h \in Handlers, NEW t \in Tickets, NEW u \in Users,
     Approve(h, t, u) PROVE Recorded'
  BY <1>2 DEF Approve, Jump, Transition, Granted, Activated
<1>3. ASSUME NEW h \in Handlers, NEW t \in Tickets, NEW u \in Users,
     Reject(h, t, u) PROVE Recorded'
  BY <1>3 DEF Reject, Transition, Granted, Activated
<1>4. ASSUME NEW h \in Handlers, ApplyRead(h) PROVE Recorded'
  BY <1>4 DEF ApplyRead, Jump, Granted, Activated
<1>5. ASSUME NEW h \in Handlers, ApplyAbandon(h) PROVE Recorded'
  BY <1>5 DEF ApplyAbandon, Jump, Release, Fault, Sound, Granted, Activated
<1>6. ASSUME NEW h \in Handlers, ApplyCall(h) PROVE Recorded'
  BY <1>6 DEF ApplyCall, Jump, AgentApply, Granted, Activated
<1>7. ASSUME NEW h \in Handlers, ApplyCallLost(h) PROVE Recorded'
  BY <1>7 DEF ApplyCallLost, Jump, Granted, Activated
<1>8. ASSUME NEW h \in Handlers, ApplySetForward(h) PROVE Recorded'
  BY <1>8 DEF ApplySetForward, Jump, StoreForward, Granted, Activated
<1>9. ASSUME NEW h \in Handlers, ApplyCommit(h) PROVE Recorded'
  BY <1>9 DEF ApplyCommit, Jump, Transition, Release, Granted, Activated
<1>10. ASSUME NEW h \in Handlers, ApplyFail(h) PROVE Recorded'
  BY <1>10 DEF ApplyFail, Jump, Transition, Release, Granted, Activated
<1>11. ASSUME NEW h \in Handlers, NEW t \in Tickets, Revoke(h, t) PROVE
     Recorded'
  BY <1>11 DEF Revoke, RevokeClaim, Transition, Granted, Activated
<1>12. ASSUME NEW p \in Procs, RevokeCloseShells(p) PROVE Recorded'
  BY <1>12 DEF RevokeCloseShells, Jump, Granted, Activated
<1>13. ASSUME NEW p \in Procs, RevokeCall(p) PROVE Recorded'
  BY <1>13 DEF RevokeCall, Jump, AgentRevoke, Granted, Activated
<1>14. ASSUME NEW p \in Procs, RevokeCallLost(p) PROVE Recorded'
  BY <1>14 DEF RevokeCallLost, Jump, Granted, Activated
<1>15. ASSUME NEW p \in Procs, RevokeBindingUnread(p) PROVE Recorded'
  BY <1>15 DEF RevokeBindingUnread, Jump, Fault, Granted, Activated
<1>16. ASSUME NEW p \in Procs, RevokeClearForward(p) PROVE Recorded'
  BY <1>16 DEF RevokeClearForward, Jump, Granted, Activated
<1>17. ASSUME NEW p \in Procs, RevokeCommit(p) PROVE Recorded'
  BY <1>17 DEF RevokeCommit, Jump, AfterRevoke, Transition, Release, Granted,
     Activated
<1>18. ASSUME NEW p \in Procs, RevokeDefer(p) PROVE Recorded'
  BY <1>18 DEF RevokeDefer, Jump, AfterRevoke, Transition, Release, Granted,
     Activated
<1>19. ASSUME NEW p \in Procs, FinalTxLost(p) PROVE Recorded'
  BY <1>19 DEF FinalTxLost, AfterRevoke, Fault, Release, Granted, Activated
<1>20. CASE ExpireList
  BY <1>20 DEF ExpireList, Jump, ListExpiredActiveTickets, Granted, Activated
<1>21. ASSUME NEW t \in Tickets, ExpireNext(t) PROVE Recorded'
  BY <1>21 DEF ExpireNext, RevokeClaim, Transition, Fault, Sound, Granted,
     Activated
<1>22. CASE ExpireDone
  BY <1>22 DEF ExpireDone, Jump, Granted, Activated
<1>23. ASSUME NEW p \in Procs, RebuildList(p) PROVE Recorded'
  BY <1>23 DEF RebuildList, Jump, ListActiveTickets, Granted, Activated
<1>24. ASSUME NEW p \in Procs, NEW t \in Tickets, RebuildSkip(p, t) PROVE
     Recorded'
  BY <1>24 DEF RebuildSkip, Granted, Activated
<1>25. ASSUME NEW p \in Procs, NEW t \in Tickets, RebuildNext(p, t) PROVE
     Recorded'
  BY <1>25 DEF RebuildNext, Jump, Granted, Activated
<1>26. ASSUME NEW p \in Procs, RebuildCall(p) PROVE Recorded'
  BY <1>26 DEF RebuildCall, Jump, AgentApply, Granted, Activated
<1>27. ASSUME NEW p \in Procs, RebuildCallLost(p) PROVE Recorded'
  BY <1>27 DEF RebuildCallLost, Jump, Release, Granted,
     Activated
<1>28. ASSUME NEW p \in Procs, RebuildSetForward(p) PROVE Recorded'
  BY <1>28 DEF RebuildSetForward, Jump, StoreForward, Release, Granted,
     Activated
<1>29. ASSUME NEW p \in Procs, RebuildDone(p) PROVE Recorded'
  BY <1>29 DEF RebuildDone, Jump, Granted, Activated
<1>30. ASSUME NEW p \in Procs, ListLost(p) PROVE Recorded'
  BY <1>30 DEF ListLost, Jump, Fault, Granted, Activated
<1>31. ASSUME NEW a \in Agents, NEW w \in Watchers, AgentConnect(a, w) PROVE
     Recorded'
  BY <1>31 DEF AgentConnect, Jump, Granted, Activated
<1>32. ASSUME NEW w \in Watchers, ReconnectList(w) PROVE Recorded'
  BY <1>32 DEF ReconnectList, Jump, ListActiveTickets, MissReconnect, Fault,
     Sound, Granted, Activated
<1>33. ASSUME NEW w \in Watchers, NEW t \in Tickets, ReconnectClear(w, t)
     PROVE Recorded'
  BY <1>33 DEF ReconnectClear, Granted, Activated
<1>34. ASSUME NEW w \in Watchers, ReconnectCleared(w) PROVE Recorded'
  BY <1>34 DEF ReconnectCleared, Jump, Granted, Activated
<1>35. ASSUME NEW a \in Agents, AgentDisconnect(a) PROVE Recorded'
  BY <1>35 DEF AgentDisconnect, Fault, Granted, Activated
<1>36. ASSUME NEW a \in Agents, AgentRestart(a) PROVE Recorded'
  BY <1>36 DEF AgentRestart, Fault, Granted, Activated
<1>37. ASSUME NEW t \in Tickets, TimerFires(t) PROVE Recorded'
  BY <1>37 DEF TimerFires, AgentRevoke, Granted, Activated
<1>38. ASSUME NEW a \in Agents, SetEnrollment(a) PROVE Recorded'
  BY <1>38 DEF SetEnrollment, Granted, Activated
<1>39. ASSUME NEW h \in Handlers, NEW t \in Tickets, OpenCheck(h, t) PROVE
     Recorded'
  BY <1>39 DEF OpenCheck, Jump, Granted, Activated
<1>40. ASSUME NEW h \in Handlers, OpenDone(h) PROVE Recorded'
  BY <1>40 DEF OpenDone, Jump, Release, Granted, Activated
<1>41. ASSUME NEW t \in Tickets, WebShellEnds(t) PROVE Recorded'
  BY <1>41 DEF WebShellEnds, Granted, Activated
<1>42. CASE Crash
  BY <1>42 DEF Crash, Fault, Granted, Activated
<1>43. CASE Tick
  BY <1>43 DEF Tick, Granted, Activated
<1>44. CASE UNCHANGED vars
  BY <1>44 DEF vars, Granted, Activated
<1>45. ASSUME NEW a \in Agents, OldControlReturns(a) PROVE Recorded'
  BY <1>45 DEF OldControlReturns, Granted, Activated
<1>46. ASSUME NEW t \in Tickets, LateHandled(t) PROVE Recorded'
  BY <1>46 DEF LateHandled, AgentApply, AgentRevoke, Granted, Activated
<1> QED
  BY <1>1, <1>2, <1>3, <1>4, <1>5, <1>6, <1>7, <1>8, <1>9, <1>10, <1>11,
     <1>12, <1>13, <1>14, <1>15, <1>16, <1>17, <1>18, <1>19, <1>20, <1>21,
     <1>22, <1>23, <1>24, <1>25, <1>26, <1>27, <1>28, <1>29, <1>30, <1>31,
     <1>32, <1>33, <1>34, <1>35, <1>36, <1>37, <1>38, <1>39, <1>40, <1>41,
     <1>42, <1>43, <1>44, <1>45, <1>46 DEF Next, Procs, Request, HandlerStep, ApplyStep,
     RevokeStep, SchedulerStep, ExpireStep, RebuildStep, WatcherStep,
     ReconnectStep, AgentStep, TicketStep

\* Every row says what its status calls for.
THEOREM RecordedHolds == Spec => []Recorded
<1>1. Init => Recorded
  BY DEF Init, Recorded, Granted, Activated
<1>2. TypeOK /\ Recorded /\ [Next]_vars => Recorded'
  BY RecordedStep
<1> QED
  BY <1>1, <1>2, TypeCorrect, PTL DEF Spec

\* Whoever is granted a ticket did not grant it: approver and requester differ,
\* an activated ticket has its agent and its expiry, a pending one has neither.
THEOREM DecisionHolds == Spec => []DecisionOnRecord
<1>1. TypeOK /\ Recorded => DecisionOnRecord
  BY DEF TypeOK, Recorded, DecisionOnRecord, Granted, Activated, Statuses
<1> QED
  BY <1>1, TypeCorrect, RecordedHolds, PTL

\* The three columns of a decision, across one step.
Frozen ==
    \A t \in Tickets :
        /\ approver[t] # NoUser => approver'[t] = approver[t]
        /\ binding[t] # NoAgent => binding'[t] = binding[t]
        /\ expires[t] # 0 => expires'[t] = expires[t]

\* No step writes approver, agent or expiry a second time.
LEMMA FrozenStep ==
    ASSUME TypeOK, Recorded, [Next]_vars
    PROVE  Frozen
<1> USE DEF TypeOK, Frozen, ticketRows, memory, links, locals, rules
<1>1. ASSUME NEW t \in Tickets, NEW u \in Users, Submit(t, u) PROVE Frozen
  BY <1>1 DEF Submit, Transition
<1>2. ASSUME NEW h \in Handlers, NEW t \in Tickets, NEW u \in Users,
     Approve(h, t, u) PROVE Frozen
  BY <1>2 DEF Approve, Jump, Transition, Recorded, Granted
<1>3. ASSUME NEW h \in Handlers, NEW t \in Tickets, NEW u \in Users,
     Reject(h, t, u) PROVE Frozen
  BY <1>3 DEF Reject, Transition
<1>4. ASSUME NEW h \in Handlers, ApplyRead(h) PROVE Frozen
  BY <1>4 DEF ApplyRead, Jump
<1>5. ASSUME NEW h \in Handlers, ApplyAbandon(h) PROVE Frozen
  BY <1>5 DEF ApplyAbandon, Jump, Release, Fault, Sound
<1>6. ASSUME NEW h \in Handlers, ApplyCall(h) PROVE Frozen
  BY <1>6 DEF ApplyCall, Jump, AgentApply
<1>7. ASSUME NEW h \in Handlers, ApplyCallLost(h) PROVE Frozen
  BY <1>7 DEF ApplyCallLost, Jump
<1>8. ASSUME NEW h \in Handlers, ApplySetForward(h) PROVE Frozen
  BY <1>8 DEF ApplySetForward, Jump, StoreForward
<1>9. ASSUME NEW h \in Handlers, ApplyCommit(h) PROVE Frozen
  BY <1>9 DEF ApplyCommit, Jump, Transition, Release, Recorded, Activated
<1>10. ASSUME NEW h \in Handlers, ApplyFail(h) PROVE Frozen
  BY <1>10 DEF ApplyFail, Jump, Transition, Release
<1>11. ASSUME NEW h \in Handlers, NEW t \in Tickets, Revoke(h, t) PROVE Frozen
  BY <1>11 DEF Revoke, RevokeClaim, Transition
<1>12. ASSUME NEW p \in Procs, RevokeCloseShells(p) PROVE Frozen
  BY <1>12 DEF RevokeCloseShells, Jump
<1>13. ASSUME NEW p \in Procs, RevokeCall(p) PROVE Frozen
  BY <1>13 DEF RevokeCall, Jump, AgentRevoke
<1>14. ASSUME NEW p \in Procs, RevokeCallLost(p) PROVE Frozen
  BY <1>14 DEF RevokeCallLost, Jump
<1>15. ASSUME NEW p \in Procs, RevokeBindingUnread(p) PROVE Frozen
  BY <1>15 DEF RevokeBindingUnread, Jump, Fault
<1>16. ASSUME NEW p \in Procs, RevokeClearForward(p) PROVE Frozen
  BY <1>16 DEF RevokeClearForward, Jump
<1>17. ASSUME NEW p \in Procs, RevokeCommit(p) PROVE Frozen
  BY <1>17 DEF RevokeCommit, Jump, AfterRevoke, Transition, Release
<1>18. ASSUME NEW p \in Procs, RevokeDefer(p) PROVE Frozen
  BY <1>18 DEF RevokeDefer, Jump, AfterRevoke, Transition, Release
<1>19. ASSUME NEW p \in Procs, FinalTxLost(p) PROVE Frozen
  BY <1>19 DEF FinalTxLost, AfterRevoke, Fault, Release
<1>20. CASE ExpireList
  BY <1>20 DEF ExpireList, Jump, ListExpiredActiveTickets
<1>21. ASSUME NEW t \in Tickets, ExpireNext(t) PROVE Frozen
  BY <1>21 DEF ExpireNext, RevokeClaim, Transition, Fault, Sound
<1>22. CASE ExpireDone
  BY <1>22 DEF ExpireDone, Jump
<1>23. ASSUME NEW p \in Procs, RebuildList(p) PROVE Frozen
  BY <1>23 DEF RebuildList, Jump, ListActiveTickets
<1>24. ASSUME NEW p \in Procs, NEW t \in Tickets, RebuildSkip(p, t) PROVE
     Frozen
  BY <1>24 DEF RebuildSkip
<1>25. ASSUME NEW p \in Procs, NEW t \in Tickets, RebuildNext(p, t) PROVE
     Frozen
  BY <1>25 DEF RebuildNext, Jump
<1>26. ASSUME NEW p \in Procs, RebuildCall(p) PROVE Frozen
  BY <1>26 DEF RebuildCall, Jump, AgentApply
<1>27. ASSUME NEW p \in Procs, RebuildCallLost(p) PROVE Frozen
  BY <1>27 DEF RebuildCallLost, Jump, Release
<1>28. ASSUME NEW p \in Procs, RebuildSetForward(p) PROVE Frozen
  BY <1>28 DEF RebuildSetForward, Jump, StoreForward, Release
<1>29. ASSUME NEW p \in Procs, RebuildDone(p) PROVE Frozen
  BY <1>29 DEF RebuildDone, Jump
<1>30. ASSUME NEW p \in Procs, ListLost(p) PROVE Frozen
  BY <1>30 DEF ListLost, Jump, Fault
<1>31. ASSUME NEW a \in Agents, NEW w \in Watchers, AgentConnect(a, w) PROVE
     Frozen
  BY <1>31 DEF AgentConnect, Jump
<1>32. ASSUME NEW w \in Watchers, ReconnectList(w) PROVE Frozen
  BY <1>32 DEF ReconnectList, Jump, ListActiveTickets, MissReconnect, Fault,
     Sound
<1>33. ASSUME NEW w \in Watchers, NEW t \in Tickets, ReconnectClear(w, t)
     PROVE Frozen
  BY <1>33 DEF ReconnectClear
<1>34. ASSUME NEW w \in Watchers, ReconnectCleared(w) PROVE Frozen
  BY <1>34 DEF ReconnectCleared, Jump
<1>35. ASSUME NEW a \in Agents, AgentDisconnect(a) PROVE Frozen
  BY <1>35 DEF AgentDisconnect, Fault
<1>36. ASSUME NEW a \in Agents, AgentRestart(a) PROVE Frozen
  BY <1>36 DEF AgentRestart, Fault
<1>37. ASSUME NEW t \in Tickets, TimerFires(t) PROVE Frozen
  BY <1>37 DEF TimerFires, AgentRevoke
<1>38. ASSUME NEW a \in Agents, SetEnrollment(a) PROVE Frozen
  BY <1>38 DEF SetEnrollment
<1>39. ASSUME NEW h \in Handlers, NEW t \in Tickets, OpenCheck(h, t) PROVE
     Frozen
  BY <1>39 DEF OpenCheck, Jump
<1>40. ASSUME NEW h \in Handlers, OpenDone(h) PROVE Frozen
  BY <1>40 DEF OpenDone, Jump, Release
<1>41. ASSUME NEW t \in Tickets, WebShellEnds(t) PROVE Frozen
  BY <1>41 DEF WebShellEnds
<1>42. CASE Crash
  BY <1>42 DEF Crash, Fault
<1>43. CASE Tick
  BY <1>43 DEF Tick
<1>44. CASE UNCHANGED vars
  BY <1>44 DEF vars
<1>45. ASSUME NEW a \in Agents, OldControlReturns(a) PROVE Frozen
  BY <1>45 DEF OldControlReturns
<1>46. ASSUME NEW t \in Tickets, LateHandled(t) PROVE Frozen
  BY <1>46 DEF LateHandled, AgentApply, AgentRevoke
<1> QED
  BY <1>1, <1>2, <1>3, <1>4, <1>5, <1>6, <1>7, <1>8, <1>9, <1>10, <1>11,
     <1>12, <1>13, <1>14, <1>15, <1>16, <1>17, <1>18, <1>19, <1>20, <1>21,
     <1>22, <1>23, <1>24, <1>25, <1>26, <1>27, <1>28, <1>29, <1>30, <1>31,
     <1>32, <1>33, <1>34, <1>35, <1>36, <1>37, <1>38, <1>39, <1>40, <1>41,
     <1>42, <1>43, <1>44, <1>45, <1>46 DEF Next, Procs, Request, HandlerStep, ApplyStep,
     RevokeStep, SchedulerStep, ExpireStep, RebuildStep, WatcherStep,
     ReconnectStep, AgentStep, TicketStep

\* What was decided is never rewritten, by any handler, pass or restart.
THEOREM DecisionStays == Spec => DecisionIsFrozen
<1>1. TypeOK /\ Recorded /\ [Next]_vars => [Frozen]_vars
  BY FrozenStep
<1>2. Spec => [][Frozen]_vars
  BY <1>1, TypeCorrect, RecordedHolds, PTL DEF Spec
<1> QED
  BY <1>2 DEF DecisionIsFrozen, Frozen

\* Together: somebody else than the requester decides a ticket, and nothing that
\* handlers, passes or restarts do afterwards changes who, where and until when.
THEOREM DecisionHeld == Spec => DecisionStands
BY DecisionHolds, DecisionStays, PTL DEF DecisionStands

-----------------------------------------------------------------------------
(* Rules *)

\* No step lists a ticket that was never activated, or un-activates one.
LEMMA ListedStep ==
    ASSUME TypeOK, Listed, [Next]_vars
    PROVE  Listed'
<1> USE DEF TypeOK, Listed, ticketRows, memory, links, locals, rules
<1>1. ASSUME NEW t \in Tickets, NEW u \in Users, Submit(t, u) PROVE Listed'
  BY <1>1 DEF Submit, Transition, Activated
<1>2. ASSUME NEW h \in Handlers, NEW t \in Tickets, NEW u \in Users,
     Approve(h, t, u) PROVE Listed'
  BY <1>2 DEF Approve, Jump, Transition, Activated
<1>3. ASSUME NEW h \in Handlers, NEW t \in Tickets, NEW u \in Users,
     Reject(h, t, u) PROVE Listed'
  BY <1>3 DEF Reject, Transition, Activated
<1>4. ASSUME NEW h \in Handlers, ApplyRead(h) PROVE Listed'
  BY <1>4 DEF ApplyRead, Jump, Activated
<1>5. ASSUME NEW h \in Handlers, ApplyAbandon(h) PROVE Listed'
  BY <1>5 DEF ApplyAbandon, Jump, Release, Fault, Sound, Activated
<1>6. ASSUME NEW h \in Handlers, ApplyCall(h) PROVE Listed'
  <2>1. /\ todo' = todo /\ cur' = cur /\ status' = status
        /\ \A q \in Procs \ {h} : pc'[q] = pc[q]
        /\ pc'[h] = "apply.set"
    BY <1>6 DEF ApplyCall, Jump
  <2> QED
    BY <2>1
<1>7. ASSUME NEW h \in Handlers, ApplyCallLost(h) PROVE Listed'
  BY <1>7 DEF ApplyCallLost, Jump, Activated
<1>8. ASSUME NEW h \in Handlers, ApplySetForward(h) PROVE Listed'
  BY <1>8 DEF ApplySetForward, Jump, StoreForward, Activated
<1>9. ASSUME NEW h \in Handlers, ApplyCommit(h) PROVE Listed'
  <2> DEFINE t == cur[h]
  <2>1. /\ todo' = todo /\ status' = [status EXCEPT ![t] = "active"]
        /\ cur' = [cur EXCEPT ![h] = NoTicket] /\ pc' = [pc EXCEPT ![h] = "idle"]
    BY <1>9 DEF ApplyCommit, Jump, Transition, SetTicketStatus, Release
  <2>2. \A u \in Tickets : status[u] \in Activated => status'[u] \in Activated
    BY <2>1 DEF Activated
  <2>3. ASSUME NEW p \in Procs, NEW u \in todo'[p] PROVE status'[u] \in Activated
    BY <2>1, <2>2, <2>3
  <2>4. ASSUME NEW p \in Procs, pc'[p] \in {"rebuild.call", "rebuild.set"}
        PROVE  status'[cur'[p]] \in Activated
    <3>1. p # h /\ pc[p] = pc'[p] /\ cur'[p] = cur[p]
      BY <2>1, <2>4
    <3>2. status[cur[p]] \in Activated
      BY <2>4, <3>1
    <3>3. cur[p] \in Tickets
      BY <2>4, <3>1 DEF Busy
    <3> QED
      BY <2>2, <3>1, <3>2, <3>3
  <2> QED
    BY <2>3, <2>4
<1>10. ASSUME NEW h \in Handlers, ApplyFail(h) PROVE Listed'
  BY <1>10 DEF ApplyFail, Jump, Transition, Release, Activated
<1>11. ASSUME NEW h \in Handlers, NEW t \in Tickets, Revoke(h, t) PROVE
     Listed'
  <2>1. /\ todo' = todo /\ status' = [status EXCEPT ![t] = "revoking"]
        /\ pc' = [pc EXCEPT ![h] = "revoke.close"] /\ cur' = [cur EXCEPT ![h] = t]
    BY <1>11 DEF Revoke, RevokeClaim, Transition, SetTicketStatus
  <2>2. \A u \in Tickets : status[u] \in Activated => status'[u] \in Activated
    BY <2>1 DEF Activated
  <2>3. ASSUME NEW p \in Procs, NEW u \in todo'[p] PROVE status'[u] \in Activated
    BY <2>1, <2>2, <2>3
  <2>4. ASSUME NEW p \in Procs, pc'[p] \in {"rebuild.call", "rebuild.set"}
        PROVE  status'[cur'[p]] \in Activated
    <3>1. p # h /\ pc[p] = pc'[p] /\ cur'[p] = cur[p]
      BY <2>1, <2>4
    <3>2. status[cur[p]] \in Activated
      BY <2>4, <3>1
    <3>3. cur[p] \in Tickets
      BY <2>4, <3>1 DEF Busy
    <3> QED
      BY <2>2, <3>1, <3>2, <3>3
  <2> QED
    BY <2>3, <2>4
<1>12. ASSUME NEW p \in Procs, RevokeCloseShells(p) PROVE Listed'
  BY <1>12 DEF RevokeCloseShells, Jump, Activated
<1>13. ASSUME NEW p \in Procs, RevokeCall(p) PROVE Listed'
  BY <1>13 DEF RevokeCall, Jump, AgentRevoke, Activated
<1>14. ASSUME NEW p \in Procs, RevokeCallLost(p) PROVE Listed'
  BY <1>14 DEF RevokeCallLost, Jump, Activated
<1>15. ASSUME NEW p \in Procs, RevokeBindingUnread(p) PROVE Listed'
  BY <1>15 DEF RevokeBindingUnread, Jump, Fault, Activated
<1>16. ASSUME NEW p \in Procs, RevokeClearForward(p) PROVE Listed'
  BY <1>16 DEF RevokeClearForward, Jump, Activated
<1>17. ASSUME NEW p \in Procs, RevokeCommit(p) PROVE Listed'
  BY <1>17 DEF RevokeCommit, Jump, AfterRevoke, Transition, Release, Activated
<1>18. ASSUME NEW p \in Procs, RevokeDefer(p) PROVE Listed'
  BY <1>18 DEF RevokeDefer, Jump, AfterRevoke, Transition, Release, Activated
<1>19. ASSUME NEW p \in Procs, FinalTxLost(p) PROVE Listed'
  BY <1>19 DEF FinalTxLost, AfterRevoke, Fault, Release, Activated
<1>20. CASE ExpireList
  BY <1>20 DEF ExpireList, Jump, ListExpiredActiveTickets, Activated
<1>21. ASSUME NEW t \in Tickets, ExpireNext(t) PROVE Listed'
  <2> USE <1>21
  <2>1. \A u \in Tickets : status[u] \in Activated => status'[u] \in Activated
    BY DEF ExpireNext, RevokeClaim, Transition, Activated
  <2>2. \A q \in Procs : pc'[q] \in {"rebuild.call", "rebuild.set"}
       => pc[q] = pc'[q] /\ cur'[q] = cur[q]
    BY DEF ExpireNext, RevokeClaim
  <2>3. \A q \in Procs : todo'[q] \subseteq todo[q]
    BY DEF ExpireNext
  <2>4. \A q \in Procs : pc'[q] \in {"rebuild.call", "rebuild.set"}
       => cur[q] \in Tickets
    BY <2>2 DEF Busy, Labels
  <2> QED
    BY <2>1, <2>2, <2>3, <2>4 DEF Listed
<1>22. CASE ExpireDone
  BY <1>22 DEF ExpireDone, Jump, Activated
<1>23. ASSUME NEW p \in Procs, RebuildList(p) PROVE Listed'
  BY <1>23 DEF RebuildList, Jump, ListActiveTickets, Activated
<1>24. ASSUME NEW p \in Procs, NEW t \in Tickets, RebuildSkip(p, t) PROVE
     Listed'
  BY <1>24 DEF RebuildSkip, Activated
<1>25. ASSUME NEW p \in Procs, NEW t \in Tickets, RebuildNext(p, t) PROVE
     Listed'
  BY <1>25 DEF RebuildNext, Jump, Activated
<1>26. ASSUME NEW p \in Procs, RebuildCall(p) PROVE Listed'
  <2> USE <1>26
  <2> HIDE DEF TypeOK, Listed
  <2>1. status' = status /\ todo' = todo
    BY DEF RebuildCall
  <2>2. pc' = [pc EXCEPT ![p] = "rebuild.set"] /\ cur' = cur
    BY DEF RebuildCall, Jump
  <2>3. pc[p] = "rebuild.call" /\ pc[p] \in Busy /\ cur[p] \in Tickets
    BY DEF RebuildCall, Jump, TypeOK, Busy, Labels
  <2>4. \A q \in Procs : pc'[q] \in {"rebuild.call", "rebuild.set"}
                             => /\ pc[q] \in {"rebuild.call", "rebuild.set"}
                                /\ cur'[q] = cur[q]
    BY <2>2, <2>3 DEF TypeOK
  <2> QED
    BY <2>1, <2>4 DEF Listed
<1>27. ASSUME NEW p \in Procs, RebuildCallLost(p) PROVE Listed'
  BY <1>27 DEF RebuildCallLost, Jump, Release, Activated
<1>28. ASSUME NEW p \in Procs, RebuildSetForward(p) PROVE Listed'
  BY <1>28 DEF RebuildSetForward, Jump, StoreForward, Release, Activated
<1>29. ASSUME NEW p \in Procs, RebuildDone(p) PROVE Listed'
  BY <1>29 DEF RebuildDone, Jump, Activated
<1>30. ASSUME NEW p \in Procs, ListLost(p) PROVE Listed'
  BY <1>30 DEF ListLost, Jump, Fault, Activated
<1>31. ASSUME NEW a \in Agents, NEW w \in Watchers, AgentConnect(a, w) PROVE
     Listed'
  BY <1>31 DEF AgentConnect, Jump, Activated
<1>32. ASSUME NEW w \in Watchers, ReconnectList(w) PROVE Listed'
  <2> USE <1>32
  <2> HIDE DEF TypeOK, Listed
  <2>1. status' = status /\ cur' = cur
    BY DEF ReconnectList
  <2>2. \A q \in Procs : \A t \in todo'[q] : t \in todo[q] \/ status[t] =
       "active"
    BY DEF ReconnectList, ListActiveTickets, TypeOK
  <2>3. \A q \in Procs : pc'[q] \in {"rebuild.call", "rebuild.set"}
       => pc[q] = pc'[q]
    BY DEF ReconnectList, Jump, TypeOK
  <2>4. \A q \in Procs : \A t \in todo'[q] : status'[t] \in Activated
    BY <2>1, <2>2 DEF Activated, Listed
  <2>5. \A q \in Procs : pc'[q] \in {"rebuild.call", "rebuild.set"}
                             => status'[cur'[q]] \in Activated
    BY <2>1, <2>3 DEF Listed
  <2> QED
    BY <2>1, <2>2, <2>3, <2>4, <2>5 DEF Listed
<1>33. ASSUME NEW w \in Watchers, NEW t \in Tickets, ReconnectClear(w, t)
     PROVE Listed'
  BY <1>33 DEF ReconnectClear, Activated
<1>34. ASSUME NEW w \in Watchers, ReconnectCleared(w) PROVE Listed'
  BY <1>34 DEF ReconnectCleared, Jump, Activated
<1>35. ASSUME NEW a \in Agents, AgentDisconnect(a) PROVE Listed'
  BY <1>35 DEF AgentDisconnect, Fault, Activated
<1>36. ASSUME NEW a \in Agents, AgentRestart(a) PROVE Listed'
  BY <1>36 DEF AgentRestart, Fault, Activated
<1>37. ASSUME NEW t \in Tickets, TimerFires(t) PROVE Listed'
  BY <1>37 DEF TimerFires, AgentRevoke, Activated
<1>38. ASSUME NEW a \in Agents, SetEnrollment(a) PROVE Listed'
  BY <1>38 DEF SetEnrollment, Activated
<1>39. ASSUME NEW h \in Handlers, NEW t \in Tickets, OpenCheck(h, t) PROVE
     Listed'
  BY <1>39 DEF OpenCheck, Jump, Activated
<1>40. ASSUME NEW h \in Handlers, OpenDone(h) PROVE Listed'
  BY <1>40 DEF OpenDone, Jump, Release, Activated
<1>41. ASSUME NEW t \in Tickets, WebShellEnds(t) PROVE Listed'
  BY <1>41 DEF WebShellEnds, Activated
<1>42. CASE Crash
  BY <1>42 DEF Crash, Fault, Activated
<1>43. CASE Tick
  BY <1>43 DEF Tick, Activated
<1>44. CASE UNCHANGED vars
  BY <1>44 DEF vars, Activated
<1>45. ASSUME NEW a \in Agents, OldControlReturns(a) PROVE Listed'
  BY <1>45 DEF OldControlReturns, Activated
<1>46. ASSUME NEW t \in Tickets, LateHandled(t) PROVE Listed'
  BY <1>46 DEF LateHandled, AgentApply, AgentRevoke, Activated
<1> QED
  BY <1>1, <1>2, <1>3, <1>4, <1>5, <1>6, <1>7, <1>8, <1>9, <1>10, <1>11,
     <1>12, <1>13, <1>14, <1>15, <1>16, <1>17, <1>18, <1>19, <1>20, <1>21,
     <1>22, <1>23, <1>24, <1>25, <1>26, <1>27, <1>28, <1>29, <1>30, <1>31,
     <1>32, <1>33, <1>34, <1>35, <1>36, <1>37, <1>38, <1>39, <1>40, <1>41,
     <1>42, <1>43, <1>44, <1>45, <1>46 DEF Next, Procs, Request, HandlerStep, ApplyStep,
     RevokeStep, SchedulerStep, ExpireStep, RebuildStep, WatcherStep,
     ReconnectStep, AgentStep, TicketStep

\* Whatever a pass has listed was activated.
THEOREM ListedHolds == Spec => []Listed
<1>1. Init => Listed
  BY DEF Init, Listed
<1>2. TypeOK /\ Listed /\ [Next]_vars => Listed'
  BY ListedStep
<1> QED
  BY <1>1, <1>2, TypeCorrect, PTL DEF Spec

\* What the queue of a ticket holds, as the steps that touch it leave it.
LEMMA GivenUpAdds ==
    ASSUME TypeOK, NEW t \in Tickets, NEW a, NEW command \in Nat, GivenUp(t, a, command)
    PROVE  /\ \A x \in Tickets \ {t} : UnderWay(x)' = UnderWay(x)
           /\ UnderWay(t)' \subseteq UnderWay(t) \cup {command}
           /\ late' = late => UnderWay(t)' = UnderWay(t)
<1>1. late' = late \/ late' = [late EXCEPT ![t] = Append(late[t], command)]
  BY DEF GivenUp
<1>2. late[t] \in Seq(Nat) /\ \A x \in Tickets \ {t} : late'[x] = late[x]
  BY <1>1 DEF TypeOK
<1>3. late'[t] = late[t] \/ late'[t] = Append(late[t], command)
  BY <1>1 DEF TypeOK
<1>4. UnderWay(t)' \subseteq UnderWay(t) \cup {command}
  <2>1. CASE late'[t] = late[t]
    BY <2>1 DEF UnderWay
  <2>2. CASE late'[t] = Append(late[t], command)
    <3>1. \A i \in DOMAIN Append(late[t], command) :
            \/ i \in DOMAIN late[t] /\ Append(late[t], command)[i] = late[t][i]
            \/ Append(late[t], command)[i] = command
      BY <1>2
    <3> QED
      BY <2>2, <3>1 DEF UnderWay
  <2> QED
    BY <1>3, <2>1, <2>2
<1> QED
  BY <1>2, <1>4 DEF UnderWay

LEMMA DropLateDrops ==
    ASSUME NEW a, DropLate(a)
    PROVE  \A x \in Tickets : UnderWay(x)' \subseteq UnderWay(x)
<1>1. \A x \in Tickets : late'[x] = <<>> \/ late'[x] = late[x]
  BY DEF DropLate
<1> QED
  BY <1>1 DEF UnderWay

LEMMA LateHandledTakes ==
    ASSUME TypeOK, NEW t \in Tickets, LateHandled(t)
    PROVE  /\ \A x \in Tickets : UnderWay(x)' \subseteq UnderWay(x)
           /\ Head(late[t]) \in UnderWay(t)
<1>1. late[t] \in Seq(Nat) /\ late[t] # <<>>
  BY DEF LateHandled, TypeOK
<1>2. late'[t] = Tail(late[t]) /\ \A x \in Tickets \ {t} : late'[x] = late[x]
  BY DEF LateHandled, TypeOK
<1>3. Head(late[t]) = late[t][1] /\ 1 \in DOMAIN late[t]
  BY <1>1
<1>4. \A i \in DOMAIN Tail(late[t]) :
        i + 1 \in DOMAIN late[t] /\ Tail(late[t])[i] = late[t][i + 1]
  BY <1>1
<1>5. UnderWay(t)' \subseteq UnderWay(t)
  BY <1>2, <1>4 DEF UnderWay
<1>6. \A x \in Tickets \ {t} : UnderWay(x)' = UnderWay(x)
  BY <1>2 DEF UnderWay
<1>7. Head(late[t]) \in UnderWay(t)
  BY <1>3 DEF UnderWay
<1> QED
  BY <1>5, <1>6, <1>7

\* A step that sends nothing, takes no ticket back and starts an Apply only for
\* one that was not granted before.
LEMMA CarriedKept ==
    ASSUME TypeOK, Carried,
           \A t \in Tickets :
               /\ UnderWay(t)' \subseteq UnderWay(t)
               /\ UnderWay(t)' # {} => expires'[t] = expires[t]
               /\ status[t] \in Granted => status'[t] \in Granted
               /\ status[t] \in Ended => status'[t] \in Ended,
           now' \in {now, now + 1},
           \A p \in Procs :
               /\ pc'[p] \in Opening =>
                     \/ pc[p] \in Opening /\ cur'[p] = cur[p]
                     \/ cur'[p] \in Tickets /\ status[cur'[p]] \notin Granted
               /\ pc'[p] = "apply.call" => exp'[p] <= now' + Duration
    PROVE  Carried'
<1>1. now \in Nat /\ now' \in Nat /\ now' >= now
  BY DEF TypeOK
<1>2. \A p \in Procs : pc[p] \in Opening => cur[p] \in Tickets
  BY DEF TypeOK, Opening, Busy, Labels
<1>3. \A t \in Tickets : UnderWay(t) \subseteq Nat
  BY DEF TypeOK, UnderWay
<1>4. ASSUME NEW t \in Tickets, NEW n \in UnderWay(t)'
      PROVE  /\ status'[t] \in Granted
             /\ n = Closing => status'[t] \in Ended
             /\ n # Closing => IF expires'[t] = 0 THEN n <= now' + Duration
                               ELSE n = expires'[t]
  <2>1. n \in UnderWay(t) /\ n \in Nat /\ expires'[t] = expires[t]
    BY <1>3, <1>4
  <2>2. n # Closing => IF expires[t] = 0 THEN n <= now + Duration ELSE n = expires[t]
    BY <2>1 DEF Carried
  <2>3. n # Closing => IF expires'[t] = 0 THEN n <= now' + Duration ELSE n = expires'[t]
    BY <1>1, <2>1, <2>2
  <2> QED
    BY <2>1, <2>3 DEF Carried
<1>6. ASSUME NEW p \in Procs, pc'[p] \in Opening, NEW t \in Tickets, cur'[p] = t
      PROVE  UnderWay(t)' = {}
  <2>1. UnderWay(t) = {}
    BY <1>2, <1>6 DEF Carried
  <2> QED
    BY <2>1
<1>7. \A p \in Procs : pc'[p] \in Opening => cur'[p] \in Tickets
  BY <1>2
<1>8. (\A t \in Tickets : \A n \in UnderWay(t) :
        /\ status[t] \in Granted
        /\ n = Closing => status[t] \in Ended
        /\ n # Closing => IF expires[t] = 0 THEN n <= now + Duration ELSE n = expires[t])'
  BY <1>4
<1>9. (\A p \in Procs : pc[p] \in Opening => UnderWay(cur[p]) = {})'
  BY <1>6, <1>7 DEF UnderWay
<1> QED
  BY <1>8, <1>9 DEF Carried

\* A call that fails, with a command its ticket's row accounts for.
LEMMA CarriedSent ==
    ASSUME TypeOK, Carried,
           NEW t \in Tickets, NEW a, NEW n \in Nat, GivenUp(t, a, n),
           status[t] \in Granted,
           n = Closing => status[t] \in Ended,
           n # Closing => IF expires[t] = 0 THEN n <= now + Duration ELSE n = expires[t],
           UNCHANGED <<status, expires, now>>,
           \A p \in Procs : pc'[p] \in Opening =>
               /\ pc[p] = pc'[p] /\ cur[p] # t
               /\ cur'[p] = cur[p] /\ exp'[p] = exp[p]
    PROVE  Carried'
<1>1. /\ \A x \in Tickets \ {t} : UnderWay(x)' = UnderWay(x)
      /\ UnderWay(t)' \subseteq UnderWay(t) \cup {n}
  BY GivenUpAdds
<1>2. \A p \in Procs : pc[p] \in Opening => cur[p] \in Tickets
  BY DEF TypeOK, Opening, Busy, Labels
<1>3. (\A x \in Tickets : \A m \in UnderWay(x) :
        /\ status[x] \in Granted
        /\ m = Closing => status[x] \in Ended
        /\ m # Closing => IF expires[x] = 0 THEN m <= now + Duration ELSE m = expires[x])'
  BY <1>1 DEF Carried
<1>4. ASSUME NEW p \in Procs, pc'[p] \in Opening, NEW x \in Tickets, cur'[p] = x
      PROVE  UnderWay(x)' = {}
  BY <1>1, <1>4 DEF Carried
<1>5. (\A p \in Procs : pc[p] \in Opening => UnderWay(cur[p]) = {})'
  <2> SUFFICES ASSUME NEW p \in Procs, pc'[p] \in Opening PROVE UnderWay(cur[p])' = {}
    OBVIOUS
  <2>1. cur'[p] \in Tickets
    BY <1>2
  <2> QED
    BY <1>4, <2>1 DEF UnderWay
<1>6. (\A p \in Procs : pc[p] = "apply.call" => exp[p] <= now + Duration)'
  BY DEF Carried, Opening
<1> QED
  BY <1>3, <1>5, <1>6 DEF Carried

\* What leaves rows, clock and commands alone, and starts no Apply.
LEMMA CarriedFrame ==
    ASSUME TypeOK, Carried, UNCHANGED <<late, status, expires, now>>,
           \A p \in Procs :
               /\ pc'[p] \in Opening => pc[p] \in Opening /\ cur'[p] = cur[p]
               /\ pc'[p] = "apply.call" => pc[p] = "apply.call" /\ exp'[p] = exp[p]
    PROVE  Carried'
<1>1. \A t \in Tickets : UnderWay(t)' \subseteq UnderWay(t)
  BY DEF UnderWay
<1>2. \A p \in Procs : pc[p] = "apply.call" => exp[p] <= now + Duration
  BY DEF Carried
<1>3. \A p \in Procs :
        /\ pc'[p] \in Opening => pc[p] \in Opening /\ cur'[p] = cur[p]
        /\ pc'[p] = "apply.call" => exp'[p] <= now' + Duration
  BY <1>2 DEF Opening
<1> QED
  BY <1>1, <1>3, CarriedKept

\* No step sends a command its ticket's row does not account for.
LEMMA CarriedStep ==
    ASSUME TypeOK, Ownership, Recorded, Listed, Carried, [Next]_vars
    PROVE  Carried'
<1> USE DEF ticketRows, memory, links, locals, rules
<1>1. ASSUME NEW t \in Tickets, NEW u \in Users, Submit(t, u) PROVE Carried'
  <2>1. /\ status' = [status EXCEPT ![t] = "pending"] /\ status[t] = "new"
        /\ UNCHANGED <<late, expires, pc, cur, exp, now>>
    BY <1>1 DEF Submit, Transition, SetTicketStatus, rules, locals
  <2>2. \A x \in Tickets : UnderWay(x)' \subseteq UnderWay(x)
    BY <2>1 DEF UnderWay
  <2>3. \A x \in Tickets :
          /\ status[x] \in Granted => status'[x] \in Granted
          /\ status[x] \in Ended => status'[x] \in Ended
    BY <2>1 DEF TypeOK, Granted, Ended
  <2>4. \A p \in Procs : pc[p] = "apply.call" => exp[p] <= now + Duration
    BY DEF Carried
  <2> QED
    BY <2>1, <2>2, <2>3, <2>4, CarriedKept
<1>2. ASSUME NEW h \in Handlers, NEW t \in Tickets, NEW u \in Users,
     Approve(h, t, u) PROVE Carried'
  <2> USE <1>2
  <2>1. \A x \in Tickets : UnderWay(x)' \subseteq UnderWay(x)
    BY DEF Approve, Jump, Transition, UnderWay
  <2>2. \A x \in Tickets :
          /\ expires'[x] = expires[x]
          /\ status[x] \in Granted => status'[x] \in Granted
          /\ status[x] \in Ended => status'[x] \in Ended
    BY DEF Approve, Jump, Transition, TypeOK, Granted, Ended
  <2>3. \A q \in Procs :
          /\ pc'[q] \in Opening =>
                \/ pc[q] \in Opening /\ cur'[q] = cur[q]
                \/ cur'[q] \in Tickets /\ status[cur'[q]] \notin Granted
          /\ pc'[q] = "apply.call" => exp'[q] <= now' + Duration
    BY DEF Approve, Jump, Transition, TypeOK, Carried, Opening, Granted
  <2>4. now' \in {now, now + 1}
    BY DEF Approve, Jump, Transition
  <2> QED
    BY <2>1, <2>2, <2>3, <2>4, CarriedKept
<1>3. ASSUME NEW h \in Handlers, NEW t \in Tickets, NEW u \in Users,
     Reject(h, t, u) PROVE Carried'
  <2>1. /\ status' = [status EXCEPT ![t] = "rejected"] /\ status[t] = "pending"
        /\ UNCHANGED <<late, expires, pc, cur, exp, now>>
    BY <1>3 DEF Reject, Transition, SetTicketStatus, rules, locals
  <2>2. \A x \in Tickets : UnderWay(x)' \subseteq UnderWay(x)
    BY <2>1 DEF UnderWay
  <2>3. \A x \in Tickets :
          /\ status[x] \in Granted => status'[x] \in Granted
          /\ status[x] \in Ended => status'[x] \in Ended
    BY <2>1 DEF TypeOK, Granted, Ended
  <2>4. \A p \in Procs : pc[p] = "apply.call" => exp[p] <= now + Duration
    BY DEF Carried
  <2> QED
    BY <2>1, <2>2, <2>3, <2>4, CarriedKept
<1>4. ASSUME NEW h \in Handlers, ApplyRead(h) PROVE Carried'
  <2> USE <1>4
  <2>1. \A x \in Tickets : UnderWay(x)' \subseteq UnderWay(x)
    BY DEF ApplyRead, Jump, UnderWay
  <2>2. \A x \in Tickets :
          /\ expires'[x] = expires[x]
          /\ status[x] \in Granted => status'[x] \in Granted
          /\ status[x] \in Ended => status'[x] \in Ended
    BY DEF ApplyRead, Jump, TypeOK, Granted, Ended
  <2>3. \A q \in Procs :
          /\ pc'[q] \in Opening =>
                \/ pc[q] \in Opening /\ cur'[q] = cur[q]
                \/ cur'[q] \in Tickets /\ status[cur'[q]] \notin Granted
          /\ pc'[q] = "apply.call" => exp'[q] <= now' + Duration
    BY DEF ApplyRead, Jump, TypeOK, Carried, Opening
  <2>4. now' \in {now, now + 1}
    BY DEF ApplyRead, Jump
  <2> QED
    BY <2>1, <2>2, <2>3, <2>4, CarriedKept
<1>5. ASSUME NEW h \in Handlers, ApplyAbandon(h) PROVE Carried'
  BY <1>5, CarriedFrame DEF ApplyAbandon, Jump, Release, TypeOK, rules, ticketRows, Opening
<1>6. ASSUME NEW h \in Handlers, ApplyCall(h) PROVE Carried'
  <2> USE <1>6
  <2>1. \A x \in Tickets : UnderWay(x)' \subseteq UnderWay(x)
    BY DEF ApplyCall, Jump, AgentApply, UnderWay
  <2>2. \A x \in Tickets :
          /\ expires'[x] = expires[x]
          /\ status[x] \in Granted => status'[x] \in Granted
          /\ status[x] \in Ended => status'[x] \in Ended
    BY DEF ApplyCall, Jump, AgentApply, TypeOK, Granted, Ended
  <2>3. \A q \in Procs :
          /\ pc'[q] \in Opening =>
                \/ pc[q] \in Opening /\ cur'[q] = cur[q]
                \/ cur'[q] \in Tickets /\ status[cur'[q]] \notin Granted
          /\ pc'[q] = "apply.call" => exp'[q] <= now' + Duration
    BY DEF ApplyCall, Jump, AgentApply, TypeOK, Carried, Opening
  <2>4. now' \in {now, now + 1}
    BY DEF ApplyCall, Jump, AgentApply
  <2> QED
    BY <2>1, <2>2, <2>3, <2>4, CarriedKept
<1>7. ASSUME NEW h \in Handlers, ApplyCallLost(h) PROVE Carried'
  <2> USE <1>7
  <2>1. cur[h] \in Tickets /\ exp[h] \in Nat
    BY DEF ApplyCallLost, Jump, TypeOK, Busy, Labels
  <2>2. exp[h] > now /\ exp[h] <= now + Duration /\ pc[h] \in ApplyLabels
    BY DEF ApplyCallLost, Jump, Recorded, Carried, ApplyLabels
  <2>3. status[cur[h]] = "approved" /\ expires[cur[h]] = 0
    BY <2>1, <2>2 DEF Ownership, Recorded, Activated
  <2>4. \A p \in Procs : pc'[p] \in Opening =>
          /\ pc[p] = pc'[p] /\ cur[p] # cur[h]
          /\ cur'[p] = cur[p] /\ exp'[p] = exp[p]
    BY <2>2 DEF ApplyCallLost, Jump, TypeOK, Ownership, Opening, ApplyLabels
  <2>5. exp[h] # Closing /\ GivenUp(cur[h], AgentOf[cur[h]], exp[h])
        /\ UNCHANGED <<status, expires, now>>
    BY <2>1, <2>2 DEF ApplyCallLost, Closing, TypeOK
  <2> QED
    BY <2>1, <2>2, <2>3, <2>4, <2>5, CarriedSent DEF Granted
<1>8. ASSUME NEW h \in Handlers, ApplySetForward(h) PROVE Carried'
  BY <1>8, CarriedFrame DEF ApplySetForward, Jump, TypeOK, rules, ticketRows, locals, Opening
<1>9. ASSUME NEW h \in Handlers, ApplyCommit(h) PROVE Carried'
  <2> USE <1>9
  <2>0. UnderWay(cur[h]) = {} /\ cur[h] \in Tickets
    BY DEF ApplyCommit, Jump, TypeOK, Carried, Opening, Busy, Labels
  <2>1. \A x \in Tickets : UnderWay(x)' \subseteq UnderWay(x)
    BY DEF ApplyCommit, Jump, Transition, Release, UnderWay
  <2>2. \A x \in Tickets :
          /\ UnderWay(x)' # {} => expires'[x] = expires[x]
          /\ status[x] \in Granted => status'[x] \in Granted
          /\ status[x] \in Ended => status'[x] \in Ended
    BY <2>0, <2>1 DEF ApplyCommit, Jump, Transition, TypeOK, Granted, Ended
  <2>3. \A q \in Procs :
          /\ pc'[q] \in Opening =>
                \/ pc[q] \in Opening /\ cur'[q] = cur[q]
                \/ cur'[q] \in Tickets /\ status[cur'[q]] \notin Granted
          /\ pc'[q] = "apply.call" => exp'[q] <= now' + Duration
    BY DEF ApplyCommit, Jump, Transition, Release, TypeOK, Carried, Opening
  <2>4. now' \in {now, now + 1}
    BY DEF ApplyCommit, Jump, Transition, Release
  <2> QED
    BY <2>1, <2>2, <2>3, <2>4, CarriedKept
<1>10. ASSUME NEW h \in Handlers, ApplyFail(h) PROVE Carried'
  <2> USE <1>10
  <2>1. \A x \in Tickets : UnderWay(x)' \subseteq UnderWay(x)
    BY DEF ApplyFail, Jump, Transition, Release, UnderWay
  <2>2. \A x \in Tickets :
          /\ expires'[x] = expires[x]
          /\ status[x] \in Granted => status'[x] \in Granted
          /\ status[x] \in Ended => status'[x] \in Ended
    BY DEF ApplyFail, Jump, Transition, Release, TypeOK, Granted, Ended
  <2>3. \A q \in Procs :
          /\ pc'[q] \in Opening =>
                \/ pc[q] \in Opening /\ cur'[q] = cur[q]
                \/ cur'[q] \in Tickets /\ status[cur'[q]] \notin Granted
          /\ pc'[q] = "apply.call" => exp'[q] <= now' + Duration
    BY DEF ApplyFail, Jump, Transition, Release, TypeOK, Carried, Opening
  <2>4. now' \in {now, now + 1}
    BY DEF ApplyFail, Jump, Transition, Release
  <2> QED
    BY <2>1, <2>2, <2>3, <2>4, CarriedKept
<1>11. ASSUME NEW h \in Handlers, NEW t \in Tickets, Revoke(h, t) PROVE
     Carried'
  <2> USE <1>11
  <2>1. \A x \in Tickets : UnderWay(x)' = UnderWay(x)
    BY DEF Revoke, UnderWay
  <2>2. \A x \in Tickets :
          /\ expires'[x] = expires[x]
          /\ status[x] \in Granted => status'[x] \in Granted
          /\ status[x] \in Ended => status'[x] \in Ended
    BY DEF Revoke, RevokeClaim, Transition, SetTicketStatus, TypeOK, Granted, Ended
  <2>3. \A q \in Procs :
          /\ pc'[q] \in Opening => pc[q] \in Opening /\ cur'[q] = cur[q]
          /\ pc'[q] = "apply.call" => exp'[q] <= now' + Duration
    BY DEF Revoke, RevokeClaim, TypeOK, Carried, Opening
  <2>4. now' \in {now, now + 1}
    BY DEF Revoke
  <2> QED
    BY <2>1, <2>2, <2>3, <2>4, CarriedKept
<1>12. ASSUME NEW p \in Procs, RevokeCloseShells(p) PROVE Carried'
  BY <1>12, CarriedKept DEF RevokeCloseShells, Jump, UnderWay, TypeOK,
     Carried, Granted, Ended, Opening
<1>13. ASSUME NEW p \in Procs, RevokeCall(p) PROVE Carried'
  BY <1>13, CarriedKept DEF RevokeCall, Jump, UnderWay, TypeOK,
     Carried, Granted, Ended, Opening
<1>14. ASSUME NEW p \in Procs, RevokeCallLost(p) PROVE Carried'
  <2> USE <1>14
  <2>1. cur[p] \in Tickets /\ Closing \in Nat
    BY DEF RevokeCallLost, Jump, TypeOK, Busy, Labels, Closing
  <2>2. status[cur[p]] = "revoking"
    BY <2>1 DEF RevokeCallLost, Jump, Ownership, RevokeLabels
  <2>3. \A q \in Procs : pc'[q] \in Opening =>
          /\ pc[q] = pc'[q] /\ cur[q] # cur[p]
          /\ cur'[q] = cur[q] /\ exp'[q] = exp[q]
    BY <2>2 DEF RevokeCallLost, Jump, TypeOK, Ownership, Opening, ApplyLabels
  <2>4. GivenUp(cur[p], binding[cur[p]], Closing) /\ UNCHANGED <<status, expires, now>>
    BY DEF RevokeCallLost
  <2> QED
    BY <2>1, <2>2, <2>3, <2>4, CarriedSent DEF Granted, Ended
<1>15. ASSUME NEW p \in Procs, RevokeBindingUnread(p) PROVE Carried'
  BY <1>15, CarriedKept DEF RevokeBindingUnread, Jump, Fault, UnderWay, TypeOK,
     Carried, Granted, Ended, Opening
<1>16. ASSUME NEW p \in Procs, RevokeClearForward(p) PROVE Carried'
  BY <1>16, CarriedKept DEF RevokeClearForward, Jump, UnderWay, TypeOK,
     Carried, Granted, Ended, Opening
<1>17. ASSUME NEW p \in Procs, RevokeCommit(p) PROVE Carried'
  <2> USE <1>17
  <2>1. \A x \in Tickets : UnderWay(x)' \subseteq UnderWay(x)
    BY DEF RevokeCommit, Jump, AfterRevoke, Transition, Release, UnderWay
  <2>2. \A x \in Tickets :
          /\ expires'[x] = expires[x]
          /\ status[x] \in Granted => status'[x] \in Granted
          /\ status[x] \in Ended => status'[x] \in Ended
    BY DEF RevokeCommit, Jump, AfterRevoke, Transition, Release, TypeOK, Granted, Ended
  <2>3. \A q \in Procs :
          /\ pc'[q] \in Opening =>
                \/ pc[q] \in Opening /\ cur'[q] = cur[q]
                \/ cur'[q] \in Tickets /\ status[cur'[q]] \notin Granted
          /\ pc'[q] = "apply.call" => exp'[q] <= now' + Duration
    BY DEF RevokeCommit, Jump, AfterRevoke, Transition, Release, TypeOK, Carried, Opening
  <2>4. now' \in {now, now + 1}
    BY DEF RevokeCommit, Jump, AfterRevoke, Transition, Release
  <2> QED
    BY <2>1, <2>2, <2>3, <2>4, CarriedKept
<1>18. ASSUME NEW p \in Procs, RevokeDefer(p) PROVE Carried'
  <2> USE <1>18
  <2>1. \A x \in Tickets : UnderWay(x)' \subseteq UnderWay(x)
    BY DEF RevokeDefer, Jump, AfterRevoke, Transition, Release, UnderWay
  <2>2. \A x \in Tickets :
          /\ expires'[x] = expires[x]
          /\ status[x] \in Granted => status'[x] \in Granted
          /\ status[x] \in Ended => status'[x] \in Ended
    BY DEF RevokeDefer, Jump, AfterRevoke, Transition, Release, TypeOK, Granted, Ended
  <2>3. \A q \in Procs :
          /\ pc'[q] \in Opening =>
                \/ pc[q] \in Opening /\ cur'[q] = cur[q]
                \/ cur'[q] \in Tickets /\ status[cur'[q]] \notin Granted
          /\ pc'[q] = "apply.call" => exp'[q] <= now' + Duration
    BY DEF RevokeDefer, Jump, AfterRevoke, Transition, Release, TypeOK, Carried, Opening
  <2>4. now' \in {now, now + 1}
    BY DEF RevokeDefer, Jump, AfterRevoke, Transition, Release
  <2> QED
    BY <2>1, <2>2, <2>3, <2>4, CarriedKept
<1>19. ASSUME NEW p \in Procs, FinalTxLost(p) PROVE Carried'
  BY <1>19, CarriedFrame DEF FinalTxLost, AfterRevoke, Release, TypeOK, rules, ticketRows, Opening
<1>20. CASE ExpireList
  BY <1>20, CarriedKept DEF ExpireList, Jump, ListExpiredActiveTickets, UnderWay, TypeOK,
     Carried, Granted, Ended, Opening
<1>21. ASSUME NEW t \in Tickets, ExpireNext(t) PROVE Carried'
  <2> USE <1>21
  <2>1. \A x \in Tickets : UnderWay(x)' \subseteq UnderWay(x)
    BY DEF ExpireNext, RevokeClaim, Transition, Fault, Sound, UnderWay
  <2>2. \A x \in Tickets :
          /\ expires'[x] = expires[x]
          /\ status[x] \in Granted => status'[x] \in Granted
          /\ status[x] \in Ended => status'[x] \in Ended
    BY DEF ExpireNext, RevokeClaim, Transition, Fault, Sound, TypeOK, Granted, Ended
  <2>3. \A q \in Procs :
          /\ pc'[q] \in Opening =>
                \/ pc[q] \in Opening /\ cur'[q] = cur[q]
                \/ cur'[q] \in Tickets /\ status[cur'[q]] \notin Granted
          /\ pc'[q] = "apply.call" => exp'[q] <= now' + Duration
    BY DEF ExpireNext, RevokeClaim, Transition, Fault, Sound, TypeOK, Carried, Opening
  <2>4. now' \in {now, now + 1}
    BY DEF ExpireNext, RevokeClaim, Transition, Fault, Sound
  <2> QED
    BY <2>1, <2>2, <2>3, <2>4, CarriedKept
<1>22. CASE ExpireDone
  BY <1>22, CarriedFrame DEF ExpireDone, Jump, TypeOK, rules, ticketRows, locals, Opening
<1>23. ASSUME NEW p \in Procs, RebuildList(p) PROVE Carried'
  BY <1>23, CarriedKept DEF RebuildList, Jump, ListActiveTickets, UnderWay, TypeOK,
     Carried, Granted, Ended, Opening
<1>24. ASSUME NEW p \in Procs, NEW t \in Tickets, RebuildSkip(p, t) PROVE
     Carried'
  BY <1>24, CarriedFrame DEF RebuildSkip, rules, ticketRows, Opening
<1>25. ASSUME NEW p \in Procs, NEW t \in Tickets, RebuildNext(p, t) PROVE
     Carried'
  BY <1>25, CarriedFrame DEF RebuildNext, Jump, TypeOK, rules, ticketRows, Opening
<1>26. ASSUME NEW p \in Procs, RebuildCall(p) PROVE Carried'
  BY <1>26, CarriedFrame DEF RebuildCall, Jump, TypeOK, rules, ticketRows, Opening
<1>27. ASSUME NEW p \in Procs, RebuildCallLost(p) PROVE Carried'
  <2> USE <1>27
  <2>1. cur[p] \in Tickets /\ expires[cur[p]] \in Nat
    BY DEF RebuildCallLost, Jump, TypeOK, Busy, Labels
  <2>2. status[cur[p]] \in Activated /\ expires[cur[p]] # 0
    BY <2>1 DEF RebuildCallLost, Jump, Listed, Recorded
  <2>3. \A q \in Procs : pc'[q] \in Opening =>
          /\ pc[q] = pc'[q] /\ cur[q] # cur[p]
          /\ cur'[q] = cur[q] /\ exp'[q] = exp[q]
    BY <2>2 DEF RebuildCallLost, Jump, Release, TypeOK, Ownership, Opening, ApplyLabels,
       Activated
  <2>4. GivenUp(cur[p], binding[cur[p]], expires[cur[p]]) /\ UNCHANGED <<status, expires, now>>
    BY DEF RebuildCallLost
  <2> QED
    BY <2>1, <2>2, <2>3, <2>4, CarriedSent DEF Granted, Activated, Closing
<1>28. ASSUME NEW p \in Procs, RebuildSetForward(p) PROVE Carried'
  BY <1>28, CarriedFrame DEF RebuildSetForward, Jump, Release, TypeOK, rules, ticketRows, Opening
<1>29. ASSUME NEW p \in Procs, RebuildDone(p) PROVE Carried'
  BY <1>29, CarriedFrame DEF RebuildDone, Jump, TypeOK, rules, ticketRows, Opening
<1>30. ASSUME NEW p \in Procs, ListLost(p) PROVE Carried'
  <2> USE <1>30
  <2>1. \A x \in Tickets : UnderWay(x)' \subseteq UnderWay(x)
    BY DEF ListLost, Jump, Fault, UnderWay
  <2>2. \A x \in Tickets :
          /\ expires'[x] = expires[x]
          /\ status[x] \in Granted => status'[x] \in Granted
          /\ status[x] \in Ended => status'[x] \in Ended
    BY DEF ListLost, Jump, Fault, TypeOK, Granted, Ended
  <2>3. \A q \in Procs :
          /\ pc'[q] \in Opening =>
                \/ pc[q] \in Opening /\ cur'[q] = cur[q]
                \/ cur'[q] \in Tickets /\ status[cur'[q]] \notin Granted
          /\ pc'[q] = "apply.call" => exp'[q] <= now' + Duration
    BY DEF ListLost, Jump, Fault, TypeOK, Carried, Opening
  <2>4. now' \in {now, now + 1}
    BY DEF ListLost, Jump, Fault
  <2> QED
    BY <2>1, <2>2, <2>3, <2>4, CarriedKept
<1>31. ASSUME NEW a \in Agents, NEW w \in Watchers, AgentConnect(a, w) PROVE
     Carried'
  BY <1>31, DropLateDrops, CarriedKept DEF AgentConnect, Jump, TypeOK,
     Carried, Granted, Ended, Opening
<1>32. ASSUME NEW w \in Watchers, ReconnectList(w) PROVE Carried'
  <2> USE <1>32
  <2>1. \A x \in Tickets : UnderWay(x)' \subseteq UnderWay(x)
    BY DEF ReconnectList, Jump, UnderWay
  <2>2. \A x \in Tickets :
          /\ expires'[x] = expires[x]
          /\ status[x] \in Granted => status'[x] \in Granted
          /\ status[x] \in Ended => status'[x] \in Ended
    BY DEF ReconnectList, Jump, TypeOK, Granted, Ended
  <2>3. \A q \in Procs :
          /\ pc'[q] \in Opening =>
                \/ pc[q] \in Opening /\ cur'[q] = cur[q]
                \/ cur'[q] \in Tickets /\ status[cur'[q]] \notin Granted
          /\ pc'[q] = "apply.call" => exp'[q] <= now' + Duration
    BY DEF ReconnectList, Jump, MissReconnect, TypeOK, Carried, Opening
  <2>4. now' \in {now, now + 1}
    BY DEF ReconnectList, Jump
  <2> QED
    BY <2>1, <2>2, <2>3, <2>4, CarriedKept
<1>33. ASSUME NEW w \in Watchers, NEW t \in Tickets, ReconnectClear(w, t)
     PROVE Carried'
  BY <1>33, CarriedFrame DEF ReconnectClear, rules, ticketRows, Opening
<1>34. ASSUME NEW w \in Watchers, ReconnectCleared(w) PROVE Carried'
  BY <1>34, CarriedFrame DEF ReconnectCleared, Jump, TypeOK, rules, ticketRows, locals, Opening
<1>35. ASSUME NEW a \in Agents, AgentDisconnect(a) PROVE Carried'
  <2> USE <1>35
  <2>1. \A x \in Tickets : UnderWay(x)' \subseteq UnderWay(x)
    BY DEF AgentDisconnect, Fault, UnderWay
  <2>2. \A x \in Tickets :
          /\ expires'[x] = expires[x]
          /\ status[x] \in Granted => status'[x] \in Granted
          /\ status[x] \in Ended => status'[x] \in Ended
    BY DEF AgentDisconnect, Fault, TypeOK, Granted, Ended
  <2>3. \A q \in Procs :
          /\ pc'[q] \in Opening =>
                \/ pc[q] \in Opening /\ cur'[q] = cur[q]
                \/ cur'[q] \in Tickets /\ status[cur'[q]] \notin Granted
          /\ pc'[q] = "apply.call" => exp'[q] <= now' + Duration
    BY DEF AgentDisconnect, Fault, TypeOK, Carried, Opening
  <2>4. now' \in {now, now + 1}
    BY DEF AgentDisconnect, Fault
  <2> QED
    BY <2>1, <2>2, <2>3, <2>4, CarriedKept
<1>36. ASSUME NEW a \in Agents, AgentRestart(a) PROVE Carried'
  BY <1>36, DropLateDrops, CarriedKept DEF AgentRestart, Fault, TypeOK,
     Carried, Granted, Ended, Opening
<1>37. ASSUME NEW t \in Tickets, TimerFires(t) PROVE Carried'
  BY <1>37, CarriedFrame DEF TimerFires, ticketRows, locals, Opening
<1>38. ASSUME NEW a \in Agents, SetEnrollment(a) PROVE Carried'
  BY <1>38, CarriedFrame DEF SetEnrollment, rules, ticketRows, locals, Opening
<1>39. ASSUME NEW h \in Handlers, NEW t \in Tickets, OpenCheck(h, t) PROVE
     Carried'
  BY <1>39, CarriedFrame DEF OpenCheck, Jump, TypeOK, rules, ticketRows, Opening
<1>40. ASSUME NEW h \in Handlers, OpenDone(h) PROVE Carried'
  BY <1>40, CarriedFrame DEF OpenDone, Jump, Release, TypeOK, rules, ticketRows, Opening
<1>41. ASSUME NEW t \in Tickets, WebShellEnds(t) PROVE Carried'
  BY <1>41, CarriedFrame DEF WebShellEnds, rules, ticketRows, locals, Opening
<1>42. CASE Crash
  BY <1>42, CarriedKept DEF Crash, Fault, UnderWay, TypeOK,
     Carried, Granted, Ended, Opening
<1>43. CASE Tick
  <2> USE <1>43
  <2>1. \A x \in Tickets : UnderWay(x)' \subseteq UnderWay(x)
    BY DEF Tick, UnderWay
  <2>2. \A x \in Tickets :
          /\ expires'[x] = expires[x]
          /\ status[x] \in Granted => status'[x] \in Granted
          /\ status[x] \in Ended => status'[x] \in Ended
    BY DEF Tick, TypeOK, Granted, Ended
  <2>3. \A q \in Procs :
          /\ pc'[q] \in Opening =>
                \/ pc[q] \in Opening /\ cur'[q] = cur[q]
                \/ cur'[q] \in Tickets /\ status[cur'[q]] \notin Granted
          /\ pc'[q] = "apply.call" => exp'[q] <= now' + Duration
    BY DEF Tick, TypeOK, Carried, Opening
  <2>4. now' \in {now, now + 1}
    BY DEF Tick
  <2> QED
    BY <2>1, <2>2, <2>3, <2>4, CarriedKept
<1>44. CASE UNCHANGED vars
  BY <1>44, CarriedFrame DEF vars, rules, ticketRows, locals, Opening
<1>45. ASSUME NEW a \in Agents, OldControlReturns(a) PROVE Carried'
  BY <1>45, CarriedFrame DEF OldControlReturns, rules, ticketRows, locals, Opening
<1>46. ASSUME NEW t \in Tickets, LateHandled(t) PROVE Carried'
  BY <1>46, LateHandledTakes, CarriedKept DEF LateHandled, TypeOK,
     Carried, Granted, Ended, Opening
<1> QED
  BY <1>1, <1>2, <1>3, <1>4, <1>5, <1>6, <1>7, <1>8, <1>9, <1>10, <1>11,
     <1>12, <1>13, <1>14, <1>15, <1>16, <1>17, <1>18, <1>19, <1>20, <1>21,
     <1>22, <1>23, <1>24, <1>25, <1>26, <1>27, <1>28, <1>29, <1>30, <1>31,
     <1>32, <1>33, <1>34, <1>35, <1>36, <1>37, <1>38, <1>39, <1>40, <1>41,
     <1>42, <1>43, <1>44, <1>45, <1>46 DEF Next, Procs, Request, HandlerStep, ApplyStep,
     RevokeStep, SchedulerStep, ExpireStep, RebuildStep, WatcherStep,
     ReconnectStep, AgentStep, TicketStep


\* Whatever is under way when its caller has gone, its ticket's row accounts for.
THEOREM CarriedHolds == Spec => []Carried
<1>1. Init => Carried
  BY DEF Init, Carried, UnderWay, Opening
<1>2. TypeOK /\ Ownership /\ Recorded /\ Listed /\ Carried /\ [Next]_vars => Carried'
  BY CarriedStep
<1> QED
  BY <1>1, <1>2, TypeCorrect, OwnershipHolds, RecordedHolds, ListedHolds, PTL DEF Spec

\* No step opens a rule without a grant, or with a timer of its own making.
LEMMA RuledStep ==
    ASSUME TypeOK, Ownership, Recorded, Listed, Carried, Ruled, [Next]_vars
    PROVE  Ruled'
<1> USE DEF TypeOK, Ownership, Recorded, Listed, Ruled, RuleNeedsGrant, RuleWithinWindow,
           ticketRows, memory, links, locals, rules
<1>1. ASSUME NEW t \in Tickets, NEW u \in Users, Submit(t, u) PROVE Ruled'
  BY <1>1 DEF Submit, Transition, Granted, Activated, ApplyLabels
<1>2. ASSUME NEW h \in Handlers, NEW t \in Tickets, NEW u \in Users,
     Approve(h, t, u) PROVE Ruled'
  <2> USE <1>2
  <2>1. listener[t] = NoAddr /\ forwards[t] = NoAddr
    BY DEF Approve, Transition, Granted
  <2>2. \A q \in Procs : pc[q] \in ApplyLabels => cur[q] # t
    BY DEF Approve, Transition
  <2>3. RuleNeedsGrant' /\ RuleWithinWindow'
    BY DEF Approve, Transition, Granted
  <2>4. \A q \in Procs :
         /\ pc'[q] \in {"apply", "apply.call"} => listener'[cur'[q]] = NoAddr
         /\ pc'[q] \in {"apply.set", "apply.commit"} /\ timer'[cur'[q]] # 0
              => timer'[cur'[q]] = exp'[q]
    BY <2>1 DEF Approve, Jump
  <2> QED
    BY <2>1, <2>2, <2>3, <2>4 DEF Approve
<1>3. ASSUME NEW h \in Handlers, NEW t \in Tickets, NEW u \in Users,
     Reject(h, t, u) PROVE Ruled'
  BY <1>3 DEF Reject, Transition, Granted, Activated, ApplyLabels
<1>4. ASSUME NEW h \in Handlers, ApplyRead(h) PROVE Ruled'
  BY <1>4 DEF ApplyRead, Jump, Granted, Activated, ApplyLabels
<1>5. ASSUME NEW h \in Handlers, ApplyAbandon(h) PROVE Ruled'
  BY <1>5 DEF ApplyAbandon, Jump, Release, Fault, Sound, Granted, Activated,
     ApplyLabels
<1>6. ASSUME NEW h \in Handlers, ApplyCall(h) PROVE Ruled'
  <2> USE <1>6
  <2> HIDE DEF TypeOK, Ownership, Recorded, Listed, Ruled, RuleNeedsGrant,
       RuleWithinWindow
  <2>1. cur[h] \in Tickets
    BY DEF ApplyCall, Jump, Busy, Labels, TypeOK
  <2>2. /\ pc[h] = "apply.call" /\ pc[h] \in ApplyLabels
        /\ pc' = [pc EXCEPT ![h] = "apply.set"]
        /\ cur' = cur /\ exp' = exp /\ status' = status
        /\ expires' = expires /\ forwards' = forwards
    BY DEF ApplyCall, Jump, ApplyLabels
  <2>3. status[cur[h]] = "approved" /\ listener[cur[h]] = NoAddr
       /\ expires[cur[h]] = 0
    BY <2>1, <2>2 DEF Ownership, Ruled, Recorded, Activated
  <2>4. exp[h] > now
    BY <2>2 DEF Recorded
  <2>5. PICK a \in Addrs : /\ listener' = [listener EXCEPT ![cur[h]] = a]
                          /\ timer' = [timer EXCEPT ![cur[h]] = exp[h]]
    BY <2>1, <2>3, <2>4 DEF AgentApply, ApplyCall
  <2>6. \A q \in Procs \ {h} : pc[q] \in ApplyLabels
                               => cur[q] \in Tickets /\ cur[q] # cur[h]
    BY <2>2 DEF Ownership
  <2>7. \A q \in Procs \ {h} : /\ pc'[q] = pc[q]
                              /\ pc[q] \in {"apply", "apply.call", "apply.set", "apply.commit"}
                                   => pc[q] \in ApplyLabels
    BY <2>2 DEF ApplyLabels, TypeOK
  <2>8. \A q \in Procs \ {h} :
         /\ pc'[q] \in {"apply", "apply.call"} => listener'[cur'[q]] = NoAddr
         /\ pc'[q] \in {"apply.set", "apply.commit"} /\ timer'[cur'[q]] # 0
              => timer'[cur'[q]] = exp'[q]
    BY <2>2, <2>5, <2>6, <2>7 DEF Ruled, TypeOK
  <2>9. /\ pc'[h] \notin {"apply", "apply.call"}
        /\ timer'[cur'[h]] = exp'[h]
    BY <2>1, <2>2, <2>5 DEF TypeOK
  <2>10. RuleNeedsGrant'
    BY <2>1, <2>2, <2>3, <2>5 DEF RuleNeedsGrant, Ruled, Granted, TypeOK
  <2>11. RuleWithinWindow'
    BY <2>1, <2>2, <2>3, <2>5 DEF RuleWithinWindow, Ruled, TypeOK
  <2>12. \A t \in Tickets : timer'[t] # 0 => listener'[t] # NoAddr
    BY <2>1, <2>5 DEF Ruled, TypeOK
  <2> QED
    BY <2>1, <2>2, <2>3, <2>4, <2>5, <2>6, <2>7, <2>8, <2>9, <2>10, <2>11,
       <2>12 DEF Ruled
<1>7. ASSUME NEW h \in Handlers, ApplyCallLost(h) PROVE Ruled'
  BY <1>7 DEF ApplyCallLost, Jump, Granted, Activated,
     ApplyLabels
<1>8. ASSUME NEW h \in Handlers, ApplySetForward(h) PROVE Ruled'
  BY <1>8 DEF ApplySetForward, Jump, StoreForward, Granted, Activated,
     ApplyLabels
<1>9. ASSUME NEW h \in Handlers, ApplyCommit(h) PROVE Ruled'
  BY <1>9 DEF ApplyCommit, Jump, Transition, Release, Granted, Activated,
     ApplyLabels
<1>10. ASSUME NEW h \in Handlers, ApplyFail(h) PROVE Ruled'
  BY <1>10 DEF ApplyFail, Jump, Transition, Release, Granted, Activated,
     ApplyLabels
<1>11. ASSUME NEW h \in Handlers, NEW t \in Tickets, Revoke(h, t) PROVE Ruled'
  BY <1>11 DEF Revoke, RevokeClaim, Transition, Granted, Activated,
     ApplyLabels
<1>12. ASSUME NEW p \in Procs, RevokeCloseShells(p) PROVE Ruled'
  BY <1>12 DEF RevokeCloseShells, Jump, Granted, Activated, ApplyLabels
<1>13. ASSUME NEW p \in Procs, RevokeCall(p) PROVE Ruled'
  <2> USE <1>13
  <2>1. /\ pc[p] = "revoke.call"
        /\ pc' = [pc EXCEPT ![p] = "revoke.clear"]
        /\ AgentRevoke(cur[p])
        /\ UNCHANGED <<cur, exp, status, expires, forwards>>
    BY DEF RevokeCall, Jump
  <2>2. \A q \in Procs :
         /\ pc'[q] \in {"apply", "apply.call", "apply.set", "apply.commit"} => pc'[q] = pc[q]
         /\ cur'[q] = cur[q] /\ exp'[q] = exp[q]
    BY <2>1
  <2>3. \A t \in Tickets :
         \/ listener'[t] = listener[t] /\ timer'[t] = timer[t]
         \/ listener'[t] = NoAddr /\ timer'[t] = 0
    BY <2>1 DEF AgentRevoke
  <2>4. \A q \in Procs : pc'[q] \in {"apply", "apply.call", "apply.set", "apply.commit"}
                             => cur[q] \in Tickets
    BY <2>2 DEF Busy, Labels
  <2>5. \A q \in Procs :
         /\ pc'[q] \in {"apply", "apply.call"} => listener'[cur'[q]] = NoAddr
         /\ pc'[q] \in {"apply.set", "apply.commit"} /\ timer'[cur'[q]] # 0
              => timer'[cur'[q]] = exp'[q]
    BY <2>2, <2>3, <2>4
  <2>6. RuleNeedsGrant' /\ RuleWithinWindow'
    BY <2>1 DEF AgentRevoke
  <2>7. \A t \in Tickets : timer'[t] # 0 => listener'[t] # NoAddr
    BY <2>1 DEF AgentRevoke
  <2> QED
    BY <2>1, <2>2, <2>3, <2>4, <2>5, <2>6, <2>7 DEF Ruled
<1>14. ASSUME NEW p \in Procs, RevokeCallLost(p) PROVE Ruled'
  BY <1>14 DEF RevokeCallLost, Jump, Granted, Activated,
     ApplyLabels
<1>15. ASSUME NEW p \in Procs, RevokeBindingUnread(p) PROVE Ruled'
  BY <1>15 DEF RevokeBindingUnread, Jump, Fault, Granted, Activated,
     ApplyLabels
<1>16. ASSUME NEW p \in Procs, RevokeClearForward(p) PROVE Ruled'
  BY <1>16 DEF RevokeClearForward, Jump, Granted, Activated, ApplyLabels
<1>17. ASSUME NEW p \in Procs, RevokeCommit(p) PROVE Ruled'
  BY <1>17 DEF RevokeCommit, Jump, AfterRevoke, Transition, Release, Granted,
     Activated, ApplyLabels
<1>18. ASSUME NEW p \in Procs, RevokeDefer(p) PROVE Ruled'
  BY <1>18 DEF RevokeDefer, Jump, AfterRevoke, Transition, Release, Granted,
     Activated, ApplyLabels
<1>19. ASSUME NEW p \in Procs, FinalTxLost(p) PROVE Ruled'
  BY <1>19 DEF FinalTxLost, AfterRevoke, Fault, Release, Granted, Activated,
     ApplyLabels
<1>20. CASE ExpireList
  BY <1>20 DEF ExpireList, Jump, ListExpiredActiveTickets, Granted, Activated,
     ApplyLabels
<1>21. ASSUME NEW t \in Tickets, ExpireNext(t) PROVE Ruled'
  <2> USE <1>21
  <2> HIDE DEF TypeOK, Ownership, Recorded, Listed, Carried, Ruled, RuleNeedsGrant,
       RuleWithinWindow
  <2>1. /\ UNCHANGED <<listener, timer, expires, exp, forwards>>
        /\ \A x \in Tickets : status[x] \in Granted => status'[x] \in Granted
    BY DEF ExpireNext, RevokeClaim, Transition, TypeOK, Granted
  <2>2. \A q \in Procs :
          pc'[q] \in {"apply", "apply.call", "apply.set", "apply.commit"} =>
             pc'[q] = pc[q] /\ cur'[q] = cur[q]
    BY DEF ExpireNext, RevokeClaim, TypeOK
  <2> QED
    BY <2>1, <2>2 DEF Ruled, RuleNeedsGrant, RuleWithinWindow
<1>22. CASE ExpireDone
  BY <1>22 DEF ExpireDone, Jump, Granted, Activated, ApplyLabels
<1>23. ASSUME NEW p \in Procs, RebuildList(p) PROVE Ruled'
  BY <1>23 DEF RebuildList, Jump, ListActiveTickets, Granted, Activated,
     ApplyLabels
<1>24. ASSUME NEW p \in Procs, NEW t \in Tickets, RebuildSkip(p, t) PROVE
     Ruled'
  BY <1>24 DEF RebuildSkip, Granted, Activated, ApplyLabels
<1>25. ASSUME NEW p \in Procs, NEW t \in Tickets, RebuildNext(p, t) PROVE
     Ruled'
  BY <1>25 DEF RebuildNext, Jump, Granted, Activated, ApplyLabels
<1>26. ASSUME NEW p \in Procs, RebuildCall(p) PROVE Ruled'
  <2> USE <1>26
  <2> HIDE DEF TypeOK, Ownership, Recorded, Listed, Ruled, RuleNeedsGrant,
       RuleWithinWindow
  <2>1. cur[p] \in Tickets /\ status[cur[p]] \in Activated
    BY DEF RebuildCall, Jump, Busy, Labels, TypeOK, Listed
  <2>2. status[cur[p]] \in Granted
    BY <2>1 DEF Activated, Granted
  <2>3. PICK a \in Addrs : AgentApply(cur[p], expires[cur[p]], a)
    BY DEF RebuildCall
  <2>4. /\ pc[p] = "rebuild.call"
        /\ pc' = [pc EXCEPT ![p] = "rebuild.set"]
        /\ \A q \in Procs : q # p => cur'[q] = cur[q]
        /\ exp' = exp /\ status' = status /\ expires' = expires
        /\ forwards' = forwards
    BY DEF RebuildCall, Jump, TypeOK
  <2>5. \A q \in Procs : pc[q] \in ApplyLabels => cur[q] \in Tickets
       /\ cur[q] # cur[p]
    BY <2>1 DEF Ownership, Activated
  <2>6. \A t \in Tickets \ {cur[p]} : listener'[t] = listener[t]
       /\ timer'[t] = timer[t]
    BY <2>3 DEF AgentApply, TypeOK
  <2>7. /\ listener'[cur[p]] # NoAddr
        /\ timer'[cur[p]] \in {0, timer[cur[p]], expires[cur[p]]}
    BY <2>1, <2>3 DEF AgentApply, TypeOK
  <2>8. \A q \in Procs :
         pc'[q] \in {"apply", "apply.call", "apply.set", "apply.commit"}
           => /\ pc[q] = pc'[q] /\ exp'[q] = exp[q]
              /\ pc[q] \in ApplyLabels /\ cur'[q] = cur[q]
    BY <2>4 DEF ApplyLabels, TypeOK
  <2>9. \A q \in Procs :
         /\ pc'[q] \in {"apply", "apply.call"} => listener'[cur'[q]] = NoAddr
         /\ pc'[q] \in {"apply.set", "apply.commit"} /\ timer'[cur'[q]] # 0
              => timer'[cur'[q]] = exp'[q]
    BY <2>5, <2>6, <2>8 DEF Ruled
  <2>10. RuleNeedsGrant'
    BY <2>1, <2>2, <2>4, <2>6 DEF Ruled, RuleNeedsGrant
  <2>11. RuleWithinWindow'
    BY <2>1, <2>4, <2>6, <2>7 DEF Ruled, RuleWithinWindow
  <2>12. \A t \in Tickets : timer'[t] # 0 => listener'[t] # NoAddr
    BY <2>6, <2>7 DEF Ruled
  <2> QED
    BY <2>1, <2>2, <2>3, <2>4, <2>5, <2>6, <2>7, <2>8, <2>9, <2>10, <2>11,
       <2>12 DEF Ruled
<1>27. ASSUME NEW p \in Procs, RebuildCallLost(p) PROVE Ruled'
  BY <1>27 DEF RebuildCallLost, Jump, Release, Granted,
     Activated, ApplyLabels
<1>28. ASSUME NEW p \in Procs, RebuildSetForward(p) PROVE Ruled'
  BY <1>28 DEF RebuildSetForward, Jump, StoreForward, Release, Granted,
     Activated, ApplyLabels
<1>29. ASSUME NEW p \in Procs, RebuildDone(p) PROVE Ruled'
  BY <1>29 DEF RebuildDone, Jump, Granted, Activated, ApplyLabels
<1>30. ASSUME NEW p \in Procs, ListLost(p) PROVE Ruled'
  BY <1>30 DEF ListLost, Jump, Fault, Granted, Activated, ApplyLabels
<1>31. ASSUME NEW a \in Agents, NEW w \in Watchers, AgentConnect(a, w) PROVE
     Ruled'
  BY <1>31 DEF AgentConnect, Jump, Granted, Activated, ApplyLabels
<1>32. ASSUME NEW w \in Watchers, ReconnectList(w) PROVE Ruled'
  <2> USE <1>32
  <2> HIDE DEF TypeOK, Ownership, Recorded, Listed, Carried, Ruled, RuleNeedsGrant,
       RuleWithinWindow
  <2>1. /\ UNCHANGED <<listener, timer, expires, exp, forwards>>
        /\ \A x \in Tickets : status[x] \in Granted => status'[x] \in Granted
    BY DEF ReconnectList, TypeOK, Granted
  <2>2. \A q \in Procs :
          pc'[q] \in {"apply", "apply.call", "apply.set", "apply.commit"} =>
             pc'[q] = pc[q] /\ cur'[q] = cur[q]
    BY DEF ReconnectList, Jump, TypeOK
  <2> QED
    BY <2>1, <2>2 DEF Ruled, RuleNeedsGrant, RuleWithinWindow
<1>33. ASSUME NEW w \in Watchers, NEW t \in Tickets, ReconnectClear(w, t)
     PROVE Ruled'
  BY <1>33 DEF ReconnectClear, Granted, Activated, ApplyLabels
<1>34. ASSUME NEW w \in Watchers, ReconnectCleared(w) PROVE Ruled'
  BY <1>34 DEF ReconnectCleared, Jump, Granted, Activated, ApplyLabels
<1>35. ASSUME NEW a \in Agents, AgentDisconnect(a) PROVE Ruled'
  BY <1>35 DEF AgentDisconnect, Fault, Granted, Activated, ApplyLabels
<1>36. ASSUME NEW a \in Agents, AgentRestart(a) PROVE Ruled'
  BY <1>36 DEF AgentRestart, Fault, Granted, Activated, ApplyLabels
<1>37. ASSUME NEW t \in Tickets, TimerFires(t) PROVE Ruled'
  BY <1>37 DEF TimerFires, AgentRevoke, Granted, Activated, ApplyLabels
<1>38. ASSUME NEW a \in Agents, SetEnrollment(a) PROVE Ruled'
  BY <1>38 DEF SetEnrollment, Granted, Activated, ApplyLabels
<1>39. ASSUME NEW h \in Handlers, NEW t \in Tickets, OpenCheck(h, t) PROVE
     Ruled'
  BY <1>39 DEF OpenCheck, Jump, Granted, Activated, ApplyLabels
<1>40. ASSUME NEW h \in Handlers, OpenDone(h) PROVE Ruled'
  BY <1>40 DEF OpenDone, Jump, Release, Granted, Activated, ApplyLabels
<1>41. ASSUME NEW t \in Tickets, WebShellEnds(t) PROVE Ruled'
  BY <1>41 DEF WebShellEnds, Granted, Activated, ApplyLabels
<1>42. CASE Crash
  BY <1>42 DEF Crash, Fault, Granted, Activated, ApplyLabels
<1>43. CASE Tick
  BY <1>43 DEF Tick, Granted, Activated, ApplyLabels
<1>44. CASE UNCHANGED vars
  BY <1>44 DEF vars, Granted, Activated, ApplyLabels
<1>45. ASSUME NEW a \in Agents, OldControlReturns(a) PROVE Ruled'
  BY <1>45 DEF OldControlReturns, Granted, Activated, ApplyLabels
<1>46. ASSUME NEW t \in Tickets, LateHandled(t) PROVE Ruled'
  <2> DEFINE n == Head(late[t])
  <2> HIDE DEF TypeOK, Ownership, Recorded, Listed, Ruled, RuleNeedsGrant, RuleWithinWindow
  <2>1. n \in UnderWay(t) /\ n \in Nat
    BY <1>46, LateHandledTakes DEF TypeOK, UnderWay
  <2>2. /\ UNCHANGED <<status, expires, forwards, now, pc, cur, exp>>
        /\ \A x \in Tickets \ {t} : listener'[x] = listener[x] /\ timer'[x] = timer[x]
    BY <1>46 DEF LateHandled, AgentApply, AgentRevoke, TypeOK
  <2>3. \A p \in Procs : pc[p] \in Opening => cur[p] \in Tickets \ {t}
    BY <2>1 DEF Carried, Opening, TypeOK, Busy, Labels
  <2>4. status[t] \in Granted
    BY <2>1 DEF Carried
  <2>5. \/ listener'[t] = NoAddr /\ timer'[t] = 0
        \/ listener'[t] = listener[t] /\ timer'[t] = timer[t]
        \/ listener'[t] # NoAddr /\ timer'[t] \in {0, n} /\ n # Closing
    BY <1>46, <2>1 DEF LateHandled, AgentApply, AgentRevoke, TypeOK
  <2>6. n # Closing => expires[t] = 0 \/ expires[t] = n
    BY <2>1 DEF Carried
  <2>7. RuleNeedsGrant' /\ RuleWithinWindow'
    BY <2>2, <2>4, <2>5, <2>6 DEF Ruled, RuleNeedsGrant, RuleWithinWindow
  <2>8. \A x \in Tickets : timer'[x] # 0 => listener'[x] # NoAddr
    BY <2>2, <2>5 DEF Ruled
  <2>9. \A p \in Procs :
         /\ pc'[p] \in {"apply", "apply.call"} => listener'[cur'[p]] = NoAddr
         /\ pc'[p] \in {"apply.set", "apply.commit"} /\ timer'[cur'[p]] # 0
              => timer'[cur'[p]] = exp'[p]
    BY <2>2, <2>3 DEF Ruled, Opening
  <2> QED
    BY <2>7, <2>8, <2>9 DEF Ruled
<1> QED
  BY <1>1, <1>2, <1>3, <1>4, <1>5, <1>6, <1>7, <1>8, <1>9, <1>10, <1>11,
     <1>12, <1>13, <1>14, <1>15, <1>16, <1>17, <1>18, <1>19, <1>20, <1>21,
     <1>22, <1>23, <1>24, <1>25, <1>26, <1>27, <1>28, <1>29, <1>30, <1>31,
     <1>32, <1>33, <1>34, <1>35, <1>36, <1>37, <1>38, <1>39, <1>40, <1>41,
     <1>42, <1>43, <1>44, <1>45, <1>46 DEF Next, Procs, Request, HandlerStep, ApplyStep,
     RevokeStep, SchedulerStep, ExpireStep, RebuildStep, WatcherStep,
     ReconnectStep, AgentStep, TicketStep

\* The strengthening of the two properties of rules.
THEOREM RuledHolds == Spec => []Ruled
<1>1. Init => Ruled
  BY DEF Init, Ruled, RuleNeedsGrant, RuleWithinWindow
<1>2. TypeOK /\ Ownership /\ Recorded /\ Listed /\ Carried /\ Ruled /\ [Next]_vars => Ruled'
  BY RuledStep
<1> QED
  BY <1>1, <1>2, TypeCorrect, OwnershipHolds, RecordedHolds, ListedHolds, CarriedHolds, PTL
     DEF Spec

\* No Agent ever holds a rule, and the map no address, of a ticket nobody granted.
THEOREM GrantHolds == Spec => []RuleNeedsGrant
<1>1. Ruled => RuleNeedsGrant
  BY DEF Ruled
<1> QED
  BY <1>1, RuledHolds, PTL

\* A timer on an Agent never outlasts the window its ticket was activated for,
\* even when the rule was re-issued from a list read long before.
THEOREM WindowHolds == Spec => []RuleWithinWindow
<1>1. Ruled => RuleWithinWindow
  BY DEF Ruled
<1> QED
  BY <1>1, RuledHolds, PTL

\* A step that opens no rule of a ticket that ends, but for a stale re-issue, and
\* that takes a revoke past its call only with the rule gone or the binding unread.
LEMMA SweptKept ==
    ASSUME TypeOK, Ownership, Swept,
           \A t \in Tickets :
               /\ status'[t] = "closed" =>
                     \/ status[t] = "closed"
                     \/ \E p \in Procs : pc[p] = "revoke.commit" /\ cur[p] = t
               /\ cause[t] \subseteq cause'[t]
               /\ status[t] \in {"revoking", "closed"} /\ IsSwept(t) =>
                     IsSwept(t)' \/ "stale_reapply" \in cause'[t],
           \A p \in Procs : pc'[p] \in {"revoke.clear", "revoke.commit"} =>
               \/ pc[p] \in {"revoke.clear", "revoke.commit"} /\ cur'[p] = cur[p]
               \/ "unread_binding" \in cause'[cur'[p]]
               \/ \E t \in Tickets : cur'[p] = t /\ IsSwept(t)'
    PROVE  Swept'
<1>1. \A p \in Procs : pc[p] \in {"revoke.clear", "revoke.commit"} =>
        cur[p] \in Tickets /\ status[cur[p]] = "revoking"
  BY DEF Ownership, RevokeLabels
<1>2. ClosedIsSwept'
  BY <1>1 DEF Swept, ClosedIsSwept
<1>3. ASSUME NEW p \in Procs, pc'[p] \in {"revoke.clear", "revoke.commit"},
             cause'[cur'[p]] \cap {"stale_reapply", "unread_binding"} = {}
      PROVE  \E t \in Tickets : cur'[p] = t /\ IsSwept(t)'
  BY <1>1, <1>3 DEF Swept
<1>4. (\A p \in Procs :
        /\ pc[p] \in {"revoke.clear", "revoke.commit"}
        /\ cause[cur[p]] \cap {"stale_reapply", "unread_binding"} = {}
        => IsSwept(cur[p]))'
  BY <1>3 DEF IsSwept, UnderWay
<1> QED
  BY <1>2, <1>4 DEF Swept

\* A step that leaves the commands under way alone.
LEMMA SameSwept ==
    ASSUME late' = late
    PROVE  \A t \in Tickets :
               /\ listener'[t] = listener[t] => (IsSwept(t) <=> IsSwept(t)')
               /\ listener'[t] = NoAddr /\ IsSwept(t) => IsSwept(t)'
<1>1. \A t \in Tickets : UnderWay(t)' = UnderWay(t)
  BY DEF UnderWay
<1> QED
  BY <1>1 DEF IsSwept

\* No step opens the rule of a ticket past its revoke call, but for the causes.
LEMMA SweptStep ==
    ASSUME TypeOK, Ownership, Carried, Swept, [Next]_vars
    PROVE  Swept'
<1> USE DEF ticketRows, memory, links, locals, rules
<1>1. ASSUME NEW t \in Tickets, NEW u \in Users, Submit(t, u) PROVE Swept'
  BY <1>1, SameSwept, SweptKept DEF Submit, Transition, TypeOK
<1>2. ASSUME NEW h \in Handlers, NEW t \in Tickets, NEW u \in Users,
     Approve(h, t, u) PROVE Swept'
  BY <1>2, SameSwept, SweptKept DEF Approve, Jump, Transition, TypeOK
<1>3. ASSUME NEW h \in Handlers, NEW t \in Tickets, NEW u \in Users,
     Reject(h, t, u) PROVE Swept'
  BY <1>3, SameSwept, SweptKept DEF Reject, Transition, TypeOK
<1>4. ASSUME NEW h \in Handlers, ApplyRead(h) PROVE Swept'
  BY <1>4, SameSwept, SweptKept DEF ApplyRead, Jump, TypeOK
<1>5. ASSUME NEW h \in Handlers, ApplyAbandon(h) PROVE Swept'
  BY <1>5, SameSwept, SweptKept DEF ApplyAbandon, Jump, Release, Fault, Sound, TypeOK
<1>6. ASSUME NEW h \in Handlers, ApplyCall(h) PROVE Swept'
  BY <1>6, SameSwept, SweptKept DEF ApplyCall, Jump, AgentApply, Ownership, ApplyLabels, TypeOK
<1>7. ASSUME NEW h \in Handlers, ApplyCallLost(h) PROVE Swept'
  <2> USE <1>7
  <2>1. cur[h] \in Tickets /\ exp[h] \in Nat
    BY DEF ApplyCallLost, Jump, TypeOK, Busy, Labels
  <2>2. status[cur[h]] = "approved"
    BY DEF ApplyCallLost, Jump, Ownership, ApplyLabels
  <2>3. \A x \in Tickets \ {cur[h]} : UnderWay(x)' = UnderWay(x)
    BY <2>1, GivenUpAdds DEF ApplyCallLost
  <2>4. UNCHANGED <<status, listener, cause, cur>>
    BY DEF ApplyCallLost
  <2>5. \A q \in Procs : pc'[q] \in {"revoke.clear", "revoke.commit"} => pc[q] = pc'[q]
    BY DEF ApplyCallLost, Jump, TypeOK
  <2> QED
    BY <2>2, <2>3, <2>4, <2>5, SweptKept DEF IsSwept
<1>8. ASSUME NEW h \in Handlers, ApplySetForward(h) PROVE Swept'
  BY <1>8, SameSwept, SweptKept DEF ApplySetForward, Jump, StoreForward, TypeOK
<1>9. ASSUME NEW h \in Handlers, ApplyCommit(h) PROVE Swept'
  BY <1>9, SameSwept, SweptKept DEF ApplyCommit, Jump, Transition, Release, TypeOK
<1>10. ASSUME NEW h \in Handlers, ApplyFail(h) PROVE Swept'
  BY <1>10, SameSwept, SweptKept DEF ApplyFail, Jump, Transition, Release, TypeOK
<1>11. ASSUME NEW h \in Handlers, NEW t \in Tickets, Revoke(h, t) PROVE Swept'
  BY <1>11, SameSwept, SweptKept DEF Revoke, RevokeClaim, Transition, TypeOK
<1>12. ASSUME NEW p \in Procs, RevokeCloseShells(p) PROVE Swept'
  BY <1>12, SameSwept, SweptKept DEF RevokeCloseShells, Jump, TypeOK
<1>13. ASSUME NEW p \in Procs, RevokeCall(p) PROVE Swept'
  <2> USE <1>13
  <2>1. cur[p] \in Tickets /\ listener' = [listener EXCEPT ![cur[p]] = NoAddr]
        /\ cur' = cur
    BY DEF RevokeCall, Jump, AgentRevoke, TypeOK, Busy, Labels
  <2>2. UnderWay(cur[p])' = {}
    <3>1. cur' = cur /\ late' = late
      BY DEF RevokeCall
    <3>2. late[cur[p]] = <<>>
      BY DEF RevokeCall, Answered
    <3>3. DOMAIN late'[cur'[p]] = {}
      BY <3>1, <3>2
    <3> QED
      BY <3>3 DEF UnderWay
  <2>3. IsSwept(cur[p])'
    BY <2>1, <2>2 DEF IsSwept, TypeOK
  <2>4. \A x \in Tickets \ {cur[p]} : IsSwept(x) => IsSwept(x)'
    BY <2>1, SameSwept DEF RevokeCall, TypeOK
  <2>5. UNCHANGED <<status, cause, cur>>
    BY DEF RevokeCall
  <2>6. \A q \in Procs \ {p} : pc[q] = pc'[q]
    BY DEF RevokeCall, Jump, TypeOK
  <2> QED
    BY <2>1, <2>3, <2>4, <2>5, <2>6, SweptKept
<1>14. ASSUME NEW p \in Procs, RevokeCallLost(p) PROVE Swept'
  <2> USE <1>14
  <2>1. cur[p] \in Tickets /\ Closing \in Nat
    BY DEF RevokeCallLost, Jump, TypeOK, Busy, Labels, Closing
  <2>2. \A x \in Tickets : UnderWay(x)' \subseteq UnderWay(x) \cup {Closing}
    BY <2>1, GivenUpAdds DEF RevokeCallLost
  <2>3. UNCHANGED <<status, listener, cause, cur>>
    BY DEF RevokeCallLost
  <2>4. \A q \in Procs : pc'[q] \in {"revoke.clear", "revoke.commit"} => pc[q] = pc'[q]
    BY DEF RevokeCallLost, Jump, TypeOK
  <2>5. \A x \in Tickets : IsSwept(x) => IsSwept(x)'
    BY <2>2, <2>3 DEF IsSwept
  <2> QED
    BY <2>3, <2>4, <2>5, SweptKept
<1>15. ASSUME NEW p \in Procs, RevokeBindingUnread(p) PROVE Swept'
  <2> USE <1>15
  <2>1. cur[p] \in Tickets
    BY DEF RevokeBindingUnread, Jump, TypeOK, Busy, Labels
  <2>2. \A x \in Tickets : cause[x] \subseteq cause'[x]
    BY DEF RevokeBindingUnread, TypeOK
  <2>3. "unread_binding" \in cause'[cur[p]] /\ UNCHANGED <<status, cur, late, listener>>
    BY <2>1 DEF RevokeBindingUnread, TypeOK
  <2>4. \A q \in Procs \ {p} : pc[q] = pc'[q]
    BY DEF RevokeBindingUnread, Jump, TypeOK
  <2> QED
    BY <2>2, <2>3, <2>4, SameSwept, SweptKept
<1>16. ASSUME NEW p \in Procs, RevokeClearForward(p) PROVE Swept'
  BY <1>16, SameSwept, SweptKept DEF RevokeClearForward, Jump, TypeOK
<1>17. ASSUME NEW p \in Procs, RevokeCommit(p) PROVE Swept'
  BY <1>17, SameSwept, SweptKept DEF RevokeCommit, Jump, AfterRevoke, Transition, Release, TypeOK
<1>18. ASSUME NEW p \in Procs, RevokeDefer(p) PROVE Swept'
  BY <1>18, SameSwept, SweptKept DEF RevokeDefer, Jump, AfterRevoke, Transition, Release, TypeOK
<1>19. ASSUME NEW p \in Procs, FinalTxLost(p) PROVE Swept'
  BY <1>19, SameSwept, SweptKept DEF FinalTxLost, AfterRevoke, Fault, Release, TypeOK
<1>20. CASE ExpireList
  BY <1>20, SameSwept, SweptKept DEF ExpireList, Jump, ListExpiredActiveTickets, TypeOK
<1>21. ASSUME NEW t \in Tickets, ExpireNext(t) PROVE Swept'
  BY <1>21, SameSwept, SweptKept DEF ExpireNext, RevokeClaim, Transition, TypeOK
<1>22. CASE ExpireDone
  BY <1>22, SameSwept, SweptKept DEF ExpireDone, Jump, TypeOK
<1>23. ASSUME NEW p \in Procs, RebuildList(p) PROVE Swept'
  BY <1>23, SameSwept, SweptKept DEF RebuildList, Jump, ListActiveTickets, TypeOK
<1>24. ASSUME NEW p \in Procs, NEW t \in Tickets, RebuildSkip(p, t) PROVE
     Swept'
  BY <1>24, SameSwept, SweptKept DEF RebuildSkip, TypeOK
<1>25. ASSUME NEW p \in Procs, NEW t \in Tickets, RebuildNext(p, t) PROVE
     Swept'
  BY <1>25, SameSwept, SweptKept DEF RebuildNext, Jump, TypeOK
<1>26. ASSUME NEW p \in Procs, RebuildCall(p) PROVE Swept'
  BY <1>26, SameSwept, SweptKept DEF RebuildCall, Jump, AgentApply, Answered, TypeOK
<1>27. ASSUME NEW p \in Procs, RebuildCallLost(p) PROVE Swept'
  <2> USE <1>27
  <2>1. cur[p] \in Tickets /\ expires[cur[p]] \in Nat
    BY DEF RebuildCallLost, Jump, TypeOK, Busy, Labels
  <2>2. \A x \in Tickets : cause[x] \subseteq cause'[x]
    BY DEF RebuildCallLost, TypeOK
  <2>3. \A x \in Tickets \ {cur[p]} : UnderWay(x)' = UnderWay(x)
    BY <2>1, GivenUpAdds DEF RebuildCallLost
  <2>4. \/ late' = late
        \/ status[cur[p]] = "active"
        \/ "stale_reapply" \in cause'[cur[p]]
    BY <2>1 DEF RebuildCallLost, TypeOK
  <2>5. UNCHANGED <<status, listener>>
    BY DEF RebuildCallLost
  <2>6. \A x \in Tickets : status[x] \in {"revoking", "closed"} /\ IsSwept(x) =>
          IsSwept(x)' \/ "stale_reapply" \in cause'[x]
    BY <2>3, <2>4, <2>5, SameSwept DEF IsSwept
  <2>7. \A q \in Procs : pc'[q] \in {"revoke.clear", "revoke.commit"} =>
          pc[q] = pc'[q] /\ cur'[q] = cur[q]
    BY DEF RebuildCallLost, Jump, Release, TypeOK
  <2> QED
    BY <2>2, <2>5, <2>6, <2>7, SweptKept
<1>28. ASSUME NEW p \in Procs, RebuildSetForward(p) PROVE Swept'
  BY <1>28, SameSwept, SweptKept DEF RebuildSetForward, Jump, StoreForward, Release, TypeOK
<1>29. ASSUME NEW p \in Procs, RebuildDone(p) PROVE Swept'
  BY <1>29, SameSwept, SweptKept DEF RebuildDone, Jump, TypeOK
<1>30. ASSUME NEW p \in Procs, ListLost(p) PROVE Swept'
  BY <1>30, SameSwept, SweptKept DEF ListLost, Jump, Fault, TypeOK
<1>31. ASSUME NEW a \in Agents, NEW w \in Watchers, AgentConnect(a, w) PROVE
     Swept'
  BY <1>31, DropLateDrops, SweptKept DEF AgentConnect, Jump, TypeOK, IsSwept
<1>32. ASSUME NEW w \in Watchers, ReconnectList(w) PROVE Swept'
  <2> USE <1>32
  <2>1. \A x \in Tickets : cause[x] \subseteq cause'[x]
    BY DEF ReconnectList, MissReconnect, TypeOK
  <2>2. UNCHANGED <<status, cur, late, listener>>
    BY DEF ReconnectList
  <2>3. \A q \in Procs : pc'[q] \in {"revoke.clear", "revoke.commit"} => pc[q] = pc'[q]
    BY DEF ReconnectList, Jump, TypeOK
  <2> QED
    BY <2>1, <2>2, <2>3, SameSwept, SweptKept
<1>33. ASSUME NEW w \in Watchers, NEW t \in Tickets, ReconnectClear(w, t)
     PROVE Swept'
  BY <1>33, SameSwept, SweptKept DEF ReconnectClear, TypeOK
<1>34. ASSUME NEW w \in Watchers, ReconnectCleared(w) PROVE Swept'
  BY <1>34, SameSwept, SweptKept DEF ReconnectCleared, Jump, TypeOK
<1>35. ASSUME NEW a \in Agents, AgentDisconnect(a) PROVE Swept'
  BY <1>35, SameSwept, SweptKept DEF AgentDisconnect, Fault, TypeOK
<1>36. ASSUME NEW a \in Agents, AgentRestart(a) PROVE Swept'
  BY <1>36, DropLateDrops, SweptKept DEF AgentRestart, Fault, TypeOK, IsSwept
<1>37. ASSUME NEW t \in Tickets, TimerFires(t) PROVE Swept'
  BY <1>37, SameSwept, SweptKept DEF TimerFires, AgentRevoke, TypeOK
<1>38. ASSUME NEW a \in Agents, SetEnrollment(a) PROVE Swept'
  BY <1>38, SameSwept, SweptKept DEF SetEnrollment, TypeOK
<1>39. ASSUME NEW h \in Handlers, NEW t \in Tickets, OpenCheck(h, t) PROVE
     Swept'
  BY <1>39, SameSwept, SweptKept DEF OpenCheck, Jump, TypeOK
<1>40. ASSUME NEW h \in Handlers, OpenDone(h) PROVE Swept'
  BY <1>40, SameSwept, SweptKept DEF OpenDone, Jump, Release, TypeOK
<1>41. ASSUME NEW t \in Tickets, WebShellEnds(t) PROVE Swept'
  BY <1>41, SameSwept, SweptKept DEF WebShellEnds, TypeOK
<1>42. CASE Crash
  BY <1>42, SameSwept, SweptKept DEF Crash, Fault, TypeOK
<1>43. CASE Tick
  BY <1>43, SameSwept, SweptKept DEF Tick, TypeOK
<1>44. CASE UNCHANGED vars
  BY <1>44, SameSwept, SweptKept DEF vars, TypeOK
<1>45. ASSUME NEW a \in Agents, OldControlReturns(a) PROVE Swept'
  BY <1>45, SameSwept, SweptKept DEF OldControlReturns, TypeOK
<1>46. ASSUME NEW t \in Tickets, LateHandled(t) PROVE Swept'
  <2>1. /\ \A x \in Tickets : UnderWay(x)' \subseteq UnderWay(x)
        /\ Head(late[t]) \in UnderWay(t)
    BY <1>46, LateHandledTakes
  <2>2. /\ UNCHANGED <<status, pc, cur>>
        /\ \A x \in Tickets \ {t} : listener'[x] = listener[x]
        /\ \A x \in Tickets : cause[x] \subseteq cause'[x]
    <3>1. \A x \in Tickets : cause[x] \subseteq cause'[x]
      <4>1. cause' = cause \/ cause' = [cause EXCEPT ![t] = cause[t] \cup {"late_apply"}]
        BY <1>46 DEF LateHandled
      <4>2. cause \in [Tickets -> SUBSET Causes]
        BY DEF TypeOK
      <4> QED
        BY <4>1, <4>2
    <3>2. \A x \in Tickets \ {t} : listener'[x] = listener[x]
      BY <1>46 DEF LateHandled, AgentApply, AgentRevoke, TypeOK
    <3> QED
      BY <1>46, <3>1, <3>2 DEF LateHandled
  <2>3. Head(late[t]) = Closing => listener'[t] = NoAddr
    BY <1>46 DEF LateHandled, AgentRevoke, TypeOK
  <2>4. \A x \in Tickets : IsSwept(x) => IsSwept(x)'
    BY <2>1, <2>2, <2>3 DEF IsSwept
  <2> QED
    BY <2>2, <2>4, SweptKept
<1> QED
  BY <1>1, <1>2, <1>3, <1>4, <1>5, <1>6, <1>7, <1>8, <1>9, <1>10, <1>11,
     <1>12, <1>13, <1>14, <1>15, <1>16, <1>17, <1>18, <1>19, <1>20, <1>21,
     <1>22, <1>23, <1>24, <1>25, <1>26, <1>27, <1>28, <1>29, <1>30, <1>31,
     <1>32, <1>33, <1>34, <1>35, <1>36, <1>37, <1>38, <1>39, <1>40, <1>41,
     <1>42, <1>43, <1>44, <1>45, <1>46 DEF Next, Procs, Request, HandlerStep, ApplyStep,
     RevokeStep, SchedulerStep, ExpireStep, RebuildStep, WatcherStep,
     ReconnectStep, AgentStep, TicketStep

\* The rule of a closed ticket is gone, but for a rebuild that had listed the
\* ticket before and a revoke that could not read the binding: those two are
\* all the ways there are, whatever is interleaved.
THEOREM ClosedHolds == Spec => []ClosedIsUnreachable
<1>1. Init => Swept
  BY DEF Init, Swept, ClosedIsSwept
<1>2. TypeOK /\ Ownership /\ Carried /\ Swept /\ [Next]_vars => Swept'
  BY SweptStep
<1>3. Spec => []Swept
  BY <1>1, <1>2, TypeCorrect, OwnershipHolds, CarriedHolds, PTL DEF Spec
<1>4. Swept => ClosedIsUnreachable
  BY DEF Swept, ClosedIsSwept, IsSwept, ClosedIsUnreachable
<1> QED
  BY <1>3, <1>4, PTL

-----------------------------------------------------------------------------
(* Stale addresses *)

\* A step that makes no address stale, and leaves agents and reconnects alone.
LEMMA FreshKept ==
    ASSUME Fresh, connected' \subseteq connected,
           \A t \in Tickets : Stale(t)' => Stale(t),
           \A w \in Watchers : pc[w] \in {"recon", "clear"} =>
               pc'[w] = pc[w] /\ peer'[w] = peer[w] /\ todo'[w] = todo[w]
    PROVE  Fresh'
BY DEF Fresh, Awaited

\* No step leaves an address stale that no reconnect has before it.
LEMMA FreshStep ==
    ASSUME TypeOK, Ownership, Recorded, Carried, Ruled, Fresh, [Next]_vars
    PROVE  Fresh'
<1> USE DEF ticketRows, memory, links, locals, rules
<1>1. ASSUME NEW t \in Tickets, NEW u \in Users, Submit(t, u) PROVE Fresh'
  BY <1>1 DEF Submit, Transition, TypeOK, Fresh, Stale, Live, Awaited
<1>2. ASSUME NEW h \in Handlers, NEW t \in Tickets, NEW u \in Users,
     Approve(h, t, u) PROVE Fresh'
  <2>1. \A x \in Tickets : Stale(x)' => Stale(x)
    BY <1>2 DEF Approve, Jump, Transition, Stale, Live, TypeOK
  <2>2. \A w \in Watchers : pc[w] \in {"recon", "clear"} =>
          pc'[w] = pc[w] /\ peer'[w] = peer[w] /\ todo'[w] = todo[w]
    BY <1>2 DEF Approve, Jump, Transition, TypeOK
  <2>3. connected' = connected
    BY <1>2 DEF Approve, Jump, Transition
  <2> QED
    BY <2>1, <2>2, <2>3, FreshKept
<1>3. ASSUME NEW h \in Handlers, NEW t \in Tickets, NEW u \in Users,
     Reject(h, t, u) PROVE Fresh'
  BY <1>3 DEF Reject, Transition, TypeOK, Fresh, Stale, Live, Awaited
<1>4. ASSUME NEW h \in Handlers, ApplyRead(h) PROVE Fresh'
  BY <1>4 DEF ApplyRead, Jump, TypeOK, Fresh, Stale, Live, Awaited
<1>5. ASSUME NEW h \in Handlers, ApplyAbandon(h) PROVE Fresh'
  BY <1>5 DEF ApplyAbandon, Jump, Release, Fault, Sound, TypeOK, Fresh, Stale, Live,
     Awaited
<1>6. ASSUME NEW h \in Handlers, ApplyCall(h) PROVE Fresh'
  <2>1. \A x \in Tickets : Stale(x)' => Stale(x)
    BY <1>6 DEF ApplyCall, Jump, AgentApply, Ownership, ApplyLabels, Stale, Live, TypeOK
  <2>2. \A w \in Watchers : pc[w] \in {"recon", "clear"} =>
          pc'[w] = pc[w] /\ peer'[w] = peer[w] /\ todo'[w] = todo[w]
    BY <1>6 DEF ApplyCall, Jump, AgentApply, TypeOK
  <2>3. connected' = connected
    BY <1>6 DEF ApplyCall, Jump, AgentApply
  <2> QED
    BY <2>1, <2>2, <2>3, FreshKept
<1>7. ASSUME NEW h \in Handlers, ApplyCallLost(h) PROVE Fresh'
  BY <1>7 DEF ApplyCallLost, Jump, TypeOK, Fresh, Stale, Live, Awaited
<1>8. ASSUME NEW h \in Handlers, ApplySetForward(h) PROVE Fresh'
  <2>1. \A x \in Tickets : Stale(x)' => Stale(x)
    BY <1>8 DEF ApplySetForward, Jump, StoreForward, Stale, Live, TypeOK
  <2>2. \A w \in Watchers : pc[w] \in {"recon", "clear"} =>
          pc'[w] = pc[w] /\ peer'[w] = peer[w] /\ todo'[w] = todo[w]
    BY <1>8 DEF ApplySetForward, Jump, StoreForward, TypeOK
  <2>3. connected' = connected
    BY <1>8 DEF ApplySetForward, Jump, StoreForward
  <2> QED
    BY <2>1, <2>2, <2>3, FreshKept
<1>9. ASSUME NEW h \in Handlers, ApplyCommit(h) PROVE Fresh'
  <2>1. \A x \in Tickets : Stale(x)' => Stale(x)
    BY <1>9 DEF ApplyCommit, Jump, Transition, Release, Ownership, ApplyLabels,
       Recorded, Stale, Live, TypeOK
  <2>2. \A w \in Watchers : pc[w] \in {"recon", "clear"} =>
          pc'[w] = pc[w] /\ peer'[w] = peer[w] /\ todo'[w] = todo[w]
    BY <1>9 DEF ApplyCommit, Jump, Transition, Release, TypeOK
  <2>3. connected' = connected
    BY <1>9 DEF ApplyCommit, Jump, Transition, Release
  <2> QED
    BY <2>1, <2>2, <2>3, FreshKept
<1>10. ASSUME NEW h \in Handlers, ApplyFail(h) PROVE Fresh'
  <2>1. \A x \in Tickets : Stale(x)' => Stale(x)
    BY <1>10 DEF ApplyFail, Jump, Transition, Release, Stale, Live, TypeOK
  <2>2. \A w \in Watchers : pc[w] \in {"recon", "clear"} =>
          pc'[w] = pc[w] /\ peer'[w] = peer[w] /\ todo'[w] = todo[w]
    BY <1>10 DEF ApplyFail, Jump, Transition, Release, TypeOK
  <2>3. connected' = connected
    BY <1>10 DEF ApplyFail, Jump, Transition, Release
  <2> QED
    BY <2>1, <2>2, <2>3, FreshKept
<1>11. ASSUME NEW h \in Handlers, NEW t \in Tickets, Revoke(h, t) PROVE Fresh'
  <2>1. \A x \in Tickets : Stale(x)' => Stale(x)
    BY <1>11 DEF Revoke, RevokeClaim, Transition, Stale, Live, TypeOK
  <2>2. \A w \in Watchers : pc[w] \in {"recon", "clear"} =>
          pc'[w] = pc[w] /\ peer'[w] = peer[w] /\ todo'[w] = todo[w]
    BY <1>11 DEF Revoke, RevokeClaim, Transition, TypeOK
  <2>3. connected' = connected
    BY <1>11 DEF Revoke, RevokeClaim, Transition
  <2> QED
    BY <2>1, <2>2, <2>3, FreshKept
<1>12. ASSUME NEW p \in Procs, RevokeCloseShells(p) PROVE Fresh'
  BY <1>12 DEF RevokeCloseShells, Jump, TypeOK, Fresh, Stale, Live, Awaited
<1>13. ASSUME NEW p \in Procs, RevokeCall(p) PROVE Fresh'
  <2>1. \A x \in Tickets : Stale(x)' => Stale(x)
    BY <1>13 DEF RevokeCall, Jump, AgentRevoke, Ownership, ApplyLabels,
       RevokeLabels, Stale, Live, TypeOK
  <2>2. \A w \in Watchers : pc[w] \in {"recon", "clear"} =>
          pc'[w] = pc[w] /\ peer'[w] = peer[w] /\ todo'[w] = todo[w]
    BY <1>13 DEF RevokeCall, Jump, AgentRevoke, TypeOK
  <2>3. connected' = connected
    BY <1>13 DEF RevokeCall, Jump, AgentRevoke
  <2> QED
    BY <2>1, <2>2, <2>3, FreshKept
<1>14. ASSUME NEW p \in Procs, RevokeCallLost(p) PROVE Fresh'
  BY <1>14 DEF RevokeCallLost, Jump, TypeOK, Fresh, Stale, Live, Awaited
<1>15. ASSUME NEW p \in Procs, RevokeBindingUnread(p) PROVE Fresh'
  <2>1. \A x \in Tickets : Stale(x)' => Stale(x)
    BY <1>15 DEF RevokeBindingUnread, Jump, Stale, Live, TypeOK
  <2>2. \A w \in Watchers : pc[w] \in {"recon", "clear"} =>
          pc'[w] = pc[w] /\ peer'[w] = peer[w] /\ todo'[w] = todo[w]
    BY <1>15 DEF RevokeBindingUnread, Jump, TypeOK
  <2>3. connected' = connected
    BY <1>15 DEF RevokeBindingUnread, Jump
  <2> QED
    BY <2>1, <2>2, <2>3, FreshKept
<1>16. ASSUME NEW p \in Procs, RevokeClearForward(p) PROVE Fresh'
  <2>1. \A x \in Tickets : Stale(x)' => Stale(x)
    BY <1>16 DEF RevokeClearForward, Jump, Stale, Live, TypeOK
  <2>2. \A w \in Watchers : pc[w] \in {"recon", "clear"} =>
          pc'[w] = pc[w] /\ peer'[w] = peer[w] /\ todo'[w] = todo[w]
    BY <1>16 DEF RevokeClearForward, Jump, TypeOK
  <2>3. connected' = connected
    BY <1>16 DEF RevokeClearForward, Jump
  <2> QED
    BY <2>1, <2>2, <2>3, FreshKept
<1>17. ASSUME NEW p \in Procs, RevokeCommit(p) PROVE Fresh'
  <2>1. \A x \in Tickets : Stale(x)' => Stale(x)
    BY <1>17 DEF RevokeCommit, Jump, Transition, Release, AfterRevoke, Stale,
       Live, TypeOK
  <2>2. \A w \in Watchers : pc[w] \in {"recon", "clear"} =>
          pc'[w] = pc[w] /\ peer'[w] = peer[w] /\ todo'[w] = todo[w]
    BY <1>17 DEF RevokeCommit, Jump, Transition, Release, AfterRevoke, TypeOK
  <2>3. connected' = connected
    BY <1>17 DEF RevokeCommit, Jump, Transition, Release, AfterRevoke
  <2> QED
    BY <2>1, <2>2, <2>3, FreshKept
<1>18. ASSUME NEW p \in Procs, RevokeDefer(p) PROVE Fresh'
  <2>1. \A x \in Tickets : Stale(x)' => Stale(x)
    BY <1>18 DEF RevokeDefer, Jump, Transition, Release, AfterRevoke, Stale, Live,
       TypeOK
  <2>2. \A w \in Watchers : pc[w] \in {"recon", "clear"} =>
          pc'[w] = pc[w] /\ peer'[w] = peer[w] /\ todo'[w] = todo[w]
    BY <1>18 DEF RevokeDefer, Jump, Transition, Release, AfterRevoke, TypeOK
  <2>3. connected' = connected
    BY <1>18 DEF RevokeDefer, Jump, Transition, Release, AfterRevoke
  <2> QED
    BY <2>1, <2>2, <2>3, FreshKept
<1>19. ASSUME NEW p \in Procs, FinalTxLost(p) PROVE Fresh'
  BY <1>19 DEF FinalTxLost, AfterRevoke, Fault, Release, TypeOK, Fresh, Stale, Live,
     Awaited
<1>20. CASE ExpireList
  BY <1>20 DEF ExpireList, Jump, ListExpiredActiveTickets, TypeOK, Fresh, Stale,
     Live, Awaited
<1>21. ASSUME NEW t \in Tickets, ExpireNext(t) PROVE Fresh'
  <2>1. \A x \in Tickets : Stale(x)' => Stale(x)
    BY <1>21 DEF ExpireNext, RevokeClaim, Transition, Stale, Live, TypeOK
  <2>2. \A w \in Watchers : pc[w] \in {"recon", "clear"} =>
          pc'[w] = pc[w] /\ peer'[w] = peer[w] /\ todo'[w] = todo[w]
    BY <1>21 DEF ExpireNext, RevokeClaim, Transition, TypeOK
  <2>3. connected' = connected
    BY <1>21 DEF ExpireNext, RevokeClaim, Transition
  <2> QED
    BY <2>1, <2>2, <2>3, FreshKept
<1>22. CASE ExpireDone
  BY <1>22 DEF ExpireDone, Jump, TypeOK, Fresh, Stale, Live, Awaited
<1>23. ASSUME NEW p \in Procs, RebuildList(p) PROVE Fresh'
  BY <1>23 DEF RebuildList, Jump, ListActiveTickets, TypeOK, Fresh, Stale, Live, Awaited
<1>24. ASSUME NEW p \in Procs, NEW t \in Tickets, RebuildSkip(p, t) PROVE
     Fresh'
  BY <1>24 DEF RebuildSkip, TypeOK, Fresh, Stale, Live, Awaited
<1>25. ASSUME NEW p \in Procs, NEW t \in Tickets, RebuildNext(p, t) PROVE
     Fresh'
  BY <1>25 DEF RebuildNext, Jump, TypeOK, Fresh, Stale, Live, Awaited
<1>26. ASSUME NEW p \in Procs, RebuildCall(p) PROVE Fresh'
  <2>1. cur[p] \in Tickets /\ pc[p] = "rebuild.call"
    BY <1>26 DEF RebuildCall, Jump, TypeOK, Busy, Labels
  <2>2. PICK a \in Addrs : AgentApply(cur[p], expires[cur[p]], a)
    BY <1>26 DEF RebuildCall
  <2>3. \A x \in Tickets : listener'[x] = listener[x] \/ listener[x] = NoAddr
    BY <2>1, <2>2 DEF AgentApply, TypeOK
  <2>4. \A x \in Tickets : cause[x] \subseteq cause'[x]
    BY <1>26, <2>1 DEF RebuildCall, TypeOK
  <2>5. \A x \in Tickets : Live(x)' => Live(x)
    BY <1>26 DEF RebuildCall, Jump, Live, TypeOK
  <2>6. \A x \in Tickets : Stale(x)' => Stale(x)
    BY <1>26, <2>3, <2>4, <2>5 DEF RebuildCall, Stale
  <2>7. \A w \in Watchers : pc[w] \in {"recon", "clear"} =>
          pc'[w] = pc[w] /\ peer'[w] = peer[w] /\ todo'[w] = todo[w]
    BY <1>26 DEF RebuildCall, Jump, TypeOK
  <2>8. connected' = connected
    BY <1>26 DEF RebuildCall
  <2> QED
    BY <2>6, <2>7, <2>8, FreshKept
<1>27. ASSUME NEW p \in Procs, RebuildCallLost(p) PROVE Fresh'
  <2>1. \A x \in Tickets : cause[x] \subseteq cause'[x]
    BY <1>27 DEF RebuildCallLost, TypeOK
  <2>2. \A x \in Tickets : Stale(x)' => Stale(x)
    BY <1>27, <2>1 DEF RebuildCallLost, Jump, Release, Stale, Live, TypeOK
  <2>3. \A w \in Watchers : pc[w] \in {"recon", "clear"} =>
          pc'[w] = pc[w] /\ peer'[w] = peer[w] /\ todo'[w] = todo[w]
    BY <1>27 DEF RebuildCallLost, Jump, TypeOK
  <2>4. connected' = connected
    BY <1>27 DEF RebuildCallLost
  <2> QED
    BY <2>2, <2>3, <2>4, FreshKept
<1>28. ASSUME NEW p \in Procs, RebuildSetForward(p) PROVE Fresh'
  <2>1. \A x \in Tickets : Stale(x)' => Stale(x)
    BY <1>28 DEF RebuildSetForward, Jump, StoreForward, Release, Stale, Live, TypeOK
  <2>2. \A w \in Watchers : pc[w] \in {"recon", "clear"} =>
          pc'[w] = pc[w] /\ peer'[w] = peer[w] /\ todo'[w] = todo[w]
    BY <1>28 DEF RebuildSetForward, Jump, StoreForward, Release, TypeOK
  <2>3. connected' = connected
    BY <1>28 DEF RebuildSetForward, Jump, StoreForward, Release
  <2> QED
    BY <2>1, <2>2, <2>3, FreshKept
<1>29. ASSUME NEW p \in Procs, RebuildDone(p) PROVE Fresh'
  BY <1>29 DEF RebuildDone, Jump, TypeOK, Fresh, Stale, Live, Awaited
<1>30. ASSUME NEW p \in Procs, ListLost(p) PROVE Fresh'
  <2>1. \A x \in Tickets : Stale(x)' => Stale(x)
    BY <1>30 DEF ListLost, Jump, Stale, Live, TypeOK
  <2>2. \A w \in Watchers : pc[w] \in {"recon", "clear"} =>
          pc'[w] = pc[w] /\ peer'[w] = peer[w] /\ todo'[w] = todo[w]
    BY <1>30 DEF ListLost, Jump, TypeOK
  <2>3. connected' = connected
    BY <1>30 DEF ListLost, Jump
  <2> QED
    BY <2>1, <2>2, <2>3, FreshKept
<1>31. ASSUME NEW a \in Agents, NEW w \in Watchers, AgentConnect(a, w) PROVE
     Fresh'
  BY <1>31 DEF AgentConnect, Jump, TypeOK, Fresh, Stale, Live, Awaited
<1>32. ASSUME NEW w \in Watchers, ReconnectList(w) PROVE Fresh'
  <2> USE <1>32
  <2> DEFINE bound == {t \in ListActiveTickets : binding[t] = peer[w]}
  <2>1. PICK mine \in SUBSET bound :
          /\ MissReconnect(bound \ mine, peer[w])
          /\ todo' = [todo EXCEPT ![w] = mine]
          /\ \/ mine # {} /\ Jump(w, "recon", "clear") /\ UNCHANGED peer
             \/ /\ mine = {} /\ Jump(w, "recon", "idle")
                /\ peer' = [peer EXCEPT ![w] = NoAgent]
    BY DEF ReconnectList
  <2>2. /\ status' = status /\ expires' = expires /\ now' = now /\ cur' = cur
        /\ forwards' = forwards /\ listener' = listener /\ connected' = connected
        /\ binding' = binding
    BY DEF ReconnectList
  <2>3. /\ pc[w] = "recon"
        /\ \A q \in Procs \ {w} : pc'[q] = pc[q] /\ peer'[q] = peer[q] /\ todo'[q] = todo[q]
        /\ todo'[w] = mine
        /\ mine # {} => pc'[w] = "clear" /\ peer'[w] = peer[w]
    BY <2>1 DEF Jump, TypeOK
  <2>4. \A x \in Tickets : Live(x)' => Live(x)
    BY <2>2, <2>3 DEF Live
  <2>5. \A x \in Tickets : cause[x] \subseteq cause'[x]
    BY <2>1 DEF MissReconnect
  <2>6. \A x \in Tickets : Stale(x)' => Stale(x)
    BY <2>2, <2>4, <2>5 DEF Stale
  <2>7. ASSUME NEW x \in Tickets, Stale(x)', Awaited(x, w) PROVE Awaited(x, w)'
    <3>1. peer[w] = AgentOf[x] /\ Live(x) /\ "missed_reconnect" \notin cause'[x]
      BY <2>4, <2>7 DEF Stale, Awaited
    <3>2. status[x] # "approved" /\ x \notin bound \ mine
      BY <2>1, <3>1 DEF MissReconnect
    <3>3. status[x] = "active" /\ expires[x] > now
      BY <3>1, <3>2 DEF Live, Ownership, ApplyLabels
    <3>4. x \in bound
      BY <3>1, <3>3 DEF Recorded, Activated, ListActiveTickets
    <3> QED
      BY <2>3, <3>1, <3>2, <3>4 DEF Awaited
  <2>8. \A x \in Tickets, v \in Watchers \ {w} : Awaited(x, v) => Awaited(x, v)'
    BY <2>3 DEF Awaited
  <2>9. ASSUME NEW x \in Tickets, Stale(x)'
        PROVE  AgentOf[x] \notin connected' \/ \E v \in Watchers : Awaited(x, v)'
    BY <2>2, <2>6, <2>7, <2>8, <2>9 DEF Fresh
  <2> QED
    BY <2>9 DEF Fresh
<1>33. ASSUME NEW w \in Watchers, NEW t \in Tickets, ReconnectClear(w, t)
     PROVE Fresh'
  <2> USE <1>33
  <2>1. /\ status' = status /\ expires' = expires /\ now' = now /\ cur' = cur /\ pc' = pc
        /\ listener' = listener /\ connected' = connected /\ cause' = cause /\ peer' = peer
        /\ forwards' = [forwards EXCEPT ![t] = NoAddr]
        /\ todo' = [todo EXCEPT ![w] = @ \ {t}]
    BY DEF ReconnectClear
  <2>2. forwards'[t] = NoAddr /\ \A x \in Tickets \ {t} : forwards'[x] = forwards[x]
    BY <2>1 DEF TypeOK
  <2>3. \A x \in Tickets : Stale(x)' => Stale(x) /\ x # t
    BY <2>1, <2>2 DEF Stale, Live
  <2>4. \A x \in Tickets \ {t}, v \in Watchers : Awaited(x, v) => Awaited(x, v)'
    BY <2>1 DEF Awaited, TypeOK
  <2>5. ASSUME NEW x \in Tickets, Stale(x)'
        PROVE  AgentOf[x] \notin connected' \/ \E v \in Watchers : Awaited(x, v)'
    BY <2>1, <2>3, <2>4, <2>5 DEF Fresh
  <2> QED
    BY <2>5 DEF Fresh
<1>34. ASSUME NEW w \in Watchers, ReconnectCleared(w) PROVE Fresh'
  BY <1>34 DEF ReconnectCleared, Jump, TypeOK, Fresh, Stale, Live, Awaited
<1>35. ASSUME NEW a \in Agents, AgentDisconnect(a) PROVE Fresh'
  BY <1>35 DEF AgentDisconnect, Fault, TypeOK, Fresh, Stale, Live, Awaited
<1>36. ASSUME NEW a \in Agents, AgentRestart(a) PROVE Fresh'
  BY <1>36 DEF AgentRestart, Fault, TypeOK, Fresh, Stale, Live, Awaited
<1>37. ASSUME NEW t \in Tickets, TimerFires(t) PROVE Fresh'
  <2> USE <1>37
  <2>1. /\ status' = status /\ expires' = expires /\ now' = now /\ cur' = cur /\ pc' = pc
        /\ forwards' = forwards /\ connected' = connected /\ cause' = cause /\ peer' = peer
        /\ todo' = todo
        /\ \A x \in Tickets \ {t} : listener'[x] = listener[x]
    BY DEF TimerFires, AgentRevoke, TypeOK
  <2>2. timer[t] # 0 /\ timer[t] <= now
    BY DEF TimerFires
  <2>3. ~(status[t] = "active" /\ expires[t] > now)
    <3>1. timer[t] \in Nat /\ now \in Nat /\ expires[t] \in Nat
      BY DEF TypeOK
    <3>2. expires[t] # 0 => timer[t] = expires[t]
      BY <2>2 DEF Ruled, RuleWithinWindow
    <3> QED
      BY <2>2, <3>1, <3>2
  <2>4. \A h \in Handlers : ~(pc[h] = "apply.commit" /\ cur[h] = t)
    BY <2>2 DEF Ruled, Recorded, TypeOK
  <2>5. \A x \in Tickets : Stale(x)' => Stale(x)
    BY <2>1, <2>3, <2>4 DEF Stale, Live
  <2> QED
    BY <2>1, <2>5, FreshKept
<1>38. ASSUME NEW a \in Agents, SetEnrollment(a) PROVE Fresh'
  BY <1>38 DEF SetEnrollment, TypeOK, Fresh, Stale, Live, Awaited
<1>39. ASSUME NEW h \in Handlers, NEW t \in Tickets, OpenCheck(h, t) PROVE
     Fresh'
  BY <1>39 DEF OpenCheck, Jump, TypeOK, Fresh, Stale, Live, Awaited
<1>40. ASSUME NEW h \in Handlers, OpenDone(h) PROVE Fresh'
  BY <1>40 DEF OpenDone, Jump, Release, TypeOK, Fresh, Stale, Live, Awaited
<1>41. ASSUME NEW t \in Tickets, WebShellEnds(t) PROVE Fresh'
  BY <1>41 DEF WebShellEnds, TypeOK, Fresh, Stale, Live, Awaited
<1>42. CASE Crash
  BY <1>42 DEF Crash, Fault, TypeOK, Fresh, Stale, Live, Awaited
<1>43. CASE Tick
  <2>1. \A x \in Tickets : Stale(x)' => Stale(x)
    BY <1>43 DEF Tick, Stale, Live, TypeOK
  <2>2. \A w \in Watchers : pc[w] \in {"recon", "clear"} =>
          pc'[w] = pc[w] /\ peer'[w] = peer[w] /\ todo'[w] = todo[w]
    BY <1>43 DEF Tick, TypeOK
  <2>3. connected' = connected
    BY <1>43 DEF Tick
  <2> QED
    BY <2>1, <2>2, <2>3, FreshKept
<1>44. CASE UNCHANGED vars
  BY <1>44 DEF vars, Fresh, Stale, Live, Awaited
<1>45. ASSUME NEW a \in Agents, OldControlReturns(a) PROVE Fresh'
  BY <1>45 DEF OldControlReturns, TypeOK, Fresh, Stale, Live, Awaited
<1>46. ASSUME NEW t \in Tickets, LateHandled(t) PROVE Fresh'
  <2>1. Head(late[t]) \in UnderWay(t)
    BY <1>46, LateHandledTakes
  <2>2. /\ UNCHANGED <<status, expires, now, pc, cur, forwards, connected, peer, todo>>
        /\ \A x \in Tickets \ {t} : listener'[x] = listener[x]
        /\ \A x \in Tickets : cause[x] \subseteq cause'[x]
    <3>1. \A x \in Tickets : cause[x] \subseteq cause'[x]
      <4>1. cause' = cause \/ cause' = [cause EXCEPT ![t] = cause[t] \cup {"late_apply"}]
        BY <1>46 DEF LateHandled
      <4>2. cause \in [Tickets -> SUBSET Causes]
        BY DEF TypeOK
      <4> QED
        BY <4>1, <4>2
    <3>2. \A x \in Tickets \ {t} : listener'[x] = listener[x]
      BY <1>46 DEF LateHandled, AgentApply, AgentRevoke, TypeOK
    <3> QED
      BY <1>46, <3>1, <3>2 DEF LateHandled
  <2>3. \A h \in Handlers : ~(pc[h] = "apply.commit" /\ cur[h] = t)
    BY <2>1 DEF Carried, Opening
  <2>4. CASE Head(late[t]) = Closing
    <3>1. ~Live(t)
      BY <2>1, <2>3, <2>4 DEF Carried, Ended, Live
    <3>2. \A x \in Tickets : Stale(x)' => Stale(x)
      BY <2>2, <3>1 DEF Stale, Live
    <3> QED
      BY <2>2, <3>2, FreshKept
  <2>5. CASE Head(late[t]) # Closing
    <3>1. listener[t] # NoAddr => listener'[t] = listener[t]
      BY <1>46, <2>5 DEF LateHandled, AgentApply
    <3>2. \A x \in Tickets : Stale(x)' => Stale(x)
      BY <2>2, <3>1 DEF Stale, Live
    <3> QED
      BY <2>2, <3>2, FreshKept
  <2> QED
    BY <2>4, <2>5
<1> QED
  BY <1>1, <1>2, <1>3, <1>4, <1>5, <1>6, <1>7, <1>8, <1>9, <1>10, <1>11,
     <1>12, <1>13, <1>14, <1>15, <1>16, <1>17, <1>18, <1>19, <1>20, <1>21,
     <1>22, <1>23, <1>24, <1>25, <1>26, <1>27, <1>28, <1>29, <1>30, <1>31,
     <1>32, <1>33, <1>34, <1>35, <1>36, <1>37, <1>38, <1>39, <1>40, <1>41,
     <1>42, <1>43, <1>44, <1>45, <1>46 DEF Next, Procs, Request, HandlerStep, ApplyStep,
     RevokeStep, SchedulerStep, ExpireStep, RebuildStep, WatcherStep,
     ReconnectStep, AgentStep, TicketStep

\* A live ticket whose cached address is not where its rule listens is being
\* repaired by a reconnect, but for the two causes: an address stored after its
\* listener closed, and a reconnect that passed over the ticket.
THEOREM RepairHolds == Spec => []StaleAddressIsRepaired
<1>1. Init => Fresh
  BY DEF Init, Fresh, Stale
<1>2. TypeOK /\ Ownership /\ Recorded /\ Carried /\ Ruled /\ Fresh /\ [Next]_vars => Fresh'
  BY FreshStep
<1>3. Recorded /\ Fresh => StaleAddressIsRepaired
  BY DEF Recorded, Fresh, Stale, Live, Awaited, Activated, StaleAddressIsRepaired,
     ListActiveTickets
<1> QED
  BY <1>1, <1>2, <1>3, TypeCorrect, OwnershipHolds, RecordedHolds, CarriedHolds, RuledHolds,
     PTL DEF Spec

\* No step opens a rule without a timer, but for a command handled after the window.
LEMMA TimedStep ==
    ASSUME TypeOK, Recorded, Listed, Ruled, Carried, OpenRuleIsTimed, [Next]_vars
    PROVE  OpenRuleIsTimed'
<1>0. /\ pc \in [Procs -> Labels] /\ exp \in [Procs -> Nat] /\ now \in Nat
      /\ cur \in [Procs -> Tickets \cup {NoTicket}]
      /\ \A p \in Procs : pc[p] \in Busy => cur[p] \in Tickets
      /\ listener \in [Tickets -> Addrs \cup {NoAddr}]
      /\ timer \in [Tickets -> Nat] /\ expires \in [Tickets -> Nat]
      /\ cause \in [Tickets -> SUBSET Causes]
  BY DEF TypeOK
<1> USE <1>0 DEF OpenRuleIsTimed, ticketRows, memory, links, locals, rules
<1>1. ASSUME NEW t \in Tickets, NEW u \in Users, Submit(t, u) PROVE OpenRuleIsTimed'
  BY <1>1 DEF Submit, Transition
<1>2. ASSUME NEW h \in Handlers, NEW t \in Tickets, NEW u \in Users,
     Approve(h, t, u) PROVE OpenRuleIsTimed'
  BY <1>2 DEF Approve, Jump, Transition
<1>3. ASSUME NEW h \in Handlers, NEW t \in Tickets, NEW u \in Users,
     Reject(h, t, u) PROVE OpenRuleIsTimed'
  BY <1>3 DEF Reject, Transition
<1>4. ASSUME NEW h \in Handlers, ApplyRead(h) PROVE OpenRuleIsTimed'
  BY <1>4 DEF ApplyRead, Jump
<1>5. ASSUME NEW h \in Handlers, ApplyAbandon(h) PROVE OpenRuleIsTimed'
  BY <1>5 DEF ApplyAbandon, Jump, Release, Fault, Sound
<1>6. ASSUME NEW h \in Handlers, ApplyCall(h) PROVE OpenRuleIsTimed'
  <2> HIDE DEF OpenRuleIsTimed
  <2>1. /\ pc[h] = "apply.call" /\ cur[h] \in Tickets /\ h \in Procs
        /\ pc' = [pc EXCEPT ![h] = "apply.set"]
        /\ exp' = exp /\ now' = now /\ expires' = expires /\ cause' = cause
    BY <1>6 DEF ApplyCall, Jump, Busy, Labels
  <2>2. exp[h] > now /\ exp[h] <= now + Duration
    BY <2>1 DEF Recorded, Carried
  <2>3. PICK a \in Addrs : AgentApply(cur[h], exp[h], a)
    BY <1>6 DEF ApplyCall
  <2>4. listener[cur[h]] = NoAddr
    BY <2>1 DEF Ruled
  <2>5. listener' = [listener EXCEPT ![cur[h]] = a] /\ timer' = [timer EXCEPT ![cur[h]] = exp[h]]
    BY <2>2, <2>3, <2>4 DEF AgentApply
  <2>6. OpenRuleIsTimed'
    BY <2>1, <2>2, <2>5 DEF OpenRuleIsTimed
  <2> QED
    BY <2>6
<1>7. ASSUME NEW h \in Handlers, ApplyCallLost(h) PROVE OpenRuleIsTimed'
  BY <1>7 DEF ApplyCallLost, Jump
<1>8. ASSUME NEW h \in Handlers, ApplySetForward(h) PROVE OpenRuleIsTimed'
  BY <1>8 DEF ApplySetForward, Jump, StoreForward
<1>9. ASSUME NEW h \in Handlers, ApplyCommit(h) PROVE OpenRuleIsTimed'
  <2> HIDE DEF OpenRuleIsTimed
  <2>1. /\ pc[h] = "apply.commit" /\ cur[h] \in Tickets /\ h \in Procs
        /\ pc' = [pc EXCEPT ![h] = "idle"] /\ exp' = [exp EXCEPT ![h] = 0] /\ now' = now
        /\ expires' = [expires EXCEPT ![cur[h]] = exp[h]]
        /\ listener' = listener /\ timer' = timer /\ cause' = cause
        /\ status[cur[h]] = "approved"
    BY <1>9 DEF ApplyCommit, Jump, Release, Busy, Labels, Transition
  <2>2. exp[h] # 0 /\ expires[cur[h]] = 0
    BY <2>1 DEF Recorded, Activated
  <2>3. OpenRuleIsTimed'
    BY <2>1, <2>2 DEF OpenRuleIsTimed
  <2> QED
    BY <2>3
<1>10. ASSUME NEW h \in Handlers, ApplyFail(h) PROVE OpenRuleIsTimed'
  BY <1>10 DEF ApplyFail, Jump, Transition, Release
<1>11. ASSUME NEW h \in Handlers, NEW t \in Tickets, Revoke(h, t) PROVE
     OpenRuleIsTimed'
  BY <1>11 DEF Revoke, RevokeClaim, Transition
<1>12. ASSUME NEW p \in Procs, RevokeCloseShells(p) PROVE OpenRuleIsTimed'
  BY <1>12 DEF RevokeCloseShells, Jump
<1>13. ASSUME NEW p \in Procs, RevokeCall(p) PROVE OpenRuleIsTimed'
  BY <1>13 DEF RevokeCall, Jump, AgentRevoke
<1>14. ASSUME NEW p \in Procs, RevokeCallLost(p) PROVE OpenRuleIsTimed'
  BY <1>14 DEF RevokeCallLost, Jump
<1>15. ASSUME NEW p \in Procs, RevokeBindingUnread(p) PROVE OpenRuleIsTimed'
  BY <1>15 DEF RevokeBindingUnread, Jump, Fault
<1>16. ASSUME NEW p \in Procs, RevokeClearForward(p) PROVE OpenRuleIsTimed'
  BY <1>16 DEF RevokeClearForward, Jump
<1>17. ASSUME NEW p \in Procs, RevokeCommit(p) PROVE OpenRuleIsTimed'
  BY <1>17 DEF RevokeCommit, Jump, AfterRevoke, Transition, Release
<1>18. ASSUME NEW p \in Procs, RevokeDefer(p) PROVE OpenRuleIsTimed'
  BY <1>18 DEF RevokeDefer, Jump, AfterRevoke, Transition, Release
<1>19. ASSUME NEW p \in Procs, FinalTxLost(p) PROVE OpenRuleIsTimed'
  BY <1>19 DEF FinalTxLost, AfterRevoke, Fault, Release
<1>20. CASE ExpireList
  BY <1>20 DEF ExpireList, Jump, ListExpiredActiveTickets
<1>21. ASSUME NEW t \in Tickets, ExpireNext(t) PROVE OpenRuleIsTimed'
  BY <1>21 DEF ExpireNext, RevokeClaim, Transition, Fault, Sound
<1>22. CASE ExpireDone
  BY <1>22 DEF ExpireDone, Jump
<1>23. ASSUME NEW p \in Procs, RebuildList(p) PROVE OpenRuleIsTimed'
  BY <1>23 DEF RebuildList, Jump, ListActiveTickets
<1>24. ASSUME NEW p \in Procs, NEW t \in Tickets, RebuildSkip(p, t) PROVE
     OpenRuleIsTimed'
  BY <1>24 DEF RebuildSkip
<1>25. ASSUME NEW p \in Procs, NEW t \in Tickets, RebuildNext(p, t) PROVE
     OpenRuleIsTimed'
  BY <1>25 DEF RebuildNext, Jump
<1>26. ASSUME NEW p \in Procs, RebuildCall(p) PROVE OpenRuleIsTimed'
  <2> HIDE DEF OpenRuleIsTimed
  <2>1. /\ pc[p] = "rebuild.call" /\ cur[p] \in Tickets
        /\ pc' = [pc EXCEPT ![p] = "rebuild.set"]
        /\ exp' = exp /\ now' = now /\ expires' = expires
        /\ \A x \in Tickets : cause[x] \subseteq cause'[x]
    BY <1>26 DEF RebuildCall, Jump, Busy, Labels
  <2>2. expires[cur[p]] # 0
    BY <2>1 DEF Listed, Recorded
  <2>3. PICK a \in Addrs : AgentApply(cur[p], expires[cur[p]], a)
    BY <1>26 DEF RebuildCall
  <2>4. OpenRuleIsTimed'
    <3>1. CASE listener' = listener /\ timer' = timer
      BY <2>1, <3>1 DEF OpenRuleIsTimed
    <3>2. CASE /\ listener' = [listener EXCEPT ![cur[p]] = a]
               /\ timer' = [timer EXCEPT ![cur[p]] =
                              IF expires[cur[p]] > now THEN expires[cur[p]] ELSE 0]
      BY <2>1, <2>2, <3>2 DEF OpenRuleIsTimed
    <3> QED
      BY <2>3, <3>1, <3>2 DEF AgentApply
  <2> QED
    BY <2>4
<1>27. ASSUME NEW p \in Procs, RebuildCallLost(p) PROVE OpenRuleIsTimed'
  BY <1>27 DEF RebuildCallLost, Jump, Release
<1>28. ASSUME NEW p \in Procs, RebuildSetForward(p) PROVE OpenRuleIsTimed'
  BY <1>28 DEF RebuildSetForward, Jump, StoreForward, Release
<1>29. ASSUME NEW p \in Procs, RebuildDone(p) PROVE OpenRuleIsTimed'
  BY <1>29 DEF RebuildDone, Jump
<1>30. ASSUME NEW p \in Procs, ListLost(p) PROVE OpenRuleIsTimed'
  BY <1>30 DEF ListLost, Jump, Fault
<1>31. ASSUME NEW a \in Agents, NEW w \in Watchers, AgentConnect(a, w) PROVE
     OpenRuleIsTimed'
  BY <1>31 DEF AgentConnect, Jump
<1>32. ASSUME NEW w \in Watchers, ReconnectList(w) PROVE OpenRuleIsTimed'
  BY <1>32 DEF ReconnectList, Jump, ListActiveTickets, MissReconnect, Fault,
     Sound
<1>33. ASSUME NEW w \in Watchers, NEW t \in Tickets, ReconnectClear(w, t)
     PROVE OpenRuleIsTimed'
  BY <1>33 DEF ReconnectClear
<1>34. ASSUME NEW w \in Watchers, ReconnectCleared(w) PROVE OpenRuleIsTimed'
  BY <1>34 DEF ReconnectCleared, Jump
<1>35. ASSUME NEW a \in Agents, AgentDisconnect(a) PROVE OpenRuleIsTimed'
  BY <1>35 DEF AgentDisconnect, Fault
<1>36. ASSUME NEW a \in Agents, AgentRestart(a) PROVE OpenRuleIsTimed'
  BY <1>36 DEF AgentRestart, Fault
<1>37. ASSUME NEW t \in Tickets, TimerFires(t) PROVE OpenRuleIsTimed'
  BY <1>37 DEF TimerFires, AgentRevoke
<1>38. ASSUME NEW a \in Agents, SetEnrollment(a) PROVE OpenRuleIsTimed'
  BY <1>38 DEF SetEnrollment
<1>39. ASSUME NEW h \in Handlers, NEW t \in Tickets, OpenCheck(h, t) PROVE
     OpenRuleIsTimed'
  BY <1>39 DEF OpenCheck, Jump
<1>40. ASSUME NEW h \in Handlers, OpenDone(h) PROVE OpenRuleIsTimed'
  BY <1>40 DEF OpenDone, Jump, Release
<1>41. ASSUME NEW t \in Tickets, WebShellEnds(t) PROVE OpenRuleIsTimed'
  BY <1>41 DEF WebShellEnds
<1>42. CASE Crash
  BY <1>42 DEF Crash, Fault
<1>43. CASE Tick
  BY <1>43 DEF Tick
<1>44. CASE UNCHANGED vars
  BY <1>44 DEF vars
<1>45. ASSUME NEW a \in Agents, OldControlReturns(a) PROVE OpenRuleIsTimed'
  BY <1>45 DEF OldControlReturns
<1>46. ASSUME NEW t \in Tickets, LateHandled(t) PROVE OpenRuleIsTimed'
  <2> DEFINE n == Head(late[t])
  <2> HIDE DEF OpenRuleIsTimed
  <2>1. n \in UnderWay(t) /\ n \in Nat
    BY <1>46, LateHandledTakes DEF TypeOK, UnderWay
  <2>2. /\ UNCHANGED <<expires, now>>
        /\ \A x \in Tickets \ {t} : /\ listener'[x] = listener[x] /\ timer'[x] = timer[x]
                                    /\ cause'[x] = cause[x]
    BY <1>46 DEF LateHandled, AgentApply, AgentRevoke
  <2>3. \/ listener'[t] = NoAddr
        \/ listener'[t] = listener[t] /\ timer'[t] = timer[t] /\ cause'[t] = cause[t]
        \/ timer'[t] = n /\ n > now /\ n # Closing
        \/ "late_apply" \in cause'[t]
    BY <1>46, <2>1 DEF LateHandled, AgentApply, AgentRevoke
  <2>4. n # Closing => IF expires[t] = 0 THEN n <= now + Duration ELSE n = expires[t]
    BY <2>1 DEF Carried
  <2> QED
    BY <2>1, <2>2, <2>3, <2>4 DEF OpenRuleIsTimed
<1> QED
  BY <1>1, <1>2, <1>3, <1>4, <1>5, <1>6, <1>7, <1>8, <1>9, <1>10, <1>11,
     <1>12, <1>13, <1>14, <1>15, <1>16, <1>17, <1>18, <1>19, <1>20, <1>21,
     <1>22, <1>23, <1>24, <1>25, <1>26, <1>27, <1>28, <1>29, <1>30, <1>31,
     <1>32, <1>33, <1>34, <1>35, <1>36, <1>37, <1>38, <1>39, <1>40, <1>41,
     <1>42, <1>43, <1>44, <1>45, <1>46 DEF Next, Procs, Request, HandlerStep, ApplyStep,
     RevokeStep, SchedulerStep, ExpireStep, RebuildStep, WatcherStep,
     ReconnectStep, AgentStep, TicketStep

\* An open rule always has its timer, at most one window ahead until its ticket
\* is activated; only a rule whose command reached the Agent after the window has
\* none: re-issued too late, or by an Apply whose caller had given up before.
THEOREM TimersHold == Spec => []OpenRuleIsTimed
<1>1. Init => OpenRuleIsTimed
  BY DEF Init, OpenRuleIsTimed
<1>2. TypeOK /\ Recorded /\ Listed /\ Ruled /\ Carried /\ OpenRuleIsTimed /\ [Next]_vars
        => OpenRuleIsTimed'
  BY TimedStep
<1> QED
  BY <1>1, <1>2, TypeCorrect, RecordedHolds, ListedHolds, RuledHolds, CarriedHolds, PTL
     DEF Spec

\* Together: whatever an Agent has open of a ticket ends with the ticket's window,
\* or was opened after it by a command that came too late.
THEOREM WindowKept == Spec => []WindowIsKept
BY WindowHolds, TimersHold, PTL DEF WindowIsKept

-----------------------------------------------------------------------------
(* PolicyEngine implements TicketLifecycle: the log kept by transition() and *)
(* the listeners kept by the Agents tell a story TicketLifecycle allows.     *)

\* A step of the promise, or none that it sees.
Promised == [Lifecycle!Next]_(Lifecycle!vars)

\* What the last row of a ticket's log says of its status.
LEMMA LastEventTells ==
    ASSUME AuditTrail, NEW t \in Tickets, status[t] \in Statuses
    PROVE  /\ status[t] = "new" <=> Lifecycle!LastEvent(t) = "none"
           /\ status[t] = "pending" <=> Lifecycle!LastEvent(t) = "ticket.submit"
           /\ status[t] = "approved" => Lifecycle!LastEvent(t) = "ticket.approve"
           /\ status[t] = "active" => Lifecycle!LastEvent(t) = "policy.apply"
           /\ status[t] = "revoking" => Lifecycle!LastEvent(t) = "ticket.revoke"
           /\ status[t] \in Granted => Lifecycle!Granted(t)
<1>1. audit[t] = Trail[status[t]]
  BY DEF AuditTrail
<1>2. /\ Trail["new"] = <<>>
      /\ Trail["pending"] = <<"ticket.submit">>
      /\ Trail["rejected"] = <<"ticket.submit", "ticket.reject">>
      /\ Trail["approved"] = <<"ticket.submit", "ticket.approve">>
      /\ Trail["apply_failed"] = <<"ticket.submit", "ticket.approve", "policy.apply_failed">>
      /\ Trail["active"] = <<"ticket.submit", "ticket.approve", "policy.apply">>
      /\ Trail["revoking"] = <<"ticket.submit", "ticket.approve", "policy.apply",
                               "ticket.revoke">>
      /\ Trail["revoke_pending"] = <<"ticket.submit", "ticket.approve", "policy.apply",
                                     "ticket.revoke", "policy.revoke_pending">>
      /\ Trail["closed"] = <<"ticket.submit", "ticket.approve", "policy.apply",
                             "ticket.revoke", "policy.revoke">>
  BY DEF Trail
<1>3. CASE status[t] = "new"
  BY <1>1, <1>2, <1>3 DEF Lifecycle!LastEvent, Lifecycle!Granted, Granted
<1>4. CASE status[t] = "pending"
  <2>1. audit[t] = <<"ticket.submit">>
    BY <1>1, <1>2, <1>4
  <2>2. Lifecycle!LastEvent(t) = "ticket.submit"
    BY <2>1 DEF Lifecycle!LastEvent
  <2> QED
    BY <2>2, <1>4 DEF Lifecycle!Granted, Granted
<1>5. CASE status[t] = "rejected"
  BY <1>1, <1>2, <1>5 DEF Lifecycle!LastEvent, Lifecycle!Granted, Granted
<1>6. CASE status[t] = "approved"
  BY <1>1, <1>2, <1>6 DEF Lifecycle!LastEvent, Lifecycle!Granted, Granted
<1>7. CASE status[t] = "apply_failed"
  BY <1>1, <1>2, <1>7 DEF Lifecycle!LastEvent, Lifecycle!Granted, Granted
<1>8. CASE status[t] = "active"
  BY <1>1, <1>2, <1>8 DEF Lifecycle!LastEvent, Lifecycle!Granted, Granted
<1>9. CASE status[t] = "revoking"
  <2>1. audit[t] = <<"ticket.submit", "ticket.approve", "policy.apply",
                    "ticket.revoke">>
    BY <1>1, <1>2, <1>9
  <2>2. Lifecycle!LastEvent(t) = "ticket.revoke"
    BY <2>1 DEF Lifecycle!LastEvent
  <2> QED
    BY <2>2, <1>9 DEF Lifecycle!Granted, Granted
<1>10. CASE status[t] = "revoke_pending"
  BY <1>1, <1>2, <1>10 DEF Lifecycle!LastEvent, Lifecycle!Granted, Granted
<1>11. CASE status[t] = "closed"
  BY <1>1, <1>2, <1>11 DEF Lifecycle!LastEvent, Lifecycle!Granted, Granted
<1> QED
  BY <1>3, <1>4, <1>5, <1>6, <1>7, <1>8, <1>9, <1>10, <1>11 DEF Statuses

\* A step that writes no row can only open rules of granted tickets.
LEMMA QuietStep ==
    ASSUME TypeOK, AuditTrail, RuleNeedsGrant',
           status' = status, audit' = audit,
           requester' = requester, approver' = approver
    PROVE  Promised
<1> DEFINE R == {t \in Tickets : listener[t] # NoAddr}
<1>1. \A t \in R' : t \in Tickets /\ status[t] \in Granted
  BY DEF RuleNeedsGrant
<1>2. \A t \in R' : Lifecycle!Granted(t)
  BY <1>1, LastEventTells DEF TypeOK
<1>3. Lifecycle!ChangeReach
  BY <1>1, <1>2 DEF Lifecycle!ChangeReach
<1> QED
  BY <1>3 DEF Promised, Lifecycle!Next

\* A transition that follows the approval is the promise's next event.
LEMMA AdvanceStep ==
    ASSUME TypeOK, AuditTrail, NEW t \in Tickets, NEW from, NEW to, NEW e,
           Transition(t, from, to, e), <<Lifecycle!LastEvent(t), e>> \in Lifecycle!Follows,
           UNCHANGED <<requester, approver, listener>>
    PROVE  Promised
<1>1. Lifecycle!Record(t, e)
  BY DEF Transition, Lifecycle!Record
<1>2. Lifecycle!Advance(t, e)
  BY <1>1 DEF Lifecycle!Advance
<1>3. PICK pair \in Lifecycle!Follows : pair[2] = e
  OBVIOUS
<1> QED
  BY <1>2, <1>3 DEF Promised, Lifecycle!Next

\* Every step of the engine is a step of the promise, or none that it sees.
LEMMA PromisedStep ==
    ASSUME TypeOK, AuditTrail, RuleNeedsGrant', [Next]_vars
    PROVE  Promised
<1>1. ASSUME NEW t \in Tickets, NEW u \in Users, Submit(t, u) PROVE Promised
  <2> USE <1>1
  <2>1. status[t] = "new" /\ status[t] \in Statuses
    BY DEF Submit, Transition, Statuses
  <2>2. Lifecycle!LastEvent(t) = "none"
    BY <2>1, LastEventTells
  <2>3. Lifecycle!Submit(t, u)
    BY <2>2 DEF Submit, Transition, rules, Lifecycle!Submit, Lifecycle!Record
  <2>4. Promised
    BY <2>3 DEF Promised, Lifecycle!Next
  <2> QED
    BY <2>1, <2>2, <2>3, <2>4
<1>2. ASSUME NEW h \in Handlers, NEW t \in Tickets, NEW u \in Users,
     Approve(h, t, u) PROVE Promised
  <2> USE <1>2
  <2>1. status[t] = "pending" /\ status[t] \in Statuses
    BY DEF Approve, Transition, Statuses
  <2>2. Lifecycle!LastEvent(t) = "ticket.submit"
    BY <2>1, LastEventTells
  <2>3. Lifecycle!Approve(t, u)
    BY <2>2 DEF Approve, Transition, rules, Lifecycle!Approve,
       Lifecycle!Record
  <2>4. Promised
    BY <2>3 DEF Promised, Lifecycle!Next
  <2> QED
    BY <2>1, <2>2, <2>3, <2>4
<1>3. ASSUME NEW h \in Handlers, NEW t \in Tickets, NEW u \in Users,
     Reject(h, t, u) PROVE Promised
  <2> USE <1>3
  <2>1. status[t] = "pending" /\ status[t] \in Statuses
    BY DEF Reject, Transition, Statuses
  <2>2. Lifecycle!LastEvent(t) = "ticket.submit"
    BY <2>1, LastEventTells
  <2>3. Lifecycle!Reject(t)
    BY <2>2 DEF Reject, Transition, rules, Lifecycle!Reject, Lifecycle!Record
  <2>4. Promised
    BY <2>3 DEF Promised, Lifecycle!Next
  <2> QED
    BY <2>1, <2>2, <2>3, <2>4
<1>4. ASSUME NEW h \in Handlers, ApplyRead(h) PROVE Promised
  BY <1>4, QuietStep DEF ApplyRead, ticketRows
<1>5. ASSUME NEW h \in Handlers, ApplyAbandon(h) PROVE Promised
  BY <1>5, QuietStep DEF ApplyAbandon, ticketRows
<1>6. ASSUME NEW h \in Handlers, ApplyCall(h) PROVE Promised
  BY <1>6, QuietStep DEF ApplyCall, ticketRows
<1>7. ASSUME NEW h \in Handlers, ApplyCallLost(h) PROVE Promised
  BY <1>7, QuietStep DEF ApplyCallLost, ticketRows
<1>8. ASSUME NEW h \in Handlers, ApplySetForward(h) PROVE Promised
  BY <1>8, QuietStep DEF ApplySetForward, ticketRows
<1>9. ASSUME NEW h \in Handlers, ApplyCommit(h) PROVE Promised
  <2> USE <1>9
  <2>1. cur[h] \in Tickets
    BY DEF ApplyCommit, Jump, Busy, Labels, TypeOK
  <2>2. status[cur[h]] = "approved" /\ status[cur[h]] \in Statuses
    BY <2>1 DEF ApplyCommit, Transition, Statuses
  <2>3. Lifecycle!LastEvent(cur[h]) = "ticket.approve"
    BY <2>1, <2>2, LastEventTells
  <2>4. Promised
    BY <2>1, <2>3, AdvanceStep DEF ApplyCommit, Lifecycle!Follows, rules
  <2> QED
    BY <2>1, <2>2, <2>3, <2>4
<1>10. ASSUME NEW h \in Handlers, ApplyFail(h) PROVE Promised
  <2> USE <1>10
  <2>1. cur[h] \in Tickets
    BY DEF ApplyFail, Jump, Busy, Labels, TypeOK
  <2>2. status[cur[h]] = "approved" /\ status[cur[h]] \in Statuses
    BY <2>1 DEF ApplyFail, Transition, Statuses
  <2>3. Lifecycle!LastEvent(cur[h]) = "ticket.approve"
    BY <2>1, <2>2, LastEventTells
  <2>4. Promised
    BY <2>1, <2>3, AdvanceStep DEF ApplyFail, Lifecycle!Follows, rules
  <2> QED
    BY <2>1, <2>2, <2>3, <2>4
<1>11. ASSUME NEW h \in Handlers, NEW t \in Tickets, Revoke(h, t) PROVE
     Promised
  <2> USE <1>11
  <2>1. status[t] = "active" /\ status[t] \in Statuses
    BY DEF Revoke, RevokeClaim, Transition, Statuses
  <2>2. Lifecycle!LastEvent(t) = "policy.apply"
    BY <2>1, LastEventTells
  <2>3. Promised
    BY <2>2, AdvanceStep DEF Revoke, RevokeClaim, rules, Lifecycle!Follows
  <2> QED
    BY <2>1, <2>2, <2>3
<1>12. ASSUME NEW p \in Procs, RevokeCloseShells(p) PROVE Promised
  BY <1>12, QuietStep DEF RevokeCloseShells, ticketRows
<1>13. ASSUME NEW p \in Procs, RevokeCall(p) PROVE Promised
  BY <1>13, QuietStep DEF RevokeCall, ticketRows
<1>14. ASSUME NEW p \in Procs, RevokeCallLost(p) PROVE Promised
  BY <1>14, QuietStep DEF RevokeCallLost, ticketRows
<1>15. ASSUME NEW p \in Procs, RevokeBindingUnread(p) PROVE Promised
  BY <1>15, QuietStep DEF RevokeBindingUnread, ticketRows
<1>16. ASSUME NEW p \in Procs, RevokeClearForward(p) PROVE Promised
  BY <1>16, QuietStep DEF RevokeClearForward, ticketRows
<1>17. ASSUME NEW p \in Procs, RevokeCommit(p) PROVE Promised
  <2> USE <1>17
  <2>1. cur[p] \in Tickets
    BY DEF RevokeCommit, Jump, Busy, Labels, TypeOK
  <2>2. status[cur[p]] = "revoking" /\ status[cur[p]] \in Statuses
    BY <2>1 DEF RevokeCommit, Transition, Statuses
  <2>3. Lifecycle!LastEvent(cur[p]) = "ticket.revoke"
    BY <2>1, <2>2, LastEventTells
  <2>4. Promised
    BY <2>1, <2>3, AdvanceStep DEF RevokeCommit, Lifecycle!Follows, rules
  <2> QED
    BY <2>1, <2>2, <2>3, <2>4
<1>18. ASSUME NEW p \in Procs, RevokeDefer(p) PROVE Promised
  <2> USE <1>18
  <2>1. cur[p] \in Tickets
    BY DEF RevokeDefer, Jump, Busy, Labels, TypeOK
  <2>2. status[cur[p]] = "revoking" /\ status[cur[p]] \in Statuses
    BY <2>1 DEF RevokeDefer, Transition, Statuses
  <2>3. Lifecycle!LastEvent(cur[p]) = "ticket.revoke"
    BY <2>1, <2>2, LastEventTells
  <2>4. Promised
    BY <2>1, <2>3, AdvanceStep DEF RevokeDefer, Lifecycle!Follows, rules
  <2> QED
    BY <2>1, <2>2, <2>3, <2>4
<1>19. ASSUME NEW p \in Procs, FinalTxLost(p) PROVE Promised
  BY <1>19, QuietStep DEF FinalTxLost, ticketRows
<1>20. CASE ExpireList
  BY <1>20, QuietStep DEF ExpireList, ticketRows
<1>21. ASSUME NEW t \in Tickets, ExpireNext(t) PROVE Promised
  <2> USE <1>21
  <2>1. /\ status' = status
        /\ audit' = audit
        /\ requester' = requester
        /\ approver' = approver
        => Promised
    BY QuietStep
  <2>2. RevokeClaim(Scheduler, t) => status[t] = "active"
       /\ status[t] \in Statuses
    BY DEF RevokeClaim, Transition, Statuses
  <2>3. RevokeClaim(Scheduler, t) => Lifecycle!LastEvent(t) = "policy.apply"
    BY <2>2, LastEventTells
  <2>4. RevokeClaim(Scheduler, t) => Promised
    BY <2>3, AdvanceStep DEF ExpireNext, RevokeClaim, rules, Lifecycle!Follows
  <2> QED
    BY <2>1, <2>4 DEF ExpireNext
<1>22. CASE ExpireDone
  BY <1>22, QuietStep DEF ExpireDone, ticketRows
<1>23. ASSUME NEW p \in Procs, RebuildList(p) PROVE Promised
  BY <1>23, QuietStep DEF RebuildList, ticketRows
<1>24. ASSUME NEW p \in Procs, NEW t \in Tickets, RebuildSkip(p, t) PROVE
     Promised
  BY <1>24, QuietStep DEF RebuildSkip, ticketRows
<1>25. ASSUME NEW p \in Procs, NEW t \in Tickets, RebuildNext(p, t) PROVE
     Promised
  BY <1>25, QuietStep DEF RebuildNext, ticketRows
<1>26. ASSUME NEW p \in Procs, RebuildCall(p) PROVE Promised
  BY <1>26, QuietStep DEF RebuildCall, ticketRows
<1>27. ASSUME NEW p \in Procs, RebuildCallLost(p) PROVE Promised
  BY <1>27, QuietStep DEF RebuildCallLost, ticketRows
<1>28. ASSUME NEW p \in Procs, RebuildSetForward(p) PROVE Promised
  BY <1>28, QuietStep DEF RebuildSetForward, ticketRows
<1>29. ASSUME NEW p \in Procs, RebuildDone(p) PROVE Promised
  BY <1>29, QuietStep DEF RebuildDone, ticketRows
<1>30. ASSUME NEW p \in Procs, ListLost(p) PROVE Promised
  BY <1>30, QuietStep DEF ListLost, ticketRows
<1>31. ASSUME NEW a \in Agents, NEW w \in Watchers, AgentConnect(a, w) PROVE
     Promised
  BY <1>31, QuietStep DEF AgentConnect, ticketRows
<1>32. ASSUME NEW w \in Watchers, ReconnectList(w) PROVE Promised
  BY <1>32, QuietStep DEF ReconnectList, ticketRows
<1>33. ASSUME NEW w \in Watchers, NEW t \in Tickets, ReconnectClear(w, t)
     PROVE Promised
  BY <1>33, QuietStep DEF ReconnectClear, ticketRows
<1>34. ASSUME NEW w \in Watchers, ReconnectCleared(w) PROVE Promised
  BY <1>34, QuietStep DEF ReconnectCleared, ticketRows
<1>35. ASSUME NEW a \in Agents, AgentDisconnect(a) PROVE Promised
  BY <1>35, QuietStep DEF AgentDisconnect, ticketRows
<1>36. ASSUME NEW a \in Agents, AgentRestart(a) PROVE Promised
  BY <1>36, QuietStep DEF AgentRestart, ticketRows
<1>37. ASSUME NEW t \in Tickets, TimerFires(t) PROVE Promised
  BY <1>37, QuietStep DEF TimerFires, ticketRows
<1>38. ASSUME NEW a \in Agents, SetEnrollment(a) PROVE Promised
  BY <1>38, QuietStep DEF SetEnrollment, ticketRows
<1>39. ASSUME NEW h \in Handlers, NEW t \in Tickets, OpenCheck(h, t) PROVE
     Promised
  BY <1>39, QuietStep DEF OpenCheck, ticketRows
<1>40. ASSUME NEW h \in Handlers, OpenDone(h) PROVE Promised
  BY <1>40, QuietStep DEF OpenDone, ticketRows
<1>41. ASSUME NEW t \in Tickets, WebShellEnds(t) PROVE Promised
  BY <1>41, QuietStep DEF WebShellEnds, ticketRows
<1>42. CASE Crash
  BY <1>42, QuietStep DEF Crash, ticketRows
<1>43. CASE Tick
  BY <1>43, QuietStep DEF Tick, ticketRows
<1>44. CASE UNCHANGED vars
  BY <1>44, QuietStep DEF vars, ticketRows
<1>45. ASSUME NEW a \in Agents, OldControlReturns(a) PROVE Promised
  BY <1>45, QuietStep DEF OldControlReturns, ticketRows
<1>46. ASSUME NEW t \in Tickets, LateHandled(t) PROVE Promised
  BY <1>46, QuietStep DEF LateHandled, ticketRows
<1> QED
  BY <1>1, <1>2, <1>3, <1>4, <1>5, <1>6, <1>7, <1>8, <1>9, <1>10, <1>11,
     <1>12, <1>13, <1>14, <1>15, <1>16, <1>17, <1>18, <1>19, <1>20, <1>21,
     <1>22, <1>23, <1>24, <1>25, <1>26, <1>27, <1>28, <1>29, <1>30, <1>31,
     <1>32, <1>33, <1>34, <1>35, <1>36, <1>37, <1>38, <1>39, <1>40, <1>41,
     <1>42, <1>43, <1>44, <1>45, <1>46 DEF Next, Procs, Request, HandlerStep, ApplyStep,
     RevokeStep, SchedulerStep, ExpireStep, RebuildStep, WatcherStep,
     ReconnectStep, AgentStep, TicketStep

\* The engine keeps the promise of TicketLifecycle: asked once, decided once by
\* another user, opened and wound down at most once, no rule before the decision.
THEOREM KeepsThePromise == Spec => ImplementsLifecycle
<1>1. Init => Lifecycle!Init
  BY DEF Init, Lifecycle!Init
<1>2. TypeOK /\ AuditTrail /\ RuleNeedsGrant' /\ [Next]_vars
        => [Lifecycle!Next]_(Lifecycle!vars)
  BY PromisedStep DEF Promised
<1>3. Spec => Lifecycle!Init /\ [][Lifecycle!Next]_(Lifecycle!vars)
  BY <1>1, <1>2, TypeCorrect, AuditTrailHolds, GrantHolds, PTL DEF Spec
<1> QED
  BY <1>3 DEF ImplementsLifecycle, Lifecycle!Spec

=============================================================================
