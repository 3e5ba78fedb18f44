--------------------------- MODULE TicketLifecycle ---------------------------
(***************************************************************************)
(* What YuSui promises about one access ticket, whatever the Policy Engine *)
(* does inside: the audit log of a ticket, read alone, is the story of a   *)
(* ticket that was asked for by one user, decided once by another, opened  *)
(* at most once and wound down at most once, and no rule of that ticket    *)
(* exists on an Agent before the decision.  The status column, the forward *)
(* map, the processes and the clock of PolicyEngine are all absent here.   *)
(***************************************************************************)
EXTENDS Sequences, Naturals

CONSTANTS
    Tickets,    \* ticket rows
    Users,      \* people who submit and decide
    NoUser      \* the NULL of requester_id / approver_id

VARIABLES
    log,        \* log[t]: the audit actions recorded for t, oldest first
    requester,  \* requester[t]: who asked
    approver,   \* approver[t]: who approved, NoUser until then
    reachable   \* tickets with an open rule on some Agent

vars == <<log, requester, approver, reachable>>

-----------------------------------------------------------------------------

\* The audit action that comes after another, once a ticket was approved.
Follows ==
    { <<"ticket.approve", "policy.apply">>,
      <<"ticket.approve", "policy.apply_failed">>,
      <<"policy.apply",   "ticket.revoke">>,
      <<"ticket.revoke",  "policy.revoke">>,
      <<"ticket.revoke",  "policy.revoke_pending">> }

LastEvent(t) == IF log[t] = <<>> THEN "none" ELSE log[t][Len(log[t])]

Record(t, event) == log' = [log EXCEPT ![t] = Append(@, event)]

\* Decided in favour: the log holds more than the request, and no rejection.
Granted(t) == LastEvent(t) \notin {"none", "ticket.submit", "ticket.reject"}

-----------------------------------------------------------------------------

Init ==
    /\ log = [t \in Tickets |-> <<>>]
    /\ requester = [t \in Tickets |-> NoUser]
    /\ approver = [t \in Tickets |-> NoUser]
    /\ reachable = {}

Submit(t, u) ==
    /\ LastEvent(t) = "none"
    /\ Record(t, "ticket.submit")
    /\ requester' = [requester EXCEPT ![t] = u]
    /\ UNCHANGED <<approver, reachable>>

Approve(t, u) ==
    /\ LastEvent(t) = "ticket.submit"
    /\ u # requester[t]
    /\ Record(t, "ticket.approve")
    /\ approver' = [approver EXCEPT ![t] = u]
    /\ UNCHANGED <<requester, reachable>>

Reject(t) ==
    /\ LastEvent(t) = "ticket.submit"
    /\ Record(t, "ticket.reject")
    /\ UNCHANGED <<requester, approver, reachable>>

Advance(t, event) ==
    /\ <<LastEvent(t), event>> \in Follows
    /\ Record(t, event)
    /\ UNCHANGED <<requester, approver, reachable>>

\* Rules come and go on the Agents; a new one is always of a granted ticket.
ChangeReach ==
    /\ reachable' \in SUBSET Tickets
    /\ \A t \in reachable' \ reachable : Granted(t)
    /\ UNCHANGED <<log, requester, approver>>

Next ==
    \/ \E t \in Tickets :
        \/ \E u \in Users : Submit(t, u) \/ Approve(t, u)
        \/ Reject(t)
        \/ \E pair \in Follows : Advance(t, pair[2])
    \/ ChangeReach

Spec == Init /\ [][Next]_vars

=============================================================================
