----------------------------- MODULE PolicyEngine -----------------------------
(***************************************************************************)
(* server/internal/policy/engine.go at the grain at which it can be        *)
(* interrupted: every database transaction, every call to the Agent        *)
(* gateway, and every access to the in-memory forward map is one step.     *)
(*                                                                         *)
(* Three kinds of goroutine run the engine: HTTP handlers (Approve and the *)
(* Apply it ends with, Reject, Revoke, opening a web shell), the scheduler *)
(* (ExpireDue then RebuildForwards, for ever), and one goroutine per Agent *)
(* reconnect (OnAgentReconnect).  Around them the server crashes, Agents   *)
(* disconnect and restart, and calls fail before or after taking effect.   *)
(*                                                                         *)
(* A gateway call that succeeds is one step: the Agent has handled the     *)
(* command, and all that was sent before it on the stream.  One that fails *)
(* may leave its command under way: the Agent handles it later, by its own *)
(* clock, or a new stream drops it.  GatewayCalls is the promise this      *)
(* relies on (at most once, in order), and ControlStream keeps it.         *)
(***************************************************************************)
EXTENDS Naturals, Sequences

CONSTANTS
    Tickets, Users, Agents, Addrs,
    AgentOf,    \* AgentOf[t]: the primary agent row of t's project
    Handlers,   \* goroutines serving HTTP requests
    Watchers,   \* goroutines started on an Agent reconnect
    Scheduler,  \* the scheduler goroutine
    NoTicket, NoUser, NoAgent, NoAddr,
    Duration,   \* duration_sec of every ticket, in clock units
    MaxTime,    \* bound: last clock value
    MaxFaults   \* bound: failed calls and transactions, crashes, link losses

ASSUME ConstantsAssumption ==
    /\ AgentOf \in [Tickets -> Agents]
    /\ NoTicket \notin Tickets
    /\ NoUser \notin Users
    /\ NoAgent \notin Agents
    /\ NoAddr \notin Addrs
    /\ Handlers \cap Watchers = {}
    /\ Scheduler \notin Handlers \cup Watchers
    /\ Duration \in Nat \ {0}
    /\ MaxTime \in Nat
    /\ MaxFaults \in Nat

VARIABLES
    (* rows of yusui.tickets, policy_bindings and audit_log *)
    status, requester, approver,
    expires,    \* tickets.expires_at, 0 when NULL
    binding,    \* the agent a ticket is bound to, NoAgent before Apply
    audit,      \* audit[t]: actions recorded for t, oldest first
    (* rows of yusui.agents *)
    enrolled,   \* agents whose enrollment is 'approved'
    (* memory of the server process *)
    forwards,   \* Engine.forwards; NoAddr when the key is absent
    webShells,  \* tickets with a session in the web shell manager
    connected,  \* agents whose control stream is up and is their entry in conns
    robbed,     \* agents whose stream is up, but which have no entry
    older,      \* older[a]: Controls of dead streams of a that have yet to return
    pc, cur, todo, got, exp, peer,   \* goroutine positions and locals
    (* the Agents *)
    listener,   \* listener[t]: address of the open listener of rule t
    timer,      \* timer[t]: when its TTL timer fires, 0 when none is armed
    late,       \* late[t]: commands under way whose callers gave up, oldest first
    (* the environment, and observation *)
    now, faults,
    cause       \* cause[t]: the irregular steps t went through, for properties

ticketRows == <<status, requester, approver, expires, binding, audit>>
memory     == <<forwards, webShells>>
links      == <<connected, enrolled, robbed, older>>
locals     == <<cur, todo, got, exp, peer>>
rules      == <<listener, timer, late>>

vars == <<ticketRows, memory, links, pc, locals, rules, cause, now, faults>>

Procs == Handlers \cup Watchers \cup {Scheduler}

Statuses == { "new", "pending", "approved", "rejected", "apply_failed",
              "active", "revoking", "revoke_pending", "closed" }

Labels == { "idle", "open",
            "apply", "apply.call", "apply.set", "apply.commit", "apply.fail",
            "revoke.close", "revoke.call", "revoke.clear", "revoke.commit",
            "revoke.fail",
            "expire", "recon", "clear",
            "rebuild.list", "rebuild", "rebuild.call", "rebuild.set" }

\* Where a goroutine is in the middle of one ticket.
Busy == Labels \ {"idle", "expire", "recon", "clear", "rebuild.list", "rebuild"}

Events == { "ticket.submit", "ticket.approve", "ticket.reject", "policy.apply",
            "policy.apply_failed", "ticket.revoke", "policy.revoke",
            "policy.revoke_pending" }

\* stale_reapply:  a rebuild opened the rule of a ticket no longer active
\* unread_binding: Revoke skipped the Agent because GetBinding failed
\* late_store:     an address went into the map after its listener closed
\* late_apply:     an Agent handled an Apply after the window it was sent
\* missed_reconnect: OnAgentReconnect passed over it: not active yet, or its
\*                   binding could not be read
Causes == { "stale_reapply", "unread_binding", "late_store", "late_apply",
            "missed_reconnect" }

\* A command under way: the expiry of an Apply, or a Revoke.
Closing == 0

TypeOK ==
    /\ status \in [Tickets -> Statuses]
    /\ requester \in [Tickets -> Users \cup {NoUser}]
    /\ approver \in [Tickets -> Users \cup {NoUser}]
    /\ expires \in [Tickets -> Nat]
    /\ binding \in [Tickets -> Agents \cup {NoAgent}]
    /\ audit \in [Tickets -> Seq(Events)]
    /\ enrolled \in SUBSET Agents
    /\ forwards \in [Tickets -> Addrs \cup {NoAddr}]
    /\ webShells \in SUBSET Tickets
    /\ connected \in SUBSET Agents
    /\ robbed \in SUBSET Agents
    /\ older \in [Agents -> Nat]
    /\ pc \in [Procs -> Labels]
    /\ cur \in [Procs -> Tickets \cup {NoTicket}]
    /\ \A p \in Procs : pc[p] \in Busy => cur[p] \in Tickets
    /\ todo \in [Procs -> SUBSET Tickets]
    /\ got \in [Procs -> Addrs \cup {NoAddr}]
    /\ exp \in [Procs -> Nat]
    /\ peer \in [Procs -> Agents \cup {NoAgent}]
    /\ listener \in [Tickets -> Addrs \cup {NoAddr}]
    /\ timer \in [Tickets -> Nat]
    /\ late \in [Tickets -> Seq(Nat)]
    /\ now \in Nat
    /\ faults \in Nat
    /\ cause \in [Tickets -> SUBSET Causes]

-----------------------------------------------------------------------------
(* Helpers *)

Jump(p, from, to) == pc[p] = from /\ pc' = [pc EXCEPT ![p] = to]

\* Something fails that could have worked: counted, so that it stays bounded.
Fault == faults < MaxFaults /\ faults' = faults + 1
Sound == UNCHANGED faults

-----------------------------------------------------------------------------
(* The queries (store), as far as these columns *)

CreateTicket(t, u) == requester' = [requester EXCEPT ![t] = u]

SetTicketApproved(t, u) == approver' = [approver EXCEPT ![t] = u]

SetTicketActive(t, until) == expires' = [expires EXCEPT ![t] = until]

SetTicketStatus(t, to) == status' = [status EXCEPT ![t] = to]

UpsertBinding(t, a) == binding' = [binding EXCEPT ![t] = a]

InsertAudit(t, action) == audit' = [audit EXCEPT ![t] = Append(@, action)]

\* GetPrimaryAgentForProject finds a row: the agent is approved.
HasPrimary(t) == AgentOf[t] \in enrolled

ListActiveTickets == {t \in Tickets : status[t] = "active" /\ expires[t] > now}

ListExpiredActiveTickets == {t \in Tickets : status[t] = "active" /\ expires[t] <= now}

-----------------------------------------------------------------------------
(* Helpers of the engine and of the Agents *)

\* Mutant: the row has to exist, but its status is not looked at.
TransitionUnchecked(t, from, to, action) ==
    /\ status[t] # "new" \/ from = "new"
    /\ SetTicketStatus(t, to)
    /\ InsertAudit(t, action)

\* transition(): the status update and its audit row, committed together.
Transition(t, from, to, action) ==
    /\ status[t] = from
    /\ SetTicketStatus(t, to)
    /\ InsertAudit(t, action)

\* A goroutine is done with the ticket it was working on.
Release(p) ==
    /\ cur' = [cur EXCEPT ![p] = NoTicket]
    /\ got' = [got EXCEPT ![p] = NoAddr]
    /\ exp' = [exp EXCEPT ![p] = 0]

\* Engine.setForward with the address a gateway call returned.
StoreForward(p) ==
    LET t == cur[p] IN
    /\ forwards' = [forwards EXCEPT ![t] = got[p]]
    /\ cause' = IF listener[t] = got[p] THEN cause
                ELSE [cause EXCEPT ![t] = @ \cup {"late_store"}]

\* Where Revoke returns to: the request ends, ExpireDue goes on.
AfterRevoke(p) == IF p = Scheduler THEN "expire" ELSE "idle"

\* The Agent opens the rule, or finds it open and returns its address.  A new
\* listener gets a TTL timer only if the expiry it was sent is still ahead.
AgentApply(t, until, a) ==
    \/ /\ listener[t] # NoAddr
       /\ a = listener[t]
       /\ UNCHANGED <<listener, timer>>
    \/ /\ listener[t] = NoAddr
       /\ \A other \in Tickets : listener[other] # a
       /\ listener' = [listener EXCEPT ![t] = a]
       /\ timer' = [timer EXCEPT ![t] = IF until > now THEN until ELSE 0]

AgentRevoke(t) ==
    /\ listener' = [listener EXCEPT ![t] = NoAddr]
    /\ timer' = [timer EXCEPT ![t] = 0]

\* A command to a is answered: a has handled all that was sent it before for t.
Answered(t, a) == a \in connected /\ late[t] = <<>>

\* The call fails: there is no stream, the command is lost, or it is under way
\* and the caller gave up on its answer.
GivenUp(t, a, command) ==
    \/ a \notin connected /\ Sound /\ UNCHANGED late
    \/ Fault /\ UNCHANGED late
    \/ a \in connected /\ Fault /\ late' = [late EXCEPT ![t] = Append(@, command)]

\* What the streams of a still carried is lost with them.
DropLate(a) == late' = [t \in Tickets |-> IF AgentOf[t] = a THEN <<>> ELSE late[t]]

-----------------------------------------------------------------------------
(* Mutants: bugs these steps could plausibly have, for the properties to find *)

\* Whoever asked may decide.
ApproveOwn(h, t, u) ==
    /\ now + Duration <= MaxTime
    /\ Jump(h, "idle", "apply")
    /\ Transition(t, "pending", "approved", "ticket.approve")
    /\ SetTicketApproved(t, u)
    /\ cur' = [cur EXCEPT ![h] = t]
    /\ UNCHANGED <<requester, expires, binding, memory, links, todo, got, exp,
                   peer, rules, cause, now, faults>>

\* A failed RevokeRule counts as done.
RevokeCallForgiven(p) ==
    /\ Jump(p, "revoke.call", "revoke.clear")
    /\ (binding[cur[p]] \notin connected /\ Sound) \/ Fault
    /\ UNCHANGED <<ticketRows, memory, links, locals, rules, cause, now>>

\* The pass revokes what is still valid.
ExpireListEarly ==
    /\ Jump(Scheduler, "idle", "expire")
    /\ todo' = [todo EXCEPT ![Scheduler] = ListActiveTickets]
    /\ UNCHANGED <<ticketRows, memory, links, cur, got, exp, peer, rules, cause,
                   now, faults>>

\* A ticket is passed over although its address is unknown.
RebuildSkipAny(p, t) ==
    /\ pc[p] = "rebuild"
    /\ t \in todo[p]
    /\ todo' = [todo EXCEPT ![p] = @ \ {t}]
    /\ UNCHANGED <<ticketRows, memory, links, pc, cur, got, exp, peer, rules,
                   cause, now, faults>>

\* A re-applied rule gets a whole new window.
RebuildCallAnew(p) ==
    /\ Jump(p, "rebuild.call", "rebuild.set")
    /\ Answered(cur[p], binding[cur[p]])
    /\ \E a \in Addrs :
        /\ AgentApply(cur[p], now + Duration, a)
        /\ got' = [got EXCEPT ![p] = a]
    /\ UNCHANGED <<ticketRows, memory, links, cur, todo, exp, peer, late, cause, now,
                   faults>>

\* Rebuilding an address renews the ticket.
RebuildSetForwardRenew(p) ==
    /\ Jump(p, "rebuild.set", "rebuild")
    /\ StoreForward(p)
    /\ expires' = [expires EXCEPT ![cur[p]] = now + Duration]
    /\ Release(p)
    /\ UNCHANGED <<status, requester, approver, binding, audit, webShells, links,
                   todo, peer, rules, now, faults>>

\* The reconnect leaves the old address in the map.
ReconnectClearKept(w, t) ==
    /\ pc[w] = "clear"
    /\ t \in todo[w]
    /\ todo' = [todo EXCEPT ![w] = @ \ {t}]
    /\ UNCHANGED <<ticketRows, memory, links, pc, cur, got, exp, peer, rules,
                   cause, now, faults>>

-----------------------------------------------------------------------------
(* Requests: Submit, Approve and Apply, Reject *)

Init ==
    /\ status = [t \in Tickets |-> "new"]
    /\ requester = [t \in Tickets |-> NoUser]
    /\ approver = [t \in Tickets |-> NoUser]
    /\ expires = [t \in Tickets |-> 0]
    /\ binding = [t \in Tickets |-> NoAgent]
    /\ audit = [t \in Tickets |-> <<>>]
    /\ enrolled = {}
    /\ forwards = [t \in Tickets |-> NoAddr]
    /\ webShells = {}
    /\ connected = {}
    /\ robbed = {}
    /\ older = [a \in Agents |-> 0]
    /\ pc = [p \in Procs |-> "idle"]
    /\ cur = [p \in Procs |-> NoTicket]
    /\ todo = [p \in Procs |-> {}]
    /\ got = [p \in Procs |-> NoAddr]
    /\ exp = [p \in Procs |-> 0]
    /\ peer = [p \in Procs |-> NoAgent]
    /\ listener = [t \in Tickets |-> NoAddr]
    /\ timer = [t \in Tickets |-> 0]
    /\ late = [t \in Tickets |-> <<>>]
    /\ now = 0
    /\ faults = 0
    /\ cause = [t \in Tickets |-> {}]

Submit(t, u) ==
    /\ Transition(t, "new", "pending", "ticket.submit")
    /\ CreateTicket(t, u)
    /\ UNCHANGED <<approver, expires, binding, memory, links, pc, locals,
                   rules, cause, now, faults>>

\* Bound: no approval so late that the ticket would outlast the clock.
Approve(h, t, u) ==
    /\ now + Duration <= MaxTime
    /\ Jump(h, "idle", "apply")
    /\ requester[t] # u
    /\ Transition(t, "pending", "approved", "ticket.approve")
    /\ SetTicketApproved(t, u)
    /\ cur' = [cur EXCEPT ![h] = t]
    /\ UNCHANGED <<requester, expires, binding, memory, links, todo, got, exp,
                   peer, rules, cause, now, faults>>

Reject(h, t, u) ==
    /\ pc[h] = "idle"
    /\ requester[t] # u
    /\ Transition(t, "pending", "rejected", "ticket.reject")
    /\ UNCHANGED <<requester, approver, expires, binding, memory, links, pc,
                   locals, rules, cause, now, faults>>

\* Apply reads the ticket and looks up the approved primary agent.
ApplyRead(h) ==
    /\ Jump(h, "apply", "apply.call")
    /\ status[cur[h]] = "approved"
    /\ HasPrimary(cur[h])
    /\ exp' = [exp EXCEPT ![h] = now + Duration]
    /\ UNCHANGED <<ticketRows, memory, links, cur, todo, got, peer, rules, cause,
                   now, faults>>

\* No such agent, or the read fails: Apply returns and nothing else happens.
ApplyAbandon(h) ==
    /\ Jump(h, "apply", "idle")
    /\ (~HasPrimary(cur[h]) /\ Sound) \/ Fault
    /\ Release(h)
    /\ UNCHANGED <<ticketRows, memory, links, todo, peer, rules, cause, now>>

ApplyCall(h) ==
    /\ Jump(h, "apply.call", "apply.set")
    /\ Answered(cur[h], AgentOf[cur[h]])
    /\ \E a \in Addrs :
        /\ AgentApply(cur[h], exp[h], a)
        /\ got' = [got EXCEPT ![h] = a]
    /\ UNCHANGED <<ticketRows, memory, links, cur, todo, exp, peer, late, cause, now,
                   faults>>

ApplyCallLost(h) ==
    /\ Jump(h, "apply.call", "apply.fail")
    /\ GivenUp(cur[h], AgentOf[cur[h]], exp[h])
    /\ UNCHANGED <<ticketRows, memory, links, locals, listener, timer, cause, now>>

ApplySetForward(h) ==
    /\ Jump(h, "apply.set", "apply.commit")
    /\ StoreForward(h)
    /\ UNCHANGED <<ticketRows, webShells, links, locals, rules, now, faults>>

ApplyCommit(h) ==
    LET t == cur[h] IN
    /\ Jump(h, "apply.commit", "idle")
    /\ Transition(t, "approved", "active", "policy.apply")
    /\ UpsertBinding(t, AgentOf[t])
    /\ SetTicketActive(t, exp[h])
    /\ Release(h)
    /\ UNCHANGED <<requester, approver, memory, links, todo, peer, rules, cause, now,
                   faults>>

ApplyFail(h) ==
    /\ Jump(h, "apply.fail", "idle")
    /\ Transition(cur[h], "approved", "apply_failed", "policy.apply_failed")
    /\ Release(h)
    /\ UNCHANGED <<requester, approver, expires, binding, memory, links, todo,
                   peer, rules, cause, now, faults>>

-----------------------------------------------------------------------------
(* Revoke, by a request or by ExpireDue *)

\* The claim: active -> revoking.  Everyone else's claim now fails.
RevokeClaim(p, t) ==
    /\ Transition(t, "active", "revoking", "ticket.revoke")
    /\ pc' = [pc EXCEPT ![p] = "revoke.close"]
    /\ cur' = [cur EXCEPT ![p] = t]

Revoke(h, t) ==
    /\ pc[h] = "idle"
    /\ RevokeClaim(h, t)
    /\ UNCHANGED <<requester, approver, expires, binding, memory, links, todo,
                   got, exp, peer, rules, cause, now, faults>>

\* ForceCloseByTicket comes before the rule is removed.
RevokeCloseShells(p) ==
    /\ Jump(p, "revoke.close", "revoke.call")
    /\ webShells' = webShells \ {cur[p]}
    /\ UNCHANGED <<ticketRows, forwards, links, locals, rules, cause, now, faults>>

RevokeCall(p) ==
    /\ Jump(p, "revoke.call", "revoke.clear")
    /\ Answered(cur[p], binding[cur[p]])
    /\ AgentRevoke(cur[p])
    /\ UNCHANGED <<ticketRows, memory, links, locals, late, cause, now, faults>>

RevokeCallLost(p) ==
    /\ Jump(p, "revoke.call", "revoke.fail")
    /\ GivenUp(cur[p], binding[cur[p]], Closing)
    /\ UNCHANGED <<ticketRows, memory, links, locals, listener, timer, cause, now>>

\* GetBinding fails: the call to the Agent is skipped, Revoke goes on.
RevokeBindingUnread(p) ==
    /\ Jump(p, "revoke.call", "revoke.clear")
    /\ Fault
    /\ cause' = [cause EXCEPT ![cur[p]] = @ \cup {"unread_binding"}]
    /\ UNCHANGED <<ticketRows, memory, links, locals, rules, now>>

RevokeClearForward(p) ==
    /\ Jump(p, "revoke.clear", "revoke.commit")
    /\ forwards' = [forwards EXCEPT ![cur[p]] = NoAddr]
    /\ UNCHANGED <<ticketRows, webShells, links, locals, rules, cause, now, faults>>

RevokeCommit(p) ==
    /\ Jump(p, "revoke.commit", AfterRevoke(p))
    /\ Transition(cur[p], "revoking", "closed", "policy.revoke")
    /\ Release(p)
    /\ UNCHANGED <<requester, approver, expires, binding, memory, links, todo,
                   peer, rules, cause, now, faults>>

RevokeDefer(p) ==
    /\ Jump(p, "revoke.fail", AfterRevoke(p))
    /\ Transition(cur[p], "revoking", "revoke_pending", "policy.revoke_pending")
    /\ Release(p)
    /\ UNCHANGED <<requester, approver, expires, binding, memory, links, todo,
                   peer, rules, cause, now, faults>>

\* The last transaction of Apply or Revoke fails (database error, or the
\* request's context is done): the goroutine returns, the ticket stays put.
FinalTxLost(p) ==
    /\ pc[p] \in {"apply.commit", "apply.fail", "revoke.commit", "revoke.fail"}
    /\ pc' = [pc EXCEPT ![p] = AfterRevoke(p)]
    /\ Fault
    /\ Release(p)
    /\ UNCHANGED <<ticketRows, memory, links, todo, peer, rules, cause, now>>

-----------------------------------------------------------------------------
(* The scheduler: ExpireDue, then RebuildForwards, for ever *)

ExpireList ==
    /\ Jump(Scheduler, "idle", "expire")
    /\ todo' = [todo EXCEPT ![Scheduler] = ListExpiredActiveTickets]
    /\ UNCHANGED <<ticketRows, memory, links, cur, got, exp, peer, rules, cause, now,
                   faults>>

ExpireNext(t) ==
    /\ pc[Scheduler] = "expire"
    /\ t \in todo[Scheduler]
    /\ todo' = [todo EXCEPT ![Scheduler] = @ \ {t}]
    /\ \/ RevokeClaim(Scheduler, t) /\ Sound
       \/ /\ (status[t] # "active" /\ Sound) \/ Fault
          /\ UNCHANGED <<status, audit, pc, cur>>
    /\ UNCHANGED <<requester, approver, expires, binding, memory, links, got,
                   exp, peer, rules, cause, now>>

ExpireDone ==
    /\ Jump(Scheduler, "expire", "rebuild.list")
    /\ todo[Scheduler] = {}
    /\ UNCHANGED <<ticketRows, memory, links, locals, rules, cause, now, faults>>

-----------------------------------------------------------------------------
(* RebuildForwards, run by the scheduler and after an Agent reconnect *)

\* ListActiveTickets: the rows are read once, and acted on one by one later.
RebuildList(p) ==
    /\ Jump(p, "rebuild.list", "rebuild")
    /\ todo' = [todo EXCEPT ![p] = ListActiveTickets]
    /\ UNCHANGED <<ticketRows, memory, links, cur, got, exp, peer, rules, cause, now,
                   faults>>

RebuildSkip(p, t) ==
    /\ pc[p] = "rebuild"
    /\ t \in todo[p]
    /\ forwards[t] # NoAddr
    /\ todo' = [todo EXCEPT ![p] = @ \ {t}]
    /\ UNCHANGED <<ticketRows, memory, links, pc, cur, got, exp, peer, rules, cause,
                   now, faults>>

RebuildNext(p, t) ==
    /\ Jump(p, "rebuild", "rebuild.call")
    /\ t \in todo[p]
    /\ forwards[t] = NoAddr
    /\ todo' = [todo EXCEPT ![p] = @ \ {t}]
    /\ cur' = [cur EXCEPT ![p] = t]
    /\ UNCHANGED <<ticketRows, memory, links, got, exp, peer, rules, cause, now,
                   faults>>

\* reapply(): the binding's agent, the snapshot's expiry, and no look at what
\* the ticket or the agent row says by now.
RebuildCall(p) ==
    LET t == cur[p] IN
    /\ Jump(p, "rebuild.call", "rebuild.set")
    /\ Answered(t, binding[t])
    /\ \E a \in Addrs :
        /\ AgentApply(t, expires[t], a)
        /\ got' = [got EXCEPT ![p] = a]
    /\ cause' = IF status[t] = "active" \/ listener[t] # NoAddr THEN cause
                ELSE [cause EXCEPT ![t] = @ \cup {"stale_reapply"}]
    /\ UNCHANGED <<ticketRows, memory, links, cur, todo, exp, peer, late, now, faults>>

RebuildCallLost(p) ==
    LET t == cur[p] IN
    /\ Jump(p, "rebuild.call", "rebuild")
    /\ GivenUp(t, binding[t], expires[t])
    /\ cause' = IF status[t] = "active" \/ late' = late THEN cause
                ELSE [cause EXCEPT ![t] = @ \cup {"stale_reapply"}]
    /\ Release(p)
    /\ UNCHANGED <<ticketRows, memory, links, todo, peer, listener, timer, now>>

RebuildSetForward(p) ==
    /\ Jump(p, "rebuild.set", "rebuild")
    /\ StoreForward(p)
    /\ Release(p)
    /\ UNCHANGED <<ticketRows, webShells, links, todo, peer, rules, now,
                   faults>>

RebuildDone(p) ==
    /\ Jump(p, "rebuild", "idle")
    /\ todo[p] = {}
    /\ peer' = [peer EXCEPT ![p] = NoAgent]
    /\ UNCHANGED <<ticketRows, memory, links, cur, todo, got, exp, rules, cause, now,
                   faults>>

\* ListExpiredActiveTickets or ListActiveTickets fails.
ListLost(p) ==
    /\ \/ Jump(p, "rebuild.list", "idle")
       \/ p = Scheduler /\ Jump(p, "idle", "rebuild.list")
    /\ Fault
    /\ peer' = [peer EXCEPT ![p] = NoAgent]
    /\ UNCHANGED <<ticketRows, memory, links, cur, todo, got, exp, rules, cause, now>>

-----------------------------------------------------------------------------
(* Agents: connecting, OnAgentReconnect, losing the link, restarting *)

\* An Agent told it is approved opens its control stream, and the controller
\* starts OnAgentReconnect for it.  A later rejection leaves the stream open.
AgentConnect(a, w) ==
    /\ a \in enrolled \ (connected \cup robbed)
    /\ Jump(w, "idle", "recon")
    /\ connected' = connected \cup {a}
    /\ DropLate(a)
    /\ peer' = [peer EXCEPT ![w] = a]
    /\ UNCHANGED <<ticketRows, memory, enrolled, robbed, older, cur, todo, got, exp,
                   listener, timer, cause, now, faults>>

MissReconnect(unread, a) ==
    LET missed == unread \cup {t \in Tickets : status[t] = "approved" /\ AgentOf[t] = a}
    IN  cause' = [t \in Tickets |-> IF t \in missed THEN cause[t] \cup {"missed_reconnect"}
                                   ELSE cause[t]]

\* The reconnected agent's tickets, less those whose binding could not be read.
ReconnectList(w) ==
    LET bound == {t \in ListActiveTickets : binding[t] = peer[w]} IN
    /\ \E mine \in SUBSET bound :
        /\ MissReconnect(bound \ mine, peer[w])
        /\ (mine = bound /\ Sound) \/ (mine # bound /\ Fault)
        /\ todo' = [todo EXCEPT ![w] = mine]
        /\ \/ mine # {} /\ Jump(w, "recon", "clear") /\ UNCHANGED peer
           \/ /\ mine = {} /\ Jump(w, "recon", "idle")
              /\ peer' = [peer EXCEPT ![w] = NoAgent]
    /\ UNCHANGED <<ticketRows, memory, links, cur, got, exp, rules, now>>

ReconnectClear(w, t) ==
    /\ pc[w] = "clear"
    /\ t \in todo[w]
    /\ forwards' = [forwards EXCEPT ![t] = NoAddr]
    /\ todo' = [todo EXCEPT ![w] = @ \ {t}]
    /\ UNCHANGED <<ticketRows, webShells, links, pc, cur, got, exp, peer, rules, cause,
                   now, faults>>

ReconnectCleared(w) ==
    /\ Jump(w, "clear", "rebuild.list")
    /\ todo[w] = {}
    /\ UNCHANGED <<ticketRows, memory, links, locals, rules, cause, now, faults>>

\* The Agent's stream breaks.  Its Control returns with it, or has yet to notice.
AgentDisconnect(a) ==
    /\ a \in connected \cup robbed
    /\ Fault
    /\ connected' = connected \ {a}
    /\ robbed' = robbed \ {a}
    /\ older' \in {older, [older EXCEPT ![a] = @ + 1]}
    /\ UNCHANGED <<ticketRows, memory, enrolled, pc, locals, rules, cause, now>>

\* A Control returns after its stream was replaced: its deferred delete takes
\* the entry of the newer stream, which stays up.
OldControlReturns(a) ==
    /\ older[a] > 0
    /\ older' = [older EXCEPT ![a] = @ - 1]
    /\ connected' = connected \ {a}
    /\ robbed' = robbed \cup ({a} \cap connected)
    /\ UNCHANGED <<ticketRows, memory, enrolled, pc, locals, rules, cause, now, faults>>

\* An Agent process restarts: its listeners are gone, nothing is on disk.
AgentRestart(a) ==
    /\ Fault
    /\ connected' = connected \ {a}
    /\ robbed' = robbed \ {a}
    /\ older' \in {older, [older EXCEPT ![a] = @ + 1]}
    /\ listener' = [t \in Tickets |-> IF AgentOf[t] = a THEN NoAddr ELSE listener[t]]
    /\ timer' = [t \in Tickets |-> IF AgentOf[t] = a THEN 0 ELSE timer[t]]
    /\ DropLate(a)
    /\ UNCHANGED <<ticketRows, memory, enrolled, pc, locals, cause, now>>

\* The Agent handles a command whose caller is gone.  What an Apply's expiry
\* leaves of its window is computed now, and not when it was sent.
LateHandled(t) ==
    /\ late[t] # <<>>
    /\ late' = [late EXCEPT ![t] = Tail(@)]
    /\ \/ Head(late[t]) = Closing /\ AgentRevoke(t) /\ UNCHANGED cause
       \/ /\ Head(late[t]) # Closing
          /\ \E a \in Addrs : AgentApply(t, Head(late[t]), a)
          /\ cause' = IF listener[t] # NoAddr \/ Head(late[t]) > now THEN cause
                      ELSE [cause EXCEPT ![t] = @ \cup {"late_apply"}]
    /\ UNCHANGED <<ticketRows, memory, links, pc, locals, now, faults>>

\* time.AfterFunc on the Agent.
TimerFires(t) ==
    /\ timer[t] # 0
    /\ timer[t] <= now
    /\ AgentRevoke(t)
    /\ UNCHANGED <<ticketRows, memory, links, pc, locals, late, cause, now, faults>>

\* An administrator approves or rejects an agent's enrolment.
SetEnrollment(a) ==
    /\ enrolled' \in {enrolled \cup {a}, enrolled \ {a}}
    /\ UNCHANGED <<ticketRows, memory, connected, robbed, older, pc, locals, rules,
                   cause, now, faults>>

-----------------------------------------------------------------------------
(* Web shells, as far as the engine sees them *)

\* The terminal handler finds the ticket active and no session for it yet.
OpenCheck(h, t) ==
    /\ Jump(h, "idle", "open")
    /\ status[t] = "active"
    /\ t \notin webShells
    /\ HasPrimary(t)
    /\ cur' = [cur EXCEPT ![h] = t]
    /\ UNCHANGED <<ticketRows, memory, links, todo, got, exp, peer, rules, cause, now,
                   faults>>

\* Dialled and registered; or the dial failed.
OpenDone(h) ==
    /\ Jump(h, "open", "idle")
    /\ webShells' \in {webShells, webShells \cup {cur[h]}}
    /\ Release(h)
    /\ UNCHANGED <<ticketRows, forwards, links, todo, peer, rules, cause, now, faults>>

WebShellEnds(t) ==
    /\ t \in webShells
    /\ webShells' = webShells \ {t}
    /\ UNCHANGED <<ticketRows, forwards, links, pc, locals, rules, cause, now, faults>>

-----------------------------------------------------------------------------
(* The server process, and time *)

\* The server stops and starts: its memory and goroutines are gone, the
\* database and the Agents' listeners are not.
Crash ==
    /\ Fault
    /\ forwards' = [t \in Tickets |-> NoAddr]
    /\ webShells' = {}
    /\ connected' = {}
    /\ robbed' = {}
    /\ older' = [a \in Agents |-> 0]
    /\ pc' = [p \in Procs |-> "idle"]
    /\ cur' = [p \in Procs |-> NoTicket]
    /\ todo' = [p \in Procs |-> {}]
    /\ got' = [p \in Procs |-> NoAddr]
    /\ exp' = [p \in Procs |-> 0]
    /\ peer' = [p \in Procs |-> NoAgent]
    /\ UNCHANGED <<ticketRows, enrolled, rules, cause, now>>

\* A request lives at most 30 s and a ticket at least 60 s, so the expiry an
\* Apply computed never passes while that Apply runs.
Tick ==
    /\ now < MaxTime
    /\ \A p \in Procs : exp[p] # 0 => now + 1 < exp[p]
    /\ now' = now + 1
    /\ UNCHANGED <<ticketRows, memory, links, pc, locals, rules, cause, faults>>

-----------------------------------------------------------------------------
(* The specification *)

ApplyStep(h) ==
    \/ ApplyRead(h) \/ ApplyAbandon(h) \/ ApplyCall(h) \/ ApplyCallLost(h)
    \/ ApplySetForward(h) \/ ApplyCommit(h) \/ ApplyFail(h)

RevokeStep(p) ==
    \/ RevokeCloseShells(p) \/ RevokeCall(p) \/ RevokeCallLost(p)
    \/ RevokeBindingUnread(p) \/ RevokeClearForward(p)
    \/ RevokeCommit(p) \/ RevokeDefer(p)

RebuildStep(p) ==
    \/ RebuildList(p) \/ RebuildCall(p) \/ RebuildCallLost(p)
    \/ RebuildSetForward(p) \/ RebuildDone(p)
    \/ \E t \in Tickets : RebuildSkip(p, t) \/ RebuildNext(p, t)

ExpireStep == ExpireList \/ ExpireDone \/ \E t \in Tickets : ExpireNext(t)

ReconnectStep(w) ==
    ReconnectList(w) \/ ReconnectCleared(w) \/ \E t \in Tickets : ReconnectClear(w, t)

\* What a goroutine does once it was started; the failures are not its own.
HandlerStep(h) == ApplyStep(h) \/ RevokeStep(h) \/ FinalTxLost(h) \/ OpenDone(h)
SchedulerStep ==
    \/ ExpireStep \/ RevokeStep(Scheduler) \/ FinalTxLost(Scheduler)
    \/ RebuildStep(Scheduler) \/ ListLost(Scheduler)
WatcherStep(w) == ReconnectStep(w) \/ RebuildStep(w) \/ ListLost(w)

Request(h) ==
    \E t \in Tickets :
        \/ \E u \in Users : Approve(h, t, u) \/ Reject(h, t, u)
        \/ Revoke(h, t)
        \/ OpenCheck(h, t)

AgentStep(a) ==
    \/ \E w \in Watchers : AgentConnect(a, w)
    \/ AgentDisconnect(a) \/ AgentRestart(a) \/ OldControlReturns(a) \/ SetEnrollment(a)

TicketStep(t) ==
    \/ \E u \in Users : Submit(t, u)
    \/ TimerFires(t)
    \/ LateHandled(t)
    \/ WebShellEnds(t)

Next ==
    \/ \E h \in Handlers : Request(h) \/ HandlerStep(h)
    \/ SchedulerStep
    \/ \E w \in Watchers : WatcherStep(w)
    \/ \E a \in Agents : AgentStep(a)
    \/ \E t \in Tickets : TicketStep(t)
    \/ Crash
    \/ Tick

Spec == Init /\ [][Next]_vars

-----------------------------------------------------------------------------
(* Fairness.  Goroutines that were started keep running, the scheduler never *)
(* stops, an Agent keeps reconnecting (3 s backoff), its timers fire and it  *)
(* reads what its stream brings.  An Agent whose entry was taken does not    *)
(* reconnect: its stream is up.  Users, administrators, faults, a dead       *)
(* stream's Control and the clock owe nothing.                               *)

Fairness ==
    /\ \A h \in Handlers : WF_vars(HandlerStep(h))
    /\ WF_vars(SchedulerStep)
    /\ \A w \in Watchers : WF_vars(WatcherStep(w))
    /\ \A a \in Agents : WF_vars(\E w \in Watchers : AgentConnect(a, w))
    /\ \A t \in Tickets : WF_vars(TimerFires(t))
    /\ \A t \in Tickets : WF_vars(AgentOf[t] \in connected /\ LateHandled(t))

FairSpec == Spec /\ Fairness

-----------------------------------------------------------------------------
(* Safety *)

Trail ==
    [ new            |-> <<>>,
      pending        |-> <<"ticket.submit">>,
      rejected       |-> <<"ticket.submit", "ticket.reject">>,
      approved       |-> <<"ticket.submit", "ticket.approve">>,
      apply_failed   |-> <<"ticket.submit", "ticket.approve", "policy.apply_failed">>,
      active         |-> <<"ticket.submit", "ticket.approve", "policy.apply">>,
      revoking       |-> <<"ticket.submit", "ticket.approve", "policy.apply",
                           "ticket.revoke">>,
      revoke_pending |-> <<"ticket.submit", "ticket.approve", "policy.apply",
                           "ticket.revoke", "policy.revoke_pending">>,
      closed         |-> <<"ticket.submit", "ticket.approve", "policy.apply",
                           "ticket.revoke", "policy.revoke">> ]

\* The audit log of a ticket is exactly the path to its status: every change
\* of status left one row, and no row tells of a change that did not happen
\* (transition() commits both or none).
AuditTrail == \A t \in Tickets : audit[t] = Trail[status[t]]

Granted   == {"approved", "apply_failed", "active", "revoking", "revoke_pending", "closed"}
Activated == {"active", "revoking", "revoke_pending", "closed"}

\* A ticket past its decision has an approver other than its requester, and
\* none before; an activated one has its agent and its expiry.
DecisionOnRecord ==
    \A t \in Tickets :
        /\ status[t] \in Granted <=> approver[t] # NoUser
        /\ approver[t] # NoUser => requester[t] \notin {NoUser, approver[t]}
        /\ status[t] \in Activated => binding[t] = AgentOf[t] /\ expires[t] >= Duration

ApplyLabels  == {"apply", "apply.call", "apply.set", "apply.commit", "apply.fail"}
RevokeLabels == {"revoke.close", "revoke.call", "revoke.clear", "revoke.commit",
                 "revoke.fail"}

\* However many requests and passes run, a ticket is being applied or revoked
\* by at most one of them, and the row says so until that one is done: the
\* ErrConflict of the later transactions of Apply and Revoke never happens.
Ownership ==
    /\ \A p \in Procs :
        /\ pc[p] \in ApplyLabels => cur[p] \in Tickets /\ status[cur[p]] = "approved"
        /\ pc[p] \in RevokeLabels => cur[p] \in Tickets /\ status[cur[p]] = "revoking"
    /\ \A p, q \in Procs :
        /\ p # q
        /\ pc[p] \in ApplyLabels \cup RevokeLabels
        /\ pc[q] \in ApplyLabels \cup RevokeLabels
        => cur[p] # cur[q]

\* No Agent holds a rule, and the map no address, of a ticket not granted.
RuleNeedsGrant ==
    \A t \in Tickets :
        listener[t] # NoAddr \/ forwards[t] # NoAddr => status[t] \in Granted

\* A rule's timer never outlasts the window the ticket was activated for, even
\* when the rule was re-issued later, by another process, to a fresh Agent.
RuleWithinWindow ==
    \A t \in Tickets :
        timer[t] # 0 /\ expires[t] # 0 => listener[t] # NoAddr /\ timer[t] = expires[t]

\* An open rule closes by itself, whatever became of its ticket, also of one whose
\* Apply never got to its last transaction.  Only a rule whose command came to
\* the Agent after the window has no timer: one re-issued too late, or one of
\* an Apply that had given up.
OpenRuleIsTimed ==
    \A t \in Tickets :
        listener[t] # NoAddr =>
            \/ timer[t] # 0 /\ (expires[t] = 0 => timer[t] <= now + Duration)
            \/ expires[t] # 0 /\ expires[t] <= now
            \/ "late_apply" \in cause[t]

\* What an Agent has open of a ticket is open for the ticket's window: never for
\* longer, and never without a timer, but for a command that came too late.
WindowIsKept == RuleWithinWindow /\ OpenRuleIsTimed

\* The rule of a closed ticket is gone from the Agent, unless a rebuild that
\* had listed the ticket before re-issued it, or Revoke could not read the
\* binding.
ClosedIsUnreachable ==
    \A t \in Tickets :
        /\ status[t] = "closed"
        /\ cause[t] \cap {"stale_reapply", "unread_binding"} = {}
        => listener[t] = NoAddr

\* A live ticket whose cached address is not where its rule listens is about
\* to be repaired by a reconnect, unless the address was stored after its
\* listener died or the reconnect passed over the ticket.
StaleAddressIsRepaired ==
    \A t \in Tickets :
        /\ t \in ListActiveTickets
        /\ forwards[t] \notin {NoAddr, listener[t]}
        /\ cause[t] \cap {"late_store", "missed_reconnect"} = {}
        => \/ binding[t] \notin connected
           \/ \E w \in Watchers :
                /\ peer[w] = binding[t]
                /\ pc[w] = "recon" \/ (pc[w] = "clear" /\ t \in todo[w])

-----------------------------------------------------------------------------
(* Steps, and implementation of the promise *)

\* What was decided is never rewritten: approver, agent and expiry stay.
DecisionIsFrozen ==
    [][\A t \in Tickets :
        /\ approver[t] # NoUser => approver'[t] = approver[t]
        /\ binding[t] # NoAgent => binding'[t] = binding[t]
        /\ expires[t] # 0 => expires'[t] = expires[t]]_vars

\* A ticket is decided by somebody else than who asked for it, and once.
DecisionStands == []DecisionOnRecord /\ DecisionIsFrozen

Lifecycle == INSTANCE TicketLifecycle WITH
    log <- audit,
    reachable <- {t \in Tickets : listener[t] # NoAddr}

\* The engine keeps the promise of TicketLifecycle.
ImplementsLifecycle == Lifecycle!Spec

-----------------------------------------------------------------------------
(* Liveness *)

\* ExpireDue gets to every ticket that outlives its window.
ExpiredIsRevoked ==
    \A t \in Tickets : t \in ListExpiredActiveTickets ~> status[t] # "active"

\* After a restart or a reconnect the map is filled again (docs/10), as long
\* as the agent is not rejected (a rejected one does not connect again) and the
\* Control of a stream it had before does not take its entry in conns.
ForwardIsRebuilt ==
    \A t \in Tickets :
        t \in ListActiveTickets /\ forwards[t] = NoAddr
            ~> \/ t \notin ListActiveTickets
               \/ forwards[t] # NoAddr
               \/ binding[t] \notin enrolled
               \/ binding[t] \in robbed

=============================================================================
