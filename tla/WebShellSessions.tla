--------------------------- MODULE WebShellSessions ---------------------------
(***************************************************************************)
(* server/internal/webshell: the manager's session table, the sessions and *)
(* the terminal handlers (httpapi/webshell.go) attached to them.           *)
(*                                                                         *)
(* Goroutines: one handler and one writer per WebSocket (its stdout pump   *)
(* to the client), one pumpStdout per session, one Revoke per ticket at    *)
(* most (PolicyEngine, Ownership).  A step is what runs under one hold of  *)
(* a mutex, or between two calls that can wait.  Close runs inside a       *)
(* sync.Once: whoever calls it second waits until the first is through.    *)
(***************************************************************************)
EXTENDS Naturals, FiniteSets, SequencesExt

CONSTANTS
    Tickets,
    Conns,      \* WebSocket connections, each used once
    Sessions,   \* Session objects and their rows, each used once (bound)
    NoTicket, NoSession,
    Cap         \* capacity of a subscriber's channel (1024 in the code)

ASSUME ConstantsAssumption ==
    /\ IsFiniteSet(Conns)
    /\ NoTicket \notin Tickets
    /\ NoSession \notin Sessions
    /\ Cap \in Nat \ {0}

VARIABLES
    ticket,     \* how far the revoke of a ticket is, see TypeOK
    target,     \* target[t]: the session ForceCloseByTicket found
    sessions,   \* Manager.sessions
    owner,      \* owner[s]: Session.TicketID
    row,        \* status of the row of s, "none" before CreateSession
    once,       \* how far the life of s is, see TypeOK
    ssh,        \* sessions whose SSH connection is up
    pump,       \* what pumpStdout of s is doing
    queue,      \* queue[s]: the subscribers its broadcast still has to serve
    pc, want, at,   \* a handler's position, ticket and session
    writer,     \* what the writer of a connection is doing
    chan,       \* chan[c]: chunks waiting in the channel of c
    early,      \* sessions registered before their ticket's revoke looked
    beside,     \* sessions that overlapped with another one of their ticket
    unsaved,    \* sessions whose last update of the row failed
    panicked, crashed

engine == <<ticket, target>>
life   == <<owner, row, once, ssh>>
conns  == <<pc, want, at, writer, chan>>
pumps  == <<pump, queue>>
history == <<early, beside, unsaved, panicked, crashed>>
vars   == <<engine, sessions, life, conns, pumps, history>>

TypeOK ==
    \* claimed; looked up and closing; ForceCloseByTicket returned; cut off
    /\ ticket \in [Tickets -> {"active", "revoking", "closing", "revoked", "stuck"}]
    /\ target \in [Tickets -> Sessions \cup {NoSession}]
    /\ sessions \in [Tickets -> Sessions \cup {NoSession}]
    /\ owner \in [Sessions -> Tickets \cup {NoTicket}]
    /\ row \in [Sessions -> {"none", "allocated", "running", "closed"}]
    \* dialled; registered; closedCh closed; out of the table; Close returned;
    \* given up, or gone with the process
    /\ once \in [Sessions -> {"unused", "fresh", "open", "torn", "unlisted", "done", "dead"}]
    /\ ssh \in SUBSET Sessions
    /\ pump \in [Sessions -> {"off", "read", "send", "close"}]
    /\ queue \in [Sessions -> Seq(Conns)]
    /\ pc \in [Conns -> {"idle", "accepted", "dial", "made", "saved", "attach", "open",
                      "leave", "gone"}]
    /\ want \in [Conns -> Tickets \cup {NoTicket}]
    /\ at \in [Conns -> Sessions \cup {NoSession}]
    /\ writer \in [Conns -> {"off", "wait", "send"}]
    /\ chan \in [Conns -> 0..Cap]
    /\ early \in SUBSET Sessions
    /\ beside \in SUBSET Sessions
    /\ unsaved \in SUBSET Sessions
    /\ panicked \in BOOLEAN
    /\ crashed \in BOOLEAN

\* Session.subs: those who subscribed and have not unsubscribed.
Subs(s) == {c \in Conns : pc[c] \in {"open", "leave"} /\ at[c] = s}

\* Sessions of t that are registered, or being closed, and not deregistered.
Unfinished(t) == {s \in Sessions : once[s] \in {"open", "torn"} /\ owner[s] = t}

\* Session.closedCh is closed.
Closed(s) == once[s] \in {"torn", "unlisted", "done"}

Go(c, from, to) == pc[c] = from /\ pc' = [pc EXCEPT ![c] = to]

\* The statements that change the row of a session.
CreateSession(s) == row' = [row EXCEPT ![s] = "allocated"]
SetSessionRunning(s) == row' = [row EXCEPT ![s] = "running"]
CloseSession(s) == row' = [row EXCEPT ![s] = "closed"]

-----------------------------------------------------------------------------
(* Mutants: bugs these steps could plausibly have, for the properties to find *)

\* The entry goes before the connection.
CloseTearLate(s) ==
    /\ once[s] = "open"
    /\ pump[s] = "close" \/ \E t \in Tickets : ticket[t] = "closing" /\ target[t] = s
    /\ IF sessions[owner[s]] = s
       THEN sessions' = [sessions EXCEPT ![owner[s]] = NoSession] /\ UNCHANGED <<once, ssh>>
       ELSE /\ once' = [once EXCEPT ![s] = "torn"]
            /\ ssh' = ssh \ {s}
            /\ UNCHANGED sessions
    /\ UNCHANGED <<engine, owner, row, conns, pumps, history>>

\* Only the connection is closed when somebody is attached.
ForceLookupGentle(t) ==
    LET s == sessions[t]
        idle == s = NoSession \/ Subs(s) # {}
    IN
    /\ ticket[t] = "revoking"
    /\ ticket' = [ticket EXCEPT ![t] = IF idle THEN "revoked" ELSE "closing"]
    /\ target' = [target EXCEPT ![t] = s]
    /\ UNCHANGED <<sessions, life, conns, pumps, history>>

\* The last update of the row is lost.
CloseRowLost(s) ==
    /\ once[s] = "unlisted"
    /\ once' = [once EXCEPT ![s] = "done"]
    /\ UNCHANGED <<engine, sessions, owner, row, ssh, conns, pumps, history>>

\* Close waits for the pump, which waits for Close.
CloseRowJoin(s) ==
    /\ once[s] = "unlisted"
    /\ pump[s] = "off"
    /\ once' = [once EXCEPT ![s] = "done"]
    /\ CloseSession(s)
    /\ UNCHANGED <<engine, sessions, owner, ssh, conns, pumps, history>>

\* The select of broadcast has no closedCh.
PumpAbortNever(s) ==
    /\ pump[s] = "send"
    /\ queue[s] = <<>>
    /\ UNCHANGED vars

\* The writer looks at its channel only.
WriterEndsDeaf(c) ==
    /\ writer[c] # "off" /\ pc[c] = "gone"
    /\ writer' = [writer EXCEPT ![c] = "off"]
    /\ UNCHANGED <<engine, sessions, life, pc, want, at, chan, pumps, history>>

\* The pump returns without Close.
PumpFailsSilently(s) ==
    /\ pump[s] = "read"
    /\ s \notin ssh
    /\ pump' = [pump EXCEPT ![s] = "off"]
    /\ UNCHANGED <<engine, sessions, life, conns, queue, history>>

-----------------------------------------------------------------------------

Init ==
    /\ ticket = [t \in Tickets |-> "active"]
    /\ target = [t \in Tickets |-> NoSession]
    /\ sessions = [t \in Tickets |-> NoSession]
    /\ owner = [s \in Sessions |-> NoTicket]
    /\ row = [s \in Sessions |-> "none"]
    /\ once = [s \in Sessions |-> "unused"]
    /\ ssh = {}
    /\ pump = [s \in Sessions |-> "off"]
    /\ queue = [s \in Sessions |-> <<>>]
    /\ pc = [c \in Conns |-> "idle"]
    /\ want = [c \in Conns |-> NoTicket]
    /\ at = [c \in Conns |-> NoSession]
    /\ writer = [c \in Conns |-> "off"]
    /\ chan = [c \in Conns |-> 0]
    /\ early = {}
    /\ beside = {}
    /\ unsaved = {}
    /\ panicked = FALSE
    /\ crashed = FALSE

-----------------------------------------------------------------------------
(* The terminal handler and OpenForTicket *)

\* The handler reads the ticket row, then accepts the WebSocket.
OpenCheck(c, t) ==
    /\ Go(c, "idle", "accepted")
    /\ ticket[t] = "active"
    /\ want' = [want EXCEPT ![c] = t]
    /\ UNCHANGED <<engine, sessions, life, at, writer, chan, pumps, history>>

OpenLookup(c) ==
    LET s == sessions[want[c]] IN
    /\ Go(c, "accepted", IF s = NoSession THEN "dial" ELSE "attach")
    /\ at' = [at EXCEPT ![c] = s]
    /\ UNCHANGED <<engine, sessions, life, want, writer, chan, pumps, history>>

\* Connected to the asset, shell started, row inserted.
OpenDial(c, s) ==
    /\ Go(c, "dial", "made")
    /\ once[s] = "unused"
    /\ once' = [once EXCEPT ![s] = "fresh"]
    /\ owner' = [owner EXCEPT ![s] = want[c]]
    /\ CreateSession(s)
    /\ ssh' = ssh \cup {s}
    /\ at' = [at EXCEPT ![c] = s]
    /\ UNCHANGED <<engine, sessions, want, writer, chan, pumps, history>>

\* Anything before the row fails.
OpenFail(c) ==
    /\ Go(c, "dial", "gone")
    /\ UNCHANGED <<engine, sessions, life, want, at, writer, chan, pumps, history>>

\* The recording cannot be created: the row stays behind.
OpenAbandon(c) ==
    LET s == at[c] IN
    /\ Go(c, "made", "gone")
    /\ once' = [once EXCEPT ![s] = "dead"]
    /\ ssh' = ssh \ {s}
    /\ UNCHANGED <<engine, sessions, owner, row, want, at, writer, chan, pumps, history>>

\* The row says running, unless that update fails.
OpenSave(c) ==
    /\ Go(c, "made", "saved")
    /\ SetSessionRunning(at[c]) \/ UNCHANGED row
    /\ UNCHANGED <<engine, sessions, owner, once, ssh, want, at, writer, chan, pumps, history>>

\* The session is registered, over whatever the table holds by now, and its
\* pump starts.
OpenInsert(c) ==
    LET s == at[c]
        t == want[c]
        others == Unfinished(t)
    IN
    /\ Go(c, "saved", "attach")
    /\ sessions' = [sessions EXCEPT ![t] = s]
    /\ once' = [once EXCEPT ![s] = "open"]
    /\ pump' = [pump EXCEPT ![s] = "read"]
    /\ early' = IF ticket[t] \in {"active", "revoking"} THEN early \cup {s} ELSE early
    /\ beside' = IF others = {} THEN beside ELSE beside \cup others \cup {s}
    /\ UNCHANGED <<engine, owner, row, ssh, want, at, writer, chan, queue,
                   unsaved, panicked, crashed>>

Subscribe(c) ==
    /\ Go(c, "attach", "open")
    /\ writer' = [writer EXCEPT ![c] = "wait"]
    /\ UNCHANGED <<engine, sessions, life, want, at, chan, pumps, history>>

\* The client goes away, or its connection breaks.
ClientLeaves(c) ==
    /\ Go(c, "open", "leave")
    /\ UNCHANGED <<engine, sessions, life, want, at, writer, chan, pumps, history>>

\* The writer has closed the WebSocket: the read loop ends.
ReadEnds(c) ==
    /\ Go(c, "open", "leave")
    /\ writer[c] = "off"
    /\ UNCHANGED <<engine, sessions, life, want, at, writer, chan, pumps, history>>

\* The deferred unsub: out of Session.subs, and the channel is closed.
Unsubscribe(c) ==
    /\ Go(c, "leave", "gone")
    /\ UNCHANGED <<engine, sessions, life, want, at, writer, chan, pumps, history>>

-----------------------------------------------------------------------------
(* The writer of a connection *)

WriterTake(c) ==
    /\ writer[c] = "wait"
    /\ chan[c] > 0
    /\ chan' = [chan EXCEPT ![c] = @ - 1]
    /\ writer' = [writer EXCEPT ![c] = "send"]
    /\ UNCHANGED <<engine, sessions, life, pc, want, at, pumps, history>>

\* The client took the frame; until it does, the writer waits.
WriterSent(c) ==
    /\ writer[c] = "send"
    /\ writer' = [writer EXCEPT ![c] = "wait"]
    /\ UNCHANGED <<engine, sessions, life, pc, want, at, chan, pumps, history>>

\* The session has ended (the client is told, the WebSocket closed), or the
\* handler has (context cancelled, channel closed).
WriterEnds(c) ==
    /\ \/ writer[c] = "wait" /\ Closed(at[c])
       \/ writer[c] # "off" /\ pc[c] = "gone"
    /\ writer' = [writer EXCEPT ![c] = "off"]
    /\ UNCHANGED <<engine, sessions, life, pc, want, at, chan, pumps, history>>

-----------------------------------------------------------------------------
(* The process: what dies with it *)

\* Memory and connections are gone, rows are not; a revoke is cut off.
Down ==
    /\ ticket' = [t \in Tickets |->
                     IF ticket[t] \in {"revoking", "closing"} THEN "stuck" ELSE ticket[t]]
    /\ sessions' = [t \in Tickets |-> NoSession]
    /\ once' = [s \in Sessions |-> IF once[s] = "unused" THEN "unused" ELSE "dead"]
    /\ ssh' = {}
    /\ pump' = [s \in Sessions |-> "off"]
    /\ queue' = [s \in Sessions |-> <<>>]
    /\ pc' = [c \in Conns |-> IF pc[c] = "idle" THEN "idle" ELSE "gone"]
    /\ writer' = [c \in Conns |-> "off"]
    /\ chan' = [c \in Conns |-> 0]
    /\ UNCHANGED <<target, owner, row, want, at, early, beside, unsaved>>

\* Bound: one crash.
Crash ==
    /\ ~crashed
    /\ crashed' = TRUE
    /\ Down
    /\ UNCHANGED panicked

-----------------------------------------------------------------------------
(* pumpStdout and broadcast *)

\* A chunk of output: broadcast copies the subscribers, in any order.
PumpRead(s) ==
    /\ pump[s] = "read"
    /\ s \in ssh
    /\ Subs(s) # {}
    /\ \E order \in SetToSeqs(Subs(s)) : queue' = [queue EXCEPT ![s] = order]
    /\ pump' = [pump EXCEPT ![s] = "send"]
    /\ UNCHANGED <<engine, sessions, life, conns, history>>

\* The next channel has room.
PumpSend(s) ==
    LET c == Head(queue[s]) IN
    /\ pump[s] = "send"
    /\ pc[c] # "gone"
    /\ chan[c] < Cap
    /\ chan' = [chan EXCEPT ![c] = @ + 1]
    /\ queue' = [queue EXCEPT ![s] = Tail(@)]
    /\ pump' = [pump EXCEPT ![s] = IF Len(queue[s]) = 1 THEN "read" ELSE "send"]
    /\ UNCHANGED <<engine, sessions, life, pc, want, at, writer, history>>

\* The next channel was closed since the copy was made: the send panics.
PumpPanic(s) ==
    /\ pump[s] = "send"
    /\ pc[Head(queue[s])] = "gone"
    /\ panicked' = TRUE
    /\ Down
    /\ UNCHANGED crashed

\* The other case of the select: closedCh.
PumpAbort(s) ==
    /\ pump[s] = "send"
    /\ Closed(s)
    /\ queue' = [queue EXCEPT ![s] = <<>>]
    /\ pump' = [pump EXCEPT ![s] = "read"]
    /\ UNCHANGED <<engine, sessions, life, conns, history>>

\* Reading fails because the connection is down: the pump calls Close.
PumpFails(s) ==
    /\ pump[s] = "read"
    /\ s \notin ssh
    /\ pump' = [pump EXCEPT ![s] = "close"]
    /\ UNCHANGED <<engine, sessions, life, conns, queue, history>>

\* Close returned, whoever ran it.
PumpEnds(s) ==
    /\ pump[s] = "close"
    /\ once[s] = "done"
    /\ pump' = [pump EXCEPT ![s] = "off"]
    /\ UNCHANGED <<engine, sessions, life, conns, queue, history>>

\* The asset ends the shell, or the connection to it breaks.
RemoteEnds(s) ==
    /\ s \in ssh
    /\ ssh' = ssh \ {s}
    /\ UNCHANGED <<engine, sessions, owner, row, once, conns, pumps, history>>

-----------------------------------------------------------------------------
(* Session.Close, called by the pump or by ForceCloseByTicket *)

\* closeOnce is free: connections and recording are closed, closedCh too.
CloseTear(s) ==
    /\ once[s] = "open"
    /\ pump[s] = "close" \/ \E t \in Tickets : ticket[t] = "closing" /\ target[t] = s
    /\ once' = [once EXCEPT ![s] = "torn"]
    /\ ssh' = ssh \ {s}
    /\ UNCHANGED <<engine, sessions, owner, row, conns, pumps, history>>

\* onClose deletes the table's entry of the ticket, whosever it is.
CloseUnlist(s) ==
    /\ once[s] = "torn"
    /\ once' = [once EXCEPT ![s] = "unlisted"]
    /\ sessions' = [sessions EXCEPT ![owner[s]] = NoSession]
    /\ UNCHANGED <<engine, owner, row, ssh, conns, pumps, history>>

\* The row is closed, or that update fails: nobody looks.
CloseRow(s) ==
    /\ once[s] = "unlisted"
    /\ once' = [once EXCEPT ![s] = "done"]
    /\ \/ CloseSession(s) /\ UNCHANGED unsaved
       \/ unsaved' = unsaved \cup {s} /\ UNCHANGED row
    /\ UNCHANGED <<engine, sessions, owner, ssh, conns, pumps, early, beside, panicked, crashed>>

-----------------------------------------------------------------------------
(* Revoke, as far as its sessions *)

RevokeClaim(t) ==
    /\ ticket[t] = "active"
    /\ ticket' = [ticket EXCEPT ![t] = "revoking"]
    /\ UNCHANGED <<target, sessions, life, conns, pumps, history>>

ForceLookup(t) ==
    LET s == sessions[t] IN
    /\ ticket[t] = "revoking"
    /\ ticket' = [ticket EXCEPT ![t] = IF s = NoSession THEN "revoked" ELSE "closing"]
    /\ target' = [target EXCEPT ![t] = s]
    /\ UNCHANGED <<sessions, life, conns, pumps, history>>

ForceDone(t) ==
    /\ ticket[t] = "closing"
    /\ once[target[t]] = "done"
    /\ ticket' = [ticket EXCEPT ![t] = "revoked"]
    /\ UNCHANGED <<target, sessions, life, conns, pumps, history>>

-----------------------------------------------------------------------------
(* The specification *)

HandlerStep(c) ==
    \/ OpenLookup(c) \/ OpenFail(c) \/ OpenAbandon(c) \/ OpenSave(c) \/ OpenInsert(c)
    \/ Subscribe(c) \/ ReadEnds(c) \/ Unsubscribe(c)
    \/ \E s \in Sessions : OpenDial(c, s)

WriterStep(c) == WriterTake(c) \/ WriterEnds(c)

PumpStep(s) ==
    PumpSend(s) \/ PumpPanic(s) \/ PumpAbort(s) \/ PumpFails(s) \/ PumpEnds(s)

CloseStep(s) == CloseTear(s) \/ CloseUnlist(s) \/ CloseRow(s)

ForceStep(t) == ForceLookup(t) \/ ForceDone(t)

Next ==
    \/ \E c \in Conns :
        \/ \E t \in Tickets : OpenCheck(c, t)
        \/ HandlerStep(c) \/ ClientLeaves(c)
        \/ WriterStep(c) \/ WriterSent(c)
    \/ \E s \in Sessions : PumpRead(s) \/ PumpStep(s) \/ RemoteEnds(s) \/ CloseStep(s)
    \/ \E t \in Tickets : RevokeClaim(t) \/ ForceStep(t)
    \/ Crash

Spec == Init /\ [][Next]_vars

\* Goroutines that can run do.  Clients and assets owe nothing: a client may
\* stop reading for ever.
Fairness ==
    /\ \A c \in Conns : WF_vars(HandlerStep(c)) /\ WF_vars(WriterStep(c))
    /\ \A s \in Sessions : WF_vars(PumpStep(s)) /\ WF_vars(CloseStep(s))
    /\ \A t \in Tickets : WF_vars(ForceStep(t))

FairSpec == Spec /\ Fairness

\* Clients that read, or whose connection breaks: no frame waits for ever.  An
\* assumption of two of the properties, and none of FairSpec.
ClientsRead == \A c \in Conns : []<>(writer[c] # "send")

-----------------------------------------------------------------------------
(* Safety *)

\* What the table holds for a ticket is a session of that ticket, and one whose
\* Close has not come to taking it out: OpenForTicket and ForceCloseByTicket
\* never act on a session of the past.
TableIsLive ==
    \A t \in Tickets :
        sessions[t] # NoSession =>
            owner[sessions[t]] = t /\ once[sessions[t]] \in {"open", "torn"}

\* ForceCloseByTicket has shut every session registered before it looked, but
\* for one that had overlapped with a second session of the ticket: the table
\* holds one, and either may be the one it lost.
ForceCloseIsThorough ==
    \A s \in early :
        once[s] = "open" /\ ticket[owner[s]] = "revoked" => s \in beside

\* A row says closed only of a session that is, and running only of one that is
\* not, unless the process died or the last update of the row failed.
RowsAreTrue ==
    \A s \in Sessions :
        /\ row[s] = "closed" /\ once[s] # "dead" => once[s] = "done"
        /\ row[s] = "running" =>
            \/ once[s] \in {"fresh", "open", "torn", "unlisted"}
            \/ s \in unsaved
            \/ panicked \/ crashed

\* What RevokeReturns and EndedIsUnlisted rest on: a session that nobody has begun
\* to close has a pump that will notice its end, and whoever calls Close, the pump
\* or a revoke, calls one that can begin, is under way or is over.
CloseCanGoOn ==
    LET closable == {s \in Sessions : once[s] = "open" \/ Closed(s)} IN
    /\ \A s \in Sessions : once[s] = "open" => pump[s] # "off"
    /\ \A s \in Sessions : pump[s] # "off" => s \in closable
    /\ \A t \in Tickets : ticket[t] = "closing" => target[t] \in closable

\* What the table holds is alive, and whoever has to take it out can.
TableIsKept == TableIsLive /\ CloseCanGoOn

-----------------------------------------------------------------------------
(* Implementation of the promise *)

\* A revoke has swept when Close of the session it found has begun.
Revoke ==
    [t \in Tickets |->
        IF ticket[t] = "closing"
        THEN IF Closed(target[t]) THEN "swept" ELSE "revoking"
        ELSE ticket[t]]

\* A terminal that has seen the ticket active and has no session yet.
Admitted ==
    [c \in Conns |->
        IF pc[c] \in {"accepted", "dial", "made", "saved"} THEN want[c] ELSE NoTicket]

\* The shells themselves, whether the table holds them or not.
Live == [t \in Tickets |-> {s \in Sessions : once[s] = "open" /\ owner[s] = t}]
Ending == [t \in Tickets |-> {s \in Sessions : once[s] = "torn" /\ owner[s] = t}]

Shells == INSTANCE ShellTable WITH
    Shells <- Sessions,
    revoke <- Revoke,
    live <- Live,
    ending <- Ending,
    admitted <- Admitted

\* Handlers, pumps, Close and the revokes keep the promise of ShellTable, which
\* PolicyEngine takes for one step: a ticket has shells only of terminals that saw
\* it active, and a revoke returns only after a moment when every shell of the
\* ticket that still lived, in the table or hidden from it, had lived beside
\* another one.
ImplementsShellTable == Shells!Spec

-----------------------------------------------------------------------------
(* Liveness *)

\* Revoke is never held up by its sessions: ForceCloseByTicket returns, even
\* when clients stopped reading and somebody else is closing the session.
RevokeReturns ==
    \A t \in Tickets :
        ticket[t] = "revoking" ~> ticket[t] \in {"revoked", "stuck"}

\* A pump blocked on a full channel is freed by the end of its session.
PumpIsFreed ==
    \A s \in Sessions : Closed(s) ~> pump[s] = "off"

\* Everybody attached to a session that ended is told and let go, if clients
\* read what they are sent.
AttachedAreTold ==
    ClientsRead =>
        \A c \in Conns : pc[c] = "open" /\ Closed(at[c]) ~> pc[c] = "gone"

\* A session whose connection broke leaves the table, so that the ticket can be
\* opened again, if clients read what they are sent.
EndedIsUnlisted ==
    ClientsRead =>
        \A s \in Sessions :
            once[s] = "open" /\ s \notin ssh
                ~> \A t \in Tickets : sessions[t] # s

\* A session that ended leaves nothing behind: no pump, and no entry.
EndedIsCleared == PumpIsFreed /\ EndedIsUnlisted

-----------------------------------------------------------------------------
(* What the documents and comments say, and the code does not do *)

\* docs/05: once a revoke force-closed the sessions, access is cut.
RevokedHasNoShell ==
    \A s \in ssh : once[s] = "open" => ticket[owner[s]] # "revoked"

\* docs/09: attaching and detaching leaves the SSH connection alone.
DetachIsHarmless == ~panicked

=============================================================================
