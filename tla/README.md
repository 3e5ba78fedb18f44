# YuSui in TLA+

YuSui gives operators access to assets behind project Agents, one approved
ticket at a time. A ticket is submitted, approved by somebody else, applied (a
rule opens a listener on the project's Agent), used through a web shell, and
revoked by hand or by the scheduler when it expires. This directory holds TLA+
models of that machinery, TLC configurations that check them on small
instances, and proofs checked by TLAPS.

## 1. The system

| Part (code) | State | Operations | Talks to |
|---|---|---|---|
| Policy Engine (`server/internal/policy/engine.go`) | rows of `tickets`, `policy_bindings`, `audit_log`; in memory the map `forwards` (ticket → listen address) | Submit, Approve+Apply, Reject, Revoke; scheduler: ExpireDue, RebuildForwards; OnAgentReconnect | gateway (calls), web shell manager (ForceCloseByTicket), called by HTTP handlers and the controller |
| Gateway and Agent controller (`agentgw`, `agentctl`) | `conns` (agent → stream), `tokens`, per stream pending acks | Register, Control (receive loop, send pump), ApplyRule, RevokeRule, Reconcile | Agents over gRPC; starts OnAgentReconnect |
| Agent client (`agent/internal/control`) | one stream | Register until approved, receive commands, ack, reconnect after 3 s | forwarder |
| Agent forwarder (`agent/internal/forward`) | `rules` (rule id → listener, TTL timer) | Apply, Revoke, timer callback | assets |
| Web shell (`webshell/manager.go`, `session.go`) | `sessions` (ticket → session), subscribers of a session | OpenForTicket, ForceCloseByTicket, Close, Subscribe, broadcast | engine (ResolveForward), Agent forwarder |
| Terminal handler and command filter (`httpapi/webshell.go`, `webshell/filter.go`) | typed line, the one pending confirmation | stdin gate, confirm_token, 10 s timeout | session |
| Catalog (`services/catalog.go`) | `agents.enrollment`, projects, assets, credentials | ApproveAgent, RejectAgent, create and list | database |
| Authentication (`auth`, `httpapi/auth.go`, `router.go`) | role, failure count and lock of a user; tokens that clients hold | Login, Refresh, StepUp, and the role and step-up checks in front of each handler | database |
| nft enforcer (`agent/internal/nft`) | `rules` (rule id → set elements); the kernel's set, whose elements time out by themselves | Setup, Apply, Revoke | kernel; takes the forwarder's place under the Agent client |
| NetBird adapter (`netbird`) | external | find-or-create of groups, policies, keys | NetBird HTTP API |
| overlay, secrets, config, store, wiring, web UI, proto | – | – | – |

What is hard here: three kinds of goroutine (requests, the scheduler, one per
reconnect) run the engine without a common lock; every gateway call sits between
two transactions and can fail after it took effect; the forward map and the
control streams die with the server, listeners and timers die with the Agent,
and the rows survive both; rows are listed once and acted on one by one later; a
command whose caller gave up may still be under way, and the end of a stream may be
noticed after the next one has begun. A ticket names assets, and who looks them up, when and in which order differs between
approval, rule, listener and web shell. Tokens carry roles and proofs that the rows
behind them may have outgrown.

Correctness, per part:

- *engine*: one owner per ticket; the audit log tells how the status came about;
  no rule without a grant; no rule beyond its window; nothing of a closed ticket
  is reachable; the cached address is the live one or about to be repaired;
  overdue tickets are revoked.
- *controller*: a connected Agent has an entry in `conns`; an ack reaches the call
  that waits for it and no other; no call waits for ever.
- *forwarder*: at most one listener per rule, every listener in the table, a timer
  never removes a rule it was not armed for.
- *web shell*: at most one session per ticket, and none for a ticket that is no
  longer active; no send on a closed channel; one slow reader does not stop others.
- *terminal*: the copy of the line the filter matches is the line that will run; what
  runs was matched; a question is answered once, by its own token or its own timeout.
  The code keeps the first two for a single client only, as long as the copy can follow
  its keys, and but for what a confirmation runs (section 3).
- *enrolment*: no stream without an approval; one row per host, one host per role; an
  approved Agent gets in.
- *accounts*: however logins overlap, the number of passwords that can be tried is
  bounded; what was let through had the role and a fresh proof of the password; a
  retired account is out soon.
- *targets*: an Agent lets through what was frozen at approval and nothing else, and a
  session is on the asset its row names. That tickets for one asset are independent
  (docs/05-policy-engine.md:207) the kernel enforcer does not keep (section 3).

PROJECT.json lists the hazards line by line, with the properties that watch them
and, where none does, the reason.

## 2. Modules

| Module | What it is |
|---|---|
| `TicketLifecycle` | abstract: what the audit log, the deciders and the set of reachable tickets promise together, without engine, map, goroutines or clock |
| `GatewayCalls` | abstract: what becomes of a call of the gateway and of the commands it sends, without streams, queues and acks |
| `RuleTable` | abstract: what a rule of the Agent is, when it opens, and what an answered revoke leaves, without table, timers and goroutines |
| `ShellTable` | abstract: whose shells a ticket has, listed or not, and what a revoke that returned leaves, without table, pumps and Close |
| `PolicyEngine` | the engine, the goroutines that run it, and what it needs of Agents, controller, web shells, crashes and time |
| `WebShellSessions` | the session table, sessions, terminal handlers and the revoke that force-closes them |
| `ControlStream` | one Agent's streams, the table of connections, and the roundtrips of the engine's calls |
| `Forwarder` | the Agent's listeners, their timers and the connections they relay |
| `CommandGate` | the read loops of a terminal, their copies of the line, questions and timers, and the shell they write to |
| `AgentEnrollment` | the daemons of one project that register, the rows and tokens they get, and the admin |
| `Accounts` | users, their logins and tokens, and the requests that ask for a role and a step-up |
| `TicketTargets` | the catalog, the assets a ticket names, and what gateway, enforcers and web shells make of several of them |
| `MCPolicyEngine`, `MCWebShellSessions`, `MCForwarder`, `MCControlStream`, `MCCommandGate`, `MCAgentEnrollment`, `MCAccounts`, `MCTicketTargets` | constants, symmetry and constraints for TLC |
| `PolicyEngineProofs`, `ControlStreamProofs`, `WebShellSessionsProofs`, `ForwarderProofs`, `CommandGateProofs`, `AgentEnrollmentProofs`, `AccountsProofs`, `TicketTargetsProofs` | theorems (section 4) |

The modules meet at their edges. `PolicyEngine` takes a gateway call that succeeds as
one step, and one that fails as lost or as a command that is still under way;
`ControlStream` opens that up and shows why it may. What it promises is `GatewayCalls`,
which it implements: every command is sent once and takes effect at most once, in the
order of sending, and a call gets on only by commands that took effect. So a command
whose caller gave up is handled later, before any that is sent after it, or never
(`LateHandled`, `DropLate`), and an answer to a call says that nothing sent earlier is
left (`Answered`). `Forwarder` opens up what
`ControlStream` calls handling a command. What it promises is `RuleTable`, which it
implements: a rule opens for an apply and nothing else, closes for a revoke of its own
or after its window, an apply is answered well only if its rule is served, and once a
revoke is answered no socket is open for the rule, but what its timer is closing already. `PolicyEngine` has an Agent of this kind, with the
last moments of a timer left out.
`WebShellSessions` opens up what `PolicyEngine` calls a ticket's shell, and takes
from it that a ticket has one revoke (`Ownership`, proved). What it promises is
`ShellTable`, which it implements: a ticket gets a shell only from a terminal that saw
it active, one from each, and a revoke returns only after a moment at which every shell
of the ticket that still lived had lived beside another one. The shells are the live
sessions themselves (`Live`, `Ending`), whether the table holds them or another session
has taken their entry: that a ticket with one shell at a time has none at that moment
is shown of sessions, and what two terminals that open at once can leave is in the
promise by name (`beside`). `PolicyEngine` takes that moment for the whole force-close
(`RevokeCloseShells`), its `webShells` being what the table lists, and lets a terminal
that was admitted before open a shell afterwards (`OpenDone`), as `ShellTable` does. `CommandGate` is what a
client of such a session types. `AgentEnrollment` ends where `ControlStream` begins:
with an approved daemon that opens a stream. `Accounts` says who gets as far as calling
`Approve`, `Revoke` or `ApproveAgent`, which the engine and enrolment modules take from
any user. `PolicyEngine` has one target per ticket and every interleaving;
`TicketTargets` has several targets per ticket, and ApplyRule is one step that may stop
after any command.

### PolicyEngine and the code

One action per stretch of code that runs without being observed: a transaction
(`Transition` = `transition()` with its audit row), a gateway call, an access to
`forwards` under its mutex.

| Code | Actions |
|---|---|
| `Submit`, `Approve`, `Reject` | `Submit`, `Approve` (which goes on with Apply), `Reject` |
| `Apply` | `ApplyRead` or `ApplyAbandon`; `ApplyCall` or `ApplyCallLost`; `ApplySetForward`, `ApplyCommit`; `ApplyFail` |
| `Revoke` | `Revoke` / `RevokeClaim`, `RevokeCloseShells`, `RevokeCall` or `RevokeCallLost` or `RevokeBindingUnread`, `RevokeClearForward`, `RevokeCommit`, `RevokeDefer` |
| `RunScheduler`, `schedulerPass`, `ExpireDue` | `ExpireList`, `ExpireNext`, `ExpireDone`, then the rebuild |
| `RebuildForwards`, `reapply` | `RebuildList`, `RebuildSkip`, `RebuildNext`, `RebuildCall` or `RebuildCallLost`, `RebuildSetForward`, `RebuildDone`; `ListLost` when a list query fails |
| `OnAgentReconnect` | `AgentConnect` starts it; `ReconnectList`, `ReconnectClear`, `ReconnectCleared`, then the rebuild |
| last transaction of Apply or Revoke failing | `FinalTxLost` |
| `Forwarder.Apply`, `Revoke`, TTL timer | `AgentApply`, `AgentRevoke`, `TimerFires` |
| `handleApply` and `Revoke` for a caller that gave up | `LateHandled` |
| `Control`'s deferred delete | `AgentDisconnect`, `AgentRestart` (it may run with them or later), `OldControlReturns` (later) |
| Agent and server processes | `AgentDisconnect`, `AgentRestart`, `Crash`, `SetEnrollment` |
| terminal handler, web shell manager | `OpenCheck`, `OpenDone`, `WebShellEnds` |

Choices worth knowing:

- A goroutine is an element of `Procs` with a position `pc` and the locals of the
  Go function (`cur` ticket, `todo` list, `got` address, `exp` expiry, `peer` agent).
- A gateway call that succeeds is one step, and finds nothing under way (`Answered`).
  One that fails (`GivenUp`) found no stream, lost its command, or left it in `late`:
  the Agent handles such commands in order, as late as it likes, and computes what is
  left of the window then (`LateHandled`), or a new stream drops them.
- `connected` are the Agents with an entry in `conns`, `robbed` those whose stream is up
  while the end of an older one has taken the entry: they do not dial again, every call
  to them fails, and what is under way still comes. `older` counts Controls that have
  yet to notice that their stream is gone.
- A ticket has one target (`buildTargets` with one asset and one port), and its
  project one primary agent row (`AgentOf`), as the UNIQUE(project_id, role)
  constraint has it. Loops take their tickets in any order.
- An address is a value no other open listener has, so a dead address can be told
  from a live one; the `""` of the mock gateway is an address like the others.
- The clock counts units of which a ticket lasts `Duration`. `Tick` never passes
  the expiry of an Apply in flight: a request is cut off after 30 s (router.go) and
  a ticket lasts at least 60 s (`Submit`).
- `cause` is a history variable: which of five irregular steps a ticket went
  through. Properties use it to name exactly the exceptions they allow.
- `ErrConflict` in the later transactions of Apply and Revoke is not an action:
  `Ownership` says it cannot happen.
- The statements of `queries/*.sql` are operators of their own, named as there
  (`SetTicketActive`, `UpsertBinding`, `ListActiveTickets`, ...); so are those of the
  modules below (`CreateSession`, `CreatePendingAgent`, `MarkLoginFailure`, ...).

### WebShellSessions and the code

| Code | Actions |
|---|---|
| `terminal` (webshell.go) | `OpenCheck`, then `OpenForTicket`; `Subscribe`; `ClientLeaves` or `ReadEnds`; `Unsubscribe` |
| `OpenForTicket` | `OpenLookup` (under the lock); `OpenDial` or `OpenFail` (not); `OpenAbandon`; `OpenSave` (the row runs, or its update fails); `OpenInsert` (under the lock again) |
| writer goroutine of `terminal` | `WriterTake`, `WriterSent`, `WriterEnds` |
| `pumpStdout`, `broadcast` | `PumpRead` copies the subscribers; `PumpSend`, `PumpPanic`, `PumpAbort` serve them one by one; `PumpFails`, `PumpEnds` |
| `Close` and the `onClose` it calls | `CloseTear`, `CloseUnlist`, `CloseRow` |
| `Revoke`, `ForceCloseByTicket` | `RevokeClaim`, `ForceLookup`, `ForceDone` |
| the asset, the process | `RemoteEnds`, `Crash` |

- Connections and sessions are used once. `once[s]` is the life of a session:
  fresh (dialled), open (registered), torn (`closedCh` closed), unlisted, done.
  `Close` runs in a `sync.Once`: the second caller waits for "done".
- `ClientLeaves` only makes the handler's read loop end; its deferred functions,
  which close the subscriber's channel, are a step of their own.
- A panic in `pumpStdout` is not recovered: `PumpPanic` ends the process.
- `early` (sessions registered before their ticket's revoke looked), `beside` (those
  that lived while another one of their ticket did), `unsaved`, `panicked`, `crashed`
  are history variables.

### ControlStream and the code

| Code | Actions |
|---|---|
| `Client.Run`, `session` | `AgentDials`, `AgentHandles`, `AgentAnswers`, `AgentLeaves`, `AgentCrash` |
| `Control` | `ControlBegins` (entry in `conns`), `PumpSend`, `Receive`, `ControlEnds` (the deferred delete) |
| `ApplyRule`, `RevokeRule`, `roundtrip` | `CallFails` or `CallBegins`; `CommandSend`, `Answered` (next target or end of the call), `GiveUp` (either timeout, or the context) |

- The Agent leaves one stream before it dials the next; the server's end of a
  lost stream lives on until its `Recv` fails, and may even begin after the next.
- `GiveUp` is possible at any time: timeouts and contexts are not compared.
- `conn.mu` is held while an answer is delivered, so `Receive` is enabled only if
  the channel of that command has room; `ReceiveNeverBlocks` says it always has.
- Left out: heartbeats and the status column (the server never reads it) and
  `Reconcile` (nobody calls it). Registration is in `AgentEnrollment`.

### Forwarder and the code

| Code | Actions |
|---|---|
| `handleApply`, `Forwarder.Apply` | `ApplyBegin` (ttl computed), `ApplyLookup` (locked), `ApplyListen` or `ApplyListenFails` (not locked; timer armed), `ApplyInsert` (locked) |
| `Forwarder.Revoke` | `RevokeBegin` or `TimerFires`, then `RevokeDelete` (locked), `RevokeCancel`, `RevokeClose` (not) |
| `serve`, `pipe` | `Accept`, `AcceptFails`, `Dialled`, `PipeEnds`, `PipeCut` |

- One command loop, because the client handles a stream's commands in turn and
  has one stream; timer callbacks run beside it and beside each other.
- A rule stands for a ticket, whose expiry never changes (`DecisionIsFrozen`,
  proved): a timer fires when the window of its rule ends.
- `deaf` are open listeners whose accept loop has ended with an error: listener, entry
  and timer stay, and a repeated `Apply` answers the address of one (forward.go:57-59).
- A restart of the Agent is its initial state and not an action.
- A command's target is left out: what `Apply` answers depends on the rule id only.

### CommandGate and the code

| Code | Actions |
|---|---|
| read loop of `terminal` (webshell.go) | `Type`, `Backspace`, `ControlKey`, `Reset`, `EnterPasses`, `EnterBlocked`, `EnterAsks` when `raw` is not set; `RawKey` when it is; `Leaves` |
| the question, its `time.AfterFunc` | `TimerArmed` (the send is over), `TimerFires` (under `pendMu`), `TimeoutKills` (not) |
| `confirm_token` | `Confirm`, with any token the client was ever sent |
| `Ruleset.Match` | `Match`, `Matching` |
| `scanRaw` | `ScanRaw` |
| the remote shell (external) | `Edits`, `Enters`, `Wanders`, `Interrupts`, `MayStart`, `ScreenLeaves` |

- A line is a sequence of words and a pattern the set of words it needs: the regular
  expressions themselves are not modelled, nor is a word split in two.
- A frame with several keys is as many keys: `raw` is read once per frame, which is
  the case of `ScanRaw` coming late.
- Bytes below 0x20 (^W, tab, the ESC of an arrow key) are passed on and leave the copy as
  it is (webshell.go:203-207, as filter.go:48-51 says), and a backspace takes one byte of the
  copy and one character of the line. `ControlKey` is such a key: the line may be any
  afterwards, or run at once (^O), and the prompt is `astray` until a line is run or ^C
  gives it up. What is typed meanwhile may end up anywhere (`Edits`).
- Otherwise the remote shell edits its line as a terminal does, clears it at ^U and ^C,
  and runs it at Enter. A full-screen program takes every key.
- `entered` is what the last step ran: the line, who ran it, whether by an answer to a
  question (`Confirm` sends an Enter too), and whether the prompt was astray.
- `Solo` limits the claims to a client that is alone and has seen no full-screen
  program, `Followed` to lines run at a prompt that was not astray. With a second typist
  the copies are of different lines, and after a full-screen program or a control key
  a copy may have missed something: the claims are not made there.

### AgentEnrollment and the code

| Code | Actions |
|---|---|
| `Register` | `RegisterFinds`, `RegisterFindsNone` or `RegisterMisreads`; `CreateRow` or `CreateRowFails`; `IssueToken` |
| `pickRole` | `PickRole` or `PickRoleFails` |
| `Client.session`, `Run` | `AwaitApproval`, `OpenStream` or `OpenStreamFails`, `DaemonBreaks` |
| `CreateAgent`, `ApproveAgent`, `RejectAgent` (catalog.go) | the actions of these names |
| the server process | `ServerRestarts`: the tokens and all calls are lost, the rows stay |

- One project. `Register` is three queries and no transaction; other daemons and the
  admin act between them.
- A daemon and its former self, whose `Register` is still under way, are two daemons of
  one host.
- The setup key is left out: it travels with the copy of the row.
- `vetted`, a history variable, are the rows an admin has approved or made at some time.

### Accounts and the code

| Code | Actions |
|---|---|
| `LocalIdentity.Login` (identity.go) | `LoginReads`; `LoginFails`, `LoginFailsUnrecorded`, `LoginSucceeds` or `LoginAbandoned` |
| `refresh`, `stepup` (auth.go) | `Refresh`, `StepUp`; `Forget` is the client losing a token |
| `Authenticator`, `RequireRole`, `RequireStepUp`, the routes | the guards `Authenticated`, `RequireRole`, `RequireStepUp` of `Submit`, `Decide`, `Revoke`, `Enrol`, `CreateUser` |
| `seedAdmin` (main.go) | `SeedAdmin` |
| an operator's UPDATE of `is_active` or `role`; time | `Deactivate`, `ChangeRole`; `Tick` |

- A login reads its row, compares for a while (bcrypt), and writes with a second
  statement; any number of logins do so at once.
- `guesses` counts wrong passwords since a success or the end of a lock, `lost` those
  whose `MarkLoginFailure` failed, `before` the logins that read their row before the
  lock was set, `proved` when the password was last shown: history variables.
- A token carries the role its account had when the row was read (`as` of a login under
  way; a refresh reads the row, a step-up signs the role of the token it was shown,
  auth.go:139). `changed` is when a row's role was last changed.
- `act` is what the last step let through, and with which role; the properties judge it
  by the rows.
- Tokens are what they say; that nobody forges one is the library's business.

### TicketTargets and the code

| Code | Actions |
|---|---|
| `CreateProject`, `CreateAsset`, `CreateCredential` (catalog.go) | the actions of these names |
| `Submit`, `Approve` (engine.go) | `Submit`, `Approve`: which assets exist, whose they are, and what is frozen |
| `ApplyRule`, `buildTargets` (controller.go, engine.go) | `Sent` (the first n targets by id), `ApplyRule` = `ForwardApply`, `NftApply` or `MemoryApply`, one per enforcer |
| `Apply`, `reapply` | `Apply`, `ApplyFails`; `Reapply`, `ReapplyFails` |
| `Revoke`, `ExpireDue` | `RevokeBegins`; `RevokeRule` in `Revoke` or `RevokeFails` |
| `OpenForTicket` (manager.go) | `OpenReads`; `Open` or `OpenFails`; `ShellEnds` |
| timers, kernel timeouts, restarts | `WindowEnds`, `ListenerTimesOut`, `ElementTimesOut`, `AgentRestarts`, `AgentReconnects`, `ServerRestarts` |

- Whether the kernel renews the timeout of an element that is added again depends on
  its version: both are taken (`renews`).
- `stuck` holds elements that nft failed to delete, an error that nft.go drops.
- A connection through a listener ends with it (`Cut`); one the kernel lets through is
  established and goes on.
- A listener stands for its rule id; that a new listener may take an old port is left out.

## 3. Runs

| Run | Question | Instance |
|---|---|---|
| `engine_faults` | Do racing requests ever own a ticket together? Do row, rule, timer, map and audit log stay consistent under any two faults, and does the engine implement `TicketLifecycle`? | 1 ticket, 2 users, 2 request goroutines, scheduler, 1 watcher, 2 addresses, clock 0..3 with windows of 2, 2 faults; `Calm`: once a fault has happened no web shell, enrolment fixed once a ticket is decided, one request at a time, and a stream whose end comes late meets an active ticket with no command under way |
| `engine_liveness` | Do overdue tickets leave `active`, and unknown addresses come back? | 1 address, 1 request goroutine, clock 0..1, 1 fault; `NoShells`: no web shell, and a stream whose end comes late meets an active ticket |
| `shells` | Do table, sessions and rows agree however terminals, revoke, crash and panic interleave? Is every step one of `ShellTable`? Is a revoke ever held up? Do pumps end, and are clients told? | 1 ticket, 2 connections, 2 sessions, channels of 1, 1 crash; `InOrder`, `Quiet`, `Over` |
| `control_streams` | Does success mean done, in order and once (`GatewayCalls`)? Can a connected Agent be called? | 2 streams, 2 calls (one with 2 targets), channels and connections that take 1 |
| `forwarder` | Is a listener ever lost, or left open? Is every step one of `RuleTable`? Do connections end with their listener? | 1 rule, 3 listeners, 1 connection; `Deaf`: one accept loop fails at a time |
| `command_gate` | Does the filter see the line that runs? Has each question one outcome? | 2 clients (web and api), 2 words, 3 rules (one of each severity), lines of 2, 2 tokens, 2 unread screen switches; `AstrayAlone` |
| `enrollment` | Do rows and roles stay in order, is nobody let in unapproved, and is everybody approved let in? | 2 daemons of one host, a second host of the admin's, 2 faults |
| `accounts` | How many passwords can be tried, how long do a lock, a retired account and an outgrown role last, and what backs a request that is let through? | 2 users, 2 logins at once, 1 ticket, locks at 2 failures for 1, access tokens for 2, refresh tokens for 3, a step-up for 1, clock 1..3, 2 tokens, 1 failure lost; `Few` |
| `targets` | What does an Agent let through, and which asset is a shell on? | 2 projects, 2 tickets, 2 assets, each of 3 enforcers, 2 faults; `Few` |
| `shells_revoked`, `shells_detach`, `gate_confirm` | What the documents say and the code does not do | the smallest instance that shows each |

Why the bounds are enough. Engine: tickets share nothing but their Agent and the
free addresses, so one ticket meets every interleaving of its own; two addresses
tell stale from fresh; a window of 2 in a clock of 3 lets a rule be re-issued
inside its window, at its end and after it; two faults are what the longest
scenarios need (a lost answer and then a restart). `Calm` keeps the races of two
requests, late commands, and late ends of streams in one run, but apart; the theorems
have them together. Web shells: sessions of two
tickets share nothing but the mutex; two connections can open at once, attach to
one session, and leave while the other is served; a channel of 1 is full at once. Two
terminals that dial at once open a session each, so that one hides the other. `Quiet`
looks at output, clients that stall, a crash and a failed update with one session
dialled, and at the table, Close and the revoke with two; `InOrder` tells like sessions
apart, and after a crash nobody comes back (`Over`). The theorems have any number of
sessions and no such bound; the liveness properties are each about one session. Streams: an overlap needs two streams, an order two commands, and a late answer one
that was given up. Forwarder: rules share only the loop; a third listener lets a
rule come back while the callbacks of two earlier ones are under way. Gate: a
question leaves one line behind at the prompt, on which the next word is typed: two
words; a second token lets a timer fire for a question that was superseded; the
second client is the one whose typing ends the first one's claims; `AstrayAlone` lets a
prompt go astray only where something is claimed of it afterwards. Enrolment: the
table holds two rows, so two daemons and an admin fill it in every order; a misread
and a restart are the two faults. Accounts: two logins overlap, the second one's
failure locks; an access token outlives a step-up by one, as it must for the window to
matter, and a refresh token outlives both. `Few` lets one account at a time fail,
retire or change its role (accounts share nothing), looks at a changed role apart from
failures and retirement, and keeps overlapping logins apart from tickets, which
they do not touch. Targets: two tickets share one asset or have two of one project, or
are of two projects; each asset may appear late. `Few` has one session at a time, since
sessions do not touch one another. Five modules use things once, or have a clock that
ends, and may come to rest (`CHECK_DEADLOCK FALSE` for `WebShellSessions`,
`ControlStream`, `CommandGate`, `Accounts` and `TicketTargets`); the others are checked
for deadlock.

A property that has parts is checked as their conjunction, since they are about one
thing; each part has a name and a theorem of its own.

The engine's safety properties:

- `Ownership` – at most one goroutine applies or revokes a ticket, and the row says
  so until it is done.
- `DecisionStands` (`DecisionOnRecord`, `DecisionIsFrozen`) – a granted ticket has a decider
  other than its requester; decider, agent and expiry never change again.
- `WindowIsKept`: `RuleWithinWindow` – however a rule was re-issued, its timer is the
  ticket's expiry; `OpenRuleIsTimed` – an open rule closes by itself, whatever became
  of its ticket: one that an Apply left behind in `approved` or `apply_failed`, or a
  revoke in `revoke_pending`, is gone within a window. Only a rule whose command reached the Agent after the window has no
  timer: one re-issued by a rebuild that listed it before, or one of an Apply whose caller
  had given up ("late_apply").
- `ClosedIsUnreachable` – a closed ticket has no listener, unless a rebuild with an old
  list re-opened it or Revoke skipped the Agent.
- `StaleAddressIsRepaired` – an active ticket whose cached address is dead is about to
  be repaired, unless one of two named races happened.
- `ImplementsLifecycle` – every step is a step of `TicketLifecycle` or a stutter: the
  audit log of a ticket is the path to its status (`AuditTrail`), and no Agent holds a
  rule, nor the map an address, of a ticket not granted (`RuleNeedsGrant`).

Those of the others:

- `TableIsKept` (sessions): `TableIsLive` – the table never holds a session of the past;
  `CloseCanGoOn` – whoever calls Close calls one that can begin, is under way or is
  over, and an open session has a pump that will call it: the safe half of
  `RevokeReturns` and `EndedIsUnlisted`; `ForceCloseIsThorough` – a force-close misses
  only what a second session of the ticket had hidden from it; `RowsAreTrue` – rows tell what became of a session,
  unless the process died or a last update failed; `ImplementsShellTable` – every step is one of `ShellTable` or changes nothing it
  speaks of, the shells being the live sessions and not the entries of the table.
- `SuccessIsEarned`, `HandledInOrder` – see section 2; `ReceiveNeverBlocks` – late
  and repeated answers never stop the receive loop; `ConnsIsRight`: `EntryIsServed` – no
  call is given a stream that has ended; `LinkedIsListed` – the entry of an Agent whose stream
  holds is that stream, unless another one robbed it: the safe half of
  `ReachableUnlessRobbed`; `ImplementsGateway` – every step is one of
  `GatewayCalls` or changes nothing it speaks of.
- `ListenerIsKept`: `NoOrphan`, `TableIsLive` (forwarder) – what is open can be found and closed, and
  what the table answers is open; `TimerIsPending` – what is open has a timer, a
  callback or somebody who closes it, but for the two exceptions of `ExpiredIsClosed`,
  of which it is the safe half; `ImplementsRuleTable` – every step is one of
  `RuleTable` or changes nothing it speaks of.
- `GateTracksLine` – copy and line end alike, whatever was asked or killed in between,
  until a key comes that the copy does not follow; `BlockedIsNotEntered` – neither an
  Enter nor a confirmation of a single client whose keys it follows runs a blocked word,
  not even when the gate saw the line in two pieces, except that a confirmation runs what
  was typed after its question; `EnteredDangerWasAsked` – nor a word that calls for a
  confirmation unless there was a question about it (whether it was answered is another
  matter: `gate_confirm`), with the same exception; `AskHasOneOutcome` – answer, timer
  and next question race, and exactly one wins.
- `StreamIsApproved` – a stream belongs to a row of the daemon's own host that an admin
  approved, or made, at some time; `RolesInOrder` – no role twice, no secondary of `Register`'s without a
  primary; `HostKeepsItsRow` – one row per host, but for two named exceptions.
- `GuessesAreBounded` – overlapping logins are all judged by the same count, and still
  at most one more password per login under way can be tried before the lock bites;
  `LockHolds` – a lock ends with its time, or with the success of a login that had read
  the row before; `ActsAreBacked` – through any chain of refreshes and step-ups an
  act has a fresh proof of the password and the role of its account's row; an outgrown
  role lasts less than an access token, unless its owner shows the password, to a
  step-up or to a login that had read the row before;
  `InactiveRunsOut` – a retired account keeps at most one access token's time, unless
  it shows its password to `stepup`, which does not look at `is_active`.
- `AccessIsFrozen` – with two named exceptions: elements nft failed to delete, and an
  asset that got its row after the approval and was let in by a re-apply of the kernel
  enforcer; `ShellIsOnRecord` – a session is on the
  asset of its row, unless a ticket for several assets has one listener for them all.

Liveness, with the fairness assumed:

- engine: `ExpiredIsRevoked`, `ForwardIsRebuilt`. Goroutines that were started go on
  (the Go scheduler), the scheduler loop never stops, an approved Agent whose
  stream is down keeps reconnecting (`Run` loops with a 3 s pause), timers fire, and an
  Agent reads what a stream that is its entry brings. An Agent whose entry was taken
  does not reconnect, its stream being up: `ForwardIsRebuilt` excepts it (`robbed`), as
  `ReachableUnlessRobbed` does. Nothing is assumed of users, administrators, faults, the
  clock, or the time at which the Control of a dead stream returns.
- web shells: `RevokeReturns` and `PumpIsFreed` with clients that may stop reading for
  ever; `AttachedAreTold`, `EndedIsUnlisted` if clients read (`ClientsRead`; the run has
  the latter and `PumpIsFreed` together as `EndedIsCleared`). Without
  that, a stalled client does keep a broken session in the table: the pump waits on
  its channel and never sees the connection fail.
- streams: `ReachableUnlessRobbed`. Each side notices a lost connection sooner or
  later, and the Agent dials again.
- enrolment: `ApprovedConnects`. A daemon keeps registering (`Run` never gives up) and
  the server answers. Nothing is assumed of the admin, who may reject again.
- forwarder: `ExpiredIsClosed`, `ClosedIsCut`. Timers fire, dials end (10 s). The two
  exceptions of `ExpiredIsClosed` are real: `Apply` with a ttl of zero or less arms no
  timer, and a timer that fires before `Apply` has entered the rule finds nothing.

### What the code does and its documents do not say

| Run | Claim | What happens |
|---|---|---|
| `shells_revoked` | docs/05-policy-engine.md:93 | a terminal that was dialling during the revoke registers its session afterwards |
| `shells_detach` | docs/09-web-shell.md:73 | a client that leaves while output is fanned out makes `broadcast` send on a closed channel: the server panics |
| `gate_confirm` | docs/09-web-shell.md:253 | asking empties the copy and leaves the line at the prompt: the next Enter matches an empty line and runs the one nobody confirmed |

Met while modelling, and not the subject of a run of their own (where a property
has to allow for it, it does so by name):

- A rebuild that listed a ticket before its revoke re-opens the listener of the closed
  ticket until its window ends; no fault is needed (docs/05-policy-engine.md:90).
  `ClosedIsUnreachable` names it "stale_reapply".
- An Agent restart between the answer and the commit of Apply leaves a dead address in
  the map for good (docs/10-todo.md:21): "late_store" in `StaleAddressIsRepaired`.
- The end of a lost control stream deletes the entry of the stream that replaced it
  (controller.go:178-184; docs/10-todo.md:21): the Agent is on a healthy stream and never
  dials again, and every rebuild of its tickets fails with "not connected". `robbed` in
  `ReachableUnlessRobbed` and `ForwardIsRebuilt`.
- An Apply that its Agent handles after the window (client.go:145-148, forward.go:77)
  opens a listener without a timer, of a ticket that is approved or apply_failed and
  that nobody looks at again: "late_apply" in `OpenRuleIsTimed`.
- An error of Accept other than the closing of the listener ends the accept loop
  (forward.go:93-96) and leaves listener, entry and timer: nothing is served, and every
  re-apply answers the dead address (`deaf`).
- An Apply that stops early leaves the ticket approved for good (`ApplyAbandon`,
  `Crash`; engine.go:233-234 and docs/05-policy-engine.md:71 say otherwise), and nothing
  reads `revoke_pending` again (docs/05-policy-engine.md:93). What they leave on the
  Agent ends with its timer (`OpenRuleIsTimed`).
- `reapply` does not look at the enrolment of the agent (agents.sql:27-28).
- Two terminals that open at once make two sessions of a ticket (manager.go:30), the
  exception of `ForceCloseIsThorough`; nothing closes a session without clients
  (docs/09-web-shell.md:73 has two minutes).
- Two registrations of a host at once, or one whose query failed, give the host two
  rows: the exception of `HostKeepsItsRow`.
- Approving an agent again without a setup key erases its key (agents.sql:31-33 calls
  the query idempotent).
- The filter matches what was typed, where docs/09-web-shell.md:221 has it match what
  the shell echoed (the model follows the code).
- Control keys change the line and not its copy (webshell.go:203-207, filter.go:48-51, where
  docs/09-web-shell.md:204-206 moves the defence to the remote end for that reason): what
  is run afterwards is matched by nothing (`astray`).
- A question that is superseded leaves no record, the exception of `AskHasOneOutcome`.
- A confirmation runs whatever is at the prompt by then (webshell.go:222), also a blocked
  word, or one to be asked about, typed after the question: `Unmatched`.
  docs/09-web-shell.md:253 has the confirmed line let go and nothing else.
- An access token lasts 15 minutes and a step-up 30 (config.go): a step-up outlives the
  token that proves it, and ends with it.
- `StepUp` looks neither at `is_active` nor at the lock, and counts no failure, so the
  lock of docs/07-security.md:99 is one of `/auth/login` alone; the exception of
  `InactiveRunsOut`.
- Adding a user or an agent asks for the role admin and no step-up (router.go), where
  docs/07-security.md:101 lists both among what needs one.
- Retiring an account or changing its role does not revoke its tickets, as
  docs/05-policy-engine.md:102 and :199 have it, and a step-up renews the role of the token
  it is shown without a look at the row (auth.go:139): the exception of `ActsAreBacked`.
- Approval freezes ids, not assets (engine.go:198): an id without a row is frozen too,
  and its asset is let through by a later re-apply, in whichever project it appears; the
  exception of `AccessIsFrozen` (docs/06-data-model.md:287).
- The forwarder opens one listener per rule id, where the comments at gateway.go:33-37
  and controller.go:250-253 have one per target: the exception of `ShellIsOnRecord`.
- `Revoke` of the kernel enforcer does not end established connections, as the comment
  at enforcer.go:31 has it (`Cut` applies to listeners).
- docs/05-policy-engine.md:207 has several tickets of one user to one asset independent of
  each other, with an Agent rule of its own each. The kernel enforcer keys an element by
  addresses and port (nft.go:100-119), so the revoke or the end of one takes the element of
  the others while their rules are still in its map. `SharedIsLost`
  (`TicketTargetsProofs`) says how far that goes, and is a theorem: only to another ticket
  for the same asset that ended. It is what is left of the claim, so no run counts it
  among what the code keeps.

Each property of a passing run has a mutant (PROJECT.json): a plausible bug in the
modelled code which the run then finds.

## 4. Proofs

For any constants that satisfy the `ConstantsAssumption` of the module:

| Theorem | What it gives | From |
|---|---|---|
| `PolicyEngineProofs!TypeCorrect` | types; a goroutine in the middle of a ticket knows which | `TypeOK` is inductive |
| `OwnershipHolds` | one owner per ticket | `TypeOK` and itself |
| `AuditTrailHolds` | the log is the path to the status | `Ownership` |
| `DecisionHolds`, `DecisionStays` | four eyes; decisions never change | `Recorded`: what a row says for each status, and what an Apply under way knows |
| `DecisionHeld` | `DecisionStands` | the last two |
| `GrantHolds`, `WindowHolds` | no rule without a grant, none beyond its window | `Listed`: what a pass has listed was activated; `Ruled`: no rule before the call of Apply |
| `TimersHold` | an open rule has a timer, but for one whose command came after its window | `Timed`: the same with what a call under way knows of the expiry it was given; `Carried`: the expiry a late command carries |
| `WindowKept` | `WindowIsKept` | `WindowHolds`, `TimersHold` |
| `ClosedHolds` | nothing of a closed ticket is reachable, but for two named causes | `Swept`: what a revoke knows past its call; `UnderWay`: of which rules a command may still come |
| `RepairHolds` | a stale address has a reconnect before it, but for two named causes | `Fresh`: the same of a ticket whose Apply is at its last transaction; `Recorded` for the agent, `Ruled` for the timers |
| `KeepsThePromise` | the engine implements `TicketLifecycle` | `AuditTrail`, and `RuleNeedsGrant` before and after the step |
| `AgentEnrollmentProofs!TypeCorrect`, `RolesHold`, `HostHolds`, `StreamHolds` | roles, rows and approvals, for any number of daemons, hosts and faults | `Copied`: what a copy of a row is still good for, and that it was vetted if it says approved; `Picked`; `Alone`: what a Register that found no row can rely on |
| `CommandGateProofs!TypeCorrect`, `GateTracks`, `BlockedHolds`, `DangerHolds`, `OutcomeHolds` | what the gate promises, for any words, rules, clients and length of line | `Beyond`: what is known of words the copy has lost, at a prompt that is not astray; `Plain`; `Questions` |
| `ControlStreamProofs!TypeCorrect`, `EntryServed`, `SuccessEarned`, `OrderHolds`, `NeverBlocks` | no dead entry, no success that was not earned, order, and no full channel, for any number of calls, streams and faults | `Placed`: what is in each queue was sent and its stream is live; `Earned`: what an answer stands for; `Ordered`: all queues read in the order of sending; `Single`: no command and no answer in two places |
| `LinkedListed` | an Agent stays in the table unless robbed | itself: the deferred delete runs after the loss |
| `ConnsRight` | `ConnsIsRight` | `EntryServed`, `LinkedListed` |
| `ControlStreamProofs!KeepsThePromise` | streams and roundtrips implement `GatewayCalls` | `Calling`: a call under way has returned nothing, and what it has sent is past it; `Placed`, `Ordered` |
| `WebShellSessionsProofs!TypeCorrect`, `TableLive`, `ForceCloseThorough`, `RowsTrue` | table, force-close and rows, for any number of terminals, sessions and tickets | `Making`, `Serving`: what a terminal knows of the session it dials or serves; `Finding`: what a revoke knows of the session it found |
| `CloseGoesOn` | no pump and no revoke waits for a Close that cannot run | itself, with `Making` and `TableIsLive` |
| `TableKept` | `TableIsKept` | `TableLive`, `CloseGoesOn` |
| `WebShellSessionsProofs!KeepsThePromise` | sessions, pumps and Close implement `ShellTable` | `CloseCanGoOn`; `Found`: the session a revoke found is of its ticket; `Sharing`: of two sessions of a ticket that live, both have lived beside another |
| `AccountsProofs!TypeCorrect`, `GuessesBounded`, `LocksHold`, `ActsBacked`, `InactiveIsOut` | the same for any limits, lifetimes, accounts and overlapping logins | `Locking`: while an account is locked, the failures there were and the logins still to fail are bounded together; `Backing`: step-up of a token and role are those of its account, or of what it was before a change, and for how long |
| `TicketTargetsProofs!TypeCorrect`, `AccessFrozen`, `SharedLost`, `ShellOnRecord` | what is let through, what is lost to other tickets, and what is served, for any catalog, tickets and faults, under each enforcer | `Ordered`: rows appear by id; `Given`, `Ruled`, `Programmed`: where the targets in tickets, rules and elements come from; `Listening`: a listener is on the oldest asset |
| `ForwarderProofs!TypeCorrect`, `NothingIsOrphaned`, `TableHolds` | no listener is lost; the table answers live ones | `Handed`: what the loop knows between its look at the table and its entry; `Opened`, `FiredOnce` |
| `TimersPend` | what is open is on its way to being closed, but for two named causes | `NoOrphan`; `FiredOnce`: a callback is for the rule of its listener |
| `ListenersKept` | `ListenerIsKept` | `NothingIsOrphaned`, `TableHolds`, `TimersPend` |
| `ForwarderProofs!KeepsThePromise` | the forwarder implements `RuleTable` | `Taken`: for which rule, and on whose behalf, a listener is being closed; `NoOrphan` when a revoke is answered |

Only `TypeOK`, `Ownership` and `LinkedIsListed` are inductive by themselves. The reason is
the same in every component: a goroutine reads, lets go of the lock, and acts on
what it read, so the strengthening says for each position what is still true there.
For the engine the chain is `TypeOK`, `Ownership`, `Recorded` and `Listed`, `Carried`, `Ruled`,
`Swept` and `Fresh`, each proved with the help of those before it. For the gate the copy of the
line forgets what a question was about while the remote line keeps it: `Beyond` says
that such words were asked about, and `MatchIsStrict` that a word which is stopped
alone is stopped in every line that holds it. The step lemmas have one step per
action. `ControlStream` has its commands pass through two channels and a pump; the
proofs treat the channels of a stream as one `Queue`, which the pump leaves as it is, so
that order is disturbed by sending and handling only.

The refinements are proved step by step: each action maps to one of the abstract
module or to a stutter, and the ones that map to nothing are collected
(`SameTable`, `InnerTable`, `HiddenShells`). In `ControlStream` the abstract call ends where
`Answered` or `GiveUp` is, and the command takes effect where the Agent handles it, not
where it is acked. In `Forwarder` a listener serves its rule as soon as it is open,
before the table has it: the loop holds it in between (`Serving`), and `Handed` keeps
everybody else away from it. In `WebShellSessions` a revoke has swept when the session
it found is torn down (`CloseTear`), whoever runs that Close; what else of the ticket lives
then had lived beside another session (`Sharing`).

Left to TLC: liveness (fairness and ENABLED are outside TLAPS). Every invariant a passing
run checks is a theorem; `SharedIsLost` is one that no run checks.

## 5. Plan

Composition: `ControlStream` with `Forwarder` as its handler, by way of `GatewayCalls` and
`RuleTable`.

Not modelled:

- the NetBird adapter: find-or-create calls to an external HTTP API, made once from the
  command line; what can go wrong depends on what that API promises about names and
  lists, which this code does not tell;
- the overlay: one command line at start, without state;
- secrets and configuration: a library's encryption, and environment variables read once
  (the durations are constants of `Accounts`);
- generated code, lists for display, encoding, the web UI, deployment;
- the rows of attachers (`AddAttacher`, `DetachAttacher`), which nothing reads.
