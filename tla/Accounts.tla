-------------------------------- MODULE Accounts --------------------------------
(***************************************************************************)
(* Who may do what: the rows of yusui.users, the logins that read and      *)
(* write them, the tokens they end in, and the requests these tokens are   *)
(* shown for (server/internal/auth, httpapi/auth.go, tickets.go and        *)
(* router.go; the first account, cmd/yusui-server/main.go).                *)
(*                                                                         *)
(* A login reads its row, compares the password (bcrypt, slow on purpose)  *)
(* and writes the outcome with a statement of its own; logins of one       *)
(* account overlap.  The comparison is taken together with that write:     *)
(* what it compares with, the hash, never changes.  A request lasts 30 s   *)
(* at most (router.go), far less than a unit of the clock.                 *)
(***************************************************************************)
EXTENDS Naturals, FiniteSets

CONSTANTS
    Users, Root,    \* user names; the account made on an empty database
    Tickets,
    Logins,         \* requests to /auth/login under way at once (bound)
    NoUser,
    MaxFailures, LockTime,         \* 5 failures, 15 minutes (users.sql)
    AccessTTL, RefreshTTL, Window, \* 15 min, 7 days, 30 min (config.go)
    MaxTime, MaxTokens, MaxLost    \* bounds

Roles == {"requester", "approver", "admin"}

ASSUME ConstantsAssumption ==
    /\ Root \in Users /\ NoUser \notin Users
    /\ IsFiniteSet(Logins)
    /\ MaxFailures \in Nat \ {0} /\ LockTime \in Nat \ {0}
    /\ AccessTTL \in Nat /\ RefreshTTL \in Nat /\ Window \in Nat
    /\ MaxTime \in Nat \ {0} /\ MaxTokens \in Nat /\ MaxLost \in Nat

VARIABLES
    role,       \* role[u]: role of the row of u, "none" before it is inserted
    off,        \* off[u]: when is_active became FALSE, 0 while it is TRUE
    failed,     \* failed[u]: failed_login_count
    locked,     \* locked[u]: locked_until, 0 for NULL
    login, as,  \* login[l], as[l]: the account whose row login l has read, and
                \* the role the row had
    tokens,     \* tokens that clients hold
    now,
    ticket,     \* ticket[t]: requester and status
    guesses,    \* guesses[u]: failures since a success, or the end of a lock
    lost,       \* failures that were not recorded
    before,     \* logins that read their row before its last lock was set
    proved,     \* proved[u]: when the password of u was last shown, 0 for never
    changed,    \* changed[u]: when the role of u was last changed, 0 for never
    act         \* the sensitive request that this step let through

accounts == <<role, off, failed, locked>>
reads    == <<login, as>>
history  == <<guesses, lost, before, proved, changed>>
vars == <<accounts, reads, tokens, now, ticket, history, act>>

Times == 1 .. MaxTime

Token == [kind : {"access"}, user : Users, role : Roles, stepUpAt : {0} \cup Times,
          exp : Nat]
         \cup [kind : {"refresh"}, user : Users, exp : Nat]

Ticket == [requester : Users, status : {"pending", "active", "rejected", "closed"}]

NoTicket == [status |-> "none"]

NoAct == [verb |-> "none"]

Act == [verb : {"approve", "reject", "revoke", "enrol"}, by : Users, role : Roles,
        requester : Users \cup {NoUser}, at : Times, proof : {0} \cup Times]

TypeOK ==
    /\ role \in [Users -> Roles \cup {"none"}]
    /\ off \in [Users -> {0} \cup Times]
    /\ failed \in [Users -> Nat]
    /\ locked \in [Users -> Nat]
    /\ login \in [Logins -> Users \cup {NoUser}]
    /\ as \in [Logins -> Roles \cup {"none"}]
    /\ tokens \in SUBSET Token
    /\ now \in Times
    /\ ticket \in [Tickets -> Ticket \cup {NoTicket}]
    /\ guesses \in [Users -> Nat]
    /\ lost \in 0 .. MaxLost
    /\ before \in SUBSET Logins
    /\ proved \in [Users -> {0} \cup Times]
    /\ changed \in [Users -> {0} \cup Times]
    /\ act \in Act \cup {NoAct}

\* Every other column of the row of u stays as it is.
Exists(u) == role[u] # "none"

IsLocked(u) == locked[u] > now

\* Logins that have read the row of u.
Reading(u) == {l \in Logins : login[l] = u}

Valid(k, kind) == k \in tokens /\ k.kind = kind /\ k.exp > now

Init ==
    /\ role = [u \in Users |-> "none"]
    /\ off = [u \in Users |-> 0]
    /\ failed = [u \in Users |-> 0]
    /\ locked = [u \in Users |-> 0]
    /\ login = [l \in Logins |-> NoUser]
    /\ as = [l \in Logins |-> "none"]
    /\ tokens = {}
    /\ now = 1
    /\ ticket = [t \in Tickets |-> NoTicket]
    /\ guesses = [u \in Users |-> 0]
    /\ lost = 0
    /\ before = {}
    /\ proved = [u \in Users |-> 0]
    /\ changed = [u \in Users |-> 0]
    /\ act = NoAct

-----------------------------------------------------------------------------
(* Tokens *)

AccessToken(u, r, stepUpAt) ==
    [kind |-> "access", user |-> u, role |-> r, stepUpAt |-> stepUpAt,
     exp |-> now + AccessTTL]

RefreshToken(u) == [kind |-> "refresh", user |-> u, exp |-> now + RefreshTTL]

Issue(new) ==
    /\ tokens' = tokens \cup new
    /\ Cardinality(tokens') <= MaxTokens

\* Clients lose tokens.
Forget(k) ==
    /\ tokens' = tokens \ {k}
    /\ UNCHANGED <<accounts, reads, now, ticket, history>>
    /\ act' = NoAct

-----------------------------------------------------------------------------
(* Login *)

\* The end of login l, with what it does to the histories of its account u.
Ends(l, u) ==
    /\ u # NoUser /\ login[l] = u
    /\ login' = [login EXCEPT ![l] = NoUser]
    /\ as' = [as EXCEPT ![l] = "none"]

\* Mutant: the lock is only looked at when the password is wrong.
LoginReadsLocked(l, u) ==
    /\ login[l] = NoUser
    /\ Exists(u) /\ off[u] = 0
    /\ login' = [login EXCEPT ![l] = u]
    /\ as' = [as EXCEPT ![l] = role[u]]
    /\ UNCHANGED <<accounts, tokens, now, ticket, history>>
    /\ act' = NoAct

LoginReads(l, u) ==
    /\ login[l] = NoUser
    /\ Exists(u) /\ off[u] = 0 /\ ~IsLocked(u)
    /\ login' = [login EXCEPT ![l] = u]
    /\ as' = [as EXCEPT ![l] = role[u]]
    /\ UNCHANGED <<accounts, tokens, now, ticket, history>>
    /\ act' = NoAct

\* Mutant: locks one failure late.
MarkLoginFailureLate(u) ==
    /\ failed' = [failed EXCEPT ![u] = @ + 1]
    /\ locked' = IF failed[u] + 1 > MaxFailures
                 THEN [locked EXCEPT ![u] = now + LockTime] ELSE locked

\* One statement: it counts whatever the count is by now.
MarkLoginFailure(u) ==
    /\ failed' = [failed EXCEPT ![u] = @ + 1]
    /\ locked' = IF failed[u] + 1 >= MaxFailures
                 THEN [locked EXCEPT ![u] = now + LockTime] ELSE locked

MarkLoginSuccess(u) ==
    /\ failed' = [failed EXCEPT ![u] = 0]
    /\ locked' = [locked EXCEPT ![u] = 0]

\* Wrong password, or a second factor the server cannot check.
LoginFails(l, u) ==
    /\ Ends(l, u)
    /\ MarkLoginFailure(u)
    /\ guesses' = [guesses EXCEPT ![u] = @ + 1]
    /\ before' = (IF locked' # locked THEN before \cup Reading(u) ELSE before) \ {l}
    /\ UNCHANGED <<role, off, tokens, now, ticket, lost, proved, changed>>
    /\ act' = NoAct

\* The error of MarkLoginFailure is dropped (a client that hung up cancels the
\* statement), or the process dies before it.
LoginFailsUnrecorded(l, u) ==
    /\ Ends(l, u)
    /\ lost < MaxLost
    /\ lost' = lost + 1
    /\ guesses' = [guesses EXCEPT ![u] = @ + 1]
    /\ before' = before \ {l}
    /\ UNCHANGED <<accounts, tokens, now, ticket, proved, changed>>
    /\ act' = NoAct

\* A fresh login counts as a step-up.  The role is that of the row it read.
LoginSucceeds(l, u) ==
    /\ Ends(l, u)
    /\ MarkLoginSuccess(u)
    /\ Issue({AccessToken(u, as[l], now), RefreshToken(u)})
    /\ guesses' = [guesses EXCEPT ![u] = 0]
    /\ before' = before \ {l}
    /\ proved' = [proved EXCEPT ![u] = now]
    /\ UNCHANGED <<role, off, now, ticket, lost, changed>>
    /\ act' = NoAct

\* MarkLoginSuccess fails, or the process dies: no token.
LoginAbandoned(l, u) ==
    /\ Ends(l, u)
    /\ before' = before \ {l}
    /\ UNCHANGED <<accounts, tokens, now, ticket, guesses, lost, proved, changed>>
    /\ act' = NoAct

-----------------------------------------------------------------------------
(* Step-up and refresh *)

\* Neither lock nor is_active is looked at; identity and role are the token's.
StepUp(k) ==
    /\ Valid(k, "access")
    /\ Issue({AccessToken(k.user, k.role, now)})
    /\ proved' = [proved EXCEPT ![k.user] = now]
    /\ UNCHANGED <<accounts, reads, now, ticket, guesses, lost, before, changed>>
    /\ act' = NoAct

\* Mutant: an access token like the one a login gives.
RefreshWithStepUp(k) ==
    /\ Valid(k, "refresh")
    /\ off[k.user] = 0
    /\ Issue({AccessToken(k.user, role[k.user], now)})
    /\ UNCHANGED <<accounts, reads, now, ticket, history>>
    /\ act' = NoAct

\* Mutant: the row is read for the role only.
RefreshInactive(k) ==
    /\ Valid(k, "refresh")
    /\ Issue({AccessToken(k.user, role[k.user], 0)})
    /\ UNCHANGED <<accounts, reads, now, ticket, history>>
    /\ act' = NoAct

Refresh(k) ==
    /\ Valid(k, "refresh")
    /\ off[k.user] = 0
    /\ Issue({AccessToken(k.user, role[k.user], 0)})
    /\ UNCHANGED <<accounts, reads, now, ticket, history>>
    /\ act' = NoAct

-----------------------------------------------------------------------------
(* Requests: Authenticator, RequireRole and RequireStepUp, then the handler *)

Authenticated(k) == Valid(k, "access")

RequireRole(k, allowed) == k.role \in allowed

RequireStepUp(k) == k.stepUpAt # 0 /\ now - k.stepUpAt <= Window

Admit(verb, k, requester) ==
    act' = [verb |-> verb, by |-> k.user, role |-> k.role, requester |-> requester,
            at |-> now, proof |-> proved[k.user]]

\* Whose it is comes from the token.
Submit(k, t) ==
    /\ Authenticated(k)
    /\ ticket[t] = NoTicket
    /\ ticket' = [ticket EXCEPT ![t] = [requester |-> k.user, status |-> "pending"]]
    /\ UNCHANGED <<accounts, reads, tokens, now, history>>
    /\ act' = NoAct

\* Engine.Approve and Engine.Reject refuse the requester.
Decide(k, t, verb) ==
    /\ Authenticated(k) /\ RequireRole(k, {"approver", "admin"}) /\ RequireStepUp(k)
    /\ ticket[t].status = "pending"
    /\ ticket[t].requester # k.user
    /\ ticket' = [ticket EXCEPT ![t].status = IF verb = "approve" THEN "active" ELSE "rejected"]
    /\ Admit(verb, k, ticket[t].requester)
    /\ UNCHANGED <<accounts, reads, tokens, now, history>>

\* An admin may revoke any ticket, anybody else only their own.
Revoke(k, t) ==
    /\ Authenticated(k) /\ RequireStepUp(k)
    /\ ticket[t].status = "active"
    /\ k.role = "admin" \/ ticket[t].requester = k.user
    /\ ticket' = [ticket EXCEPT ![t].status = "closed"]
    /\ Admit("revoke", k, ticket[t].requester)
    /\ UNCHANGED <<accounts, reads, tokens, now, history>>

\* approveAgent, rejectAgent (AgentEnrollment has what they do).
Enrol(k) ==
    /\ Authenticated(k) /\ RequireRole(k, {"admin"}) /\ RequireStepUp(k)
    /\ Admit("enrol", k, NoUser)
    /\ UNCHANGED <<accounts, reads, tokens, now, ticket, history>>

\* username is UNIQUE.  No step-up: the route asks for the role alone.
CreateUser(k, u, r) ==
    /\ Authenticated(k) /\ RequireRole(k, {"admin"})
    /\ ~Exists(u)
    /\ role' = [role EXCEPT ![u] = r]
    /\ UNCHANGED <<off, failed, locked, reads, tokens, now, ticket, history>>
    /\ act' = NoAct

-----------------------------------------------------------------------------
(* The server starts; the operator; the clock *)

\* Only if the table is empty; every other start changes nothing here.
SeedAdmin ==
    /\ \A u \in Users : ~Exists(u)
    /\ role' = [role EXCEPT ![Root] = "admin"]
    /\ UNCHANGED <<off, failed, locked, reads, tokens, now, ticket, history>>
    /\ act' = NoAct

\* An account is retired in the database; no handler writes is_active.
Deactivate(u) ==
    /\ Exists(u) /\ off[u] = 0
    /\ off' = [off EXCEPT ![u] = now]
    /\ UNCHANGED <<role, failed, locked, reads, tokens, now, ticket, history>>
    /\ act' = NoAct

\* An account gets another role in the database; no handler writes it.
ChangeRole(u, r) ==
    /\ Exists(u) /\ r # role[u]
    /\ role' = [role EXCEPT ![u] = r]
    /\ changed' = [changed EXCEPT ![u] = now]
    /\ UNCHANGED <<off, failed, locked, reads, tokens, now, ticket, guesses, lost, before,
                   proved>>
    /\ act' = NoAct

Tick ==
    /\ now < MaxTime
    /\ now' = now + 1
    /\ guesses' = [u \in Users |-> IF locked[u] = now' THEN 0 ELSE guesses[u]]
    /\ UNCHANGED <<accounts, reads, tokens, ticket, lost, before, proved, changed>>
    /\ act' = NoAct

Next ==
    \/ \E l \in Logins, u \in Users :
        \/ LoginReads(l, u) \/ LoginFails(l, u) \/ LoginFailsUnrecorded(l, u)
        \/ LoginSucceeds(l, u) \/ LoginAbandoned(l, u)
    \/ \E k \in tokens :
        \/ StepUp(k) \/ Refresh(k) \/ Forget(k) \/ Enrol(k)
        \/ \E t \in Tickets :
            \/ Submit(k, t) \/ Revoke(k, t)
            \/ \E verb \in {"approve", "reject"} : Decide(k, t, verb)
        \/ \E u \in Users, r \in Roles : CreateUser(k, u, r)
    \/ SeedAdmin
    \/ \E u \in Users : Deactivate(u) \/ \E r \in Roles : ChangeRole(u, r)
    \/ Tick

Spec == Init /\ [][Next]_vars

-----------------------------------------------------------------------------
(* Properties *)

\* However many logins of an account overlap, and however often its lock comes
\* and goes: from a success or the end of a lock on, as many passwords can be
\* tried as failures lock it, and one more per further login under way, not
\* counting those whose failure could not be recorded (identity.go 40-65).
GuessesAreBounded ==
    \A u \in Users :
        guesses[u] <= (MaxFailures - 1) + Cardinality(Logins) + lost

\* A lock stays for its time, but for the success of a login that had read the
\* row before the lock was set (identity.go 48, users.sql MarkLoginSuccess).
LockHolds ==
    [][\A u \in Users :
          IsLocked(u) /\ ~IsLocked(u)' =>
              now' > now \/ \E l \in before : login[l] = u /\ login'[l] = NoUser]_vars

\* What was let through, across logins, refreshes and step-ups: whoever did it
\* has the role for it, did not decide on its own ticket, and showed its password
\* within the window.  The role is its row's; or the one it had until less than an
\* access token ago, or for longer if it showed its password since, for a step-up
\* and a login under way do not read the row again (router.go 78-95,
\* middleware.go 54-93, auth.go 68, 139).
ActsAreBacked ==
    act # NoAct =>
        /\ act.proof # 0 /\ act.at - act.proof <= Window
        /\ act.verb \in {"approve", "reject"} =>
              act.role \in {"approver", "admin"} /\ act.requester # act.by
        /\ act.verb = "revoke" => act.role = "admin" \/ act.requester = act.by
        /\ act.verb = "enrol" => act.role = "admin"
        /\ act.role # role[act.by] =>
              /\ changed[act.by] # 0
              /\ \/ act.at < changed[act.by] + AccessTTL
                 \/ act.proof >= changed[act.by]

\* Once an account is retired its refresh tokens are of no use: it is out when
\* its access token ends, unless it shows its password (auth.go 101-105).
InactiveRunsOut ==
    \A k \in tokens :
        /\ k.kind = "access"
        /\ off[k.user] # 0
        => k.exp <= off[k.user] + AccessTTL \/ proved[k.user] >= off[k.user]

=============================================================================
