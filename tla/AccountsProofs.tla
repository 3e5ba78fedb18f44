----------------------------- MODULE AccountsProofs -----------------------------
(***************************************************************************)
(* Accounts, for any number of users, of overlapping logins and any TTLs.  *)
(* GuessesAreBounded alone is not inductive: while an account is locked,   *)
(* the failures there were and the logins still to fail are bounded        *)
(* together (Locking); what a token says is compared with its account in   *)
(* Backing.                                                                *)
(***************************************************************************)
EXTENDS Accounts, FiniteSetTheorems, TLAPS

\* A login has read a row, and a token is of an account, that is there.
Rows ==
    /\ \A l \in Logins : login[l] # NoUser => Exists(login[l]) /\ as[l] \in Roles
    /\ \A k \in tokens : Exists(k.user)
    /\ \A u \in Users : off[u] <= now /\ proved[u] <= now /\ changed[u] <= now

\* Below the limit every failure is on record, or lost; a lock admits no login
\* but those that had read the row before.
Locking ==
    \A u \in Users :
        /\ IsLocked(u) =>
              /\ guesses[u] + Cardinality(Reading(u))
                    <= (MaxFailures - 1) + Cardinality(Logins) + lost
              /\ Reading(u) \subseteq before
        /\ ~IsLocked(u) =>
              guesses[u] <= (IF failed[u] < MaxFailures THEN failed[u] ELSE 0) + lost

\* Step-up and role of an access token are those of its account, unless the role
\* was changed after the token was issued, or before the password was shown: a
\* login may have read its row before the change.
Backing ==
    /\ \A k \in tokens : k.kind = "access" =>
          /\ k.role # role[k.user] =>
                /\ changed[k.user] # 0
                /\ k.exp <= changed[k.user] + AccessTTL \/ proved[k.user] >= changed[k.user]
          /\ k.stepUpAt <= proved[k.user]
          /\ k.exp <= now + AccessTTL
    /\ \A l \in Logins : login[l] # NoUser /\ as[l] # role[login[l]] => changed[login[l]] # 0

IInv == TypeOK /\ Rows /\ Locking /\ Backing /\ ActsAreBacked /\ InactiveRunsOut

USE ConstantsAssumption DEF Roles, Times

-----------------------------------------------------------------------------
\* The logins that have read a row are finitely many.
LEMMA ReadingIsFinite ==
    \A u \in Users :
        /\ IsFiniteSet(Reading(u))
        /\ Cardinality(Reading(u)) \in Nat
        /\ Cardinality(Reading(u)) <= Cardinality(Logins)
        /\ Cardinality(Logins) \in Nat
<1> TAKE u \in Users
<1>1. Reading(u) \subseteq Logins
    BY DEF Reading
<1> QED BY <1>1, FS_Subset, FS_CardinalityType

\* The end of a login takes it from its account's, and from no other's.
LEMMA EndsReading ==
    ASSUME TypeOK, NEW l \in Logins, NEW u \in Users, Ends(l, u)
    PROVE  /\ Reading(u)' = Reading(u) \ {l}
           /\ Cardinality(Reading(u)') = Cardinality(Reading(u)) - 1
           /\ Cardinality(Reading(u)') <= Cardinality(Logins) - 1
           /\ Cardinality(Reading(u)') \in Nat
           /\ \A v \in Users \ {u} : Reading(v)' = Reading(v)
<1>1. Reading(u)' = Reading(u) \ {l} /\ l \in Reading(u)
    BY DEF Ends, Reading, TypeOK
<1>2. \A v \in Users \ {u} : Reading(v)' = Reading(v)
    BY DEF Ends, Reading, TypeOK
<1>3. Cardinality(Reading(u)') = Cardinality(Reading(u)) - 1
    <2>1. IsFiniteSet(Reading(u))
        BY ReadingIsFinite
    <2>2. Cardinality(Reading(u) \ {l}) = Cardinality(Reading(u)) - 1
        BY <1>1, <2>1, FS_RemoveElement
    <2> QED BY <1>1, <2>2, Zenon
<1>4. IsFiniteSet(Reading(u)')
    BY <1>1, ReadingIsFinite, FS_RemoveElement
<1> QED BY <1>1, <1>2, <1>3, <1>4, ReadingIsFinite, FS_CardinalityType

\* An empty table of users.
LEMMA InitIInv == Init => IInv
<1> SUFFICES ASSUME Init PROVE IInv
    OBVIOUS
<1> USE DEF Init
<1>1. TypeOK
    BY DEF TypeOK, Ticket, NoTicket, Act, NoAct
<1>2. Rows /\ Backing /\ ActsAreBacked /\ InactiveRunsOut
    BY DEF Rows, Backing, ActsAreBacked, InactiveRunsOut, NoAct
<1>3. Locking
    BY DEF Locking, IsLocked
<1> QED BY <1>1, <1>2, <1>3 DEF IInv

-----------------------------------------------------------------------------
\* What a client holds are tokens, with the fields of their kind.
LEMMA TokenFields ==
    ASSUME TypeOK, NEW k \in tokens
    PROVE  /\ k \in Token /\ k.user \in Users /\ k.exp \in Nat
           /\ k.kind = "access" => k.role \in Roles /\ k.stepUpAt \in {0} \cup Times
BY DEF TypeOK, Token

LEMMA IssuedFields ==
    ASSUME TypeOK, NEW u \in Users, NEW r \in Roles, NEW at \in {0} \cup Times
    PROVE  AccessToken(u, r, at) \in Token /\ RefreshToken(u) \in Token
BY DEF TypeOK, Token, AccessToken, RefreshToken

\* So is what a request that was let through leaves behind.
LEMMA AdmitFields ==
    ASSUME TypeOK, NEW k \in tokens, k.kind = "access",
           NEW verb \in {"approve", "reject", "revoke", "enrol"},
           NEW requester \in Users \cup {NoUser}, Admit(verb, k, requester)
    PROVE  act' \in Act
BY TokenFields DEF TypeOK, Admit, Act

\* What the rows and the clock hold are numbers and roles.
LEMMA RowFields ==
    ASSUME TypeOK
    PROVE  /\ now \in Nat /\ now # 0 /\ MaxTime \in Nat
           /\ \A u \in Users :
                /\ failed[u] \in Nat /\ locked[u] \in Nat /\ guesses[u] \in Nat
                /\ off[u] \in Nat /\ proved[u] \in Nat /\ changed[u] \in Nat
BY DEF TypeOK

\* The end of a login leaves the others with what they have read.
LEMMA EndsTyped ==
    ASSUME TypeOK, NEW l \in Logins, NEW u \in Users, Ends(l, u)
    PROVE  /\ login' \in [Logins -> Users \cup {NoUser}]
           /\ as' \in [Logins -> Roles \cup {"none"}]
           /\ \A m \in Logins : login'[m] # NoUser => login'[m] = login[m] /\ as'[m] = as[m]
BY DEF TypeOK, Ends

\* A step that starts no login, removes no account and gives no token to one that
\* is not there.
LEMMA RowsKept ==
    ASSUME TypeOK, Rows, TypeOK', now' >= now,
           \A l \in Logins : login'[l] # NoUser => login'[l] = login[l] /\ as'[l] = as[l],
           \A k \in tokens' : k \in tokens \/ (k.user \in Users /\ Exists(k.user)),
           \A u \in Users :
               /\ Exists(u) => role'[u] # "none"
               /\ off'[u] \in {off[u], now} /\ proved'[u] \in {proved[u], now}
               /\ changed'[u] \in {changed[u], now}
    PROVE  Rows'
<1>1. \A l \in Logins : login'[l] # NoUser => role'[login'[l]] # "none" /\ as'[l] \in Roles
    <2>1. \A l \in Logins : login[l] # NoUser => login[l] \in Users
        BY DEF TypeOK
    <2> QED BY <2>1 DEF Rows, Exists
<1>2. \A k \in tokens' : role'[k.user] # "none"
    <2>1. \A k \in tokens : k.user \in Users
        BY TokenFields
    <2> QED BY <2>1 DEF Rows, Exists
<1>3. \A u \in Users : off'[u] <= now' /\ proved'[u] <= now' /\ changed'[u] <= now'
    <2>1. now \in Nat /\ now' \in Nat
          /\ \A u \in Users : off[u] \in Nat /\ proved[u] \in Nat /\ changed[u] \in Nat
        BY RowFields DEF TypeOK
    <2> QED BY <2>1 DEF Rows
<1> QED BY <1>1, <1>2, <1>3 DEF Rows, Exists

\* The outcome of a login is written with the right types.
LEMMA TypeStep == IInv /\ [Next]_vars => TypeOK' /\ Rows'
<1> SUFFICES ASSUME TypeOK, Rows, [Next]_vars PROVE TypeOK' /\ Rows'
    BY DEF IInv
<1>0. /\ \A k \in tokens : k \in Token /\ k.user \in Users
      /\ \A u \in Users : failed[u] \in Nat /\ locked[u] \in Nat /\ guesses[u] \in Nat
    BY TokenFields DEF TypeOK
<1> USE DEF accounts, reads, history
<1>1. ASSUME NEW l \in Logins, NEW u \in Users, LoginReads(l, u) PROVE TypeOK' /\ Rows'
    <2>1. TypeOK'
        BY <1>0, <1>1 DEF LoginReads, Exists, TypeOK
    <2>2. Rows'
        BY <1>0, <1>1 DEF LoginReads, TypeOK, Rows, Exists
    <2> QED BY <2>1, <2>2
<1>2. ASSUME NEW l \in Logins, NEW u \in Users, LoginFails(l, u) PROVE TypeOK' /\ Rows'
    <2>1. Ends(l, u) /\ UNCHANGED <<role, off, tokens, now, ticket, lost, proved, changed>>
        BY <1>2 DEF LoginFails
    <2>2. failed' \in [Users -> Nat] /\ locked' \in [Users -> Nat] /\ guesses' \in [Users -> Nat]
        BY <1>2, RowFields DEF LoginFails, MarkLoginFailure, TypeOK
    <2>3. before' \subseteq Logins /\ act' = NoAct
        BY <1>2 DEF LoginFails, Reading, TypeOK
    <2>4. TypeOK'
        BY <2>1, <2>2, <2>3, EndsTyped DEF TypeOK
    <2>5. now' >= now
        BY <2>1, RowFields
    <2>6. Rows'
        BY <2>1, <2>4, <2>5, EndsTyped, RowsKept DEF Exists
    <2> QED BY <2>4, <2>6
<1>3. ASSUME NEW l \in Logins, NEW u \in Users, LoginFailsUnrecorded(l, u) PROVE TypeOK' /\ Rows'
    <2>1. Ends(l, u) /\ UNCHANGED <<accounts, tokens, now, ticket, proved, changed>>
        BY <1>3 DEF LoginFailsUnrecorded
    <2>2. guesses' \in [Users -> Nat] /\ lost' \in 0 .. MaxLost
        BY <1>3, RowFields DEF LoginFailsUnrecorded, TypeOK
    <2>3. before' \subseteq Logins /\ act' = NoAct
        BY <1>3 DEF LoginFailsUnrecorded, TypeOK
    <2>4. TypeOK'
        BY <2>1, <2>2, <2>3, EndsTyped DEF TypeOK
    <2>5. now' >= now
        BY <2>1, RowFields
    <2>6. Rows'
        BY <2>1, <2>4, <2>5, EndsTyped, RowsKept DEF Exists
    <2> QED BY <2>4, <2>6
<1>4. ASSUME NEW l \in Logins, NEW u \in Users, LoginSucceeds(l, u) PROVE TypeOK' /\ Rows'
    <2>1. Ends(l, u) /\ UNCHANGED <<role, off, now, ticket, lost, changed>>
          /\ proved' = [proved EXCEPT ![u] = now]
        BY <1>4 DEF LoginSucceeds
    <2>2. Exists(u) /\ as[l] \in Roles
        BY <2>1 DEF Ends, Rows
    <2>3. tokens' = tokens \cup {AccessToken(u, as[l], now), RefreshToken(u)}
        BY <1>4 DEF LoginSucceeds, Issue
    <2>4. AccessToken(u, as[l], now) \in Token /\ RefreshToken(u) \in Token
        BY <2>2, IssuedFields DEF TypeOK
    <2>5. AccessToken(u, as[l], now).user = u /\ RefreshToken(u).user = u
        BY DEF AccessToken, RefreshToken
    <2>6. /\ failed' \in [Users -> Nat] /\ locked' \in [Users -> Nat] /\ guesses' \in [Users -> Nat]
          /\ proved' \in [Users -> {0} \cup Times]
        BY <1>4 DEF LoginSucceeds, MarkLoginSuccess, TypeOK
    <2>7. before' \subseteq Logins /\ act' = NoAct
        BY <1>4 DEF LoginSucceeds, TypeOK
    <2>8. tokens' \subseteq Token
        BY <2>3, <2>4 DEF TypeOK
    <2>9. TypeOK'
        BY <2>1, <2>6, <2>7, <2>8, EndsTyped DEF TypeOK
    <2>10. now' >= now /\ \A v \in Users : proved'[v] \in {proved[v], now}
        BY <2>1, RowFields DEF TypeOK
    <2>11. \A k \in tokens' : k \in tokens \/ k.user = u
        BY <2>3, <2>5
    <2>12. Rows'
        BY <2>1, <2>2, <2>9, <2>10, <2>11, EndsTyped, RowsKept DEF Exists
    <2> QED BY <2>9, <2>12
<1>5. ASSUME NEW l \in Logins, NEW u \in Users, LoginAbandoned(l, u) PROVE TypeOK' /\ Rows'
    <2>1. /\ Ends(l, u) /\ UNCHANGED <<accounts, tokens, now, ticket, guesses, lost, proved, changed>>
          /\ before' = before \ {l} /\ act' = NoAct
        BY <1>5 DEF LoginAbandoned
    <2>2. TypeOK'
        BY <2>1, EndsTyped DEF TypeOK
    <2>3. now' >= now
        BY <2>1, RowFields
    <2>4. Rows'
        BY <2>1, <2>2, <2>3, EndsTyped, RowsKept DEF Exists
    <2> QED BY <2>2, <2>4
<1>6. ASSUME NEW k \in tokens, StepUp(k) PROVE TypeOK' /\ Rows'
    <2>1. k.user \in Users /\ k.role \in Roles /\ Exists(k.user)
        BY <1>6, TokenFields DEF StepUp, Valid, Rows
    <2>2. /\ tokens' = tokens \cup {AccessToken(k.user, k.role, now)} /\ act' = NoAct
          /\ UNCHANGED <<accounts, reads, now, ticket, guesses, lost, before, changed>>
          /\ proved' = [proved EXCEPT ![k.user] = now]
        BY <1>6 DEF StepUp, Issue
    <2>3. AccessToken(k.user, k.role, now) \in Token
        BY <2>1, IssuedFields DEF TypeOK
    <2>4. AccessToken(k.user, k.role, now).user = k.user
        BY DEF AccessToken
    <2>5. proved' \in [Users -> {0} \cup Times] /\ \A v \in Users : proved'[v] \in {proved[v], now}
        BY <2>1, <2>2 DEF TypeOK
    <2>6. TypeOK'
        BY <2>2, <2>3, <2>5 DEF TypeOK
    <2>7. now' >= now
        BY <2>2, RowFields
    <2>8. \A m \in tokens' : m \in tokens \/ m.user = k.user
        BY <2>2, <2>4
    <2>9. Rows'
        BY <2>1, <2>2, <2>5, <2>6, <2>7, <2>8, RowsKept DEF Exists
    <2> QED BY <2>6, <2>9
<1>7. ASSUME NEW k \in tokens, Refresh(k) PROVE TypeOK' /\ Rows'
    <2>1. k.user \in Users /\ role[k.user] \in Roles /\ Exists(k.user)
        BY TokenFields DEF Rows, Exists, TypeOK
    <2>2. /\ tokens' = tokens \cup {AccessToken(k.user, role[k.user], 0)} /\ act' = NoAct
          /\ UNCHANGED <<accounts, reads, now, ticket, history>>
        BY <1>7 DEF Refresh, Issue
    <2>3. AccessToken(k.user, role[k.user], 0) \in Token
        BY <2>1, IssuedFields
    <2>4. AccessToken(k.user, role[k.user], 0).user = k.user
        BY DEF AccessToken
    <2>5. TypeOK'
        BY <2>2, <2>3 DEF TypeOK
    <2>6. now' >= now
        BY <2>2, RowFields
    <2>7. \A m \in tokens' : m \in tokens \/ m.user = k.user
        BY <2>2, <2>4
    <2>8. Rows'
        BY <2>1, <2>2, <2>5, <2>6, <2>7, RowsKept DEF Exists
    <2> QED BY <2>5, <2>8
<1>8. ASSUME NEW k \in tokens, Forget(k) PROVE TypeOK' /\ Rows'
    <2>1. TypeOK'
        BY <1>0, <1>8 DEF Forget, TypeOK
    <2>2. now' >= now
        BY <1>8, RowFields DEF Forget
    <2>3. \A v \in Users : /\ Exists(v) => role'[v] # "none"
                           /\ off'[v] \in {off[v], now} /\ changed'[v] \in {changed[v], now}
        BY <1>8 DEF Forget, Exists, TypeOK
    <2>4. Rows'
        BY <1>8, <2>1, <2>2, <2>3, RowsKept DEF Forget
    <2> QED BY <2>1, <2>4
<1>9. ASSUME NEW k \in tokens, Enrol(k) PROVE TypeOK' /\ Rows'
    <2>1. act' \in Act
        BY <1>9, AdmitFields DEF Enrol, Authenticated, Valid
    <2> QED BY <1>9, <2>1 DEF Enrol, TypeOK, Rows, Exists
<1>10. ASSUME NEW k \in tokens, NEW t \in Tickets, Submit(k, t) PROVE TypeOK' /\ Rows'
    <2>1. TypeOK'
        BY <1>0, <1>10 DEF Submit, Ticket, TypeOK
    <2>2. now' >= now
        BY <1>10, RowFields DEF Submit
    <2>3. \A v \in Users : /\ Exists(v) => role'[v] # "none"
                           /\ off'[v] \in {off[v], now} /\ changed'[v] \in {changed[v], now}
        BY <1>10 DEF Submit, Exists, TypeOK
    <2>4. Rows'
        BY <1>10, <2>1, <2>2, <2>3, RowsKept DEF Submit
    <2> QED BY <2>1, <2>4
<1>11. ASSUME NEW k \in tokens, NEW t \in Tickets, Revoke(k, t) PROVE TypeOK' /\ Rows'
    <2>1. ticket[t] \in Ticket /\ ticket[t].requester \in Users
        BY <1>11 DEF Revoke, TypeOK, Ticket, NoTicket
    <2>2. act' \in Act
        BY <1>11, <2>1, AdmitFields DEF Revoke, Authenticated, Valid
    <2>3. ticket' \in [Tickets -> Ticket \cup {NoTicket}]
        BY <1>11, <2>1 DEF Revoke, TypeOK, Ticket
    <2> QED BY <1>11, <2>2, <2>3 DEF Revoke, TypeOK, Rows, Exists
<1>12. ASSUME NEW k \in tokens, NEW t \in Tickets, NEW verb \in {"approve", "reject"},
              Decide(k, t, verb)
       PROVE  TypeOK' /\ Rows'
    <2>1. ticket[t] \in Ticket /\ ticket[t].requester \in Users
        BY <1>12 DEF Decide, TypeOK, Ticket, NoTicket
    <2>2. act' \in Act
        BY <1>12, <2>1, AdmitFields DEF Decide, Authenticated, Valid
    <2>3. ticket' \in [Tickets -> Ticket \cup {NoTicket}]
        BY <1>12, <2>1 DEF Decide, TypeOK, Ticket
    <2> QED BY <1>12, <2>2, <2>3 DEF Decide, TypeOK, Rows, Exists
<1>13. ASSUME NEW k \in tokens, NEW u \in Users, NEW r \in Roles, CreateUser(k, u, r)
      PROVE  TypeOK' /\ Rows'
    <2>1. TypeOK'
        BY <1>0, <1>13 DEF CreateUser, TypeOK
    <2>2. now' >= now
        BY <1>13, RowFields DEF CreateUser
    <2>3. \A v \in Users : /\ Exists(v) => role'[v] # "none"
                           /\ off'[v] \in {off[v], now} /\ changed'[v] \in {changed[v], now}
        BY <1>13 DEF CreateUser, Exists, TypeOK
    <2>4. Rows'
        BY <1>13, <2>1, <2>2, <2>3, RowsKept DEF CreateUser
    <2> QED BY <2>1, <2>4
<1>14. ASSUME SeedAdmin PROVE TypeOK' /\ Rows'
    <2>1. TypeOK'
        BY <1>0, <1>14 DEF SeedAdmin, TypeOK
    <2>2. now' >= now
        BY <1>14, RowFields DEF SeedAdmin
    <2>3. \A v \in Users : /\ Exists(v) => role'[v] # "none"
                           /\ off'[v] \in {off[v], now} /\ changed'[v] \in {changed[v], now}
        BY <1>14 DEF SeedAdmin, Exists, TypeOK
    <2>4. Rows'
        BY <1>14, <2>1, <2>2, <2>3, RowsKept DEF SeedAdmin
    <2> QED BY <2>1, <2>4
<1>15. ASSUME NEW u \in Users, Deactivate(u) PROVE TypeOK' /\ Rows'
    <2>1. TypeOK'
        BY <1>0, <1>15 DEF Deactivate, TypeOK
    <2>2. now' >= now
        BY <1>15, RowFields DEF Deactivate
    <2>3. \A v \in Users : /\ Exists(v) => role'[v] # "none"
                           /\ off'[v] \in {off[v], now} /\ changed'[v] \in {changed[v], now}
        BY <1>15 DEF Deactivate, Exists, TypeOK
    <2>4. Rows'
        BY <1>15, <2>1, <2>2, <2>3, RowsKept DEF Deactivate
    <2> QED BY <2>1, <2>4
<1>16. ASSUME NEW u \in Users, NEW r \in Roles, ChangeRole(u, r) PROVE TypeOK' /\ Rows'
    <2>1. TypeOK'
        BY <1>0, <1>16 DEF ChangeRole, TypeOK
    <2>2. now' >= now
        BY <1>16, RowFields DEF ChangeRole
    <2>3. \A v \in Users : /\ Exists(v) => role'[v] # "none"
                           /\ off'[v] \in {off[v], now} /\ changed'[v] \in {changed[v], now}
        BY <1>16 DEF ChangeRole, Exists, TypeOK
    <2>4. Rows'
        BY <1>16, <2>1, <2>2, <2>3, RowsKept DEF ChangeRole
    <2> QED BY <2>1, <2>4
<1>17. ASSUME Tick PROVE TypeOK' /\ Rows'
    <2>1. now' = now + 1 /\ now' \in Times /\ act' = NoAct
          /\ UNCHANGED <<accounts, reads, tokens, ticket, lost, before, proved, changed>>
        BY <1>17, RowFields DEF Tick, TypeOK
    <2>2. guesses' \in [Users -> Nat]
        BY <1>17, RowFields DEF Tick
    <2>3. TypeOK'
        BY <2>1, <2>2 DEF TypeOK
    <2>4. now' >= now
        BY <2>1, RowFields
    <2>5. Rows'
        BY <2>1, <2>3, <2>4, RowsKept DEF Exists
    <2> QED BY <2>3, <2>5
<1>18. CASE UNCHANGED vars
    BY <1>18 DEF vars, TypeOK, Rows, Exists
<1> QED BY <1>1, <1>2, <1>3, <1>4, <1>5, <1>6, <1>7, <1>8, <1>9, <1>10, <1>11,
           <1>12, <1>13, <1>14, <1>15, <1>16, <1>17, <1>18 DEF Next

\* An action that touches neither the logins nor their counts.
LEMMA LockingKept ==
    ASSUME Locking, UNCHANGED <<failed, locked, login, now, guesses, lost, before>>
    PROVE  Locking'
BY DEF Locking, IsLocked, Reading

\* Logins that overlap with the one that sets a lock are the only ones that can
\* still fail while it holds.
LEMMA LockingStep == IInv /\ [Next]_vars => Locking'
<1> SUFFICES ASSUME IInv, [Next]_vars PROVE Locking'
    OBVIOUS
<1> USE DEF IInv, TypeOK
<1>1. ASSUME NEW l \in Logins, NEW u \in Users, LoginReads(l, u) PROVE Locking'
  <2>1. ~IsLocked(u) /\ ~IsLocked(u)'
      BY <1>1 DEF LoginReads, IsLocked, accounts
  <2>2. \A v \in Users \ {u} : Reading(v)' = Reading(v)
      BY <1>1 DEF LoginReads, Reading
  <2> QED BY <1>1, <2>1, <2>2 DEF LoginReads, Locking, IsLocked, accounts, reads, history
<1>2. ASSUME NEW l \in Logins, NEW u \in Users, LoginFails(l, u) PROVE Locking'
  <2> SUFFICES ASSUME NEW v \in Users PROVE Locking!(v)'
      BY DEF Locking
  <2>1. CASE v # u
    <3>1. Reading(v)' = Reading(v) /\ (Reading(v) \subseteq before => Reading(v) \subseteq before')
        BY <1>2, <2>1, EndsReading DEF LoginFails, Ends, Reading
    <3> QED BY <1>2, <2>1, <3>1 DEF Locking, IsLocked, LoginFails, MarkLoginFailure
  <2>2. CASE v = u
    <3> USE <2>2
    <3>1. Reading(u)' = Reading(u) \ {l} /\ Cardinality(Reading(u)') = Cardinality(Reading(u)) - 1
          /\ Cardinality(Reading(u)') <= Cardinality(Logins) - 1 /\ Cardinality(Reading(u)') \in Nat
          /\ Cardinality(Reading(u)) \in Nat /\ Cardinality(Logins) \in Nat
        BY <1>2, EndsReading, ReadingIsFinite DEF LoginFails
    <3>2. IsLocked(u)' =>
             guesses'[u] + Cardinality(Reading(u)') <= (MaxFailures - 1) + Cardinality(Logins) + lost'
        BY <1>2, <3>1 DEF Locking, IsLocked, LoginFails, MarkLoginFailure
    <3>3. IsLocked(u)' => Reading(u)' \subseteq before'
        BY <1>2, <3>1 DEF Locking, IsLocked, LoginFails, MarkLoginFailure
    <3>4. ~IsLocked(u)' =>
             guesses'[u] <= (IF failed'[u] < MaxFailures THEN failed'[u] ELSE 0) + lost'
        BY <1>2 DEF Locking, IsLocked, LoginFails, MarkLoginFailure
    <3> QED BY <3>2, <3>3, <3>4
  <2> QED BY <2>1, <2>2
<1>3. ASSUME NEW l \in Logins, NEW u \in Users, LoginFailsUnrecorded(l, u) PROVE Locking'
  <2> SUFFICES ASSUME NEW v \in Users PROVE Locking!(v)'
      BY DEF Locking
  <2>0. Cardinality(Reading(v)) \in Nat /\ Cardinality(Logins) \in Nat
      BY ReadingIsFinite
  <2>1. CASE v # u
    <3>1. Reading(v)' = Reading(v) /\ (Reading(v) \subseteq before => Reading(v) \subseteq before')
        BY <1>3, <2>1, EndsReading DEF LoginFailsUnrecorded, Ends, Reading
    <3> QED BY <1>3, <2>0, <2>1, <3>1 DEF Locking, IsLocked, LoginFailsUnrecorded, accounts
  <2>2. CASE v = u
    <3>1. Reading(u)' = Reading(u) \ {l} /\ Cardinality(Reading(u)') = Cardinality(Reading(u)) - 1
        BY <1>3, EndsReading DEF LoginFailsUnrecorded
    <3> QED BY <1>3, <2>0, <2>2, <3>1 DEF Locking, IsLocked, LoginFailsUnrecorded, accounts
  <2> QED BY <2>1, <2>2
<1>4. ASSUME NEW l \in Logins, NEW u \in Users, LoginSucceeds(l, u) PROVE Locking'
  <2> SUFFICES ASSUME NEW v \in Users PROVE Locking!(v)'
      BY DEF Locking
  <2>1. CASE v # u
    <3>1. Reading(v)' = Reading(v) /\ (Reading(v) \subseteq before => Reading(v) \subseteq before')
        BY <1>4, <2>1, EndsReading DEF LoginSucceeds, Ends, Reading
    <3> QED BY <1>4, <2>1, <3>1 DEF Locking, IsLocked, LoginSucceeds, MarkLoginSuccess
  <2>2. CASE v = u
      BY <1>4, <2>2 DEF Locking, IsLocked, LoginSucceeds, MarkLoginSuccess
  <2> QED BY <2>1, <2>2
<1>5. ASSUME NEW l \in Logins, NEW u \in Users, LoginAbandoned(l, u) PROVE Locking'
  <2> SUFFICES ASSUME NEW v \in Users PROVE Locking!(v)'
      BY DEF Locking
  <2>0. Cardinality(Reading(v)) \in Nat /\ Cardinality(Logins) \in Nat
      BY ReadingIsFinite
  <2>1. CASE v # u
    <3>1. Reading(v)' = Reading(v) /\ (Reading(v) \subseteq before => Reading(v) \subseteq before')
        BY <1>5, <2>1, EndsReading DEF LoginAbandoned, Ends, Reading
    <3> QED BY <1>5, <2>1, <3>1 DEF Locking, IsLocked, LoginAbandoned, accounts
  <2>2. CASE v = u
    <3>1. Reading(u)' = Reading(u) \ {l} /\ Cardinality(Reading(u)') = Cardinality(Reading(u)) - 1
        BY <1>5, EndsReading DEF LoginAbandoned
    <3> QED BY <1>5, <2>0, <2>2, <3>1 DEF Locking, IsLocked, LoginAbandoned, accounts
  <2> QED BY <2>1, <2>2
<1>6. ASSUME NEW k \in tokens,
             StepUp(k) \/ Refresh(k) \/ Forget(k) \/ Enrol(k)
      PROVE  Locking'
    BY <1>6, LockingKept DEF StepUp, Refresh, Forget, Enrol, accounts, reads, history
<1>7. ASSUME NEW k \in tokens, NEW t \in Tickets,
             \/ Submit(k, t) \/ Revoke(k, t)
             \/ \E verb \in {"approve", "reject"} : Decide(k, t, verb)
      PROVE  Locking'
    BY <1>7, LockingKept DEF Submit, Revoke, Decide, accounts, reads, history
<1>8. ASSUME NEW k \in tokens, NEW u \in Users, NEW r \in Roles, CreateUser(k, u, r)
      PROVE  Locking'
    BY <1>8, LockingKept DEF CreateUser, reads, history
<1>9. ASSUME NEW u \in Users, SeedAdmin \/ Deactivate(u) PROVE Locking'
    BY <1>9, LockingKept DEF SeedAdmin, Deactivate, reads, history
<1>12. ASSUME NEW u \in Users, NEW r \in Roles, ChangeRole(u, r) PROVE Locking'
    BY <1>12, LockingKept DEF ChangeRole, reads
<1>10. ASSUME Tick PROVE Locking'
  <2> SUFFICES ASSUME NEW v \in Users PROVE Locking!(v)'
      BY DEF Locking
  <2>1. Reading(v)' = Reading(v)
      BY <1>10 DEF Tick, Reading, reads
  <2> QED BY <1>10, <2>1 DEF Tick, Locking, IsLocked, accounts
<1>11. CASE UNCHANGED vars
    BY <1>11, LockingKept DEF vars, accounts, reads, history
<1> QED BY <1>1, <1>2, <1>3, <1>4, <1>5, <1>6, <1>7, <1>8, <1>9, <1>10, <1>11, <1>12 DEF Next

\* A step that issues no token, changes no role of an account that is there, and
\* starts no login.
LEMMA BackingKept ==
    ASSUME TypeOK, Rows, Backing, InactiveRunsOut, TypeOK',
           tokens' \subseteq tokens, now' >= now,
           \A l \in Logins : login'[l] # NoUser => login'[l] = login[l] /\ as'[l] = as[l],
           \A u \in Users : Exists(u) => role'[u] = role[u],
           UNCHANGED <<proved, changed, off>>
    PROVE  Backing' /\ InactiveRunsOut'
<1>1. \A k \in tokens : k.user \in Users /\ k.exp \in Nat /\ Exists(k.user)
    BY TokenFields DEF Rows
<1>2. \A l \in Logins : login[l] # NoUser => login[l] \in Users /\ Exists(login[l])
    BY DEF TypeOK, Rows
<1>3. now \in Nat /\ now' \in Nat /\ AccessTTL \in Nat
    BY RowFields DEF TypeOK
<1>4. Backing'
    <2>1. ASSUME NEW k \in tokens', k.kind = "access"
          PROVE  /\ k.role # role'[k.user] =>
                       /\ changed[k.user] # 0
                       /\ k.exp <= changed[k.user] + AccessTTL \/ proved[k.user] >= changed[k.user]
                 /\ k.stepUpAt <= proved[k.user]
        BY <1>1, <2>1 DEF Backing
    <2>2. ASSUME NEW k \in tokens', k.kind = "access" PROVE k.exp <= now' + AccessTTL
        <3>1. k.exp \in Nat /\ k.exp <= now + AccessTTL
            BY <1>1, <2>2 DEF Backing
        <3> QED BY <1>3, <3>1
    <2>3. \A l \in Logins : login'[l] # NoUser /\ as'[l] # role'[login'[l]] =>
              changed[login'[l]] # 0
        BY <1>2 DEF Backing
    <2> QED BY <2>1, <2>2, <2>3 DEF Backing
<1>5. InactiveRunsOut'
    BY <1>1 DEF InactiveRunsOut
<1> QED BY <1>4, <1>5

\* A step that issues tokens: with the role of the row, and for an account that is
\* not retired, or with a password that is shown.
LEMMA BackingIssued ==
    ASSUME TypeOK, Rows, Backing, InactiveRunsOut, TypeOK',
           NEW new, tokens' = tokens \cup new,
           UNCHANGED <<role, off, changed, now>>,
           \A u \in Users : proved'[u] \in {proved[u], now},
           \A l \in Logins : login'[l] # NoUser => login'[l] = login[l] /\ as'[l] = as[l],
           \A k \in new : k.kind = "access" =>
               /\ k.user \in Users /\ k.exp = now + AccessTTL
               /\ k.stepUpAt <= proved'[k.user]
               /\ k.role # role[k.user] => changed[k.user] # 0 /\ proved'[k.user] = now
               /\ off[k.user] # 0 => proved'[k.user] = now
    PROVE  Backing' /\ InactiveRunsOut'
<1>1. \A k \in tokens : k.user \in Users /\ k.exp \in Nat
    BY TokenFields
<1>2. \A k \in tokens : k.kind = "access" => k.stepUpAt \in Nat
    BY TokenFields
<1>3. now \in Nat /\ \A u \in Users :
        /\ proved[u] \in Nat /\ changed[u] \in Nat /\ off[u] \in Nat
        /\ proved[u] <= now /\ changed[u] <= now /\ off[u] <= now
    BY DEF TypeOK, Rows
<1>4. \A u \in Users : proved'[u] \in Nat /\ proved[u] <= proved'[u]
    BY <1>3
<1>5. ASSUME NEW k \in tokens', k.kind = "access"
      PROVE  /\ k.role # role[k.user] =>
                   /\ changed[k.user] # 0
                   /\ k.exp <= changed[k.user] + AccessTTL \/ proved'[k.user] >= changed[k.user]
             /\ k.stepUpAt <= proved'[k.user]
             /\ k.exp <= now + AccessTTL
             /\ off[k.user] # 0 => k.exp <= off[k.user] + AccessTTL \/ proved'[k.user] >= off[k.user]
    <2>1. CASE k \in tokens
        BY <1>1, <1>2, <1>3, <1>4, <1>5, <2>1 DEF Backing, InactiveRunsOut
    <2>2. CASE k \in new
        BY <1>3, <1>5, <2>2
    <2> QED BY <2>1, <2>2
<1>6. Backing'
    BY <1>5 DEF Backing
<1>7. InactiveRunsOut'
    BY <1>5 DEF InactiveRunsOut
<1> QED BY <1>6, <1>7

\* Whom a valid token lets through is backed by its account.
LEMMA ActBacked ==
    ASSUME TypeOK, Rows, Backing, NEW k \in tokens,
           NEW verb \in {"approve", "reject", "revoke", "enrol"}, NEW requester,
           Admit(verb, k, requester), UNCHANGED <<role, changed>>,
           Valid(k, "access"), RequireStepUp(k),
           verb \in {"approve", "reject"} => k.role \in {"approver", "admin"} /\ requester # k.user,
           verb = "revoke" => k.role = "admin" \/ requester = k.user,
           verb = "enrol" => k.role = "admin"
    PROVE  ActsAreBacked'
<1>1. /\ k.user \in Users /\ k.exp \in Nat /\ k.stepUpAt \in Nat /\ now \in Nat
      /\ proved[k.user] \in Nat /\ changed[k.user] \in Nat /\ proved[k.user] <= now
    <2>1. k.kind = "access"
        BY DEF Valid
    <2>2. k.user \in Users /\ k.exp \in Nat /\ k.stepUpAt \in Nat
        BY <2>1, TokenFields, RowFields
    <2> QED BY <2>2, RowFields DEF Rows
<1>2. proved[k.user] # 0 /\ now - proved[k.user] <= Window
    BY <1>1 DEF Backing, RequireStepUp, Valid
<1>3. k.role # role[k.user] =>
        /\ changed[k.user] # 0
        /\ now < changed[k.user] + AccessTTL \/ proved[k.user] >= changed[k.user]
    BY <1>1 DEF Backing, Valid
<1>4. /\ act'.verb = verb /\ act'.by = k.user /\ act'.role = k.role /\ act'.requester = requester
      /\ act'.at = now /\ act'.proof = proved[k.user]
    BY DEF Admit
<1> QED BY <1>2, <1>3, <1>4 DEF ActsAreBacked

\* Every request is let through by a token that its account backs, and a
\* retired account gets no new one from a refresh.
LEMMA BackingStep == IInv /\ [Next]_vars => Backing' /\ ActsAreBacked' /\ InactiveRunsOut'
<1> SUFFICES ASSUME TypeOK, Rows, Backing, ActsAreBacked, InactiveRunsOut, TypeOK', [Next]_vars
             PROVE  Backing' /\ ActsAreBacked' /\ InactiveRunsOut'
    BY TypeStep DEF IInv
<1>0. /\ act' = NoAct => ActsAreBacked'
      /\ now \in Nat /\ now >= now /\ now # 0
    BY RowFields DEF ActsAreBacked
<1> USE DEF accounts, reads, history
<1>1. ASSUME NEW l \in Logins, NEW u \in Users, LoginReads(l, u)
      PROVE  Backing' /\ ActsAreBacked' /\ InactiveRunsOut'
    <2>0. login \in [Logins -> Users \cup {NoUser}] /\ as \in [Logins -> Roles \cup {"none"}]
        BY DEF TypeOK
    <2>1. \A m \in Logins : m = l \/ (login'[m] = login[m] /\ as'[m] = as[m])
        <3>1. login' = [login EXCEPT ![l] = u] /\ as' = [as EXCEPT ![l] = role[u]]
            BY <1>1 DEF LoginReads
        <3> QED BY <2>0, <3>1
    <2>2. login'[l] = u /\ as'[l] = role[u]
        BY <1>1 DEF LoginReads, TypeOK
    <2>3. UNCHANGED <<tokens, role, changed, proved, now, off>> /\ act' = NoAct
        BY <1>1 DEF LoginReads
    <2>4. Backing'
        BY <2>1, <2>2, <2>3 DEF Backing
    <2>5. InactiveRunsOut'
        BY <2>3 DEF InactiveRunsOut
    <2> QED BY <1>0, <2>3, <2>4, <2>5
<1>2. ASSUME NEW l \in Logins, NEW u \in Users,
             LoginFails(l, u) \/ LoginFailsUnrecorded(l, u) \/ LoginAbandoned(l, u)
      PROVE  Backing' /\ ActsAreBacked' /\ InactiveRunsOut'
    <2>1. /\ UNCHANGED <<tokens, now, role, off, changed, proved>> /\ act' = NoAct
          /\ Ends(l, u)
        BY <1>2 DEF LoginFails, LoginFailsUnrecorded, LoginAbandoned
    <2>2. \A m \in Logins : login'[m] # NoUser => login'[m] = login[m] /\ as'[m] = as[m]
        BY <2>1 DEF Ends, TypeOK
    <2> QED BY <1>0, <2>1, <2>2, BackingKept
<1>3. ASSUME NEW l \in Logins, NEW u \in Users, LoginSucceeds(l, u)
      PROVE  Backing' /\ ActsAreBacked' /\ InactiveRunsOut'
    <2> DEFINE new == {AccessToken(u, as[l], now), RefreshToken(u)}
    <2>1. /\ tokens' = tokens \cup new /\ act' = NoAct
          /\ UNCHANGED <<role, off, changed, now>> /\ proved' = [proved EXCEPT ![u] = now]
          /\ Ends(l, u)
        BY <1>3 DEF LoginSucceeds, Issue, MarkLoginSuccess
    <2>2. \A m \in Logins : login'[m] # NoUser => login'[m] = login[m] /\ as'[m] = as[m]
        BY <2>1 DEF Ends, TypeOK
    <2>3. as[l] # role[u] => changed[u] # 0
        BY <2>1 DEF Ends, Backing
    <2>4. proved'[u] = now /\ \A v \in Users : proved'[v] \in {proved[v], now}
        BY <2>1 DEF TypeOK
    <2>5. \A k \in new : k.kind = "access" =>
            k.user = u /\ k.exp = now + AccessTTL /\ k.stepUpAt = now /\ k.role = as[l]
        <3>1. RefreshToken(u).kind # "access"
            BY DEF RefreshToken
        <3>2. LET k == AccessToken(u, as[l], now)
              IN  k.user = u /\ k.exp = now + AccessTTL /\ k.stepUpAt = now /\ k.role = as[l]
            BY DEF AccessToken
        <3> QED BY <3>1, <3>2
    <2>6. \A k \in new : k.kind = "access" =>
               /\ k.user \in Users /\ k.exp = now + AccessTTL
               /\ k.stepUpAt <= proved'[k.user]
               /\ k.role # role[k.user] => changed[k.user] # 0 /\ proved'[k.user] = now
               /\ off[k.user] # 0 => proved'[k.user] = now
        BY <1>0, <2>3, <2>4, <2>5
    <2> HIDE DEF new
    <2> QED BY <1>0, <2>1, <2>2, <2>4, <2>6, BackingIssued
<1>4. ASSUME NEW k \in tokens, StepUp(k)
      PROVE  Backing' /\ ActsAreBacked' /\ InactiveRunsOut'
    <2> DEFINE new == {AccessToken(k.user, k.role, now)}
    <2>1. /\ tokens' = tokens \cup new /\ act' = NoAct
          /\ UNCHANGED <<role, off, changed, now, login, as>>
          /\ proved' = [proved EXCEPT ![k.user] = now]
          /\ k.kind = "access"
        BY <1>4 DEF StepUp, Issue, Valid
    <2>2. k.user \in Users /\ (k.role # role[k.user] => changed[k.user] # 0)
        BY <2>1, TokenFields DEF Backing
    <2>3. proved'[k.user] = now /\ \A v \in Users : proved'[v] \in {proved[v], now}
        BY <2>1, <2>2 DEF TypeOK
    <2>4. \A m \in new :
            m.user = k.user /\ m.exp = now + AccessTTL /\ m.stepUpAt = now /\ m.role = k.role
        BY DEF AccessToken
    <2>5. \A m \in new : m.kind = "access" =>
               /\ m.user \in Users /\ m.exp = now + AccessTTL
               /\ m.stepUpAt <= proved'[m.user]
               /\ m.role # role[m.user] => changed[m.user] # 0 /\ proved'[m.user] = now
               /\ off[m.user] # 0 => proved'[m.user] = now
        BY <1>0, <2>2, <2>3, <2>4
    <2> HIDE DEF new
    <2> QED BY <1>0, <2>1, <2>3, <2>5, BackingIssued
<1>5. ASSUME NEW k \in tokens, Refresh(k)
      PROVE  Backing' /\ ActsAreBacked' /\ InactiveRunsOut'
    <2> DEFINE new == {AccessToken(k.user, role[k.user], 0)}
    <2>1. /\ tokens' = tokens \cup new /\ act' = NoAct /\ off[k.user] = 0
          /\ UNCHANGED <<role, off, changed, now, login, as, proved>>
        BY <1>5 DEF Refresh, Issue
    <2>2. k.user \in Users /\ proved[k.user] \in Nat
        BY TokenFields, RowFields
    <2>3. \A m \in new :
            m.user = k.user /\ m.exp = now + AccessTTL /\ m.stepUpAt = 0 /\ m.role = role[k.user]
        BY DEF AccessToken
    <2>4. \A m \in new : m.kind = "access" =>
               /\ m.user \in Users /\ m.exp = now + AccessTTL
               /\ m.stepUpAt <= proved'[m.user]
               /\ m.role # role[m.user] => changed[m.user] # 0 /\ proved'[m.user] = now
               /\ off[m.user] # 0 => proved'[m.user] = now
        BY <2>1, <2>2, <2>3
    <2> HIDE DEF new
    <2> QED BY <1>0, <2>1, <2>4, BackingIssued
<1>6. ASSUME NEW k \in tokens, Enrol(k)
      PROVE  Backing' /\ ActsAreBacked' /\ InactiveRunsOut'
    <2>1. UNCHANGED <<accounts, login, as, tokens, now, proved, changed>>
        BY <1>6 DEF Enrol
    <2>2. ActsAreBacked'
        BY <1>6, <2>1, ActBacked DEF Enrol, Authenticated, RequireRole
    <2> QED BY <1>0, <2>1, <2>2, BackingKept
<1>7. ASSUME NEW k \in tokens, NEW t \in Tickets, Submit(k, t)
      PROVE  Backing' /\ ActsAreBacked' /\ InactiveRunsOut'
    <2>1. /\ UNCHANGED <<accounts, login, as, now, proved, changed>> /\ act' = NoAct
          /\ tokens' \subseteq tokens
        BY <1>7 DEF Submit
    <2> QED BY <1>0, <2>1, BackingKept
<1>8. ASSUME NEW k \in tokens, NEW t \in Tickets, Revoke(k, t)
      PROVE  Backing' /\ ActsAreBacked' /\ InactiveRunsOut'
    <2>1. UNCHANGED <<accounts, login, as, tokens, now, proved, changed>>
        BY <1>8 DEF Revoke
    <2>2. ActsAreBacked'
        BY <1>8, <2>1, ActBacked DEF Revoke, Authenticated
    <2> QED BY <1>0, <2>1, <2>2, BackingKept
<1>9. ASSUME NEW k \in tokens, NEW t \in Tickets, NEW verb \in {"approve", "reject"},
             Decide(k, t, verb)
      PROVE  Backing' /\ ActsAreBacked' /\ InactiveRunsOut'
    <2>1. UNCHANGED <<accounts, login, as, tokens, now, proved, changed>>
        BY <1>9 DEF Decide
    <2>2. ActsAreBacked'
        BY <1>9, <2>1, ActBacked DEF Decide, Authenticated, RequireRole
    <2> QED BY <1>0, <2>1, <2>2, BackingKept
<1>10. ASSUME NEW k \in tokens, NEW u \in Users, NEW r \in Roles, CreateUser(k, u, r)
       PROVE  Backing' /\ ActsAreBacked' /\ InactiveRunsOut'
    <2>1. /\ UNCHANGED <<off, login, as, tokens, now, proved, changed>> /\ act' = NoAct
          /\ \A v \in Users : Exists(v) => role'[v] = role[v]
        BY <1>10 DEF CreateUser, TypeOK
    <2> QED BY <1>0, <2>1, BackingKept
<1>11. ASSUME SeedAdmin
       PROVE  Backing' /\ ActsAreBacked' /\ InactiveRunsOut'
    <2>1. /\ UNCHANGED <<off, login, as, tokens, now, proved, changed>> /\ act' = NoAct
          /\ \A v \in Users : Exists(v) => role'[v] = role[v]
        BY <1>11 DEF SeedAdmin
    <2> QED BY <1>0, <2>1, BackingKept
<1>12. ASSUME NEW u \in Users, Deactivate(u)
       PROVE  Backing' /\ ActsAreBacked' /\ InactiveRunsOut'
    <2>1. /\ UNCHANGED <<role, login, as, tokens, now, proved, changed>> /\ act' = NoAct
          /\ off' = [off EXCEPT ![u] = now]
        BY <1>12 DEF Deactivate
    <2>2. Backing'
        BY <2>1 DEF Backing
    <2>3. ASSUME NEW k \in tokens, k.kind = "access"
          PROVE  off'[k.user] # 0 => k.exp <= off'[k.user] + AccessTTL \/ proved[k.user] >= off'[k.user]
        <3>1. k.user \in Users /\ (off'[k.user] = off[k.user] \/ off'[k.user] = now)
            BY <2>1, TokenFields DEF TypeOK
        <3> QED BY <2>3, <3>1 DEF Backing, InactiveRunsOut
    <2>4. InactiveRunsOut'
        BY <2>1, <2>3 DEF InactiveRunsOut
    <2> QED BY <1>0, <2>1, <2>2, <2>4
<1>13. ASSUME NEW u \in Users, NEW r \in Roles, ChangeRole(u, r)
       PROVE  Backing' /\ ActsAreBacked' /\ InactiveRunsOut'
    <2>1. /\ UNCHANGED <<off, login, as, tokens, now, proved>> /\ act' = NoAct
          /\ role' = [role EXCEPT ![u] = r] /\ changed' = [changed EXCEPT ![u] = now]
        BY <1>13 DEF ChangeRole
    <2>2. now # 0 /\ \A v \in Users :
            \/ v = u /\ changed'[v] = now
            \/ v # u /\ role'[v] = role[v] /\ changed'[v] = changed[v]
        BY <2>1 DEF TypeOK
    <2>3. ASSUME NEW k \in tokens, k.kind = "access", k.role # role'[k.user]
          PROVE  /\ changed'[k.user] # 0
                 /\ k.exp <= changed'[k.user] + AccessTTL \/ proved[k.user] >= changed'[k.user]
        <3>1. k.user \in Users
            BY TokenFields
        <3> QED BY <2>2, <2>3, <3>1 DEF Backing
    <2>4. ASSUME NEW l \in Logins, login[l] # NoUser, as[l] # role'[login[l]]
          PROVE  changed'[login[l]] # 0
        <3>1. login[l] \in Users
            BY <2>4 DEF TypeOK
        <3> QED BY <2>2, <2>4, <3>1 DEF Backing
    <2>5. Backing'
        BY <2>1, <2>3, <2>4 DEF Backing
    <2>6. InactiveRunsOut'
        BY <2>1 DEF InactiveRunsOut
    <2> QED BY <1>0, <2>1, <2>5, <2>6
<1>14. ASSUME Tick PROVE Backing' /\ ActsAreBacked' /\ InactiveRunsOut'
    <2>1. /\ UNCHANGED <<accounts, login, as, tokens, proved, changed>> /\ act' = NoAct
          /\ now' = now + 1
        BY <1>14 DEF Tick
    <2> QED BY <1>0, <2>1, BackingKept
<1>15. CASE UNCHANGED vars
    <2>1. UNCHANGED <<accounts, login, as, tokens, now, proved, changed, act>>
        BY <1>15 DEF vars
    <2>2. ActsAreBacked'
        BY <2>1 DEF ActsAreBacked
    <2> QED BY <1>0, <2>1, <2>2, BackingKept
<1>16. ASSUME NEW k \in tokens, Forget(k)
       PROVE  Backing' /\ ActsAreBacked' /\ InactiveRunsOut'
    <2>1. /\ UNCHANGED <<accounts, login, as, now, proved, changed>> /\ act' = NoAct
          /\ tokens' \subseteq tokens
        BY <1>16 DEF Forget
    <2> QED BY <1>0, <2>1, BackingKept
<1> QED BY <1>1, <1>2, <1>3, <1>4, <1>5, <1>6, <1>7, <1>8, <1>9, <1>10, <1>11,
           <1>12, <1>13, <1>14, <1>15, <1>16 DEF Next

\* The invariant of every account, login, token and request.
LEMMA Invariance == Spec => []IInv
<1>1. IInv /\ [Next]_vars => IInv'
    BY TypeStep, LockingStep, BackingStep DEF IInv
<1> QED BY <1>1, InitIInv, PTL DEF Spec

-----------------------------------------------------------------------------
\* Every variable keeps its type.
THEOREM TypeCorrect == Spec => []TypeOK
BY Invariance, PTL DEF IInv

\* No overlap of logins, locks and lost writes gives more guesses than the bound.
THEOREM GuessesBounded == Spec => []GuessesAreBounded
<1>1. IInv => GuessesAreBounded
  <2> SUFFICES ASSUME IInv, NEW u \in Users
               PROVE  guesses[u] <= (MaxFailures - 1) + Cardinality(Logins) + lost
      BY DEF GuessesAreBounded
  <2>1. Cardinality(Reading(u)) \in Nat /\ Cardinality(Logins) \in Nat
      BY ReadingIsFinite
  <2>2. CASE IsLocked(u)
      BY <2>1, <2>2 DEF IInv, TypeOK, Locking
  <2>3. CASE ~IsLocked(u)
      BY <2>1, <2>3 DEF IInv, TypeOK, Locking
  <2> QED BY <2>2, <2>3
<1> QED BY <1>1, Invariance, PTL

\* Whatever tokens were refreshed and stepped up in between, what is let through
\* is backed by the account: an outgrown role ends with its access token, unless
\* the password was shown since.
THEOREM ActsBacked == Spec => []ActsAreBacked
BY Invariance, PTL DEF IInv

\* A retired account runs out with its last access token.
THEOREM InactiveIsOut == Spec => []InactiveRunsOut
BY Invariance, PTL DEF IInv

\* Only the time, or a login that came before it, ends a lock.
THEOREM LocksHold == Spec => LockHolds
<1>1. IInv /\ [Next]_vars => [\A u \in Users :
          IsLocked(u) /\ ~IsLocked(u)' =>
              now' > now \/ \E l \in before : login[l] = u /\ login'[l] = NoUser]_vars
  <2> SUFFICES ASSUME IInv, [Next]_vars, NEW u \in Users, IsLocked(u), ~IsLocked(u)'
               PROVE  now' > now \/ \E l \in before : login[l] = u /\ login'[l] = NoUser
      OBVIOUS
  <2> USE DEF IInv, TypeOK, IsLocked, accounts, reads, history
  <2>1. ASSUME NEW l \in Logins, NEW v \in Users, LoginSucceeds(l, v)
        PROVE  \E m \in before : login[m] = u /\ login'[m] = NoUser
    <3>1. v = u
        BY <2>1 DEF LoginSucceeds, MarkLoginSuccess
    <3>2. l \in Reading(u) /\ login'[l] = NoUser
        BY <2>1, <3>1 DEF LoginSucceeds, Ends, Reading
    <3> QED BY <3>2 DEF Locking, Reading
  <2>2. ASSUME NEW l \in Logins, NEW v \in Users, LoginFails(l, v) PROVE FALSE
      BY <2>2 DEF LoginFails, MarkLoginFailure
  <2>3. CASE UNCHANGED <<locked, now>>
      BY <2>3
  <2>4. CASE Tick
      BY <2>4 DEF Tick, Times
  <2>5. \/ \E l \in Logins, v \in Users : LoginSucceeds(l, v) \/ LoginFails(l, v)
        \/ Tick \/ UNCHANGED <<locked, now>>
    <3> HIDE DEF IInv, TypeOK, IsLocked
    <3> USE DEF vars
    <3>1. ASSUME NEW l \in Logins, NEW v \in Users,
                 LoginReads(l, v) \/ LoginFailsUnrecorded(l, v) \/ LoginAbandoned(l, v)
          PROVE  UNCHANGED <<locked, now>>
        BY <3>1 DEF LoginReads, LoginFailsUnrecorded, LoginAbandoned
    <3>2. ASSUME NEW k \in tokens, StepUp(k) \/ Refresh(k) \/ Forget(k) \/ Enrol(k)
          PROVE  UNCHANGED <<locked, now>>
        BY <3>2 DEF StepUp, Refresh, Forget, Enrol
    <3>3. ASSUME NEW k \in tokens, NEW t \in Tickets,
                 \/ Submit(k, t) \/ Revoke(k, t)
                 \/ \E verb \in {"approve", "reject"} : Decide(k, t, verb)
          PROVE  UNCHANGED <<locked, now>>
        BY <3>3 DEF Submit, Revoke, Decide
    <3>4. ASSUME NEW k \in tokens, NEW v \in Users, NEW r \in Roles, CreateUser(k, v, r)
          PROVE  UNCHANGED <<locked, now>>
        BY <3>4 DEF CreateUser
    <3>5. SeedAdmin \/ (\E v \in Users : Deactivate(v)) => UNCHANGED <<locked, now>>
        BY DEF SeedAdmin, Deactivate
    <3>6. ASSUME NEW v \in Users, NEW r \in Roles, ChangeRole(v, r) PROVE UNCHANGED <<locked, now>>
        BY <3>6 DEF ChangeRole
    <3> QED BY <3>1, <3>2, <3>3, <3>4, <3>5, <3>6 DEF Next
  <2> QED BY <2>1, <2>2, <2>3, <2>4, <2>5
<1> QED BY <1>1, Invariance, PTL DEF Spec, LockHolds
===============================================================================
