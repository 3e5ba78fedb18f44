-------------------------- MODULE TicketTargetsProofs --------------------------
(***************************************************************************)
(* TicketTargets for any number of projects, tickets and assets.  What an  *)
(* Agent has is tied to the ticket that asked for it (Ruled, Programmed),  *)
(* and that ticket to the catalog as it was when it was approved (Given);  *)
(* the one listener of a rule is the first asset's because ids are given   *)
(* out in order (Ordered).                                                 *)
(***************************************************************************)
EXTENDS TicketTargets, FiniteSetTheorems, TLAPS

-----------------------------------------------------------------------------
(* The inductive invariant *)

\* Ids are given out in order.
Ordered == \A a, b \in Ids : a < b /\ Exists(b) => Exists(a)

\* What a ticket asks for stays, and what approval saw of it was in its project;
\* what it saw is an initial part, by id.
Given ==
    \A t \in Tickets :
        /\ status[t] = "none" =>
              /\ project[t] = NoProject /\ frozen[t] = <<>> /\ rules[t] = {}
              /\ shell[t] = NoShell /\ t \notin opening
        /\ status[t] # "none" => project[t] \in Projects /\ frozen[t] \in Selectors
        /\ seen[t] = {} <=> status[t] \in {"none", "pending"}
        /\ \A a \in seen[t] : a \in ToSet(frozen[t]) /\ owner[a] = project[t]
        /\ \A a, b \in Ids :
              a < b /\ b \in seen[t] /\ a \in ToSet(frozen[t]) => a \in seen[t]

\* A rule is of targets that its ticket has frozen; a listener of the oldest.
Ruled ==
    \A t \in Tickets : \A a \in rules[t] :
        /\ a \in ToSet(frozen[t])
        /\ status[t] \notin {"none", "pending", "closed"}
        /\ kind = "forward" => \A b \in ToSet(frozen[t]) : a <= b

\* An element is of a rule, unless nft failed to delete it, and its timeout that
\* of a ticket of this Agent.
Programmed ==
    \A p \in Projects, a \in Ids :
        element[p][a] # NoTicket =>
            /\ kind = "nft"
            /\ project[element[p][a]] = p /\ a \in ToSet(frozen[element[p][a]])
            /\ <<p, a>> \in stuck \/ \E t \in TicketsOf(p) : a \in rules[t]

\* Only the forwarder has listeners.
Listening ==
    \A t \in Tickets :
        /\ known[t] = "listener" => kind = "forward"
        /\ shell[t] # NoShell /\ shell[t].via = "listener" => kind = "forward"

\* docs/05-policy-engine.md:207 has tickets to one asset independent of each other.
\* The code's are not, an element being keyed by addresses and port (nft.go
\* 100-119).  How far it goes: a rule in the kernel enforcer's map has all its
\* elements, but for those that the end of another ticket to the same target took
\* along; nothing but the end of its own window and such a ticket takes one.
SharedIsLost ==
    \A t \in Tickets, a \in Ids :
        /\ kind = "nft" /\ t \notin over /\ a \in rules[t]
        /\ element[project[t]][a] = NoTicket
        => \E u \in TicketsOf(project[t]) \ {t} :
              /\ a \in ToSet(frozen[u])
              /\ u \in over \/ status[u] \in {"closed", "revoke_pending"}

IInv == /\ TypeOK /\ Ordered /\ Given /\ Ruled /\ Programmed /\ Listening
        /\ SharedIsLost /\ ShellIsOnRecord

USE ConstantsAssumption DEF catalog, ticket, agent, shells

-----------------------------------------------------------------------------
(* Operators *)

\* A selector names assets, the first one among them; a second one if another
\* id than the first is among them.
LEMMA SelectorNames ==
    ASSUME NEW s \in Selectors
    PROVE  /\ ToSet(s) \in SUBSET Ids
           /\ s[1] \in ToSet(s)
           /\ \A a \in ToSet(s) : a # s[1] => Len(s) > 1
<1>1. s \in Seq(Ids) /\ s # <<>>
    <2>1. s \in UNION {[1 .. m -> Ids] : m \in 0 .. 2}
        BY DEF Selectors, BoundedSeq, SeqOf
    <2>2. PICK m \in 0 .. 2 : s \in [1 .. m -> Ids]
        BY <2>1, Zenon
    <2> QED BY <2>2 DEF Selectors
<1>2. DOMAIN s = 1 .. Len(s) /\ Len(s) \in Nat /\ Len(s) # 0
    BY <1>1
<1>3. 1 \in DOMAIN s
    BY <1>2
<1>4. \A i \in DOMAIN s : s[i] \in Ids
    BY <1>1
<1>5. \A i \in DOMAIN s : s[i] # s[1] => Len(s) > 1
    BY <1>2
<1> QED BY <1>3, <1>4, <1>5 DEF ToSet

\* All that is frozen are ids.
LEMMA FrozenIds ==
    ASSUME TypeOK, NEW t \in Tickets
    PROVE  /\ ToSet(frozen[t]) \in SUBSET Ids
           /\ IsFiniteSet(Assets(t)) /\ Assets(t) \in SUBSET Ids
           /\ Cardinality(Assets(t)) \in Nat
<1>1. ToSet(frozen[t]) \in SUBSET Ids
    <2>1. CASE frozen[t] = <<>>
        BY <2>1 DEF ToSet
    <2>2. CASE frozen[t] \in Selectors
        BY <2>2, SelectorNames
    <2> QED BY <2>1, <2>2 DEF TypeOK
<1>2. IsFiniteSet(Ids)
    BY FS_Interval DEF Ids
<1>3. Assets(t) \in SUBSET Ids
    BY <1>1 DEF Assets
<1> QED BY <1>1, <1>2, <1>3, FS_Subset, FS_CardinalityType

\* The commands are of assets that are there; the first of them is the oldest's.
LEMMA SentFirst ==
    ASSUME TypeOK, NEW t \in Tickets, NEW n \in Nat
    PROVE  /\ Sent(t, n) \in SUBSET Assets(t)
           /\ n <= 1 => \A a \in Sent(t, n) : \A b \in Assets(t) : a <= b
<1>1. Sent(t, n) \in SUBSET Assets(t)
    BY DEF Sent
<1>2. ASSUME n <= 1, NEW a \in Sent(t, n), NEW b \in Assets(t), b < a
      PROVE  FALSE
    <2> DEFINE older == {c \in Assets(t) : c < a}
    <2>1. Cardinality(older) < n
        BY DEF Sent
    <2>2. IsFiniteSet(older) /\ Cardinality(older) \in Nat
        BY FrozenIds, FS_Subset, FS_CardinalityType
    <2>3. b \in older
        BY <1>2
    <2> HIDE DEF older
    <2>4. Cardinality(older) # 0
        BY <2>2, <2>3, FS_EmptySet
    <2> QED BY <1>2, <2>1, <2>2, <2>4
<1>3. \A a \in Sent(t, n), b \in Assets(t) : a \in Nat /\ b \in Nat
    BY <1>1, FrozenIds DEF Ids
<1> QED BY <1>1, <1>2, <1>3

\* What an ApplyRule may do to an Agent, whatever its enforcer is.
LEMMA ApplyRuleAdds ==
    ASSUME TypeOK, NEW t \in Tickets, project[t] \in Projects, NEW n \in Nat,
           ApplyRule(t, n)
    PROVE  /\ rules' \in [Tickets -> SUBSET Ids]
           /\ element' \in [Projects -> [Ids -> Tickets \cup {NoTicket}]]
           /\ \A u \in Tickets \ {t} : rules'[u] = rules[u]
           /\ rules'[t] \subseteq rules[t] \cup Assets(t)
           /\ kind # "memory" => rules[t] \subseteq rules'[t]
           /\ kind = "forward" => \/ rules'[t] = rules[t]
                                  \/ \A a \in rules'[t] : \A b \in Assets(t) : a <= b
           /\ \A p \in Projects, a \in Ids :
                 \/ element'[p][a] = element[p][a]
                 \/ /\ kind = "nft" /\ p = project[t] /\ element'[p][a] = t
                    /\ a \in rules'[t] /\ a \in Assets(t)
           /\ kind = "nft" => \A a \in rules'[t] \ rules[t] :
                                 element'[project[t]][a] # NoTicket
<1>1. \A m \in Nat : Sent(t, m) \in SUBSET Ids /\ Sent(t, m) \in SUBSET Assets(t)
    BY SentFirst, FrozenIds
<1>2. CASE ForwardApply(t, n)
    <2> DEFINE m == IF n = 0 THEN 0 ELSE 1
    <2>1. m \in Nat /\ m <= 1
        OBVIOUS
    <2>2. \A a \in Sent(t, m) : \A b \in Assets(t) : a <= b
        BY <2>1, SentFirst
    <2>3. rules' = [rules EXCEPT ![t] = IF rules[t] = {} THEN Sent(t, m) ELSE rules[t]]
        BY <1>2 DEF ForwardApply, TypeOK
    <2> HIDE DEF m
    <2> QED BY <1>1, <1>2, <2>1, <2>2, <2>3 DEF ForwardApply, TypeOK
<1>3. CASE NftApply(t, n)
    <2>1. rules' = [rules EXCEPT ![t] = rules[t] \cup Sent(t, n)] /\ kind = "nft"
        BY <1>3 DEF NftApply, TypeOK
    <2>2. PICK renews \in BOOLEAN :
             element' = [element EXCEPT ![project[t]] =
                 [a \in Ids |-> IF a \in Sent(t, n) /\ (renews \/ @[a] = NoTicket)
                                THEN t ELSE @[a]]]
        BY <1>3 DEF NftApply
    <2>3. /\ element' \in [Projects -> [Ids -> Tickets \cup {NoTicket}]]
          /\ \A p \in Projects \ {project[t]} : element'[p] = element[p]
          /\ \A a \in Ids : element'[project[t]][a] =
                IF a \in Sent(t, n) /\ (renews \/ element[project[t]][a] = NoTicket)
                THEN t ELSE element[project[t]][a]
        BY <2>2 DEF TypeOK
    <2>4. rules' \in [Tickets -> SUBSET Ids] /\ rules'[t] = rules[t] \cup Sent(t, n)
        BY <1>1, <2>1 DEF TypeOK
    <2>5. \A a \in Sent(t, n) : element'[project[t]][a] # NoTicket
        BY <1>1, <2>3
    <2> QED BY <1>1, <2>1, <2>3, <2>4, <2>5 DEF TypeOK
<1>4. CASE MemoryApply(t, n)
    BY <1>1, <1>4 DEF MemoryApply, TypeOK
<1> QED BY <1>2, <1>3, <1>4 DEF ApplyRule
-----------------------------------------------------------------------------
(* Steps *)

\* Nothing is there.
LEMMA InitIInv == Init => IInv
<1> SUFFICES ASSUME Init PROVE IInv
    OBVIOUS
<1> USE DEF Init
<1>1. TypeOK
    BY DEF TypeOK
<1>2. Ordered /\ Given /\ Ruled /\ Programmed
    BY DEF Ordered, Exists, Given, Ruled, Programmed
<1>3. Listening /\ SharedIsLost /\ ShellIsOnRecord
    BY DEF Listening, SharedIsLost, ShellIsOnRecord
<1> QED BY <1>1, <1>2, <1>3 DEF IInv

\* The catalog only grows, and an asset that appears was seen by no approval.
LEMMA CatalogKeeps ==
    ASSUME IInv,
           \/ \E p \in Projects : CreateProject(p)
           \/ \E p \in Projects, a \in Ids : CreateAsset(p, a)
           \/ \E a \in Ids : CreateCredential(a)
    PROVE  IInv'
<1> USE DEF IInv
<1>1. TypeOK'
    BY DEF TypeOK, CreateProject, CreateAsset, CreateCredential
<1>2. /\ UNCHANGED <<kind, ticket, known, agent, shells, over, stuck>>
      /\ \A b \in Ids : Exists(b) => Exists(b)' /\ owner'[b] = owner[b]
    BY DEF CreateProject, CreateAsset, CreateCredential, TypeOK, Exists
<1>3. Ordered'
    <2>1. CASE UNCHANGED owner
        BY <2>1 DEF Ordered, Exists
    <2>2. ASSUME NEW p \in Projects, NEW a \in Ids, CreateAsset(p, a) PROVE Ordered'
        BY <2>2 DEF CreateAsset, Ordered, Exists, TypeOK, Ids
    <2> QED BY <2>1, <2>2 DEF CreateProject, CreateCredential
<1>4. Given'
    <2>1. \A t \in Tickets : \A b \in seen[t] : Exists(b) /\ owner[b] = project[t]
        <3> TAKE t \in Tickets
        <3>1. CASE status[t] = "none"
            BY <3>1 DEF Given
        <3>2. CASE status[t] # "none"
            BY <3>2 DEF Given, Exists
        <3> QED BY <3>1, <3>2
    <2> QED BY <1>2, <2>1 DEF Given, TypeOK
<1>5. Ruled' /\ Listening'
    BY <1>2 DEF Ruled, Listening
<1>6. Programmed'
    BY <1>2 DEF Programmed, TicketsOf
<1>7. SharedIsLost' /\ ShellIsOnRecord'
    BY <1>2 DEF SharedIsLost, ShellIsOnRecord, TicketsOf
<1> QED BY <1>1, <1>3, <1>4, <1>5, <1>6, <1>7

\* A ticket is asked for: until then nothing is of it.
LEMMA SubmitKeeps ==
    ASSUME IInv, NEW p \in Projects, NEW t \in Tickets, NEW asked \in Selectors,
           Submit(t, p, asked)
    PROVE  IInv'
<1> USE DEF IInv, Submit
<1>1. TypeOK'
    BY DEF TypeOK
<1>2. rules[t] = {} /\ seen[t] = {} /\ shell[t] = NoShell /\ project[t] \notin Projects
    BY DEF Given
<1>3. /\ \A u \in Tickets \ {t} : /\ project'[u] = project[u] /\ frozen'[u] = frozen[u]
                                  /\ status'[u] = status[u]
      /\ status'[t] = "pending" /\ project'[t] = p /\ frozen'[t] = asked
    BY DEF TypeOK
<1>4. \A u \in Tickets : rules[u] # {} => u # t
    BY <1>2
<1>5. Ordered' /\ Listening'
    BY DEF Ordered, Exists, Listening
<1>6. Given'
    BY <1>2, <1>3 DEF Given
<1>7. Ruled'
    BY <1>3, <1>4 DEF Ruled
<1>8. Programmed'
    <2>1. \A q \in Projects, a \in Ids : element[q][a] # NoTicket => element[q][a] \in Tickets \ {t}
        <3> SUFFICES ASSUME NEW q \in Projects, NEW a \in Ids, element[q][a] # NoTicket
                     PROVE  element[q][a] \in Tickets \ {t}
            OBVIOUS
        <3>1. element[q][a] \in Tickets
            BY DEF TypeOK
        <3>2. project[element[q][a]] = q
            BY DEF Programmed
        <3> QED BY <1>2, <3>1, <3>2
    <2>2. \A q \in Projects, a \in Ids : \A u \in TicketsOf(q) : a \in rules[u] => u \in TicketsOf(q)'
        BY <1>3, <1>4 DEF TicketsOf
    <2> QED BY <1>3, <2>1, <2>2 DEF Programmed
<1>9. SharedIsLost'
    <2>1. \A q \in Projects : \A u \in TicketsOf(q) : u # t /\ u \in TicketsOf(q)'
        BY <1>2, <1>3 DEF TicketsOf
    <2>2. \A u \in Tickets : rules[u] # {} => project[u] \in Projects
        BY DEF Given, Ruled
    <2> QED BY <1>3, <1>4, <2>1, <2>2 DEF SharedIsLost, TypeOK
<1>10. ShellIsOnRecord'
    BY <1>2, <1>3 DEF ShellIsOnRecord
<1> QED BY <1>1, <1>5, <1>6, <1>7, <1>8, <1>9, <1>10

\* What approval sees is in the project, and an initial part of what is asked.
LEMMA ApproveKeeps ==
    ASSUME IInv, NEW t \in Tickets, Approve(t)
    PROVE  IInv'
<1> USE DEF IInv, Approve
<1>1. TypeOK'
    BY FrozenIds DEF TypeOK
<1>2. /\ \A u \in Tickets \ {t} : status'[u] = status[u] /\ seen'[u] = seen[u]
      /\ status'[t] = "approved" /\ seen'[t] = Assets(t)
    BY DEF TypeOK
<1>3. Ordered' /\ Listening' /\ ShellIsOnRecord'
    BY DEF Ordered, Exists, Listening, ShellIsOnRecord
<1>4. Given'
    <2>1. \A a \in Assets(t) : a \in ToSet(frozen[t]) /\ owner[a] = project[t]
        BY DEF Assets
    <2>2. \A a, b \in Ids : a < b /\ b \in Assets(t) /\ a \in ToSet(frozen[t]) => a \in Assets(t)
        BY DEF Assets, Ordered
    <2> QED BY <1>2, <2>1, <2>2 DEF Given
<1>5. Ruled'
    BY <1>2 DEF Ruled
<1>6. Programmed'
    BY DEF Programmed, TicketsOf
<1>7. SharedIsLost'
    BY <1>2 DEF SharedIsLost, TicketsOf, TypeOK
<1> QED BY <1>1, <1>3, <1>4, <1>5, <1>6, <1>7

\* The commands of an ApplyRule: what they add is the ticket's, and it is there.
LEMMA ApplyKeeps ==
    ASSUME IInv, NEW t \in Tickets, NEW n \in Nat,
           status[t] \in {"approved", "active"}, ApplyRule(t, n),
           NEW s \in {"approved", "active", "apply_failed"}, status' = [status EXCEPT ![t] = s],
           known' \in [Tickets -> {"no", "direct", "listener"}],
           \A u \in Tickets : known'[u] = "listener" => known[u] = "listener" \/ kind = "forward",
           faults' \in 0 .. MaxFaults,
           UNCHANGED <<catalog, project, frozen, seen, shells, over, stuck>>
    PROVE  IInv'
<1> USE DEF IInv
<1>1. /\ project[t] \in Projects /\ frozen[t] \in Selectors
      /\ seen[t] # {} /\ \A b \in seen[t] : b \in ToSet(frozen[t]) /\ owner[b] = project[t]
    BY DEF Given
<1>2. /\ rules' \in [Tickets -> SUBSET Ids]
      /\ element' \in [Projects -> [Ids -> Tickets \cup {NoTicket}]]
      /\ \A u \in Tickets \ {t} : rules'[u] = rules[u]
      /\ rules'[t] \subseteq rules[t] \cup Assets(t)
      /\ kind # "memory" => rules[t] \subseteq rules'[t]
      /\ kind = "forward" => \/ rules'[t] = rules[t]
                             \/ \A a \in rules'[t] : \A b \in Assets(t) : a <= b
      /\ \A p \in Projects, a \in Ids :
            \/ element'[p][a] = element[p][a]
            \/ /\ kind = "nft" /\ p = project[t] /\ element'[p][a] = t
               /\ a \in rules'[t] /\ a \in Assets(t)
      /\ kind = "nft" => \A a \in rules'[t] \ rules[t] : element'[project[t]][a] # NoTicket
    BY <1>1, ApplyRuleAdds
<1>3. /\ \A u \in Tickets \ {t} : status'[u] = status[u]
      /\ status'[t] = s
    BY DEF TypeOK
<1>4. TypeOK'
    BY <1>2 DEF TypeOK
<1>5. Ordered' /\ Listening'
    BY DEF Ordered, Exists, Listening, TypeOK
<1>6. Given'
    BY <1>2, <1>3 DEF Given
<1>7. Ruled'
    <2>1. ASSUME kind = "forward", NEW a \in rules'[t], \A b \in Assets(t) : a <= b,
                 a \in Assets(t), NEW b \in ToSet(frozen[t])
          PROVE  a <= b
        <3>1. a \in Ids /\ b \in Ids /\ Exists(a)
            BY <2>1, FrozenIds DEF Assets
        <3>2. CASE Exists(b)
            BY <2>1, <3>2 DEF Assets
        <3>3. CASE ~Exists(b)
            BY <3>1, <3>3 DEF Ordered, Ids
        <3> QED BY <3>2, <3>3
    <2>2. \A a \in rules'[t] : a \in ToSet(frozen[t])
        BY <1>2 DEF Assets, Ruled
    <2>3. \A a \in rules[t] : kind = "forward" => \A b \in ToSet(frozen[t]) : a <= b
        BY DEF Ruled
    <2>4. \A a \in rules'[t] : kind = "forward" => \A b \in ToSet(frozen[t]) : a <= b
        BY <1>2, <2>1, <2>3
    <2> QED BY <1>2, <1>3, <2>2, <2>4 DEF Ruled
<1>8. Programmed'
    <2> SUFFICES ASSUME NEW p \in Projects, NEW a \in Ids, element'[p][a] # NoTicket
                 PROVE  /\ kind = "nft"
                        /\ project[element'[p][a]] = p /\ a \in ToSet(frozen[element'[p][a]])
                        /\ <<p, a>> \in stuck \/ \E u \in TicketsOf(p) : a \in rules'[u]
        BY DEF Programmed, TicketsOf
    <2>1. CASE element'[p][a] = element[p][a]
        <3>1. \A u \in Tickets : kind = "nft" => rules[u] \subseteq rules'[u]
            BY <1>2
        <3> QED BY <2>1, <3>1 DEF Programmed, TicketsOf
    <2>2. CASE element'[p][a] # element[p][a]
        BY <1>2, <2>2 DEF Assets, TicketsOf
    <2> QED BY <2>1, <2>2
<1>9. SharedIsLost'
    <2> SUFFICES ASSUME NEW u \in Tickets, NEW a \in Ids, kind = "nft", u \notin over,
                        a \in rules'[u], element'[project[u]][a] = NoTicket
                 PROVE  \E v \in TicketsOf(project[u]) \ {u} :
                            /\ a \in ToSet(frozen[v])
                            /\ v \in over \/ status'[v] \in {"closed", "revoke_pending"}
        BY DEF SharedIsLost, TicketsOf
    <2>1. a \in rules[u]
        BY <1>2
    <2>2. project[u] \in Projects
        BY <2>1 DEF Given
    <2>3. element[project[u]][a] = NoTicket
        BY <1>2, <2>2
    <2>4. PICK v \in TicketsOf(project[u]) \ {u} :
                  /\ a \in ToSet(frozen[v])
                  /\ v \in over \/ status[v] \in {"closed", "revoke_pending"}
        BY <2>1, <2>3 DEF SharedIsLost
    <2> QED BY <1>3, <2>4 DEF TicketsOf
<1>10. ShellIsOnRecord'
    <2> SUFFICES ASSUME NEW u \in Tickets, shell[u] # NoShell, shell[u].via = "listener"
                 PROVE  shell[u].on \in rules'[u]
        BY DEF ShellIsOnRecord
    <2>1. kind = "forward" /\ shell[u].on \in rules[u]
        BY DEF Listening, ShellIsOnRecord
    <2> QED BY <1>2, <2>1
<1> QED BY <1>4, <1>5, <1>6, <1>7, <1>8, <1>9, <1>10

\* A revoke takes elements of others along, whom it leaves itself as the cause.
LEMMA RevokeRuleKeeps ==
    ASSUME IInv, NEW t \in Tickets, status[t] = "revoking", NEW left \in SUBSET rules[t],
           RevokeRule(t, left),
           NEW s \in {"closed", "revoke_pending"}, status' = [status EXCEPT ![t] = s],
           known' \in [Tickets -> {"no", "direct", "listener"}],
           \A u \in Tickets : known'[u] = "listener" => known[u] = "listener",
           faults' \in 0 .. MaxFaults,
           UNCHANGED <<catalog, project, frozen, seen, opening, over>>
    PROVE  IInv'
<1> USE DEF IInv
<1> DEFINE p == project[t]
           gone == rules[t] \ left
<1>1. p \in Projects /\ \A a \in rules[t] : a \in ToSet(frozen[t])
    BY DEF Given, Ruled
<1>2. /\ rules' = [rules EXCEPT ![t] = {}]
      /\ element' = [element EXCEPT ![p] = [a \in Ids |-> IF a \in gone THEN NoTicket ELSE @[a]]]
      /\ stuck' = (stuck \cup {<<p, a>> : a \in left}) \ {<<p, a>> : a \in gone}
      /\ shell' = Cut({t})
    BY DEF RevokeRule
<1>3. /\ rules'[t] = {} /\ \A u \in Tickets \ {t} : rules'[u] = rules[u]
      /\ \A u \in Tickets \ {t} : status'[u] = status[u]
      /\ status'[t] = s
    BY <1>2 DEF TypeOK
<1>4. /\ \A a \in Ids : element'[p][a] = IF a \in gone THEN NoTicket ELSE element[p][a]
      /\ \A q \in Projects \ {p} : element'[q] = element[q]
      /\ element' \in [Projects -> [Ids -> Tickets \cup {NoTicket}]]
    BY <1>1, <1>2 DEF TypeOK
<1>5. \A u \in Tickets :
          /\ shell'[u] = shell[u] \/ shell'[u] = NoShell
          /\ shell'[u] # NoShell /\ shell[u].via = "listener" => u # t
    BY <1>2 DEF Cut
<1> HIDE DEF p, gone
<1>6. TypeOK'
    <2>1. stuck' \in SUBSET (Projects \X Ids)
        BY <1>1, <1>2 DEF TypeOK
    <2>2. rules' \in [Tickets -> SUBSET Ids]
        BY <1>2 DEF TypeOK
    <2>3. shell' \in [Tickets -> {NoShell} \cup [asset : Ids, on : Ids, via : {"listener", "direct"}]]
        BY <1>2 DEF TypeOK, Cut
    <2> QED BY <1>4, <2>1, <2>2, <2>3 DEF TypeOK
<1>7. Ordered' /\ Listening'
    BY <1>5 DEF Ordered, Exists, Listening
<1>8. Given'
    BY <1>3, <1>5 DEF Given
<1>9. Ruled'
    BY <1>3 DEF Ruled
<1>10. Programmed'
    <2> SUFFICES ASSUME NEW q \in Projects, NEW a \in Ids, element'[q][a] # NoTicket
                 PROVE  /\ kind = "nft"
                        /\ project[element'[q][a]] = q /\ a \in ToSet(frozen[element'[q][a]])
                        /\ <<q, a>> \in stuck' \/ \E u \in TicketsOf(q) : a \in rules'[u]
        BY DEF Programmed, TicketsOf
    <2>1. element'[q][a] = element[q][a] /\ ~(q = p /\ a \in gone)
        BY <1>4
    <2>2. <<q, a>> \in stuck => <<q, a>> \in stuck'
        BY <1>2, <2>1
    <2>3. ASSUME NEW u \in TicketsOf(q), a \in rules[u]
          PROVE  <<q, a>> \in stuck' \/ a \in rules'[u]
        <3>1. CASE u = t
            <4>1. q = p /\ a \in left
                BY <2>1, <2>3, <3>1 DEF TicketsOf, p, gone
            <4>2. <<p, a>> \in {<<p, b>> : b \in left}
                BY <4>1
            <4> QED BY <1>2, <2>1, <4>1, <4>2
        <3>2. CASE u # t
            BY <1>3, <2>3, <3>2 DEF TicketsOf
        <3> QED BY <3>1, <3>2
    <2> QED BY <2>1, <2>2, <2>3 DEF Programmed
<1>11. SharedIsLost'
    <2> SUFFICES ASSUME NEW u \in Tickets, NEW a \in Ids, kind = "nft", u \notin over,
                        a \in rules'[u], element'[project[u]][a] = NoTicket
                 PROVE  \E v \in TicketsOf(project[u]) \ {u} :
                            /\ a \in ToSet(frozen[v])
                            /\ v \in over \/ status'[v] \in {"closed", "revoke_pending"}
        BY DEF SharedIsLost, TicketsOf
    <2>1. u # t /\ a \in rules[u]
        BY <1>3
    <2>2. project[u] \in Projects
        BY <2>1 DEF Given
    <2>3. CASE element[project[u]][a] = NoTicket
        <3>1. PICK v \in TicketsOf(project[u]) \ {u} :
                  /\ a \in ToSet(frozen[v])
                  /\ v \in over \/ status[v] \in {"closed", "revoke_pending"}
            BY <2>1, <2>3 DEF SharedIsLost
        <3> QED BY <1>3, <3>1 DEF TicketsOf
    <2>4. CASE element[project[u]][a] # NoTicket
        <3>1. project[u] = p /\ a \in gone
            BY <1>4, <2>2, <2>4
        <3> QED BY <1>1, <1>3, <2>1, <3>1 DEF p, gone, TicketsOf
    <2> QED BY <2>3, <2>4
<1>12. ShellIsOnRecord'
    <2> SUFFICES ASSUME NEW u \in Tickets, shell'[u] # NoShell
                 PROVE  /\ \/ shell'[u].on = shell'[u].asset
                           \/ /\ shell'[u].via = "listener" /\ Len(frozen[u]) > 1
                              /\ shell'[u].on < shell'[u].asset
                        /\ shell'[u].via = "listener" => shell'[u].on \in rules'[u]
        BY DEF ShellIsOnRecord
    <2>1. shell'[u] = shell[u] /\ (shell[u].via = "listener" => u # t)
        BY <1>5
    <2> QED BY <1>3, <2>1 DEF ShellIsOnRecord
<1> QED BY <1>6, <1>7, <1>8, <1>9, <1>10, <1>11, <1>12

\* An Agent that is not reached keeps everything.
LEMMA StatusKeeps ==
    ASSUME IInv, NEW t \in Tickets,
           \/ status[t] = "active" /\ status' = [status EXCEPT ![t] = "revoking"]
           \/ status[t] = "revoking" /\ status' = [status EXCEPT ![t] = "revoke_pending"],
           shell' = shell \/ shell' = [shell EXCEPT ![t] = NoShell],
           faults' \in 0 .. MaxFaults,
           UNCHANGED <<catalog, project, frozen, seen, known, agent, opening, over, stuck>>
    PROVE  IInv'
<1> USE DEF IInv
<1>1. /\ \A u \in Tickets \ {t} : status'[u] = status[u]
      /\ status'[t] \in {"revoking", "revoke_pending"} /\ status[t] \in {"active", "revoking"}
    BY DEF TypeOK
<1>2. \A u \in Tickets : shell'[u] = shell[u] \/ shell'[u] = NoShell
    BY DEF TypeOK
<1>3. TypeOK'
    BY DEF TypeOK
<1>4. Ordered' /\ Listening' /\ ShellIsOnRecord'
    BY <1>2 DEF Ordered, Exists, Listening, ShellIsOnRecord
<1>5. Given' /\ Ruled'
    BY <1>1, <1>2 DEF Given, Ruled
<1>6. Programmed'
    BY DEF Programmed, TicketsOf
<1>7. SharedIsLost'
    <2>1. \A u \in Tickets : status[u] \in {"closed", "revoke_pending"} =>
                               status'[u] \in {"closed", "revoke_pending"}
        BY <1>1
    <2> QED BY <2>1 DEF SharedIsLost, TicketsOf
<1> QED BY <1>3, <1>4, <1>5, <1>6, <1>7

\* A session opens on the asset of its row, or, through the one listener of the
\* ticket, on an older one it names.
LEMMA ShellKeeps ==
    ASSUME IInv, NEW t \in Tickets,
           \/ OpenReads(t) \/ OpenFails(t) \/ ShellEnds(t)
           \/ \E on \in Ids, via \in {"listener", "direct"} : Open(t, on, via)
    PROVE  IInv'
<1> USE DEF IInv
<1>1. /\ UNCHANGED <<catalog, ticket, known, agent, over, stuck, faults>>
      /\ \A u \in Tickets \ {t} : shell'[u] = shell[u]
      /\ opening' \subseteq opening \cup {t}
      /\ shell'[t] # NoShell \/ t \in opening' => status[t] # "none"
    BY DEF OpenReads, OpenFails, ShellEnds, Open, Given, TypeOK
<1>2. ASSUME NEW on \in Ids, NEW via \in {"listener", "direct"}, Open(t, on, via)
      PROVE  /\ shell' = [shell EXCEPT ![t] = [asset |-> frozen[t][1], on |-> on, via |-> via]]
             /\ frozen[t][1] \in Ids
             /\ \/ on = frozen[t][1]
                \/ via = "listener" /\ Len(frozen[t]) > 1 /\ on < frozen[t][1]
             /\ via = "listener" => on \in rules[t] /\ kind = "forward"
    <2>1. frozen[t] \in Selectors
        BY <1>2 DEF Open, Given
    <2>2. frozen[t][1] \in ToSet(frozen[t]) /\ ToSet(frozen[t]) \in SUBSET Ids
        BY <2>1, SelectorNames
    <2>3. CASE via = "direct"
        BY <1>2, <2>2, <2>3 DEF Open
    <2>4. CASE via = "listener"
        <3>1. known[t] = "listener" /\ on \in rules[t]
            BY <1>2, <2>4 DEF Open
        <3>2. on \in ToSet(frozen[t]) /\ on <= frozen[t][1] /\ kind = "forward"
            BY <2>2, <3>1 DEF Listening, Ruled
        <3>3. on # frozen[t][1] => Len(frozen[t]) > 1
            BY <2>1, <3>2, SelectorNames
        <3> QED BY <1>2, <2>2, <2>4, <3>1, <3>2, <3>3 DEF Open, Ids
    <2> QED BY <2>3, <2>4
<1>3. /\ shell' \in [Tickets -> {NoShell} \cup [asset : Ids, on : Ids, via : {"listener", "direct"}]]
      /\ shell'[t] = shell[t] \/ shell'[t] = NoShell
            \/ \E on \in Ids, via \in {"listener", "direct"} :
                  /\ shell'[t] = [asset |-> frozen[t][1], on |-> on, via |-> via]
                  /\ \/ on = frozen[t][1]
                     \/ via = "listener" /\ Len(frozen[t]) > 1 /\ on < frozen[t][1]
                  /\ via = "listener" => on \in rules[t] /\ kind = "forward"
    <2>1. CASE OpenReads(t) \/ OpenFails(t)
        BY <2>1 DEF OpenReads, OpenFails, TypeOK
    <2>2. CASE ShellEnds(t)
        BY <2>2 DEF ShellEnds, TypeOK
    <2>3. ASSUME NEW on \in Ids, NEW via \in {"listener", "direct"}, Open(t, on, via)
          PROVE  <1>3!1 /\ <1>3!2
        <3>1. [asset |-> frozen[t][1], on |-> on, via |-> via]
                  \in [asset : Ids, on : Ids, via : {"listener", "direct"}]
            BY <2>3, <1>2
        <3>2. shell'[t] = [asset |-> frozen[t][1], on |-> on, via |-> via]
            BY <2>3, <1>2 DEF TypeOK
        <3> QED BY <2>3, <1>2, <3>1, <3>2 DEF TypeOK
    <2> QED BY <2>1, <2>2, <2>3
<1>4. TypeOK'
    BY <1>1, <1>3 DEF TypeOK
<1>5. Ordered' /\ Ruled' /\ Programmed' /\ SharedIsLost'
    BY <1>1 DEF Ordered, Exists, Ruled, Programmed, SharedIsLost, TicketsOf
<1>6. Given'
    BY <1>1 DEF Given
<1>7. Listening'
    <2>1. \A u \in Tickets : shell'[u] # NoShell /\ shell'[u].via = "listener" => kind = "forward"
        BY <1>1, <1>3 DEF Listening
    <2> QED BY <1>1, <2>1 DEF Listening
<1>8. ShellIsOnRecord'
    <2> SUFFICES ASSUME NEW u \in Tickets, shell'[u] # NoShell
                 PROVE  /\ \/ shell'[u].on = shell'[u].asset
                           \/ /\ shell'[u].via = "listener" /\ Len(frozen[u]) > 1
                              /\ shell'[u].on < shell'[u].asset
                        /\ shell'[u].via = "listener" => shell'[u].on \in rules[u]
        BY <1>1 DEF ShellIsOnRecord
    <2>1. CASE shell'[u] = shell[u]
        BY <2>1 DEF ShellIsOnRecord
    <2>2. CASE shell'[u] # shell[u]
        BY <1>1, <1>3, <2>2
    <2> QED BY <2>1, <2>2
<1> QED BY <1>4, <1>5, <1>6, <1>7, <1>8

\* What ends by itself, or with its process, is missing afterwards.
LEMMA LossKeeps ==
    ASSUME IInv,
           rules' \in [Tickets -> SUBSET Ids],
           \A t \in Tickets : rules'[t] = rules[t] \/ rules'[t] = {},
           element' \in [Projects -> [Ids -> Tickets \cup {NoTicket}]],
           \A p \in Projects, a \in Ids :
              /\ element'[p][a] = element[p][a] \/ element'[p][a] = NoTicket
              /\ element'[p][a] # NoTicket =>
                    /\ <<p, a>> \in stuck => <<p, a>> \in stuck'
                    /\ \A t \in TicketsOf(p) : rules'[t] = rules[t] \/ kind # "nft",
           \A p \in Projects, a \in Ids :
              element'[p][a] # element[p][a] => \/ element[p][a] \in over'
                                                \/ \A t \in TicketsOf(p) : rules'[t] = {},
           stuck' \in SUBSET stuck,
           shell' \in [Tickets -> {NoShell} \cup [asset : Ids, on : Ids, via : {"listener", "direct"}]],
           \A t \in Tickets : /\ shell'[t] = shell[t] \/ shell'[t] = NoShell
                              /\ shell'[t] # NoShell /\ shell[t].via = "listener" => rules'[t] = rules[t],
           known' \in [Tickets -> {"no", "direct", "listener"}],
           \A t \in Tickets : known'[t] = known[t] \/ known'[t] = "no",
           opening' \in SUBSET opening, over \in SUBSET over', over' \in SUBSET Tickets,
           faults' \in 0 .. MaxFaults,
           UNCHANGED <<catalog, ticket>>
    PROVE  IInv'
<1> USE DEF IInv
<1>1. TypeOK'
    BY DEF TypeOK
<1>2. Ordered' /\ Ruled' /\ Given'
    BY DEF Ordered, Exists, Ruled, Given
<1>3. Listening' /\ ShellIsOnRecord'
    BY DEF Listening, ShellIsOnRecord
<1>4. Programmed'
    <2> SUFFICES ASSUME NEW p \in Projects, NEW a \in Ids, element'[p][a] # NoTicket
                 PROVE  /\ kind = "nft"
                        /\ project[element'[p][a]] = p /\ a \in ToSet(frozen[element'[p][a]])
                        /\ <<p, a>> \in stuck' \/ \E t \in TicketsOf(p) : a \in rules'[t]
        BY DEF Programmed, TicketsOf
    <2>1. element'[p][a] = element[p][a]
        OBVIOUS
    <2>2. /\ kind = "nft"
          /\ project[element[p][a]] = p /\ a \in ToSet(frozen[element[p][a]])
          /\ <<p, a>> \in stuck \/ \E t \in TicketsOf(p) : a \in rules[t]
        BY <2>1 DEF Programmed
    <2> QED BY <2>1, <2>2
<1>5. SharedIsLost'
    <2> SUFFICES ASSUME NEW u \in Tickets, NEW a \in Ids, kind = "nft", u \notin over',
                        a \in rules'[u], element'[project[u]][a] = NoTicket
                 PROVE  \E v \in TicketsOf(project[u]) \ {u} :
                            /\ a \in ToSet(frozen[v])
                            /\ v \in over' \/ status[v] \in {"closed", "revoke_pending"}
        BY DEF SharedIsLost, TicketsOf
    <2>1. a \in rules[u] /\ u \in TicketsOf(project[u]) /\ project[u] \in Projects /\ u \notin over
        BY DEF Given, TicketsOf
    <2>2. CASE element[project[u]][a] = NoTicket
        BY <2>1, <2>2 DEF SharedIsLost
    <2>3. CASE element[project[u]][a] # NoTicket
        <3>1. element[project[u]][a] \in over' /\ element[project[u]][a] \in Tickets
            BY <2>1, <2>3 DEF TypeOK
        <3>2. PICK v \in Tickets : v = element[project[u]][a]
            BY <3>1
        <3>3. project[v] = project[u] /\ a \in ToSet(frozen[v])
            BY <2>1, <2>3, <3>2 DEF Programmed
        <3>4. v \in TicketsOf(project[u]) \ {u}
            BY <3>1, <3>2, <3>3 DEF TicketsOf
        <3> QED BY <3>1, <3>2, <3>3, <3>4
    <2> QED BY <2>2, <2>3
<1> QED BY <1>1, <1>2, <1>3, <1>4, <1>5

\* No step breaks the invariant.
LEMMA NextIInv == IInv /\ [Next]_vars => IInv'
<1> SUFFICES ASSUME IInv, [Next]_vars PROVE IInv'
    OBVIOUS
<1>1. ASSUME NEW p \in Projects, AgentRestarts(p) PROVE IInv'
    <2> USE DEF IInv, TypeOK
    <2>1. /\ rules' = [t \in Tickets |-> IF t \in TicketsOf(p) THEN {} ELSE rules[t]]
          /\ element' = [element EXCEPT ![p] = [a \in Ids |-> NoTicket]]
          /\ stuck' = {e \in stuck : e[1] # p}
          /\ shell' = Cut(TicketsOf(p))
          /\ faults' \in 0 .. MaxFaults
          /\ UNCHANGED <<catalog, ticket, known, opening, over>>
        BY <1>1 DEF AgentRestarts, Fault
    <2>2. /\ \A a \in Ids : element'[p][a] = NoTicket
          /\ \A q \in Projects \ {p} : element'[q] = element[q]
          /\ element' \in [Projects -> [Ids -> Tickets \cup {NoTicket}]]
        BY <2>1
    <2>3. \A q \in Projects, a \in Ids : q # p /\ <<q, a>> \in stuck => <<q, a>> \in stuck'
        BY <2>1
    <2>4. \A t \in Tickets : rules'[t] = IF t \in TicketsOf(p) THEN {} ELSE rules[t]
        BY <2>1
    <2>5. \A q \in Projects \ {p} : \A t \in TicketsOf(q) : rules'[t] = rules[t]
        BY <2>4 DEF TicketsOf
    <2>6. \A t \in TicketsOf(p) : rules'[t] = {}
        BY <2>4 DEF TicketsOf
    <2>7. /\ shell' \in [Tickets -> {NoShell} \cup [asset : Ids, on : Ids, via : {"listener", "direct"}]]
          /\ \A t \in Tickets :
                /\ shell'[t] = shell[t] \/ shell'[t] = NoShell
                /\ shell'[t] # NoShell /\ shell[t].via = "listener" => t \notin TicketsOf(p)
        BY <2>1 DEF Cut
    <2>8. rules' \in [Tickets -> SUBSET Ids] /\ stuck' \in SUBSET stuck
        BY <2>1
    <2> HIDE DEF IInv, TypeOK
    <2> QED BY <2>1, <2>2, <2>3, <2>4, <2>5, <2>6, <2>7, <2>8, LossKeeps DEF IInv, TypeOK
<1>2. CASE ServerRestarts
    <2> USE DEF IInv, TypeOK
    <2>1. /\ rules' = IF kind = "memory" THEN [t \in Tickets |-> {}] ELSE rules
          /\ known' = [t \in Tickets |-> "no"] /\ shell' = [t \in Tickets |-> NoShell]
          /\ opening' = {} /\ UNCHANGED <<catalog, ticket, element, over, stuck>>
          /\ faults' \in 0 .. MaxFaults
        BY <1>2 DEF ServerRestarts, Fault
    <2>2. /\ rules' \in [Tickets -> SUBSET Ids]
          /\ \A t \in Tickets : rules'[t] = rules[t] \/ (kind = "memory" /\ rules'[t] = {})
        BY <2>1
    <2>3. /\ \A t \in Tickets : known'[t] = "no" /\ shell'[t] = NoShell
          /\ known' \in [Tickets -> {"no", "direct", "listener"}]
          /\ shell' \in [Tickets -> {NoShell} \cup [asset : Ids, on : Ids, via : {"listener", "direct"}]]
        BY <2>1
    <2>4. \A p \in Projects : \A t \in TicketsOf(p) : rules'[t] = rules[t] \/ kind # "nft"
        BY <2>2 DEF TicketsOf
    <2>5. /\ element' \in [Projects -> [Ids -> Tickets \cup {NoTicket}]]
          /\ over' \in SUBSET Tickets /\ stuck' \in SUBSET stuck /\ over \in SUBSET over'
          /\ opening' \in SUBSET opening
        BY <2>1
    <2> HIDE DEF IInv, TypeOK
    <2> QED BY <2>1, <2>2, <2>3, <2>4, <2>5, LossKeeps
<1>3. ASSUME NEW p \in Projects, NEW a \in Ids, ElementTimesOut(p, a) PROVE IInv'
    <2> USE DEF IInv, TypeOK, ElementTimesOut
    <2>1. /\ element'[p][a] = NoTicket /\ element[p][a] \in over
          /\ \A q \in Projects, b \in Ids : q # p \/ b # a => element'[q][b] = element[q][b]
          /\ element' \in [Projects -> [Ids -> Tickets \cup {NoTicket}]]
        BY <1>3
    <2>2. \A q \in Projects, b \in Ids : q # p \/ b # a => (<<q, b>> \in stuck => <<q, b>> \in stuck')
        BY <1>3
    <2>3. \A t \in Tickets : rules'[t] = rules[t] /\ shell'[t] = shell[t] /\ known'[t] = known[t]
        BY <1>3
    <2>4. UNCHANGED <<catalog, ticket, rules, shell, known, opening, over, faults>> /\ stuck' \in SUBSET stuck
        BY <1>3
    <2> QED BY <2>1, <2>2, <2>3, <2>4, LossKeeps
<1>4. ASSUME NEW t \in Tickets, ListenerTimesOut(t) PROVE IInv'
    <2> USE DEF IInv, TypeOK
    <2>1. /\ rules' \in [Tickets -> SUBSET Ids] /\ kind = "forward"
          /\ rules'[t] = {} /\ \A u \in Tickets \ {t} : rules'[u] = rules[u]
          /\ shell' \in [Tickets -> {NoShell} \cup [asset : Ids, on : Ids, via : {"listener", "direct"}]]
          /\ \A u \in Tickets : /\ shell'[u] = shell[u] \/ shell'[u] = NoShell
                                /\ shell'[u] # NoShell /\ shell[u].via = "listener" => u # t
          /\ UNCHANGED <<catalog, ticket, known, element, opening, over, stuck, faults>>
        BY <1>4 DEF ListenerTimesOut, Cut
    <2> QED BY <2>1, LossKeeps
<1>5. ASSUME NEW t \in Tickets, WindowEnds(t) PROVE IInv'
    <2>1. over' = over \cup {t} /\ UNCHANGED <<catalog, ticket, known, agent, shells, stuck, faults>>
        BY <1>5 DEF WindowEnds
    <2> QED BY <2>1, LossKeeps DEF IInv, TypeOK
<1>6. ASSUME NEW p \in Projects, AgentReconnects(p) PROVE IInv'
    <2>1. /\ known' \in [Tickets -> {"no", "direct", "listener"}]
          /\ \A t \in Tickets : known'[t] = known[t] \/ known'[t] = "no"
          /\ UNCHANGED <<catalog, ticket, agent, shells, over, stuck, faults>>
        BY <1>6 DEF AgentReconnects, IInv, TypeOK
    <2> QED BY <2>1, LossKeeps DEF IInv, TypeOK
<1>7. ASSUME NEW t \in Tickets, Apply(t) PROVE IInv'
    <2>1. Cardinality(Assets(t)) \in Nat
        BY FrozenIds DEF IInv
    <2>2. /\ known' \in [Tickets -> {"no", "direct", "listener"}]
          /\ \A u \in Tickets : known'[u] = "listener" => known[u] = "listener" \/ kind = "forward"
          /\ faults' \in 0 .. MaxFaults
        BY <1>7 DEF Apply, SetForward, IInv, TypeOK
    <2> QED BY <1>7, <2>1, <2>2, ApplyKeeps DEF Apply
<1>8. ASSUME NEW t \in Tickets, Reapply(t) PROVE IInv'
    <2>1. Cardinality(Assets(t)) \in Nat
        BY FrozenIds DEF IInv
    <2>2. /\ known' \in [Tickets -> {"no", "direct", "listener"}]
          /\ \A u \in Tickets : known'[u] = "listener" => known[u] = "listener" \/ kind = "forward"
          /\ status' = [status EXCEPT ![t] = "active"] /\ faults' \in 0 .. MaxFaults
        BY <1>8 DEF Reapply, SetForward, IInv, TypeOK
    <2> QED BY <1>8, <2>1, <2>2, ApplyKeeps DEF Reapply
<1>9. ASSUME NEW t \in Tickets, NEW n \in 0 .. Cardinality(Assets(t)),
             ApplyFails(t, n) \/ ReapplyFails(t, n)
      PROVE  IInv'
    <2>1. n \in Nat /\ UNCHANGED known
        BY <1>9, FrozenIds DEF IInv, ApplyFails, ReapplyFails
    <2>2. known' \in [Tickets -> {"no", "direct", "listener"}] /\ faults' \in 0 .. MaxFaults
        BY <1>9, <2>1 DEF ApplyFails, ReapplyFails, Fault, IInv, TypeOK
    <2>3. CASE ApplyFails(t, n)
        BY <2>1, <2>2, <2>3, ApplyKeeps DEF ApplyFails
    <2>4. CASE ReapplyFails(t, n)
        <3>1. status' = [status EXCEPT ![t] = "active"]
            BY <2>4 DEF ReapplyFails, IInv, TypeOK
        <3> QED BY <2>1, <2>2, <2>4, <3>1, ApplyKeeps DEF ReapplyFails
    <2> QED BY <1>9, <2>3, <2>4
<1>10. ASSUME NEW t \in Tickets, NEW left \in SUBSET rules[t], Revoke(t, left) PROVE IInv'
    <2>1. /\ known' \in [Tickets -> {"no", "direct", "listener"}]
          /\ \A u \in Tickets : known'[u] = "listener" => known[u] = "listener"
          /\ faults' \in 0 .. MaxFaults
        BY <1>10 DEF Revoke, Fault, IInv, TypeOK
    <2> QED BY <1>10, <2>1, RevokeRuleKeeps DEF Revoke
<1>11. ASSUME NEW t \in Tickets, RevokeFails(t) PROVE IInv'
    <2>1. UNCHANGED known /\ known \in [Tickets -> {"no", "direct", "listener"}] /\ faults' \in 0 .. MaxFaults
        BY <1>11 DEF RevokeFails, Fault, IInv, TypeOK
    <2>2. CASE RevokeRule(t, {})
        BY <1>11, <2>1, <2>2, RevokeRuleKeeps DEF RevokeFails
    <2>3. CASE UNCHANGED <<rules, element, stuck, shell>>
        BY <1>11, <2>1, <2>3, StatusKeeps DEF RevokeFails
    <2> QED BY <1>11, <2>2, <2>3 DEF RevokeFails
<1>12. ASSUME NEW t \in Tickets, RevokeBegins(t) PROVE IInv'
    <2>1. faults' \in 0 .. MaxFaults
        BY <1>12 DEF RevokeBegins, IInv, TypeOK
    <2> QED BY <1>12, <2>1, StatusKeeps DEF RevokeBegins
<1>13. CASE UNCHANGED vars
    <2>1. UNCHANGED <<catalog, ticket, known, agent, shells, over, stuck, faults>>
        BY <1>13 DEF vars
    <2> QED BY <2>1, LossKeeps DEF IInv, TypeOK
<1> QED
    BY <1>1, <1>2, <1>3, <1>4, <1>5, <1>6, <1>7, <1>8, <1>9, <1>10, <1>11, <1>12, <1>13,
       CatalogKeeps, SubmitKeeps, ApproveKeeps, ShellKeeps DEF Next

\* So it holds in every state of a behaviour.
LEMMA Invariance == Spec => []IInv
<1>1. IInv /\ [Next]_vars => IInv'
    BY NextIInv
<1> QED BY <1>1, InitIInv, PTL DEF Spec

-----------------------------------------------------------------------------
(* Theorems *)

\* Every variable keeps its type.
THEOREM TypeCorrect == Spec => []TypeOK
<1>1. IInv => TypeOK
    BY DEF IInv
<1> QED BY <1>1, Invariance, PTL

\* With any enforcer and any number of tickets to one asset, an Agent lets the
\* Server through to nothing but what approval froze (engine.go 188, nft.go).
THEOREM AccessFrozen == Spec => []AccessIsFrozen
<1>1. IInv => AccessIsFrozen
    <2> SUFFICES ASSUME IInv, NEW p \in Projects, NEW a \in Ids, Lets(p, a),
                        <<p, a>> \notin stuck
                 PROVE  \E t \in TicketsOf(p) :
                            /\ a \in ToSet(frozen[t])
                            /\ status[t] \notin {"pending", "closed"}
                            /\ a \in seen[t] => owner[a] = p
                            /\ a \notin seen[t] => kind = "nft"
        BY DEF AccessIsFrozen
    <2> USE DEF IInv
    <2>1. PICK t \in TicketsOf(p) : a \in rules[t] /\ kind \in {"nft", "forward"}
        BY DEF Lets, Programmed
    <2>2. t \in Tickets /\ project[t] = p
        BY DEF TicketsOf
    <2>3. /\ a \in ToSet(frozen[t]) /\ status[t] \notin {"none", "pending", "closed"}
          /\ a \in seen[t] => owner[a] = p
        BY <2>1, <2>2 DEF Ruled, Given
    <2>4. kind = "forward" => a \in seen[t]
        <3>1. PICK b \in seen[t] : b \in ToSet(frozen[t]) /\ b \in Ids
            BY <2>2, <2>3 DEF Given, TypeOK
        <3>2. kind = "forward" => a <= b
            BY <2>1, <2>2, <3>1 DEF Ruled
        <3> QED BY <2>2, <2>3, <3>1, <3>2 DEF Given, Ids
    <2> QED BY <2>1, <2>3, <2>4
<1> QED BY <1>1, Invariance, PTL

\* What a rule lost in the kernel, another ticket to the same target took with its
\* end: how far the tickets that docs/05-policy-engine.md:207 has independent of
\* each other are not (nft.go 100-119).
THEOREM SharedLost == Spec => []SharedIsLost
<1>1. IInv => SharedIsLost
    BY DEF IInv
<1> QED BY <1>1, Invariance, PTL

\* A session is on the asset of its row, or its ticket is one for several assets
\* with one listener (manager.go 71, forward.go 57).
THEOREM ShellOnRecord == Spec => []ShellIsOnRecord
<1>1. IInv => ShellIsOnRecord
    BY DEF IInv
<1> QED BY <1>1, Invariance, PTL
=============================================================================
