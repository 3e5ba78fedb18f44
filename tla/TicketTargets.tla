---------------------------- MODULE TicketTargets ----------------------------
(***************************************************************************)
(* What a ticket leads to, from the catalog to the asset: the assets a     *)
(* ticket names, the approval that freezes them (policy/engine.go), the    *)
(* commands an ApplyRule is made of (agentctl/controller.go), what the     *)
(* Agent's enforcer does with several targets of one rule (forward.go,     *)
(* nft.go, the mock of agentgw), and the connection a web shell makes      *)
(* (webshell/manager.go).                                                  *)
(*                                                                         *)
(* PolicyEngine has the interleavings inside Apply and Revoke; here an     *)
(* ApplyRule with all its commands is one step, which may stop after any   *)
(* of them, and a Revoke is two.  A project has one Agent, an asset one    *)
(* address of its own, a ticket one port, the Server one address.  Ids are *)
(* given out in the order the rows appear.                                 *)
(***************************************************************************)
EXTENDS Naturals, FiniteSets, SequencesExt

CONSTANTS
    Projects, Tickets,
    NoProject, NoTicket,
    MaxAssets,  \* bound: rows of yusui.assets; their ids are 1 .. MaxAssets
    MaxFaults   \* bound: failed calls, restarts of an Agent or of the server

ASSUME ConstantsAssumption ==
    /\ NoProject \notin Projects /\ NoTicket \notin Tickets
    /\ MaxAssets \in Nat /\ MaxFaults \in Nat

Ids == 1 .. MaxAssets

\* The asset_ids of a ticket: the order of the request, no duplicates (bound).
Selectors == {s \in BoundedSeq(Ids, 2) : s # <<>> /\ IsInjective(s)}

VARIABLES
    kind,       \* enforcer of the Agents, or "memory" for the mock gateway
    projects,   \* rows of yusui.projects
    owner,      \* owner[a]: project of asset a, NoProject before its row is there
    creds,      \* assets with an active credential
    status, project,    \* columns of yusui.tickets
    frozen,     \* target_selector, which approval copies to frozen_asset_ids
    known,      \* Engine.forwards: "no" without key, else what the address is
    rules,      \* rules[t]: targets of the rule of t in the enforcer's map
    element,    \* element[p][a]: ticket whose timeout the element of a has
    shell,      \* shell[t]: its session: asset of the row, asset it is on, how
    opening,    \* tickets that a terminal handler has read as active
    over,       \* tickets whose window has ended
    seen,       \* seen[t]: its assets that existed when it was approved
    stuck,      \* elements that nft failed to delete
    faults

catalog == <<kind, projects, owner, creds>>
ticket  == <<status, project, frozen, seen>>
agent   == <<rules, element>>
shells  == <<shell, opening>>
vars == <<catalog, ticket, known, agent, shells, over, stuck, faults>>

NoShell == [via |-> "none"]

TypeOK ==
    /\ kind \in {"forward", "nft", "memory"}
    /\ projects \in SUBSET Projects
    /\ owner \in [Ids -> Projects \cup {NoProject}]
    /\ creds \in SUBSET Ids
    /\ status \in [Tickets -> {"none", "pending", "approved", "active", "apply_failed",
                               "revoking", "revoke_pending", "closed"}]
    /\ project \in [Tickets -> Projects \cup {NoProject}]
    /\ frozen \in [Tickets -> Selectors \cup {<<>>}]
    /\ known \in [Tickets -> {"no", "direct", "listener"}]
    /\ rules \in [Tickets -> SUBSET Ids]
    /\ element \in [Projects -> [Ids -> Tickets \cup {NoTicket}]]
    /\ shell \in [Tickets -> {NoShell} \cup
                     [asset : Ids, on : Ids, via : {"listener", "direct"}]]
    /\ opening \in SUBSET Tickets
    /\ over \in SUBSET Tickets
    /\ seen \in [Tickets -> SUBSET Ids]
    /\ stuck \in SUBSET (Projects \X Ids)
    /\ faults \in 0 .. MaxFaults

Exists(a) == owner[a] # NoProject

Fault == faults < MaxFaults /\ faults' = faults + 1

Init ==
    /\ kind \in {"forward", "nft", "memory"}
    /\ projects = {}
    /\ owner = [a \in Ids |-> NoProject]
    /\ creds = {}
    /\ status = [t \in Tickets |-> "none"]
    /\ project = [t \in Tickets |-> NoProject]
    /\ frozen = [t \in Tickets |-> <<>>]
    /\ known = [t \in Tickets |-> "no"]
    /\ rules = [t \in Tickets |-> {}]
    /\ element = [p \in Projects |-> [a \in Ids |-> NoTicket]]
    /\ shell = [t \in Tickets |-> NoShell]
    /\ opening = {}
    /\ over = {}
    /\ seen = [t \in Tickets |-> {}]
    /\ stuck = {}
    /\ faults = 0

-----------------------------------------------------------------------------
(* The catalog *)

CreateProject(p) ==
    /\ p \notin projects
    /\ projects' = projects \cup {p}
    /\ UNCHANGED <<kind, owner, creds, ticket, known, agent, shells, over, stuck, faults>>

CreateAsset(p, a) ==
    /\ p \in projects
    /\ ~Exists(a) /\ \A b \in 1 .. a - 1 : Exists(b)
    /\ owner' = [owner EXCEPT ![a] = p]
    /\ UNCHANGED <<kind, projects, creds, ticket, known, agent, shells, over, stuck, faults>>

CreateCredential(a) ==
    /\ Exists(a) /\ a \notin creds
    /\ creds' = creds \cup {a}
    /\ UNCHANGED <<kind, projects, owner, ticket, known, agent, shells, over, stuck, faults>>

-----------------------------------------------------------------------------
(* Submit and Approve *)

\* Assets of t that have a row by now.
Assets(t) == {a \in ToSet(frozen[t]) : Exists(a)}

\* Nothing is asked of the assets yet.
Submit(t, p, asked) ==
    /\ status[t] = "none"
    /\ p \in projects
    /\ status' = [status EXCEPT ![t] = "pending"]
    /\ project' = [project EXCEPT ![t] = p]
    /\ frozen' = [frozen EXCEPT ![t] = asked]
    /\ UNCHANGED <<catalog, seen, known, agent, shells, over, stuck, faults>>

\* Mutant: the project of the assets is not compared.
ApproveAnyProject(t) ==
    /\ status[t] = "pending"
    /\ Assets(t) # {}
    /\ status' = [status EXCEPT ![t] = "approved"]
    /\ seen' = [seen EXCEPT ![t] = Assets(t)]
    /\ UNCHANGED <<catalog, project, frozen, known, agent, shells, over, stuck, faults>>

\* The ids are frozen as they were asked for, those without a row included.
Approve(t) ==
    /\ status[t] = "pending"
    /\ Assets(t) # {} /\ \A a \in Assets(t) : owner[a] = project[t]
    /\ status' = [status EXCEPT ![t] = "approved"]
    /\ seen' = [seen EXCEPT ![t] = Assets(t)]
    /\ UNCHANGED <<catalog, project, frozen, known, agent, shells, over, stuck, faults>>

-----------------------------------------------------------------------------
(* ApplyRule: the commands, and what the enforcers make of them *)

\* The first n of them: ListAssetsByIDs (ORDER BY id) and buildTargets.
Sent(t, n) == {a \in Assets(t) : Cardinality({b \in Assets(t) : b < a}) < n}

\* One listener per rule: the second command finds it and is answered with it.
ForwardApply(t, n) ==
    /\ kind = "forward"
    /\ rules' = [rules EXCEPT ![t] =
                    IF @ = {} THEN Sent(t, IF n = 0 THEN 0 ELSE 1) ELSE @]
    /\ UNCHANGED element

\* One element per target, for all rules of the Agent: an element that is there
\* keeps its timeout, or takes the new one, as the kernel has it.  Every element
\* gets a second at least, also one of a ticket that is over.
NftApply(t, n) ==
    /\ kind = "nft"
    /\ rules' = [rules EXCEPT ![t] = @ \cup Sent(t, n)]
    /\ \E renews \in BOOLEAN :
          element' = [element EXCEPT ![project[t]] =
              [a \in Ids |-> IF a \in Sent(t, n) /\ (renews \/ @[a] = NoTicket)
                             THEN t ELSE @[a]]]

\* The mock has no commands: all targets or none.
MemoryApply(t, n) ==
    /\ kind = "memory"
    /\ n = Cardinality(Assets(t))
    /\ rules' = [rules EXCEPT ![t] = Sent(t, n)]
    /\ UNCHANGED element

\* The first n commands take effect.
ApplyRule(t, n) == ForwardApply(t, n) \/ NftApply(t, n) \/ MemoryApply(t, n)

\* Engine.setForward with the answer of an ApplyRule that succeeded.
SetForward(t) ==
    known' = [known EXCEPT ![t] = IF kind = "forward" THEN "listener" ELSE "direct"]

Apply(t) ==
    /\ status[t] = "approved"
    /\ ApplyRule(t, Cardinality(Assets(t)))
    /\ SetForward(t)
    /\ status' = [status EXCEPT ![t] = "active"]
    /\ UNCHANGED <<catalog, project, frozen, seen, shells, over, stuck, faults>>

\* What was applied stays; no binding, so nobody revokes it.
ApplyFails(t, n) ==
    /\ status[t] = "approved" /\ kind # "memory"
    /\ Fault
    /\ ApplyRule(t, n)
    /\ status' = [status EXCEPT ![t] = "apply_failed"]
    /\ UNCHANGED <<catalog, project, frozen, seen, known, shells, over, stuck>>

\* RebuildForwards, for a ticket without address.
Reapply(t) ==
    /\ status[t] = "active" /\ known[t] = "no"
    /\ ApplyRule(t, Cardinality(Assets(t)))
    /\ SetForward(t)
    /\ UNCHANGED <<catalog, ticket, shells, over, stuck, faults>>

ReapplyFails(t, n) ==
    /\ status[t] = "active" /\ known[t] = "no" /\ kind # "memory"
    /\ Fault
    /\ ApplyRule(t, n)
    /\ UNCHANGED <<catalog, ticket, known, shells, over, stuck>>

-----------------------------------------------------------------------------
(* Revoke *)

\* Sessions on a listener of these tickets lose their connection.
Cut(ts) == [t \in Tickets |-> IF t \in ts /\ shell[t].via = "listener"
                              THEN NoShell ELSE shell[t]]

\* The status, then ForceCloseByTicket.  ExpireDue does the same for tickets
\* that are over.
RevokeBegins(t) ==
    /\ status[t] = "active"
    /\ status' = [status EXCEPT ![t] = "revoking"]
    /\ shell' = [shell EXCEPT ![t] = NoShell]
    /\ UNCHANGED <<catalog, project, frozen, seen, known, agent, opening, over, stuck, faults>>

\* Mutant: the listener is closed, its connections go on.
RevokeRuleLeaves(t, left) ==
    /\ left = {}
    /\ rules' = [rules EXCEPT ![t] = {}]
    /\ element' = [element EXCEPT ![project[t]] =
                      [a \in Ids |-> IF a \in rules[t] THEN NoTicket ELSE @[a]]]
    /\ UNCHANGED <<shell, stuck>>

\* The listener with its connections, or the elements whose keys the rule has,
\* whoever else has them, but for those that nft fails to delete: the error is
\* dropped.  A connection through the kernel goes on: it is established.
RevokeRule(t, left) ==
    LET p == project[t]
        gone == rules[t] \ left
    IN
    /\ left \subseteq {a \in rules[t] : element[p][a] # NoTicket}
    /\ rules' = [rules EXCEPT ![t] = {}]
    /\ element' = [element EXCEPT ![p] =
                      [a \in Ids |-> IF a \in gone THEN NoTicket ELSE @[a]]]
    /\ stuck' = (stuck \cup {<<p, a>> : a \in left}) \ {<<p, a>> : a \in gone}
    /\ shell' = Cut({t})

Revoke(t, left) ==
    /\ status[t] = "revoking"
    /\ RevokeRule(t, left)
    /\ IF left = {} THEN UNCHANGED faults ELSE Fault
    /\ known' = [known EXCEPT ![t] = "no"]
    /\ status' = [status EXCEPT ![t] = "closed"]
    /\ UNCHANGED <<catalog, project, frozen, seen, opening, over>>

\* The Agent is not reached, or its answer is not.
RevokeFails(t) ==
    /\ status[t] = "revoking" /\ kind # "memory"
    /\ Fault
    /\ RevokeRule(t, {}) \/ UNCHANGED <<rules, element, stuck, shell>>
    /\ status' = [status EXCEPT ![t] = "revoke_pending"]
    /\ UNCHANGED <<catalog, project, frozen, seen, known, opening, over>>

-----------------------------------------------------------------------------
(* A web shell *)

OpenReads(t) ==
    /\ status[t] = "active" /\ shell[t] = NoShell
    /\ opening' = opening \cup {t}
    /\ UNCHANGED <<catalog, ticket, known, agent, shell, over, stuck, faults>>

\* Row and credential are those of the first id that was asked for; the
\* connection goes to the listener, or straight to that asset (through the
\* Agent's kernel, which lets it pass or not).
Open(t, on, via) ==
    LET asset == frozen[t][1] IN
    /\ t \in opening /\ shell[t] = NoShell
    /\ asset \in creds
    /\ \/ via = "listener" /\ known[t] = "listener" /\ on \in rules[t]
       \/ /\ via = "direct" /\ known[t] # "listener" /\ on = asset
          /\ kind = "nft" => element[project[t]][asset] # NoTicket
    /\ shell' = [shell EXCEPT ![t] = [asset |-> asset, on |-> on, via |-> via]]
    /\ opening' = opening \ {t}
    /\ UNCHANGED <<catalog, ticket, known, agent, over, stuck, faults>>

\* No asset, no credential, no connection, or no login.
OpenFails(t) ==
    /\ t \in opening
    /\ opening' = opening \ {t}
    /\ UNCHANGED <<catalog, ticket, known, agent, shell, over, stuck, faults>>

ShellEnds(t) ==
    /\ shell[t] # NoShell
    /\ shell' = [shell EXCEPT ![t] = NoShell]
    /\ UNCHANGED <<catalog, ticket, known, agent, opening, over, stuck, faults>>

-----------------------------------------------------------------------------
(* Time and restarts *)

WindowEnds(t) ==
    /\ t \notin over
    /\ status[t] \notin {"none", "pending", "approved"}
    /\ over' = over \cup {t}
    /\ UNCHANGED <<catalog, ticket, known, agent, shells, stuck, faults>>

\* The TTL timer of the forwarder, if it has one (Forwarder).
ListenerTimesOut(t) ==
    /\ kind = "forward" /\ t \in over /\ rules[t] # {}
    /\ rules' = [rules EXCEPT ![t] = {}]
    /\ shell' = Cut({t})
    /\ UNCHANGED <<catalog, ticket, known, element, opening, over, stuck, faults>>

\* The kernel drops an element; the map does not learn of it.
ElementTimesOut(p, a) ==
    /\ element[p][a] \in over
    /\ element' = [element EXCEPT ![p][a] = NoTicket]
    /\ stuck' = stuck \ {<<p, a>>}
    /\ UNCHANGED <<catalog, ticket, known, rules, shells, over, faults>>

TicketsOf(p) == {t \in Tickets : project[t] = p}

\* The map is empty; listeners died with the process, Setup has made new tables.
AgentRestarts(p) ==
    /\ kind # "memory"
    /\ Fault
    /\ rules' = [t \in Tickets |-> IF t \in TicketsOf(p) THEN {} ELSE rules[t]]
    /\ element' = [element EXCEPT ![p] = [a \in Ids |-> NoTicket]]
    /\ stuck' = {e \in stuck : e[1] # p}
    /\ shell' = Cut(TicketsOf(p))
    /\ UNCHANGED <<catalog, ticket, known, opening, over>>

\* OnAgentReconnect, also after a loss of the stream alone.
AgentReconnects(p) ==
    /\ kind # "memory"
    /\ \E t \in TicketsOf(p) : status[t] = "active" /\ known[t] # "no"
    /\ known' = [t \in Tickets |->
                    IF t \in TicketsOf(p) /\ status[t] = "active" THEN "no" ELSE known[t]]
    /\ UNCHANGED <<catalog, ticket, agent, shells, over, stuck, faults>>

\* The mock is part of the process.  PolicyEngine has the tickets that a crash
\* leaves in between.
ServerRestarts ==
    /\ Fault
    /\ known' = [t \in Tickets |-> "no"]
    /\ shell' = [t \in Tickets |-> NoShell]
    /\ opening' = {}
    /\ rules' = IF kind = "memory" THEN [t \in Tickets |-> {}] ELSE rules
    /\ UNCHANGED <<catalog, ticket, element, over, stuck>>

Next ==
    \/ \E p \in Projects :
        \/ CreateProject(p) \/ AgentRestarts(p) \/ AgentReconnects(p)
        \/ \E a \in Ids : CreateAsset(p, a) \/ ElementTimesOut(p, a)
        \/ \E t \in Tickets, asked \in Selectors : Submit(t, p, asked)
    \/ \E a \in Ids : CreateCredential(a)
    \/ \E t \in Tickets :
        \/ Approve(t) \/ Apply(t) \/ Reapply(t)
        \/ \E n \in 0 .. Cardinality(Assets(t)) : ApplyFails(t, n) \/ ReapplyFails(t, n)
        \/ RevokeBegins(t) \/ RevokeFails(t)
        \/ \E left \in SUBSET rules[t] : Revoke(t, left)
        \/ OpenReads(t) \/ OpenFails(t) \/ ShellEnds(t)
        \/ \E on \in Ids, via \in {"listener", "direct"} : Open(t, on, via)
        \/ WindowEnds(t) \/ ListenerTimesOut(t)
    \/ ServerRestarts

Spec == Init /\ [][Next]_vars

-----------------------------------------------------------------------------
(* Properties *)

\* What an Agent lets through.
Lets(p, a) == \/ element[p][a] # NoTicket
              \/ kind = "forward" /\ \E t \in TicketsOf(p) : a \in rules[t]

\* An Agent lets nothing through but what a ticket of its project has frozen
\* that is not closed; what is left after that was never deleted by nft.  The
\* asset was there, in the project, when that ticket was approved, unless it
\* came later and the kernel enforcer applied it again (nft.go, engine.go 198).
AccessIsFrozen ==
    \A p \in Projects, a \in Ids :
        Lets(p, a) =>
            \/ <<p, a>> \in stuck
            \/ \E t \in TicketsOf(p) :
                /\ a \in ToSet(frozen[t])
                /\ status[t] \notin {"pending", "closed"}
                /\ a \in seen[t] => owner[a] = p
                /\ a \notin seen[t] => kind = "nft"

\* A session is on the asset of its row and of its credential, unless it goes
\* through the one listener of a ticket for several assets which did not name
\* the oldest first; and no connection outlives its listener (manager.go 71,
\* engine.go 247, forward.go 57).
ShellIsOnRecord ==
    \A t \in Tickets :
        shell[t] # NoShell =>
            /\ \/ shell[t].on = shell[t].asset
               \/ /\ shell[t].via = "listener" /\ Len(frozen[t]) > 1
                  /\ shell[t].on < shell[t].asset
            /\ shell[t].via = "listener" => shell[t].on \in rules[t]

=============================================================================
