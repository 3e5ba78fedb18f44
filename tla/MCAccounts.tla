------------------------------ MODULE MCAccounts ------------------------------
(* Accounts on small instances.                                            *)
EXTENDS Accounts, TLC

Symmetry == Permutations(Logins)

UnderWay == {l \in Logins : login[l] # NoUser}

\* Logins under way are those of one account, and only one account has failed
\* logins, or is retired.  There are no tickets while logins overlap, while a
\* failure is lost, and while one logs in whose other tokens are in use.  One
\* account changes its role, and then none is retired, no login fails, and there
\* are two tokens and logins at most.
Few ==
    /\ Cardinality({login[l] : l \in UnderWay}) <= 1
    /\ Cardinality({u \in Users : failed[u] # 0 \/ guesses[u] # 0 \/ locked[u] # 0}) <= 1
    /\ Cardinality({u \in Users : off[u] # 0}) <= 1
    /\ Cardinality(UnderWay) + Cardinality(tokens) <= 3
    /\ Cardinality({u \in Users : changed[u] # 0}) <= 1
    /\ (\E u \in Users : changed[u] # 0) =>
          /\ Cardinality(UnderWay) + Cardinality(tokens) <= 2
          /\ \A u \in Users : off[u] = 0 /\ failed[u] = 0 /\ locked[u] = 0 /\ guesses[u] = 0
    /\ (\E t \in Tickets : ticket[t] # NoTicket) =>
          /\ lost = 0 /\ Cardinality(UnderWay) <= 1
          /\ UnderWay = {} \/ Cardinality(tokens) <= 1
===============================================================================
