---------------------------- MODULE MCTicketTargets ----------------------------
(* TicketTargets on small instances.                                       *)
EXTENDS TicketTargets, TLC

Symmetry == Permutations(Projects) \cup Permutations(Tickets)

Sessions == {t \in Tickets : t \in opening \/ shell[t] # NoShell}

\* Sessions of one ticket at a time, none while an asset has no credential, none
\* after a second fault; all projects are there before the first ticket.
Few ==
    /\ Cardinality(Sessions) <= 1
    /\ creds # {a \in Ids : Exists(a)} \/ faults > 1 => Sessions = {}
    /\ projects # Projects => \A t \in Tickets : status[t] = "none"
===============================================================================
