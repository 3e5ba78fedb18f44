------------------------------- MODULE ShellTable -------------------------------
(***************************************************************************)
(* What the web shell manager promises the engine about the shells of a    *)
(* ticket, whatever its table, pumps and subscribers do inside.  A ticket  *)
(* gets a shell only from a terminal that was admitted while it was        *)
(* active, one from each, and a revoke returns only after a moment, since  *)
(* it began, when every shell of the ticket that still lived had lived     *)
(* beside another one.  No promise is made of those two cases: a terminal  *)
(* admitted before may open a shell after the revoke, and of two shells    *)
(* that two terminals opened at once a revoke may miss one.                *)
(***************************************************************************)

CONSTANTS
    Tickets,
    Conns,
    Shells,
    NoTicket

VARIABLES
    revoke,     \* revoke[t]: active, revoking, swept, revoked; stuck after a crash
    live,       \* live[t]: the shells of t that nobody has begun to close
    ending,     \* ending[t]: those whose Close is under way
    beside,     \* the shells that overlapped with another one of their ticket
    admitted    \* admitted[c]: the ticket terminal c may still open a shell of

vars == <<revoke, live, ending, beside, admitted>>

\* Nothing lives of t, except for except, that was ever alone.
Swept(t, except) == live[t] \ except \subseteq beside

-----------------------------------------------------------------------------

Init ==
    /\ revoke = [t \in Tickets |-> "active"]
    /\ live = [t \in Tickets |-> {}]
    /\ ending = [t \in Tickets |-> {}]
    /\ beside = {}
    /\ admitted = [c \in Conns |-> NoTicket]

Admit(c, t) ==
    /\ revoke[t] = "active"
    /\ admitted[c] = NoTicket
    /\ admitted' = [admitted EXCEPT ![c] = t]
    /\ UNCHANGED <<revoke, live, ending, beside>>

\* A terminal opens one shell, a new one.
Open(c, s) ==
    LET t == admitted[c]
        others == live[t] \cup ending[t]
    IN
    /\ t # NoTicket
    /\ s \notin beside /\ \A u \in Tickets : s \notin live[u] \cup ending[u]
    /\ live' = [live EXCEPT ![t] = @ \cup {s}]
    /\ beside' = IF others = {} THEN beside ELSE beside \cup others \cup {s}
    /\ admitted' = [admitted EXCEPT ![c] = NoTicket]
    /\ UNCHANGED <<revoke, ending>>

\* It has attached to one, or failed.
OpensNone(c) ==
    /\ admitted' = [admitted EXCEPT ![c] = NoTicket]
    /\ UNCHANGED <<revoke, live, ending, beside>>

\* A shell is closed.
Ends(t, s) ==
    /\ s \in live[t]
    /\ live' = [live EXCEPT ![t] = @ \ {s}]
    /\ ending' = [ending EXCEPT ![t] = @ \cup {s}]
    /\ UNCHANGED <<beside, admitted>>

Gone(t, s) ==
    /\ s \in ending[t]
    /\ ending' = [ending EXCEPT ![t] = @ \ {s}]
    /\ UNCHANGED <<revoke, live, beside, admitted>>

Begin(t) ==
    /\ revoke[t] = "active"
    /\ revoke' = [revoke EXCEPT ![t] = "revoking"]
    /\ UNCHANGED <<live, ending, beside, admitted>>

\* The revoke, or somebody else, closes the one shell that was left to close.
SweepEnding(t, s) ==
    /\ revoke[t] = "revoking" /\ Swept(t, {s})
    /\ revoke' = [revoke EXCEPT ![t] = "swept"]
    /\ Ends(t, s)

Sweep(t) ==
    /\ revoke[t] = "revoking" /\ Swept(t, {})
    /\ revoke' = [revoke EXCEPT ![t] = "swept"]
    /\ UNCHANGED <<live, ending, beside, admitted>>

Return(t) ==
    /\ revoke[t] = "swept" \/ (revoke[t] = "revoking" /\ Swept(t, {}))
    /\ revoke' = [revoke EXCEPT ![t] = "revoked"]
    /\ UNCHANGED <<live, ending, beside, admitted>>

\* The process ends: memory is gone, and whoever was at something.
Die ==
    /\ revoke' = [t \in Tickets |->
                     IF revoke[t] \in {"revoking", "swept"} THEN "stuck" ELSE revoke[t]]
    /\ live' = [t \in Tickets |-> {}]
    /\ ending' = [t \in Tickets |-> {}]
    /\ admitted' = [c \in Conns |-> NoTicket]
    /\ UNCHANGED beside

Next ==
    \/ \E c \in Conns :
        \/ OpensNone(c)
        \/ \E t \in Tickets : Admit(c, t)
        \/ \E s \in Shells : Open(c, s)
    \/ \E t \in Tickets :
        \/ Begin(t) \/ Sweep(t) \/ Return(t)
        \/ \E s \in Shells :
            Gone(t, s) \/ SweepEnding(t, s) \/ (Ends(t, s) /\ UNCHANGED revoke)
    \/ Die

Spec == Init /\ [][Next]_vars

=============================================================================
