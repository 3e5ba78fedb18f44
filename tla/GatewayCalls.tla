----------------------------- MODULE GatewayCalls -----------------------------
(***************************************************************************)
(* What the Agent gateway promises the Policy Engine about a call of       *)
(* ApplyRule or RevokeRule, whatever happens to streams, queues and        *)
(* answers on the way.  The commands of a call are sent one after the      *)
(* other, each once.  A command takes effect at most once, never after one *)
(* that was sent later, and possibly not at all or after its caller gave   *)
(* up.  A call goes on, and in the end succeeds, only when the command it  *)
(* is at took effect; an error says nothing.  Streams, channels, acks and  *)
(* the Agent's loop are all absent here.                                   *)
(***************************************************************************)
EXTENDS Naturals, SequencesExt

CONSTANTS
    Callers,    \* calls of the gateway
    Targets     \* Targets[c]: commands of call c

VARIABLES
    sent,       \* commands in the order they were sent
    handled,    \* commands in the order they took effect
    left,       \* left[c]: targets call c has to go
    result      \* result[c]: what call c returned, "none" before it did

vars == <<sent, handled, left, result>>

\* The command call c is at.
Command(c) == <<c, left[c]>>

SentBefore(x, y) == \E k, m \in DOMAIN sent : k < m /\ sent[k] = x /\ sent[m] = y

-----------------------------------------------------------------------------

Init ==
    /\ sent = <<>>
    /\ handled = <<>>
    /\ left = [c \in Callers |-> Targets[c]]
    /\ result = [c \in Callers |-> "none"]

Send(c) ==
    /\ result[c] = "none"
    /\ Command(c) \notin ToSet(sent)
    /\ sent' = Append(sent, Command(c))
    /\ UNCHANGED <<handled, left, result>>

\* Whatever its caller does by now; a command that was overtaken is lost.
TakesEffect(x) ==
    /\ \A y \in ToSet(handled) : SentBefore(y, x)
    /\ handled' = Append(handled, x)
    /\ UNCHANGED <<sent, left, result>>

\* ApplyRule goes on to its next target.
GoesOn(c) ==
    /\ result[c] = "none"
    /\ left[c] > 1
    /\ Command(c) \in ToSet(handled)
    /\ left' = [left EXCEPT ![c] = @ - 1]
    /\ UNCHANGED <<sent, handled, result>>

Succeeds(c) ==
    /\ result[c] = "none"
    /\ left[c] = 1
    /\ Command(c) \in ToSet(handled)
    /\ result' = [result EXCEPT ![c] = "ok"]
    /\ UNCHANGED <<sent, handled, left>>

Fails(c) ==
    /\ result[c] = "none"
    /\ result' = [result EXCEPT ![c] = "error"]
    /\ UNCHANGED <<sent, handled, left>>

Next ==
    \/ \E c \in Callers : Send(c) \/ GoesOn(c) \/ Succeeds(c) \/ Fails(c)
    \/ \E x \in ToSet(sent) : TakesEffect(x)

Spec == Init /\ [][Next]_vars

===============================================================================
