--------------------------- MODULE ControlStreamProofs ---------------------------
(***************************************************************************)
(* Theorems about ControlStream, for any streams, calls, targets and       *)
(* capacities.  A command passes through two channels, an Agent and a way  *)
(* back: the invariant says of each place what is in it (Placed), what an  *)
(* answer there stands for (Earned), in which order (Ordered), and that    *)
(* nothing is in two places (Single).  The two channels of a stream are    *)
(* one Queue, which the send pump leaves as it is.                         *)
(* From it, at the end: the streams keep the promise of GatewayCalls.      *)
(***************************************************************************)
EXTENDS ControlStream, SequenceTheorems, TLAPS

-----------------------------------------------------------------------------
(* Sequences *)

\* What is added to a sequence is its last element and nothing else changes.
LEMMA Appended ==
    ASSUME NEW S, NEW q \in Seq(S), NEW e \in S
    PROVE  /\ Append(q, e) \in Seq(S)
           /\ Len(Append(q, e)) = Len(q) + 1
           /\ \A i \in 1 .. Len(q) : Append(q, e)[i] = q[i]
           /\ Append(q, e)[Len(q) + 1] = e
OBVIOUS

\* What is left of a sequence without its head.
LEMMA Shortened ==
    ASSUME NEW S, NEW q \in Seq(S), q # <<>>
    PROVE  /\ Tail(q) \in Seq(S) /\ Head(q) \in S /\ Head(q) = q[1]
           /\ Len(q) \in Nat \ {0} /\ Len(Tail(q)) = Len(q) - 1
           /\ \A i \in 1 .. Len(Tail(q)) : Tail(q)[i] = q[i + 1]
<1>1. Len(q) \in Nat \ {0}
  BY EmptySeq
<1>2. Head(q) = q[1]
  OBVIOUS
<1> QED
  BY <1>1, <1>2, HeadTailProperties

\* The Agent holds one answer, and putting it on its way adds that one.
LEMMA Handed ==
    ASSUME NEW S, NEW q \in Seq(S), NEW h \in Seq(S), h # <<>>, Len(h) <= 1
    PROVE  h[1] \in S /\ DOMAIN h = {1} /\ q \o h = Append(q, h[1])
<1>1. Len(h) \in Nat \ {0}
  BY EmptySeq
<1>2. Len(h) = 1
  <2>1. \A n \in Nat \ {0} : n <= 1 => n = 1
    OBVIOUS
  <2> QED
    BY <1>1, <2>1, Zenon
<1>3. h[1] \in S /\ DOMAIN h = {1} /\ Len(q) \in Nat
  BY <1>2
<1>4. /\ q \o h \in Seq(S) /\ Len(q \o h) = Len(q) + 1
      /\ \A i \in 1 .. Len(q) + 1 : (q \o h)[i] = IF i <= Len(q) THEN q[i] ELSE h[i - Len(q)]
  BY <1>2, ConcatProperties
<1>5. \A i \in 1 .. Len(q) + 1 : (q \o h)[i] = Append(q, h[1])[i]
  BY <1>3, <1>4, Appended
<1> QED
  BY <1>3, <1>4, <1>5, Appended, SeqEqual

-----------------------------------------------------------------------------
(* Types *)

\* The parts of TypeOK that a step on the sequences of a stream has to restore.
LEMMA QueuesTyped ==
    ASSUME TypeOK, NEW s \in Streams
    PROVE  /\ send[s] \in Seq(Commands) /\ down[s] \in Seq(Commands)
           /\ up[s] \in Seq(Answers) /\ hand \in Seq(Answers)
           /\ sent \in Seq(Commands) /\ handled \in Seq(Commands)
BY DEF TypeOK

\* Every step keeps every variable in its type.
THEOREM TypeCorrect == Spec => []TypeOK
<1>1. Init => TypeOK
  BY ConstantsAssumption DEF Init, TypeOK, ConstantsAssumption
<1>2. TypeOK /\ [Next]_vars => TypeOK'
  <2> SUFFICES ASSUME TypeOK, [Next]_vars PROVE TypeOK'
    OBVIOUS
  <2> USE DEF agent, server, wire, waits, callers, history
  <2>0. SendCap \in Nat /\ WireCap \in Nat
    BY ConstantsAssumption DEF ConstantsAssumption
  <2>1. ASSUME NEW s \in Streams, AgentDials(s) PROVE TypeOK'
    BY <2>1 DEF AgentDials, TypeOK
  <2>2. ASSUME NEW s \in Streams, ControlBegins(s) PROVE TypeOK'
    BY <2>2 DEF ControlBegins, TypeOK
  <2>3. ASSUME NEW s \in Streams, Break(s) PROVE TypeOK'
    BY <2>3 DEF Break, TypeOK
  <2>4. CASE AgentLeaves
    BY <2>4 DEF AgentLeaves, TypeOK
  <2>5. CASE AgentCrash
    BY <2>5 DEF AgentCrash, TypeOK
  <2>6. ASSUME NEW s \in Streams, ControlEnds(s) PROVE TypeOK'
    BY <2>6 DEF ControlEnds, TypeOK
  <2>7. ASSUME NEW c \in Callers, CallFails(c) PROVE TypeOK'
    BY <2>7 DEF CallFails, TypeOK
  <2>8. ASSUME NEW c \in Callers, CallBegins(c) PROVE TypeOK'
    BY <2>8 DEF CallBegins, TypeOK, Command, Commands
  <2>9. ASSUME NEW c \in Callers, CommandSend(c) PROVE TypeOK'
    <3>1. Command(c) \in Commands
      BY DEF Command, Commands, TypeOK
    <3>2. sent' \in Seq(Commands)
      BY <2>9, <3>1 DEF CommandSend, TypeOK
    <3>3. ASSUME via[c] \in Streams
          PROVE  /\ send' \in [Streams -> Seq(Commands)]
                 /\ \A s \in Streams : Len(send'[s]) <= SendCap
      <4> DEFINE q == Append(send[via[c]], Command(c))
      <4>1. q \in Seq(Commands) /\ Len(q) = Len(send[via[c]]) + 1 /\ Len(send[via[c]]) \in Nat
        BY <3>1, <3>3, QueuesTyped, Appended
      <4>2. send' = [send EXCEPT ![via[c]] = q] /\ Len(send[via[c]]) < SendCap
        BY <2>9 DEF CommandSend
      <4>3. Len(q) <= SendCap
        BY <2>0, <4>1, <4>2
      <4> HIDE DEF q
      <4> QED
        BY <3>3, <4>1, <4>2, <4>3 DEF TypeOK
    <3>4. ASSUME via[c] \notin Streams
          PROVE  /\ send' \in [Streams -> Seq(Commands)]
                 /\ \A s \in Streams : Len(send'[s]) <= SendCap
      BY <2>9, <3>4 DEF CommandSend, TypeOK
    <3> QED
      BY <2>9, <3>2, <3>3, <3>4 DEF CommandSend, TypeOK
  <2>10. ASSUME NEW c \in Callers, GiveUp(c) PROVE TypeOK'
    BY <2>10 DEF GiveUp, TypeOK
  <2>11. ASSUME NEW c \in Callers, NEW a \in box, Answered(c, a) PROVE TypeOK'
    <3>1. left' \in [Callers -> Nat]
      BY <2>11 DEF Answered, TypeOK
    <3>2. acks' \subseteq Commands
      BY <2>11, <3>1 DEF Answered, TypeOK, Command, Commands
    <3> QED
      BY <2>11, <3>1, <3>2 DEF Answered, TypeOK
  <2>12. ASSUME NEW s \in Streams, PumpSend(s) PROVE TypeOK'
    <3>1. /\ Tail(send[s]) \in Seq(Commands) /\ Len(Tail(send[s])) = Len(send[s]) - 1
          /\ Len(send[s]) \in Nat /\ Head(send[s]) \in Commands
      BY <2>12, Shortened, QueuesTyped DEF PumpSend
    <3>2. /\ Append(down[s], Head(send[s])) \in Seq(Commands)
          /\ Len(Append(down[s], Head(send[s]))) = Len(down[s]) + 1
          /\ Len(down[s]) \in Nat
      BY <3>1, Appended, QueuesTyped
    <3> DEFINE q == Tail(send[s])
               d == Append(down[s], Head(send[s]))
    <3>3. send' = [send EXCEPT ![s] = q] /\ down' = [down EXCEPT ![s] = d]
      BY <2>12 DEF PumpSend
    <3>4. Len(q) <= SendCap /\ Len(d) <= WireCap
      BY SMTT(20), <2>12, <2>0, <3>1, <3>2 DEF PumpSend, TypeOK
    <3>5. q \in Seq(Commands) /\ d \in Seq(Commands)
      BY <3>1, <3>2
    <3> HIDE DEF q, d
    <3>6. /\ send' \in [Streams -> Seq(Commands)]
          /\ down' \in [Streams -> Seq(Commands)]
          /\ \A r \in Streams : Len(send'[r]) <= SendCap /\ Len(down'[r]) <= WireCap
      BY <3>3, <3>4, <3>5 DEF TypeOK
    <3> QED
      BY <2>12, <3>6 DEF PumpSend, TypeOK
  <2>13. ASSUME NEW s \in Streams, Receive(s) PROVE TypeOK'
    <3>1. Tail(up[s]) \in Seq(Answers) /\ Head(up[s]) \in Answers
      BY <2>13, Shortened, QueuesTyped DEF Receive
    <3> QED
      BY <2>13, <3>1 DEF Receive, TypeOK
  <2>14. ASSUME NEW s \in Streams, AgentHandles(s) PROVE TypeOK'
    <3>1. /\ Tail(down[s]) \in Seq(Commands) /\ Len(Tail(down[s])) = Len(down[s]) - 1
          /\ Len(down[s]) \in Nat /\ Head(down[s]) \in Commands
      BY <2>14, Shortened, QueuesTyped DEF AgentHandles
    <3>2. PICK ok \in BOOLEAN :
            /\ hand' = <<[cmd |-> Head(down[s]), ok |-> ok]>>
            /\ handled' = IF ok THEN Append(handled, Head(down[s])) ELSE handled
      BY <2>14 DEF AgentHandles
    <3>3. handled' \in Seq(Commands)
      BY <3>1, <3>2, QueuesTyped, Appended
    <3>4. hand' \in Seq(Answers) /\ Len(hand') <= 1
      <4>1. [cmd |-> Head(down[s]), ok |-> ok] \in Answers
        BY <3>1 DEF Answers
      <4> QED
        BY <3>2, <4>1
    <3>5. /\ down' \in [Streams -> Seq(Commands)]
          /\ \A r \in Streams : Len(down'[r]) <= WireCap
      BY <2>14, <2>0, <3>1 DEF AgentHandles, TypeOK
    <3> QED
      BY <2>14, <3>3, <3>4, <3>5 DEF AgentHandles, TypeOK
  <2>15. CASE AgentAnswers
    <3>1. \A q \in Seq(Answers) : q \o hand \in Seq(Answers)
      BY ConcatProperties DEF TypeOK
    <3>2. up' \in [Streams -> Seq(Answers)]
      BY <2>15, <3>1 DEF AgentAnswers, TypeOK
    <3> QED
      BY <2>15, <3>2 DEF AgentAnswers, TypeOK
  <2>16. CASE UNCHANGED vars
    BY <2>16 DEF vars, TypeOK
  <2> QED
    BY <2>1, <2>2, <2>3, <2>4, <2>5, <2>6, <2>7, <2>8, <2>9, <2>10, <2>11, <2>12,
       <2>13, <2>14, <2>15, <2>16 DEF Next, StreamStep, CallerStep, AgentStep
<1> QED
  BY <1>1, <1>2, PTL DEF Spec

-----------------------------------------------------------------------------
(* Success *)

\* A stream that Control has not begun carries nothing, and no call is on one;
\* an answer in the Agent's hand came over the stream it is on.
Placed ==
    /\ EntryIsServed
    /\ link # NoStream => stream[link] # "none"
    /\ hand # <<>> => link # NoStream /\ stream[link] \in {"open", "ended"}
    /\ \A s \in Streams : stream[s] \in {"none", "dialled"} =>
          send[s] = <<>> /\ down[s] = <<>> /\ up[s] = <<>>
    /\ \A c \in Callers : pc[c] \in {"send", "wait"} =>
          via[c] \in Streams /\ stream[via[c]] \in {"open", "ended"}

\* An answer that says so, wherever it is, stands for a command carried out, and
\* a call that has n targets to go has had all others carried out.
Earned ==
    /\ \A a \in ToSet(hand) \cup box : a.ok => a.cmd \in ToSet(handled)
    /\ \A s \in Streams : \A a \in ToSet(up[s]) : a.ok => a.cmd \in ToSet(handled)
    /\ \A c \in Callers :
        /\ left[c] # 0
        /\ \A n \in (left[c] + 1) .. Targets[c] : <<c, n>> \in ToSet(handled)
    /\ SuccessIsEarned

\* The elements of a sequence that grew or lost its head.
LEMMA AppendedSet ==
    ASSUME NEW S, NEW q \in Seq(S), NEW e \in S
    PROVE  ToSet(Append(q, e)) = ToSet(q) \cup {e}
<1>1. /\ DOMAIN q = 1 .. Len(q) /\ Len(q) \in Nat
      /\ DOMAIN Append(q, e) = 1 .. (Len(q) + 1)
  BY Appended, LenProperties
<1>2. \A i \in 1 .. (Len(q) + 1) : i \in 1 .. Len(q) \/ i = Len(q) + 1
  BY <1>1
<1> QED
  BY <1>1, <1>2, Appended DEF ToSet

LEMMA ShortenedSet ==
    ASSUME NEW S, NEW q \in Seq(S), q # <<>>
    PROVE  ToSet(q) = ToSet(Tail(q)) \cup {Head(q)}
<1>1. /\ DOMAIN q = 1 .. Len(q) /\ Len(q) \in Nat \ {0}
      /\ DOMAIN Tail(q) = 1 .. (Len(q) - 1)
  BY Shortened, LenProperties
<1>2. ASSUME NEW i \in 1 .. Len(q) PROVE q[i] \in ToSet(Tail(q)) \cup {Head(q)}
  <2>1. CASE i = 1
    BY <2>1, Shortened
  <2>2. CASE i # 1
    <3>1. i - 1 \in 1 .. (Len(q) - 1) /\ i = (i - 1) + 1
      BY <1>1, <2>2
    <3>2. Tail(q)[i - 1] = q[i]
      BY <1>1, <3>1, Shortened
    <3> QED
      BY <1>1, <3>1, <3>2 DEF ToSet
  <2> QED
    BY <2>1, <2>2
<1>3. ASSUME NEW j \in 1 .. (Len(q) - 1) PROVE Tail(q)[j] \in ToSet(q)
  <2>1. j + 1 \in 1 .. Len(q) /\ Tail(q)[j] = q[j + 1]
    BY <1>1, Shortened
  <2> QED
    BY <1>1, <2>1 DEF ToSet
<1>4. Head(q) \in ToSet(q)
  BY <1>1, Shortened DEF ToSet
<1> QED
  BY <1>1, <1>2, <1>3, <1>4 DEF ToSet

LEMMA EmptySet == ToSet(<<>>) = {}
BY DEF ToSet

\* Every step keeps streams and calls where they belong.
LEMMA PlacedStep ==
    ASSUME TypeOK, Placed, [Next]_vars
    PROVE  Placed'
<1> USE DEF agent, server, wire, waits, callers, history
<1> USE ConstantsAssumption
<1>1. ASSUME NEW s \in Streams, AgentDials(s) PROVE Placed'
  BY <1>1 DEF AgentDials, Placed, EntryIsServed, TypeOK
<1>2. ASSUME NEW s \in Streams, ControlBegins(s) PROVE Placed'
  BY <1>2 DEF ControlBegins, Placed, EntryIsServed, TypeOK
<1>3. ASSUME NEW s \in Streams, Break(s) PROVE Placed'
  BY <1>3 DEF Break, Placed, EntryIsServed, TypeOK
<1>4. CASE AgentLeaves
  BY <1>4 DEF AgentLeaves, Placed, EntryIsServed, TypeOK
<1>5. CASE AgentCrash
  BY <1>5 DEF AgentCrash, Placed, EntryIsServed, TypeOK
<1>6. ASSUME NEW s \in Streams, ControlEnds(s) PROVE Placed'
  BY <1>6 DEF ControlEnds, Placed, EntryIsServed, TypeOK
<1>7. ASSUME NEW c \in Callers, CallFails(c) PROVE Placed'
  BY <1>7 DEF CallFails, Placed, EntryIsServed, TypeOK
<1>8. ASSUME NEW c \in Callers, CallBegins(c) PROVE Placed'
  BY <1>8 DEF CallBegins, Placed, EntryIsServed, TypeOK
<1>9. ASSUME NEW c \in Callers, CommandSend(c) PROVE Placed'
  BY <1>9 DEF CommandSend, Placed, EntryIsServed, TypeOK
<1>10. ASSUME NEW c \in Callers, GiveUp(c) PROVE Placed'
  BY <1>10 DEF GiveUp, Placed, EntryIsServed, TypeOK
<1>11. ASSUME NEW c \in Callers, NEW a \in box, Answered(c, a) PROVE Placed'
  BY <1>11 DEF Answered, Placed, EntryIsServed, TypeOK
<1>12. ASSUME NEW s \in Streams, PumpSend(s) PROVE Placed'
  BY <1>12 DEF PumpSend, Placed, EntryIsServed, TypeOK
<1>13. ASSUME NEW s \in Streams, Receive(s) PROVE Placed'
  BY <1>13 DEF Receive, Placed, EntryIsServed, TypeOK
<1>14. ASSUME NEW s \in Streams, AgentHandles(s) PROVE Placed'
  BY <1>14 DEF AgentHandles, Placed, EntryIsServed, TypeOK
<1>15. CASE AgentAnswers
  BY <1>15 DEF AgentAnswers, Placed, EntryIsServed, TypeOK
<1>16. CASE UNCHANGED vars
  BY <1>16 DEF vars, Placed, EntryIsServed
<1> QED
  BY <1>1, <1>2, <1>3, <1>4, <1>5, <1>6, <1>7, <1>8, <1>9, <1>10, <1>11, <1>12,
     <1>13, <1>14, <1>15, <1>16 DEF Next, StreamStep, CallerStep, AgentStep

\* Every step keeps what answers stand for.
LEMMA EarnedStep ==
    ASSUME TypeOK, Earned, [Next]_vars
    PROVE  Earned'
<1> USE DEF agent, server, wire, waits, callers, history
<1>1. ASSUME NEW s \in Streams, AgentDials(s) PROVE Earned'
  BY <1>1 DEF AgentDials, Earned, SuccessIsEarned
<1>2. ASSUME NEW s \in Streams, ControlBegins(s) PROVE Earned'
  BY <1>2 DEF ControlBegins, Earned, SuccessIsEarned
<1>3. ASSUME NEW s \in Streams, Break(s) PROVE Earned'
  BY <1>3 DEF Break, Earned, SuccessIsEarned
<1>4. CASE AgentLeaves
  BY <1>4 DEF AgentLeaves, Earned, SuccessIsEarned
<1>5. CASE AgentCrash
  BY <1>5, EmptySet DEF AgentCrash, Earned, SuccessIsEarned
<1>6. ASSUME NEW s \in Streams, ControlEnds(s) PROVE Earned'
  BY <1>6 DEF ControlEnds, Earned, SuccessIsEarned
<1>7. ASSUME NEW c \in Callers, CallFails(c) PROVE Earned'
  BY <1>7 DEF CallFails, Earned, SuccessIsEarned, TypeOK
<1>8. ASSUME NEW c \in Callers, CallBegins(c) PROVE Earned'
  BY <1>8 DEF CallBegins, Earned, SuccessIsEarned
<1>9. ASSUME NEW c \in Callers, CommandSend(c) PROVE Earned'
  BY <1>9 DEF CommandSend, Earned, SuccessIsEarned
<1>10. ASSUME NEW c \in Callers, GiveUp(c) PROVE Earned'
  BY <1>10 DEF GiveUp, Earned, SuccessIsEarned, TypeOK
<1>11. ASSUME NEW c \in Callers, NEW a \in box, Answered(c, a) PROVE Earned'
  <2>1. /\ left[c] \in Nat \ {0} /\ Targets[c] \in Nat
        /\ a.cmd = <<c, left[c]>>
    BY <1>11, ConstantsAssumption DEF Answered, Command, Earned, TypeOK, ConstantsAssumption
  <2>2. a.ok => \A n \in left[c] .. Targets[c] : <<c, n>> \in ToSet(handled)
    BY <2>1 DEF Earned
  <2>3. CASE a.ok /\ left[c] > 1
    <3>1. /\ left' = [left EXCEPT ![c] = @ - 1] /\ result' = result
          /\ box' = box \ {a} /\ hand' = hand /\ handled' = handled /\ up' = up
      BY <1>11, <2>3 DEF Answered
    <3>2. /\ left'[c] = left[c] - 1 /\ left'[c] # 0 /\ left'[c] + 1 = left[c]
          /\ \A d \in Callers \ {c} : left'[d] = left[d]
      BY <2>1, <2>3, <3>1 DEF TypeOK
    <3> QED
      BY <2>2, <2>3, <3>1, <3>2 DEF Earned, SuccessIsEarned
  <2>4. CASE ~(a.ok /\ left[c] > 1)
    <3>1. /\ left' = left /\ box' = box \ {a} /\ hand' = hand /\ handled' = handled /\ up' = up
          /\ result' = [result EXCEPT ![c] = IF a.ok THEN "ok" ELSE "error"]
      BY <1>11, <2>4 DEF Answered
    <3>2. a.ok => left[c] = 1
      BY <2>1, <2>4
    <3> QED
      BY <2>2, <3>1, <3>2 DEF Earned, SuccessIsEarned, TypeOK
  <2> QED
    BY <2>3, <2>4
<1>12. ASSUME NEW s \in Streams, PumpSend(s) PROVE Earned'
  BY <1>12 DEF PumpSend, Earned, SuccessIsEarned
<1>13. ASSUME NEW s \in Streams, Receive(s) PROVE Earned'
  <2>1. up[s] \in Seq(Answers) /\ up[s] # <<>>
    BY <1>13, QueuesTyped DEF Receive
  <2>2. ToSet(up[s]) = ToSet(Tail(up[s])) \cup {Head(up[s])}
    BY <2>1, ShortenedSet
  <2>3. /\ \A r \in Streams : ToSet(up'[r]) \subseteq ToSet(up[r])
        /\ box' \subseteq box \cup ToSet(up[s])
    BY <1>13, <2>2 DEF Receive, TypeOK
  <2> QED
    BY <1>13, <2>3 DEF Receive, Earned, SuccessIsEarned
<1>14. ASSUME NEW s \in Streams, AgentHandles(s) PROVE Earned'
  <2> DEFINE x == Head(down[s])
  <2>1. PICK ok \in BOOLEAN :
          /\ hand' = <<[cmd |-> x, ok |-> ok]>>
          /\ handled' = IF ok THEN Append(handled, x) ELSE handled
    BY <1>14 DEF AgentHandles
  <2>2. x \in Commands /\ handled \in Seq(Commands)
    BY <1>14, Shortened, QueuesTyped DEF AgentHandles
  <2> HIDE DEF x
  <2>3. ToSet(handled) \subseteq ToSet(handled') /\ (ok => x \in ToSet(handled'))
    BY <2>1, <2>2, AppendedSet
  <2>4. \A a \in ToSet(hand') : a.ok => a.cmd \in ToSet(handled')
    BY <2>1, <2>3 DEF ToSet
  <2> QED
    BY <1>14, <2>3, <2>4 DEF AgentHandles, Earned, SuccessIsEarned
<1>15. CASE AgentAnswers
  <2>1. hand[1] \in Answers /\ DOMAIN hand = {1} /\ \A q \in Seq(Answers) : q \o hand = Append(q, hand[1])
    BY <1>15, Handed DEF AgentAnswers, TypeOK
  <2>2. ToSet(hand) = {hand[1]}
    BY <2>1 DEF ToSet
  <2>3. ASSUME NEW q \in Seq(Answers)
        PROVE  ToSet(q \o hand) = ToSet(q) \cup ToSet(hand)
    <3>1. ToSet(Append(q, hand[1])) = ToSet(q) \cup {hand[1]}
      BY <2>1, AppendedSet
    <3>2. q \o hand = Append(q, hand[1])
      BY <2>1
    <3> QED
      BY <2>2, <3>1, <3>2, Zenon
  <2>4. \A s \in Streams : ToSet(up'[s]) \subseteq ToSet(up[s]) \cup ToSet(hand)
    <3> SUFFICES ASSUME NEW s \in Streams
                 PROVE  ToSet(up'[s]) \subseteq ToSet(up[s]) \cup ToSet(hand)
      OBVIOUS
    <3>1. up[s] \in Seq(Answers)
      BY QueuesTyped
    <3>2. up'[s] = up[s] \/ up'[s] = up[s] \o hand
      BY <1>15 DEF AgentAnswers, TypeOK
    <3> QED
      BY <2>3, <3>1, <3>2
  <2> QED
    BY <1>15, <2>4, EmptySet DEF AgentAnswers, Earned, SuccessIsEarned
<1>16. CASE UNCHANGED vars
  BY <1>16 DEF vars, Earned, SuccessIsEarned
<1> QED
  BY <1>1, <1>2, <1>3, <1>4, <1>5, <1>6, <1>7, <1>8, <1>9, <1>10, <1>11, <1>12,
     <1>13, <1>14, <1>15, <1>16 DEF Next, StreamStep, CallerStep, AgentStep

-----------------------------------------------------------------------------
(* What a stream still has to deliver *)

\* One element before a sequence is its head.
LEMMA First ==
    ASSUME NEW S, NEW e \in S, NEW q \in Seq(S)
    PROVE  /\ <<e>> \o q \in Seq(S) /\ <<e>> \o q # <<>>
           /\ Head(<<e>> \o q) = e /\ Tail(<<e>> \o q) = q
<1> DEFINE r == <<e>> \o q
<1>1. <<e>> \in Seq(S) /\ Len(<<e>>) = 1 /\ <<e>>[1] = e /\ Len(q) \in Nat
  OBVIOUS
<1>2. /\ r \in Seq(S) /\ Len(r) = Len(q) + 1
      /\ \A i \in 1 .. Len(q) + 1 : r[i] = IF i <= 1 THEN e ELSE q[i - 1]
  BY <1>1, ConcatProperties
<1> HIDE DEF r
<1>3. r # <<>>
  BY <1>1, <1>2
<1>4. r[1] = e /\ \A i \in 1 .. Len(q) : r[i + 1] = q[i]
  BY <1>1, <1>2
<1>5. Head(r) = e
  BY <1>2, <1>3, <1>4, Shortened
<1>6. Tail(r) \in Seq(S) /\ Len(Tail(r)) = Len(q) /\ \A i \in 1 .. Len(Tail(r)) : Tail(r)[i] = q[i]
  BY <1>1, <1>2, <1>3, <1>4, Shortened
<1>7. Tail(r) = q
  BY <1>6, SeqEqual
<1> QED
  BY <1>2, <1>3, <1>5, <1>7 DEF r

LEMMA HeadFirst ==
    ASSUME NEW S, NEW q \in Seq(S), q # <<>>
    PROVE  <<Head(q)>> \o Tail(q) = q
<1> DEFINE r == <<Head(q)>> \o Tail(q)
<1>1. /\ Head(q) \in S /\ Head(q) = q[1] /\ Tail(q) \in Seq(S)
      /\ Len(q) \in Nat \ {0} /\ Len(Tail(q)) = Len(q) - 1
      /\ \A i \in 1 .. Len(Tail(q)) : Tail(q)[i] = q[i + 1]
  BY Shortened
<1>2. r \in Seq(S) /\ r # <<>> /\ Head(r) = Head(q) /\ Tail(r) = Tail(q)
  BY <1>1, First
<1> HIDE DEF r
<1>3. /\ r[1] = q[1] /\ Len(r) \in Nat \ {0} /\ Len(Tail(q)) = Len(r) - 1
      /\ \A i \in 1 .. Len(Tail(q)) : Tail(q)[i] = r[i + 1]
  <2>1. /\ Head(r) = r[1] /\ Len(r) \in Nat \ {0} /\ Len(Tail(r)) = Len(r) - 1
        /\ \A i \in 1 .. Len(Tail(r)) : Tail(r)[i] = r[i + 1]
    BY <1>2, Shortened
  <2> QED
    BY <1>1, <1>2, <2>1
<1>4. Len(r) = Len(q)
  BY <1>1, <1>3
<1>5. ASSUME NEW i \in 1 .. Len(r) PROVE r[i] = q[i]
  <2>1. CASE i = 1
    BY <1>3, <2>1
  <2>2. CASE i # 1
    <3>1. i - 1 \in 1 .. Len(Tail(q)) /\ (i - 1) + 1 = i
      BY <1>3, <2>2
    <3>2. Tail(q)[i - 1] = r[i] /\ Tail(q)[i - 1] = q[i]
      BY <1>1, <1>3, <3>1
    <3> QED
      BY <3>2
  <2> QED
    BY <2>1, <2>2
<1>6. r = q
  BY <1>2, <1>4, <1>5, SeqEqual
<1> QED
  BY <1>6 DEF r

\* A command that is sent comes last.
LEMMA QueueGrows ==
    ASSUME NEW S, NEW d \in Seq(S), NEW q \in Seq(S), NEW e \in S
    PROVE  d \o Append(q, e) = Append(d \o q, e)
<1>1. <<e>> \in Seq(S) /\ d \o q \in Seq(S)
  BY ConcatProperties
<1>2. Append(q, e) = q \o <<e>> /\ Append(d \o q, e) = (d \o q) \o <<e>>
  BY <1>1, AppendIsConcat
<1>3. (d \o q) \o <<e>> = d \o (q \o <<e>>)
  BY <1>1, ConcatAssociative
<1> QED
  BY <1>2, <1>3

\* The pump changes nothing.
LEMMA QueueMoves ==
    ASSUME NEW S, NEW d \in Seq(S), NEW q \in Seq(S), q # <<>>
    PROVE  Append(d, Head(q)) \o Tail(q) = d \o q
<1>1. /\ Head(q) \in S /\ Tail(q) \in Seq(S) /\ <<Head(q)>> \in Seq(S)
  BY Shortened
<1>2. Append(d, Head(q)) = d \o <<Head(q)>>
  BY <1>1, AppendIsConcat
<1>3. (d \o <<Head(q)>>) \o Tail(q) = d \o (<<Head(q)>> \o Tail(q))
  BY <1>1, ConcatAssociative
<1> QED
  BY <1>2, <1>3, HeadFirst

\* The Agent takes the first one.
LEMMA QueueShrinks ==
    ASSUME NEW S, NEW d \in Seq(S), NEW q \in Seq(S), d # <<>>
    PROVE  /\ d \o q # <<>>
           /\ Head(d \o q) = Head(d) /\ Tail(d \o q) = Tail(d) \o q
<1>1. Head(d) \in S /\ Tail(d) \in Seq(S) /\ <<Head(d)>> \in Seq(S)
  BY Shortened
<1>2. d \o q = <<Head(d)>> \o (Tail(d) \o q)
  <2>1. d = <<Head(d)>> \o Tail(d)
    BY HeadFirst
  <2>2. (<<Head(d)>> \o Tail(d)) \o q = <<Head(d)>> \o (Tail(d) \o q)
    BY <1>1, ConcatAssociative
  <2> QED
    BY <2>1, <2>2
<1>3. Tail(d) \o q \in Seq(S)
  BY <1>1, ConcatProperties
<1> QED
  BY <1>1, <1>2, <1>3, First

Queue(s) == down[s] \o send[s]

LEMMA QueueTyped ==
    ASSUME TypeOK, NEW s \in Streams
    PROVE  Queue(s) \in Seq(Commands)
BY QueuesTyped, ConcatProperties DEF Queue

\* The steps that touch no queue.
LEMMA QueueStays ==
    ASSUME UNCHANGED <<send, down>>
    PROVE  \A s \in Streams : Queue(s)' = Queue(s)
BY DEF Queue

\* The pump moves a command from one part of a queue to the other.
LEMMA QueuePumped ==
    ASSUME TypeOK, NEW s \in Streams, PumpSend(s)
    PROVE  \A r \in Streams : Queue(r)' = Queue(r)
<1>1. send[s] # <<>>
  BY DEF PumpSend
<1>2. Append(down[s], Head(send[s])) \o Tail(send[s]) = down[s] \o send[s]
  BY <1>1, QueuesTyped, QueueMoves
<1>3. send'[s] = Tail(send[s]) /\ down'[s] = Append(down[s], Head(send[s]))
  BY DEF PumpSend, TypeOK
<1>4. Queue(s)' = Queue(s)
  BY <1>2, <1>3 DEF Queue
<1>5. \A r \in Streams \ {s} : send'[r] = send[r] /\ down'[r] = down[r]
  BY DEF PumpSend, TypeOK
<1> QED
  BY <1>4, <1>5 DEF Queue

\* A call adds its command to one queue.
LEMMA QueueSent ==
    ASSUME TypeOK, Placed, NEW c \in Callers, CommandSend(c)
    PROVE  /\ Command(c) \in Commands /\ via[c] \in Streams
           /\ Queue(via[c])' = Append(Queue(via[c]), Command(c))
           /\ \A r \in Streams \ {via[c]} : Queue(r)' = Queue(r)
<1>1. Command(c) \in Commands
  BY DEF Command, Commands, TypeOK
<1>2. via[c] \in Streams
  BY DEF CommandSend, Placed
<1>3. /\ send'[via[c]] = Append(send[via[c]], Command(c)) /\ down' = down
      /\ \A r \in Streams \ {via[c]} : send'[r] = send[r]
  BY <1>2 DEF CommandSend, TypeOK
<1>4. PICK v \in Streams, e \in Commands : v = via[c] /\ e = Command(c)
  BY <1>1, <1>2
<1>5. down[v] \in Seq(Commands) /\ send[v] \in Seq(Commands)
  BY QueuesTyped
<1>6. down[v] \o Append(send[v], e) = Append(down[v] \o send[v], e)
  <2>1. \A d, q \in Seq(Commands) : \A x \in Commands :
          d \o Append(q, x) = Append(d \o q, x)
    BY QueueGrows
  <2> QED
    BY <1>5, <2>1
<1>7. /\ send'[v] = Append(send[v], e) /\ down' = down
      /\ \A r \in Streams \ {v} : send'[r] = send[r]
  BY <1>3, <1>4
<1>8. Queue(v)' = Append(Queue(v), e) /\ \A r \in Streams \ {v} : Queue(r)' = Queue(r)
  BY <1>6, <1>7 DEF Queue
<1>9. Queue(via[c])' = Queue(v)'
  BY <1>4 DEF CommandSend, Queue
<1> QED
  BY <1>4, <1>8, <1>9

\* The Agent takes the first command of its queue.
LEMMA QueueTaken ==
    ASSUME TypeOK, NEW s \in Streams, AgentHandles(s)
    PROVE  /\ Queue(s) # <<>> /\ Head(Queue(s)) = Head(down[s])
           /\ Queue(s)' = Tail(Queue(s))
           /\ \A r \in Streams \ {s} : Queue(r)' = Queue(r)
<1>1. down[s] # <<>>
  BY DEF AgentHandles
<1>2. /\ down[s] \o send[s] # <<>> /\ Head(down[s] \o send[s]) = Head(down[s])
      /\ Tail(down[s] \o send[s]) = Tail(down[s]) \o send[s]
  BY <1>1, QueuesTyped, QueueShrinks
<1>3. /\ down'[s] = Tail(down[s]) /\ send' = send
      /\ \A r \in Streams \ {s} : down'[r] = down[r]
  BY DEF AgentHandles, TypeOK
<1> QED
  BY <1>2, <1>3 DEF Queue

-----------------------------------------------------------------------------
(* Order *)

Before(q, x, y) == \E k, m \in DOMAIN q : k < m /\ q[k] = x /\ q[m] = y

InOrder(q, p) == \A i, j \in DOMAIN p : i < j => Before(q, p[i], p[j])

Ahead(q, X, Y) == \A x \in X, y \in Y : Before(q, x, y)

\* Commands wait and take effect in the order they were sent; what the Agent has
\* done was sent before what waits on the stream it is on.
Ordered ==
    /\ InOrder(sent, handled) /\ ToSet(handled) \subseteq ToSet(sent)
    /\ \A s \in Streams :
        InOrder(sent, Queue(s)) /\ ToSet(Queue(s)) \subseteq ToSet(sent)
    /\ link # NoStream => Ahead(sent, ToSet(handled), ToSet(Queue(link)))

\* What is added at the end changes no order and comes after everything else.
LEMMA BeforeGrows ==
    ASSUME NEW S, NEW q \in Seq(S), NEW e \in S
    PROVE  /\ \A x, y : Before(q, x, y) => Before(Append(q, e), x, y)
           /\ \A x \in ToSet(q) : Before(Append(q, e), x, e)
<1>1. /\ DOMAIN q = 1 .. Len(q) /\ Len(q) \in Nat
      /\ DOMAIN Append(q, e) = 1 .. (Len(q) + 1)
      /\ \A i \in 1 .. Len(q) : Append(q, e)[i] = q[i]
      /\ Append(q, e)[Len(q) + 1] = e
  BY Appended, LenProperties
<1>2. \A i \in 1 .. Len(q) : i \in 1 .. (Len(q) + 1) /\ i < Len(q) + 1
  BY <1>1
<1>3. Len(q) + 1 \in 1 .. (Len(q) + 1)
  BY <1>1
<1>4. ASSUME NEW x, NEW y, Before(q, x, y) PROVE Before(Append(q, e), x, y)
  BY <1>1, <1>2, <1>4 DEF Before
<1>5. ASSUME NEW x \in ToSet(q) PROVE Before(Append(q, e), x, e)
  BY <1>1, <1>2, <1>3 DEF Before, ToSet
<1> QED
  BY <1>4, <1>5

LEMMA InOrderAppend ==
    ASSUME NEW S, NEW q, NEW p \in Seq(S), NEW e \in S,
           InOrder(q, p), Ahead(q, ToSet(p), {e})
    PROVE  InOrder(q, Append(p, e))
<1>1. /\ DOMAIN p = 1 .. Len(p) /\ Len(p) \in Nat
      /\ DOMAIN Append(p, e) = 1 .. (Len(p) + 1)
      /\ \A i \in 1 .. Len(p) : Append(p, e)[i] = p[i] /\ p[i] \in ToSet(p)
      /\ Append(p, e)[Len(p) + 1] = e
  BY Appended, LenProperties DEF ToSet
<1>2. ASSUME NEW i \in 1 .. (Len(p) + 1), NEW j \in 1 .. (Len(p) + 1), i < j
      PROVE  i \in 1 .. Len(p) /\ (j \in 1 .. Len(p) \/ j = Len(p) + 1)
  BY <1>1, <1>2
<1>3. ASSUME NEW i \in 1 .. (Len(p) + 1), NEW j \in 1 .. (Len(p) + 1), i < j
      PROVE  Before(q, Append(p, e)[i], Append(p, e)[j])
  BY <1>1, <1>2, <1>3 DEF InOrder, Ahead
<1> QED
  BY <1>1, <1>3 DEF InOrder

LEMMA InOrderTail ==
    ASSUME NEW S, NEW q, NEW p \in Seq(S), p # <<>>, InOrder(q, p)
    PROVE  InOrder(q, Tail(p)) /\ Ahead(q, {Head(p)}, ToSet(Tail(p)))
<1>1. /\ DOMAIN p = 1 .. Len(p) /\ Len(p) \in Nat \ {0} /\ Head(p) = p[1]
      /\ DOMAIN Tail(p) = 1 .. (Len(p) - 1)
      /\ \A i \in 1 .. (Len(p) - 1) : Tail(p)[i] = p[i + 1]
  BY Shortened, LenProperties
<1>2. /\ 1 \in 1 .. Len(p)
      /\ \A i \in 1 .. (Len(p) - 1) : i + 1 \in 1 .. Len(p) /\ 1 < i + 1
      /\ \A i, j \in 1 .. (Len(p) - 1) : i < j => i + 1 < j + 1
  BY <1>1
<1>3. \A i \in 1 .. (Len(p) - 1) : Before(q, p[1], p[i + 1])
  BY <1>1, <1>2 DEF InOrder
<1>4. \A i, j \in 1 .. (Len(p) - 1) : i < j => Before(q, p[i + 1], p[j + 1])
  BY <1>1, <1>2 DEF InOrder
<1> QED
  BY <1>1, <1>3, <1>4 DEF InOrder, Ahead, ToSet

\* Every step keeps the order.
LEMMA OrderedStep ==
    ASSUME TypeOK, Placed, Ordered, [Next]_vars
    PROVE  Ordered'
<1> USE DEF agent, server, wire, waits, callers, history
<1>1. ASSUME UNCHANGED <<send, down, sent, handled>>, link' \in {link, NoStream}
      PROVE  Ordered'
  <2>1. \A s \in Streams : Queue(s)' = Queue(s)
    BY <1>1, QueueStays
  <2>2. link' # NoStream => link' = link /\ Queue(link)' = Queue(link)
    BY <1>1, <2>1 DEF Queue
  <2>3. sent' = sent /\ handled' = handled
    BY <1>1
  <2>4. link' # NoStream => Ahead(sent', ToSet(handled'), ToSet(Queue(link)'))
    BY <2>2, <2>3 DEF Ordered
  <2> QED
    BY <2>1, <2>3, <2>4 DEF Ordered
<1>2. ASSUME NEW s \in Streams, AgentDials(s) PROVE Ordered'
  <2>1. \A r \in Streams : Queue(r)' = Queue(r)
    BY <1>2, QueueStays DEF AgentDials
  <2>2. link' = s /\ link' # NoStream /\ sent' = sent /\ handled' = handled
    BY <1>2, ConstantsAssumption DEF AgentDials, ConstantsAssumption
  <2>3. down[s] = <<>> /\ send[s] = <<>>
    BY <1>2 DEF AgentDials, Placed
  <2>4. Queue(s) = <<>>
    BY <2>3, QueuesTyped, ConcatEmptySeq DEF Queue
  <2>5. ToSet(Queue(s)') = {}
    BY <2>1, <2>4, EmptySet
  <2>6. Queue(link)' = Queue(s)'
    BY <2>2 DEF Queue
  <2>7. Ahead(sent', ToSet(handled'), ToSet(Queue(link)'))
    BY <2>5, <2>6 DEF Ahead
  <2> QED
    BY <2>1, <2>2, <2>7 DEF Ordered
<1>3. ASSUME NEW c \in Callers, CommandSend(c) PROVE Ordered'
  <2>1. PICK v \in Streams, e \in Commands : v = via[c] /\ e = Command(c)
    BY <1>3, QueueSent
  <2>2. /\ Queue(v)' = Append(Queue(v), e)
        /\ \A r \in Streams \ {v} : Queue(r)' = Queue(r)
    <3>1. Queue(via[c])' = Queue(v)'
      BY <1>3, <2>1 DEF CommandSend, Queue
    <3> QED
      BY <1>3, <2>1, <3>1, QueueSent
  <2>3. sent' = Append(sent, e) /\ handled' = handled /\ link' = link
    BY <1>3, <2>1 DEF CommandSend
  <2>4. sent \in Seq(Commands) /\ Queue(v) \in Seq(Commands)
    BY QueuesTyped, QueueTyped
  <2>5. /\ \A x, y : Before(sent, x, y) => Before(sent', x, y)
        /\ \A x \in ToSet(sent) : Before(sent', x, e)
    BY <2>3, <2>4, BeforeGrows
  <2>6. ToSet(sent') = ToSet(sent) \cup {e}
    BY <2>3, <2>4, AppendedSet
  <2>7. ToSet(Queue(v)') = ToSet(Queue(v)) \cup {e}
    BY <2>2, <2>4, AppendedSet
  <2>8. InOrder(sent', handled')
    BY <2>3, <2>5 DEF Ordered, InOrder
  <2>9. \A r \in Streams : InOrder(sent', Queue(r))
    BY <2>5 DEF Ordered, InOrder
  <2>10. Ahead(sent', ToSet(Queue(v)), {e})
    BY <2>5 DEF Ordered, Ahead
  <2>11. InOrder(sent', Queue(v)')
    BY <2>2, <2>4, <2>9, <2>10, InOrderAppend
  <2>12. \A r \in Streams :
           InOrder(sent', Queue(r)') /\ ToSet(Queue(r)') \subseteq ToSet(sent')
    BY <2>2, <2>6, <2>7, <2>9, <2>11 DEF Ordered
  <2>13. ASSUME NEW r \in Streams, link = r
         PROVE  Ahead(sent', ToSet(handled'), ToSet(Queue(r)'))
    <3>1. Ahead(sent', ToSet(handled), ToSet(Queue(r)) \cup {e})
      <4>1. Ahead(sent, ToSet(handled), ToSet(Queue(r)))
        BY <2>13, ConstantsAssumption DEF Ordered, ConstantsAssumption
      <4>2. \A x \in ToSet(handled) : Before(sent', x, e)
        BY <2>5 DEF Ordered
      <4> QED
        BY <2>5, <4>1, <4>2 DEF Ahead
    <3>2. ToSet(Queue(r)') \subseteq ToSet(Queue(r)) \cup {e}
      BY <2>2, <2>7
    <3> QED
      BY <2>3, <3>1, <3>2 DEF Ahead
  <2>14. link' # NoStream => Ahead(sent', ToSet(handled'), ToSet(Queue(link)'))
    <3> SUFFICES ASSUME link' # NoStream
                 PROVE  Ahead(sent', ToSet(handled'), ToSet(Queue(link)'))
      OBVIOUS
    <3>1. PICK r \in Streams : r = link
      BY <2>3 DEF TypeOK
    <3>2. Queue(link)' = Queue(r)'
      BY <2>3, <3>1 DEF Queue
    <3> QED
      BY <2>13, <3>1, <3>2
  <2>15. ToSet(handled') \subseteq ToSet(sent')
    BY <2>3, <2>6 DEF Ordered
  <2> QED
    BY <2>8, <2>12, <2>14, <2>15 DEF Ordered
<1>4. ASSUME NEW s \in Streams, PumpSend(s) PROVE Ordered'
  <2>1. \A r \in Streams : Queue(r)' = Queue(r)
    BY <1>4, QueuePumped
  <2>2. sent' = sent /\ handled' = handled /\ link' = link
    BY <1>4 DEF PumpSend
  <2>3. link' # NoStream => Queue(link)' = Queue(link)
    <3> SUFFICES ASSUME link' # NoStream PROVE Queue(link)' = Queue(link)
      OBVIOUS
    <3>1. PICK r \in Streams : r = link
      BY <2>2 DEF TypeOK
    <3>2. Queue(link)' = Queue(r)' /\ Queue(link) = Queue(r)
      BY <2>2, <3>1 DEF Queue
    <3> QED
      BY <2>1, <3>2
  <2>4. link' # NoStream => Ahead(sent', ToSet(handled'), ToSet(Queue(link)'))
    BY <2>2, <2>3 DEF Ordered
  <2> QED
    BY <2>1, <2>2, <2>4 DEF Ordered
<1>5. ASSUME NEW s \in Streams, AgentHandles(s) PROVE Ordered'
  <2> DEFINE q == Queue(s)
  <2>1. q \in Seq(Commands) /\ q # <<>> /\ Head(q) = Head(down[s]) /\ Queue(s)' = Tail(q)
    BY <1>5, QueueTyped, QueueTaken
  <2>2. \A r \in Streams \ {s} : Queue(r)' = Queue(r)
    BY <1>5, QueueTaken
  <2>3. /\ link = s /\ link' = s /\ sent' = sent /\ s # NoStream
        /\ handled' = handled \/ handled' = Append(handled, Head(q))
    BY <1>5, <2>1, ConstantsAssumption DEF AgentHandles, ConstantsAssumption
  <2>4. /\ InOrder(sent, q) /\ ToSet(q) \subseteq ToSet(sent)
        /\ Ahead(sent, ToSet(handled), ToSet(q))
    BY <2>3 DEF Ordered
  <2> HIDE DEF q
  <2>5. /\ ToSet(q) = ToSet(Tail(q)) \cup {Head(q)} /\ Head(q) \in Commands
        /\ InOrder(sent, Tail(q)) /\ Ahead(sent, {Head(q)}, ToSet(Tail(q)))
    BY <2>1, <2>4, ShortenedSet, InOrderTail, Shortened
  <2>6. handled \in Seq(Commands) /\ InOrder(sent, handled) /\ ToSet(handled) \subseteq ToSet(sent)
    BY QueuesTyped DEF Ordered
  <2>7. /\ InOrder(sent, handled') /\ ToSet(handled') \subseteq ToSet(handled) \cup {Head(q)}
    <3>1. Ahead(sent, ToSet(handled), {Head(q)})
      BY <2>4, <2>5 DEF Ahead
    <3>2. ToSet(Append(handled, Head(q))) = ToSet(handled) \cup {Head(q)}
      BY <2>5, <2>6, AppendedSet
    <3>3. InOrder(sent, Append(handled, Head(q)))
      BY <2>5, <2>6, <3>1, InOrderAppend
    <3> QED
      BY <2>3, <2>6, <3>2, <3>3
  <2>8. Ahead(sent, ToSet(handled'), ToSet(Tail(q)))
    BY <2>4, <2>5, <2>7 DEF Ahead
  <2>9. Queue(link)' = Tail(q)
    BY <2>1, <2>3 DEF Queue
  <2>10. /\ ToSet(handled') \subseteq ToSet(sent')
         /\ \A r \in Streams :
              InOrder(sent', Queue(r)') /\ ToSet(Queue(r)') \subseteq ToSet(sent')
    BY <2>1, <2>2, <2>3, <2>4, <2>5, <2>6, <2>7 DEF Ordered
  <2> QED
    BY <2>3, <2>7, <2>8, <2>9, <2>10 DEF Ordered
<1>6. CASE AgentLeaves
  BY <1>1, <1>6 DEF AgentLeaves
<1>7. CASE AgentCrash
  BY <1>1, <1>7 DEF AgentCrash
<1>8. CASE AgentAnswers
  BY <1>1, <1>8 DEF AgentAnswers
<1>9. ASSUME NEW s \in Streams,
             ControlBegins(s) \/ ControlEnds(s) \/ Break(s) \/ Receive(s)
      PROVE  Ordered'
  BY <1>1, <1>9 DEF ControlBegins, ControlEnds, Break, Receive
<1>10. ASSUME NEW c \in Callers, CallFails(c) \/ CallBegins(c) \/ GiveUp(c) PROVE Ordered'
  BY <1>1, <1>10 DEF CallFails, CallBegins, GiveUp
<1>11. ASSUME NEW c \in Callers, NEW a \in box, Answered(c, a) PROVE Ordered'
  BY <1>1, <1>11 DEF Answered
<1>12. CASE UNCHANGED vars
  BY <1>1, <1>12 DEF vars
<1> QED
  BY <1>2, <1>3, <1>4, <1>5, <1>6, <1>7, <1>8, <1>9, <1>10, <1>11, <1>12
  DEF Next, StreamStep, CallerStep, AgentStep

-----------------------------------------------------------------------------
(* One answer to each command *)

\* A command that its call has sent, over stream s.
Gone(x, s) ==
    LET c == x[1] IN
    /\ via[c] = s /\ pc[c] # "idle"
    /\ \/ left[c] < x[2]
       \/ left[c] = x[2] /\ pc[c] \in {"wait", "done"}

OneAnswer(q) == \A i, j \in DOMAIN q : q[i].cmd = q[j].cmd => i = j

\* A command is in one place: it waits to be carried out, or its answer is in
\* the Agent's hand, on its way, or in the channel of its call.
Single ==
    /\ \A s \in Streams :
        /\ IsInjective(Queue(s))
        /\ \A x \in ToSet(Queue(s)) : Gone(x, s)
        /\ OneAnswer(up[s])
        /\ \A a \in ToSet(up[s]) : Gone(a.cmd, s) /\ a.cmd \notin ToSet(Queue(s))
    /\ \A a \in ToSet(hand) :
        /\ Gone(a.cmd, link) /\ a.cmd \notin ToSet(Queue(link))
        /\ \A b \in ToSet(up[link]) : b.cmd # a.cmd
    /\ \A a \in box :
        /\ \E s \in Streams : Gone(a.cmd, s)
        /\ \A s \in Streams :
            a.cmd \notin ToSet(Queue(s)) /\ \A b \in ToSet(up[s]) : b.cmd # a.cmd
        /\ \A b \in ToSet(hand) : b.cmd # a.cmd

LEMMA InjectiveAppend ==
    ASSUME NEW S, NEW q \in Seq(S), NEW e \in S, IsInjective(q), e \notin ToSet(q)
    PROVE  IsInjective(Append(q, e))
<1>1. /\ DOMAIN q = 1 .. Len(q) /\ Len(q) \in Nat
      /\ DOMAIN Append(q, e) = 1 .. (Len(q) + 1)
      /\ \A i \in 1 .. Len(q) : Append(q, e)[i] = q[i] /\ q[i] # e
      /\ Append(q, e)[Len(q) + 1] = e
  BY Appended, LenProperties DEF ToSet
<1>2. \A i \in 1 .. (Len(q) + 1) : i \in 1 .. Len(q) \/ i = Len(q) + 1
  BY <1>1
<1> QED
  BY <1>1, <1>2 DEF IsInjective

LEMMA InjectiveTail ==
    ASSUME NEW S, NEW q \in Seq(S), q # <<>>, IsInjective(q)
    PROVE  IsInjective(Tail(q)) /\ Head(q) \notin ToSet(Tail(q))
<1>1. /\ DOMAIN q = 1 .. Len(q) /\ Len(q) \in Nat \ {0} /\ Head(q) = q[1]
      /\ DOMAIN Tail(q) = 1 .. (Len(q) - 1)
      /\ \A i \in 1 .. (Len(q) - 1) : Tail(q)[i] = q[i + 1]
  BY Shortened, LenProperties
<1>2. /\ 1 \in 1 .. Len(q)
      /\ \A i \in 1 .. (Len(q) - 1) : i + 1 \in 1 .. Len(q) /\ i + 1 # 1
      /\ \A i, j \in 1 .. (Len(q) - 1) : i + 1 = j + 1 => i = j
  BY <1>1
<1>3. \A i, j \in 1 .. (Len(q) - 1) : q[i + 1] = q[j + 1] => i = j
  BY <1>1, <1>2 DEF IsInjective
<1>4. \A i \in 1 .. (Len(q) - 1) : q[i + 1] # q[1]
  BY <1>1, <1>2 DEF IsInjective
<1> QED
  BY <1>1, <1>3, <1>4 DEF IsInjective, ToSet

LEMMA OneAnswerAppend ==
    ASSUME NEW S, NEW q \in Seq(S), NEW e \in S, OneAnswer(q),
           \A a \in ToSet(q) : a.cmd # e.cmd
    PROVE  OneAnswer(Append(q, e))
<1>1. /\ DOMAIN q = 1 .. Len(q) /\ Len(q) \in Nat
      /\ DOMAIN Append(q, e) = 1 .. (Len(q) + 1)
      /\ \A i \in 1 .. Len(q) : Append(q, e)[i] = q[i] /\ q[i].cmd # e.cmd
      /\ Append(q, e)[Len(q) + 1] = e
  BY Appended, LenProperties DEF ToSet
<1>2. \A i \in 1 .. (Len(q) + 1) : i \in 1 .. Len(q) \/ i = Len(q) + 1
  BY <1>1
<1> QED
  BY <1>1, <1>2 DEF OneAnswer

LEMMA OneAnswerTail ==
    ASSUME NEW S, NEW q \in Seq(S), q # <<>>, OneAnswer(q)
    PROVE  OneAnswer(Tail(q)) /\ \A a \in ToSet(Tail(q)) : a.cmd # Head(q).cmd
<1>1. /\ DOMAIN q = 1 .. Len(q) /\ Len(q) \in Nat \ {0} /\ Head(q) = q[1]
      /\ DOMAIN Tail(q) = 1 .. (Len(q) - 1)
      /\ \A i \in 1 .. (Len(q) - 1) : Tail(q)[i] = q[i + 1]
  BY Shortened, LenProperties
<1>2. /\ 1 \in 1 .. Len(q)
      /\ \A i \in 1 .. (Len(q) - 1) : i + 1 \in 1 .. Len(q) /\ i + 1 # 1
      /\ \A i, j \in 1 .. (Len(q) - 1) : i + 1 = j + 1 => i = j
  BY <1>1
<1>3. \A i, j \in 1 .. (Len(q) - 1) : q[i + 1].cmd = q[j + 1].cmd => i = j
  BY <1>1, <1>2 DEF OneAnswer
<1>4. \A i \in 1 .. (Len(q) - 1) : q[i + 1].cmd # q[1].cmd
  BY <1>1, <1>2 DEF OneAnswer
<1> QED
  BY <1>1, <1>3, <1>4 DEF OneAnswer, ToSet

\* A command that is gone is not sent again.
LEMMA GoneStays ==
    ASSUME TypeOK, [Next]_vars, NEW x \in Commands, NEW s, Gone(x, s)
    PROVE  Gone(x, s)'
<1> USE DEF agent, server, wire, waits, callers, history
<1>1. ASSUME UNCHANGED callers PROVE Gone(x, s)'
  BY <1>1 DEF Gone
<1>2. ASSUME NEW c \in Callers, CallFails(c) PROVE Gone(x, s)'
  BY <1>2 DEF CallFails, Gone, TypeOK, Commands
<1>3. ASSUME NEW c \in Callers, CallBegins(c) PROVE Gone(x, s)'
  BY <1>3 DEF CallBegins, Gone, TypeOK, Commands
<1>4. ASSUME NEW c \in Callers, CommandSend(c) PROVE Gone(x, s)'
  BY <1>4 DEF CommandSend, Gone, TypeOK, Commands
<1>5. ASSUME NEW c \in Callers, GiveUp(c) PROVE Gone(x, s)'
  BY <1>5 DEF GiveUp, Gone, TypeOK, Commands
<1>6. ASSUME NEW c \in Callers, NEW a \in box, Answered(c, a) PROVE Gone(x, s)'
  BY <1>6 DEF Answered, Gone, TypeOK, Commands
<1>7. ASSUME NEW r \in Streams,
             ControlBegins(r) \/ ControlEnds(r) \/ PumpSend(r) \/ Receive(r) \/ Break(r)
             \/ AgentDials(r) \/ AgentHandles(r)
      PROVE  Gone(x, s)'
  BY <1>1, <1>7
  DEF ControlBegins, ControlEnds, PumpSend, Receive, Break, AgentDials, AgentHandles
<1>8. CASE AgentLeaves \/ AgentAnswers \/ AgentCrash \/ UNCHANGED vars
  BY <1>1, <1>8 DEF AgentLeaves, AgentAnswers, AgentCrash, vars
<1> QED
  BY <1>2, <1>3, <1>4, <1>5, <1>6, <1>7, <1>8
  DEF Next, StreamStep, CallerStep, AgentStep

\* What is in a queue is a command, and what an answer is to.
LEMMA Places ==
    ASSUME TypeOK
    PROVE  /\ \A s \in Streams : ToSet(Queue(s)) \subseteq Commands
           /\ \A s \in Streams : ToSet(up[s]) \subseteq Answers
           /\ ToSet(hand) \subseteq Answers /\ box \subseteq Answers
           /\ \A a \in Answers : a.cmd \in Commands /\ a.cmd[1] \in Callers
<1>1. ASSUME NEW S, NEW q \in Seq(S) PROVE ToSet(q) \subseteq S
  BY LenProperties, ElementOfSeq DEF ToSet
<1>2. \A s \in Streams : ToSet(Queue(s)) \subseteq Commands
  BY <1>1, QueueTyped
<1>3. \A s \in Streams : ToSet(up[s]) \subseteq Answers
  BY <1>1, QueuesTyped
<1>4. ToSet(hand) \subseteq Answers
  BY <1>1 DEF TypeOK
<1>5. \A a \in Answers : a.cmd \in Commands /\ a.cmd[1] \in Callers
  BY DEF Answers, Commands
<1> QED
  BY <1>2, <1>3, <1>4, <1>5 DEF TypeOK

\* A command that waits, or whose answer is on a stream, was sent over it.
LEMMA GoneOnce ==
    ASSUME NEW x, NEW r, NEW s, Gone(x, r), Gone(x, s)
    PROVE  r = s
BY DEF Gone

\* The steps that move no command: answers may be lost, or be taken.
LEMMA SingleKept ==
    ASSUME TypeOK, Placed, Single, [Next]_vars,
           \A s \in Streams : Queue(s)' = Queue(s),
           up' = up, box' \subseteq box,
           hand' = <<>> \/ (hand' = hand /\ link' = link)
    PROVE  Single'
<1>1. \A x \in Commands, s \in Streams : Gone(x, s) => Gone(x, s)'
  BY GoneStays
<1>2. ASSUME NEW s \in Streams
      PROVE  /\ IsInjective(Queue(s)')
             /\ \A x \in ToSet(Queue(s)') : Gone(x, s)'
             /\ OneAnswer(up'[s])
             /\ \A a \in ToSet(up'[s]) : Gone(a.cmd, s)' /\ a.cmd \notin ToSet(Queue(s)')
  BY <1>1, Places DEF Single
<1>3. ASSUME NEW a \in ToSet(hand')
      PROVE  /\ Gone(a.cmd, link)' /\ a.cmd \notin ToSet(Queue(link)')
             /\ \A b \in ToSet(up'[link']) : b.cmd # a.cmd
  <2>1. hand' = hand /\ link' = link /\ a \in ToSet(hand) /\ hand # <<>>
    BY <1>3, EmptySet
  <2>2. PICK l \in Streams : l = link
    BY <2>1 DEF Placed, TypeOK
  <2>3. Gone(a.cmd, l) /\ a.cmd \notin ToSet(Queue(l)) /\ a.cmd \in Commands
    BY <2>1, <2>2, Places DEF Single
  <2>4. Gone(a.cmd, l)'
    BY <1>1, <2>3
  <2>5. Gone(a.cmd, link)' /\ Queue(link)' = Queue(l)'
    BY <2>1, <2>2, <2>4 DEF Gone, Queue
  <2> QED
    BY <2>1, <2>2, <2>3, <2>5 DEF Single
<1>4. ASSUME NEW a \in box'
      PROVE  /\ \E s \in Streams : Gone(a.cmd, s)'
             /\ \A s \in Streams :
                 a.cmd \notin ToSet(Queue(s)') /\ \A b \in ToSet(up'[s]) : b.cmd # a.cmd
             /\ \A b \in ToSet(hand') : b.cmd # a.cmd
  <2>1. a \in box /\ a.cmd \in Commands
    BY <1>4, Places
  <2>2. \E s \in Streams : Gone(a.cmd, s)'
    BY <1>1, <2>1 DEF Single
  <2> QED
    BY <2>1, <2>2, EmptySet DEF Single
<1> QED
  BY <1>2, <1>3, <1>4 DEF Single

\* A call's next command is nowhere yet.
LEMMA SingleSent ==
    ASSUME TypeOK, Placed, Single, [Next]_vars, NEW c \in Callers, CommandSend(c)
    PROVE  Single'
<1>1. \A x \in Commands, s \in Streams : Gone(x, s) => Gone(x, s)'
  BY GoneStays
<1>2. PICK v \in Streams, e \in Commands : v = via[c] /\ e = Command(c)
  BY QueueSent
<1>3. Queue(v)' = Append(Queue(v), e) /\ \A r \in Streams \ {v} : Queue(r)' = Queue(r)
  <2>1. Queue(via[c])' = Queue(v)'
    BY <1>2 DEF CommandSend, Queue
  <2> QED
    BY <1>2, <2>1, QueueSent
<1>4. up' = up /\ box' = box /\ hand' = hand /\ link' = link
  BY DEF CommandSend, agent, waits
<1>5. /\ \A s \in Streams : ~Gone(e, s)
      /\ Gone(e, v)'
  BY <1>2 DEF CommandSend, Gone, Command, TypeOK, callers
<1>6. \A s \in Streams : e \notin ToSet(Queue(s)) /\ \A a \in ToSet(up[s]) : a.cmd # e
  BY <1>5 DEF Single
<1>7. \A a \in box : a.cmd # e
  BY <1>5 DEF Single
<1>8. \A a \in ToSet(hand) : a.cmd # e
  <2> SUFFICES ASSUME NEW a \in ToSet(hand) PROVE a.cmd # e
    OBVIOUS
  <2>1. PICK l \in Streams : l = link
    BY EmptySet DEF Placed, TypeOK
  <2>2. Gone(a.cmd, l)
    BY <2>1 DEF Single
  <2> QED
    BY <1>5, <2>2
<1>9. ToSet(Queue(v)') = ToSet(Queue(v)) \cup {e} /\ IsInjective(Queue(v)')
  <2>1. Queue(v) \in Seq(Commands) /\ IsInjective(Queue(v)) /\ e \notin ToSet(Queue(v))
    BY <1>6, QueueTyped DEF Single
  <2> QED
    BY <1>3, <2>1, AppendedSet, InjectiveAppend
<1>10. \A s \in Streams : ToSet(Queue(s)') \subseteq ToSet(Queue(s)) \cup {e}
  BY <1>3, <1>9
<1>11. ASSUME NEW s \in Streams
      PROVE  /\ IsInjective(Queue(s)')
             /\ \A x \in ToSet(Queue(s)') : Gone(x, s)'
             /\ OneAnswer(up'[s])
             /\ \A a \in ToSet(up'[s]) : Gone(a.cmd, s)' /\ a.cmd \notin ToSet(Queue(s)')
  <2>1. IsInjective(Queue(s)')
    BY <1>3, <1>9 DEF Single
  <2>2. \A x \in ToSet(Queue(s)) : Gone(x, s)'
    BY <1>1, Places DEF Single
  <2>3. \A x \in ToSet(Queue(s)') : Gone(x, s)'
    BY <1>3, <1>5, <1>9, <2>2
  <2>4. \A a \in ToSet(up[s]) : Gone(a.cmd, s)' /\ a.cmd \notin ToSet(Queue(s)')
    BY <1>1, <1>6, <1>10, Places DEF Single
  <2> QED
    BY <1>4, <2>1, <2>3, <2>4 DEF Single
<1>12. ASSUME NEW a \in ToSet(hand')
      PROVE  /\ Gone(a.cmd, link)' /\ a.cmd \notin ToSet(Queue(link)')
             /\ \A b \in ToSet(up'[link']) : b.cmd # a.cmd
  <2>1. a \in ToSet(hand) /\ hand # <<>>
    BY <1>4, <1>12, EmptySet
  <2>2. PICK l \in Streams : l = link
    BY <2>1 DEF Placed, TypeOK
  <2>3. Gone(a.cmd, l) /\ a.cmd \notin ToSet(Queue(l)) /\ a.cmd \in Commands
    BY <2>1, <2>2, Places DEF Single
  <2>4. Gone(a.cmd, l)' /\ a.cmd \notin ToSet(Queue(l)')
    BY <1>1, <1>8, <1>10, <2>1, <2>3
  <2>5. Gone(a.cmd, link)' /\ Queue(link)' = Queue(l)'
    BY <1>4, <2>2, <2>4 DEF Gone, Queue
  <2> QED
    BY <1>4, <2>1, <2>4, <2>5 DEF Single
<1>13. ASSUME NEW a \in box'
      PROVE  /\ \E s \in Streams : Gone(a.cmd, s)'
             /\ \A s \in Streams :
                 a.cmd \notin ToSet(Queue(s)') /\ \A b \in ToSet(up'[s]) : b.cmd # a.cmd
             /\ \A b \in ToSet(hand') : b.cmd # a.cmd
  <2>1. a \in box /\ a.cmd \in Commands
    BY <1>4, <1>13, Places
  <2>2. \E s \in Streams : Gone(a.cmd, s)'
    BY <1>1, <2>1 DEF Single
  <2> QED
    BY <1>4, <1>7, <1>10, <2>1, <2>2 DEF Single
<1> QED
  BY <1>11, <1>12, <1>13 DEF Single

\* An answer goes from its stream to the channel of its call, or nowhere.
LEMMA SingleReceived ==
    ASSUME TypeOK, Placed, Single, [Next]_vars, NEW s \in Streams, Receive(s)
    PROVE  Single'
<1>1. \A x \in Commands, r \in Streams : Gone(x, r) => Gone(x, r)'
  BY GoneStays
<1>2. \A r \in Streams : Queue(r)' = Queue(r)
  BY QueueStays DEF Receive
<1>3. PICK e \in Answers : e = Head(up[s])
  BY QueuesTyped, Shortened DEF Receive
<1>4. /\ up'[s] = Tail(up[s]) /\ \A r \in Streams \ {s} : up'[r] = up[r]
      /\ box' \subseteq box \cup {e} /\ hand' = hand /\ link' = link
      /\ up[s] \in Seq(Answers) /\ up[s] # <<>>
  BY <1>3, QueuesTyped DEF Receive, TypeOK, agent
<1>5. /\ ToSet(up[s]) = ToSet(up'[s]) \cup {e}
      /\ OneAnswer(up'[s]) /\ \A a \in ToSet(up'[s]) : a.cmd # e.cmd
  <2>1. ToSet(up[s]) = ToSet(Tail(up[s])) \cup {Head(up[s])}
    BY <1>4, ShortenedSet
  <2>2. OneAnswer(up[s])
    BY DEF Single
  <2>3. OneAnswer(Tail(up[s])) /\ \A a \in ToSet(Tail(up[s])) : a.cmd # Head(up[s]).cmd
    BY <1>4, <2>2, OneAnswerTail
  <2> QED
    BY <1>3, <1>4, <2>1, <2>3
<1>6. \A r \in Streams : ToSet(up'[r]) \subseteq ToSet(up[r])
  BY <1>4, <1>5
<1>7. Gone(e.cmd, s) /\ e.cmd \in Commands
  BY <1>5, Places DEF Single
<1>8. \A r \in Streams :
        e.cmd \notin ToSet(Queue(r)) /\ \A b \in ToSet(up'[r]) : b.cmd # e.cmd
  <2> SUFFICES ASSUME NEW r \in Streams
               PROVE  e.cmd \notin ToSet(Queue(r)) /\ \A b \in ToSet(up'[r]) : b.cmd # e.cmd
    OBVIOUS
  <2>1. CASE r = s
    BY <1>5, <2>1 DEF Single
  <2>2. CASE r # s
    BY <1>4, <1>7, <2>2, GoneOnce DEF Single
  <2> QED
    BY <2>1, <2>2
<1>9. \A b \in ToSet(hand) : b.cmd # e.cmd
  <2> SUFFICES ASSUME NEW b \in ToSet(hand) PROVE b.cmd # e.cmd
    OBVIOUS
  <2>1. PICK l \in Streams : l = link
    BY EmptySet DEF Placed, TypeOK
  <2>2. Gone(b.cmd, l) /\ \A a \in ToSet(up[l]) : a.cmd # b.cmd
    BY <2>1 DEF Single
  <2>3. CASE l = s
    BY <1>5, <2>2, <2>3
  <2>4. CASE l # s
    BY <1>7, <2>2, <2>4, GoneOnce
  <2> QED
    BY <2>3, <2>4
<1>10. ASSUME NEW r \in Streams
      PROVE  /\ IsInjective(Queue(r)')
             /\ \A x \in ToSet(Queue(r)') : Gone(x, r)'
             /\ OneAnswer(up'[r])
             /\ \A a \in ToSet(up'[r]) : Gone(a.cmd, r)' /\ a.cmd \notin ToSet(Queue(r)')
  <2>1. OneAnswer(up'[r])
    BY <1>4, <1>5 DEF Single
  <2>2. \A x \in ToSet(Queue(r)) : Gone(x, r)'
    BY <1>1, Places DEF Single
  <2>3. \A a \in ToSet(up[r]) : Gone(a.cmd, r)' /\ a.cmd \notin ToSet(Queue(r))
    BY <1>1, Places DEF Single
  <2> QED
    BY <1>2, <1>6, <2>1, <2>2, <2>3 DEF Single
<1>11. ASSUME NEW a \in ToSet(hand')
      PROVE  /\ Gone(a.cmd, link)' /\ a.cmd \notin ToSet(Queue(link)')
             /\ \A b \in ToSet(up'[link']) : b.cmd # a.cmd
  <2>1. a \in ToSet(hand) /\ hand # <<>>
    BY <1>4, <1>11, EmptySet
  <2>2. PICK l \in Streams : l = link
    BY <2>1 DEF Placed, TypeOK
  <2>3. /\ Gone(a.cmd, l) /\ a.cmd \notin ToSet(Queue(l)) /\ a.cmd \in Commands
        /\ \A b \in ToSet(up[l]) : b.cmd # a.cmd
    BY <2>1, <2>2, Places DEF Single
  <2>4. Gone(a.cmd, l)'
    BY <1>1, <2>3
  <2>5. Gone(a.cmd, link)' /\ Queue(link)' = Queue(l)' /\ up'[link'] = up'[l]
    BY <1>4, <2>2, <2>4 DEF Gone, Queue
  <2> QED
    BY <1>2, <1>6, <2>3, <2>5
<1>12. ASSUME NEW a \in box'
      PROVE  /\ \E r \in Streams : Gone(a.cmd, r)'
             /\ \A r \in Streams :
                 a.cmd \notin ToSet(Queue(r)') /\ \A b \in ToSet(up'[r]) : b.cmd # a.cmd
             /\ \A b \in ToSet(hand') : b.cmd # a.cmd
  <2>1. CASE a \in box
    <3>1. a.cmd \in Commands
      BY <2>1, Places
    <3>2. \E r \in Streams : Gone(a.cmd, r)'
      BY <1>1, <2>1, <3>1 DEF Single
    <3> QED
      BY <1>2, <1>4, <1>6, <2>1, <3>2 DEF Single
  <2>2. CASE a = e
    BY <1>1, <1>2, <1>4, <1>7, <1>8, <1>9, <2>2
  <2> QED
    BY <1>4, <1>12, <2>1, <2>2
<1> QED
  BY <1>10, <1>11, <1>12 DEF Single

\* The first command of the queue goes, and its answer is in the Agent's hand.
LEMMA SingleHandled ==
    ASSUME TypeOK, Placed, Single, [Next]_vars, NEW s \in Streams, AgentHandles(s)
    PROVE  Single'
<1>1. \A x \in Commands, r \in Streams : Gone(x, r) => Gone(x, r)'
  BY GoneStays
<1>2. PICK e \in Commands : e = Head(down[s])
  BY QueuesTyped, Shortened DEF AgentHandles
<1>3. /\ Queue(s) \in Seq(Commands) /\ Queue(s) # <<>> /\ Head(Queue(s)) = e
      /\ Queue(s)' = Tail(Queue(s)) /\ \A r \in Streams \ {s} : Queue(r)' = Queue(r)
  BY <1>2, QueueTyped, QueueTaken
<1>4. /\ up' = up /\ box' = box /\ link = s /\ link' = s /\ hand = <<>>
      /\ \A a \in ToSet(hand') : a.cmd = e
  BY <1>2 DEF AgentHandles, waits, ToSet
<1>5. /\ ToSet(Queue(s)) = ToSet(Queue(s)') \cup {e}
      /\ IsInjective(Queue(s)') /\ e \notin ToSet(Queue(s)')
  <2>1. ToSet(Queue(s)) = ToSet(Tail(Queue(s))) \cup {Head(Queue(s))}
    BY <1>3, ShortenedSet
  <2>2. IsInjective(Queue(s))
    BY DEF Single
  <2>3. IsInjective(Tail(Queue(s))) /\ Head(Queue(s)) \notin ToSet(Tail(Queue(s)))
    BY <1>3, <2>2, InjectiveTail
  <2> QED
    BY <1>3, <2>1, <2>3
<1>6. \A r \in Streams : ToSet(Queue(r)') \subseteq ToSet(Queue(r))
  BY <1>3, <1>5
<1>7. e \in ToSet(Queue(s)) /\ Gone(e, s)
  BY <1>5 DEF Single
<1>8. ASSUME NEW r \in Streams
      PROVE  /\ IsInjective(Queue(r)')
             /\ \A x \in ToSet(Queue(r)') : Gone(x, r)'
             /\ OneAnswer(up'[r])
             /\ \A a \in ToSet(up'[r]) : Gone(a.cmd, r)' /\ a.cmd \notin ToSet(Queue(r)')
  <2>1. IsInjective(Queue(r)')
    BY <1>3, <1>5 DEF Single
  <2>2. \A x \in ToSet(Queue(r)) : Gone(x, r)'
    BY <1>1, Places DEF Single
  <2>3. \A a \in ToSet(up[r]) : Gone(a.cmd, r)' /\ a.cmd \notin ToSet(Queue(r))
    BY <1>1, Places DEF Single
  <2> QED
    BY <1>4, <1>6, <2>1, <2>2, <2>3 DEF Single
<1>9. ASSUME NEW a \in ToSet(hand')
      PROVE  /\ Gone(a.cmd, link)' /\ a.cmd \notin ToSet(Queue(link)')
             /\ \A b \in ToSet(up'[link']) : b.cmd # a.cmd
  <2>1. a.cmd = e /\ Gone(e, s)'
    BY <1>1, <1>4, <1>7, <1>9
  <2>2. Gone(a.cmd, link)' /\ Queue(link)' = Queue(s)'
    BY <1>4, <2>1 DEF Gone, Queue
  <2>3. \A b \in ToSet(up[s]) : b.cmd # e
    BY <1>7 DEF Single
  <2> QED
    BY <1>4, <1>5, <2>1, <2>2, <2>3
<1>10. ASSUME NEW a \in box'
      PROVE  /\ \E r \in Streams : Gone(a.cmd, r)'
             /\ \A r \in Streams :
                 a.cmd \notin ToSet(Queue(r)') /\ \A b \in ToSet(up'[r]) : b.cmd # a.cmd
             /\ \A b \in ToSet(hand') : b.cmd # a.cmd
  <2>1. a \in box /\ a.cmd \in Commands
    BY <1>4, <1>10, Places
  <2>2. \E r \in Streams : Gone(a.cmd, r)'
    BY <1>1, <2>1 DEF Single
  <2>3. a.cmd # e
    BY <1>7, <2>1 DEF Single
  <2> QED
    BY <1>4, <1>6, <2>1, <2>2, <2>3 DEF Single
<1> QED
  BY <1>8, <1>9, <1>10 DEF Single

\* The answer goes from the Agent's hand on its way.
LEMMA SingleAnswered ==
    ASSUME TypeOK, Placed, Single, [Next]_vars, AgentAnswers, link \notin broken
    PROVE  Single'
<1>1. \A x \in Commands, r \in Streams : Gone(x, r) => Gone(x, r)'
  BY GoneStays
<1>2. \A r \in Streams : Queue(r)' = Queue(r)
  BY QueueStays DEF AgentAnswers
<1>3. hand # <<>> /\ hand' = <<>> /\ box' = box
  BY DEF AgentAnswers, waits
<1>4. PICK l \in Streams : l = link
  BY <1>3 DEF Placed, TypeOK
<1>5. PICK e \in Answers : e = hand[1]
  BY <1>3, Handed DEF TypeOK
<1>6. up[l] \in Seq(Answers) /\ ToSet(hand) = {e} /\ up[l] \o hand = Append(up[l], e)
  <2>1. /\ up[l] \in Seq(Answers) /\ hand \in Seq(Answers) /\ Len(hand) <= 1
    BY <1>3, QueuesTyped DEF TypeOK
  <2>2. DOMAIN hand = {1} /\ up[l] \o hand = Append(up[l], hand[1])
    BY <1>3, <2>1, Handed
  <2> QED
    BY <1>5, <2>1, <2>2 DEF ToSet
<1>7. up'[l] = Append(up[l], e) /\ \A r \in Streams \ {l} : up'[r] = up[r]
  BY <1>4, <1>6 DEF AgentAnswers, TypeOK
<1>8. /\ Gone(e.cmd, l) /\ e.cmd \in Commands /\ e.cmd \notin ToSet(Queue(l))
      /\ \A b \in ToSet(up[l]) : b.cmd # e.cmd
      /\ \A a \in box : a.cmd # e.cmd
  BY <1>4, <1>6, Places DEF Single
<1>9. ToSet(up'[l]) = ToSet(up[l]) \cup {e} /\ OneAnswer(up'[l])
  <2>1. OneAnswer(up[l])
    BY DEF Single
  <2> QED
    BY <1>6, <1>7, <1>8, <2>1, AppendedSet, OneAnswerAppend
<1>10. \A r \in Streams : ToSet(up'[r]) \subseteq ToSet(up[r]) \cup {e}
  BY <1>7, <1>9
<1>11. ASSUME NEW r \in Streams
      PROVE  /\ IsInjective(Queue(r)')
             /\ \A x \in ToSet(Queue(r)') : Gone(x, r)'
             /\ OneAnswer(up'[r])
             /\ \A a \in ToSet(up'[r]) : Gone(a.cmd, r)' /\ a.cmd \notin ToSet(Queue(r)')
  <2>1. OneAnswer(up'[r])
    BY <1>7, <1>9 DEF Single
  <2>2. \A x \in ToSet(Queue(r)) : Gone(x, r)'
    BY <1>1, Places DEF Single
  <2>3. \A a \in ToSet(up[r]) : Gone(a.cmd, r)' /\ a.cmd \notin ToSet(Queue(r))
    BY <1>1, Places DEF Single
  <2>4. \A a \in ToSet(up'[r]) : Gone(a.cmd, r)' /\ a.cmd \notin ToSet(Queue(r))
    <3>1. CASE r = l
      BY <1>1, <1>8, <1>9, <2>3, <3>1
    <3>2. CASE r # l
      BY <1>7, <2>3, <3>2
    <3> QED
      BY <3>1, <3>2
  <2> QED
    BY <1>2, <2>1, <2>2, <2>4 DEF Single
<1>12. ToSet(hand') = {}
  BY <1>3, EmptySet
<1>13. ASSUME NEW a \in box'
      PROVE  /\ \E r \in Streams : Gone(a.cmd, r)'
             /\ \A r \in Streams :
                 a.cmd \notin ToSet(Queue(r)') /\ \A b \in ToSet(up'[r]) : b.cmd # a.cmd
  <2>1. a \in box /\ a.cmd \in Commands
    BY <1>3, <1>13, Places
  <2>2. \E r \in Streams : Gone(a.cmd, r)'
    BY <1>1, <2>1 DEF Single
  <2> QED
    BY <1>2, <1>8, <1>10, <2>1, <2>2 DEF Single
<1> QED
  BY <1>11, <1>12, <1>13 DEF Single

\* Every step leaves every command in one place.
LEMMA SingleStep ==
    ASSUME TypeOK, Placed, Single, [Next]_vars
    PROVE  Single'
<1> USE DEF agent, server, wire, waits, callers, history
<1>1. ASSUME UNCHANGED <<send, down, up>>, box' \subseteq box,
             hand' = <<>> \/ (hand' = hand /\ link' = link)
      PROVE  Single'
  BY <1>1, QueueStays, SingleKept
<1>2. ASSUME NEW s \in Streams, PumpSend(s) PROVE Single'
  BY <1>2, QueuePumped, SingleKept DEF PumpSend
<1>3. ASSUME NEW s \in Streams, AgentDials(s) PROVE Single'
  <2>1. hand = <<>>
    BY <1>3 DEF AgentDials, Placed
  <2>2. UNCHANGED <<send, down, up>> /\ box' \subseteq box /\ hand' = hand
    BY <1>3 DEF AgentDials
  <2> QED
    BY <1>1, <2>1, <2>2, Zenon
<1>4. ASSUME NEW s \in Streams, ControlBegins(s) \/ ControlEnds(s) \/ Break(s)
      PROVE  Single'
  BY <1>1, <1>4 DEF ControlBegins, ControlEnds, Break
<1>5. ASSUME NEW c \in Callers, CallFails(c) \/ CallBegins(c) \/ GiveUp(c) PROVE Single'
  BY <1>1, <1>5 DEF CallFails, CallBegins, GiveUp
<1>6. ASSUME NEW c \in Callers, NEW a \in box, Answered(c, a) PROVE Single'
  BY <1>1, <1>6 DEF Answered
<1>7. CASE AgentLeaves \/ AgentCrash
  <2>1. UNCHANGED <<send, down, up>> /\ box' \subseteq box /\ hand' = <<>>
    BY <1>7 DEF AgentLeaves, AgentCrash
  <2> QED
    BY <1>1, <2>1, Zenon
<1>8. CASE AgentAnswers
  <2>1. CASE link \in broken
    BY <1>1, <1>8, <2>1 DEF AgentAnswers
  <2> QED
    BY <1>8, <2>1, SingleAnswered
<1>9. CASE UNCHANGED vars
  BY <1>1, <1>9 DEF vars
<1> QED
  BY <1>2, <1>3, <1>4, <1>5, <1>6, <1>7, <1>8, <1>9, SingleSent, SingleReceived, SingleHandled
  DEF Next, StreamStep, CallerStep, AgentStep

-----------------------------------------------------------------------------
(* The theorems *)

IInv == Placed /\ Earned /\ Ordered /\ Single

LEMMA Invariance == Spec => []IInv
<1>1. Init => IInv
  <2> SUFFICES ASSUME Init PROVE IInv
    OBVIOUS
  <2> USE DEF Init
  <2>1. \A s \in Streams : Queue(s) = <<>> /\ up[s] = <<>>
    BY EmptySeq, ConcatEmptySeq DEF Queue
  <2>2. Placed
    BY DEF Placed, EntryIsServed
  <2>3. Earned
    <3>1. \A c \in Callers : left[c] = Targets[c] /\ left[c] \in Nat \ {0}
      BY ConstantsAssumption DEF ConstantsAssumption
    <3>2. \A c \in Callers : (left[c] + 1) .. Targets[c] = {}
      BY <3>1
    <3> QED
      BY <3>1, <3>2, EmptySet DEF Earned, SuccessIsEarned
  <2>4. Ordered
    <3>1. InOrder(sent, <<>>)
      BY DEF InOrder
    <3> QED
      BY <2>1, <3>1, EmptySet DEF Ordered
  <2>5. Single
    <3>1. IsInjective(<<>>) /\ OneAnswer(<<>>)
      BY DEF IsInjective, OneAnswer
    <3> QED
      BY <2>1, <3>1, EmptySet DEF Single
  <2> QED
    BY <2>2, <2>3, <2>4, <2>5 DEF IInv
<1>2. TypeOK /\ IInv /\ [Next]_vars => IInv'
  BY PlacedStep, EarnedStep, OrderedStep, SingleStep DEF IInv
<1> QED
  BY <1>1, <1>2, TypeCorrect, PTL DEF Spec

\* No call is given a stream whose Control has returned, for any number of
\* streams that overlap (controller.go 178).
THEOREM EntryServed == Spec => []EntryIsServed
BY Invariance, PTL DEF IInv, Placed

\* A call that succeeded had all its commands carried out (controller.go 327).
THEOREM SuccessEarned == Spec => []SuccessIsEarned
BY Invariance, PTL DEF IInv, Earned

\* Commands take effect in the order they were sent (controller.go 327,
\* client.go, one command after the other).
THEOREM OrderHolds == Spec => []HandledInOrder
BY Invariance, PTL DEF IInv, Ordered, InOrder, Before, HandledInOrder

\* The receive loop finds room for every answer that somebody waits for
\* (controller.go 334).
THEOREM NeverBlocks == Spec => []ReceiveNeverBlocks
<1>1. TypeOK /\ IInv => ReceiveNeverBlocks
  <2> SUFFICES ASSUME TypeOK, IInv, NEW s \in Streams, up[s] # <<>>, NEW b \in box
               PROVE  b.cmd # Head(up[s]).cmd
    BY DEF ReceiveNeverBlocks
  <2>1. Head(up[s]) \in ToSet(up[s])
    BY QueuesTyped, ShortenedSet
  <2> QED
    BY <2>1 DEF IInv, Single
<1> QED
  BY <1>1, Invariance, TypeCorrect, PTL

\* An Agent whose stream holds stays in the table, unless another stream takes its
\* entry away: every step that writes conns says whom it robs, and the deferred
\* delete of a lost stream runs after the loss (controller.go 168-178).
THEOREM LinkedListed == Spec => []LinkedIsListed
<1>1. Init => LinkedIsListed
  BY ConstantsAssumption DEF Init, LinkedIsListed, ConstantsAssumption
<1>2. ASSUME TypeOK, LinkedIsListed, [Next]_vars PROVE LinkedIsListed'
  <2> USE DEF agent, server, history, LinkedIsListed, TypeOK
  <2>1. ASSUME NEW s \in Streams, ControlBegins(s) PROVE LinkedIsListed'
    <3>1. stream' = [stream EXCEPT ![s] = "open"] /\ conns' = s /\ UNCHANGED <<link, broken>>
      BY <2>1 DEF ControlBegins
    <3>2. robbed \subseteq robbed' /\ (conns \in {NoStream} \cup robbed')
      BY <2>1 DEF ControlBegins
    <3> QED
      BY <1>2, <3>1, <3>2, ConstantsAssumption DEF ConstantsAssumption
  <2>2. ASSUME NEW s \in Streams, ControlEnds(s) PROVE LinkedIsListed'
    BY <1>2, <2>2 DEF ControlEnds
  <2>3. ASSUME NEW s \in Streams, AgentDials(s) PROVE LinkedIsListed'
    BY <1>2, <2>3 DEF AgentDials
  <2>4. CASE AgentLeaves \/ AgentCrash \/ \E s \in Streams : Break(s)
    BY <1>2, <2>4, ConstantsAssumption DEF AgentLeaves, AgentCrash, Break, ConstantsAssumption
  <2>5. CASE UNCHANGED <<link, stream, conns, broken, robbed>>
    BY <1>2, <2>5
  <2>6. \/ \E s \in Streams : ControlBegins(s) \/ ControlEnds(s) \/ AgentDials(s) \/ Break(s)
        \/ AgentLeaves \/ AgentCrash
        \/ UNCHANGED <<link, stream, conns, broken, robbed>>
    BY <1>2 DEF Next, StreamStep, CallerStep, AgentStep, PumpSend, Receive, CommandSend, GiveUp,
           Answered, AgentAnswers, AgentHandles, CallBegins, CallFails, vars
  <2> QED
    BY Zenon, <2>1, <2>2, <2>3, <2>4, <2>5, <2>6
<1> QED
  BY <1>1, <1>2, TypeCorrect, PTL DEF Spec

\* Together: the Controller's conns is right both ways, for any number of streams
\* of the Agent that overlap.
THEOREM ConnsRight == Spec => []ConnsIsRight
BY EntryServed, LinkedListed, PTL DEF ConnsIsRight

-----------------------------------------------------------------------------
(* ControlStream implements GatewayCalls: commands and answers on the way,   *)
(* streams and the table of connections are invisible there.                 *)

\* A step of the promise, or none that it sees.
Promised == [Gateway!Next]_(Gateway!vars)

\* A call that is under way has returned nothing, and what was sent is not sent
\* again: its call is past it.
Calling ==
    /\ \A c \in Callers : pc[c] # "done" => result[c] = "none"
    /\ \A x \in ToSet(sent) : \E s \in Streams : Gone(x, s)

\* Every step keeps what calls have returned and what they have sent apart.
LEMMA CallingStep ==
    ASSUME TypeOK, Placed, Ordered, Calling, [Next]_vars
    PROVE  Calling'
<1> USE DEF agent, server, wire, waits, callers, history
<1>0. ToSet(sent) \subseteq Commands
  BY LenProperties, ElementOfSeq DEF TypeOK, ToSet
<1>1. \A x \in ToSet(sent) : (\E s \in Streams : Gone(x, s))'
  BY <1>0, GoneStays DEF Calling
<1>2. ASSUME sent' = sent, pc' = pc, result' = result PROVE Calling'
  BY <1>1, <1>2 DEF Calling
<1>3. ASSUME NEW c \in Callers, CommandSend(c) PROVE Calling'
  <2>1. PICK e \in Commands, v \in Streams : e = Command(c) /\ v = via[c]
    BY <1>3, QueueSent
  <2>2. /\ pc[c] = "send" /\ pc' = [pc EXCEPT ![c] = "wait"] /\ result' = result
        /\ via' = via /\ left' = left /\ sent' = Append(sent, e)
    BY <1>3, <2>1 DEF CommandSend
  <2>3. ToSet(sent') = ToSet(sent) \cup {e}
    BY <2>2, AppendedSet DEF TypeOK
  <2>4. e = <<c, left[c]>> /\ pc'[c] = "wait" /\ left'[c] = left[c] /\ via'[c] = v
    BY <2>1, <2>2 DEF TypeOK, Command
  <2>5. Gone(e, v)'
    BY <2>4 DEF Gone
  <2>6. \A x \in ToSet(sent') : (\E s \in Streams : Gone(x, s))'
    BY <1>1, <2>3, <2>5
  <2>7. \A d \in Callers : pc'[d] # "done" => result'[d] = "none"
    BY <2>2 DEF Calling, TypeOK
  <2> QED
    BY <2>6, <2>7 DEF Calling
<1>4. ASSUME NEW c \in Callers, CallFails(c) \/ GiveUp(c) PROVE Calling'
  BY <1>1, <1>4 DEF CallFails, GiveUp, Calling, TypeOK
<1>5. ASSUME NEW c \in Callers, CallBegins(c) PROVE Calling'
  BY <1>1, <1>5 DEF CallBegins, Calling, TypeOK
<1>6. ASSUME NEW c \in Callers, NEW a \in box, Answered(c, a) PROVE Calling'
  BY <1>1, <1>6 DEF Answered, Calling, TypeOK
<1>7. ASSUME NEW s \in Streams,
             ControlBegins(s) \/ ControlEnds(s) \/ PumpSend(s) \/ Receive(s) \/ Break(s)
             \/ AgentDials(s) \/ AgentHandles(s)
      PROVE  Calling'
  BY <1>2, <1>7
  DEF ControlBegins, ControlEnds, PumpSend, Receive, Break, AgentDials, AgentHandles
<1>8. CASE AgentLeaves \/ AgentAnswers \/ AgentCrash \/ UNCHANGED vars
  BY <1>2, <1>8 DEF AgentLeaves, AgentAnswers, AgentCrash, vars
<1> QED
  BY <1>3, <1>4, <1>5, <1>6, <1>7, <1>8 DEF Next, StreamStep, CallerStep, AgentStep

\* The library, as either module sees it.
LEMMA SameSet == \A q : Gateway!ToSet(q) = ToSet(q)
BY DEF Gateway!ToSet, ToSet

\* The step of a call that sends its command.
LEMMA SendPromised ==
    ASSUME TypeOK, Placed, Calling, NEW c \in Callers, CommandSend(c)
    PROVE  Gateway!Send(c)
<1>1. /\ pc[c] = "send" /\ sent' = Append(sent, Command(c))
      /\ UNCHANGED <<handled, left, result>>
  BY DEF CommandSend, history
<1>2. result[c] = "none"
  BY <1>1 DEF Calling
<1>3. \A s : ~Gone(Command(c), s)
  BY <1>1 DEF Gone, Command, TypeOK
<1>4. Command(c) \notin ToSet(sent)
  BY <1>3 DEF Calling
<1> QED
  BY <1>1, <1>2, <1>4, SameSet DEF Gateway!Send, Gateway!Command, Command

\* The Agent handles the first command of the stream it is on: it was sent, and
\* after everything that took effect before.
LEMMA EffectPromised ==
    ASSUME TypeOK, Placed, Ordered, NEW s \in Streams, AgentHandles(s)
    PROVE  Promised
<1> DEFINE x == Head(down[s])
<1>1. /\ Queue(s) # <<>> /\ Head(Queue(s)) = x /\ Queue(s) \in Seq(Commands)
  BY QueueTaken, QueueTyped
<1>2. ToSet(Queue(s)) = ToSet(Tail(Queue(s))) \cup {x}
  BY <1>1, ShortenedSet
<1>3. x \in ToSet(sent)
  BY <1>2 DEF Ordered
<1>4. /\ link = s /\ link # NoStream
      /\ handled' \in {handled, Append(handled, x)}
      /\ UNCHANGED <<sent, left, result>>
  BY ConstantsAssumption DEF AgentHandles, callers, ConstantsAssumption
<1> HIDE DEF x
<1>5. \A y \in ToSet(handled) : Gateway!SentBefore(y, x)
  <2>1. Ahead(sent, ToSet(handled), ToSet(Queue(s)))
    BY <1>4 DEF Ordered
  <2>2. x \in ToSet(Queue(s))
    BY <1>2
  <2> QED
    BY <2>1, <2>2 DEF Ahead, Before, Gateway!SentBefore
<1>6. CASE handled' = handled
  BY <1>4, <1>6 DEF Promised, Gateway!vars
<1>7. CASE handled' = Append(handled, x)
  <2>1. Gateway!TakesEffect(x)
    BY <1>4, <1>5, <1>7, SameSet DEF Gateway!TakesEffect
  <2> QED
    BY <1>3, <2>1, SameSet DEF Promised, Gateway!Next
<1> QED
  BY <1>4, <1>6, <1>7

\* The answer to a call's command lets it go on, succeed or fail.
LEMMA AnswerPromised ==
    ASSUME TypeOK, Earned, Calling, NEW c \in Callers, NEW a \in box, Answered(c, a)
    PROVE  Gateway!GoesOn(c) \/ Gateway!Succeeds(c) \/ Gateway!Fails(c)
<1> USE DEF Gateway!Command, Command
<1>1. /\ pc[c] = "wait" /\ a.cmd = <<c, left[c]>> /\ UNCHANGED <<sent, handled>>
  BY DEF Answered, history
<1>2. result[c] = "none" /\ left[c] \in Nat \ {0}
  BY <1>1 DEF Calling, Earned, TypeOK
<1>3. a.ok => <<c, left[c]>> \in ToSet(handled)
  BY <1>1 DEF Earned
<1>4. CASE a.ok /\ left[c] > 1
  BY <1>1, <1>2, <1>3, <1>4, SameSet DEF Answered, Gateway!GoesOn
<1>5. CASE a.ok /\ ~(left[c] > 1)
  <2>1. left[c] = 1
    BY <1>2, <1>5
  <2>2. left' = left /\ result' = [result EXCEPT ![c] = "ok"]
    BY <1>5 DEF Answered
  <2> QED
    BY <1>1, <1>2, <1>3, <1>5, <2>1, <2>2, SameSet DEF Gateway!Succeeds
<1>6. CASE ~a.ok
  <2>1. left' = left /\ result' = [result EXCEPT ![c] = "error"]
    BY <1>6 DEF Answered
  <2> QED
    BY <1>1, <1>2, <2>1 DEF Gateway!Fails
<1> QED
  BY <1>4, <1>5, <1>6

\* Every step is one of the promise, or one that it does not see.
LEMMA PromisedStep ==
    ASSUME TypeOK, IInv, Calling, [Next]_vars
    PROVE  Promised
<1> USE DEF agent, server, wire, waits, callers, history
<1>1. ASSUME UNCHANGED <<sent, handled, left, result>> PROVE Promised
  BY <1>1 DEF Promised, Gateway!vars
<1>2. ASSUME NEW c \in Callers, CommandSend(c) PROVE Promised
  BY <1>2, SendPromised DEF IInv, Promised, Gateway!Next
<1>3. ASSUME NEW s \in Streams, AgentHandles(s) PROVE Promised
  BY <1>3, EffectPromised DEF IInv
<1>4. ASSUME NEW c \in Callers, NEW a \in box, Answered(c, a) PROVE Promised
  BY <1>4, AnswerPromised DEF IInv, Promised, Gateway!Next
<1>5. ASSUME NEW c \in Callers, CallFails(c) \/ GiveUp(c) PROVE Promised
  <2>1. /\ pc[c] # "done" /\ result' = [result EXCEPT ![c] = "error"]
        /\ UNCHANGED <<sent, handled, left>>
    BY <1>5 DEF CallFails, GiveUp
  <2>2. Gateway!Fails(c)
    BY <2>1 DEF Calling, Gateway!Fails
  <2> QED
    BY <2>2 DEF Promised, Gateway!Next
<1>6. ASSUME NEW c \in Callers, CallBegins(c) PROVE Promised
  BY <1>1, <1>6 DEF CallBegins
<1>7. ASSUME NEW s \in Streams,
             ControlBegins(s) \/ ControlEnds(s) \/ PumpSend(s) \/ Receive(s) \/ Break(s)
             \/ AgentDials(s)
      PROVE  Promised
  BY <1>1, <1>7 DEF ControlBegins, ControlEnds, PumpSend, Receive, Break, AgentDials
<1>8. CASE AgentLeaves \/ AgentAnswers \/ AgentCrash \/ UNCHANGED vars
  BY <1>1, <1>8 DEF AgentLeaves, AgentAnswers, AgentCrash, vars
<1> QED
  BY <1>2, <1>3, <1>4, <1>5, <1>6, <1>7, <1>8 DEF Next, StreamStep, CallerStep, AgentStep

\* A call of the gateway is what PolicyEngine takes it for: streams, channels and
\* the Agent's loop keep the promise of GatewayCalls (controller.go 250-343).
THEOREM KeepsThePromise == Spec => ImplementsGateway
<1>1. Init => Gateway!Init /\ Calling
  BY EmptySet DEF Init, Gateway!Init, Calling
<1>2. TypeOK /\ IInv /\ Calling /\ [Next]_vars => Calling'
  BY CallingStep DEF IInv
<1>3. TypeOK /\ IInv /\ Calling /\ [Next]_vars => [Gateway!Next]_(Gateway!vars)
  BY PromisedStep DEF Promised
<1> QED
  BY <1>1, <1>2, <1>3, TypeCorrect, Invariance, PTL DEF Spec, ImplementsGateway, Gateway!Spec

===============================================================================
