--------------------------- MODULE CommandGateProofs ---------------------------
(***************************************************************************)
(* What the gate promises, for any clients, words, rules and tokens.       *)
(* The copy of the line is shorter than the line once a question was       *)
(* asked: Beyond says what is known of the words it has lost.  Nothing is  *)
(* said of a prompt that is astray until its line is run or given up.      *)
(***************************************************************************)
EXTENDS CommandGate, SequenceTheorems, TLAPS

\* Words beyond the copy are not blocked, and their client was asked about those
\* that call for a confirmation.
Beyond ==
    ~astray => \A a \in Attachers : Solo(a) =>
        \A i \in DOMAIN line : i + Len(lineBuf[a]) <= Len(line) =>
            /\ "block" \notin Severity(line[i], Source[a])
            /\ "confirm" \in Severity(line[i], Source[a]) =>
                  \E t \in Tokens : asked[t].by = a /\ line[i] \in asked[t].about

\* Nothing says that a full-screen program runs before one has.
Plain == ~everRaw => ~screen /\ ~raw /\ out = <<>>

\* A token that is pending, or whose timer is about to kill the line, has nothing
\* on record; one that was not given out has nothing at all.
Questions ==
    \A t \in Tokens :
        /\ asked[t] = Nobody => timer[t] = "none" /\ records[t] = <<>>
        /\ timer[t] = "firing" => records[t] = <<>>
        /\ \A a \in Attachers : pending[a] = t =>
              /\ asked[t] # Nobody /\ asked[t].by = a
              /\ timer[t] \in {"none", "armed"}
              /\ records[t] = <<>>

Held == GateTracksLine /\ Beyond /\ Plain /\ BlockedIsNotEntered /\ EnteredDangerWasAsked

IInv == TypeOK /\ Held /\ Questions /\ AskHasOneOutcome

USE ConstantsAssumption

-----------------------------------------------------------------------------

\* A word that the rules stop by itself is stopped wherever it stands.
LEMMA MatchIsStrict ==
    ASSUME NEW text \in Seq(Words), NEW source, NEW w \in ToSet(text)
    PROVE  /\ Match(text, source) \in {"pass", "warn", "confirm"} => "block" \notin Severity(w, source)
           /\ Match(text, source) \in {"pass", "warn"} => "confirm" \notin Severity(w, source)
<1> DEFINE found == {r.severity : r \in Matching(text, source)}
<1>1. ToSet(<<w>>) = {w}
    BY DEF ToSet
<1>2. Matching(<<w>>, source) \subseteq Matching(text, source)
    BY <1>1 DEF Matching
<1>3. Severity(w, source) \subseteq found
    BY <1>2 DEF Severity
<1>4. found \subseteq {"warn", "confirm", "block"}
    BY DEF Matching, Severities
<1>5. Match(text, source) = IF found = {} THEN "pass"
        ELSE CHOOSE s \in found : \A other \in found : SevRank[other] <= SevRank[s]
    BY DEF Match
<1> HIDE DEF found
<1>6. CASE \E s \in found : \A other \in found : SevRank[other] <= SevRank[s]
    <2>1. PICK s \in found : s = Match(text, source) /\ \A other \in found : SevRank[other] <= SevRank[s]
        BY <1>5, <1>6
    <2>2. "block" \in found => s = "block"
        BY <1>4, <2>1 DEF SevRank
    <2>3. "confirm" \in found => s \in {"block", "confirm"}
        BY <1>4, <2>1 DEF SevRank
    <2> QED BY <1>3, <2>1, <2>2, <2>3
<1>7. CASE \A s \in found : \E other \in found : ~(SevRank[other] <= SevRank[s])
    <2>1. "block" \notin found
        BY <1>4, <1>7 DEF SevRank
    <2>2. "confirm" \notin found
        BY <1>4, <1>7, <2>1 DEF SevRank
    <2> QED BY <1>3, <2>1, <2>2
<1> QED BY <1>6, <1>7

\* Distances from the end survive when both lines lose their last word.
LEMMA OneLess ==
    ASSUME NEW m \in Nat, NEW n \in Nat, NEW i \in Nat, NEW j \in Nat,
           (m - 1) - i = (n - 1) - j
    PROVE  m - i = n - j
OBVIOUS

\* What Front does to a line.
LEMMA FrontOfLine ==
    ASSUME NEW s \in Seq(Words), s # <<>>
    PROVE  /\ Front(s) \in Seq(Words)
           /\ Len(Front(s)) = Len(s) - 1
           /\ \A i \in 1 .. Len(s) - 1 : Front(s)[i] = s[i]
<1>1. Len(s) \in Nat \ {0}
    BY EmptySeq
<1>2. \A i \in 1 .. Len(s) - 1 : s[i] \in Words
    BY <1>1
<1>3. /\ SubSeq(s, 1, Len(s) - 1) \in Seq(Words)
      /\ Len(SubSeq(s, 1, Len(s) - 1)) = Len(s) - 1
      /\ \A i \in 1 .. Len(s) - 1 : SubSeq(s, 1, Len(s) - 1)[i] = s[i]
    <2> DEFINE n == Len(s) - 1
    <2>1. n \in Nat /\ \A i \in 1 .. n : s[i] \in Words
        BY <1>1, <1>2
    <2> HIDE DEF n
    <2>2. /\ SubSeq(s, 1, n) \in Seq(Words)
          /\ Len(SubSeq(s, 1, n)) = IF 1 <= n THEN n - 1 + 1 ELSE 0
          /\ \A i \in 1 .. n - 1 + 1 : SubSeq(s, 1, n)[i] = s[1 + i - 1]
        BY <2>1, SubSeqProperties
    <2>3. /\ SubSeq(s, 1, n) \in Seq(Words)
          /\ Len(SubSeq(s, 1, n)) = n
          /\ \A i \in 1 .. n : SubSeq(s, 1, n)[i] = s[i]
        BY <2>1, <2>2
    <2> QED BY <2>3 DEF n
<1> QED BY <1>3 DEF Front

-----------------------------------------------------------------------------

\* The handler begins with an empty line and asks nobody.
LEMMA InitIInv == Init => IInv
<1> SUFFICES ASSUME Init PROVE IInv
    OBVIOUS
<1> USE DEF Init
<1>1. TypeOK
    <2>1. asked \in [Tokens -> {Nobody} \cup [by : Attachers, about : SUBSET Words]]
        OBVIOUS
    <2>2. records \in [Tokens -> Seq({"confirmed", "confirm_timeout"})]
        OBVIOUS
    <2>3. entered \in {NotEntered} \cup Entry
        OBVIOUS
    <2>4. lineBuf \in [Attachers -> Seq(Words)] /\ line \in Seq(Words) /\ out \in Seq({"enter", "leave"})
        OBVIOUS
    <2> QED BY <2>1, <2>2, <2>3, <2>4 DEF TypeOK
<1>2. Held
    BY DEF Held, GateTracksLine, Beyond, Plain, BlockedIsNotEntered, EnteredDangerWasAsked, Followed
<1>3. Questions /\ AskHasOneOutcome
    BY DEF Questions, AskHasOneOutcome
<1> QED BY <1>1, <1>2, <1>3 DEF IInv

\* What Lines holds are lines.
LEMMA LinesAreLines == Lines \subseteq Seq(Words)
<1>1. \A n \in 0 .. MaxLine : [1 .. n -> Words] \subseteq Seq(Words)
    OBVIOUS
<1> QED BY <1>1 DEF Lines

ShellTyped ==
    /\ line \in Seq(Words) /\ astray \in BOOLEAN /\ screen \in BOOLEAN
    /\ out \in Seq({"enter", "leave"}) /\ everRaw \in BOOLEAN

EnteredTyped == entered \in {NotEntered} \cup Entry

\* What is typed leaves the shell's variables well typed ...
LEMMA EditsTyped ==
    ASSUME TypeOK, NEW l \in Seq(Words), Edits(l)
    PROVE  ShellTyped'
<1>1. line' \in Seq(Words)
    BY LinesAreLines DEF Edits, TypeOK
<1> QED BY <1>1 DEF Edits, TypeOK, ShellTyped

LEMMA InterruptsTyped ==
    ASSUME TypeOK, Interrupts
    PROVE  ShellTyped'
BY DEF Interrupts, TypeOK, ShellTyped

\* ... and so does a line that is run: the full-screen program may have begun.
LEMMA MayStartTyped ==
    ASSUME TypeOK, MayStart
    PROVE  screen' \in BOOLEAN /\ out' \in Seq({"enter", "leave"}) /\ everRaw' \in BOOLEAN
<1>1. Append(out, "enter") \in Seq({"enter", "leave"})
    BY DEF TypeOK
<1> QED BY <1>1 DEF MayStart, TypeOK

LEMMA EntersTyped ==
    ASSUME TypeOK, NEW a \in Attachers, NEW answer \in BOOLEAN, Enters(a, answer)
    PROVE  ShellTyped' /\ EnteredTyped'
<1>1. CASE Edits(line) /\ entered' = NotEntered
    BY <1>1, EditsTyped DEF TypeOK, EnteredTyped
<1>2. CASE /\ line' = <<>> /\ astray' = FALSE /\ MayStart
           /\ entered' = [by |-> a, line |-> line, answer |-> answer, blind |-> astray]
    <2>1. [by |-> a, line |-> line, answer |-> answer, blind |-> astray] \in Entry
        BY DEF Entry, TypeOK
    <2>2. line' \in Seq(Words)
        BY <1>2
    <2> QED BY <1>2, <2>1, <2>2, MayStartTyped DEF ShellTyped, EnteredTyped
<1> QED BY <1>1, <1>2 DEF Enters

LEMMA WandersTyped ==
    ASSUME TypeOK, NEW a \in Attachers, Wanders(a)
    PROVE  ShellTyped' /\ EnteredTyped'
<1>1. CASE Edits(line) /\ entered' = NotEntered
    BY <1>1, EditsTyped DEF TypeOK, EnteredTyped
<1>2. CASE /\ line' \in Lines /\ astray' = TRUE
           /\ UNCHANGED <<screen, out, everRaw>> /\ entered' = NotEntered
    BY <1>2, LinesAreLines DEF TypeOK, ShellTyped, EnteredTyped
<1>3. CASE /\ line' \in Lines /\ astray' = TRUE /\ MayStart
           /\ entered' = [by |-> a, line |-> line, answer |-> FALSE, blind |-> TRUE]
    <2>1. [by |-> a, line |-> line, answer |-> FALSE, blind |-> TRUE] \in Entry
        BY DEF Entry, TypeOK
    <2> QED BY <1>3, <2>1, LinesAreLines, MayStartTyped DEF ShellTyped, EnteredTyped
<1> QED BY <1>1, <1>2, <1>3 DEF Wanders

\* No step changes a type.
LEMMA NextTypeOK == TypeOK /\ [Next]_vars => TypeOK'
<1> SUFFICES ASSUME TypeOK, [Next]_vars PROVE TypeOK'
    OBVIOUS
<1> DEFINE Rest == /\ here \in SUBSET Attachers
                   /\ lineBuf \in [Attachers -> Seq(Words)]
                   /\ pending \in [Attachers -> Tokens \cup {NoToken}]
                   /\ timer \in [Tokens -> {"none", "armed", "firing", "done"}]
                   /\ raw \in BOOLEAN
                   /\ asked \in [Tokens -> {Nobody} \cup [by : Attachers, about : SUBSET Words]]
                   /\ records \in [Tokens -> Seq({"confirmed", "confirm_timeout"})]
                   /\ typists \in SUBSET Attachers
<1>0. /\ Rest' /\ ShellTyped' /\ EnteredTyped' => TypeOK'
      /\ entered' = NotEntered => EnteredTyped'
      /\ UNCHANGED <<shell, everRaw>> => ShellTyped'
      /\ <<>> \in Seq(Words) /\ line \in Seq(Words)
      /\ \A w \in Words : Append(line, w) \in Seq(Words)
      /\ line # <<>> => Front(line) \in Seq(Words)
      /\ \A a \in Attachers : lineBuf[a] # <<>> => Front(lineBuf[a]) \in Seq(Words)
    BY FrontOfLine DEF TypeOK, ShellTyped, EnteredTyped, shell
<1> USE DEF loops, history, GatedKey, Reading, Asking
<1>1. CASE ScreenLeaves
    <2>1. Append(out, "leave") \in Seq({"enter", "leave"})
        BY DEF TypeOK
    <2> QED BY <1>0, <1>1, <2>1 DEF ScreenLeaves, TypeOK, ShellTyped
<1>2. CASE ScanRaw
    BY <1>0, <1>2 DEF ScanRaw, TypeOK, ShellTyped
<1>3. ASSUME NEW a \in Attachers, Leaves(a) PROVE TypeOK'
    BY <1>0, <1>3 DEF Leaves, TypeOK
<1>4. ASSUME NEW a \in Attachers, RawKey(a) PROVE TypeOK'
    <2>1. ShellTyped' /\ EnteredTyped'
        BY <1>0, <1>4, EntersTyped, InterruptsTyped, WandersTyped DEF RawKey
    <2>2. Rest'
        BY <1>4 DEF RawKey, TypeOK
    <2> QED BY <1>0, <2>1, <2>2
<1>5. ASSUME NEW a \in Attachers, NEW w \in Words, Type(a, w) PROVE TypeOK'
    <2>1. ShellTyped' /\ EnteredTyped'
        BY <1>0, <1>5, EditsTyped DEF Type
    <2>2. Rest'
        BY <1>5 DEF Type, TypeOK
    <2> QED BY <1>0, <2>1, <2>2
<1>6. ASSUME NEW a \in Attachers, Backspace(a) PROVE TypeOK'
    <2>1. ShellTyped' /\ EnteredTyped'
        BY <1>0, <1>6, EditsTyped DEF Backspace
    <2>2. Rest'
        BY <1>0, <1>6 DEF Backspace, TypeOK
    <2> QED BY <1>0, <2>1, <2>2
<1>7. ASSUME NEW a \in Attachers, ControlKey(a) PROVE TypeOK'
    <2>1. ShellTyped' /\ EnteredTyped'
        BY <1>7, WandersTyped DEF ControlKey
    <2>2. Rest'
        BY <1>7 DEF ControlKey, TypeOK
    <2> QED BY <1>0, <2>1, <2>2
<1>8. ASSUME NEW a \in Attachers, Reset(a) PROVE TypeOK'
    <2>1. ShellTyped' /\ EnteredTyped'
        BY <1>0, <1>8, EditsTyped, InterruptsTyped DEF Reset
    <2>2. Rest'
        BY <1>8 DEF Reset, TypeOK
    <2> QED BY <1>0, <2>1, <2>2
<1>9. ASSUME NEW a \in Attachers, EnterPasses(a) PROVE TypeOK'
    <2>1. ShellTyped' /\ EnteredTyped'
        BY <1>9, EntersTyped DEF EnterPasses
    <2>2. Rest'
        BY <1>9 DEF EnterPasses, TypeOK
    <2> QED BY <1>0, <2>1, <2>2
<1>10. ASSUME NEW a \in Attachers, EnterBlocked(a) PROVE TypeOK'
    <2>1. ShellTyped' /\ EnteredTyped'
        BY <1>0, <1>10, EditsTyped DEF EnterBlocked
    <2>2. Rest'
        BY <1>10 DEF EnterBlocked, TypeOK
    <2> QED BY <1>0, <2>1, <2>2
<1>11. ASSUME NEW a \in Attachers, EnterAsks(a) PROVE TypeOK'
    <2>1. Rest'
        BY <1>11 DEF EnterAsks, ToSet, TypeOK
    <2> QED BY <1>0, <1>11, <2>1 DEF EnterAsks
<1>12. ASSUME NEW a \in Attachers, TimerArmed(a) PROVE TypeOK'
    BY <1>0, <1>12 DEF TimerArmed, TypeOK
<1>13. ASSUME NEW a \in Attachers, NEW t \in Tokens, Confirm(a, t) PROVE TypeOK'
    <2>1. ShellTyped' /\ EnteredTyped'
        BY <1>0, <1>13, EntersTyped DEF Confirm
    <2>2. Append(records[t], "confirmed") \in Seq({"confirmed", "confirm_timeout"})
        BY DEF TypeOK
    <2>3. Rest'
        <3>1. records' \in [Tokens -> Seq({"confirmed", "confirm_timeout"})]
            BY <1>13, <2>2 DEF Confirm, Record, TypeOK
        <3>2. pending' \in [Attachers -> Tokens \cup {NoToken}]
            BY <1>13 DEF Confirm, TypeOK
        <3>3. UNCHANGED <<here, lineBuf, timer, raw, asked, typists>>
            BY <1>13 DEF Confirm
        <3> QED BY <3>1, <3>2, <3>3 DEF TypeOK
    <2> QED BY <1>0, <2>1, <2>3
<1>14. ASSUME NEW t \in Tokens, TimerFires(t) PROVE TypeOK'
    BY <1>0, <1>14 DEF TimerFires, TypeOK
<1>15. ASSUME NEW t \in Tokens, TimeoutKills(t) PROVE TypeOK'
    <2>1. ShellTyped' /\ EnteredTyped'
        BY <1>0, <1>15, EditsTyped DEF TimeoutKills
    <2>2. Append(records[t], "confirm_timeout") \in Seq({"confirmed", "confirm_timeout"})
        BY DEF TypeOK
    <2>3. Rest'
        BY <1>15, <2>2 DEF TimeoutKills, Record, TypeOK
    <2> QED BY <1>0, <2>1, <2>3
<1>16. CASE UNCHANGED vars
    BY <1>16 DEF vars, TypeOK, shell, Entry
<1> QED BY <1>1, <1>2, <1>3, <1>4, <1>5, <1>6, <1>7, <1>8, <1>9, <1>10, <1>11, <1>12, <1>13, <1>14, <1>15, <1>16 DEF Next

-----------------------------------------------------------------------------

\* Once a full-screen program has run, nothing is promised.
LEMMA RawIsFree ==
    ASSUME everRaw' PROVE Held'
BY DEF Held, GateTracksLine, Beyond, Plain, BlockedIsNotEntered, EnteredDangerWasAsked, Followed, Solo

\* Nor where the prompt is astray, except that the line before it was followed.
LEMMA AstrayIsFree ==
    ASSUME astray', entered' = NotEntered \/ entered'.blind,
           everRaw' \/ (~screen' /\ ~raw' /\ out' = <<>>)
    PROVE  Held'
BY DEF Held, GateTracksLine, Beyond, Plain, BlockedIsNotEntered, EnteredDangerWasAsked, Followed

\* An empty line agrees with every copy.
LEMMA ClearedIsHeld ==
    ASSUME line' = <<>>, entered' = NotEntered,
           everRaw' \/ (~screen' /\ ~raw' /\ out' = <<>>)
    PROVE  Held'
BY DEF Held, GateTracksLine, Beyond, Plain, BlockedIsNotEntered, EnteredDangerWasAsked, Followed

\* A step that leaves the line and its copies alone keeps what is known of them.
LEMMA CalmIsHeld ==
    ASSUME Held, entered' = NotEntered,
           UNCHANGED <<line, astray, lineBuf, asked, everRaw>>, typists \subseteq typists',
           everRaw' \/ (~screen' /\ ~raw' /\ out' = <<>>)
    PROVE  Held'
<1>1. \A a \in Attachers : Solo(a)' => Solo(a)
    BY DEF Solo
<1> QED BY <1>1 DEF Held, GateTracksLine, Beyond, Plain, BlockedIsNotEntered, EnteredDangerWasAsked, Followed

\* A key that is passed on and applied to the copy keeps the two alike.
LEMMA TypeHeld ==
    ASSUME TypeOK, Held, NEW a \in Attachers, NEW w \in Words, Type(a, w)
    PROVE  Held'
<1> USE DEF Type, GatedKey, Edits
<1>1. CASE everRaw'
    BY <1>1, RawIsFree
<1>2. CASE ~everRaw' /\ astray
    BY <1>2, AstrayIsFree DEF Held, Plain
<1>3. CASE ~everRaw' /\ ~astray
    <2>1. ~screen /\ ~raw /\ out = <<>>
        BY <1>3 DEF Held, Plain
    <2>0. line' = Append(line, w) /\ astray' = astray /\ lineBuf' = [lineBuf EXCEPT ![a] = Append(@, w)]
        BY <1>3, <2>1
    <2>2. /\ line' = Append(line, w) /\ line' \in Seq(Words) /\ Len(line') = Len(line) + 1
          /\ lineBuf'[a] = Append(lineBuf[a], w) /\ Len(lineBuf'[a]) = Len(lineBuf[a]) + 1
          /\ DOMAIN line' = 1 .. Len(line) + 1 /\ DOMAIN lineBuf'[a] = 1 .. Len(lineBuf[a]) + 1
          /\ \A i \in DOMAIN line : line'[i] = line[i]
          /\ \A j \in DOMAIN lineBuf[a] : lineBuf'[a][j] = lineBuf[a][j]
          /\ line'[Len(line) + 1] = w /\ lineBuf'[a][Len(lineBuf[a]) + 1] = w
          /\ Len(line) \in Nat /\ Len(lineBuf[a]) \in Nat
        <3> HIDE DEF Type, GatedKey, Edits
        <3> QED BY <2>0 DEF TypeOK
    <2>3. \A b \in Attachers : Solo(b)' => b = a /\ Solo(b)
        BY DEF Solo
    <2>4. GateTracksLine'
        <3> HIDE DEF Type, GatedKey, Edits
        <3> SUFFICES ASSUME Solo(a), NEW i \in DOMAIN line', NEW j \in DOMAIN lineBuf'[a],
                            Len(line') - i = Len(lineBuf'[a]) - j
                     PROVE  line'[i] = lineBuf'[a][j]
            BY <2>3 DEF GateTracksLine
        <3>1. Solo(a) => \A m \in DOMAIN line, n \in DOMAIN lineBuf[a] :
                Len(line) - m = Len(lineBuf[a]) - n => line[m] = lineBuf[a][n]
            BY <1>3 DEF Held, GateTracksLine
        <3>2. DOMAIN line = 1 .. Len(line) /\ DOMAIN lineBuf[a] = 1 .. Len(lineBuf[a])
            BY DEF TypeOK
        <3>3. i = Len(line) + 1 <=> j = Len(lineBuf[a]) + 1
            BY <2>2
        <3>4. CASE i = Len(line) + 1
            BY <2>2, <3>3, <3>4
        <3>5. CASE i # Len(line) + 1
            <4>1. i \in DOMAIN line /\ j \in DOMAIN lineBuf[a] /\ Len(line) - i = Len(lineBuf[a]) - j
                <5> DEFINE m == Len(line)
                <5> DEFINE n == Len(lineBuf[a])
                <5>1. m \in Nat /\ n \in Nat /\ i \in 1 .. m + 1 /\ j \in 1 .. n + 1
                    BY <2>2
                <5>2. m + 1 - i = n + 1 - j /\ i # m + 1
                    BY <2>2, <3>5
                <5> HIDE DEF m, n
                <5>3. i \in 1 .. m /\ j \in 1 .. n /\ m - i = n - j
                    BY <5>1, <5>2
                <5> USE DEF m, n
                <5> QED BY <3>2, <5>3
            <4> QED BY <2>2, <3>1, <4>1
        <3> QED BY <3>4, <3>5
    <2>5. Beyond'
        <3> SUFFICES ASSUME Solo(a), NEW i \in DOMAIN line', i + Len(lineBuf'[a]) <= Len(line')
                     PROVE  /\ "block" \notin Severity(line'[i], Source[a])
                            /\ "confirm" \in Severity(line'[i], Source[a]) =>
                                  \E t \in Tokens : asked'[t].by = a /\ line'[i] \in asked'[t].about
            BY <2>3 DEF Beyond
        <3>1. i \in DOMAIN line /\ i + Len(lineBuf[a]) <= Len(line)
            <4>1. i \in Nat /\ i + (Len(lineBuf[a]) + 1) <= Len(line) + 1 /\ 1 <= i
                BY <2>2
            <4> QED BY <2>2, <4>1 DEF TypeOK
        <3>2. line'[i] = line[i] /\ asked' = asked
            BY <2>2, <3>1
        <3>3. Beyond
            BY DEF Held
        <3> HIDE DEF Type, GatedKey, Edits
        <3> QED BY <1>3, <3>1, <3>2, <3>3 DEF Beyond
    <2> QED BY <2>1, <2>4, <2>5 DEF Held, Plain, BlockedIsNotEntered, EnteredDangerWasAsked, Followed
<1> QED BY <1>1, <1>2, <1>3

\* So does a backspace: what is left of an empty copy is nothing.
LEMMA BackspaceHeld ==
    ASSUME TypeOK, Held, NEW a \in Attachers, Backspace(a)
    PROVE  Held'
<1> USE DEF Backspace, GatedKey, Edits
<1>1. CASE everRaw'
    BY <1>1, RawIsFree
<1>2. CASE ~everRaw' /\ astray
    BY <1>2, AstrayIsFree DEF Held, Plain
<1>3. CASE ~everRaw' /\ ~astray
    <2>1. ~screen /\ ~raw /\ out = <<>>
        BY <1>3 DEF Held, Plain
    <2>2. \A b \in Attachers : Solo(b)' => b = a /\ Solo(b)
        BY DEF Solo
    <2>3. CASE line = <<>>
        BY <1>3, <2>1, <2>3, ClearedIsHeld
    <2>4. CASE line # <<>>
        <3>0. line' = Front(line)
            BY <1>3, <2>1, <2>4
        <3>1. line' = Front(line) /\ line' \in Seq(Words) /\ Len(line') = Len(line) - 1
              /\ DOMAIN line' = 1 .. Len(line) - 1
              /\ \A i \in 1 .. Len(line) - 1 : line'[i] = line[i]
              /\ Len(line) \in Nat \ {0}
            BY <2>4, <3>0, FrontOfLine, EmptySeq DEF TypeOK
        <3>2. lineBuf[a] \in Seq(Words)
            BY DEF TypeOK
        <3>3. lineBuf[a] = <<>> => lineBuf'[a] = <<>> /\ Len(lineBuf'[a]) = 0
            BY DEF TypeOK
        <3>4. lineBuf[a] # <<>> =>
                  /\ Len(lineBuf'[a]) = Len(lineBuf[a]) - 1
                  /\ DOMAIN lineBuf'[a] = 1 .. Len(lineBuf[a]) - 1
                  /\ \A j \in 1 .. Len(lineBuf[a]) - 1 : lineBuf'[a][j] = lineBuf[a][j]
                  /\ Len(lineBuf[a]) \in Nat \ {0}
            BY <3>2, FrontOfLine, EmptySeq DEF TypeOK
        <3>5. GateTracksLine'
            <4> SUFFICES ASSUME Solo(a), NEW i \in DOMAIN line', NEW j \in DOMAIN lineBuf'[a],
                                Len(line') - i = Len(lineBuf'[a]) - j
                         PROVE  line'[i] = lineBuf'[a][j]
                BY SMTT(20), <2>2 DEF GateTracksLine
            <4>1. lineBuf[a] # <<>>
                BY <3>3
            <4>2. i \in 1 .. Len(line) - 1 /\ j \in 1 .. Len(lineBuf[a]) - 1
                BY <3>1, <3>4, <4>1
            <4>3. Len(line) - i = Len(lineBuf[a]) - j
                <5>1. (Len(line) - 1) - i = (Len(lineBuf[a]) - 1) - j
                    BY <3>1, <3>4, <4>1
                <5>2. Len(line) \in Nat /\ Len(lineBuf[a]) \in Nat
                    BY <3>1, <3>4, <4>1
                <5>3. i \in Nat /\ j \in Nat
                    BY <4>2
                <5> QED BY ONLY <5>1, <5>2, <5>3, OneLess
            <4>4. i \in DOMAIN line /\ j \in DOMAIN lineBuf[a]
                BY <3>1, <3>2, <3>4, <4>1, <4>2 DEF TypeOK
            <4>5. line[i] = lineBuf[a][j]
                BY <1>3, <4>3, <4>4 DEF Held, GateTracksLine
            <4> QED BY <3>1, <3>4, <4>1, <4>2, <4>5
        <3>6. Beyond'
            <4> SUFFICES ASSUME Solo(a), NEW i \in DOMAIN line', i + Len(lineBuf'[a]) <= Len(line')
                         PROVE  /\ "block" \notin Severity(line'[i], Source[a])
                                /\ "confirm" \in Severity(line'[i], Source[a]) =>
                                      \E t \in Tokens : asked'[t].by = a /\ line'[i] \in asked'[t].about
                BY <2>2 DEF Beyond
            <4>1. i \in 1 .. Len(line) - 1 /\ i \in DOMAIN line
                BY <3>1 DEF TypeOK
            <4>2. i + Len(lineBuf[a]) <= Len(line)
                <5>1. CASE lineBuf[a] = <<>>
                    <6>1. Len(lineBuf[a]) = 0
                        BY <5>1
                    <6> QED BY <3>1, <4>1, <6>1
                <5>2. CASE lineBuf[a] # <<>>
                    BY <3>1, <3>4, <4>1, <5>2
                <5> QED BY <5>1, <5>2
            <4> QED BY <1>3, <3>1, <4>1, <4>2 DEF Held, Beyond
        <3> QED BY <2>1, <3>5, <3>6 DEF Held, Plain, BlockedIsNotEntered, EnteredDangerWasAsked, Followed
    <2> QED BY <2>3, <2>4
<1> QED BY <1>1, <1>2, <1>3

\* Every word of the line is in the copy, or beyond it.
LEMMA EveryWord ==
    ASSUME TypeOK, Held, ~astray, NEW a \in Attachers, Solo(a), NEW i \in DOMAIN line
    PROVE  i + Len(lineBuf[a]) <= Len(line) \/ line[i] \in ToSet(lineBuf[a])
<1>1. Len(line) \in Nat /\ Len(lineBuf[a]) \in Nat /\ i \in Nat /\ DOMAIN lineBuf[a] = 1 .. Len(lineBuf[a])
    BY DEF TypeOK
<1>2. SUFFICES ASSUME i + Len(lineBuf[a]) > Len(line) PROVE line[i] \in ToSet(lineBuf[a])
    BY <1>1
<1> DEFINE j == i + Len(lineBuf[a]) - Len(line)
<1>3. j \in DOMAIN lineBuf[a] /\ Len(line) - i = Len(lineBuf[a]) - j
    BY <1>1, <1>2 DEF TypeOK
<1>4. line[i] = lineBuf[a][j]
    BY <1>3 DEF Held, GateTracksLine
<1> QED BY <1>3, <1>4 DEF ToSet

\* A question is about the words the copy loses.
LEMMA EnterAsksHeld ==
    ASSUME TypeOK, Held, NEW a \in Attachers, EnterAsks(a)
    PROVE  Held'
<1> USE DEF EnterAsks, GatedKey, shell
<1>1. CASE everRaw'
    BY <1>1, RawIsFree
<1>2. CASE ~everRaw' /\ astray
    BY <1>2, AstrayIsFree DEF Held, Plain
<1>3. CASE ~everRaw' /\ ~astray
    <2>1. ~screen /\ ~raw /\ out = <<>>
        BY <1>3 DEF Held, Plain
    <2>2. \A b \in Attachers : Solo(b)' => b = a /\ Solo(b)
        BY DEF Solo
    <2>3. PICK t \in Tokens :
            /\ asked[t] = Nobody
            /\ asked' = [asked EXCEPT ![t] = [by |-> a, about |-> ToSet(lineBuf[a])]]
        OBVIOUS
    <2>4. lineBuf'[a] = <<>> /\ line' = line /\ lineBuf[a] \in Seq(Words) /\ entered' = NotEntered
        BY DEF TypeOK
    <2>5. \A w \in ToSet(lineBuf[a]) : "block" \notin Severity(w, Source[a])
        BY <2>4, MatchIsStrict
    <2>6. asked'[t].by = a /\ asked'[t].about = ToSet(lineBuf[a])
        BY <2>3 DEF TypeOK
    <2>7. \A u \in Tokens, w \in Words :
            asked[u].by = a /\ w \in asked[u].about => asked'[u].by = a /\ w \in asked'[u].about
        BY <2>3 DEF TypeOK, Nobody
    <2>8. \A i \in DOMAIN line : line[i] \in Words
        BY DEF TypeOK
    <2>9. Beyond'
        <3> SUFFICES ASSUME Solo(a), NEW i \in DOMAIN line
                     PROVE  /\ "block" \notin Severity(line[i], Source[a])
                            /\ \/ \E u \in Tokens : asked'[u].by = a /\ line[i] \in asked'[u].about
                               \/ "confirm" \notin Severity(line[i], Source[a])
            BY <2>2, <2>4 DEF Beyond
        <3>1. CASE i + Len(lineBuf[a]) <= Len(line)
            BY <1>3, <2>7, <2>8, <3>1 DEF Held, Beyond
        <3>2. CASE line[i] \in ToSet(lineBuf[a])
            BY <2>5, <2>6, <3>2
        <3> QED BY <1>3, <3>1, <3>2, EveryWord
    <2>10. GateTracksLine'
        BY <2>2, <2>4 DEF GateTracksLine
    <2> QED BY <2>1, <2>4, <2>9, <2>10 DEF Held, Plain, BlockedIsNotEntered, EnteredDangerWasAsked, Followed
<1> QED BY <1>1, <1>2, <1>3

\* What is run was matched, or was beyond the copy, or is still in it.
LEMMA EntersHeld ==
    ASSUME TypeOK, Held, NEW a \in Attachers, NEW answer \in BOOLEAN, Enters(a, answer),
           UNCHANGED <<asked, raw>>, typists \subseteq typists',
           \A w \in ToSet(lineBuf[a]) :
               \/ answer /\ w \in ToSet(lineBuf'[a])
               \/ "block" \notin Severity(w, Source[a]) /\ "confirm" \notin Severity(w, Source[a])
    PROVE  Held'
<1>1. CASE everRaw'
    BY <1>1, RawIsFree
<1>2. CASE ~everRaw' /\ Edits(line) /\ entered' = NotEntered /\ (screen \/ astray)
    BY <1>2, AstrayIsFree DEF Held, Plain, Edits
<1>3. CASE /\ ~everRaw' /\ line' = <<>> /\ MayStart
           /\ entered' = [by |-> a, line |-> line, answer |-> answer, blind |-> astray]
    <2>1. ~screen' /\ ~raw' /\ out' = <<>>
        BY <1>3 DEF Held, Plain, MayStart
    <2>2. Solo(a)' => Solo(a)
        BY <1>3 DEF Solo, MayStart
    <2> DEFINE unmatched == IF answer THEN ToSet(lineBuf'[a]) ELSE {}
    <2>3. ASSUME ~astray, Solo(a), NEW w \in ToSet(line) \ unmatched
          PROVE  /\ "block" \notin Severity(w, Source[a])
                 /\ "confirm" \in Severity(w, Source[a]) =>
                        \E t \in Tokens : asked[t].by = a /\ w \in asked[t].about
        <3>1. PICK i \in DOMAIN line : line[i] = w
            BY DEF ToSet
        <3>2. CASE i + Len(lineBuf[a]) <= Len(line)
            BY <2>3, <3>1, <3>2 DEF Held, Beyond
        <3>3. CASE line[i] \in ToSet(lineBuf[a])
            BY <3>1, <3>3
        <3> QED BY <2>3, <3>2, <3>3, EveryWord
    <2>4. /\ Followed' => ~astray /\ Solo(a)
          /\ entered'.by = a /\ entered'.line = line /\ Unmatched' = unmatched
        BY <1>3, <2>2 DEF Followed, Unmatched
    <2>5. BlockedIsNotEntered' /\ EnteredDangerWasAsked'
        BY <2>3, <2>4 DEF BlockedIsNotEntered, EnteredDangerWasAsked
    <2> QED BY <1>3, <2>1, <2>5 DEF Held, Plain, GateTracksLine, Beyond
<1> QED BY <1>1, <1>2, <1>3 DEF Enters

\* A ^C or ^U empties the line, or the prompt is astray.
LEMMA CutIsHeld ==
    ASSUME Interrupts \/ Edits(<<>>), entered' = NotEntered, raw' = raw,
           everRaw \/ (~screen /\ ~raw /\ out = <<>>)
    PROVE  Held'
<1>1. CASE everRaw'
    BY <1>1, RawIsFree
<1>0. UNCHANGED <<screen, out, everRaw>>
    BY DEF Interrupts, Edits
<1>2. CASE ~everRaw' /\ astray'
    <2>1. ~screen' /\ ~raw' /\ out' = <<>>
        BY <1>0, <1>2
    <2>2. astray'
        BY <1>2
    <2> QED BY <2>1, <2>2, AstrayIsFree
<1>3. CASE ~everRaw' /\ ~astray'
    <2>1. ~screen /\ ~screen' /\ ~raw' /\ out' = <<>>
        BY <1>3 DEF Interrupts, Edits
    <2>2. line' = <<>>
        BY <1>3, <2>1 DEF Interrupts, Edits
    <2> QED BY <2>1, <2>2, ClearedIsHeld
<1> QED BY <1>1, <1>2, <1>3

\* No step breaks what is known of line and copies.
LEMMA NextHeld == TypeOK /\ Held /\ Questions /\ [Next]_vars => Held'
<1> SUFFICES ASSUME TypeOK, Held, Questions, [Next]_vars PROVE Held'
    OBVIOUS
<1>0. everRaw \/ (~screen /\ ~raw /\ out = <<>>)
    BY DEF Held, Plain
<1> USE DEF loops, shell, history
<1>1. CASE ScreenLeaves
    BY <1>0, <1>1, RawIsFree DEF ScreenLeaves
<1>2. CASE ScanRaw
    <2>1. everRaw
        BY <1>0, <1>2 DEF ScanRaw
    <2> QED BY <1>2, <2>1, RawIsFree DEF ScanRaw
<1>3. ASSUME NEW a \in Attachers, Leaves(a) PROVE Held'
    BY <1>0, <1>3, CalmIsHeld DEF Leaves
<1>4. ASSUME NEW a \in Attachers, RawKey(a) PROVE Held'
    <2>1. everRaw
        BY <1>0, <1>4 DEF RawKey
    <2>2. MayStart => everRaw'
        BY <2>1 DEF MayStart
    <2>3. everRaw'
        BY <1>4, <2>1, <2>2 DEF RawKey, Enters, Wanders, Edits, Interrupts
    <2> QED BY <2>3, RawIsFree
<1>5. ASSUME NEW a \in Attachers, NEW w \in Words, Type(a, w) PROVE Held'
    BY <1>5, TypeHeld
<1>6. ASSUME NEW a \in Attachers, Backspace(a) PROVE Held'
    BY <1>6, BackspaceHeld
<1>7. ASSUME NEW a \in Attachers, ControlKey(a) PROVE Held'
    <2>1. CASE everRaw'
        BY <2>1, RawIsFree
    <2>2. CASE ~everRaw'
        <3>1. ~everRaw /\ ~screen
            BY <1>0, <1>7, <2>2 DEF ControlKey, Wanders, Edits, MayStart
        <3>2. astray' /\ (entered' = NotEntered \/ entered'.blind)
            BY <1>7, <3>1 DEF ControlKey, Wanders
        <3>3. ~screen' /\ ~raw' /\ out' = <<>>
            BY <1>0, <1>7, <2>2, <3>1 DEF ControlKey, GatedKey, Wanders, MayStart
        <3> QED BY <3>2, <3>3, AstrayIsFree
    <2> QED BY <2>1, <2>2
<1>8. ASSUME NEW a \in Attachers, Reset(a) PROVE Held'
    BY <1>0, <1>8, CutIsHeld DEF Reset, GatedKey
<1>9. ASSUME NEW a \in Attachers, EnterPasses(a) PROVE Held'
    <2>1. lineBuf[a] \in Seq(Words)
        BY DEF TypeOK
    <2>2. \A w \in ToSet(lineBuf[a]) :
            "block" \notin Severity(w, Source[a]) /\ "confirm" \notin Severity(w, Source[a])
        BY <1>9, <2>1, MatchIsStrict DEF EnterPasses
    <2> QED BY <1>9, <2>2, EntersHeld DEF EnterPasses, GatedKey
<1>10. ASSUME NEW a \in Attachers, EnterBlocked(a) PROVE Held'
    BY <1>0, <1>10, CutIsHeld DEF EnterBlocked, GatedKey
<1>11. ASSUME NEW a \in Attachers, EnterAsks(a) PROVE Held'
    BY <1>11, EnterAsksHeld
<1>12. ASSUME NEW a \in Attachers, TimerArmed(a) PROVE Held'
    BY <1>0, <1>12, CalmIsHeld DEF TimerArmed
<1>13. ASSUME NEW a \in Attachers, NEW t \in Tokens, Confirm(a, t) PROVE Held'
    <2>1. UNCHANGED <<asked, raw, typists, lineBuf>>
        BY <1>13 DEF Confirm
    <2>2. CASE pending[a] = t
        BY <1>13, <2>1, <2>2, EntersHeld DEF Confirm
    <2>3. CASE pending[a] # t
        BY <1>0, <1>13, <2>1, <2>3, CalmIsHeld DEF Confirm
    <2> QED BY <2>2, <2>3
<1>14. ASSUME NEW t \in Tokens, TimerFires(t) PROVE Held'
    BY <1>0, <1>14, CalmIsHeld DEF TimerFires
<1>15. ASSUME NEW t \in Tokens, TimeoutKills(t) PROVE Held'
    BY <1>0, <1>15, CutIsHeld DEF TimeoutKills
<1>16. CASE UNCHANGED vars
    BY <1>16 DEF vars, Held, GateTracksLine, Beyond, Plain, BlockedIsNotEntered, EnteredDangerWasAsked,
                 Followed, Unmatched, Solo
<1> QED BY <1>1, <1>2, <1>3, <1>4, <1>5, <1>6, <1>7, <1>8, <1>9, <1>10, <1>11, <1>12, <1>13, <1>14, <1>15, <1>16 DEF Next

\* No step gives a question a second outcome, or none.
LEMMA NextQuestions ==
    TypeOK /\ Questions /\ AskHasOneOutcome /\ [Next]_vars => Questions' /\ AskHasOneOutcome'
<1> SUFFICES ASSUME TypeOK, Questions, AskHasOneOutcome, [Next]_vars
             PROVE  Questions' /\ AskHasOneOutcome'
    OBVIOUS
<1> USE DEF TypeOK, Questions, AskHasOneOutcome, loops, shell, history
<1> HIDE DEF Nobody
<1>1. CASE UNCHANGED <<pending, timer, asked, records>>
    BY <1>1
<1>2. ASSUME NEW a \in Attachers, EnterAsks(a) PROVE Questions' /\ AskHasOneOutcome'
    <2>1. PICK t \in Tokens :
            /\ asked[t] = Nobody
            /\ asked' = [asked EXCEPT ![t] = [by |-> a, about |-> ToSet(lineBuf[a])]]
            /\ pending' = [pending EXCEPT ![a] = t]
        BY <1>2 DEF EnterAsks
    <2>2. timer[t] = "none" /\ records[t] = <<>> /\ \A b \in Attachers : pending[b] # t
        BY <2>1
    <2>3. UNCHANGED <<timer, records>>
        BY <1>2 DEF EnterAsks, GatedKey
    <2>4. asked'[t].by = a /\ asked'[t] # Nobody /\ \A u \in Tokens \ {t} : asked'[u] = asked[u]
        BY <2>1 DEF Nobody
    <2>5. pending'[a] = t /\ \A b \in Attachers \ {a} : pending'[b] = pending[b]
        BY <2>1
    <2>6. Questions'
        BY <2>2, <2>3, <2>4, <2>5
    <2>7. AskHasOneOutcome'
        <3> SUFFICES ASSUME NEW u \in Tokens, asked'[u] # Nobody
                     PROVE  /\ Len(records[u]) <= 1
                            /\ ~(pending'[asked'[u].by] = u /\ timer[u] = "firing")
                            /\ ~(pending'[asked'[u].by] = u /\ records[u] # <<>>)
                            /\ ~(timer[u] = "firing" /\ records[u] # <<>>)
                            /\ \/ pending'[asked'[u].by] = u \/ timer[u] = "firing" \/ records[u] # <<>>
                               \/ \E v \in Tokens \ {u} : asked'[v].by = asked'[u].by
            BY <2>3
        <3>1. CASE u = t
            BY <2>2, <2>4, <2>5, <3>1
        <3>2. CASE u # t /\ asked[u].by = a
            BY <2>1, <2>2, <2>4, <2>5, <3>2
        <3>3. CASE u # t /\ asked[u].by # a
            <4>1. asked'[u] = asked[u] /\ pending'[asked[u].by] = pending[asked[u].by]
                BY <2>4, <2>1, <3>3
            <4>2. \A v \in Tokens : asked[v].by = asked[u].by => asked'[v].by = asked[u].by \/ v = t
                BY <2>4
            <4>3. asked[t].by # asked[u].by
                BY <2>1, <3>3, <4>1 DEF Nobody
            <4> QED BY <3>3, <4>1, <4>2, <4>3
        <3> QED BY <3>1, <3>2, <3>3
    <2> QED BY <2>6, <2>7
<1>3. ASSUME NEW a \in Attachers, TimerArmed(a) PROVE Questions' /\ AskHasOneOutcome'
    BY <1>3 DEF TimerArmed, Asking
<1>4. ASSUME NEW a \in Attachers, NEW t \in Tokens, Confirm(a, t) PROVE Questions' /\ AskHasOneOutcome'
    <2>1. CASE pending[a] = t
        <3>1. /\ pending' = [pending EXCEPT ![a] = NoToken]
              /\ records' = [records EXCEPT ![t] = Append(@, "confirmed")]
              /\ UNCHANGED <<timer, asked>>
            BY <1>4, <2>1 DEF Confirm, Record
        <3>2. records'[t] # <<>> /\ Len(records'[t]) = 1
            BY <2>1, <3>1
        <3> QED BY <2>1, <3>1, <3>2
    <2>2. CASE pending[a] # t
        BY <1>1, <1>4, <2>2 DEF Confirm
    <2> QED BY <2>1, <2>2
<1>5. ASSUME NEW t \in Tokens, TimerFires(t) PROVE Questions' /\ AskHasOneOutcome'
    <2>2. UNCHANGED <<asked, records>>
        BY <1>5 DEF TimerFires
    <2>3. asked[t] # Nobody /\ asked[t].by \in Attachers
        BY <1>5 DEF TimerFires
    <2>4. CASE pending[asked[t].by] = t
        <3>1. /\ timer' = [timer EXCEPT ![t] = "firing"]
              /\ pending' = [pending EXCEPT ![asked[t].by] = NoToken]
            BY <1>5, <2>4 DEF TimerFires
        <3>2. records[t] = <<>>
            BY <2>3, <2>4
        <3> QED BY <2>2, <2>3, <2>4, <3>1, <3>2
    <2>5. CASE pending[asked[t].by] # t
        <3>1. timer' = [timer EXCEPT ![t] = "done"] /\ pending' = pending /\ timer[t] = "armed"
            BY <1>5, <2>5 DEF TimerFires
        <3> QED BY <2>2, <2>3, <2>5, <3>1
    <2> QED BY <2>4, <2>5
<1>6. ASSUME NEW t \in Tokens, TimeoutKills(t) PROVE Questions' /\ AskHasOneOutcome'
    <2>1. /\ timer' = [timer EXCEPT ![t] = "done"]
          /\ records' = [records EXCEPT ![t] = Append(@, "confirm_timeout")]
          /\ UNCHANGED <<pending, asked>> /\ timer[t] = "firing"
        BY <1>6 DEF TimeoutKills, Record
    <2>2. records'[t] # <<>> /\ Len(records'[t]) = 1
        BY <2>1
    <2> QED BY <2>1, <2>2
<1> QED
    BY <1>1, <1>2, <1>3, <1>4, <1>5, <1>6
    DEF Next, vars, ScreenLeaves, ScanRaw, Leaves, RawKey, Type, Backspace, ControlKey, Reset, EnterPasses,
        EnterBlocked, GatedKey

\* The strengthening holds in every reachable state.
LEMMA Invariant == Spec => []IInv
<1>1. IInv /\ [Next]_vars => IInv'
    BY NextTypeOK, NextHeld, NextQuestions DEF IInv
<1> QED BY <1>1, InitIInv, PTL DEF Spec

-----------------------------------------------------------------------------

\* Every variable keeps its type.
THEOREM TypeCorrect == Spec => []TypeOK
<1>1. IInv => TypeOK
    BY DEF IInv
<1> QED BY <1>1, Invariant, PTL

\* What a single client's loop believes to be typed ends as the line does, until
\* a key is passed on that the copy does not follow.
THEOREM GateTracks == Spec => []GateTracksLine
<1>1. IInv => GateTracksLine
    BY DEF IInv, Held
<1> QED BY <1>1, Invariant, PTL

\* A blocked word is not run, by an Enter or a confirmation, though the copy may
\* have lost the words before it: except behind a question that is confirmed.
THEOREM BlockedHolds == Spec => []BlockedIsNotEntered
<1>1. IInv => BlockedIsNotEntered
    BY DEF IInv, Held
<1> QED BY <1>1, Invariant, PTL

\* A word to be confirmed is not run unasked, with the same exception.
THEOREM DangerHolds == Spec => []EnteredDangerWasAsked
<1>1. IInv => EnteredDangerWasAsked
    BY DEF IInv, Held
<1> QED BY <1>1, Invariant, PTL

\* Answer, timer and next question leave every question one outcome.
THEOREM OutcomeHolds == Spec => []AskHasOneOutcome
<1>1. IInv => AskHasOneOutcome
    BY DEF IInv
<1> QED BY <1>1, Invariant, PTL

=============================================================================
