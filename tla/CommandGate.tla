------------------------------ MODULE CommandGate ------------------------------
(***************************************************************************)
(* The line gate of a web terminal: the read loop of                       *)
(* server/internal/httpapi/webshell.go, Ruleset.Match of                   *)
(* server/internal/webshell/filter.go and scanRaw of session.go.           *)
(*                                                                         *)
(* Every client of a session has a read loop with a copy of the line it    *)
(* believes to be typed; the line itself is with the remote shell, which   *)
(* all of them write to.  At Enter the loop matches its copy and passes    *)
(* the Enter on, kills the line, or asks for a confirmation with a token   *)
(* and a timer.  While a full-screen program has the terminal the gate is  *)
(* open; it learns of that from the shell's output, later than it happens. *)
(*                                                                         *)
(* A key the copy does not follow (a tab, ^W, an arrow, a backspace over a *)
(* character of several bytes) is passed on as well: from then on the      *)
(* prompt is astray, and every key may do anything to the line, until the  *)
(* line is run or given up with ^C.                                        *)
(*                                                                         *)
(* A line is a sequence of words; a pattern is the set of words it needs.  *)
(* Text between the words, and the matching itself, are left out.          *)
(***************************************************************************)
EXTENDS Naturals, SequencesExt

CONSTANTS
    Attachers,  \* clients, each used once (bound)
    Source,     \* Source[a]: "web" or "api"
    Words,
    Rules,      \* the rule set: words, severity, and whether for "api" only
    Tokens,     \* confirmation tokens, each used once (bound)
    NoToken,
    MaxLine,    \* words on a line (bound)
    MaxOut      \* screen switches the output pump has not read yet (bound)

Severities == {"warn", "confirm", "block"}

ASSUME ConstantsAssumption ==
    /\ Source \in [Attachers -> {"web", "api"}]
    /\ Rules \subseteq [words : SUBSET Words, severity : Severities, ai : BOOLEAN]
    /\ NoToken \notin Tokens \cup Attachers
    /\ MaxLine \in Nat /\ MaxOut \in Nat

VARIABLES
    here,       \* the clients that are connected
    lineBuf,    \* lineBuf[a]: the loop's copy of the line
    pending,    \* pending[a]: the token it waits for
    timer,      \* timer[t]: the timer of token t
    raw,        \* Session.raw
    line,       \* the line at the remote prompt
    astray,     \* a key that no copy follows was passed on since it began
    screen,     \* a full-screen program has the terminal
    out,        \* the switches to and from it, not read yet
    entered,    \* the line that was run in the last step, who ran it, whether by
                \* answering a question, and whether the prompt was astray
    asked,      \* asked[t]: who was sent token t, and the words it was about
    records,    \* records[t]: the filter events recorded for it
    typists,    \* the clients that have typed anything
    everRaw     \* a full-screen program has run

loops   == <<here, lineBuf, pending>>
shell   == <<line, astray, screen, out>>
history == <<asked, records, typists, everRaw>>
vars    == <<loops, timer, raw, shell, entered, history>>

Nobody == [by |-> NoToken, about |-> {}]

NotEntered == [by |-> NoToken, line |-> <<>>, answer |-> FALSE, blind |-> FALSE]

Entry == [by : Attachers, line : Seq(Words), answer : BOOLEAN, blind : BOOLEAN]

TypeOK ==
    /\ here \in SUBSET Attachers
    /\ lineBuf \in [Attachers -> Seq(Words)]
    /\ pending \in [Attachers -> Tokens \cup {NoToken}]
    /\ timer \in [Tokens -> {"none", "armed", "firing", "done"}]
    /\ raw \in BOOLEAN
    /\ line \in Seq(Words)
    /\ astray \in BOOLEAN
    /\ screen \in BOOLEAN
    /\ out \in Seq({"enter", "leave"})
    /\ entered \in {NotEntered} \cup Entry
    /\ asked \in [Tokens -> {Nobody} \cup [by : Attachers, about : SUBSET Words]]
    /\ records \in [Tokens -> Seq({"confirmed", "confirm_timeout"})]
    /\ typists \in SUBSET Attachers
    /\ everRaw \in BOOLEAN

Init ==
    /\ here = Attachers
    /\ lineBuf = [a \in Attachers |-> <<>>]
    /\ pending = [a \in Attachers |-> NoToken]
    /\ timer = [t \in Tokens |-> "none"]
    /\ raw = FALSE
    /\ line = <<>>
    /\ astray = FALSE
    /\ screen = FALSE
    /\ out = <<>>
    /\ entered = NotEntered
    /\ asked = [t \in Tokens |-> Nobody]
    /\ records = [t \in Tokens |-> <<>>]
    /\ typists = {}
    /\ everRaw = FALSE

-----------------------------------------------------------------------------
(* The rule set *)

Matching(text, source) ==
    {r \in Rules : r.words \subseteq ToSet(text) /\ (r.ai => source = "api")}

SevRank == [warn |-> 1, confirm |-> 2, block |-> 3]

\* Mutant: The mildest severity wins.
MatchMildest(text, source) ==
    LET found == {r.severity : r \in Matching(text, source)}
    IN  IF found = {} THEN "pass"
        ELSE CHOOSE s \in found : \A other \in found : SevRank[s] <= SevRank[other]

\* The strictest severity of the rules that match.
Match(text, source) ==
    LET found == {r.severity : r \in Matching(text, source)}
    IN  IF found = {} THEN "pass"
        ELSE CHOOSE s \in found : \A other \in found : SevRank[other] <= SevRank[s]

-----------------------------------------------------------------------------
(* The remote shell and its terminal *)

Lines == UNION {[1 .. n -> Words] : n \in 0 .. MaxLine}

\* Session.WriteStdin: a full-screen program takes what is typed; otherwise
\* the shell edits its line with it.
Edits(newLine) ==
    /\ line' \in IF screen THEN {line} ELSE IF astray THEN Lines ELSE {newLine}
    /\ UNCHANGED <<astray, screen, out, everRaw>>

\* A line that is run may start a full-screen program.
MayStart ==
    \/ UNCHANGED <<screen, out, everRaw>>
    \/ /\ line # <<>> /\ Len(out) < MaxOut
       /\ screen' = TRUE
       /\ out' = Append(out, "enter")
       /\ everRaw' = TRUE

\* a's Enter, or the one its answer stands for, runs the line; at a prompt that
\* is astray it may be one more key.
Enters(a, answer) ==
    \/ /\ screen \/ astray
       /\ Edits(line)
       /\ entered' = NotEntered
    \/ /\ ~screen
       /\ line' = <<>>
       /\ astray' = FALSE
       /\ MayStart
       /\ entered' = [by |-> a, line |-> line, answer |-> answer, blind |-> astray]

\* A key that no copy follows: a completion, a motion, a line of the history ...
\* or ^O, which runs the line as well.
Wanders(a) ==
    \/ /\ screen
       /\ Edits(line)
       /\ entered' = NotEntered
    \/ /\ ~screen
       /\ line' \in Lines
       /\ astray' = TRUE
       /\ \/ UNCHANGED <<screen, out, everRaw>> /\ entered' = NotEntered
          \/ MayStart /\ entered' = [by |-> a, line |-> line, answer |-> FALSE, blind |-> TRUE]

\* ^C: the shell gives up its line, wherever the cursor is.
Interrupts ==
    /\ line' = IF screen THEN line ELSE <<>>
    /\ astray' = (screen /\ astray)
    /\ UNCHANGED <<screen, out, everRaw>>

ScreenLeaves ==
    /\ screen /\ Len(out) < MaxOut
    /\ screen' = FALSE
    /\ out' = Append(out, "leave")
    /\ entered' = NotEntered
    /\ UNCHANGED <<loops, timer, raw, line, astray, history>>

\* scanRaw on the next chunk of output, which may hold several switches: a
\* "leave" among them wins, whatever their order.
ScanRaw ==
    /\ \E n \in 1 .. Len(out) :
          /\ raw' = ("leave" \notin ToSet(SubSeq(out, 1, n)))
          /\ out' = SubSeq(out, n + 1, Len(out))
    /\ entered' = NotEntered
    /\ UNCHANGED <<loops, timer, line, astray, screen, history>>

-----------------------------------------------------------------------------
(* The read loop *)

\* The loop is sending a question to its client: the timer is not set yet.
Asking(a) == pending[a] # NoToken /\ timer[pending[a]] = "none"

Reading(a) == a \in here /\ ~Asking(a)

\* The Read fails and the loop ends; the timer of a pending token goes on.
Leaves(a) ==
    /\ Reading(a)
    /\ here' = here \ {a}
    /\ entered' = NotEntered
    /\ UNCHANGED <<lineBuf, pending, timer, raw, shell, history>>

\* A key of a stdin frame read while raw is not set.  Keys of one frame are as
\* good as keys of several: that raw changes among them is ScanRaw coming late.
GatedKey(a) ==
    /\ Reading(a) /\ ~raw
    /\ typists' = typists \cup {a}
    /\ UNCHANGED <<here, timer, raw>>

\* A key of a frame read while raw is set goes through as it is.
RawKey(a) ==
    /\ Reading(a) /\ raw
    /\ typists' = typists \cup {a}
    /\ \/ Enters(a, FALSE)
       \/ Interrupts /\ entered' = NotEntered
       \/ Wanders(a)
    /\ UNCHANGED <<loops, timer, raw, asked, records>>

\* A character of the line.
Type(a, w) ==
    /\ GatedKey(a)
    /\ Len(line) < MaxLine /\ Len(lineBuf[a]) < MaxLine
    /\ lineBuf' = [lineBuf EXCEPT ![a] = Append(@, w)]
    /\ Edits(Append(line, w))
    /\ entered' = NotEntered
    /\ UNCHANGED <<pending, asked, records>>

\* Mutant: A backspace is passed on and not applied to the copy.
BackspaceForwarded(a) ==
    /\ GatedKey(a)
    /\ Edits(IF line = <<>> THEN line ELSE Front(line))
    /\ entered' = NotEntered
    /\ UNCHANGED <<lineBuf, pending, asked, records>>

\* Mutant: A backspace empties the copy.
BackspaceEmpties(a) ==
    /\ GatedKey(a)
    /\ lineBuf' = [lineBuf EXCEPT ![a] = <<>>]
    /\ Edits(IF line = <<>> THEN line ELSE Front(line))
    /\ entered' = NotEntered
    /\ UNCHANGED <<pending, asked, records>>

\* The copy loses a byte, the line a character.
Backspace(a) ==
    /\ GatedKey(a)
    /\ lineBuf' = [lineBuf EXCEPT ![a] = IF @ = <<>> THEN @ ELSE Front(@)]
    /\ Edits(IF line = <<>> THEN line ELSE Front(line))
    /\ entered' = NotEntered
    /\ UNCHANGED <<pending, asked, records>>

\* A backspace over a character of several bytes, whose rest the copy keeps, and
\* any control byte: passed on, and the copy does not know what it did.
ControlKey(a) ==
    /\ GatedKey(a)
    /\ Wanders(a)
    /\ UNCHANGED <<lineBuf, pending, asked, records>>

\* ^C or ^U
Reset(a) ==
    /\ GatedKey(a)
    /\ lineBuf' = [lineBuf EXCEPT ![a] = <<>>]
    /\ Interrupts \/ Edits(<<>>)
    /\ entered' = NotEntered
    /\ UNCHANGED <<pending, asked, records>>

\* Enter on a line that no rule stops.
EnterPasses(a) ==
    /\ GatedKey(a)
    /\ Match(lineBuf[a], Source[a]) \in {"pass", "warn"}
    /\ lineBuf' = [lineBuf EXCEPT ![a] = <<>>]
    /\ Enters(a, FALSE)
    /\ UNCHANGED <<pending, asked, records>>

EnterBlocked(a) ==
    /\ GatedKey(a)
    /\ Match(lineBuf[a], Source[a]) = "block"
    /\ lineBuf' = [lineBuf EXCEPT ![a] = <<>>]
    /\ Edits(<<>>)
    /\ entered' = NotEntered
    /\ UNCHANGED <<pending, asked, records>>

\* The Enter is kept back; the token takes the place of an older one.
EnterAsks(a) ==
    /\ GatedKey(a)
    /\ Match(lineBuf[a], Source[a]) = "confirm"
    /\ \E t \in Tokens :
          /\ asked[t] = Nobody
          /\ asked' = [asked EXCEPT ![t] = [by |-> a, about |-> ToSet(lineBuf[a])]]
          /\ pending' = [pending EXCEPT ![a] = t]
    /\ lineBuf' = [lineBuf EXCEPT ![a] = <<>>]
    /\ entered' = NotEntered
    /\ UNCHANGED <<shell, everRaw, records>>

\* The question is sent, or the connection failed: the timer starts.
TimerArmed(a) ==
    /\ Asking(a)
    /\ timer' = [timer EXCEPT ![pending[a]] = "armed"]
    /\ entered' = NotEntered
    /\ UNCHANGED <<loops, raw, shell, history>>

\* RecordFilterEvent, for the question with token t (no insert that fails).
Record(t, what) == records' = [records EXCEPT ![t] = Append(@, what)]

\* Mutant: A confirmation leaves its token pending.
ConfirmKept(a, t) ==
    /\ Reading(a)
    /\ asked[t].by = a
    /\ IF pending[a] = t
       THEN Record(t, "confirmed") /\ Enters(a, TRUE)
       ELSE UNCHANGED <<records, shell, everRaw>> /\ entered' = NotEntered
    /\ UNCHANGED <<here, lineBuf, pending, timer, raw, asked, typists>>

\* A confirm_token frame with any token this client was ever given.  The Enter
\* that was kept back is sent: it runs what the line has become by now.
Confirm(a, t) ==
    /\ Reading(a)
    /\ asked[t].by = a
    /\ IF pending[a] = t
       THEN /\ pending' = [pending EXCEPT ![a] = NoToken]
            /\ Record(t, "confirmed")
            /\ Enters(a, TRUE)
       ELSE UNCHANGED <<pending, records, shell, everRaw>> /\ entered' = NotEntered
    /\ UNCHANGED <<here, lineBuf, timer, raw, asked, typists>>

\* The timer's function: first it looks, under the lock, whether its token is
\* still the pending one ...
TimerFires(t) ==
    /\ timer[t] = "armed"
    /\ LET a == asked[t].by IN
          IF pending[a] = t
          THEN /\ timer' = [timer EXCEPT ![t] = "firing"]
               /\ pending' = [pending EXCEPT ![a] = NoToken]
          ELSE /\ timer' = [timer EXCEPT ![t] = "done"]
               /\ UNCHANGED pending
    /\ entered' = NotEntered
    /\ UNCHANGED <<here, lineBuf, raw, shell, history>>

\* ... then it kills whatever line there is by now.
TimeoutKills(t) ==
    /\ timer[t] = "firing"
    /\ timer' = [timer EXCEPT ![t] = "done"]
    /\ Record(t, "confirm_timeout")
    /\ Edits(<<>>)
    /\ entered' = NotEntered
    /\ UNCHANGED <<loops, raw, asked, typists>>

Next ==
    \/ ScreenLeaves
    \/ ScanRaw
    \/ \E a \in Attachers :
          \/ Leaves(a) \/ RawKey(a)
          \/ \E w \in Words : Type(a, w)
          \/ Backspace(a) \/ ControlKey(a) \/ Reset(a)
          \/ EnterPasses(a) \/ EnterBlocked(a) \/ EnterAsks(a) \/ TimerArmed(a)
          \/ \E t \in Tokens : Confirm(a, t)
    \/ \E t \in Tokens : TimerFires(t) \/ TimeoutKills(t)

Spec == Init /\ [][Next]_vars

-----------------------------------------------------------------------------
(* Properties *)

\* Only a has typed, and no full-screen program has run.
Solo(a) == typists \subseteq {a} /\ ~everRaw

\* What the rules say of a line with this word in it and nothing else.
Severity(w, source) == {r.severity : r \in Matching(<<w>>, source)}

\* A single client's copy and the remote line end alike, as far as both reach,
\* whatever was asked, confirmed, killed by a timer or edited in between, as
\* long as it used keys the copy follows (webshell.go 158-208).
GateTracksLine ==
    ~astray => \A a \in Attachers : Solo(a) =>
        \A i \in DOMAIN line, j \in DOMAIN lineBuf[a] :
            Len(line) - i = Len(lineBuf[a]) - j => line[i] = lineBuf[a][j]

\* A line a single client ran with keys that its copy follows.
Followed == entered # NotEntered /\ Solo(entered.by) /\ ~entered.blind

\* Words that a confirmation runs unmatched: typed after the question, they are
\* still in the copy (webshell.go 222).
Unmatched == IF entered.answer THEN ToSet(lineBuf[entered.by]) ELSE {}

\* A single client does not run a word that is blocked by itself, by an Enter
\* or by a confirmation, not even on a line the gate saw in two pieces, except
\* one that it typed after the question it confirms (webshell.go 165, 222).
BlockedIsNotEntered ==
    Followed =>
        \A w \in ToSet(entered.line) \ Unmatched :
            "block" \notin Severity(w, Source[entered.by])

\* A single client does not run a word that calls for a confirmation, by an
\* Enter or by a confirmation, unless it was asked about a line with the word or
\* typed it after the question it confirms (webshell.go 169-175, 222).  It need
\* not have answered: see ConfirmIsHeld.
EnteredDangerWasAsked ==
    Followed =>
        \A w \in ToSet(entered.line) \ Unmatched :
            "confirm" \in Severity(w, Source[entered.by]) =>
                \E t \in Tokens : asked[t].by = entered.by /\ w \in asked[t].about

\* A question is open, timing out, or on record, and only one of them; it
\* leaves no trace only if its client was asked another one (webshell.go
\* 170-187 and 215-224: the answer, the timer and the next question race).
AskHasOneOutcome ==
    \A t \in Tokens :
        LET a         == asked[t].by
            open      == pending[a] = t
            timingOut == timer[t] = "firing"
            onRecord  == records[t] # <<>>
        IN  asked[t] # Nobody =>
                /\ Len(records[t]) <= 1
                /\ ~(open /\ timingOut) /\ ~(open /\ onRecord) /\ ~(timingOut /\ onRecord)
                /\ open \/ timingOut \/ onRecord \/ \E u \in Tokens \ {t} : asked[u].by = a

\* docs/09-web-shell.md: a line that calls for a confirmation is held until
\* it is confirmed.  An Enter of a single client never runs one.
ConfirmIsHeld ==
    Followed /\ ~entered.answer =>
        Match(entered.line, Source[entered.by]) # "confirm"

=============================================================================
