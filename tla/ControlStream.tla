----------------------------- MODULE ControlStream -----------------------------
(***************************************************************************)
(* server/internal/agentctl/controller.go and the command loop of          *)
(* agent/internal/control/client.go, for one approved Agent.               *)
(*                                                                         *)
(* The Agent serves one stream at a time and dials the next when it has    *)
(* left the last; the server notices the end of a stream when it does.     *)
(* Goroutines of the server: per stream the receive loop (Control) and the *)
(* send pump; one per caller of ApplyRule or RevokeRule.  A caller sends   *)
(* one command per target and waits for its answer (roundtrip).  A command *)
(* is <<caller, n>> with n targets to go: an identifier used once.         *)
(***************************************************************************)
EXTENDS Naturals, SequencesExt

CONSTANTS
    Streams,    \* control streams, each used once (bound)
    Callers,    \* calls of the gateway, each used once (bound)
    Targets,    \* Targets[c]: commands caller c has to send; 1 for RevokeRule
    NoStream,
    SendCap,    \* capacity of agentConn.send (64 in the code)
    WireCap     \* what the connection takes before Send waits

ASSUME ConstantsAssumption ==
    /\ NoStream \notin Streams
    /\ Targets \in [Callers -> Nat \ {0}]
    /\ SendCap \in Nat \ {0}
    /\ WireCap \in Nat \ {0}

VARIABLES
    link,       \* the stream the Agent is on
    hand,       \* the Agent's answer to the command it has just carried out
    broken,     \* streams whose connection is lost
    stream,     \* stream[s]: how far the server's Control is
    conns,      \* Controller.conns, for this Agent
    send,       \* send[s]: agentConn.send
    down, up,   \* commands and answers on their way
    acks,       \* agentConn.acks: the commands with a channel
    box,        \* box: the answers in those channels
    pc, via, left, result,  \* a caller's position, stream, targets to go, outcome
    sent,       \* commands in the order they entered a send channel
    handled,    \* commands in the order they took effect
    robbed      \* streams whose entry in conns was taken by another stream

agent  == <<link, hand>>
server == <<stream, conns>>
wire   == <<send, down, up>>
waits  == <<acks, box>>
callers == <<pc, via, left, result>>
history == <<sent, handled, robbed>>
vars == <<agent, broken, server, wire, waits, callers, history>>

Commands == Callers \X Nat

Answers == [cmd : Commands, ok : BOOLEAN]

\* The command caller c is at.
Command(c) == <<c, left[c]>>

TypeOK ==
    /\ link \in Streams \cup {NoStream}
    /\ hand \in Seq(Answers) /\ Len(hand) <= 1
    /\ broken \in SUBSET Streams
    /\ stream \in [Streams -> {"none", "dialled", "open", "ended"}]
    /\ conns \in Streams \cup {NoStream}
    /\ send \in [Streams -> Seq(Commands)]
    /\ down \in [Streams -> Seq(Commands)]
    /\ up \in [Streams -> Seq(Answers)]
    /\ \A s \in Streams : Len(send[s]) <= SendCap /\ Len(down[s]) <= WireCap
    /\ acks \subseteq Commands
    /\ box \subseteq Answers
    /\ pc \in [Callers -> {"idle", "send", "wait", "done"}]
    /\ via \in [Callers -> Streams \cup {NoStream}]
    /\ left \in [Callers -> Nat]
    /\ result \in [Callers -> {"none", "ok", "error"}]
    /\ sent \in Seq(Commands)
    /\ handled \in Seq(Commands)
    /\ robbed \subseteq Streams

-----------------------------------------------------------------------------
(* Mutants: bugs these steps could plausibly have, for the properties to find *)

\* The session of a lost stream goes on reading.
AgentHandlesOld(s) ==
    /\ stream[s] # "none"
    /\ hand = <<>>
    /\ down[s] # <<>>
    /\ down' = [down EXCEPT ![s] = Tail(@)]
    /\ hand' = <<[cmd |-> Head(down[s]), ok |-> TRUE]>>
    /\ handled' = Append(handled, Head(down[s]))
    /\ UNCHANGED <<link, broken, server, send, up, waits, callers, sent, robbed>>

\* The answer is sent once more.
AgentAnswersTwice ==
    /\ hand # <<>>
    /\ hand' = <<>>
    /\ up' = [up EXCEPT ![link] = @ \o hand \o hand]
    /\ UNCHANGED <<link, broken, server, send, down, waits, callers, history>>

\* An answer goes to whoever waits.
ReceiveAny(s) ==
    LET a == Head(up[s]) IN
    /\ stream[s] = "open"
    /\ up[s] # <<>>
    /\ up' = [up EXCEPT ![s] = Tail(@)]
    /\ box' = box \cup {[cmd |-> cmd, ok |-> a.ok] : cmd \in acks}
    /\ UNCHANGED <<agent, broken, server, send, down, acks, callers, history>>

\* The first stream of an Agent keeps its entry.
ControlBeginsSecond(s) ==
    /\ stream[s] = "dialled"
    /\ stream' = [stream EXCEPT ![s] = "open"]
    /\ conns' = IF conns = NoStream THEN s ELSE conns
    /\ UNCHANGED <<agent, broken, wire, waits, callers, history>>

\* The entry is left in the table.
ControlEndsListed(s) ==
    /\ stream[s] = "open"
    /\ s \in broken
    /\ stream' = [stream EXCEPT ![s] = "ended"]
    /\ UNCHANGED <<agent, broken, conns, wire, waits, callers, history>>

\* A call that got no answer in time sends its command once more.
GiveUpResends(c) ==
    /\ pc[c] = "wait"
    /\ pc' = [pc EXCEPT ![c] = "send"]
    /\ UNCHANGED <<agent, broken, server, wire, waits, via, left, result, history>>

-----------------------------------------------------------------------------

Init ==
    /\ link = NoStream
    /\ hand = <<>>
    /\ broken = {}
    /\ stream = [s \in Streams |-> "none"]
    /\ conns = NoStream
    /\ send = [s \in Streams |-> <<>>]
    /\ down = [s \in Streams |-> <<>>]
    /\ up = [s \in Streams |-> <<>>]
    /\ acks = {}
    /\ box = {}
    /\ pc = [c \in Callers |-> "idle"]
    /\ via = [c \in Callers |-> NoStream]
    /\ left = [c \in Callers |-> Targets[c]]
    /\ result = [c \in Callers |-> "none"]
    /\ sent = <<>>
    /\ handled = <<>>
    /\ robbed = {}

-----------------------------------------------------------------------------
(* Streams *)

\* Registered and approved, the Agent opens a stream with its session token.
AgentDials(s) ==
    /\ link = NoStream
    /\ stream[s] = "none"
    /\ link' = s
    /\ stream' = [stream EXCEPT ![s] = "dialled"]
    /\ UNCHANGED <<hand, broken, conns, wire, waits, callers, history>>

\* The token is known: Control enters the stream in conns, whatever is there.
ControlBegins(s) ==
    /\ stream[s] = "dialled"
    /\ stream' = [stream EXCEPT ![s] = "open"]
    /\ conns' = s
    /\ robbed' = IF conns = NoStream THEN robbed ELSE robbed \cup {conns}
    /\ UNCHANGED <<agent, broken, wire, waits, callers, sent, handled>>

\* The connection is lost: either side finds out in its own time.
Break(s) ==
    /\ stream[s] \in {"dialled", "open"}
    /\ s \notin broken
    /\ broken' = broken \cup {s}
    /\ UNCHANGED <<agent, server, wire, waits, callers, history>>

\* Recv fails, the session returns, and Run goes on to the next one.
AgentLeaves ==
    /\ link \in broken
    /\ hand = <<>>
    /\ link' = NoStream
    /\ UNCHANGED <<hand, broken, server, wire, waits, callers, history>>

\* The Agent's process dies, with whatever it had in its hands.
AgentCrash ==
    /\ link # NoStream
    /\ link' = NoStream
    /\ hand' = <<>>
    /\ broken' = broken \cup {link}
    /\ UNCHANGED <<server, wire, waits, callers, history>>

\* Recv fails: the deferred function deletes the Agent's entry, whosever it is.
ControlEnds(s) ==
    /\ stream[s] = "open"
    /\ s \in broken
    /\ stream' = [stream EXCEPT ![s] = "ended"]
    /\ conns' = NoStream
    /\ robbed' = IF conns \in {s, NoStream} THEN robbed ELSE robbed \cup {conns}
    /\ UNCHANGED <<agent, broken, wire, waits, callers, sent, handled>>

-----------------------------------------------------------------------------
(* ApplyRule and RevokeRule *)

\* connFor finds no stream and the call fails, or the first roundtrip begins.
CallFails(c) ==
    /\ pc[c] = "idle"
    /\ conns = NoStream
    /\ pc' = [pc EXCEPT ![c] = "done"]
    /\ result' = [result EXCEPT ![c] = "error"]
    /\ UNCHANGED <<agent, broken, server, wire, waits, via, left, history>>

CallBegins(c) ==
    /\ pc[c] = "idle"
    /\ conns # NoStream
    /\ pc' = [pc EXCEPT ![c] = "send"]
    /\ via' = [via EXCEPT ![c] = conns]
    /\ acks' = acks \cup {Command(c)}
    /\ UNCHANGED <<agent, broken, server, wire, box, left, result, history>>

CommandSend(c) ==
    /\ pc[c] = "send"
    /\ Len(send[via[c]]) < SendCap
    /\ send' = [send EXCEPT ![via[c]] = Append(@, Command(c))]
    /\ pc' = [pc EXCEPT ![c] = "wait"]
    /\ sent' = Append(sent, Command(c))
    /\ UNCHANGED <<agent, broken, server, down, up, waits, via, left, result, handled, robbed>>

\* cmdTO has passed, or the caller's context ends.
GiveUp(c) ==
    /\ pc[c] \in {"send", "wait"}
    /\ pc' = [pc EXCEPT ![c] = "done"]
    /\ result' = [result EXCEPT ![c] = "error"]
    /\ acks' = acks \ {Command(c)}
    /\ box' = {a \in box : a.cmd # Command(c)}
    /\ UNCHANGED <<agent, broken, server, wire, via, left, history>>

\* The answer is there: the next target, or the end of the call.
Answered(c, a) ==
    LET more == a.ok /\ left[c] > 1 IN
    /\ pc[c] = "wait"
    /\ a \in box
    /\ a.cmd = Command(c)
    /\ box' = box \ {a}
    /\ left' = IF more THEN [left EXCEPT ![c] = @ - 1] ELSE left
    /\ acks' = (acks \ {Command(c)}) \cup IF more THEN {Command(c)'} ELSE {}
    /\ pc' = [pc EXCEPT ![c] = IF more THEN "send" ELSE "done"]
    /\ result' = IF more THEN result
                 ELSE [result EXCEPT ![c] = IF a.ok THEN "ok" ELSE "error"]
    /\ UNCHANGED <<agent, broken, server, wire, via, history>>

-----------------------------------------------------------------------------
(* The send pump and the receive loop of a stream *)

PumpSend(s) ==
    /\ stream[s] = "open"
    /\ s \notin broken
    /\ send[s] # <<>>
    /\ Len(down[s]) < WireCap
    /\ send' = [send EXCEPT ![s] = Tail(@)]
    /\ down' = [down EXCEPT ![s] = Append(@, Head(send[s]))]
    /\ UNCHANGED <<agent, broken, server, up, waits, callers, history>>

\* The channel of the command takes the answer, if anybody still waits: it has
\* room for one.
Receive(s) ==
    LET a == Head(up[s]) IN
    /\ stream[s] = "open"
    /\ up[s] # <<>>
    /\ a.cmd \in acks => \A b \in box : b.cmd # a.cmd
    /\ up' = [up EXCEPT ![s] = Tail(@)]
    /\ box' = IF a.cmd \in acks THEN box \cup {a} ELSE box
    /\ UNCHANGED <<agent, broken, server, send, down, acks, callers, history>>

-----------------------------------------------------------------------------
(* The Agent's session: one command after the other *)

\* The forwarder does what the command says, or fails.
AgentHandles(s) ==
    /\ link = s
    /\ hand = <<>>
    /\ down[s] # <<>>
    /\ down' = [down EXCEPT ![s] = Tail(@)]
    /\ \E ok \in BOOLEAN :
        /\ hand' = <<[cmd |-> Head(down[s]), ok |-> ok]>>
        /\ handled' = IF ok THEN Append(handled, Head(down[s])) ELSE handled
    /\ UNCHANGED <<link, broken, server, send, up, waits, callers, sent, robbed>>

\* An error of send is ignored.
AgentAnswers ==
    /\ hand # <<>>
    /\ hand' = <<>>
    /\ up' = IF link \in broken THEN up ELSE [up EXCEPT ![link] = @ \o hand]
    /\ UNCHANGED <<link, broken, server, send, down, waits, callers, history>>

-----------------------------------------------------------------------------

StreamStep(s) ==
    ControlBegins(s) \/ ControlEnds(s) \/ PumpSend(s) \/ Receive(s)

CallerStep(c) == CommandSend(c) \/ GiveUp(c) \/ \E a \in box : Answered(c, a)

AgentStep ==
    AgentLeaves \/ AgentAnswers \/ \E s \in Streams : AgentDials(s) \/ AgentHandles(s)

Next ==
    \/ \E s \in Streams : StreamStep(s) \/ Break(s)
    \/ \E c \in Callers : CallBegins(c) \/ CallFails(c) \/ CallerStep(c)
    \/ AgentStep \/ AgentCrash

Spec == Init /\ [][Next]_vars

\* Both processes run, timers fire, and each side finds out sooner or later that
\* a connection is lost.  No call need ever be made, no connection hold, and a
\* stream lost while it was dialled need never reach the server.
Fairness ==
    /\ WF_vars(AgentStep)
    /\ \A s \in Streams :
        /\ WF_vars(s \notin broken /\ ControlBegins(s)) /\ WF_vars(ControlEnds(s))
        /\ WF_vars(PumpSend(s)) /\ WF_vars(Receive(s))
    /\ \A c \in Callers : WF_vars(CallerStep(c))

FairSpec == Spec /\ Fairness

-----------------------------------------------------------------------------
(* Safety *)

\* A call that succeeded had every one of its commands carried out: no caller
\* takes the answer to another's command, or to one it has given up, for its own.
SuccessIsEarned ==
    \A c \in Callers :
        result[c] = "ok" => \A n \in 1..Targets[c] : <<c, n>> \in ToSet(handled)

\* Commands take effect in the order they were sent, none twice, across lost and
\* overlapping streams: a command that was given up never overtakes a later one.
HandledInOrder ==
    \A i, j \in DOMAIN handled :
        i < j => \E k, m \in DOMAIN sent :
                    k < m /\ sent[k] = handled[i] /\ sent[m] = handled[j]

\* The receive loop, which holds the mutex of the stream as it delivers, never
\* finds a channel full.
ReceiveNeverBlocks ==
    \A s \in Streams :
        up[s] # <<>> /\ Head(up[s]).cmd \in acks
            => \A b \in box : b.cmd # Head(up[s]).cmd

\* No call is given a stream whose Control has returned, overlapping or not.
EntryIsServed == conns # NoStream => stream[conns] = "open"

\* What ReachableUnlessRobbed rests on: from the moment Control has begun until
\* the connection breaks, the entry in conns is of the stream the Agent is on,
\* unless the beginning or the end of another one took it away.
LinkedIsListed ==
    \A s \in Streams :
        link = s /\ s \notin broken \cup robbed => stream[s] = "dialled" \/ conns = s

\* The table of connections is right both ways: an entry has a stream, and an
\* Agent on a stream has its entry, unless it was robbed.
ConnsIsRight == EntryIsServed /\ LinkedIsListed

-----------------------------------------------------------------------------
(* Implementation of the promise *)

Gateway == INSTANCE GatewayCalls

\* Streams, channels and the Agent's loop keep the promise of GatewayCalls, on
\* which PolicyEngine relies: each command is sent once and takes effect at most
\* once and in order, and a call gets on only by commands that took effect.
ImplementsGateway == Gateway!Spec

-----------------------------------------------------------------------------
(* Liveness *)

\* An Agent on a stream that holds can be called, unless another stream took its
\* entry away.
ReachableUnlessRobbed ==
    \A s \in Streams :
        link = s /\ s \notin broken ~> conns = s \/ s \in broken \cup robbed

=============================================================================
