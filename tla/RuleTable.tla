------------------------------- MODULE RuleTable -------------------------------
(***************************************************************************)
(* What the Agent's forwarder promises about its rules, whatever its       *)
(* command loop, its timers and its mutex do inside.  A rule is served by  *)
(* at most one listener, opened for it by an apply command and by nothing  *)
(* else, and taken out of service by a revoke command of that rule or      *)
(* after its window.  An apply is answered well only if its rule is served *)
(* by then.  Once a revoke is answered no socket is open for it, but      *)
(* what the end of the window had taken out of service already.            *)
(* The table, its entries, the timers and the goroutines are absent here.  *)
(***************************************************************************)
EXTENDS Naturals

CONSTANTS
    Rules,
    Listeners,  \* each used once
    NoRule, NoListener

VARIABLES
    command,    \* the command under way: <<>>, or its kind and its rule
    answer,     \* what was answered to the last command
    serving,    \* serving[r]: the listener whose address rule r answers
    opened,     \* opened[l]: the rule l was opened for
    listening,  \* listeners whose socket is open
    over        \* rules whose window has ended

vars == <<command, answer, serving, opened, listening, over>>

Commands == {"apply", "revoke"} \X Rules

-----------------------------------------------------------------------------

Init ==
    /\ command = <<>>
    /\ answer = "none"
    /\ serving = [r \in Rules |-> NoListener]
    /\ opened = [l \in Listeners |-> NoRule]
    /\ listening = {}
    /\ over = {}

Take(c) ==
    /\ command = <<>>
    /\ command' = c
    /\ UNCHANGED <<answer, serving, opened, listening, over>>

Open(r, l) ==
    /\ command = <<"apply", r>>
    /\ serving[r] = NoListener
    /\ opened[l] = NoRule
    /\ serving' = [serving EXCEPT ![r] = l]
    /\ opened' = [opened EXCEPT ![l] = r]
    /\ listening' = listening \cup {l}
    /\ UNCHANGED <<command, answer, over>>

\* By the revoke command, or because the window has ended.
Close(r) ==
    /\ serving[r] # NoListener
    /\ command = <<"revoke", r>> \/ r \in over
    /\ serving' = [serving EXCEPT ![r] = NoListener]
    /\ UNCHANGED <<command, answer, opened, listening, over>>

OutOfService(l) == \A r \in Rules : serving[r] # l

Stop(l) ==
    /\ OutOfService(l)
    /\ listening' = listening \ {l}
    /\ UNCHANGED <<command, answer, serving, opened, over>>

\* With the address of the listener there is, or with an error.
AnswerApply(r) ==
    /\ command = <<"apply", r>>
    /\ command' = <<>>
    /\ answer' = IF serving[r] = NoListener THEN "failed" ELSE "ok"
    /\ UNCHANGED <<serving, opened, listening, over>>

\* The last listener may stop as the answer is given.
AnswerRevoke(r) ==
    /\ command = <<"revoke", r>>
    /\ serving[r] = NoListener
    /\ command' = <<>>
    /\ answer' = "ok"
    /\ \/ UNCHANGED listening
       \/ \E l \in Listeners : OutOfService(l) /\ listening' = listening \ {l}
    /\ \A l \in listening' : opened[l] = r => r \in over
    /\ UNCHANGED <<serving, opened, over>>

WindowEnds(r) ==
    /\ over' = over \cup {r}
    /\ UNCHANGED <<command, answer, serving, opened, listening>>

Next ==
    \/ \E c \in Commands : Take(c)
    \/ \E r \in Rules :
        \/ \E l \in Listeners : Open(r, l)
        \/ Close(r) \/ AnswerApply(r) \/ AnswerRevoke(r) \/ WindowEnds(r)
    \/ \E l \in Listeners : Stop(l)

Spec == Init /\ [][Next]_vars

===============================================================================
