---------------------------- MODULE MCCommandGate ----------------------------
(* A client of each kind and a rule of each severity; "remove" is harmless *)
(* in a terminal and confirmed when it comes through the API.              *)
EXTENDS CommandGate

CONSTANTS Web, Api, remove, reboot, mkfs

AttacherSource == [a \in Attachers |-> IF a = Api THEN "api" ELSE "web"]

AllRules ==
    { [words |-> {mkfs}, severity |-> "block", ai |-> FALSE],
      [words |-> {reboot}, severity |-> "confirm", ai |-> FALSE],
      [words |-> {remove, mkfs}, severity |-> "warn", ai |-> FALSE],
      [words |-> {remove}, severity |-> "confirm", ai |-> TRUE] }

\* Bound: a prompt is led astray for a client that is alone at it and before any
\* full-screen program; where nothing is said of the line it is not varied.
AstrayAlone == astray => \E a \in Attachers : Solo(a)

RuleSet == {r \in AllRules : r.words \subseteq Words}

=============================================================================
