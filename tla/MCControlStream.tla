---------------------------- MODULE MCControlStream ----------------------------
(* One call with a target, one with as many as the configuration says. *)
EXTENDS ControlStream

CONSTANTS One, Many, HowMany

CallTargets == (One :> 1) @@ (Many :> HowMany)

=============================================================================
