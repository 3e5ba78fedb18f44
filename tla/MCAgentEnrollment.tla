-------------------------- MODULE MCAgentEnrollment --------------------------
(* A daemon and its former self; other hosts come in through the admin. *)
EXTENDS AgentEnrollment

CONSTANT Edge

DaemonHost == [d \in Daemons |-> Edge]

=============================================================================
