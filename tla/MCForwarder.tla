------------------------------ MODULE MCForwarder ------------------------------
(* Forwarder on small instances.                                           *)
EXTENDS Forwarder, FiniteSets

\* One accept loop fails at a time.
Deaf == Cardinality(deaf) <= 1
===============================================================================
