------------------------------ MODULE MCFailover -----------------------------
(* Model-checking instance of Failover. *)
EXTENDS Failover
=============================================================================
