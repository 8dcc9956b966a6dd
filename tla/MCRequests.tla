------------------------------ MODULE MCRequests ------------------------------
(* Model-checking instance of Requests. *)
EXTENDS Requests
=============================================================================
