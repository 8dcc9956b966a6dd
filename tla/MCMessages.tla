------------------------------ MODULE MCMessages ------------------------------
(* Model-checking instance of Messages. *)
EXTENDS Messages
=============================================================================
