----------------------------- MODULE MCIMAPIdle ------------------------------
(* Model-checking instance of IMAPIdle. *)
EXTENDS IMAPIdle
=============================================================================
