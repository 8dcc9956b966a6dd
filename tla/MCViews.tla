------------------------------- MODULE MCViews -------------------------------
(* Model-checking instance of Views. *)
EXTENDS Views
=============================================================================
