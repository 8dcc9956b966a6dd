------------------------------ MODULE MCPaging -------------------------------
(* Model-checking instance of Paging. *)
EXTENDS Paging
=============================================================================
