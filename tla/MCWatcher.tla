------------------------------ MODULE MCWatcher ------------------------------
(* Model-checking instance of Watcher; the .cfg files give the constants.  *)
EXTENDS Watcher
=============================================================================
