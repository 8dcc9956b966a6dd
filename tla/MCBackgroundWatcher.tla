------------------------- MODULE MCBackgroundWatcher -------------------------
(* Model-checking instance of BackgroundWatcher; the .cfg files give the   *)
(* constants.                                                              *)
EXTENDS BackgroundWatcher
=============================================================================
