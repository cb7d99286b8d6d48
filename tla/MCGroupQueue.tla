---------------------------- MODULE MCGroupQueue ----------------------------
(* Instances of GroupQueue for TLC; the bounds are in the .cfg file. *)
EXTENDS GroupQueue
=============================================================================
