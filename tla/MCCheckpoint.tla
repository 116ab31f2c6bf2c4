---------------------------- MODULE MCCheckpoint ----------------------------
(***************************************************************************)
(* Checkpoint with two threads, which race to initialise the module and    *)
(* meet in every pair of its operations, two names, and an array that      *)
(* starts with one place and doubles twice.                                *)
(***************************************************************************)
EXTENDS Checkpoint
=============================================================================
