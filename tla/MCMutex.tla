------------------------------ MODULE MCMutex -------------------------------
(***************************************************************************)
(* Mutex on a small instance: three threads, so that one can hold the lock *)
(* while two others contend, and a word of 8 values, which leaves the ids  *)
(* 0..4 below the sentinels as 2^32 does for the threads of a process.  No *)
(* symmetry: the run checks liveness.                                      *)
(***************************************************************************)
EXTENDS Mutex
=============================================================================
