----------------------------- MODULE MCRegistry -----------------------------
(***************************************************************************)
(* Registry with two threads, one predefined arena and dynamic addresses   *)
(* enough to fill the array and to be refused.                             *)
(***************************************************************************)
EXTENDS Registry, TLC

Sym == Permutations(Dynamic)
=============================================================================
