------------------------------- MODULE MCArena ------------------------------
(***************************************************************************)
(* Arena with three addresses and three sizes: a reallocation can grow,    *)
(* shrink, move to a free address, stay where it is or fail.               *)
(***************************************************************************)
EXTENDS Arena, TLC

Sym == Permutations(Ptrs)
=============================================================================
