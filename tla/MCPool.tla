------------------------------- MODULE MCPool -------------------------------
(***************************************************************************)
(* Pool on three block addresses, so that a block can be the head, the     *)
(* middle and the tail of a list, and an address can be reused for a later *)
(* block.  The first block has capacity 1, the edge where a block is empty *)
(* and full at once (test-pool.c starts there too).                        *)
(***************************************************************************)
EXTENDS Pool, TLC

Sym == Permutations(Blocks)
=============================================================================
