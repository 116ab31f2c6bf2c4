------------------------------- MODULE MCLog --------------------------------
(***************************************************************************)
(* Log with two threads, two levels and three places for handlers, so that *)
(* one thread changes the logger while the other is in a handler, a        *)
(* handler is removed between two others, and the array is full.           *)
(***************************************************************************)
EXTENDS Log
=============================================================================
