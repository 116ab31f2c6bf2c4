----------------------------- MODULE StringSpec -----------------------------
(***************************************************************************)
(* What mys_string_t promises (src/include/mys/string.h): a text that only *)
(* grows at its end, is cut, or is filled up with zeros, and that an       *)
(* operation that fails leaves as it was.                                  *)
(***************************************************************************)
EXTENDS Sequences, Naturals

CONSTANTS Char,    \* the characters; 0 is one of them
          MaxLen   \* bound: the length of the text

VARIABLES exists, text

Init == exists = FALSE /\ text = <<>>

Create  == /\ ~exists /\ exists' = TRUE
           /\ \E n \in 0 .. MaxLen : text' \in [1 .. n -> Char]
Extend  == /\ exists
           /\ \E n \in 1 .. MaxLen : \E other \in [1 .. n -> Char] : text' = text \o other
           /\ UNCHANGED exists
Cut     == exists /\ \E n \in 0 .. Len(text) : text' = SubSeq(text, 1, n) /\ UNCHANGED exists
Fill    == /\ exists
           /\ \E n \in 1 .. MaxLen : text' = text \o [k \in 1 .. n |-> 0]
           /\ UNCHANGED exists
Destroy == exists /\ exists' = FALSE /\ text' = <<>>

Next == Create \/ Extend \/ Cut \/ Fill \/ Destroy
Spec == Init /\ [][Next]_<<exists, text>>
=============================================================================
