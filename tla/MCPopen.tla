------------------------------- MODULE MCPopen -------------------------------
(***************************************************************************)
(* Popen with two children, so that one can inherit the pipes of the       *)
(* other.  A pipe holds one unit: a program of two steps fills it, on one  *)
(* stream or before it has ended the other, or reads its stdin before it   *)
(* prints; one of no step has ended before its parent asks.  A given       *)
(* buffer of two holds one unit and its terminator; an allocated one       *)
(* starts too small for any.                                               *)
(***************************************************************************)
EXTENDS Popen

In == <<"in", "char">>
Out == <<"out", "char">>
Err == <<"err", "char">>
OutEnds == <<"out", "newline">>
ErrEnds == <<"err", "newline">>

MCPrograms == {<<In, Out>>, <<Out, OutEnds>>, <<ErrEnds, Err, OutEnds>>, <<>>}
=============================================================================
