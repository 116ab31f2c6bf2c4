------------------------------ MODULE MCLibrary ------------------------------
(* Small values for every part of Library. *)
EXTENDS Library, TLC

Sym == Permutations(Ptrs)

\* Fractions a double holds exactly; the default of linalg.h is 1.1.
MCTolerances == {<<1, 1>>, <<5, 4>>}

\* No pass, two with one name, and one more than can be registered.
MCNames == {<<>>, <<<<"a">>, <<"a">>>>,
            [k \in 1 .. 9 |-> IF k = 9 THEN <<"a">> ELSE <<>>]}
\* A branch of three directories, one beside the second, and one beside the first.
MCPaths == {<<>>, <<"a">>, <<"a", "b">>, <<"a", "b", "c">>, <<"a", "d">>, <<"e">>}
MCDenied == {<<"a", "d">>}
MCStrangers == {<<"a", "b">>}
MCData == {-9, -1, 0, 1, 9}
==============================================================================
