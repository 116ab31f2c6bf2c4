-------------------------------- MODULE Rand --------------------------------
(***************************************************************************)
(* The ranges of the random numbers of src/include/mys/impl/rand.c.  The   *)
(* generator is external: it can return any word.  Words have Word values, *)
(* 2^64 in the code; signed ones are two's complement.                     *)
(***************************************************************************)
EXTENDS Integers

CONSTANT Word
\* What a configuration must give.
RandAssumption == Word \in Nat \ {0} /\ Word % 2 = 0

MinSigned == -(Word \div 2)
MaxSigned == Word \div 2 - 1
ToSigned(u) == IF u > MaxSigned THEN u - Word ELSE u

\* mys_rand_u64 and the narrower ones, which cut its result.
U64(mi, ma, v) == IF ma <= mi THEN mi
                  ELSE IF mi = 0 /\ ma = Word - 1 THEN v
                  ELSE mi + (v % (ma - mi))

\* Mutant of I64: the remainder of a signed word, which can be negative.
I64Signed(mi, ma, v) ==
    LET s == ToSigned(v)
        range == ToSigned((ma - mi) % Word)
        size == IF range < 0 THEN -range ELSE range
    IN IF ma <= mi THEN mi
       ELSE IF mi = MinSigned /\ ma = MaxSigned THEN ToSigned(v)
       ELSE ToSigned((mi + (IF s < 0 THEN -((-s) % size) ELSE s % size)) % Word)

\* mys_rand_i64: ma - mi is computed with a sign, may wrap around, and is used
\* without one.
I64(mi, ma, v) == IF ma <= mi THEN mi
                  ELSE IF mi = MinSigned /\ ma = MaxSigned THEN ToSigned(v)
                  ELSE ToSigned((mi + (v % ((ma - mi) % Word))) % Word)

\* The index that mys_rand_str takes among n choices; a string without any is
\* not for it, the index can be any word then.
StrIndex(n, v) == U64(0, (n - 1) % Word, v)

Words == 0 .. Word - 1

\* Every value from mi up to ma, without ma, can come and no other, but for the
\* full range, of which each can; an empty range gives mi.
RangeU64(mi, ma) ==
    {U64(mi, ma, v) : v \in Words} =
        IF ma <= mi THEN {mi} ELSE IF mi = 0 /\ ma = Word - 1 THEN Words ELSE mi .. ma - 1

RangeI64(mi, ma) ==
    {I64(mi, ma, v) : v \in Words} =
        IF ma <= mi THEN {mi}
        ELSE IF mi = MinSigned /\ ma = MaxSigned THEN MinSigned .. MaxSigned ELSE mi .. ma - 1

\* A string of one choice or more is read inside of it.
IndexInside(n) == \A v \in Words : StrIndex(n, v) \in 0 .. n - 1

\* Every choice can come.  It does not hold: the last of two or more never does.
EveryChoiceComes(n) == {StrIndex(n, v) : v \in Words} = 0 .. n - 1
=============================================================================
