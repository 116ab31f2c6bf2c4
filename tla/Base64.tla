------------------------------- MODULE Base64 -------------------------------
(***************************************************************************)
(* src/include/mys/impl/base64.c.  A text is the sequence of its digits,   *)
(* 0 .. 63, and of Pad, the character =; the zero behind a text is not     *)
(* part of it.  Every character is stored after a test that it leaves room *)
(* for that zero, so a buffer of n takes at most n - 1 of them.            *)
(***************************************************************************)
EXTENDS Integers, Sequences

Pad == 64

EncodeLen(n) == ((n + 2) \div 3) * 4 + 1

\* What fits into a buffer of n.
Fitting(s, n) == SubSeq(s, 1, IF n - 1 < Len(s) THEN n - 1 ELSE Len(s))

\* mys_base64_encode of src into a buffer of n.
Encode(src, n) ==
    LET byte(k) == IF k < Len(src) THEN src[k + 1] ELSE 0
        char(c) == LET k == 3 * (c \div 4)
                   IN CASE c % 4 = 0 -> byte(k) \div 4
                        [] c % 4 = 1 -> (byte(k) % 4) * 16 + byte(k + 1) \div 16
                        [] c % 4 = 2 -> IF k + 1 < Len(src)
                                        THEN (byte(k + 1) % 16) * 4 + byte(k + 2) \div 64 ELSE Pad
                        [] OTHER -> IF k + 2 < Len(src) THEN byte(k + 2) % 64 ELSE Pad
    IN IF n = 0 THEN <<>>
       ELSE Fitting([c \in 1 .. EncodeLen(Len(src)) - 1 |-> char(c - 1)], n)

\* The digits before the first other character; a text ends with a zero.
Digits(text) ==
    LET ends == {k \in 1 .. Len(text) : text[k] > 63}
    IN IF ends = {} THEN text
       ELSE SubSeq(text, 1, (CHOOSE k \in ends : \A j \in ends : k <= j) - 1)

DecodeLen(text) == ((Len(Digits(text)) + 3) \div 4) * 3 + 1

\* mys_base64_decode into a buffer of n: whole groups of four while more than
\* four digits are left, and of the last one what its digits determine.
Decode(text, n) ==
    LET s == Digits(text)
        whole == IF s = <<>> THEN 0 ELSE (Len(s) - 1) \div 4
        left == Len(s) - 4 * whole
        byte(b) == LET k == 4 * (b \div 3) + 1
                   IN CASE b % 3 = 0 -> (s[k] * 4 + s[k + 1] \div 16) % 256
                        [] b % 3 = 1 -> (s[k + 1] * 16 + s[k + 2] \div 4) % 256
                        [] OTHER     -> (s[k + 2] * 64 + s[k + 3]) % 256
    IN IF n = 0 THEN <<>>
       ELSE Fitting([b \in 1 .. 3 * whole + (IF left > 1 THEN left - 1 ELSE 0) |-> byte(b - 1)], n)

\* Buffers of any size give a beginning of the source, and buffers of the
\* lengths the library computes give all of it, the encoded one without a
\* byte to spare.
RoundTrip(src, n, m) ==
    LET text == Encode(src, n)
        again == Decode(text, m)
        all == Encode(src, EncodeLen(Len(src)))
    IN /\ n > 0 => Len(text) < n
       /\ again = SubSeq(src, 1, Len(again))
       /\ Decode(all, DecodeLen(all)) = src
       /\ Len(all) + 1 = EncodeLen(Len(src))
=============================================================================
