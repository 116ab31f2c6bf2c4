------------------------------- MODULE Sha256 -------------------------------
(***************************************************************************)
(* The streaming side of SHA-256, src/include/mys/impl/hash.c: bytes come  *)
(* in pieces of any length, full blocks are compressed on the way, and a   *)
(* digest can be taken at any time without ending the stream.              *)
(*                                                                         *)
(* The compression function is not computed: the state of the context is   *)
(* the sequence of the blocks that were compressed, which the real state   *)
(* is a function of.  The block size and the width of the length field are *)
(* constants, 64 and 8 in the code, with 512 = 8 * 64 and 56 = 64 - 8.     *)
(***************************************************************************)
EXTENDS Integers, Sequences

CONSTANTS Block,       \* bytes of a block
          LengthBytes, \* bytes of the length at the end of the last block
          Bytes,       \* the bytes that are hashed, of 0 .. 255
          Dirt,        \* what the buffer of a new context holds
          UINT_MAX,    \* the most that the counter of an update can hold
          MaxMessage,  \* bound: bytes of the whole message
          MaxPiece     \* bound: bytes of one update

\* What a configuration must give.
Sha256Assumption ==
    /\ LengthBytes \in Nat \ {0} /\ Block \in Nat /\ LengthBytes < Block
    /\ UINT_MAX \in Nat /\ MaxMessage \in Nat /\ MaxPiece \in Nat

VARIABLES
    data, datalen, bitlen, state,  \* the context
    message,                       \* what was given to it
    digest                         \* the latest digest, and of what

ctx == <<data, datalen, bitlen, state>>
vars == <<ctx, message, digest>>

\* The number of values that n bytes can have.
Power256[n \in 0 .. LengthBytes] == IF n = 0 THEN 1 ELSE 256 * Power256[n - 1]

WordOf(n) == n % Power256[LengthBytes]
Blank == [k \in 1 .. Block |-> 0]

\* mys_sha256_init does not clear the buffer.
Init == /\ data \in [1 .. Block -> Dirt]
        /\ datalen = 0 /\ bitlen = 0 /\ state = <<>>
        /\ message = <<>> /\ digest = [of |-> <<>>, blocks |-> <<>>]

\* The loop of mys_sha256_update, for one byte of the context c.
Take(c, byte) ==
    LET d == [c.data EXCEPT ![c.datalen + 1] = byte]
    IN IF c.datalen + 1 = Block
       THEN [data |-> d, datalen |-> 0, bitlen |-> WordOf(c.bitlen + 8 * Block),
             state |-> Append(c.state, d)]
       ELSE [c EXCEPT !.data = d, !.datalen = @ + 1]

Context == [data |-> data, datalen |-> datalen, bitlen |-> bitlen, state |-> state]

\* mys_sha256_update.  Its counter is an unsigned int, its length a size_t: for
\* more bytes than UINT_MAX it starts over again and again and never returns.
Update(bytes) ==
    LET after[n \in 0 .. Len(bytes)] == IF n = 0 THEN Context ELSE Take(after[n - 1], bytes[n])
        c == after[Len(bytes)]
    IN /\ Len(bytes) <= UINT_MAX
       /\ Len(message) + Len(bytes) <= MaxMessage
       /\ data' = c.data /\ datalen' = c.datalen
       /\ bitlen' = c.bitlen /\ state' = c.state
       /\ message' = message \o bytes
       /\ UNCHANGED digest

\* The length in bits, its lowest byte last.
LengthField(n) == [k \in 1 .. LengthBytes |-> (n \div Power256[LengthBytes - k]) % 256]

\* Mutant of Padded: the bytes behind the bit that ends the message stay.
PaddedDirty(len) ==
    [k \in 1 .. Block |-> IF k = len + 1 THEN 128 ELSE data[k]]

\* The buffer, ended by one bit and filled up with zeros.
Padded(len) ==
    [k \in 1 .. Block |-> IF k <= len THEN data[k] ELSE IF k = len + 1 THEN 128 ELSE 0]

WithLength(d) ==
    LET n == WordOf(bitlen + 8 * datalen)
    IN [k \in 1 .. Block |-> IF k <= Block - LengthBytes THEN d[k]
                             ELSE LengthField(n)[k - (Block - LengthBytes)]]

\* mys_sha256_dump_bin, on a copy of the context.
Dump ==
    /\ digest' = [of |-> message,
                  blocks |-> IF datalen < Block - LengthBytes
                             THEN Append(state, WithLength(Padded(datalen)))
                             ELSE state \o <<Padded(datalen), WithLength(Blank)>>]
    /\ UNCHANGED <<ctx, message>>

Next == \/ \E n \in 1 .. MaxPiece : \E bytes \in [1 .. n -> Bytes] : Update(bytes)
        \/ Dump
Spec == Init /\ [][Next]_vars

-----------------------------------------------------------------------------
\* SHA-256's padding of a whole message: a bit, zeros, and the length, to a
\* multiple of the block; and that text cut into blocks.
Padding(m) ==
    LET used == Len(m) + 1 + LengthBytes
        zeros == (Block - (used % Block)) % Block
    IN m \o <<128>> \o [k \in 1 .. zeros |-> 0] \o LengthField(WordOf(8 * Len(m)))

BlocksOf(text) == [b \in 1 .. Len(text) \div Block |-> SubSeq(text, (b - 1) * Block + 1, b * Block)]

\* However a message is cut into updates, whatever digests were taken before,
\* and whatever was in the buffer: the digest is that of the whole message.
DigestIsOfMessage ==
    digest.blocks # <<>> => digest.blocks = BlocksOf(Padding(digest.of))
=============================================================================
