------------------------------- MODULE Strings ------------------------------
(***************************************************************************)
(* The growing string of src/include/mys/impl/string.c: a buffer of the    *)
(* arena MYS_ARENA_STR whose capacity doubles, and a size that leaves room *)
(* for the terminating zero.  Every allocation can fail.  Characters that  *)
(* an append or a format writes are its input; the parsers of numbers in   *)
(* the same file have no state and are left out.                           *)
(***************************************************************************)
EXTENDS Integers, Sequences

CONSTANTS Char,          \* the characters; 0 terminates a string
          Garbage,       \* what malloc leaves in new memory
          InitCapacity,  \* 16 in the code
          StructSize,    \* sizeof(mys_string_t)
          MaxLen,        \* bound: the length of the text
          SelfAppend     \* whether a string is appended to itself when full

\* What a configuration must give.
StringsAssumption ==
    /\ 0 \in Char /\ Garbage \notin Char
    /\ InitCapacity \in Nat \ {0} /\ StructSize \in Nat \ {0} /\ MaxLen \in Nat
    /\ SelfAppend \in BOOLEAN

VARIABLES
    size, capacity,
    buf,        \* the memory at text, 1 .. capacity
    alive       \* bytes the arena counts as alive

vars == <<size, capacity, buf, alive>>

Init == size = 0 /\ capacity = 0 /\ buf = <<>> /\ alive = 0

exists == alive # 0
Texts(n) == UNION {[1 .. k -> Char] : k \in 0 .. n}

-----------------------------------------------------------------------------
\* memcpy and the stores behind it: s, written behind the first n characters.
Put(b, n, s) == [k \in DOMAIN b \cup {n + j : j \in DOMAIN s} |->
                    IF k - n \in DOMAIN s THEN s[k - n] ELSE b[k]]

Fresh(n) == [k \in 1 .. n |-> Garbage]

\* n doubled while it is less than need.
Reach(n, need) ==
    LET room[k \in 0 .. need] ==
          IF k = 0 THEN n
          ELSE LET r == room[k - 1] IN IF r < need THEN 2 * r ELSE r
    IN room[need]

\* The capacity that _mys_string_reallocate_if_needed comes to.
Grown(required) == Reach(capacity, size + required)

\* The memory after it: realloc keeps what was in it.
Moved(required) == Put(Fresh(Grown(required)), 0, buf)

\* Mutant of Reallocate: the old memory is charged with what was used of it.
ReallocateUsed(required) == /\ capacity' = Grown(required)
                            /\ alive' = alive + (capacity' - (size + 1))

\* realloc is told the old and the new capacity, and the arena's account
\* moves by the difference.
Reallocate(required) == /\ capacity' = Grown(required)
                        /\ alive' = alive + (capacity' - capacity)

\* s is stored at the end, with a zero behind it.
StoreAtEnd(s, required) ==
    /\ Reallocate(required)
    /\ buf' = Put(Moved(required), size, Append(s, 0))
    /\ size' = size + Len(s)

\* realloc fails: -1, and nothing has changed.
Fails(required) == capacity < size + required /\ UNCHANGED vars

\* mys_string_create, and with it mys_string_create2 and mys_string_dup_n,
\* which append to the new string and destroy it when that fails.
Create ==
    /\ ~exists
    /\ \E s \in Texts(MaxLen) :
         LET room == Reach(InitCapacity, Len(s) + 1)
         IN /\ capacity' = room /\ size' = Len(s)
            /\ alive' = StructSize + room
            /\ buf' = Put(Fresh(room), 0, Append(s, 0))

\* One of the allocations fails: NULL, and what was allocated is freed.
CreateFails == ~exists /\ UNCHANGED vars

\* mys_string_fmt_v, mys_string_append and mys_string_append_n.
AppendN == /\ exists
           /\ \E s \in Texts(MaxLen - size) : StoreAtEnd(s, Len(s) + 1) \/ Fails(Len(s) + 1)

\* mys_string_append2(str, str): the pointer to the other's text was taken
\* before realloc freed that memory.
AppendSelf ==
    /\ exists /\ 2 * size <= MaxLen
    /\ \/ capacity >= 2 * size + 1 /\ StoreAtEnd(SubSeq(buf, 1, size), size + 1)
       \/ /\ SelfAppend /\ capacity < 2 * size + 1
          /\ StoreAtEnd(Fresh(size), size + 1) \/ Fails(size + 1)

\* mys_string_resize and mys_string_clear; a longer text asks for more room
\* than it needs.
Shrink == \E len \in 0 .. size - 1 :
    /\ exists
    /\ size' = len /\ buf' = [buf EXCEPT ![len + 1] = 0]
    /\ UNCHANGED <<capacity, alive>>

Extend == \E len \in size + 1 .. MaxLen :
    /\ exists
    /\ StoreAtEnd([k \in 1 .. len - size |-> 0], len + 1) \/ Fails(len + 1)

Destroy == /\ exists
           /\ size' = 0 /\ capacity' = 0 /\ buf' = <<>>
           /\ alive' = alive - capacity - StructSize

Next == \/ Create \/ CreateFails \/ AppendN \/ AppendSelf
        \/ Shrink \/ Extend \/ Destroy
Spec == Init /\ [][Next]_vars

-----------------------------------------------------------------------------
\* The text a caller can use: a zero behind it, inside the buffer.
Garbled == <<Garbage>>
Content == IF ~exists THEN <<>>
           ELSE IF DOMAIN buf = 1 .. capacity /\ size < capacity /\ buf[size + 1] = 0
                THEN SubSeq(buf, 1, size) ELSE Garbled

Promise == INSTANCE StringSpec WITH exists <- exists, text <- Content

\* Every operation does to the text what it says or, when memory runs out,
\* nothing: whatever was cut off before never comes back, the zero behind the
\* text is inside the buffer, and the arena's account closes at zero.
ImplementsString == Promise!Spec
=============================================================================
