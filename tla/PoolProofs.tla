----------------------------- MODULE PoolProofs -----------------------------
(***************************************************************************)
(* Proofs about Pool, for any set of block addresses, any initial capacity *)
(* and any allocation failures.                                            *)
(*                                                                         *)
(* That no object is handed out twice rests on the block lists: the head   *)
(* of the free list must be an allocated block with an object on its       *)
(* stack.  LinksConsistent says of every block that its two links, its     *)
(* neighbours' links and the four ends of the lists agree; it mentions one *)
(* block and its neighbours at a time, so a call that rewires a few links  *)
(* can be shown to preserve it without an induction along a list.          *)
(*                                                                         *)
(* LinksConsistent alone would allow a ring of blocks beside a list.  That *)
(* the lists reach every block is ListsReachAll: the blocks of each can be *)
(* numbered in the order of the links.  Each call is one of three changes  *)
(* of such an order (ListedPush, ListedAppend, ListedRemove), and that the *)
(* walk of the code follows it is the one induction (ChainReaches).        *)
(***************************************************************************)
EXTENDS Pool, FunctionTheorems, FiniteSetTheorems, TLAPS

\* The ends of the list block b is on.
HeadOf(b) == IF free[b] > 0 THEN free_block_head ELSE full_block_head
TailOf(b) == IF free[b] > 0 THEN free_block_tail ELSE full_block_tail

SameList(b, c) == free[b] > 0 <=> free[c] > 0

NextOK(b) == IF next[b] = NULL THEN b = TailOf(b)
             ELSE /\ b # TailOf(b) /\ next[b] \in live
                  /\ prev[next[b]] = b /\ SameList(b, next[b])

PrevOK(b) == IF prev[b] = NULL THEN b = HeadOf(b)
             ELSE /\ b # HeadOf(b) /\ prev[b] \in live
                  /\ next[prev[b]] = b /\ SameList(b, prev[b])

EndsOK == /\ free_block_head # NULL => free[free_block_head] > 0
          /\ free_block_tail # NULL => free[free_block_tail] > 0
          /\ full_block_head # NULL => free[full_block_head] = 0
          /\ full_block_tail # NULL => free[full_block_tail] = 0
          /\ free_block_head = NULL <=> free_block_tail = NULL
          /\ full_block_head = NULL <=> full_block_tail = NULL

LinksConsistent ==
    phase = "live" => EndsOK /\ \A b \in live : NextOK(b) /\ PrevOK(b)

Sized == phase = "live" => /\ block_capacity > 0
                           /\ \A b \in live : capacity[b] > 0

\* Nothing is allocated before mys_pool_create2.
Fresh == phase = "none" =>
             /\ live = {} /\ held = {}
             /\ free_block_head = NULL /\ free_block_tail = NULL
             /\ full_block_head = NULL /\ full_block_tail = NULL

IInv == TypeOK /\ ObjectsPartitioned /\ LinksConsistent /\ Sized /\ Fresh

-----------------------------------------------------------------------------
\* A stack of c - 1 different objects of a block of c leaves out just one.
LEMMA OneMissing ==
    ASSUME NEW c \in Nat, c > 0, NEW s \in Seq(Nat), Len(s) = c - 1,
           \A k \in 1 .. c - 1 : s[k] \in 1 .. c,
           \A k, l \in 1 .. c - 1 : s[k] = s[l] => k = l,
           NEW i \in 1 .. c, \A k \in 1 .. c - 1 : s[k] # i,
           NEW j \in 1 .. c, j # i
    PROVE  \E k \in 1 .. c - 1 : s[k] = j
<1> DEFINE f == [k \in 1 .. c |-> IF k < c THEN s[k] ELSE i]
<1>1. f \in Injection(1 .. c, 1 .. c)
  <2>1. f \in [1 .. c -> 1 .. c]
    OBVIOUS
  <2>2. ASSUME NEW k \in 1 .. c, NEW l \in 1 .. c, f[k] = f[l] PROVE k = l
    BY <2>2
  <2>3. QED
    BY <2>1, <2>2 DEF Injection, IsInjective
<1>2. IsFiniteSet(1 .. c)
  BY FS_Interval
<1>3. f \in Surjection(1 .. c, 1 .. c)
  BY <1>1, <1>2, FS_Injection
<1>4. PICK k \in 1 .. c : f[k] = j
  BY <1>3 DEF Surjection
<1>5. k \in 1 .. c - 1 /\ s[k] = j
  BY <1>4
<1>6. QED
  BY <1>5

\* The invariant holds before the pool is created.
LEMMA InitIInv == Init => IInv
<1> SUFFICES ASSUME Init PROVE IInv
  OBVIOUS
<1>1. free_objects \in [Blocks -> Seq(Nat)]
  BY DEF Init
<1>2. TypeOK
  BY <1>1 DEF Init, TypeOK, Phases, BlockOrNull
<1>3. phase # "live" /\ Fresh
  BY DEF Init, Fresh
<1>4. QED
  BY <1>2, <1>3 DEF IInv, ObjectsPartitioned, LinksConsistent, Sized

\* mys_pool_create.
LEMMA CreateKeeps == ASSUME IInv, Create PROVE IInv'
<1>1. TypeOK'
  BY PoolAssumption DEF Create, IInv, TypeOK, lists, Phases, BlockOrNull
<1>2. live' = {} /\ held' = {} /\ phase' = "live"
  BY DEF Create, IInv, Fresh
<1>3. ObjectsPartitioned' /\ Sized' /\ Fresh'
  BY <1>2, PoolAssumption DEF Create, ObjectsPartitioned, Sized, Fresh
<1>4. LinksConsistent'
  BY <1>2 DEF Create, IInv, Fresh, LinksConsistent, EndsOK, lists
<1>5. QED
  BY <1>1, <1>3, <1>4 DEF IInv

\* A new block is put in front of the free list.
LEMMA AllocateKeeps ==
    ASSUME IInv, NEW b \in Blocks, AllocateBlock(b) PROVE IInv'
<1>1. phase = "live" /\ phase' = "live" /\ b \notin live /\ live' = live \cup {b}
  BY DEF AllocateBlock
<1>2. block_capacity \in Nat /\ block_capacity > 0
  BY <1>1 DEF IInv, TypeOK, Sized
<1>3. TypeOK'
  <2>1. [i \in 1 .. block_capacity |-> i] \in Seq(Nat)
    BY <1>2
  <2>2. /\ capacity' \in [Blocks -> Nat] /\ free' \in [Blocks -> Nat]
        /\ acquired_count' \in [Blocks -> Nat] /\ free_objects' \in [Blocks -> Seq(Nat)]
    <3>1. /\ capacity \in [Blocks -> Nat] /\ free \in [Blocks -> Nat]
          /\ acquired_count \in [Blocks -> Nat] /\ free_objects \in [Blocks -> Seq(Nat)]
      BY DEF IInv, TypeOK
    <3>2. capacity' \in [Blocks -> Nat] /\ free' \in [Blocks -> Nat]
      BY <1>2, <3>1 DEF AllocateBlock
    <3>3. acquired_count' \in [Blocks -> Nat]
      BY <3>1 DEF AllocateBlock
    <3>4. free_objects' \in [Blocks -> Seq(Nat)]
      BY <2>1, <3>1 DEF AllocateBlock
    <3>5. QED
      BY <3>2, <3>3, <3>4
  <2>3. prev' \in [Blocks -> BlockOrNull] /\ next' \in [Blocks -> BlockOrNull]
    BY DEF AllocateBlock, IInv, TypeOK, BlockOrNull
  <2>4. {free_block_head, free_block_tail, full_block_head, full_block_tail}'
            \subseteq live' \cup {NULL}
    BY DEF AllocateBlock, IInv, TypeOK
  <2>5. block_capacity' \in Nat
    BY <1>2 DEF AllocateBlock
  <2>6. /\ phase' \in Phases /\ acquiring' \in BOOLEAN
        /\ live' \in SUBSET Blocks /\ held' \subseteq Blocks \X Nat
    BY <1>1 DEF AllocateBlock, IInv, TypeOK
  <2>7. QED
    BY <2>2, <2>3, <2>4, <2>5, <2>6 DEF TypeOK
<1>4. Sized' /\ Fresh'
  <2>1. block_capacity' > 0
    BY <1>2 DEF AllocateBlock
  <2>2. \A x \in live' : capacity'[x] > 0
    BY <1>1, <1>2 DEF AllocateBlock, IInv, TypeOK, Sized
  <2>3. QED
    BY <1>1, <2>1, <2>2 DEF Sized, Fresh
<1>5. ObjectsPartitioned'
  <2>1. \A o \in held : o[1] \in live /\ o[2] \in 1 .. capacity[o[1]]
    BY <1>1 DEF IInv, ObjectsPartitioned
  <2>2. UNCHANGED held /\ capacity' = [capacity EXCEPT ![b] = block_capacity]
    BY DEF AllocateBlock
  <2>3. \A o \in held' : o[1] \in live' /\ o[2] \in 1 .. capacity'[o[1]]
    BY <1>1, <2>1, <2>2 DEF IInv, TypeOK
  <2>4. ASSUME NEW c \in live PROVE BlockPartitioned(c)'
    <3>1. BlockPartitioned(c)
      BY <1>1 DEF IInv, ObjectsPartitioned
    <3>2. /\ free'[c] = free[c] /\ capacity'[c] = capacity[c]
          /\ free_objects'[c] = free_objects[c]
      BY <1>1 DEF AllocateBlock, IInv, TypeOK
    <3>3. QED
      BY <2>2, <3>1, <3>2 DEF BlockPartitioned
  <2>5. BlockPartitioned(b)'
    <3>1. /\ free'[b] = block_capacity /\ capacity'[b] = block_capacity
          /\ free_objects'[b] = [i \in 1 .. block_capacity |-> i]
      BY DEF AllocateBlock, IInv, TypeOK
    <3>2. \A i : <<b, i>> \notin held'
      BY <1>1, <2>1, <2>2
    <3>3. QED
      BY <1>2, <3>1, <3>2 DEF BlockPartitioned
  <2>6. QED
    BY <1>1, <2>3, <2>4, <2>5 DEF ObjectsPartitioned
<1>6. LinksConsistent'
  <2>1. free' = [free EXCEPT ![b] = block_capacity] /\ free \in [Blocks -> Nat]
    BY DEF AllocateBlock, IInv, TypeOK
  <2>2. /\ free_block_head = NULL /\ free_block_tail = NULL
        /\ free_block_head' = b /\ free_block_tail' = b
        /\ UNCHANGED <<full_block_head, full_block_tail>>
    BY <1>1 DEF AllocateBlock, IInv, LinksConsistent, EndsOK
  <2>3. \A x \in Blocks : /\ prev'[x] = (IF x = b THEN NULL ELSE prev[x])
                          /\ next'[x] = (IF x = b THEN NULL ELSE next[x])
    BY <2>2, PoolAssumption DEF AllocateBlock, IInv, TypeOK
  <2>4. EndsOK'
    BY <1>1, <1>2, <2>1, <2>2, PoolAssumption DEF IInv, LinksConsistent, EndsOK, TypeOK
  <2>5. ASSUME NEW c \in live PROVE (NextOK(c) /\ PrevOK(c))'
    <3>1. NextOK(c) /\ PrevOK(c) /\ c # b /\ c \in Blocks /\ live \subseteq Blocks
      BY <1>1 DEF IInv, LinksConsistent, TypeOK
    <3>2. NextOK(c)'
      BY <1>1, <2>1, <2>2, <2>3, <3>1, PoolAssumption DEF NextOK, TailOf, SameList
    <3>3. PrevOK(c)'
      BY <1>1, <2>1, <2>2, <2>3, <3>1, PoolAssumption DEF PrevOK, HeadOf, SameList
    <3>4. QED
      BY <3>2, <3>3
  <2>6. (NextOK(b) /\ PrevOK(b))'
    BY <1>2, <2>1, <2>2, <2>3 DEF NextOK, PrevOK, TailOf, HeadOf
  <2>7. QED
    BY <1>1, <2>4, <2>5, <2>6 DEF LinksConsistent
<1>7. QED
  BY <1>3, <1>4, <1>5, <1>6 DEF IInv

\* A call that rewires nothing and changes no block between empty and not
\* empty keeps the links consistent.
LEMMA SameLinks ==
    ASSUME IInv, UNCHANGED <<phase, live, lists>>,
           free' \in [Blocks -> Nat],
           \A c \in live : free'[c] > 0 <=> free[c] > 0
    PROVE  LinksConsistent'
<1> SUFFICES ASSUME phase = "live" PROVE LinksConsistent'
  BY DEF LinksConsistent
<1>1. EndsOK /\ free \in [Blocks -> Nat] /\ live \subseteq Blocks
      /\ {free_block_head, free_block_tail, full_block_head, full_block_tail}
             \subseteq live \cup {NULL}
  BY DEF IInv, LinksConsistent, TypeOK
<1>2. EndsOK'
  BY <1>1 DEF EndsOK, lists
<1>3. ASSUME NEW c \in live PROVE (NextOK(c) /\ PrevOK(c))'
  <2>1. NextOK(c) /\ PrevOK(c)
    BY DEF IInv, LinksConsistent
  <2>2. NextOK(c)' /\ PrevOK(c)'
    BY <2>1 DEF NextOK, PrevOK, HeadOf, TailOf, SameList, lists
  <2>3. QED
    BY <2>2
<1>4. QED
  BY <1>2, <1>3 DEF LinksConsistent

\* A block whose objects did not move stays partitioned.
LEMMA BlockUntouched ==
    ASSUME NEW c, BlockPartitioned(c), free'[c] = free[c],
           free_objects'[c] = free_objects[c], capacity'[c] = capacity[c],
           \A i \in 1 .. capacity[c] : <<c, i>> \in held' <=> <<c, i>> \in held
    PROVE  BlockPartitioned(c)'
BY DEF BlockPartitioned

\* The tail of a sequence misses what the sequence misses from its second
\* element on.
LEMMA TailMisses ==
    ASSUME NEW s \in Seq(Nat), s # <<>>, NEW i
    PROVE  (\A k \in 1 .. Len(s) - 1 : Tail(s)[k] # i) <=> (\A k \in 2 .. Len(s) : s[k] # i)
<1>1. Len(s) \in Nat /\ \A k \in 1 .. Len(s) - 1 : Tail(s)[k] = s[k + 1]
  OBVIOUS
<1>2. ASSUME \A k \in 1 .. Len(s) - 1 : Tail(s)[k] # i, NEW k \in 2 .. Len(s)
      PROVE  s[k] # i
  <2>1. k - 1 \in 1 .. Len(s) - 1 /\ (k - 1) + 1 = k
    BY <1>1
  <2>2. Tail(s)[k - 1] = s[k]
    BY <1>1, <2>1
  <2>3. QED
    BY <1>2, <2>1, <2>2
<1>3. ASSUME \A k \in 2 .. Len(s) : s[k] # i, NEW k \in 1 .. Len(s) - 1
      PROVE  Tail(s)[k] # i
  BY <1>1, <1>3
<1>4. QED
  BY <1>2, <1>3

\* Taking the first object of a block's stack: it moves from the stack to the
\* client.
LEMMA TakeKeepsPartition ==
    ASSUME IInv, phase = "live", NEW b \in live, free_objects[b] # <<>>,
           UNCHANGED <<phase, live, capacity>>,
           held' = held \cup {<<b, Head(free_objects[b])>>},
           free_objects' = [free_objects EXCEPT ![b] = Tail(@)],
           free' = [free EXCEPT ![b] = @ - 1]
    PROVE  /\ ObjectsPartitioned'
           /\ free[b] > 0 /\ free' \in [Blocks -> Nat]
           /\ free_objects' \in [Blocks -> Seq(Nat)] /\ held' \subseteq Blocks \X Nat
<1> DEFINE s == free_objects[b]
<1>1. /\ free \in [Blocks -> Nat] /\ capacity \in [Blocks -> Nat] /\ b \in Blocks
      /\ live \subseteq Blocks
      /\ free_objects \in [Blocks -> Seq(Nat)] /\ held \subseteq Blocks \X Nat
  BY DEF IInv, TypeOK
<1>2. BlockPartitioned(b) /\ s \in Seq(Nat) /\ s # <<>>
  BY <1>1 DEF IInv, ObjectsPartitioned
<1>3. Len(s) \in Nat /\ Len(s) > 0 /\ free[b] = Len(s)
  BY <1>2 DEF BlockPartitioned
<1>4. /\ Head(s) = s[1] /\ Tail(s) \in Seq(Nat) /\ Len(Tail(s)) = Len(s) - 1
      /\ \A k \in 1 .. Len(s) - 1 : Tail(s)[k] = s[k + 1]
  BY <1>2, <1>3
<1>5. Head(s) \in 1 .. capacity[b]
  BY <1>2, <1>3, <1>4 DEF BlockPartitioned
<1>6. /\ free' \in [Blocks -> Nat] /\ free'[b] = Len(s) - 1
      /\ free_objects' \in [Blocks -> Seq(Nat)] /\ free_objects'[b] = Tail(s)
      /\ held' \subseteq Blocks \X Nat
  BY <1>1, <1>3, <1>4, <1>5
<1>7. \A o \in held' : o[1] \in live /\ o[2] \in 1 .. capacity[o[1]]
  BY <1>4, <1>5 DEF IInv, ObjectsPartitioned
<1>8. BlockPartitioned(b)'
  <2>1. \A k \in 1 .. free'[b] : free_objects'[b][k] = s[k + 1] /\ k + 1 \in 1 .. free[b]
    BY <1>3, <1>4, <1>6
  <2>2. /\ free'[b] = Len(free_objects'[b])
        /\ \A k \in 1 .. free'[b] : free_objects'[b][k] \in 1 .. capacity[b]
        /\ \A k, l \in 1 .. free'[b] : free_objects'[b][k] = free_objects'[b][l] => k = l
    BY <1>2, <1>3, <1>4, <1>6, <2>1 DEF BlockPartitioned
  <2>3. ASSUME NEW i \in 1 .. capacity[b]
        PROVE  <<b, i>> \in held' <=> \A k \in 1 .. free'[b] : free_objects'[b][k] # i
    <3>1. <<b, i>> \in held' <=> <<b, i>> \in held \/ i = s[1]
      BY <1>4
    <3>2. <<b, i>> \in held <=> \A k \in 1 .. Len(s) : s[k] # i
      BY <1>2, <1>3 DEF BlockPartitioned
    <3>3. \A k, l \in 1 .. Len(s) : s[k] = s[l] => k = l
      BY <1>2, <1>3 DEF BlockPartitioned
    <3>4. (\A k \in 1 .. free'[b] : free_objects'[b][k] # i)
             <=> \A k \in 2 .. Len(s) : s[k] # i
      BY <1>2, <1>6, TailMisses
    <3>5. (\A k \in 1 .. Len(s) : s[k] # i) => \A k \in 2 .. Len(s) : s[k] # i
      BY <1>3
    <3>6. i = s[1] => \A k \in 2 .. Len(s) : s[k] # i
      BY <1>3, <3>3
    <3>7. i # s[1] /\ (\A k \in 2 .. Len(s) : s[k] # i) => \A k \in 1 .. Len(s) : s[k] # i
      BY <1>3
    <3>8. QED
      BY <3>1, <3>2, <3>4, <3>5, <3>6, <3>7, Zenon
  <2>4. QED
    BY <2>2, <2>3 DEF BlockPartitioned
<1>9. ASSUME NEW c \in live, c # b PROVE BlockPartitioned(c)'
  <2>1. BlockPartitioned(c) /\ free'[c] = free[c] /\ free_objects'[c] = free_objects[c]
    BY <1>1, <1>9 DEF IInv, ObjectsPartitioned
  <2>2. \A i \in 1 .. capacity[c] : <<c, i>> \in held' <=> <<c, i>> \in held
    BY <1>9
  <2>3. QED
    BY <2>1, <2>2, BlockUntouched
<1>10. QED
  BY <1>3, <1>6, <1>7, <1>8, <1>9 DEF ObjectsPartitioned

\* An object of the first free block is handed out; a block that is then full
\* moves to the other list.
LEMMA AcquireKeeps == ASSUME IInv, Acquire PROVE IInv'
<1> DEFINE b == free_block_head
<1>1. /\ phase = "live" /\ b # NULL /\ free_objects[b] # <<>>
      /\ UNCHANGED <<phase, block_capacity, live, capacity>>
      /\ held' = held \cup {<<b, Head(free_objects[b])>>}
      /\ free_objects' = [free_objects EXCEPT ![b] = Tail(@)]
      /\ free' = [free EXCEPT ![b] = @ - 1]
      /\ acquired_count' = [acquired_count EXCEPT ![b] = @ + 1]
      /\ acquiring' = FALSE
      /\ PopLinks(b)
  BY DEF Acquire
<1>2. b \in live /\ b \in Blocks /\ NULL \notin Blocks /\ live \subseteq Blocks
  BY <1>1, PoolAssumption DEF IInv, TypeOK
<1>3. /\ ObjectsPartitioned' /\ free[b] > 0 /\ free' \in [Blocks -> Nat]
      /\ free_objects' \in [Blocks -> Seq(Nat)] /\ held' \subseteq Blocks \X Nat
  BY <1>1, <1>2, TakeKeepsPartition
<1>4. EndsOK /\ NextOK(b) /\ prev[b] = NULL
  BY <1>1, <1>2, <1>3 DEF IInv, LinksConsistent, PrevOK, HeadOf
<1>5. /\ prev \in [Blocks -> BlockOrNull] /\ next \in [Blocks -> BlockOrNull]
      /\ free \in [Blocks -> Nat]
      /\ {free_block_head, free_block_tail, full_block_head, full_block_tail}
             \subseteq live \cup {NULL}
  BY DEF IInv, TypeOK
<1>6. CASE free[b] > 1
  <2>1. UNCHANGED lists
    BY <1>1, <1>6 DEF PopLinks
  <2>2. LinksConsistent'
    <3>1. \A c \in live : free'[c] > 0 <=> free[c] > 0
      BY <1>1, <1>2, <1>5, <1>6
    <3>2. QED
      BY <1>1, <1>3, <2>1, <3>1, SameLinks
  <2>3. TypeOK'
    <3>1. acquired_count' \in [Blocks -> Nat]
      BY <1>1, <1>2 DEF IInv, TypeOK
    <3>2. QED
      BY <1>1, <1>3, <2>1, <3>1 DEF IInv, TypeOK, lists
  <2>4. QED
    BY <1>1, <1>3, <2>2, <2>3 DEF IInv, Sized, Fresh
<1>7. CASE free[b] = 1
  <2>1. /\ free_block_head' = next[b]
        /\ free_block_tail' = IF next[b] = NULL THEN NULL ELSE free_block_tail
        /\ full_block_head' = IF full_block_tail = NULL THEN b ELSE full_block_head
        /\ full_block_tail' = b
        /\ \A x \in Blocks :
             /\ next'[x] = (IF x = b THEN NULL ELSE IF x = full_block_tail THEN b ELSE next[x])
             /\ prev'[x] = (IF x = b THEN full_block_tail
                            ELSE IF x = next[b] THEN NULL ELSE prev[x])
        /\ next' \in [Blocks -> BlockOrNull] /\ prev' \in [Blocks -> BlockOrNull]
    <3>1. ~(free[b] > 1) /\ PopLinks(b)
      BY <1>1, <1>7
    <3>2. /\ free_block_head' = next[b]
          /\ free_block_tail' = IF next[b] = NULL THEN NULL ELSE free_block_tail
          /\ full_block_head' = IF full_block_tail = NULL THEN b ELSE full_block_head
          /\ full_block_tail' = b
          /\ next' = [x \in Blocks |-> IF x = b THEN NULL
                                       ELSE IF x = full_block_tail THEN b ELSE next[x]]
          /\ prev' = [x \in Blocks |-> IF x = b THEN full_block_tail
                                       ELSE IF x = next[b] THEN NULL ELSE prev[x]]
      BY <3>1, Zenon DEF PopLinks
    <3>3. QED
      BY <3>2, <1>2, <1>5 DEF BlockOrNull
  <2>2. \A c \in Blocks : free'[c] = IF c = b THEN 0 ELSE free[c]
    BY <1>1, <1>5, <1>7
  <2>3. /\ next[b] # NULL => /\ next[b] \in live /\ next[b] # b /\ free[next[b]] > 0
                             /\ prev[next[b]] = b /\ b # free_block_tail
        /\ next[b] = NULL => b = free_block_tail
    BY <1>2, <1>3, <1>4, <1>5 DEF NextOK, SameList, TailOf
  <2>4. /\ full_block_tail # NULL => /\ full_block_tail \in live /\ full_block_tail # b
                                     /\ free[full_block_tail] = 0
                                     /\ next[full_block_tail] = NULL
        /\ full_block_tail = NULL <=> full_block_head = NULL
        /\ full_block_head # b
    BY <1>1, <1>2, <1>3, <1>4, <1>5 DEF EndsOK, IInv, LinksConsistent, NextOK, TailOf
  <2>5. TypeOK'
    <3>1. acquired_count' \in [Blocks -> Nat]
      BY <1>1, <1>2 DEF IInv, TypeOK
    <3>2. {free_block_head, free_block_tail, full_block_head, full_block_tail}'
             \subseteq live' \cup {NULL}
      BY <1>1, <1>2, <1>5, <2>1, <2>3
    <3>3. QED
      BY <1>1, <1>3, <2>1, <3>1, <3>2 DEF IInv, TypeOK
  <2>6. EndsOK'
    BY <1>2, <1>4, <1>5, <1>7, <2>1, <2>2, <2>3, <2>4 DEF EndsOK
  <2>7. ASSUME NEW c \in live PROVE NextOK(c)' /\ PrevOK(c)'
    <3>1. NextOK(c) /\ PrevOK(c) /\ c \in Blocks /\ live' = live /\ c # NULL
      BY <1>1, <1>2 DEF IInv, LinksConsistent
    <3>2. NextOK(c)'
      BY <1>2, <1>4, <1>5, <1>7, <2>1, <2>2, <2>3, <2>4, <3>1
      DEF NextOK, PrevOK, TailOf, HeadOf, SameList
    <3>3. PrevOK(c)'
      <4>1. CASE c = b
        <5>1. prev'[c] = full_block_tail /\ free'[c] = 0
          BY <2>1, <2>2, <3>1, <4>1
        <5>2. full_block_tail = NULL => c = full_block_head'
          BY <2>1, <4>1
        <5>3. full_block_tail # NULL => /\ c # full_block_head' /\ full_block_tail \in live
                                        /\ next'[full_block_tail] = c
                                        /\ free'[full_block_tail] = 0
          BY <1>2, <1>5, <2>1, <2>2, <2>4, <4>1
        <5>4. QED
          BY <3>1, <5>1, <5>2, <5>3 DEF PrevOK, HeadOf, SameList
      <4>2. CASE c = next[b]
        BY <1>2, <2>1, <2>2, <2>3, <3>1, <4>2 DEF PrevOK, HeadOf
      <4>3. CASE c # b /\ c # next[b]
        <5>1. prev[c] = NULL => c = HeadOf(c)'
          BY <1>2, <2>1, <2>2, <2>4, <3>1, <4>3 DEF PrevOK, HeadOf
        <5>2. ASSUME prev[c] # NULL
              PROVE  /\ c # HeadOf(c)' /\ prev[c] \in live
                     /\ next'[prev[c]] = c /\ free'[prev[c]] = free[prev[c]]
                     /\ SameList(c, prev[c])
          BY <1>2, <2>1, <2>2, <2>4, <3>1, <4>3, <5>2 DEF PrevOK, HeadOf, SameList
        <5>3. QED
          BY <2>1, <2>2, <3>1, <4>3, <5>1, <5>2 DEF PrevOK, SameList
      <4>4. QED
        BY <4>1, <4>2, <4>3
    <3>4. QED
      BY <3>2, <3>3
  <2>8. LinksConsistent'
    BY <1>1, <2>6, <2>7 DEF LinksConsistent
  <2>9. QED
    BY <1>1, <1>3, <2>5, <2>8 DEF IInv, Sized, Fresh
<1>8. QED
  BY <1>3, <1>5, <1>6, <1>7, <1>2

\* Pushing a held object back on its block's stack: it moves from the client
\* to the stack.
LEMMA GiveKeepsPartition ==
    ASSUME IInv, phase = "live", NEW b, NEW i, <<b, i>> \in held,
           UNCHANGED <<phase, live, capacity>>,
           held' = held \ {<<b, i>>},
           free_objects' = [free_objects EXCEPT ![b] = <<i>> \o @],
           free' = [free EXCEPT ![b] = @ + 1]
    PROVE  /\ ObjectsPartitioned' /\ b \in live
           /\ free' \in [Blocks -> Nat]
           /\ free_objects' \in [Blocks -> Seq(Nat)] /\ held' \subseteq Blocks \X Nat
<1> DEFINE s == free_objects[b]
<1>1. /\ free \in [Blocks -> Nat] /\ capacity \in [Blocks -> Nat]
      /\ live \subseteq Blocks
      /\ free_objects \in [Blocks -> Seq(Nat)] /\ held \subseteq Blocks \X Nat
  BY DEF IInv, TypeOK
<1>2. b \in live /\ i \in 1 .. capacity[b] /\ b \in Blocks /\ BlockPartitioned(b)
  BY <1>1 DEF IInv, ObjectsPartitioned
<1>3. s \in Seq(Nat) /\ Len(s) \in Nat /\ free[b] = Len(s) /\ i \in Nat
  BY <1>1, <1>2 DEF BlockPartitioned
<1>4. /\ <<i>> \o s \in Seq(Nat) /\ Len(<<i>> \o s) = Len(s) + 1
      /\ (<<i>> \o s)[1] = i
      /\ \A k \in 1 .. Len(s) : (<<i>> \o s)[k + 1] = s[k]
  BY <1>3
<1> DEFINE t == <<i>> \o s
<1>5. /\ free' \in [Blocks -> Nat] /\ free'[b] = Len(s) + 1
      /\ free_objects' \in [Blocks -> Seq(Nat)] /\ free_objects'[b] = t
      /\ held' \subseteq Blocks \X Nat
  BY <1>1, <1>2, <1>3, <1>4
<1>6. \A o \in held' : o[1] \in live /\ o[2] \in 1 .. capacity[o[1]]
  BY DEF IInv, ObjectsPartitioned
<1>7. \A k \in 1 .. Len(s) + 1 :
         \/ k = 1 /\ t[k] = i
         \/ k - 1 \in 1 .. Len(s) /\ t[k] = s[k - 1]
  <2>1. ASSUME NEW k \in 1 .. Len(s) + 1, k # 1
        PROVE  k - 1 \in 1 .. Len(s) /\ t[k] = s[k - 1]
    <3>1. k - 1 \in 1 .. Len(s) /\ (k - 1) + 1 = k
      BY <1>3, <2>1
    <3>2. QED
      BY <1>4, <3>1
  <2>2. QED
    BY <1>4, <2>1
<1>8. /\ \A k \in 1 .. Len(s) : s[k] \in 1 .. capacity[b] /\ s[k] # i
      /\ \A k, l \in 1 .. Len(s) : s[k] = s[l] => k = l
  BY <1>2, <1>3 DEF BlockPartitioned
<1>9. BlockPartitioned(b)'
  <2> HIDE DEF t
  <2>1. /\ free'[b] = Len(free_objects'[b])
        /\ \A k \in 1 .. free'[b] : free_objects'[b][k] \in 1 .. capacity[b]
    BY <1>2, <1>3, <1>4, <1>5, <1>7, <1>8 DEF t
  <2>2. \A k, l \in 1 .. free'[b] : free_objects'[b][k] = free_objects'[b][l] => k = l
    <3>1. ASSUME NEW k \in 1 .. Len(s) + 1, NEW l \in 1 .. Len(s) + 1, t[k] = t[l]
          PROVE  k = l
      <4>1. CASE k = 1 /\ l = 1
        BY <4>1
      <4>2. CASE k = 1 /\ l # 1
        BY <1>4, <1>7, <1>8, <3>1, <4>2 DEF t
      <4>3. CASE k # 1 /\ l = 1
        BY <1>4, <1>7, <1>8, <3>1, <4>3 DEF t
      <4>4. CASE k # 1 /\ l # 1
        <5>1. /\ k - 1 \in 1 .. Len(s) /\ l - 1 \in 1 .. Len(s)
              /\ s[k - 1] = s[l - 1]
          BY <1>7, <3>1, <4>4
        <5>2. k - 1 = l - 1
          BY <1>8, <5>1
        <5>3. QED
          BY <1>3, <5>2
      <4>5. QED
        BY <4>1, <4>2, <4>3, <4>4
    <3>2. QED
      BY <1>5, <3>1
  <2>3. ASSUME NEW j \in 1 .. capacity[b]
        PROVE  <<b, j>> \in held' <=> \A k \in 1 .. free'[b] : free_objects'[b][k] # j
    <3>1. <<b, j>> \in held' <=> <<b, j>> \in held /\ j # i
      OBVIOUS
    <3>2. <<b, j>> \in held <=> \A k \in 1 .. Len(s) : s[k] # j
      BY <1>2, <1>3 DEF BlockPartitioned
    <3>3. (\A k \in 1 .. Len(s) + 1 : t[k] # j)
             <=> i # j /\ \A k \in 1 .. Len(s) : s[k] # j
      <4>1. ASSUME \A k \in 1 .. Len(s) + 1 : t[k] # j
            PROVE  i # j /\ \A k \in 1 .. Len(s) : s[k] # j
        <5>1. 1 \in 1 .. Len(s) + 1
          BY <1>3
        <5>2. \A k \in 1 .. Len(s) : k + 1 \in 1 .. Len(s) + 1
          BY <1>3
        <5>3. t[1] = i /\ \A k \in 1 .. Len(s) : t[k + 1] = s[k]
          BY <1>4 DEF t
        <5>4. QED
          BY <4>1, <5>1, <5>2, <5>3
      <4>2. ASSUME i # j, \A k \in 1 .. Len(s) : s[k] # j
            PROVE  \A k \in 1 .. Len(s) + 1 : t[k] # j
        BY <1>7, <4>2
      <4>3. QED
        BY <4>1, <4>2
    <3>4. QED
      BY <1>5, <3>1, <3>2, <3>3
  <2>4. QED
    BY <2>1, <2>2, <2>3 DEF BlockPartitioned
<1>10. ASSUME NEW c \in live, c # b PROVE BlockPartitioned(c)'
  <2>1. BlockPartitioned(c) /\ free'[c] = free[c] /\ free_objects'[c] = free_objects[c]
    BY <1>1, <1>10 DEF IInv, ObjectsPartitioned
  <2>2. \A j \in 1 .. capacity[c] : <<c, j>> \in held' <=> <<c, j>> \in held
    BY <1>10
  <2>3. QED
    BY <2>1, <2>2, BlockUntouched
<1>11. QED
  BY <1>2, <1>5, <1>6, <1>9, <1>10 DEF ObjectsPartitioned

\* The move of a full block to the free list.
LEMMA ToFreeListKeeps ==
    ASSUME IInv, phase = "live", NEW b \in live, free[b] = 0, ToFreeList(b),
           UNCHANGED <<phase, live>>,
           free' = [free EXCEPT ![b] = @ + 1]
    PROVE  /\ LinksConsistent'
           /\ next' \in [Blocks -> BlockOrNull] /\ prev' \in [Blocks -> BlockOrNull]
           /\ {free_block_head, free_block_tail, full_block_head, full_block_tail}'
                  \subseteq live \cup {NULL}
<1>1. /\ prev \in [Blocks -> BlockOrNull] /\ next \in [Blocks -> BlockOrNull]
      /\ free \in [Blocks -> Nat] /\ b \in Blocks /\ NULL \notin Blocks
      /\ live \subseteq Blocks
      /\ {free_block_head, free_block_tail, full_block_head, full_block_tail}
             \subseteq live \cup {NULL}
  BY PoolAssumption DEF IInv, TypeOK
<1>2. EndsOK /\ \A c \in live : NextOK(c) /\ PrevOK(c)
  BY DEF IInv, LinksConsistent
<1>3. /\ full_block_head' = IF prev[b] = NULL THEN next[b] ELSE full_block_head
      /\ full_block_tail' = IF next[b] = NULL THEN prev[b] ELSE full_block_tail
      /\ free_block_tail' = IF free_block_head = NULL THEN b ELSE free_block_tail
      /\ free_block_head' = b
  BY DEF ToFreeList
<1>4. /\ \A x \in Blocks : next'[x] = IF x = b THEN free_block_head
                                      ELSE IF x = prev[b] THEN next[b] ELSE next[x]
      /\ \A x \in Blocks : prev'[x] = IF x = b THEN NULL
                                      ELSE IF x = next[b] THEN prev[b]
                                      ELSE IF x = free_block_head THEN b ELSE prev[x]
      /\ next' \in [Blocks -> BlockOrNull] /\ prev' \in [Blocks -> BlockOrNull]
  BY <1>1 DEF ToFreeList, BlockOrNull
<1>5. \A x \in Blocks : free'[x] = IF x = b THEN 1 ELSE free[x]
  BY <1>1
<1>6. /\ IF next[b] = NULL THEN b = full_block_tail
         ELSE /\ b # full_block_tail /\ next[b] \in live
              /\ prev[next[b]] = b /\ free[next[b]] = 0
      /\ IF prev[b] = NULL THEN b = full_block_head
         ELSE /\ b # full_block_head /\ prev[b] \in live
              /\ next[prev[b]] = b /\ free[prev[b]] = 0
  BY <1>1, <1>2 DEF NextOK, PrevOK, SameList, HeadOf, TailOf
<1>7. /\ free_block_head # NULL => /\ free_block_head \in live /\ free[free_block_head] > 0
                                   /\ free_block_head # b /\ free_block_tail # b
                                   /\ prev[free_block_head] = NULL
                                   /\ free_block_tail \in live
                                   /\ free[free_block_tail] > 0
      /\ free_block_head = NULL <=> free_block_tail = NULL
  BY <1>1, <1>2 DEF EndsOK, PrevOK, HeadOf
<1>8. EndsOK'
  BY <1>1, <1>2, <1>3, <1>5, <1>6, <1>7 DEF EndsOK
<1>9. ASSUME NEW c \in live PROVE (NextOK(c) /\ PrevOK(c))'
  <2>1. c \in Blocks /\ c # NULL /\ NextOK(c) /\ PrevOK(c)
    BY <1>1, <1>2
  <2>2. NextOK(c)'
    <3>1. CASE c = b
      BY <1>1, <1>3, <1>4, <1>5, <1>6, <1>7, <2>1, <3>1 DEF NextOK, TailOf, SameList
    <3>2. CASE c # b /\ c = prev[b]
      BY <1>1, <1>3, <1>4, <1>5, <1>6, <1>7, <2>1, <3>2 DEF NextOK, TailOf, SameList
    <3>3. CASE c # b /\ c # prev[b]
      BY <1>1, <1>3, <1>4, <1>5, <1>6, <1>7, <2>1, <3>3
      DEF NextOK, PrevOK, TailOf, SameList
    <3>4. QED
      BY <3>1, <3>2, <3>3
  <2>3. PrevOK(c)'
    <3>1. CASE c = b
      BY <1>1, <1>3, <1>4, <1>5, <1>6, <1>7, <2>1, <3>1 DEF PrevOK, HeadOf, SameList
    <3>2. CASE c # b /\ c = next[b]
      BY <1>1, <1>3, <1>4, <1>5, <1>6, <1>7, <2>1, <3>2 DEF PrevOK, HeadOf, SameList
    <3>3. CASE c # b /\ c # next[b] /\ c = free_block_head
      BY <1>1, <1>3, <1>4, <1>5, <1>6, <1>7, <2>1, <3>3 DEF PrevOK, HeadOf, SameList
    <3>4. CASE c # b /\ c # next[b] /\ c # free_block_head
      BY <1>1, <1>3, <1>4, <1>5, <1>6, <1>7, <2>1, <3>4
      DEF NextOK, PrevOK, HeadOf, SameList
    <3>5. QED
      BY <3>1, <3>2, <3>3, <3>4
  <2>4. QED
    BY <2>2, <2>3
<1>10. LinksConsistent'
  BY <1>8, <1>9 DEF LinksConsistent
<1>11. QED
  BY <1>1, <1>3, <1>4, <1>6, <1>7, <1>10

\* An object comes back; its block moves to the free list if it was full.
LEMMA ReleaseKeeps ==
    ASSUME IInv, NEW b, NEW i, Release(b, i) PROVE IInv'
<1>1. /\ phase = "live" /\ <<b, i>> \in held
      /\ UNCHANGED <<phase, acquiring, block_capacity, live, capacity, acquired_count>>
      /\ held' = held \ {<<b, i>>}
      /\ free_objects' = [free_objects EXCEPT ![b] = <<i>> \o @]
      /\ free' = [free EXCEPT ![b] = @ + 1]
      /\ IF free[b] + 1 = 1 THEN ToFreeList(b) ELSE UNCHANGED lists
  BY DEF Release
<1>2. /\ ObjectsPartitioned' /\ b \in live
      /\ free' \in [Blocks -> Nat]
      /\ free_objects' \in [Blocks -> Seq(Nat)] /\ held' \subseteq Blocks \X Nat
  BY <1>1, GiveKeepsPartition
<1>3. free \in [Blocks -> Nat] /\ live \subseteq Blocks
  BY DEF IInv, TypeOK
<1>4. CASE free[b] = 0
  <2>1. ToFreeList(b)
    BY <1>1, <1>4
  <2>2. /\ LinksConsistent'
        /\ next' \in [Blocks -> BlockOrNull] /\ prev' \in [Blocks -> BlockOrNull]
        /\ {free_block_head, free_block_tail, full_block_head, full_block_tail}'
               \subseteq live \cup {NULL}
    BY <1>1, <1>2, <1>4, <2>1, ToFreeListKeeps
  <2>3. TypeOK'
    BY <1>1, <1>2, <2>2 DEF IInv, TypeOK
  <2>4. QED
    BY <1>1, <1>2, <2>2, <2>3 DEF IInv, Sized, Fresh
<1>5. CASE free[b] # 0
  <2>1. UNCHANGED lists
    BY <1>1, <1>2, <1>3, <1>5
  <2>2. \A c \in live : free'[c] > 0 <=> free[c] > 0
    BY <1>1, <1>2, <1>3, <1>5
  <2>3. LinksConsistent'
    BY <1>1, <1>2, <2>1, <2>2, SameLinks
  <2>4. TypeOK'
    BY <1>1, <1>2, <2>1 DEF IInv, TypeOK, lists
  <2>5. QED
    BY <1>1, <1>2, <2>3, <2>4 DEF IInv, Sized, Fresh
<1>6. QED
  BY <1>4, <1>5

\* The last object of an idle block comes back: no other object of it is held.
LEMMA LastHeld ==
    ASSUME IInv, phase = "live", NEW b, NEW i, <<b, i>> \in held,
           free[b] + 1 = capacity[b], NEW j, <<b, j>> \in held
    PROVE  j = i
<1> DEFINE s == free_objects[b]
           c == capacity[b]
<1>1. b \in live /\ i \in 1 .. c /\ j \in 1 .. c /\ BlockPartitioned(b)
  BY DEF IInv, ObjectsPartitioned
<1>2. s \in Seq(Nat) /\ c \in Nat /\ free[b] \in Nat
  BY <1>1 DEF IInv, TypeOK
<1>3. c > 0 /\ Len(s) = c - 1 /\ free[b] = c - 1
  <2>1. free[b] = Len(s)
    BY <1>1 DEF BlockPartitioned
  <2>2. c > 0 /\ free[b] = c - 1
    BY <1>1, <1>2
  <2>3. QED
    BY <2>1, <2>2
<1>4. /\ \A k \in 1 .. c - 1 : s[k] \in 1 .. c /\ s[k] # i /\ s[k] # j
      /\ \A k, l \in 1 .. c - 1 : s[k] = s[l] => k = l
  BY <1>1, <1>3 DEF BlockPartitioned
<1> HIDE DEF s, c
<1>5. j # i => \E k \in 1 .. c - 1 : s[k] = j
  BY <1>1, <1>2, <1>3, <1>4, OneMissing
<1>6. QED
  BY <1>4, <1>5

\* Taking a block off whichever list it is on.
LEMMA UnlinkKeeps ==
    ASSUME IInv, phase = "live", NEW b \in live, Unlink(b),
           UNCHANGED phase, live' = live \ {b},
           free' = [free EXCEPT ![b] = 0]
    PROVE  /\ LinksConsistent'
           /\ next' \in [Blocks -> BlockOrNull] /\ prev' \in [Blocks -> BlockOrNull]
           /\ {free_block_head, free_block_tail, full_block_head, full_block_tail}'
                  \subseteq live' \cup {NULL}
<1>1. /\ prev \in [Blocks -> BlockOrNull] /\ next \in [Blocks -> BlockOrNull]
      /\ free \in [Blocks -> Nat] /\ b \in Blocks /\ NULL \notin Blocks
      /\ live \subseteq Blocks
      /\ {free_block_head, free_block_tail, full_block_head, full_block_tail}
             \subseteq live \cup {NULL}
  BY PoolAssumption DEF IInv, TypeOK
<1>2. EndsOK /\ \A c \in live : NextOK(c) /\ PrevOK(c)
  BY DEF IInv, LinksConsistent
<1>3. /\ free_block_head' = IF b = free_block_head THEN next[b] ELSE free_block_head
      /\ free_block_tail' = IF b = free_block_tail THEN prev[b] ELSE free_block_tail
      /\ full_block_head' = IF b = full_block_head THEN next[b] ELSE full_block_head
      /\ full_block_tail' = IF b = full_block_tail THEN prev[b] ELSE full_block_tail
  BY DEF Unlink
<1>4. /\ \A x \in Blocks : next'[x] = IF x = prev[b] THEN next[b] ELSE next[x]
      /\ \A x \in Blocks : prev'[x] = IF x = next[b] THEN prev[b] ELSE prev[x]
      /\ next' \in [Blocks -> BlockOrNull] /\ prev' \in [Blocks -> BlockOrNull]
  BY <1>1 DEF Unlink, BlockOrNull
<1>5. \A x \in Blocks : x # b => free'[x] = free[x]
  BY <1>1
<1>6. NextOK(b) /\ PrevOK(b)
  BY <1>2
<1>7. /\ b = free_block_head => free[b] > 0
      /\ b = free_block_tail => free[b] > 0
      /\ b = full_block_head => free[b] = 0
      /\ b = full_block_tail => free[b] = 0
  BY <1>1, <1>2 DEF EndsOK
<1>8. /\ (b = free_block_head \/ b = full_block_head) => prev[b] = NULL /\ next[b] # b
      /\ (b = free_block_tail \/ b = full_block_tail) => next[b] = NULL /\ prev[b] # b
  BY <1>1, <1>6, <1>7 DEF NextOK, PrevOK, HeadOf, TailOf
<1>9. {free_block_head, free_block_tail, full_block_head, full_block_tail}'
             \subseteq live' \cup {NULL}
  BY <1>1, <1>3, <1>6, <1>8 DEF NextOK, PrevOK
<1>10. EndsOK'
  BY <1>1, <1>2, <1>3, <1>5, <1>6, <1>7, <1>8
  DEF EndsOK, NextOK, PrevOK, HeadOf, TailOf, SameList
<1>11. ASSUME NEW c \in live, c # b PROVE (NextOK(c) /\ PrevOK(c))'
  <2>1. /\ c \in Blocks /\ c # NULL /\ NextOK(c) /\ PrevOK(c)
        /\ free'[c] = free[c]
    BY <1>1, <1>2, <1>5, <1>11
  <2>2. NextOK(c)'
    <3>1. CASE c = prev[b]
      BY <1>1, <1>3, <1>4, <1>5, <1>6, <1>7, <1>11, <2>1, <3>1
      DEF NextOK, PrevOK, HeadOf, TailOf, SameList
    <3>2. CASE c # prev[b]
      BY <1>1, <1>3, <1>4, <1>5, <1>6, <1>7, <1>11, <2>1, <3>2
      DEF NextOK, PrevOK, HeadOf, TailOf, SameList
    <3>3. QED
      BY <3>1, <3>2
  <2>3. PrevOK(c)'
    <3>1. CASE c = next[b]
      BY <1>1, <1>3, <1>4, <1>5, <1>6, <1>7, <1>11, <2>1, <3>1
      DEF NextOK, PrevOK, HeadOf, TailOf, SameList
    <3>2. CASE c # next[b]
      BY <1>1, <1>3, <1>4, <1>5, <1>6, <1>7, <1>11, <2>1, <3>2
      DEF NextOK, PrevOK, HeadOf, TailOf, SameList
    <3>3. QED
      BY <3>1, <3>2
  <2>4. QED
    BY <2>2, <2>3
<1>12. LinksConsistent'
  BY <1>10, <1>11 DEF LinksConsistent
<1>13. QED
  BY <1>4, <1>9, <1>12

\* The last object of a block comes back, and the block is freed.
LEMMA ReleaseAndFreeKeeps ==
    ASSUME IInv, NEW b, NEW i, ReleaseAndFree(b, i) PROVE IInv'
<1>1. /\ phase = "live" /\ <<b, i>> \in held
      /\ UNCHANGED <<phase, acquiring, block_capacity, capacity, acquired_count>>
      /\ held' = held \ {<<b, i>>}
      /\ free_objects' = [free_objects EXCEPT ![b] = <<>>]
      /\ free' = [free EXCEPT ![b] = 0]
      /\ live' = live \ {b}
      /\ Unlink(b)
  BY DEF ReleaseAndFree
<1>2. free[b] + 1 = capacity[b]
  BY DEF ReleaseAndFree, Idle
<1>3. /\ free \in [Blocks -> Nat] /\ live \subseteq Blocks /\ held \subseteq Blocks \X Nat
      /\ free_objects \in [Blocks -> Seq(Nat)]
  BY DEF IInv, TypeOK
<1>4. /\ \A o \in held : o[1] \in live /\ o[2] \in 1 .. capacity[o[1]]
      /\ \A c \in live : BlockPartitioned(c)
      /\ b \in live
  BY <1>1 DEF IInv, ObjectsPartitioned
<1>5. /\ LinksConsistent'
      /\ next' \in [Blocks -> BlockOrNull] /\ prev' \in [Blocks -> BlockOrNull]
      /\ {free_block_head, free_block_tail, full_block_head, full_block_tail}'
             \subseteq live' \cup {NULL}
  BY <1>1, <1>4, UnlinkKeeps
<1>6. ObjectsPartitioned'
  <2>1. \A j : <<b, j>> \notin held'
    BY <1>1, <1>2, LastHeld
  <2>2. \A o \in held' : o[1] \in live' /\ o[2] \in 1 .. capacity'[o[1]]
    <3>1. SUFFICES ASSUME NEW o \in held'
                   PROVE  o[1] \in live' /\ o[2] \in 1 .. capacity'[o[1]]
      OBVIOUS
    <3>2. o \in held /\ o = <<o[1], o[2]>>
      BY <1>1, <1>3
    <3>3. o[1] # b
      BY <2>1, <3>2
    <3>4. QED
      BY <1>1, <1>4, <3>2, <3>3
  <2>3. ASSUME NEW c \in live' PROVE BlockPartitioned(c)'
    <3>1. c \in live /\ c # b /\ c \in Blocks
      BY <1>1, <1>3
    <3>2. /\ free'[c] = free[c] /\ free_objects'[c] = free_objects[c]
          /\ capacity'[c] = capacity[c] /\ BlockPartitioned(c)
      BY <1>1, <1>3, <1>4, <3>1
    <3>3. \A j \in 1 .. capacity[c] : <<c, j>> \in held' <=> <<c, j>> \in held
      BY <1>1, <3>1
    <3>4. QED
      BY <3>2, <3>3, BlockUntouched
  <2>4. QED
    BY <2>2, <2>3 DEF ObjectsPartitioned
<1>7. TypeOK'
  <2>1. free' \in [Blocks -> Nat] /\ held' \subseteq Blocks \X Nat /\ live' \subseteq Blocks
    BY <1>1, <1>3
  <2>2. free_objects' \in [Blocks -> Seq(Nat)]
    <3>1. <<>> \in Seq(Nat)
      OBVIOUS
    <3>2. QED
      BY <1>1, <1>3, <3>1
  <2>3. QED
    BY <1>1, <1>5, <2>1, <2>2 DEF IInv, TypeOK
<1>8. QED
  BY <1>1, <1>5, <1>6, <1>7 DEF IInv, Sized, Fresh

\* mys_pool_destroy.
LEMMA DestroyKeeps == ASSUME IInv, Destroy PROVE IInv'
<1>1. /\ phase' = "destroyed" /\ live' \subseteq live /\ held' = {}
      /\ free_block_head' = NULL /\ free_block_tail' = NULL
      /\ full_block_head' = NULL /\ full_block_tail' = NULL
      /\ UNCHANGED <<acquiring, block_capacity, prev, next, capacity, free,
                     acquired_count, free_objects>>
  BY DEF Destroy
<1>2. TypeOK'
  BY <1>1 DEF IInv, TypeOK, Phases
<1>3. QED
  BY <1>1, <1>2 DEF IInv, ObjectsPartitioned, LinksConsistent, Sized, Fresh

\* A step that changes at most the phase, and then to "crashed".
LEMMA FailureKeeps ==
    ASSUME IInv, phase' = phase \/ phase' = "crashed",
           UNCHANGED <<acquiring, block_capacity, lists, live, capacity, free,
                       acquired_count, free_objects, held>>
    PROVE  IInv'
<1>1. TypeOK'
  BY DEF IInv, TypeOK, lists, Phases
<1>2. Sized' /\ Fresh'
  BY DEF IInv, Sized, Fresh, lists
<1>3. ObjectsPartitioned'
  BY DEF IInv, ObjectsPartitioned, BlockPartitioned
<1>4. LinksConsistent'
  BY DEF IInv, LinksConsistent, EndsOK, NextOK, PrevOK, HeadOf, TailOf, SameList, lists
<1>5. QED
  BY <1>1, <1>2, <1>3, <1>4 DEF IInv

\* The invariant is inductive.
LEMMA NextKeepsIInv == IInv /\ [Next]_vars => IInv'
<1> SUFFICES ASSUME IInv, [Next]_vars PROVE IInv'
  OBVIOUS
<1>1. CASE Create
  BY <1>1, CreateKeeps
<1>2. ASSUME NEW b \in Blocks, AllocateBlock(b) PROVE IInv'
  BY <1>2, AllocateKeeps
<1>3. ASSUME NEW a \in MayFail, AllocationFails(a) PROVE IInv'
  BY <1>3, FailureKeeps DEF AllocationFails
<1>4. CASE Acquire
  BY <1>4, AcquireKeeps
<1>5. ASSUME NEW o \in held, Release(o[1], o[2]) PROVE IInv'
  BY <1>5, ReleaseKeeps
<1>6. ASSUME NEW o \in held, ReleaseAndFree(o[1], o[2]) PROVE IInv'
  BY <1>6, ReleaseAndFreeKeeps
<1>7. CASE Destroy
  BY <1>7, DestroyKeeps
<1>8. CASE UNCHANGED vars
  BY <1>8, FailureKeeps DEF vars
<1>9. QED
  BY <1>1, <1>2, <1>3, <1>4, <1>5, <1>6, <1>7, <1>8 DEF Next

-----------------------------------------------------------------------------
\* The inductive invariant of the pool (pool.c): blocks, objects and the links
\* of the two lists agree in every state.
THEOREM PoolIInvHolds == Spec => []IInv
<1>1. QED
  BY InitIInv, NextKeepsIInv, PTL DEF Spec

\* The pool's pointers point at blocks that are allocated, or nowhere.
THEOREM PoolTypeCorrect == Spec => []TypeOK
<1>1. IInv => TypeOK
  BY DEF IInv
<1>2. QED
  BY <1>1, PoolIInvHolds, PTL

\* No object is handed out twice or lost, and no object the client holds is in
\* a block that mys_pool_release has freed.
THEOREM PoolPartitionsObjects == Spec => []ObjectsPartitioned
<1>1. IInv => ObjectsPartitioned
  BY DEF IInv
<1>2. QED
  BY <1>1, PoolIInvHolds, PTL

\* The links of the two block lists agree in both directions with each other,
\* with the four ends, and with which blocks have a free object.
THEOREM PoolLinksConsistent == Spec => []LinksConsistent
<1>1. IInv => LinksConsistent
  BY DEF IInv
<1>2. QED
  BY <1>1, PoolIInvHolds, PTL

-----------------------------------------------------------------------------
\* Induction over the natural numbers, for a property that is a set.
LEMMA LessIsWellFounded ==
    \E R : IsWellFoundedOn(R, Nat) /\ \A x, y \in Nat : <<y, x>> \in R <=> y < x
<1>1. \A x, y \in Nat : <<y, x>> \in OpToRel(<, Nat) <=> y < x
  BY DEF OpToRel
<1>2. QED
  BY <1>1, NatLessThanWellFounded, Zenon

\* A set of numbers that is not empty has a least one.
LEMMA Least ==
    ASSUME NEW T \in SUBSET Nat, T # {}
    PROVE  \E x \in T : \A y \in T : x <= y
<1>1. PICK R : IsWellFoundedOn(R, Nat) /\ \A x, y \in Nat : <<y, x>> \in R <=> y < x
  BY LessIsWellFounded
<1>2. PICK x \in T : \A y \in T : ~ (<<y, x>> \in R)
  BY <1>1, WFMin
<1>3. ASSUME NEW y \in T PROVE x <= y
  <2>1. x \in Nat /\ y \in Nat
    OBVIOUS
  <2>2. ~ (y < x)
    BY <1>1, <1>2, <2>1
  <2>3. QED
    BY <2>1, <2>2
<1>4. QED
  BY <1>3

\* Induction, for a property that is given as a set.
LEMMA SetInduction ==
    ASSUME NEW S, 0 \in S, \A n \in Nat : n \in S => n + 1 \in S
    PROVE  Nat \subseteq S
<1> DEFINE T == Nat \ S
<1> SUFFICES ASSUME T # {} PROVE FALSE
  OBVIOUS
<1>1. T \in SUBSET Nat
  OBVIOUS
<1> HIDE DEF T
<1>2. PICK x \in T : \A y \in T : x <= y
  BY <1>1, Least
<1> USE DEF T
<1>3. x \in Nat /\ x # 0
  OBVIOUS
<1>4. x - 1 \in Nat /\ ~(x <= x - 1)
  BY <1>3
<1>5. x - 1 \in S
  BY <1>2, <1>4
<1>6. x - 1 + 1 = x
  BY <1>3
<1>7. QED
  BY <1>4, <1>5, <1>6

\* The recursive function of Walk satisfies the equation that defines it.
LEMMA WalkIsFunction ==
    ASSUME NEW link, NEW b, IsFiniteSet(Blocks)
    PROVE  LET N == Cardinality(Blocks) w == Walk(link, b)
           IN  w = [n \in 0 .. N |-> IF n = 0 THEN b ELSE IF w[n - 1] = NULL THEN NULL ELSE link[w[n - 1]]]
<1> DEFINE N == Cardinality(Blocks)
           w == Walk(link, b)
           Def(v, n) == IF v = NULL THEN NULL ELSE link[v]
<1>1. N \in Nat
  BY FS_CardinalityType
<1>2. FiniteNatInductiveDefHypothesis(w, b, Def, 0, N)
  BY DEF FiniteNatInductiveDefHypothesis, Walk
<1>3. FiniteNatInductiveDefConclusion(w, b, Def, 0, N)
  BY <1>1, <1>2, FiniteNatInductiveDef
<1>4. QED
  BY <1>3 DEF FiniteNatInductiveDefConclusion

\* order[1], ..., order[n] are the elements of S, each once: head is the first
\* of them and link leads from each to the one behind it, and from the last to
\* NULL.
InOrder(link, head, S, n, order) ==
    /\ order \in [1 .. n -> S]
    /\ \A b \in S : \E i \in 1 .. n : order[i] = b
    /\ \A i, j \in 1 .. n : order[i] = order[j] => i = j
    /\ head = IF n = 0 THEN NULL ELSE order[1]
    /\ \A i \in 1 .. n : link[order[i]] = IF i = n THEN NULL ELSE order[i + 1]

Listed(link, head, S) == \E n \in Nat : \E order \in [1 .. n -> S] : InOrder(link, head, S, n, order)

\* Walking along the links meets the blocks of the order, and no other.
LEMMA ChainReaches ==
    ASSUME NEW link, NEW head, NEW S \in SUBSET Blocks, Listed(link, head, S)
    PROVE  Chain(link, head) = S
<1> DEFINE N == Cardinality(Blocks)
           w == Walk(link, head)
<1>1. IsFiniteSet(Blocks) /\ NULL \notin Blocks /\ N \in Nat
  BY PoolAssumption, FS_CardinalityType
<1>0. PICK n \in Nat : \E order \in [1 .. n -> S] : InOrder(link, head, S, n, order)
  BY DEF Listed
<1>2. PICK order \in [1 .. n -> S] : InOrder(link, head, S, n, order)
  BY <1>0
<1>3. n <= N
  <2>1. IsFiniteSet(1 .. n) /\ Cardinality(1 .. n) = n
    BY FS_Interval
  <2>2. order \in Injection(1 .. n, Blocks)
    BY <1>2 DEF InOrder, Injection, IsInjective
  <2>3. QED
    BY <1>1, <2>1, <2>2, FS_Injection
<1>4. w = [k \in 0 .. N |-> IF k = 0 THEN head
                          ELSE IF w[k - 1] = NULL THEN NULL ELSE link[w[k - 1]]]
  BY <1>1, WalkIsFunction
<1> DEFINE At(k) == IF k < n THEN order[k + 1] ELSE NULL
<1>5. \A k \in 0 .. N : w[k] = At(k)
  <2> DEFINE Good == {k \in Nat : k \in 0 .. N => w[k] = At(k)}
  <2> HIDE DEF w
  <2>1. 0 \in Good
    BY <1>1, <1>2, <1>4 DEF InOrder
  <2>2. ASSUME NEW k \in Nat, k \in Good PROVE k + 1 \in Good
    <3> SUFFICES ASSUME k + 1 \in 0 .. N PROVE w[k + 1] = At(k + 1)
      OBVIOUS
    <3>1. w[k] = At(k) /\ k \in 0 .. N /\ k + 1 - 1 = k /\ k + 1 # 0
      BY <1>1, <2>2
    <3>2. w[k + 1] = IF w[k] = NULL THEN NULL ELSE link[w[k]]
      BY <1>4, <3>1
    <3>3. CASE k < n
      <4>1. k + 1 \in 1 .. n /\ order[k + 1] \in S /\ order[k + 1] # NULL
        BY <1>1, <1>2, <3>3
      <4>2. w[k + 1] = link[order[k + 1]]
        BY <3>1, <3>2, <3>3, <4>1
      <4>3. QED
        BY <1>2, <4>1, <4>2, <3>3 DEF InOrder
    <3>4. CASE ~ (k < n)
      BY <3>1, <3>2, <3>4
    <3>5. QED
      BY <3>3, <3>4
  <2> HIDE DEF Good
  <2>3. Nat \subseteq Good
    BY <2>1, <2>2, SetInduction
  <2>4. QED
    BY <1>1, <2>3 DEF Good
<1>6. ASSUME NEW b \in S PROVE b \in Chain(link, head)
  <2>1. PICK i \in 1 .. n : order[i] = b
    BY <1>2 DEF InOrder
  <2>2. i - 1 \in 0 .. N /\ i - 1 < n /\ i - 1 + 1 = i
    BY <1>1, <1>3
  <2>3. w[i - 1] = b
    BY <1>5, <2>1, <2>2
  <2>4. QED
    BY <1>1, <2>2, <2>3 DEF Chain
<1>7. ASSUME NEW b \in Chain(link, head) PROVE b \in S
  <2>1. PICK k \in 0 .. N : w[k] = b /\ b # NULL
    BY DEF Chain
  <2>2. k < n /\ b = order[k + 1]
    BY <1>5, <2>1
  <2>3. QED
    BY <1>2, <2>2
<1>8. QED
  BY <1>6, <1>7

\* What a change of the links does to an order.
LEMMA ListedEmpty ==
    ASSUME NEW link
    PROVE  Listed(link, NULL, {})
<1> DEFINE order == [i \in 1 .. 0 |-> NULL]
<1>1. order \in [1 .. 0 -> {}]
  OBVIOUS
<1>2. InOrder(link, NULL, {}, 0, order)
  BY <1>1 DEF InOrder
<1>3. QED
  BY <1>1, <1>2 DEF Listed

\* A list whose links do not change stays one.
LEMMA ListedSame ==
    ASSUME NEW link, NEW head, NEW S, Listed(link, head, S),
           NEW link2, \A x \in S : link2[x] = link[x]
    PROVE  Listed(link2, head, S)
<1>1. PICK n \in Nat : \E order \in [1 .. n -> S] : InOrder(link, head, S, n, order)
  BY DEF Listed
<1>2. PICK order \in [1 .. n -> S] : InOrder(link, head, S, n, order)
  BY <1>1
<1>3. InOrder(link2, head, S, n, order)
  BY <1>2 DEF InOrder
<1>4. QED
  BY <1>3 DEF Listed

\* A block that is put in front of a list makes a list.
LEMMA ListedPush ==
    ASSUME NEW link, NEW head, NEW S \in SUBSET Blocks, Listed(link, head, S),
           NEW b \in Blocks, b \notin S,
           NEW link2, link2[b] = head, \A x \in S : link2[x] = link[x]
    PROVE  Listed(link2, b, S \cup {b})
<1>1. PICK n \in Nat : \E order \in [1 .. n -> S] : InOrder(link, head, S, n, order)
  BY DEF Listed
<1>2. PICK order \in [1 .. n -> S] : InOrder(link, head, S, n, order)
  BY <1>1
<1> DEFINE longer == [i \in 1 .. n + 1 |-> IF i = 1 THEN b ELSE order[i - 1]]
           T == S \cup {b}
<1>3. longer \in [1 .. n + 1 -> T]
  OBVIOUS
<1>4. ASSUME NEW c \in T PROVE \E i \in 1 .. n + 1 : longer[i] = c
  <2>1. CASE c = b
    <3>1. 1 \in 1 .. n + 1 /\ longer[1] = c
      BY <2>1
    <3>2. QED
      BY <3>1
  <2>2. CASE c # b
    <3>1. PICK i \in 1 .. n : order[i] = c
      BY <1>2, <2>2 DEF InOrder
    <3>2. i + 1 \in 1 .. n + 1 /\ i + 1 # 1 /\ i + 1 - 1 = i
      OBVIOUS
    <3>3. longer[i + 1] = c
      BY <3>1, <3>2
    <3>4. QED
      BY <3>2, <3>3
  <2>3. QED
    BY <2>1, <2>2
<1>5. ASSUME NEW i \in 1 .. n + 1, NEW j \in 1 .. n + 1, longer[i] = longer[j] PROVE i = j
  BY <1>2, <1>5 DEF InOrder
<1>6. ASSUME NEW i \in 1 .. n + 1
      PROVE  link2[longer[i]] = IF i = n + 1 THEN NULL ELSE longer[i + 1]
  <2>1. CASE i = 1
    BY <1>2, <2>1 DEF InOrder
  <2>2. CASE i # 1
    <3>1. i - 1 \in 1 .. n /\ longer[i] = order[i - 1] /\ order[i - 1] \in S
      BY <2>2
    <3>2. link2[longer[i]] = IF i - 1 = n THEN NULL ELSE order[i - 1 + 1]
      BY <1>2, <3>1 DEF InOrder
    <3>3. i - 1 # n => i + 1 \in 1 .. n + 1 /\ longer[i + 1] = order[i] /\ i - 1 + 1 = i
      BY <2>2
    <3>4. QED
      BY <3>2, <3>3
  <2>3. QED
    BY <2>1, <2>2
<1>7. InOrder(link2, b, T, n + 1, longer)
  <2>1. longer[1] = b /\ n + 1 # 0
    OBVIOUS
  <2> HIDE DEF longer
  <2>2. QED
    BY <1>3, <1>4, <1>5, <1>6, <2>1 DEF InOrder
<1>8. n + 1 \in Nat
  OBVIOUS
<1> HIDE DEF longer
<1>9. QED
  BY <1>3, <1>7, <1>8 DEF Listed

\* So does one that is put at its end, ...
LEMMA ListedAppend ==
    ASSUME NEW link, NEW head, NEW S \in SUBSET Blocks, Listed(link, head, S),
           NEW b \in Blocks, b \notin S,
           NEW link2, link2[b] = NULL,
           \A x \in S : link2[x] = IF link[x] = NULL THEN b ELSE link[x]
    PROVE  Listed(link2, IF head = NULL THEN b ELSE head, S \cup {b})
<1>1. PICK n \in Nat : \E order \in [1 .. n -> S] : InOrder(link, head, S, n, order)
  BY DEF Listed
<1>2. PICK order \in [1 .. n -> S] : InOrder(link, head, S, n, order)
  BY <1>1
<1> DEFINE longer == [i \in 1 .. n + 1 |-> IF i = n + 1 THEN b ELSE order[i]]
           T == S \cup {b}
           first == IF head = NULL THEN b ELSE head
<1>3. longer \in [1 .. n + 1 -> T]
  OBVIOUS
<1>4. ASSUME NEW c \in T PROVE \E i \in 1 .. n + 1 : longer[i] = c
  <2>1. CASE c = b
    <3>1. n + 1 \in 1 .. n + 1 /\ longer[n + 1] = c
      BY <2>1
    <3>2. QED
      BY <3>1
  <2>2. CASE c # b
    <3>1. PICK i \in 1 .. n : order[i] = c
      BY <1>2, <2>2 DEF InOrder
    <3>2. i \in 1 .. n + 1 /\ longer[i] = c
      BY <3>1
    <3>3. QED
      BY <3>2
  <2>3. QED
    BY <2>1, <2>2
<1>5. ASSUME NEW i \in 1 .. n + 1, NEW j \in 1 .. n + 1, longer[i] = longer[j] PROVE i = j
  BY <1>2, <1>5 DEF InOrder
<1>6. ASSUME NEW i \in 1 .. n + 1
      PROVE  link2[longer[i]] = IF i = n + 1 THEN NULL ELSE longer[i + 1]
  <2>1. CASE i = n + 1
    BY <2>1
  <2>2. CASE i # n + 1
    <3>1. i \in 1 .. n /\ longer[i] = order[i] /\ order[i] \in S
      BY <2>2
    <3>2. link[order[i]] = IF i = n THEN NULL ELSE order[i + 1]
      BY <1>2, <3>1 DEF InOrder
    <3>3. i # n => order[i + 1] # NULL /\ longer[i + 1] = order[i + 1]
      BY <3>1, PoolAssumption
    <3>4. i = n => longer[i + 1] = b
      OBVIOUS
    <3>5. QED
      BY <2>2, <3>1, <3>2, <3>3, <3>4
  <2>3. QED
    BY <2>1, <2>2
<1>7. longer[1] = first
  <2>1. CASE n = 0
    BY <1>2, <2>1 DEF InOrder
  <2>2. CASE n # 0
    <3>1. 1 \in 1 .. n /\ head = order[1] /\ head \in S
      BY <1>2, <2>2 DEF InOrder
    <3>2. QED
      BY <3>1, PoolAssumption
  <2>3. QED
    BY <2>1, <2>2
<1>8. n + 1 \in Nat /\ n + 1 # 0
  OBVIOUS
<1> HIDE DEF longer, first
<1>9. InOrder(link2, first, T, n + 1, longer)
  BY <1>3, <1>4, <1>5, <1>6, <1>7, <1>8 DEF InOrder
<1>10. QED
  BY <1>3, <1>8, <1>9 DEF Listed, first

\* ... and a block that is taken out leaves one.
LEMMA ListedRemove ==
    ASSUME NEW link, NEW head, NEW S \in SUBSET Blocks, Listed(link, head, S),
           NEW b \in S,
           NEW link2, \A x \in S \ {b} : link2[x] = IF link[x] = b THEN link[b] ELSE link[x]
    PROVE  Listed(link2, IF head = b THEN link[b] ELSE head, S \ {b})
<1>1. PICK n \in Nat : \E order \in [1 .. n -> S] : InOrder(link, head, S, n, order)
  BY DEF Listed
<1>2. PICK order \in [1 .. n -> S] : InOrder(link, head, S, n, order)
  BY <1>1
<1>3. PICK k \in 1 .. n : order[k] = b
  BY <1>2 DEF InOrder
<1> DEFINE shorter == [i \in 1 .. n - 1 |-> IF i < k THEN order[i] ELSE order[i + 1]]
           T == S \ {b}
           first == IF head = b THEN link[b] ELSE head
<1>4. n - 1 \in Nat /\ n # 0 /\ 1 \in 1 .. n
  BY <1>3
<1>5. \A i \in 1 .. n - 1 : i \in 1 .. n /\ i + 1 \in 1 .. n
  BY <1>4
<1>6. \A i \in 1 .. n : i # k => order[i] \in T
  BY <1>2, <1>3 DEF InOrder
<1>7. shorter \in [1 .. n - 1 -> T]
  <2>1. ASSUME NEW i \in 1 .. n - 1 PROVE shorter[i] \in T
    <3>1. i < k => i # k
      OBVIOUS
    <3>2. ~ (i < k) => i + 1 # k
      BY <1>3
    <3>3. QED
      BY <1>5, <1>6, <3>1, <3>2
  <2>2. QED
    BY <2>1
<1>8. ASSUME NEW c \in T PROVE \E i \in 1 .. n - 1 : shorter[i] = c
  <2>1. PICK i \in 1 .. n : order[i] = c
    BY <1>2 DEF InOrder
  <2>2. i # k
    BY <1>3, <2>1
  <2>3. CASE i < k
    <3>1. i \in 1 .. n - 1 /\ shorter[i] = c
      BY <1>3, <2>1, <2>3
    <3>2. QED
      BY <3>1
  <2>4. CASE i > k
    <3>1. i - 1 \in 1 .. n - 1 /\ ~ (i - 1 < k) /\ i - 1 + 1 = i
      BY <1>3, <2>4
    <3>2. shorter[i - 1] = c
      BY <2>1, <3>1
    <3>3. QED
      BY <3>1, <3>2
  <2>5. QED
    BY <1>3, <2>2, <2>3, <2>4
<1>9. ASSUME NEW i \in 1 .. n - 1, NEW j \in 1 .. n - 1, shorter[i] = shorter[j] PROVE i = j
  <2> DEFINE p(x) == IF x < k THEN x ELSE x + 1
  <2>1. shorter[i] = order[p(i)] /\ shorter[j] = order[p(j)]
    OBVIOUS
  <2>2. p(i) \in 1 .. n /\ p(j) \in 1 .. n
    BY <1>5
  <2>3. p(i) = p(j)
    BY <1>2, <1>9, <2>1, <2>2 DEF InOrder
  <2>4. QED
    BY <1>3, <2>3
<1>10. ASSUME NEW i \in 1 .. n - 1
       PROVE  link2[shorter[i]] = IF i = n - 1 THEN NULL ELSE shorter[i + 1]
  <2>0. shorter[i] \in T /\ i \in 1 .. n /\ i + 1 \in 1 .. n
    BY <1>5, <1>7
  <2>1. CASE i + 1 < k
    <3>1. shorter[i] = order[i] /\ i # n - 1 /\ i + 1 \in 1 .. n - 1 /\ shorter[i + 1] = order[i + 1]
      BY <1>3, <2>1
    <3>2. link[order[i]] = order[i + 1]
      BY <1>2, <1>5, <3>1 DEF InOrder
    <3>3. order[i + 1] # b
      BY <1>2, <1>3, <2>0, <2>1 DEF InOrder
    <3>4. QED
      BY <2>0, <3>1, <3>2, <3>3
  <2>2. CASE i + 1 = k
    <3>1. shorter[i] = order[i] /\ i # n /\ link[order[i]] = b
      BY <1>2, <1>3, <2>0, <2>2 DEF InOrder
    <3>2. link2[shorter[i]] = link[b]
      BY <2>0, <3>1
    <3>3. link[b] = IF k = n THEN NULL ELSE order[k + 1]
      BY <1>2, <1>3 DEF InOrder
    <3>4. k # n => i + 1 \in 1 .. n - 1 /\ shorter[i + 1] = order[k + 1]
      BY <1>3, <2>2
    <3>5. QED
      BY <2>2, <3>2, <3>3, <3>4
  <2>3. CASE i + 1 > k
    <3>1. shorter[i] = order[i + 1]
      BY <2>3
    <3>2. link[order[i + 1]] = IF i + 1 = n THEN NULL ELSE order[i + 1 + 1]
      BY <1>2, <2>0 DEF InOrder
    <3>3. link[order[i + 1]] # b
      <4>1. i + 1 # n => i + 1 + 1 \in 1 .. n /\ i + 1 + 1 # k
        BY <1>3, <2>3
      <4>2. QED
        BY <1>2, <1>3, <3>2, <4>1, PoolAssumption DEF InOrder
    <3>4. i # n - 1 => i + 1 \in 1 .. n - 1 /\ shorter[i + 1] = order[i + 1 + 1]
      BY <2>3
    <3>5. QED
      BY <2>0, <3>1, <3>2, <3>3, <3>4
  <2>4. QED
    BY <1>3, <2>1, <2>2, <2>3
<1>11. first = IF n - 1 = 0 THEN NULL ELSE shorter[1]
  <2>1. head = order[1]
    BY <1>2, <1>4 DEF InOrder
  <2>2. CASE k = 1
    <3>1. first = IF n = 1 THEN NULL ELSE order[1 + 1]
      BY <1>2, <1>3, <1>4, <2>1, <2>2 DEF InOrder
    <3>2. n # 1 => shorter[1] = order[1 + 1]
      BY <1>4, <2>2
    <3>3. QED
      BY <1>4, <3>1, <3>2
  <2>3. CASE k # 1
    <3>1. head # b
      BY <1>2, <1>3, <1>4, <2>1, <2>3 DEF InOrder
    <3>2. n - 1 # 0 /\ shorter[1] = order[1]
      BY <1>3, <1>4, <2>3
    <3>3. QED
      BY <2>1, <3>1, <3>2
  <2>4. QED
    BY <2>2, <2>3
<1> HIDE DEF shorter, first
<1>12. InOrder(link2, first, T, n - 1, shorter)
  BY <1>7, <1>8, <1>9, <1>10, <1>11 DEF InOrder
<1>13. QED
  BY <1>4, <1>7, <1>12 DEF Listed, first

-----------------------------------------------------------------------------
WithFree == {b \in live : free[b] > 0}
WithoutFree == {b \in live : free[b] = 0}

ListsReachAll == phase = "live" => /\ Listed(next, free_block_head, WithFree)
                                   /\ Listed(next, full_block_head, WithoutFree)

ReachInv == IInv /\ ListsReachAll /\ DestroyFreesAll

\* Nothing is on a list without a head.
LEMMA EmptyListIsNobody ==
    ASSUME NEW link, NEW S \in SUBSET Blocks, Listed(link, NULL, S)
    PROVE  S = {}
<1>1. PICK n \in Nat : \E order \in [1 .. n -> S] : InOrder(link, NULL, S, n, order)
  BY DEF Listed
<1>2. PICK order \in [1 .. n -> S] : InOrder(link, NULL, S, n, order)
  BY <1>1
<1>3. n = 0
  <2> SUFFICES ASSUME n # 0 PROVE FALSE
    OBVIOUS
  <2>1. 1 \in 1 .. n /\ order[1] = NULL
    BY <1>2 DEF InOrder
  <2>2. QED
    BY <2>1, PoolAssumption
<1>4. QED
  BY <1>2, <1>3 DEF InOrder

\* What LinksConsistent says of a pool that lives.
LEMMA Links ==
    ASSUME IInv, phase = "live"
    PROVE  EndsOK /\ \A b \in live : NextOK(b) /\ PrevOK(b)
BY DEF IInv, LinksConsistent

\* After the allocation of a block both lists still are lists.
LEMMA AllocateReaches ==
    ASSUME ReachInv, NEW b \in Blocks, AllocateBlock(b) PROVE ListsReachAll'
<1>1. /\ phase = "live" /\ b \notin live /\ live' = live \cup {b} /\ free_block_head = NULL
      /\ free' = [free EXCEPT ![b] = block_capacity] /\ free_block_head' = b
      /\ next' = [next EXCEPT ![b] = free_block_head] /\ UNCHANGED full_block_head
  BY DEF AllocateBlock
<1>2. /\ live \in SUBSET Blocks /\ free \in [Blocks -> Nat] /\ next \in [Blocks -> BlockOrNull]
      /\ block_capacity > 0
  BY <1>1 DEF ReachInv, IInv, TypeOK, Sized
<1>3. WithFree' = WithFree \cup {b} /\ WithoutFree' = WithoutFree
  BY <1>1, <1>2 DEF WithFree, WithoutFree
<1>4. Listed(next', b, WithFree \cup {b})
  <2>1. WithFree \in SUBSET Blocks /\ b \notin WithFree
    BY <1>1, <1>2 DEF WithFree
  <2>2. next'[b] = free_block_head /\ \A x \in WithFree : next'[x] = next[x]
    BY <1>1, <1>2 DEF WithFree
  <2>3. Listed(next, free_block_head, WithFree)
    BY <1>1 DEF ReachInv, ListsReachAll
  <2>4. QED
    BY <2>1, <2>2, <2>3, ListedPush
<1>5. Listed(next', full_block_head, WithoutFree)
  <2>1. \A x \in WithoutFree : next'[x] = next[x]
    BY <1>1, <1>2 DEF WithoutFree
  <2>2. QED
    BY <1>1, <2>1, ListedSame DEF ReachInv, ListsReachAll
<1>6. QED
  BY <1>1, <1>3, <1>4, <1>5 DEF ListsReachAll

\* The links, and who has a free object, stay as they are.
LEMMA SameLists ==
    ASSUME ReachInv, UNCHANGED <<phase, live, lists>>, free' \in [Blocks -> Nat],
           \A c \in live : free'[c] > 0 <=> free[c] > 0
    PROVE  ListsReachAll'
<1>1. live \in SUBSET Blocks /\ free \in [Blocks -> Nat]
  BY DEF ReachInv, IInv, TypeOK
<1>2. WithFree' = WithFree /\ WithoutFree' = WithoutFree
  BY <1>1 DEF WithFree, WithoutFree
<1>3. QED
  BY <1>2 DEF ReachInv, ListsReachAll, lists

\* After an object was handed out, too, ...
LEMMA AcquireReaches == ASSUME ReachInv, Acquire PROVE ListsReachAll'
<1> DEFINE b == free_block_head
<1>1. /\ phase = "live" /\ b # NULL /\ PopLinks(b) /\ UNCHANGED <<phase, live>>
      /\ free' = [free EXCEPT ![b] = @ - 1]
  BY DEF Acquire
<1>2. /\ live \in SUBSET Blocks /\ free \in [Blocks -> Nat] /\ next \in [Blocks -> BlockOrNull]
      /\ b \in live
  BY <1>1 DEF ReachInv, IInv, TypeOK
<1>3. EndsOK /\ \A x \in live : NextOK(x) /\ PrevOK(x)
  BY <1>1, Links DEF ReachInv
<1>4. free[b] > 0
  BY <1>1, <1>3 DEF EndsOK
<1>5. /\ Listed(next, free_block_head, WithFree)
      /\ Listed(next, full_block_head, WithoutFree)
  BY <1>1 DEF ReachInv, ListsReachAll
<1>6. CASE free[b] > 1
  <2>1. free' \in [Blocks -> Nat] /\ \A c \in live : free'[c] > 0 <=> free[c] > 0
    BY <1>1, <1>2, <1>6
  <2>2. UNCHANGED lists
    BY <1>1, <1>6 DEF PopLinks
  <2>3. QED
    BY <1>1, <2>1, <2>2, SameLists
<1>7. CASE ~ (free[b] > 1)
  <2>1. free[b] = 1
    BY <1>2, <1>4, <1>7
  <2>2. /\ free_block_head' = next[b]
        /\ full_block_head' = IF full_block_tail = NULL THEN b ELSE full_block_head
        /\ next' = [x \in Blocks |-> IF x = b THEN NULL
                                     ELSE IF x = full_block_tail THEN b ELSE next[x]]
    BY <1>1, <1>7 DEF PopLinks
  <2>3. WithFree' = WithFree \ {b} /\ WithoutFree' = WithoutFree \cup {b}
    BY <1>1, <1>2, <2>1 DEF WithFree, WithoutFree
  <2>4. /\ b \in WithFree /\ b \notin WithoutFree
        /\ WithFree \in SUBSET Blocks /\ WithoutFree \in SUBSET Blocks
    BY <1>2, <1>4 DEF WithFree, WithoutFree
  <2>5. ASSUME NEW x \in WithFree \ {b}
        PROVE  next'[x] = IF next[x] = b THEN next[b] ELSE next[x]
    <3>1. x \in live /\ free[x] > 0 /\ x # full_block_tail
      BY <1>2, <1>3, PoolAssumption DEF WithFree, EndsOK
    <3>2. next[x] # b
      BY <1>2, <1>3, <1>4, <3>1, PoolAssumption DEF NextOK, PrevOK, HeadOf
    <3>3. QED
      BY <1>2, <2>2, <2>4, <3>1, <3>2
  <2>6. Listed(next', next[b], WithFree \ {b})
    BY <1>5, <2>4, <2>5, ListedRemove
  <2>7. ASSUME NEW x \in WithoutFree
        PROVE  next'[x] = IF next[x] = NULL THEN b ELSE next[x]
    <3>1. x \in live /\ ~ (free[x] > 0) /\ x # b
      BY <1>2, <2>4 DEF WithoutFree
    <3>2. next[x] = NULL <=> x = full_block_tail
      BY <1>3, <3>1 DEF NextOK, TailOf
    <3>3. QED
      BY <1>2, <2>2, <2>4, <3>1, <3>2
  <2>8. next'[b] = NULL
    BY <1>2, <2>2
  <2>9. Listed(next', IF full_block_head = NULL THEN b ELSE full_block_head, WithoutFree \cup {b})
    BY <1>2, <1>5, <2>4, <2>7, <2>8, ListedAppend
  <2>10. full_block_head' = IF full_block_head = NULL THEN b ELSE full_block_head
    BY <1>3, <2>2 DEF EndsOK
  <2>11. QED
    BY <2>2, <2>3, <2>6, <2>9, <2>10 DEF ListsReachAll
<1>8. QED
  BY <1>6, <1>7

\* A block is taken out of the list it is on: what becomes of the heads.
LEMMA RemovalIsLocal ==
    ASSUME ReachInv, phase = "live", NEW b \in live, NEW S \in SUBSET live, NEW link2,
           \A x \in live : SameList(x, b) <=> x \in S,
           \A x \in S \ {b} : link2[x] = IF x = prev[b] THEN next[b] ELSE next[x],
           Listed(next, HeadOf(b), S)
    PROVE  Listed(link2, IF HeadOf(b) = b THEN next[b] ELSE HeadOf(b), S \ {b})
<1>1. EndsOK /\ \A x \in live : NextOK(x) /\ PrevOK(x)
  BY Links DEF ReachInv
<1>2. live \in SUBSET Blocks
  BY DEF ReachInv, IInv, TypeOK
<1>3. b \in S /\ S \in SUBSET Blocks
  BY <1>2 DEF SameList
<1>4. ASSUME NEW x \in S \ {b} PROVE x = prev[b] <=> next[x] = b
  <2>1. x \in live /\ b # NULL
    BY <1>2, PoolAssumption
  <2>2. x = prev[b] => next[x] = b
    BY <1>1, <1>2, <2>1, PoolAssumption DEF PrevOK
  <2>3. next[x] = b => x = prev[b]
    BY <1>1, <2>1 DEF NextOK
  <2>4. QED
    BY <2>2, <2>3
<1>5. \A x \in S \ {b} : link2[x] = IF next[x] = b THEN next[b] ELSE next[x]
  BY <1>4
<1>6. QED
  BY <1>3, <1>5, ListedRemove

\* ... after one came back, ...
LEMMA ReleaseReaches ==
    ASSUME ReachInv, NEW b, NEW i, Release(b, i) PROVE ListsReachAll'
<1>1. /\ phase = "live" /\ <<b, i>> \in held /\ UNCHANGED <<phase, live>>
      /\ free' = [free EXCEPT ![b] = @ + 1]
      /\ IF free[b] + 1 = 1 THEN ToFreeList(b) ELSE UNCHANGED lists
  BY DEF Release
<1>2. /\ live \in SUBSET Blocks /\ free \in [Blocks -> Nat] /\ next \in [Blocks -> BlockOrNull]
      /\ prev \in [Blocks -> BlockOrNull] /\ b \in live
  BY <1>1 DEF ReachInv, IInv, TypeOK, ObjectsPartitioned
<1>3. CASE free[b] # 0
  <2>1. free' \in [Blocks -> Nat] /\ \A c \in live : free'[c] > 0 <=> free[c] > 0
    BY <1>1, <1>2, <1>3
  <2>2. UNCHANGED lists
    BY <1>1, <1>2, <1>3
  <2>3. QED
    BY <1>1, <2>1, <2>2, SameLists
<1>4. CASE free[b] = 0
  <2>1. /\ full_block_head' = IF prev[b] = NULL THEN next[b] ELSE full_block_head
        /\ free_block_head' = b
        /\ next' = [x \in Blocks |-> IF x = b THEN free_block_head
                                     ELSE IF x = prev[b] THEN next[b] ELSE next[x]]
    BY <1>1, <1>4 DEF ToFreeList
  <2>2. EndsOK /\ \A x \in live : NextOK(x) /\ PrevOK(x)
    BY <1>1, Links DEF ReachInv
  <2>3. /\ Listed(next, free_block_head, WithFree)
        /\ Listed(next, full_block_head, WithoutFree)
    BY <1>1 DEF ReachInv, ListsReachAll
  <2>4. WithFree' = WithFree \cup {b} /\ WithoutFree' = WithoutFree \ {b}
    BY <1>1, <1>2, <1>4 DEF WithFree, WithoutFree
  <2>5. /\ WithFree \in SUBSET Blocks /\ b \notin WithFree
        /\ WithoutFree \in SUBSET live
    BY <1>2, <1>4 DEF WithFree, WithoutFree
  <2>6. Listed(next', b, WithFree \cup {b})
    <3>1. ASSUME NEW x \in WithFree PROVE next'[x] = next[x]
      <4>1. x \in live /\ free[x] > 0 /\ x # b
        BY <2>5 DEF WithFree
      <4>2. x # prev[b]
        BY <1>2, <1>4, <2>2, <4>1, PoolAssumption DEF PrevOK, SameList
      <4>3. QED
        BY <1>2, <2>1, <4>1, <4>2
    <3>2. next'[b] = free_block_head
      BY <1>2, <2>1
    <3>3. b \in Blocks
      BY <1>2
    <3>4. QED
      BY <2>3, <2>5, <3>1, <3>2, <3>3, ListedPush
  <2>7. Listed(next', full_block_head', WithoutFree \ {b})
    <3>1. \A x \in live : SameList(x, b) <=> x \in WithoutFree
      BY <1>2, <1>4 DEF SameList, WithoutFree
    <3>2. HeadOf(b) = full_block_head
      BY <1>4 DEF HeadOf
    <3>3. \A x \in WithoutFree \ {b} : next'[x] = IF x = prev[b] THEN next[b] ELSE next[x]
      BY <1>2, <2>1, <2>5
    <3>4. full_block_head' = IF HeadOf(b) = b THEN next[b] ELSE HeadOf(b)
      BY <1>2, <2>1, <2>2, <3>2 DEF PrevOK
    <3>5. QED
      BY <1>1, <1>2, <2>3, <2>5, <3>1, <3>2, <3>3, <3>4, RemovalIsLocal
  <2>8. QED
    BY <2>1, <2>4, <2>6, <2>7 DEF ListsReachAll
<1>5. QED
  BY <1>3, <1>4

\* The list that the freed block is not on stays as it is.
LEMMA OtherListKept ==
    ASSUME ReachInv, phase = "live", NEW b \in live, NEW S \in SUBSET live, NEW head,
           NEW link2, \A x \in live : SameList(x, b) => x \notin S,
           \A x \in S : link2[x] = IF x = prev[b] THEN next[b] ELSE next[x],
           Listed(next, head, S)
    PROVE  Listed(link2, head, S)
<1>1. \A x \in live : NextOK(x) /\ PrevOK(x)
  BY Links DEF ReachInv
<1>2. live \in SUBSET Blocks
  BY DEF ReachInv, IInv, TypeOK
<1>3. \A x \in S : x # prev[b]
  BY <1>1, <1>2, PoolAssumption DEF PrevOK, SameList
<1>4. QED
  BY <1>3, ListedSame

\* ... and after its block was freed.
LEMMA ReleaseAndFreeReaches ==
    ASSUME ReachInv, NEW b, NEW i, ReleaseAndFree(b, i) PROVE ListsReachAll'
<1>1. /\ phase = "live" /\ <<b, i>> \in held /\ UNCHANGED phase
      /\ free' = [free EXCEPT ![b] = 0] /\ live' = live \ {b} /\ Unlink(b)
  BY DEF ReleaseAndFree
<1>2. /\ live \in SUBSET Blocks /\ free \in [Blocks -> Nat] /\ next \in [Blocks -> BlockOrNull]
      /\ prev \in [Blocks -> BlockOrNull] /\ b \in live
  BY <1>1 DEF ReachInv, IInv, TypeOK, ObjectsPartitioned
<1>3. EndsOK /\ \A x \in live : NextOK(x) /\ PrevOK(x)
  BY <1>1, Links DEF ReachInv
<1>4. /\ Listed(next, free_block_head, WithFree)
      /\ Listed(next, full_block_head, WithoutFree)
  BY <1>1 DEF ReachInv, ListsReachAll
<1>5. /\ free_block_head' = IF b = free_block_head THEN next[b] ELSE free_block_head
      /\ full_block_head' = IF b = full_block_head THEN next[b] ELSE full_block_head
      /\ \A x \in live : next'[x] = IF x = prev[b] THEN next[b] ELSE next[x]
  BY <1>1, <1>2 DEF Unlink
<1>6. /\ WithFree \in SUBSET live /\ WithoutFree \in SUBSET live
      /\ WithFree' = WithFree \ {b} /\ WithoutFree' = WithoutFree \ {b}
  BY <1>1, <1>2 DEF WithFree, WithoutFree
<1>7. CASE free[b] > 0
  <2>1. /\ \A x \in live : SameList(x, b) <=> x \in WithFree
        /\ \A x \in live : SameList(x, b) => x \notin WithoutFree
        /\ HeadOf(b) = free_block_head /\ b \notin WithoutFree
    BY <1>2, <1>7 DEF SameList, WithFree, WithoutFree, HeadOf
  <2>2. full_block_head # b
    BY <1>3, <1>7, <1>2, PoolAssumption DEF EndsOK
  <2>3. Listed(next', free_block_head', WithFree \ {b})
    BY <1>1, <1>2, <1>4, <1>5, <1>6, <2>1, RemovalIsLocal
  <2>4. Listed(next', full_block_head', WithoutFree)
    BY <1>1, <1>2, <1>4, <1>5, <1>6, <2>1, <2>2, OtherListKept
  <2>5. QED
    BY <1>6, <2>1, <2>3, <2>4 DEF ListsReachAll
<1>8. CASE ~ (free[b] > 0)
  <2>1. /\ \A x \in live : SameList(x, b) <=> x \in WithoutFree
        /\ \A x \in live : SameList(x, b) => x \notin WithFree
        /\ HeadOf(b) = full_block_head /\ b \notin WithFree
    BY <1>2, <1>8 DEF SameList, WithFree, WithoutFree, HeadOf
  <2>2. free_block_head # b
    BY <1>3, <1>8, <1>2, PoolAssumption DEF EndsOK
  <2>3. Listed(next', full_block_head', WithoutFree \ {b})
    BY <1>1, <1>2, <1>4, <1>5, <1>6, <2>1, RemovalIsLocal
  <2>4. Listed(next', free_block_head', WithFree)
    BY <1>1, <1>2, <1>4, <1>5, <1>6, <2>1, <2>2, OtherListKept
  <2>5. QED
    BY <1>6, <2>1, <2>3, <2>4 DEF ListsReachAll
<1>9. QED
  BY <1>7, <1>8

\* Both walks of mys_pool_destroy together meet every block.
LEMMA DestroyFrees ==
    ASSUME ReachInv, Destroy PROVE live' = {}
<1>1. /\ phase = "live"
      /\ live' = live \ (Chain(next, free_block_head) \cup Chain(next, full_block_head))
  BY DEF Destroy
<1>2. WithFree \in SUBSET Blocks /\ WithoutFree \in SUBSET Blocks /\ live = WithFree \cup WithoutFree
  <2>1. live \in SUBSET Blocks /\ free \in [Blocks -> Nat]
    BY DEF ReachInv, IInv, TypeOK
  <2>2. QED
    BY <2>1 DEF WithFree, WithoutFree
<1>3. Chain(next, free_block_head) = WithFree /\ Chain(next, full_block_head) = WithoutFree
  BY <1>1, <1>2, ChainReaches DEF ReachInv, ListsReachAll
<1>4. QED
  BY <1>1, <1>2, <1>3

\* Before the pool is created the lists are empty.
LEMMA InitReach == Init => ReachInv
<1>1. Init => ListsReachAll /\ DestroyFreesAll
  BY DEF Init, ListsReachAll, DestroyFreesAll
<1>2. QED
  BY <1>1, InitIInv DEF ReachInv

\* So the invariant with lists is inductive.
LEMMA NextKeepsReach == ReachInv /\ [Next]_vars => ReachInv'
<1> SUFFICES ASSUME ReachInv, [Next]_vars PROVE ReachInv'
  OBVIOUS
<1>1. IInv'
  BY NextKeepsIInv DEF ReachInv
<1>2. ListsReachAll'
  <2>1. CASE Create
    <3>1. WithFree' = {} /\ WithoutFree' = {} /\ free_block_head' = NULL /\ full_block_head' = NULL
      BY <2>1 DEF Create, ReachInv, IInv, Fresh, WithFree, WithoutFree, lists
    <3>2. QED
      BY <3>1, ListedEmpty DEF ListsReachAll
  <2>2. ASSUME NEW b \in Blocks, AllocateBlock(b) PROVE ListsReachAll'
    BY <2>2, AllocateReaches
  <2>3. ASSUME NEW a \in MayFail, AllocationFails(a) PROVE ListsReachAll'
    BY <2>3 DEF AllocationFails, ReachInv, ListsReachAll, WithFree, WithoutFree, lists
  <2>4. CASE Acquire
    BY <2>4, AcquireReaches
  <2>5. ASSUME NEW o \in held, Release(o[1], o[2]) PROVE ListsReachAll'
    BY <2>5, ReleaseReaches
  <2>6. ASSUME NEW o \in held, ReleaseAndFree(o[1], o[2]) PROVE ListsReachAll'
    BY <2>6, ReleaseAndFreeReaches
  <2>7. CASE Destroy
    BY <2>7 DEF Destroy, ListsReachAll
  <2>8. CASE UNCHANGED vars
    BY <2>8 DEF vars, lists, ReachInv, ListsReachAll, WithFree, WithoutFree
  <2>9. QED
    BY <2>1, <2>2, <2>3, <2>4, <2>5, <2>6, <2>7, <2>8 DEF Next
<1>3. DestroyFreesAll'
  <2>1. CASE Destroy
    BY <2>1, DestroyFrees DEF DestroyFreesAll
  <2>2. CASE ~ Destroy
    <3>1. phase' = "destroyed" => phase = "destroyed" /\ UNCHANGED live
      BY <2>2 DEF Next, Create, AllocateBlock, AllocationFails, Acquire, Release,
                  ReleaseAndFree, vars
    <3>2. QED
      BY <3>1 DEF ReachInv, DestroyFreesAll
  <2>3. QED
    BY <2>1, <2>2
<1>4. QED
  BY <1>1, <1>2, <1>3 DEF ReachInv

\* The blocks of each list can be numbered along its links, in every state.
THEOREM PoolReachInvHolds == Spec => []ReachInv
<1>1. QED
  BY InitReach, NextKeepsReach, PTL DEF Spec

\* Followed backwards from its tail, a list is met in the reverse order.
LEMMA ListedBackwards ==
    ASSUME ReachInv, phase = "live", NEW S \in SUBSET live, NEW head, NEW tail,
           Listed(next, head, S), \A b \in S : HeadOf(b) = head /\ TailOf(b) = tail,
           head = NULL <=> tail = NULL
    PROVE  Listed(prev, tail, S)
<1>1. \A b \in live : NextOK(b) /\ PrevOK(b)
  BY Links DEF ReachInv
<1>2. PICK n \in Nat : \E order \in [1 .. n -> S] : InOrder(next, head, S, n, order)
  BY DEF Listed
<1>3. PICK order \in [1 .. n -> S] : InOrder(next, head, S, n, order)
  BY <1>2
<1>4. live \in SUBSET Blocks /\ NULL \notin live
  BY PoolAssumption DEF ReachInv, IInv, TypeOK
<1> DEFINE back == [i \in 1 .. n |-> order[n + 1 - i]]
<1>5. \A i \in 1 .. n : n + 1 - i \in 1 .. n /\ n + 1 - (n + 1 - i) = i
  OBVIOUS
<1>6. back \in [1 .. n -> S]
  BY <1>5
<1>7. ASSUME NEW b \in S PROVE \E i \in 1 .. n : back[i] = b
  <2>1. PICK i \in 1 .. n : order[i] = b
    BY <1>3 DEF InOrder
  <2>2. n + 1 - i \in 1 .. n /\ back[n + 1 - i] = b
    BY <1>5, <2>1
  <2>3. QED
    BY <2>2
<1>8. ASSUME NEW i \in 1 .. n, NEW j \in 1 .. n, back[i] = back[j] PROVE i = j
  <2>1. n + 1 - i = n + 1 - j
    BY <1>3, <1>5, <1>8 DEF InOrder
  <2>2. QED
    BY <2>1
<1>9. tail = IF n = 0 THEN NULL ELSE back[1]
  <2>1. CASE n = 0
    BY <1>3, <2>1 DEF InOrder
  <2>2. CASE n # 0
    <3>1. n \in 1 .. n /\ 1 \in 1 .. n /\ back[1] = order[n]
      BY <2>2
    <3>2. next[order[n]] = NULL /\ order[n] \in S
      BY <1>3, <3>1 DEF InOrder
    <3>3. order[n] = tail
      BY <1>1, <3>2 DEF NextOK
    <3>4. QED
      BY <2>2, <3>1, <3>3
  <2>3. QED
    BY <2>1, <2>2
<1>10. ASSUME NEW i \in 1 .. n PROVE prev[back[i]] = IF i = n THEN NULL ELSE back[i + 1]
  <2>1. CASE i = n
    <3>1. 1 \in 1 .. n /\ back[i] = order[1] /\ order[1] = head /\ order[1] \in S
      BY <1>3, <2>1 DEF InOrder
    <3>2. QED
      BY <1>1, <2>1, <3>1 DEF PrevOK
  <2>2. CASE i # n
    <3>1. /\ n - i \in 1 .. n /\ n - i # n /\ n - i + 1 = n + 1 - i
          /\ back[i] = order[n + 1 - i] /\ i + 1 \in 1 .. n /\ back[i + 1] = order[n - i]
      BY <2>2
    <3>2. next[order[n - i]] = order[n - i + 1]
      BY <1>3, <3>1 DEF InOrder
    <3>3. order[n - i] \in live /\ order[n - i + 1] \in live
      BY <1>5, <3>1
    <3>4. prev[order[n - i + 1]] = order[n - i]
      BY <1>1, <1>4, <3>2, <3>3 DEF NextOK
    <3>5. QED
      BY <2>2, <3>1, <3>4
  <2>3. QED
    BY <2>1, <2>2
<1> HIDE DEF back
<1>11. InOrder(prev, tail, S, n, back)
  BY <1>6, <1>7, <1>8, <1>9, <1>10 DEF InOrder
<1>12. QED
  BY <1>6, <1>11 DEF Listed

\* An order that agrees with the local links makes a well-formed list.
LEMMA ReachesIsList ==
    ASSUME ReachInv, phase = "live", NEW S \in SUBSET live, NEW head, NEW tail,
           Listed(next, head, S), \A b \in S : HeadOf(b) = head /\ TailOf(b) = tail,
           head \in live \cup {NULL}, tail \in live \cup {NULL}, head = NULL <=> tail = NULL,
           head # NULL => HeadOf(head) = head, tail # NULL => TailOf(tail) = tail
    PROVE  ListIs(head, tail, S)
<1>1. \A b \in live : NextOK(b) /\ PrevOK(b)
  BY Links DEF ReachInv
<1>2. S \in SUBSET Blocks
  BY DEF ReachInv, IInv, TypeOK
<1>3. Listed(prev, tail, S)
  BY ListedBackwards
<1>4. Chain(next, head) = S /\ Chain(prev, tail) = S
  BY <1>2, <1>3, ChainReaches
<1>5. \A b \in S : /\ next[b] # NULL => prev[next[b]] = b
                   /\ prev[b] # NULL => next[prev[b]] = b
  BY <1>1 DEF NextOK, PrevOK
<1>6. head # NULL => prev[head] = NULL
  BY <1>1 DEF PrevOK
<1>7. tail # NULL => next[tail] = NULL
  BY <1>1 DEF NextOK
<1>8. QED
  BY <1>4, <1>5, <1>6, <1>7 DEF ListIs

\* The free list and the full list, followed in either direction, meet exactly
\* the blocks with and those without a free object: no block is lost behind a
\* broken link and none is on the wrong list.
THEOREM PoolListsPartition == Spec => []ListsPartitionBlocks
<1>1. ReachInv => ListsPartitionBlocks
  <2> SUFFICES ASSUME ReachInv, phase = "live"
               PROVE  /\ ListIs(free_block_head, free_block_tail, WithFree)
                      /\ ListIs(full_block_head, full_block_tail, WithoutFree)
    BY DEF ListsPartitionBlocks, WithFree, WithoutFree
  <2>1. /\ {free_block_head, free_block_tail, full_block_head, full_block_tail}
               \subseteq live \cup {NULL}
        /\ live \in SUBSET Blocks /\ free \in [Blocks -> Nat]
    BY DEF ReachInv, IInv, TypeOK
  <2>2. EndsOK
    BY Links DEF ReachInv
  <2>3. ListIs(free_block_head, free_block_tail, WithFree)
    <3>1. /\ WithFree \in SUBSET live
          /\ \A b \in WithFree : HeadOf(b) = free_block_head /\ TailOf(b) = free_block_tail
      BY DEF WithFree, HeadOf, TailOf
    <3>2. /\ free_block_head # NULL => HeadOf(free_block_head) = free_block_head
          /\ free_block_tail # NULL => TailOf(free_block_tail) = free_block_tail
      BY <2>2 DEF EndsOK, HeadOf, TailOf
    <3>3. Listed(next, free_block_head, WithFree) /\ (free_block_head = NULL <=> free_block_tail = NULL)
      BY <2>2 DEF ReachInv, ListsReachAll, EndsOK
    <3>4. QED
      BY <2>1, <3>1, <3>2, <3>3, ReachesIsList
  <2>4. ListIs(full_block_head, full_block_tail, WithoutFree)
    <3>1. /\ WithoutFree \in SUBSET live
          /\ \A b \in WithoutFree : HeadOf(b) = full_block_head /\ TailOf(b) = full_block_tail
      BY <2>1 DEF WithoutFree, HeadOf, TailOf
    <3>2. /\ full_block_head # NULL => HeadOf(full_block_head) = full_block_head
          /\ full_block_tail # NULL => TailOf(full_block_tail) = full_block_tail
      BY <2>1, <2>2 DEF EndsOK, HeadOf, TailOf
    <3>3. Listed(next, full_block_head, WithoutFree) /\ (full_block_head = NULL <=> full_block_tail = NULL)
      BY <2>2 DEF ReachInv, ListsReachAll, EndsOK
    <3>4. QED
      BY <2>1, <3>1, <3>2, <3>3, ReachesIsList
  <2>5. QED
    BY <2>3, <2>4
<1>2. QED
  BY <1>1, PoolReachInvHolds, PTL

\* Destroying the pool frees every block, whatever was acquired and released.
THEOREM PoolDestroyFrees == Spec => []DestroyFreesAll
<1>1. ReachInv => DestroyFreesAll
  BY DEF ReachInv
<1>2. QED
  BY <1>1, PoolReachInvHolds, PTL

\* A new block is allocated only when every object of every block is handed out.
THEOREM PoolGrowsOnlyWhenExhausted == Spec => GrowsOnlyWhenExhausted
<1>1. ASSUME ReachInv, [Next]_vars, live' \ live # {},
             NEW b \in live, NEW i \in 1 .. capacity[b]
      PROVE  <<b, i>> \in held
  <2>1. PICK c \in Blocks : AllocateBlock(c)
    BY <1>1 DEF Next, Create, AllocationFails, Acquire, Release, ReleaseAndFree, Destroy, vars
  <2>2. phase = "live" /\ free_block_head = NULL
    BY <2>1 DEF AllocateBlock
  <2>3. live \in SUBSET Blocks /\ free \in [Blocks -> Nat]
    BY <1>1 DEF ReachInv, IInv, TypeOK
  <2>4. WithFree = {}
    <3>1. WithFree \in SUBSET Blocks
      BY <2>3 DEF WithFree
    <3>2. QED
      BY <1>1, <2>2, <3>1, EmptyListIsNobody DEF ReachInv, ListsReachAll
  <2>5. free[b] = 0
    BY <2>3, <2>4 DEF WithFree
  <2>6. BlockPartitioned(b)
    BY <1>1, <2>2 DEF ReachInv, IInv, ObjectsPartitioned
  <2>7. QED
    BY <2>5, <2>6 DEF BlockPartitioned
<1>2. ReachInv /\ [Next]_vars =>
          [live' \ live # {} => \A b \in live : \A i \in 1 .. capacity[b] : <<b, i>> \in held]_vars
  BY <1>1
<1>3. QED
  BY <1>2, PoolReachInvHolds, PTL DEF Spec, GrowsOnlyWhenExhausted
=============================================================================
