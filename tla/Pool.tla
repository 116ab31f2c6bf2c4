-------------------------------- MODULE Pool --------------------------------
(***************************************************************************)
(* The object pool, src/include/mys/impl/pool.c.                           *)
(*                                                                         *)
(* A pool owns blocks of objects on two doubly linked lists: the free list *)
(* (blocks with an object to hand out) and the full list (blocks with      *)
(* none).  Objects are taken from the head of the free list; a block that  *)
(* runs empty moves to the tail of the full list; a full block that gets   *)
(* an object back moves to the head of the free list; a block that has     *)
(* been used beyond its capacity and is idle again is freed.  The module   *)
(* keeps every pointer of the two lists: what can go wrong here is one     *)
(* link.  A block's own free objects are a stack (free_object_head).       *)
(*                                                                         *)
(* The code takes no lock, so a call is one step; only mys_pool_acquire is *)
(* two, because allocate_block is a function of its own.  The client       *)
(* releases only what it acquired and has not released.                    *)
(***************************************************************************)
EXTENDS Integers, Sequences, FiniteSets

CONSTANTS Blocks,           \* the addresses malloc can return for a block
          NULL,
          initial_capacity, \* objects in the first block
          MayFail,          \* the allocations of allocate_block that can fail
          MaxCapacity,      \* bound: the largest block the pool grows to
          MaxReuse          \* bound: acquires of a block beyond its capacity

ASSUME PoolAssumption ==
    /\ NULL \notin Blocks /\ IsFiniteSet(Blocks)
    /\ initial_capacity \in Nat \ {0}   \* create2 refuses 0
    /\ MayFail \subseteq {"block", "memory", "objects"}
    /\ MaxCapacity \in Nat /\ MaxReuse \in Nat

VARIABLES
    phase,           \* "none", "live", "destroyed", or "crashed"
    acquiring,       \* mys_pool_acquire has called allocate_block
    block_capacity,  \* pool->block_capacity, capacity of the next block
    free_block_head, free_block_tail,
    full_block_head, full_block_tail,
    live,            \* the blocks that are allocated
    capacity, free, acquired_count,
    free_objects,    \* free_objects[b]: the stack at b->free_object_head
    prev, next,
    held             \* the objects <<block, index>> the client holds

lists == <<free_block_head, free_block_tail, full_block_head, full_block_tail, prev, next>>
vars == <<phase, acquiring, block_capacity, lists, live, capacity, free,
          acquired_count, free_objects, held>>

Phases == {"none", "live", "destroyed", "crashed"}
BlockOrNull == Blocks \cup {NULL}

Init == /\ phase = "none"
        /\ acquiring = FALSE
        /\ block_capacity = 0
        /\ free_block_head = NULL /\ free_block_tail = NULL
        /\ full_block_head = NULL /\ full_block_tail = NULL
        /\ live = {}
        /\ capacity = [b \in Blocks |-> 0]
        /\ free = [b \in Blocks |-> 0]
        /\ acquired_count = [b \in Blocks |-> 0]
        /\ free_objects = [b \in Blocks |-> <<>>]
        /\ prev = [b \in Blocks |-> NULL]
        /\ next = [b \in Blocks |-> NULL]
        /\ held = {}

-----------------------------------------------------------------------------
\* mys_pool_create2: no block is allocated yet.
Create ==
    /\ phase = "none"
    /\ phase' = "live"
    /\ block_capacity' = initial_capacity
    /\ UNCHANGED <<acquiring, lists, live, capacity, free, acquired_count, free_objects, held>>

\* mys_pool_acquire with no free block calls allocate_block, which pushes a
\* new block, all its objects stacked in index order, on the free list.
AllocateBlock(b) ==
    /\ phase = "live" /\ ~acquiring
    /\ free_block_head = NULL
    /\ b \notin live
    /\ block_capacity <= MaxCapacity
    /\ acquiring' = TRUE
    /\ live' = live \cup {b}
    /\ capacity' = [capacity EXCEPT ![b] = block_capacity]
    /\ free' = [free EXCEPT ![b] = block_capacity]
    /\ acquired_count' = [acquired_count EXCEPT ![b] = 0]
    /\ free_objects' = [free_objects EXCEPT ![b] = [i \in 1 .. block_capacity |-> i]]
    /\ free_block_head' = b
    /\ prev' = [x \in Blocks |-> IF x = b THEN NULL
                                 ELSE IF x = free_block_head THEN b ELSE prev[x]]
    /\ next' = [next EXCEPT ![b] = free_block_head]
    /\ free_block_tail' = IF free_block_tail = NULL THEN b ELSE free_block_tail
    /\ block_capacity' = block_capacity * 2
    /\ UNCHANGED <<phase, full_block_head, full_block_tail, held>>

\* One of the three allocations of allocate_block fails and acquire returns
\* NULL.  When the block's memory cannot be allocated, the clean-up reads
\* block->objects before it was ever written: what is there either is NULL or
\* is freed as if it were an allocation of the pool.
AllocationFails(a) ==
    /\ phase = "live" /\ ~acquiring
    /\ free_block_head = NULL
    /\ \/ UNCHANGED phase
       \/ a = "memory" /\ phase' = "crashed"
    /\ UNCHANGED <<acquiring, block_capacity, lists, live, capacity, free,
                   acquired_count, free_objects, held>>

\* Mutant of PopLinks: next_block->prev is not reset.
PopLinksStalePrev(b) ==
    IF free[b] > 1 THEN UNCHANGED lists
    ELSE /\ free_block_head' = next[b]
         /\ free_block_tail' = IF next[b] = NULL THEN NULL ELSE free_block_tail
         /\ full_block_head' = IF full_block_tail = NULL THEN b ELSE full_block_head
         /\ full_block_tail' = b
         /\ next' = [x \in Blocks |-> IF x = b THEN NULL
                                      ELSE IF x = full_block_tail THEN b ELSE next[x]]
         /\ prev' = [prev EXCEPT ![b] = full_block_tail]

\* A block that hands out its last object leaves the free list, of which it is
\* the head, for the tail of the full list.
PopLinks(b) ==
    IF free[b] > 1 THEN UNCHANGED lists
    ELSE /\ free_block_head' = next[b]
         /\ free_block_tail' = IF next[b] = NULL THEN NULL ELSE free_block_tail
         /\ full_block_head' = IF full_block_tail = NULL THEN b ELSE full_block_head
         /\ full_block_tail' = b
         /\ next' = [x \in Blocks |-> IF x = b THEN NULL
                                      ELSE IF x = full_block_tail THEN b ELSE next[x]]
         /\ prev' = [x \in Blocks |-> IF x = b THEN full_block_tail
                                      ELSE IF x = next[b] THEN NULL ELSE prev[x]]

\* The rest of mys_pool_acquire: the first object of the first free block.
Acquire ==
    LET b == free_block_head
    IN  /\ phase = "live"
        /\ b # NULL
        /\ free_objects[b] # <<>>
        /\ acquired_count[b] < capacity[b] + MaxReuse
        /\ acquiring' = FALSE
        /\ held' = held \cup {<<b, Head(free_objects[b])>>}
        /\ free_objects' = [free_objects EXCEPT ![b] = Tail(@)]
        /\ free' = [free EXCEPT ![b] = @ - 1]
        /\ acquired_count' = [acquired_count EXCEPT ![b] = @ + 1]
        /\ PopLinks(b)
        /\ UNCHANGED <<phase, block_capacity, live, capacity>>

\* The pointers of the pool and of b's neighbours in deallocate_block.
Unlink(b) ==
    /\ free_block_head' = IF b = free_block_head THEN next[b] ELSE free_block_head
    /\ free_block_tail' = IF b = free_block_tail THEN prev[b] ELSE free_block_tail
    /\ full_block_head' = IF b = full_block_head THEN next[b] ELSE full_block_head
    /\ full_block_tail' = IF b = full_block_tail THEN prev[b] ELSE full_block_tail
    /\ next' = [x \in Blocks |-> IF x = prev[b] THEN next[b] ELSE next[x]]
    /\ prev' = [x \in Blocks |-> IF x = next[b] THEN prev[b] ELSE prev[x]]

\* Mutant of ToFreeList: the block becomes the whole free list.
ToFreeListDropsRest(b) ==
    /\ full_block_head' = IF prev[b] = NULL THEN next[b] ELSE full_block_head
    /\ full_block_tail' = IF next[b] = NULL THEN prev[b] ELSE full_block_tail
    /\ free_block_tail' = b
    /\ free_block_head' = b
    /\ next' = [x \in Blocks |-> IF x = b THEN NULL
                                 ELSE IF x = prev[b] THEN next[b] ELSE next[x]]
    /\ prev' = [x \in Blocks |-> IF x = b THEN NULL
                                 ELSE IF x = next[b] THEN prev[b] ELSE prev[x]]

\* A full block that gets its first object back leaves its place in the full
\* list for the head of the free list.
ToFreeList(b) ==
    /\ full_block_head' = IF prev[b] = NULL THEN next[b] ELSE full_block_head
    /\ full_block_tail' = IF next[b] = NULL THEN prev[b] ELSE full_block_tail
    /\ free_block_tail' = IF free_block_head = NULL THEN b ELSE free_block_tail
    /\ free_block_head' = b
    /\ next' = [x \in Blocks |-> IF x = b THEN free_block_head
                                 ELSE IF x = prev[b] THEN next[b] ELSE next[x]]
    /\ prev' = [x \in Blocks |-> IF x = b THEN NULL
                                 ELSE IF x = next[b] THEN prev[b]
                                 ELSE IF x = free_block_head THEN b ELSE prev[x]]

\* Mutant of Idle: either condition frees the block.
IdleEither(b) == acquired_count[b] > capacity[b] \/ free[b] + 1 = capacity[b]

\* b is idle again after having been used beyond its capacity.
Idle(b) == acquired_count[b] > capacity[b] /\ free[b] + 1 = capacity[b]

\* mys_pool_release of an object that stays in the pool.
Release(b, i) ==
    /\ phase = "live" /\ ~acquiring
    /\ <<b, i>> \in held
    /\ ~Idle(b)
    /\ held' = held \ {<<b, i>>}
    /\ free_objects' = [free_objects EXCEPT ![b] = <<i>> \o @]
    /\ free' = [free EXCEPT ![b] = @ + 1]
    /\ IF free[b] + 1 = 1 THEN ToFreeList(b) ELSE UNCHANGED lists
    /\ UNCHANGED <<phase, acquiring, block_capacity, live, capacity, acquired_count>>

\* mys_pool_release that frees the block of the object (deallocate_block).
ReleaseAndFree(b, i) ==
    /\ phase = "live" /\ ~acquiring
    /\ <<b, i>> \in held
    /\ Idle(b)
    /\ held' = held \ {<<b, i>>}
    /\ free_objects' = [free_objects EXCEPT ![b] = <<>>]
    /\ free' = [free EXCEPT ![b] = 0]
    /\ live' = live \ {b}
    /\ Unlink(b)
    /\ UNCHANGED <<phase, acquiring, block_capacity, capacity, acquired_count>>

-----------------------------------------------------------------------------
\* The blocks met by following a link from b.
Walk(link, b) ==
    LET w[n \in 0 .. Cardinality(Blocks)] ==
            IF n = 0 THEN b
            ELSE IF w[n - 1] = NULL THEN NULL ELSE link[w[n - 1]]
    IN  w

Chain(link, b) == {Walk(link, b)[n] : n \in 0 .. Cardinality(Blocks)} \ {NULL}

\* Mutant of Destroy: the blocks on the full list are forgotten.
DestroyFreeListOnly ==
    /\ phase = "live" /\ ~acquiring
    /\ live' = live \ Chain(next, free_block_head)
    /\ phase' = "destroyed"
    /\ held' = {}
    /\ free_block_head' = NULL /\ free_block_tail' = NULL
    /\ full_block_head' = NULL /\ full_block_tail' = NULL
    /\ UNCHANGED <<acquiring, block_capacity, prev, next, capacity, free,
                   acquired_count, free_objects>>

\* mys_pool_destroy walks both lists and frees every block it meets, whether
\* or not the client still holds objects of it.
Destroy ==
    /\ phase = "live" /\ ~acquiring
    /\ live' = live \ (Chain(next, free_block_head) \cup Chain(next, full_block_head))
    /\ phase' = "destroyed"
    /\ held' = {}
    /\ free_block_head' = NULL /\ free_block_tail' = NULL
    /\ full_block_head' = NULL /\ full_block_tail' = NULL
    /\ UNCHANGED <<acquiring, block_capacity, prev, next, capacity, free,
                   acquired_count, free_objects>>

Next == \/ Create
        \/ \E b \in Blocks : AllocateBlock(b)
        \/ \E a \in MayFail : AllocationFails(a)
        \/ Acquire
        \/ \E o \in held : Release(o[1], o[2]) \/ ReleaseAndFree(o[1], o[2])
        \/ Destroy

Spec == Init /\ [][Next]_vars

-----------------------------------------------------------------------------
TypeOK ==
    /\ phase \in Phases
    /\ acquiring \in BOOLEAN
    /\ block_capacity \in Nat
    /\ {free_block_head, free_block_tail, full_block_head, full_block_tail}
           \subseteq live \cup {NULL}
    /\ live \in SUBSET Blocks
    /\ capacity \in [Blocks -> Nat]
    /\ free \in [Blocks -> Nat]
    /\ acquired_count \in [Blocks -> Nat]
    /\ free_objects \in [Blocks -> Seq(Nat)]
    /\ prev \in [Blocks -> BlockOrNull]
    /\ next \in [Blocks -> BlockOrNull]
    /\ held \subseteq Blocks \X Nat

\* While the pool lives, every object of every block is either held by the
\* client or on its block's stack, once: none is handed out twice, none is
\* lost, the free count is exact, and no held object is in a freed block.
BlockPartitioned(b) ==
    /\ free[b] = Len(free_objects[b])
    /\ \A k \in 1 .. free[b] : free_objects[b][k] \in 1 .. capacity[b]
    /\ \A k, l \in 1 .. free[b] : free_objects[b][k] = free_objects[b][l] => k = l
    /\ \A i \in 1 .. capacity[b] :
          <<b, i>> \in held <=> \A k \in 1 .. free[b] : free_objects[b][k] # i

ObjectsPartitioned ==
    phase = "live" => /\ \A o \in held : o[1] \in live /\ o[2] \in 1 .. capacity[o[1]]
                      /\ \A b \in live : BlockPartitioned(b)

\* The two lists are well formed in both directions and between them hold
\* every block: those with a free object on one, those without on the other.
ListIs(head, tail, S) ==
    /\ Chain(next, head) = S /\ Chain(prev, tail) = S
    /\ \A b \in S : /\ next[b] # NULL => prev[next[b]] = b
                    /\ prev[b] # NULL => next[prev[b]] = b
    /\ head # NULL => prev[head] = NULL
    /\ tail # NULL => next[tail] = NULL

ListsPartitionBlocks ==
    phase = "live" =>
        /\ ListIs(free_block_head, free_block_tail, {b \in live : free[b] > 0})
        /\ ListIs(full_block_head, full_block_tail, {b \in live : free[b] = 0})

\* Destroying the pool, in whatever state, gives all its memory back (what
\* test-pool.c asserts of the arena at the end of one random run).
DestroyFreesAll == phase = "destroyed" => live = {}

\* The pool grows only when every object of every block is handed out: a free
\* object is never forgotten behind a broken list.
GrowsOnlyWhenExhausted ==
    [][ live' \ live # {} =>
            \A b \in live : \A i \in 1 .. capacity[b] : <<b, i>> \in held ]_vars

\* Running out of memory is an error mys_pool_acquire reports (pool.h: NULL if
\* the operation fails), not the end of the process.
FailureIsReported == phase # "crashed"
=============================================================================
