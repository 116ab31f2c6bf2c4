------------------------------- MODULE Trace --------------------------------
(***************************************************************************)
(* The event trace, src/include/mys/impl/trace.c.                          *)
(*                                                                         *)
(* A trace stores events in blocks of growing capacity.  Logging an event  *)
(* is a hot path: it writes into the last block without a check and opens  *)
(* the next block when that one is full, so there must always be room in   *)
(* the last block.  An iterator is a cursor that crosses from block to     *)
(* block.  Blocks are only added at the end and only removed when the      *)
(* trace is destroyed, so their list is a sequence here.                   *)
(*                                                                         *)
(* The client iterates one iterator at a time (mys_trace_start_iter        *)
(* asserts it) and does not use it after it has destroyed the trace.  It   *)
(* may log while it iterates: the assertion against that is commented out. *)
(***************************************************************************)
EXTENDS Integers, Sequences

CONSTANTS Events,         \* the values that are logged
          Nothing,
          FirstCapacity,  \* 1024
          UINT32_MAX,
          MaxEvents       \* bound: the events that are logged

\* What a configuration must give.
TraceAssumption ==
    /\ Nothing \notin Events
    /\ FirstCapacity \in Nat \ {0} /\ UINT32_MAX \in Nat
    /\ FirstCapacity <= UINT32_MAX
    /\ MaxEvents \in Nat

VARIABLES
    phase,      \* "none", "live", "destroyed", or "crashed"
    blocks,     \* the blocks from e1block_head to e1block_tail
    being_iter, e1_iter_last_block, e1_iter_last_index,
    e1,         \* the <<block, index>> the client's iterator points at, or <<>>
    allocated,  \* number of allocations of the trace arena that are alive
    starved     \* a block could not be allocated (history variable)

iterator == <<being_iter, e1_iter_last_block, e1_iter_last_index, e1>>
vars == <<phase, blocks, iterator, allocated, starved>>

Init == /\ phase = "none"
        /\ blocks = <<>>
        /\ being_iter = FALSE
        /\ e1_iter_last_block = 0   \* position in blocks; 0 is NULL
        /\ e1_iter_last_index = 0
        /\ e1 = <<>>
        /\ allocated = 0
        /\ starved = FALSE

-----------------------------------------------------------------------------
\* block->size, and 0 where there is no block.
size(b) == IF b \in DOMAIN blocks THEN Len(blocks[b].events) ELSE 0

\* The capacity of the block that follows bs in _mys_expand_trace_block.
NextCapacity(bs) ==
    IF bs = <<>> THEN FirstCapacity
    ELSE LET c == bs[Len(bs)].capacity IN IF c < UINT32_MAX \div 2 THEN c * 2 ELSE c

\* _mys_expand_trace_block, from blocks bs and n allocations.  Its two callers
\* ignore that it can fail.
Expand(bs, n) ==
    \/ /\ blocks' = Append(bs, [capacity |-> NextCapacity(bs), events |-> <<>>])
       /\ allocated' = n + 2
       /\ UNCHANGED starved
    \/ /\ blocks' = bs
       /\ allocated' = n
       /\ starved' = TRUE

\* mys_trace_create, when there is memory for the trace itself.
Create ==
    /\ phase = "none"
    /\ phase' = "live"
    /\ Expand(<<>>, 1)
    /\ UNCHANGED iterator

\* There is a last block, and room in it.
tail == blocks[Len(blocks)]
HasRoom == blocks # <<>> /\ Len(tail.events) < tail.capacity

\* The events of each block, and those of the first n blocks in a row.
parts == [b \in DOMAIN blocks |-> blocks[b].events]
Joined(s, n) ==
    LET joined[k \in 0 .. n] == IF k = 0 THEN <<>> ELSE joined[k - 1] \o s[k]
    IN  joined[n]

\* The trace as a log.
Log == Joined(parts, Len(blocks))

WithEvent(e) == [blocks EXCEPT ![Len(blocks)].events = Append(@, e)]

\* Mutant of AppendEvent: the next block is opened one event too late.
AppendEventLate(e) ==
    /\ phase = "live" /\ Len(Log) < MaxEvents
    /\ HasRoom
    /\ IF Len(tail.events) = tail.capacity
       THEN Expand(WithEvent(e), allocated)
       ELSE blocks' = WithEvent(e) /\ UNCHANGED <<allocated, starved>>
    /\ UNCHANGED <<phase, iterator>>

\* _mys_trace_append1 of mys_trace_1p, 1u, 1i and 1d.
AppendEvent(e) ==
    /\ phase = "live" /\ Len(Log) < MaxEvents
    /\ HasRoom
    /\ IF Len(tail.events) + 1 = tail.capacity
       THEN Expand(WithEvent(e), allocated)
       ELSE blocks' = WithEvent(e) /\ UNCHANGED <<allocated, starved>>
    /\ UNCHANGED <<phase, iterator>>

\* _mys_trace_append1 through a NULL tail or past the end of the last block:
\* anything can follow.
AppendOutside ==
    /\ phase = "live"
    /\ ~HasRoom
    /\ phase' = "crashed"
    /\ UNCHANGED <<blocks, iterator, allocated, starved>>

\* mys_trace_start_iter.  Without an event, or without memory, it is NULL.
StartIter ==
    /\ phase = "live"
    /\ being_iter = FALSE
    /\ size(1) # 0
    /\ e1' = <<1, 0>>
    /\ being_iter' = TRUE
    /\ e1_iter_last_block' = 1
    /\ e1_iter_last_index' = 0
    /\ allocated' = allocated + 1
    /\ UNCHANGED <<phase, blocks, starved>>

\* Mutant of EndIter: the iterator is not freed.
EndIterLeaks ==
    /\ being_iter' = FALSE
    /\ e1_iter_last_block' = 0
    /\ e1_iter_last_index' = 0
    /\ e1' = <<>>
    /\ UNCHANGED allocated

\* mys_trace_interrupt_iter.
EndIter ==
    /\ being_iter' = FALSE
    /\ e1_iter_last_block' = 0
    /\ e1_iter_last_index' = 0
    /\ e1' = <<>>
    /\ allocated' = allocated - 1

InterruptIter == phase = "live" /\ e1 # <<>> /\ EndIter /\ UNCHANGED <<phase, blocks, starved>>

\* mys_trace_next_iter moves to the given place.
MoveTo(b, i) ==
    /\ e1' = <<b, i>>
    /\ e1_iter_last_block' = b
    /\ e1_iter_last_index' = i
    /\ UNCHANGED <<being_iter, allocated>>

\* Mutant of NextIter: the index is not reset in the next block.
NextIterKeepsIndex ==
    LET b == e1_iter_last_block
        i == e1_iter_last_index + 1
    IN  /\ phase = "live" /\ e1 # <<>> /\ being_iter
        /\ \/ i < size(b) /\ MoveTo(b, i)
           \/ i >= size(b) /\ i < size(b + 1) /\ MoveTo(b + 1, i)
           \/ i >= size(b) /\ i >= size(b + 1) /\ EndIter
        /\ UNCHANGED <<phase, blocks, starved>>

\* mys_trace_next_iter: the next event of the block, or the first of the next
\* block; without one the iteration ends.
NextIter ==
    LET b == e1_iter_last_block
        i == e1_iter_last_index + 1
    IN  /\ phase = "live" /\ e1 # <<>> /\ being_iter
        /\ \/ i < size(b) /\ MoveTo(b, i)
           \/ i >= size(b) /\ size(b + 1) > 0 /\ MoveTo(b + 1, 0)
           \/ i >= size(b) /\ size(b + 1) = 0 /\ EndIter
        /\ UNCHANGED <<phase, blocks, starved>>

\* mys_trace_destroy: both allocations of every block, and the trace.  An
\* iterator that the client still has is not given back.
Destroy ==
    /\ phase = "live"
    /\ phase' = "destroyed"
    /\ allocated' = allocated - 2 * Len(blocks) - 1
    /\ blocks' = <<>>
    /\ UNCHANGED <<iterator, starved>>

Next == \/ Create
        \/ \E e \in Events : AppendEvent(e)
        \/ AppendOutside
        \/ StartIter \/ NextIter \/ InterruptIter
        \/ Destroy

Spec == Init /\ [][Next]_vars

-----------------------------------------------------------------------------
\* As long as no allocation has failed, the unchecked write of an event stays
\* inside the last block: the block was opened in time.
WritesInside == phase = "live" => HasRoom \/ starved

\* After mys_trace_destroy the arena has everything back, however iterations
\* ended (what test-trace.c asserts of one run), but for one iterator that the
\* client was still iterating: that one is lost.
NothingLeaks == phase = "destroyed" => allocated = IF e1 = <<>> THEN 0 ELSE 1

\* The place in the log of the event that the iterator points at.
Position == IF e1 = <<>> THEN 0 ELSE Len(Joined(parts, e1[1] - 1)) + e1[2] + 1

State == CASE phase = "destroyed" -> "gone" [] phase = "crashed" -> "lost"
           [] OTHER -> phase
Gone == phase \in {"destroyed", "crashed"}

Abstract == INSTANCE EventLog WITH
    state <- State,
    log   <- IF Gone THEN <<>> ELSE Log,
    pos   <- IF Gone THEN 0 ELSE Position,
    seen  <- IF Gone \/ e1 = <<>> THEN Nothing
             ELSE blocks[e1[1]].events[e1[2] + 1]

\* An iteration ends by itself only behind the last event.
ReadsToTheEnd == [][NextIter /\ e1' = <<>> => Position = Len(Log)]_vars

\* A trace is a log that is read in order and to its end: no event is skipped,
\* repeated or lost where a block ends and the next begins.
ImplementsEventLog == Abstract!Spec /\ ReadsToTheEnd
=============================================================================
