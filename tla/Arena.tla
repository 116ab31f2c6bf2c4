------------------------------- MODULE Arena --------------------------------
(***************************************************************************)
(* The accounting of one memory arena, src/include/mys/impl/memory.c.      *)
(*                                                                         *)
(* Every allocation of libmys is charged to an arena: alive, freed, total  *)
(* and peak count bytes.  In debug mode the arena also keeps a hash of the *)
(* pointers that are alive, with three counters of its own, and            *)
(* mys_arena_print_leaked asserts that hash and counter agree.  The caller *)
(* says how large the memory is that it frees or reallocates.  Calls on    *)
(* one arena are sequential here; Registry is about several threads.       *)
(*                                                                         *)
(* The client frees and reallocates what is allocated and gives the right  *)
(* sizes, 0 among them, and may switch debug mode on and off at any time.  *)
(* Broken names what the records of debug mode do not survive.             *)
(***************************************************************************)
EXTENDS Integers, Sequences, FiniteSets, FiniteSetsExt

CONSTANTS Ptrs,         \* the addresses the C library can return
          NULL,
          Sizes,        \* the sizes the client asks for
          Word,         \* number of values of size_t
          MaxTotal,     \* bound: bytes ever allocated from the arena
          Broken        \* the rules of Rules that the client does not keep

\* The client gives a pointer back in the mode it was allocated in: freed in
\* debug mode without a record it is counted, without debug mode its record
\* stays.  In debug mode it reallocates no NULL.  It reallocates nothing to
\* size 0, which may free the memory and look like a failure.
Rules == {"same mode", "no realloc of NULL", "no realloc to 0"}

\* What a configuration must give.
ArenaAssumption ==
    /\ NULL \notin Ptrs /\ IsFiniteSet(Ptrs)
    /\ Sizes \subseteq Nat
    /\ MaxTotal \in Nat /\ Word \in Nat /\ MaxTotal < Word
    /\ Cardinality(Ptrs) < Word
    /\ Broken \subseteq Rules

VARIABLES
    phase,             \* "live", "destroyed", or "aborted" by an assertion
    alive, freed, total, peak,
    _enable_debug,
    _alive_count, _freed_count, _total_count,
    _debug_trace,      \* _debug_trace[p]: sizes of the records of p, latest first
    held,              \* the pointers that are allocated
    heap,              \* heap[p]: the size of the allocation at p, 0 without one
    recorded,          \* bytes the client recorded without allocating here
    lost,              \* bytes that realloc to size 0 freed, unnoticed (history)
    tracked            \* the held pointers allocated in debug mode (history)

bytes == <<alive, freed, total, peak>>
debug == <<_alive_count, _freed_count, _total_count, _debug_trace>>
client == <<held, heap, recorded, lost, tracked>>
vars == <<phase, bytes, _enable_debug, debug, client>>

Init == /\ phase = "live"
        /\ alive = 0 /\ freed = 0 /\ total = 0 /\ peak = 0
        /\ _enable_debug = FALSE
        /\ _alive_count = 0 /\ _freed_count = 0 /\ _total_count = 0
        /\ _debug_trace = [p \in Ptrs \cup {NULL} |-> <<>>]
        /\ heap = [p \in Ptrs |-> 0] /\ held = {} /\ tracked = {}
        /\ recorded = 0 /\ lost = 0

-----------------------------------------------------------------------------
\* MAKE_GCC_HAPPY_ALLOC_RECORD, from counters that are a and f by now.
AllocRecord(a, f, s) ==
    /\ alive' = a + s
    /\ freed' = f
    /\ total' = total + s
    /\ peak'  = IF peak < a + s THEN a + s ELSE peak

\* mys_free_record, where the client's sizes are right.
FreeRecord(s) ==
    /\ alive' = alive - s
    /\ freed' = freed + s
    /\ UNCHANGED <<total, peak>>

\* DEBUG_INSERT and DEBUG_DELETE, as functions of the debug state: a record
\* with its counters.
DebugState == [alive |-> _alive_count, freed |-> _freed_count,
               total |-> _total_count, trace |-> _debug_trace]

Inserted(d, p, s) ==
    [d EXCEPT !.total = (@ + 1) % Word, !.alive = (@ + 1) % Word, !.trace[p] = <<s>> \o @]

\* Mutant of Deleted: the record stays in the hash.
DeletedKeepsRecord(d, p) ==
    [d EXCEPT !.alive = (@ + Word - 1) % Word, !.freed = (@ + 1) % Word]

Deleted(d, p) ==
    [d EXCEPT !.alive = (@ + Word - 1) % Word, !.freed = (@ + 1) % Word,
              !.trace[p] = IF @ = <<>> THEN @ ELSE Tail(@)]

SetDebugState(d) ==
    /\ _alive_count' = d.alive /\ _freed_count' = d.freed
    /\ _total_count' = d.total /\ _debug_trace' = d.trace

\* _mys_arena_debug_delete refuses a size other than the recorded one.
SizeRefused(p, s) == _debug_trace[p] # <<>> /\ Head(_debug_trace[p]) # s

\* An assertion fails: mys_MPI_Abort.
Abort == phase' = "aborted" /\ UNCHANGED <<bytes, _enable_debug, debug, client>>

\* The client may give p back, or ask for a reallocation of p to s bytes.
MayGive(p) == (p \in tracked) # _enable_debug => "same mode" \in Broken
MayAsk(p, s) == IF p = NULL THEN _enable_debug => "no realloc of NULL" \in Broken
                ELSE MayGive(p) /\ (s = 0 => "no realloc to 0" \in Broken)

\* The client holds the memory at q, no longer that at p (one may be NULL).
Holds(p, q, s) ==
    /\ held' = (held \ {p}) \cup ({q} \ {NULL})
    /\ tracked' = (tracked \ {p}) \cup (IF _enable_debug THEN {q} \ {NULL} ELSE {})
    /\ heap' = [x \in Ptrs |-> IF x = q THEN s ELSE IF x = p THEN 0 ELSE heap[x]]

\* The number of records in the hash.
NumRecords == MapThenSumSet(LAMBDA p : Len(_debug_trace[p]), DOMAIN _debug_trace)

-----------------------------------------------------------------------------
\* mys_malloc2, mys_calloc2 and mys_aligned_alloc2, when the C library finds
\* memory at p, as it also does for 0 bytes.  When it does not, they return
\* NULL and record nothing.
Allocate(p, s) ==
    /\ phase = "live"
    /\ p \notin held
    /\ total + s <= MaxTotal
    /\ Holds(NULL, p, s)
    /\ AllocRecord(alive, freed, s)
    /\ IF _enable_debug THEN SetDebugState(Inserted(DebugState, p, s)) ELSE UNCHANGED debug
    /\ UNCHANGED <<phase, _enable_debug, recorded, lost>>

\* mys_free2.  Of NULL it does nothing.
Free(p) ==
    /\ phase = "live"
    /\ p \in held /\ MayGive(p)
    /\ IF _enable_debug /\ SizeRefused(p, heap[p]) THEN Abort
       ELSE /\ Holds(p, NULL, 0)
            /\ FreeRecord(heap[p])
            /\ IF _enable_debug THEN SetDebugState(Deleted(DebugState, p)) ELSE UNCHANGED debug
            /\ UNCHANGED <<phase, _enable_debug, recorded, lost>>

\* mys_realloc2 of p (or NULL) to s bytes.  The memory moves to q, q = p when
\* it stays in its place; or the C library returns NULL (q = NULL), and p stays
\* - unless s is 0, when that can also mean that p is freed, and the arena
\* restores the record and counts the bytes all the same.
Reallocate(p, q, s) ==
    LET old == IF p = NULL THEN 0 ELSE heap[p]
        gone == Deleted(DebugState, p)
    IN  /\ phase = "live"
        /\ p \in held \cup {NULL} /\ MayAsk(p, s)
        /\ q # NULL => q = p \/ q \notin held
        /\ total + s <= MaxTotal
        /\ IF _enable_debug /\ SizeRefused(p, old) THEN Abort
           ELSE /\ \/ /\ q = NULL
                      /\ IF _enable_debug
                         THEN SetDebugState(Inserted(gone, p, old)) ELSE UNCHANGED debug
                      /\ \/ UNCHANGED <<held, heap, tracked, lost>>
                         \/ s = 0 /\ p # NULL /\ Holds(p, NULL, 0) /\ lost' = lost + old
                      /\ UNCHANGED bytes
                   \/ /\ q # NULL
                      /\ IF _enable_debug
                         THEN SetDebugState(Inserted(gone, q, s)) ELSE UNCHANGED debug
                      /\ AllocRecord(alive - old, freed + old, s)
                      /\ Holds(p, q, s)
                      /\ UNCHANGED lost
                /\ UNCHANGED <<phase, _enable_debug, recorded>>

\* mys_alloc_record and mys_free_record, for memory that comes from elsewhere.
RecordAlloc(s) ==
    /\ phase = "live"
    /\ total + s <= MaxTotal
    /\ AllocRecord(alive, freed, s)
    /\ recorded' = recorded + s
    /\ UNCHANGED <<phase, _enable_debug, debug, held, heap, lost, tracked>>

RecordFree(s) ==
    /\ phase = "live"
    /\ s <= recorded
    /\ FreeRecord(s)
    /\ recorded' = recorded - s
    /\ UNCHANGED <<phase, _enable_debug, debug, held, heap, lost, tracked>>

\* mys_arena_set_debug.
SetDebug(val) ==
    /\ phase = "live"
    /\ _enable_debug' = val
    /\ UNCHANGED <<phase, bytes, debug, client>>

\* mys_arena_print_leaked asserts that the counter and the hash agree; it
\* changes nothing of the arena.
PrintLeaked ==
    /\ phase = "live"
    /\ IF _enable_debug /\ _alive_count # NumRecords THEN Abort ELSE UNCHANGED vars

\* mys_arena_destroy drops the hash of an arena in debug mode.  What is still
\* allocated from the arena stays allocated.
Destroy ==
    /\ phase = "live"
    /\ phase' = "destroyed"
    /\ _debug_trace' = [p \in DOMAIN _debug_trace |->
                            IF _enable_debug THEN <<>> ELSE _debug_trace[p]]
    /\ UNCHANGED <<bytes, _enable_debug, _alive_count, _freed_count, _total_count, client>>

Next == \/ \E p \in Ptrs, s \in Sizes : Allocate(p, s)
        \/ \E p \in Ptrs : Free(p)
        \/ \E p, q \in Ptrs \cup {NULL}, s \in Sizes : Reallocate(p, q, s)
        \/ \E s \in Sizes : RecordAlloc(s) \/ RecordFree(s)
        \/ \E val \in BOOLEAN : SetDebug(val)
        \/ PrintLeaked
        \/ Destroy

Spec == Init /\ [][Next]_vars

-----------------------------------------------------------------------------
\* The arena knows to the byte what its client holds, through reallocations
\* that move, grow in place, shrink or fail, and whenever debug mode is switched;
\* but for the memory that realloc to size 0 has freed.
AliveIsHeld ==
    /\ alive = MapThenSumSet(LAMBDA p : heap[p], Ptrs) + recorded + lost
    /\ total = alive + freed
    /\ peak \in alive .. total

\* For a client that keeps the rules, the hash holds one record for each pointer
\* allocated in debug mode, of its size, also when others were there before or
\* debug mode is off by now, the counter counts the records, so that
\* print_leaked lists what is leaked, and no call aborts.
TraceIsExact ==
    Broken = {} =>
        /\ phase # "aborted"
        /\ phase = "live" =>
            /\ \A p \in Ptrs : _debug_trace[p] = IF p \in tracked THEN <<heap[p]>> ELSE <<>>
            /\ _alive_count = NumRecords

\* The assertion of mys_arena_print_leaked, num_hash == arena->_alive_count,
\* holds whenever the arena could be printed.
PrintableCount == (phase = "live" /\ _enable_debug) => _alive_count = NumRecords
=============================================================================
