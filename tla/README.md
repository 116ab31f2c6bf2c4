# TLA+ models of libmys

libmys is a header-only C library of helpers for MPI programs: memory
accounting, object pools, loggers, event traces, checkpoints, crash reports.
This directory holds TLA+ models of its stateful and concurrent parts, TLC runs
that check them on small instances, and TLAPS proofs of the theorems that hold
for instances of every size. Paths below are relative to `src/include/mys/`.

To check a model: `tlc -config MCPool.cfg MCPool.tla`. To check a proof:
`tlapm PoolProofs.tla`.

## 1. The system

### Components, their state and their operations

| Component (source) | State | Operations | Modelled in |
|---|---|---|---|
| Spin mutex, thread ids (`thread.h`, `impl/thread.c`) | one word `tid` per lock; a process-wide counter of thread ids | init, destroy, lock, trylock, unlock; thread_id | `LockSpec`, `Mutex` |
| Object pool (`impl/pool.c`) | two doubly linked lists of blocks, a stack of free objects per block | create, acquire, release, destroy | `Pool` |
| Memory arenas (`impl/memory.c`) | byte counters; in debug mode a hash of live pointers and counts | malloc, calloc, realloc, free, record, set_debug, print_leaked, destroy | `Arena` |
| Arena registry (`impl/memory.c`) | one array of arenas, a mutex | register on first use, create, destroy, next_leaked | `Registry` |
| Event trace (`impl/trace.c`) | a list of growing blocks, one iterator | create, log, start / next / interrupt iter, destroy | `EventLog`, `Trace` |
| Logger (`impl/log.c`) | level, silent, handlers, once_map, a mutex | log_rank / self / once / ordered, add / remove / clear handler, set_level, silent | `Log`, `Collective` |
| Rank log files (`impl/ranklog.c`) | a table of folders per process, open files | open, close, write | `RankLog`, `Collective` |
| Distributed tables (`impl/table.c`) | columns, rows, cells per rank | build, dump | dump: `Collective` |
| Crash and timeout handling (`impl/debug.c`) | installed signals, saved actions, handler stack, timer, message, a mutex | init, fini, set / clear signal, message, set / restart / clear timeout, the handler | `Debug` |
| Checkpoints (`impl/checkpoint.c`) | a list of named time stamps, the set of names, a mutex | init, reset, checkpoint, dump | `Checkpoint` |
| Child processes (`impl/os.c`) | a process id, three pipe ends, captured output | popen create, test, wait, kill; prun create, destroy | `Popen` |
| Type guards (`impl/guard.c`) | per type: records of guarded variables, their count | begin, end | `Guard` |
| Communicator groups (`impl/commgroup.c`) | for each rank its group, rank in the group, brothers | create, create_node, create_numa, queries | `CommGroup` |
| Strings (`impl/string.c`) | a doubling buffer and its length | create, append, fmt, resize, clear, destroy | `StringSpec`, `Strings` |
| Formatter (`impl/format.c`) | a registry of passes, compiled runs | register, compile, apply | `Format` |
| SHA-256 (`impl/hash.c`) | a block that fills, a bit count, the state words | init, update, final | `Sha256` |
| Directories (`impl/os.c`) | the file system | mkdir, ensure_dir, ensure_parent | `Directories` |
| Base64, partitions, random ranges, box plots (`impl/base64.c`, `linalg.c`, `rand.c`, `statistic.c`) | none | pure functions | `Base64`, `Partition`, `Rand`, `Boxplot` |

### Not modelled

- The MPI stubs (a one-process MPI, no protocol); clock and network
  helpers, and backtraces (input and output around system calls).
- Mathematics, the other statistics, the floating-point random numbers and the generator's
  bit mixing, the other hashes and the sorting functions: floating point or
  arithmetic on wide words without state, out of TLC's reach.
- Building a table (cells, attributes) and the layout of its file;
  `mys_commgroup_dup` and `release`, which copy and free; the parsers of
  numbers in `string.c`; headers of macros; the pthread variant of the mutex,
  which forwards each call.
- `HPCB/`, `mys3/`, `myst/`, `mysg/`, the `uthash` headers, scripts and editor
  settings: vendored benchmarks and libraries, graphics and tooling, which are
  most of the lines of the repository and not the library's logic.

PROJECT.json lists all of them.

### How they interact

- Every allocation of the library is charged to an arena (`mys_malloc2`), and
  the first charge puts the arena into the registry, under the registry's mutex.
- Registry, logger, rank log, checkpoints and crash handling each own a
  `mys_mutex_t`. It is not recursive: locking it again returns EDEADLK, which
  every caller ignores, and the inner unlock releases the lock of the outer.
- A logger calls client handlers with its mutex held. Checkpoint's dump logs
  with its own mutex held: two locks, in the other order if a handler
  checkpoints.
- `mys_log_ordered`, rank logs and table dumps are collective: the ranks talk
  by barriers, a gather and tagged messages to rank 0.
- A parent and its children meet in pipes of a fixed size and in inherited
  descriptors: each can wait for the other for ever.
- A signal handler can interrupt any thread at any step, also one that holds
  the mutex the handler takes. A timeout runs a function on a thread of its own.

### What is hard, and what makes each part correct

- **Mutex**: compare-and-swap races, return codes that are stale when read,
  ids that reach the reserved words. Correct: at most one holder; codes tell the
  truth at the step that decides; it is the abstract lock; a free lock is taken.
- **Pool**: one wrong link in two lists while blocks move between them, are
  freed and reused; allocation failures. Correct: no object handed out twice or
  lost, lists exact, destroy frees everything, it grows only when exhausted.
- **Arena**: realloc that moves, shrinks or fails after its bookkeeping has
  begun; debug mode switched with memory allocated. Correct: counters and hash
  are what the heap holds.
- **Registry**: checks before the lock, a walk between whose calls arenas come
  and go, a full array. Correct: the array is exact; a walk neither repeats nor
  misses an arena.
- **Trace**: an unchecked write that relies on a block opened in time; an
  iterator over a log that grows. Correct: it is an append-only log, read in
  order; nothing leaks but an iterator still in use at the end.
- **Logger**: handlers that run for long with the lock held while others change
  the logger. Correct: handlers run one at a time, in order, only for wanted
  events, each event reaches all of them; once is once.
- **Collective calls**: ranks at different speeds, messages of successive calls
  with one tag, a rank that skips a barrier. Correct: barriers match, output is
  whole and in rank order, everybody finishes.
- **Crash handling**: a handler that interrupts its own lock, freed stacks,
  timers that expire while they are cleared. Correct: old handlers come back, the
  handler has its stack, a timeout is reported as one, a caught process ends.
- **Checkpoints**: two returns that keep the lock, a reset that frees what rows
  point to, a second lock under the first. Correct: rows keep their names, a
  dump is complete, a lock is given back but on those two returns.
- **Child processes**: pipes that fill, children that outlive their reader,
  codes and signals, descriptors left open, reads and waits that fail. Correct:
  captured output is the child's without its last newlines, what is left behind is
  what the caller was told, a call ends unless both wait for each other.
- **Groups, strings, guards, digests, functions**: boundaries. Correct: tables
  that are inverse to each other, a text that is what the operations say, records
  that are what is open, padding that does not see old bytes, parts without gaps.

## 2. The modules

Names of variables and operators are those of the source. A model keeps all
control and reduces data to what the properties tell apart.

**`LockSpec`, `Mutex`.** `LockSpec` is a lock: free, owned or destroyed. `Mutex`
is `thread.c`: `tid` is the word, `count` the id counter, `id[t]` a thread's id,
`holds` a history of who was told it holds the lock. `Call` and `ThreadId` are
the entry of an operation; `Lock`, `TryLock`, `Unlock`, `Destroy` are its
compare-and-swap, so operations of threads interleave at the atomic steps of the
code. Threads are undisciplined: they unlock what they do not hold, relock,
destroy. `Word` is the number of values of the word, and ids are drawn modulo it.

**`Pool`.** Block addresses are model values; `prev`, `next` and the four list
ends are kept exactly. `Create`, `Acquire` with `AllocateBlock` (three
allocations, `AllocationFails`), `Release`, `ReleaseAndFree`, `Destroy`. A freed
address may be returned by malloc again.

**`Arena`.** The four byte counters and the debug counters (modulo `Word`), the
hash as `_debug_trace[p]`, the C heap as `held` and `heap[p]` (memory of 0 bytes is
memory too). `Allocate`, `Reallocate` (in place, moved or failed; to size 0 it may
free and look like a failure, which the history `lost` counts), `Free`,
`RecordAlloc`, `RecordFree`, `SetDebug` (at any time, `tracked` is what was allocated
in debug mode), `PrintLeaked` (its assertion aborts), `Destroy`.

**`Registry`.** Several threads. `CheckRegistered` is the unlocked test,
`Register` the critical section, `Charge` the write of the counters; the walk
locks, reads one arena per step (`ScanPasses`, `ScanFinds`, `ScanEnds`) and
unlocks. The array's slots, including those beyond its end, are explicit.

**`EventLog`, `Trace`.** `EventLog` is an append-only log with one reader.
`Trace` is `trace.c`: `blocks` with capacities, `AppendEvent` (and
`AppendOutside`, the write behind a full block that follows a failed, unchecked
allocation), `Expand`, `StartIter`, `NextIter`, `InterruptIter`, `Destroy` (also in
the middle of an iteration). The
mapping flattens the blocks and turns the cursor into a position.

**`Log`.** Several threads. A call enters (`EnterLog`: lock, filter), calls the
handlers one by one (`CallHandler`, `HandlerReturns`) and leaves; everything
that changes the logger is one critical section (`Section`). `FindOnce` and
`InsertOnce` are the two critical sections of `mys_log_once`.

**`RankLog`, `Collective`.** `RankLog` holds the operators of the table of
folders. `Collective` runs a program of calls on every rank: an MPI of barriers,
FIFO channels per tag and a gather (external, modelled from its use: sends end
early or late, `buffers`), with `mys_log_ordered`, rank logs and table dumps as
actions between those points. Names that `Log` has too begin with `Rank` or `rank_`,
so that `LogProofs` can extend both.

**`Debug`.** `main` makes the calls of `debug.h`; every thread sets the message
and is hit by signals at every step outside the handler (`Crash`), and the
kernel runs out timers (`Expire`), whatever main is doing, and delivers
(`Timeout`). `set_signal` installs and then records, `clear_signal` reverts and then
forgets; setting a timeout has four steps, clearing it four (`Disarm`, `Undo`,
`Delete`, `Forget`), and the function of the timer, on a thread of its own, three
(`ExpireDelete`, `ExpireReached`, `ExpireKill`), all interleaved. `overtaken` records
that main deleted a timer that had run out before the function did. `fini` and the
handler are split where they take and release the lock: the handler may
interrupt the thread that holds it. `altstack` says that main's alternate stack
is the library's memory, alive or freed. Printing is one step; that a sent
signal is not reported and a timeout is, is kept.

**`Checkpoint`.** Several threads. `InitTest` is the test of `inited` without the
lock, `InitSets` and `InitReturns` the two outcomes under it; `Enter`, a body of
one to several steps and `Leave` are an operation. The lock answers EDEADLK to its
holder and EPERM to others, both ignored, as in `Mutex`. `DumpFails` and
`InitReturns` keep it (`kept`: its holder has come back from the call). The logger's lock is a variable of its own, taken by a
dump (`DumpReports`) and by clients (`LogEnter`, as often as they like), whose handlers checkpoint when
`HandlersCheckpoint` is set.

**`Popen`.** A parent with one thread and its children, which print, read and exit
at any speed; a unit of output is a character or a newline. The parent's system
calls are steps: `Read`, `ReadEnds`, `ReadGrows`, `ReadStops` and `ReadFails` are
`mys_readfd`, `Cut` drops the newlines at the end, `Close` and `Wait` or `WaitFails`
are the two halves of `mys_popen_wait`. `Kill` sends any signal: it ends the child,
stops it, or does neither. `TestRuns` and `TestFails` are `mys_popen_test`. Descriptors are kept exactly, also those a later child inherits.

**`Library`** runs the smaller parts, which have one thread and share nothing but
`Directories`: `part` says which one a behaviour runs. Each is a module of its own that states its own
properties: `Arena` and `Trace` (above), and

- `CommGroup`: the routines that create a group are initial states (a color and a
  key for each rank, or hosts, or hosts and NUMA nodes, each rank with the number of
  nodes of its own host; that a query of these fails is not modelled); `Visit` is one turn of the
  loop over the sorted rows. Tables are functions that would show a write outside;
- `StringSpec`, `Strings`: a string is its text, and the buffer with its garbage
  and its zero refines it, with the arena's account beside it;
- `Guard`: nodes, counts modulo `Word` and records, beside what the caller has open;
- `Sha256`: the block, its fill and the count of bits, with the compression
  function left abstract (it records its blocks) so that the digest *is* the padded
  message. An update is of at most `UINT_MAX` bytes: of more it never returns;
- `Directories`: several processes make directories of one tree; the `stat` and the
  `mkdir` of each name are steps of their own, and another program puts a file
  between them, also where a maker wants its directory. Nobody removes anything;
- `Partition`, `Base64`, `Format`, `Rand`, `Boxplot`: functions, without state. Quartiles are kept in quarters,
  so that doubles which hold integers are compared exactly. `Call` enumerates arguments;
  `FunctionsExact` compares each result with what the function should give.

## 3. The runs

| Run | Question | Bounds |
|---|---|---|
| `mutex` | exclusion, codes, refinement of `LockSpec`, progress | 3 threads, a word of 8 values |
| `pool` | objects, lists, destroy, growth, under failing mallocs | 3 block addresses, capacities 1, 2, 4, each address used up to 3 times |
| `registry` | the array, and walks beside changes | 2 threads, 4 arenas, capacity 3 |
| `log` | handlers, filtering, delivery, once | 2 threads, 2 levels, 3 places, 5 handlers ever added |
| `collective` | barriers, order, files, termination | 3 ranks, programs of 3 to 5 calls, 2 slots, 3 folders, cells 1 / 0 / 2 |
| `debug` | restoring, stack, timeouts, ending | 2 threads, 3 signals, room for 2, set up twice, 1 function of the timer at a time |
| `checkpoint` | rows, dumps, the lock | 2 threads, 2 names, 3 checkpoints |
| `popen` | output, clean-up, termination | 2 children, 4 programs of at most three steps, pipes of 1 unit, a given buffer of 2 |
| `library` | arena and trace (refinement of `EventLog`), groups, strings (refinement of `StringSpec`), guards, digests, directories, functions | see below |
| `arena_null_realloc`, `registry_overlap`, `log_once` | findings: what the code says of itself and does not keep | as above, 3 addresses for the arena |

Why these bounds are enough to make the hard cases happen:

- three threads: one holds the lock while two contend; 8 values leave five
  ids below the three sentinels;
- three blocks: head, middle and tail of a list, and a block that is head and
  tail; capacity 1 is the block that is empty and full at once;
- a registry of 3 for 4 arenas: removal from the first, middle and last place,
  and a refusal; two threads: one walks while the other changes the array;
- 3 handlers: one is removed between two others while a thread is at each of
  them; a fourth is refused;
- 3 ranks: two senders that race each other, and a rank without cells; programs
  of 5 calls open, write, close, open again and write;
- 3 checkpoints from a first capacity of 1: the array doubles twice; two
  threads are enough for one to wait at each lock the other holds, and for the
  second test of `inited`;
- a pipe of one unit is full after one print, a given buffer of two holds one
  unit and the terminator, and an allocated one starts with room for none; the second child inherits the first one's pipe ends;
- in `library`: the arena has 3 addresses, sizes 0 to 2 and 5 bytes in all, with room to move;
  8 events cross the boundaries of blocks of 1, 2, 4 and 4, and the doubling
  reaches its limit (`UINT32_MAX` = 5) as it does at 2^31 in the code; 4 ranks make groups of every shape
  up to four, with gaps between colors and equal keys; strings start at a capacity
  of 2 and double twice; SHA-256 has blocks of 4 bytes with 2 for the length, so
  messages end before, at and behind the place where the length still fits, and in the next
  block; an update of more than 4 bytes does not return; words have
  16 values; formats are all texts over an alphabet with both braces and the
  separator, with buffers of 3 that some names and specs do not fit; partitions are all weights and part numbers up to the bounds;
  two processes make directories in a tree of six, one place of which they have no right
  to, and a file can appear above a wanted directory and in its place; box plots are of up to 6 values, enough for
  an outlier on each side and every fraction of a quartile's place;
- 3 signals for 2 places: an array that is full, cleared and filled again.

Bounds that only cap counters are constants: `MaxCapacity`, `MaxReuse`,
`MaxTotal`, `MaxAlive`, `MaxEvents`, `MaxIds`, `MaxOnce`, `MaxInits`, `MaxTime`,
`MaxLen`, `MaxOpen`, `MaxMessage`, `MaxPiece`, `Expiries` (functions of the timer that
run at a time), and, of the arguments of
functions, `MaxWeight`, `MaxElements`, `MaxParts`, `MaxSource`, `MaxText`, `MaxData`. Symmetry is
used where no liveness is checked. `CHECK_DEADLOCK FALSE` stands where
the system may stop (a destroyed pool, a bound reached, a program at its end, a
process that has exited).

**Fairness.** `Mutex`: a thread inside an operation keeps running
(`WF(Step(t))`); nothing is assumed of threads outside of one. `Collective`: ranks
run and MPI progresses. `Debug`: threads in a call or in the handler run, the
threads of the timer run, an armed timer runs out, a sent signal is delivered.
`Checkpoint`: a thread inside a call runs on, also when it waits for a lock that stays
free. `Popen`: the parent goes on with a call it is in, and each child with its
program; that a read or a wait fails is never assumed. A spin lock gives no turn to
a particular thread, so progress is stated for the lock (`FreeLockIsTaken`) and,
in `HandlerEnds` and `LockIsGivenBack`, for clients that stop calling at some time:
then every call comes back, but for those that wait for a lock which
`mys_checkpoint_init` or a failed dump kept (findings 15 and 16).

**Preconditions, and what happens without them.** Some properties hold only for
clients that keep a rule, which a constant switches:

| Constant | Meaning of the checked value | Otherwise |
|---|---|---|
| `Broken = {}` (Arena), *no realloc of NULL* | no realloc of NULL in debug mode | run `arena_null_realloc` |
| *same mode* | a pointer is given back in the mode it was allocated in | `PrintableCount` fails (finding 21) |
| *no realloc to 0* | `realloc` to size 0, which can free the memory and return NULL, is not asked for | the record and the bytes of memory that is gone stay in the arena, the bytes as `lost` in `AliveIsHeld` |
| `Overlap = {}` (Registry) | no overlapping use of one arena | run `registry_overlap` |
| `OnceOverlaps = FALSE` (Log) | one thread at a time at a once-line | run `log_once` |
| `MayFail` without `"memory"` (Pool) | a block's object array is allocated | `FailureIsReported` fails (finding 1) |
| `FailsAlone = FALSE` (Collective) | a folder opens on all ranks or on none | `EverybodyFinishes`, `BarriersMatch` fail |
| `BeginsName = {}` (RankLog) | no folder name is a prefix of another | `RankLogsExact` fails |
| `HandlersCheckpoint = FALSE` (Checkpoint) | log handlers do not checkpoint | a dump and a log wait for each other for ever (a deadlock) |
| `SelfAppend = FALSE` (Strings) | a string is appended to itself only if it fits | `ImplementsString` fails |
| `Equal = FALSE` (Guard) | variables with equal bytes are not guarded at a time | `GuardExact` fails |
| none (Directories): a file at a wanted place in `Strangers` is excepted by `DirectoriesExact` | | `MadeIsThere` fails in the run (finding 13) |
| none (CommGroup): `HostsAreAlike`, a hypothesis inside `GroupsExact` | all hosts have equally many NUMA nodes | the run has hosts that differ, and there colors of two hosts are equal (0 * 2 + 1 and 1 * 1 + 0): `GroupsExact` without the hypothesis fails (finding 22) |
| none (Format): `InBuffers`, a hypothesis inside `FormatExact` | names and specs of a format are shorter than the buffers (`BufferSize`, 32 in the code) | the buffers are overrun (finding 19) |
| none (Sha256): `UINT_MAX` bounds an update | an update of more does not return | finding 20 |
| `Broken = {}` (Debug) | the three rules below | see below |

`Debug`, with a rule in `Broken`: *clear the last* - `clear_signal` moves the
signals but not the saved actions, and `fini` installs another signal's handler
(`FiniRestores`), and for a signal that is not set it installs whatever is saved
behind the last one and drops the last (with no signal set it would write before the
array, which is not modelled); *clear before fini* - the handler of a timeout survives
`fini` (`FiniRestores`); *no crash in init* - a signal between the installation of the
handlers and `sigaltstack` in a second `init` runs on the freed stack
(`HandlerHasStack`); no client can enforce this one, it is about luck.

There is no rule about when the timer runs out. A clear or a restart that finds an
expired timer either comes after the function of the timer has deleted it - then the
timeout is reported, or main's own deletion fails and the process ends - or it deletes
the timer first (`overtaken`), and what the late signal does is up to the handler of
that moment: nothing, the end of the process without a report, or a report of a
timeout that was set later. `TimeoutIsReported` says the first and excepts the second;
that a cleared timeout is off, `ClearedIsOff`, is violated (finding 14).

### Findings

1. `pool.c:160`: when the allocation of a block's memory fails, the cleanup
   reads a member that was never set (`FailureIsReported`, with `"memory"` in `MayFail`).
2. `memory.c:365`: in debug mode a realloc of NULL counts a free of nothing, and
   the assertion of `mys_arena_print_leaked` fails (run `arena_null_realloc`).
3. `memory.c:144`: two overlapping first allocations register one arena twice;
   a walk then returns an arena after itself (run `registry_overlap`).
4. `log.c:198`: two threads at one `mys_log_once` both log (run `log_once`).
5. `debug.c:220`: `clear_signal` leaves the saved actions where they were (see
   *clear the last* above).
6. `os.c:268`: after `mys_popen_test` has found the end of a child, the wait that
   `os.h:131` asks for closes nothing (`WaitCleansUpAfterTest` of `Popen`).
7. `guard.c:156`: of two equal variables the first end removes both records
   (`GuardExact` with `Equal = TRUE`).
8. `string.c:208`: a string appended to itself reads freed memory
   (`ImplementsString` with `SelfAppend = TRUE`).
9. `linalg.c:63`: the test cuts are compared with a sum that is not the one of
   the first cut (`BestCutIsTaken` of `Partition`).
10. `rand.c:178`: `mys_rand_str` never picks its last choice (`EveryChoiceComes` of
    `Rand`; that the index stays inside is checked and proved).
11. `format.c:183`: a byte less is freed than was allocated (`AccountCloses` of
    `Format`).
12. `statistic.c:191`: quartiles that are both 0 are not taken as equal, and all
    other values become fliers (`Autorange` of `Boxplot`).
13. `os.c:419`: a file that appears between `stat` and `mkdir` is taken for the
    directory (`MadeIsThere` of `Directories`; a wanted place is among `Strangers` in
    the run, and `DirectoriesExact` excepts just this).
14. `debug.c:829`: a timeout that is expiring when it is cleared is not off: its
    signal comes afterwards, or the second deletion of the timer ends the process
    (`ClearedIsOff` of `Debug`).
15. `checkpoint.c:81`: `mys_checkpoint_init` returns with the lock when another
    thread has initialised meanwhile, and the others wait (`LockIsGivenBack` without
    its exception).
16. `checkpoint.c:147`: so does a dump whose file cannot be opened.
17. `os.c:363`: the command of a `mys_prun_create2` that could not start its child is
    never freed (`CleanedUp` without its exception).
18. `os.c:333` and `370`: a prun says success also when a read or the wait failed
    (the exceptions of `OutputIsCaptured`).
19. `format.c:113`: names and specs of 32 characters and more overrun their buffers
    (`FormatExact` needs `InBuffers`).
20. `hash.c:93`: an update of more bytes than an `unsigned int` counts never ends (the
    first guard of `Update` of `Sha256`).
21. `memory.c:315`: memory from before debug mode, freed in debug mode, is counted
    without a record (`PrintableCount` with *same mode* in `Broken` of `Arena`).
22. `commgroup.c:216`: ranks of two hosts with different numbers of NUMA nodes can
    come into one group (`GroupsExact` without `HostsAreAlike`).
23. `rand.c:123`: ranges are half-open where one guide says closed (`RangeI64`, which
    says what the code does, is checked as it is).

Only findings 2, 3 and 4 have runs of their own. For each of the others the constant,
or the property, named with it shows it when it is put into the run of its module; 19
and 20 are hypotheses, since what follows an overrun or an endless loop is not modelled.

## 4. What is proved

The proofs are for every value of the constants that satisfies the modules'
assumptions, and check under TLAPS to the last leaf.

**`MutexProofs`** - any finite set of threads, any word with more values than
threads and sentinels (`WordLargeEnough`). Exclusion rests on the ids: the
counter equals the number of threads with an id, so it never wraps, so ids are
distinct and below the sentinels, so the word names its holder (`IInv`). From it:
`TypeCorrect`, `MutexExcludes`, `CodesAreTruthful`, and `MutexImplementsLock`, the
refinement of `LockSpec`.

**`PoolProofs`** - any set of block addresses, any capacity, any failures.
`IInv` adds to the object partition a *local* form of list correctness
(`LinksConsistent`): each block's links agree with its neighbours' and with the
list ends. It is inductive without induction along a list, and it is what makes
the head of the free list a block that has an object. From it:
`PoolTypeCorrect`, `PoolPartitionsObjects`, `PoolLinksConsistent`. It would allow a
ring of blocks beside a list; `ReachInv` says that the blocks of each list can be
numbered along its links (`Listed`), which every call changes in one of three ways:
a block is put in front, put at the end, or taken out. That the walk of the code
from a head follows the numbers is one induction (`ChainReaches`). From it:
`PoolListsPartition`, `PoolDestroyFrees`, `PoolGrowsOnlyWhenExhausted`.

**`LogProofs`** - any threads, levels, sites and length of the handler array.
Only the thread inside `_mys_log_impl` holds the mutex across steps, and every
change of the logger finds it free; so the handlers called so far are a prefix of
the array as it is now (`IInv`). From it: `LogTypeCorrect`,
`HandlersAreSerialized`, `HandlersKeepOrder`, `RunningHandlerIsWanted`,
`EventsReachAll`. With `~OnceOverlaps`, a second invariant gives `OnceLogsOnce`.

Its second part is about `Collective`, for any number of ranks, programs of any
length, cells and folders:

- `Past(k)` is what k calls of the program leave on a rank: its folders, silence
  and barriers. `MatchInv` says that every rank is as the calls it has made leave
  it, plus its barrier if it waits in one (`AllFollow`), and that no rank is in a
  call before all have entered the barriers of the calls before it (`NobodyAhead`).
  It alone makes a barrier match: `RanksMeetInTheSameCall`.
- `OrderInv` adds that `out` is what the ranks before `turn` have said, and that a
  rank has at most one message on its way, of the call it is in; the barrier at the
  end of `mys_log_ordered` is what keeps it from a second one. From it:
  `OrderedLogIsOrdered`.
- `DumpInv`: a dump has no barrier, so ranks can be several dumps apart. What keeps
  them apart is the order of a channel: the cells that rank 0 has received of a rank,
  followed by those on their way, are the cells the rank has sent (`CellsInFlight`).
  From it: `DumpsStayWhole`.
- `LogsAreExact`: no folder has two slots and an open one writes to its own file,
  so the slot that is found is the folder's. From it: `RankLogsStayExact`, which
  needs `BeginsName = {}`, and holds also with `FailsAlone`.

The other three need `FailsAlone = FALSE`: an `fopen` that fails on one rank only
returns on that rank before the barrier (`ranklog.c:122`) or the gather
(`table.c:185`), and the calls of the ranks no longer match.

**`CheckpointProofs`** - any threads, names, times and capacity. `mys_checkpoint_init`
and a failed dump return with the lock held, and the codes of the lock are ignored, so the
holder of the lock need not be inside; but who is inside holds it
(`InsideHoldsLock`), since no other thread's unlock takes effect. Rows are stored in the order of their times, a file is a
prefix of them, and a reset empties the rows before it frees a name. From it:
`BodiesExclude`, `RowsKeepTheirNames`, `DumpsAreComplete`.

**`RegistryProofs`** - any threads, arenas and capacity, for `Overlap = {}` (no two
calls use one arena at a time; `registry_overlap` shows why that is assumed). The
arenas that are flagged are those in the array, once each, up to `arena_size`; a
scan under way has recorded what lies before its index, and what a walk must
still return lies behind its pivot. From it: `ArrayIsExact`, `WalksAreExact`.

**`DebugProofs`** - any threads, signals, dispositions and size of the array, for
`Broken = {}` (the client keeps all three rules; each is needed, see above), and any
number of functions of the timer at a time. A signal whose handler is not the client's is recorded, and what is saved for a
recorded one is the client's, so a revert by main or by a handler on any thread
puts everything back (`RevertAllRestores`), and between `fini` and `init` nothing of
the module can run. A function of the timer that has deleted it keeps main from
forgetting the timeout (`TimerOK`): main's own deletion fails and ends the process
first. That needs that main was not quicker, and `overtaken` is the case in which it
was. From it: `FiniGivesBack`, `StackIsThere`, `TimeoutsAreReported`.

Its second part is about `Popen` (whose names that `Debug` has too begin with
`Popen` or `popen`), for any children, programs and sizes of pipes and buffers. Per
child (`KidInv`): a unit it printed is in the pipe or in the caller's buffer until the
newlines at the end are cut off (`UnitsAreKept`), a prun that has read a stream to its
end knows that its child has ended, so that the pipes it closes end nobody by a signal
(`EndIsEnd`), and what is open is known at every step (`OpenIsKnown`). Reads and waits
fail at any step; `short` and retval = -1 say what that costs. From it:
`CleanUpIsComplete`, `CapturedIsPrinted`.

**`FunctionProofs`** - the functions, for arguments of any size. TLC compares them
with what they should give for the arguments `Call` enumerates; here that holds for
all. A function that is defined by recursion is a `CHOOSE`, of which nothing is
known until the equation is shown to have a solution: `RecursionDefines` shows it
for equations that ask for smaller arguments only, and a fold is such a function.

- *Partitions.* `NaivePartsFit` is division with remainder. A call of
  `mys_partition_rcb` makes calls for fewer parts with cuts inside of its interval
  (`CutInside`), wherever weights and tolerance put the cut, so the parts follow each
  other (`RcbPartsFit`); they can be empty.
- *Base64.* Three bytes are four digits and back, by arithmetic on the bits that a
  digit takes of each byte. A buffer that is too small ends the loop at a whole group,
  so what comes back is a beginning of the source (`EncodingComesBack`).
- *Box plots.* Sorting is defined by rank - a value has as many places as it is there,
  behind all that are less - so each value fills the places between two counts
  (`PlacesOf`). A whisker that stops at a value leaves the fliers outside of it; an
  interpolated quartile lies between its two neighbours (`BoxplotsAccountForAll`).
- *Formats.* `Compile` goes from brace to brace with two cursors; `Meaning` says of
  each place of the text by itself what it stands for. The invariant of the loop is
  that what is compiled so far means what is behind the cursor (`FormatsMean`). Names
  and specs are taken to fit into the buffers they are copied to (`InBuffers`).

**`LibraryProofs`** - the parts of `Library`, for any constants that
`LibraryAssumption` allows. A step of `Library` is a step of one part
(`StepsOfParts`), so each part has an invariant of its own:

- *Trace.* The last block has room unless an allocation failed, since an append
  that fills it opens the next; the account is one, two for each block and one for an
  open iterator, which a destroy in the middle of an iteration loses; an iterator points at an event (`TraceInv`): `WritesStayInside`,
  `TracesDoNotLeak`. With "only the last block is empty" it gives the refinement of
  `EventLog` (`TraceIsEventLog`): `Joined(s, k)` is the concatenation of the first k
  blocks, so the cursor (block, index) is a position, and going on to the next block
  is position + 1. `ReadsToTheEnd` is the part of `ImplementsEventLog` that the log
  cannot say.
- *Guard.* The records of a type are what is open, in order, and its count is
  their number below `Word`. Removing by value instead of by place is right when open
  values differ, which is the hypothesis `Equal = FALSE` of `GuardsAreExact`.
- *Directories.* Nothing that exists is taken away and it lies in a directory
  (`TreeIsWhole`), so a maker that is told of its last directory has all of them; a
  name it went past exists, and if that is a file the next one fails
  (`DirectoriesAreMade`). There is no next one after the last: a file that another
  program puts there is taken for the directory, and that is the one exception.
- *Arena.* `alive` is a sum over the heap, `SumIs`; one lemma says how a sum follows
  an update (`SumFollows`). `BytesInv` needs no hypothesis (`ArenaCountsBytes`): what
  realloc to size 0 has freed is counted in `lost`. `RecordsInv` says that the records
  mirror the pointers in `tracked`, those allocated in debug mode, whatever else is
  allocated and whenever debug mode is switched. It needs the three rules
  (`Broken = {}` in `ArenaIsExact`): a pointer given back in the other mode is counted
  without a record or leaves one, a realloc of NULL counts a free of nothing (the run
  `arena_null_realloc`), and one to size 0 can restore the record of memory that is
  gone.
- *Groups.* The id of a rank's group is the number of groups with a smaller color,
  counted by their ranks 0 (`IdOf`). `MPI_Comm_split` gives the members of a group
  different local ranks below their number, so they fill it (pigeonhole,
  `LocalsFill`) and exactly one is 0; so ids follow colors (`IdsFollow`) and fill
  0 .. `group_num` - 1 (`IdsFill`). The sorted rows are different, so all of a group
  come before the next, and the pass gives a row the id of the row before or the
  next (`FirstId`, `NextId`). After i rows each table is right for the ranks of
  these rows (`PassInv`): an entry names the one rank it should, or is -1 while no
  row has it. Colors of NUMA groups are quotient and remainder of one number
  (`QuotientIsUnique`) where hosts have equally many nodes (`HostsAreAlike`, inside of
  `GroupsExact`); the tables are right for the colors in any case.
- *Strings.* Doubling ends with room enough (`ReachIs`), the text lies below the
  zero, and each call makes the step of `StringSpec` or none (`StringsKeepPromise`),
  with `SelfAppend = FALSE`: appending a string to itself reads memory that was moved.
- *Sha256.* `IsContext(c, m)`: the context holds the whole blocks of m in `state`,
  the rest in `data`, and eight times the bytes of the whole blocks modulo the word in
  `bitlen`. An update keeps it byte by byte. That the last blocks are those of the
  padded message (`DigestsAreOfMessages`) is arithmetic with a variable block size:
  that remainders exist and are unique is proved by induction (`Remainder`).
- *Functions.* A call that `Library` has made is one of those it can make (`JobInv`),
  and for each the theorems of `FunctionProofs` give what `FunctionsExact` says
  (`FunctionsStayExact`). The ranges of random numbers are proved here, as sets: every
  number of a range is drawn and no other (`UnsignedRange`, `SignedRange`), for any even
  `Word`; of the index of `mys_rand_str` only that it is inside (`IndexRange`). For a signed range the difference is taken as an
  unsigned word, and the sum wraps back into the range.

The provers know neither induction nor folds. `FunctionProofs` starts with what both
modules need: `SetInduction` and `SubsetInduction` (induction for a property given as a
*set*, from the library's well-founded sets), the equations of `MapThenFoldSet` and
`FoldLeft` (`FoldIsFunction`, `FoldLeftIsFunction`), sums, concatenation.

**Only model-checked:** the liveness properties (`FreeLockIsTaken`,
`EverybodyFinishes`, `HandlerEnds`, `LockIsGivenBack`, `CallsEnd`), since fairness is
out of the reach of the installed provers. Every invariant that a passing run checks
is a theorem.

**Abstractions to keep in mind.** Counters of one arena are charged in one step;
in C they are plain variables, and threads that share an arena race on them.
Handlers do not log to the logger that calls them. Memory is sequentially
consistent (the lock's atomics are, by default). One thread per rank in
`Collective`. No signal hits a thread inside the handler of `Debug`. A deleted
timer answers with an error, after which `debug.c` calls `exit(1)`. One iteration of a
trace at a time (its assertion), and no event is read after the trace is destroyed.
The routine that makes NUMA groups returns NULL when a query of the system fails; that
is not modelled (nor that the ranks which do not fail then wait for this one). Nothing
that follows a write outside of memory or an endless loop is modelled.

## 5. The plan

Done, in this order: `LockSpec`, `Mutex`, `MutexProofs`; `Pool`, `PoolProofs`;
`Arena`; `Registry`; `EventLog`, `Trace`; `Log`, `LogProofs`; `RankLog`,
`Collective`; `Debug`; `Checkpoint`; `Popen`; `CommGroup`, `StringSpec`, `Strings`,
`Guard`, `Sha256`, `Partition`, `Base64`, `Format`, `Rand`, `Directories`, `Boxplot` in `Library`;
`CheckpointProofs`, `RegistryProofs`, `DebugProofs` (with `Popen`), `LibraryProofs`; the
collective calls in `LogProofs`; `FunctionProofs`.

What could follow:

1. `Log`: creating and destroying a logger, changing its communicator; handlers
   that log to their own logger (EDEADLK ignored) behind a constant.
2. `Arena` with several threads: the counters split into reads and writes, to
   show what the race does to `total = alive + freed`.
3. `CommGroup`: dup and release. The building of a table.
4. Proofs: the preconditions of the findings, that each of them is needed.
