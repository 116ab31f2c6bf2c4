------------------------------- MODULE Library ------------------------------
(***************************************************************************)
(* The parts of the library that run in one thread and share nothing: an   *)
(* arena, an event trace, communicator groups, strings, type guards, the   *)
(* SHA-256 stream, and the functions of Partition, Base64, Format, Rand    *)
(* and Boxplot; and the making of directories, where processes share the   *)
(* file system.  A behaviour runs one of them, which part names; the       *)
(* others stay as they start.                                              *)
(***************************************************************************)
EXTENDS Integers, Sequences, Partition, Base64, Format, Boxplot

CONSTANTS
    Ptrs, NULL, Sizes, MaxTotal, Broken,                \* Arena
    Events, Nothing, FirstCapacity, UINT32_MAX, MaxEvents,        \* Trace
    NumRanks, Colors, Keys, Hosts, Numas, NumaNums,     \* CommGroup
    Char, Garbage, InitCapacity, StructSize, MaxLen, SelfAppend,  \* Strings
    Types, Values, Word, MaxOpen, Equal,                \* Guard; Word also of Arena and Rand
    Block, LengthBytes, Bytes, Dirt, UINT_MAX, MaxMessage, MaxPiece, \* Sha256
    MaxWeight, Tolerances, Tests, MaxElements, MaxParts, \* Partition
    MaxSource,                                          \* Base64
    Alphabet, Names, MaxText,                           \* Format, which has BufferSize
    Data, MaxData,                                      \* Boxplot
    Makers, Paths, Denied, Strangers                    \* Directories

VARIABLES
    part,
    arena_phase, arena_alive, freed, total, peak, _enable_debug,
    _alive_count, _freed_count, _total_count, _debug_trace, held, heap, recorded, lost,
    tracked,
    trace_phase, blocks, being_iter, e1_iter_last_block, e1_iter_last_index, e1,
    allocated, starved,
    by, me, host, numa, numa_num, color, local, rows, i, group_index, last_color, group_id, group_num,
    _group_ids, _local_ranks, _brothers, _neighbors, _group_sizes,
    size, capacity, buf, alive,
    node, num_record, records, open, phase,
    data, datalen, bitlen, state, message, digest,
    file, wanted, depth, at,
    job    \* the arguments of a call of a function

A == INSTANCE Arena WITH phase <- arena_phase, alive <- arena_alive
T == INSTANCE Trace WITH phase <- trace_phase
G == INSTANCE CommGroup
S == INSTANCE Strings
D == INSTANCE Guard
H == INSTANCE Sha256
R == INSTANCE Rand
K == INSTANCE Directories

\* Bytes are those of the code, a name is a text, and the bounds are numbers.
FunctionsAssumption ==
    /\ MaxWeight \in Nat /\ MaxElements \in Nat /\ MaxParts \in Nat /\ Tests \in Nat
    /\ MaxSource \in Nat /\ MaxText \in Nat /\ MaxData \in Nat /\ BufferSize \in Nat \ {0}
    /\ Bytes \subseteq 0 .. 255 /\ Names \subseteq Seq(Seq(Alphabet)) /\ Data \subseteq Int

ASSUME LibraryAssumption ==
    /\ A!ArenaAssumption /\ T!TraceAssumption /\ G!CommGroupAssumption
    /\ S!StringsAssumption /\ D!GuardAssumption /\ H!Sha256Assumption
    /\ R!RandAssumption /\ K!DirectoriesAssumption /\ FunctionsAssumption

NoGroup == /\ by = "none" /\ me = 0 /\ host = <<>> /\ numa = <<>> /\ numa_num = <<>> /\ color = <<>> /\ local = <<>>
           /\ rows = <<>> /\ i = 0 /\ group_index = 0 /\ last_color = 0 /\ group_id = 0 /\ group_num = 0
           /\ _group_ids = <<>> /\ _local_ranks = <<>> /\ _brothers = <<>>
           /\ _neighbors = <<>> /\ _group_sizes = <<>>

NoPath == file = <<>> /\ wanted = <<>> /\ depth = <<>> /\ at = <<>>

Idle == [of |-> "none"]

Init == /\ part \in {"arena", "trace", "groups", "strings", "guards", "digests", "directories",
                    "functions"}
        /\ IF part = "groups" THEN G!Init ELSE NoGroup
        /\ IF part = "directories" THEN K!Init ELSE NoPath
        /\ A!Init /\ T!Init /\ S!Init /\ D!Init /\ H!Init /\ job = Idle

\* The calls of the functions.
Texts(chars, n) == UNION {[1 .. k -> chars] : k \in 0 .. n}

CallNaive == \E n \in 0 .. MaxElements + 3, m \in 1 .. MaxParts + 1, b \in {0, 2} :
    job' = [of |-> "naive", begin |-> b, end |-> b + n, npart |-> m]
CallRcb == \E w \in Texts(0 .. MaxWeight, MaxElements), tol \in Tolerances, t \in 1 .. Tests, m \in 1 .. MaxParts :
    job' = [of |-> "rcb", weights |-> w, tolerance |-> tol, tests |-> t, npart |-> m]
CallBase64 == \E src \in Texts(Bytes, MaxSource) \ {<<>>} :
    job' = [of |-> "base64", src |-> src]
CallFormat == \E s \in Texts(Alphabet, MaxText), names \in Names :
    job' = [of |-> "format", names |-> names, expr |-> s]
CallRand == job' = [of |-> "rand"]
CallBoxplot == \E values \in Texts(Data, MaxData) \ {<<>>} :
    job' = [of |-> "boxplot", values |-> values]

Call == job = Idle /\ (CallNaive \/ CallRcb \/ CallBase64 \/ CallFormat \/ CallRand \/ CallBoxplot)

arenaVars == <<arena_phase, arena_alive, freed, total, peak, _enable_debug, _alive_count,
               _freed_count, _total_count, _debug_trace, held, heap, recorded, lost, tracked>>
traceVars == <<trace_phase, blocks, being_iter, e1_iter_last_block, e1_iter_last_index, e1,
               allocated, starved>>
groupVars == <<by, me, host, numa, numa_num, color, local, rows, i, group_index, last_color, group_id,
               group_num, _group_ids, _local_ranks, _brothers, _neighbors, _group_sizes>>
stringVars == <<size, capacity, buf, alive>>
guardVars == <<node, num_record, records, open, phase>>
digestVars == <<data, datalen, bitlen, state, message, digest>>
pathVars == <<file, wanted, depth, at>>

RunArena == /\ part = "arena" /\ A!Next
            /\ UNCHANGED <<part, traceVars, groupVars, stringVars, guardVars, digestVars, pathVars, job>>
RunTrace == /\ part = "trace" /\ T!Next
            /\ UNCHANGED <<part, arenaVars, groupVars, stringVars, guardVars, digestVars, pathVars, job>>
RunGroups == /\ part = "groups" /\ G!Visit
             /\ UNCHANGED <<part, arenaVars, traceVars, stringVars, guardVars, digestVars, pathVars, job>>
RunStrings == /\ part = "strings" /\ S!Next
              /\ UNCHANGED <<part, arenaVars, traceVars, groupVars, guardVars, digestVars, pathVars, job>>
RunGuards == /\ part = "guards" /\ D!Next
             /\ UNCHANGED <<part, arenaVars, traceVars, groupVars, stringVars, digestVars, pathVars, job>>
RunDigests == /\ part = "digests" /\ H!Next
              /\ UNCHANGED <<part, arenaVars, traceVars, groupVars, stringVars, guardVars, pathVars, job>>
RunDirectories == /\ part = "directories" /\ K!Next
                  /\ UNCHANGED <<part, arenaVars, traceVars, groupVars, stringVars, guardVars, digestVars, job>>
RunFunctions == /\ part = "functions" /\ Call
                /\ UNCHANGED <<part, arenaVars, traceVars, groupVars, stringVars, guardVars, digestVars, pathVars>>

Next == \/ RunArena \/ RunTrace \/ RunGroups \/ RunStrings
        \/ RunGuards \/ RunDigests \/ RunDirectories \/ RunFunctions
vars == <<part, arenaVars, traceVars, groupVars, stringVars, guardVars, digestVars, pathVars, job>>
Spec == Init /\ [][Next]_vars

-----------------------------------------------------------------------------
\* The counters and the debug records of an arena are what the heap holds.
ArenaExact == A!AliveIsHeld /\ A!TraceIsExact

\* The write of an event stays inside its block, a destroyed trace has given
\* everything back, and a trace is the log of EventLog.
WritesInside == T!WritesInside
NothingLeaks == T!NothingLeaks
ImplementsEventLog == T!ImplementsEventLog

\* The groups of a communicator are what CommGroup says they should be.
GroupsExact == part = "groups" => G!GroupsExact

\* A string does what StringSpec promises.
ImplementsString == S!ImplementsString

\* What type guards remember is what is open.
GuardExact == D!GuardExact

\* A digest is that of the whole message.
DigestIsOfMessage == H!DigestIsOfMessage

\* Who is told of a directory has it, and who is not was hindered.
DirectoriesExact == part = "directories" => K!DirectoriesExact

\* Every function gives what its module states about it, for these arguments:
\* parts that follow each other, a round trip through base64 with buffers of
\* any size, the meaning of a format whose names and specs fit into the buffers
\* of the code, random numbers and indexes inside their range, and a
\* box plot whose whiskers and fliers account for all values.
FunctionsExact ==
    CASE job.of = "naive"  -> NaivePartitions(job.begin, job.end, job.npart)
      [] job.of = "rcb"    -> RcbPartitions(job.weights, job.tolerance, job.tests, job.npart)
      [] job.of = "base64" -> \A n \in 0 .. EncodeLen(Len(job.src)), m \in 0 .. Len(job.src) + 3 :
                                  RoundTrip(job.src, n, m)
      [] job.of = "format" -> FormatExact(job.names, job.expr)
      [] job.of = "rand"   -> /\ \A mi, ma \in R!Words : R!RangeU64(mi, ma)
                              /\ \A mi, ma \in R!MinSigned .. R!MaxSigned : R!RangeI64(mi, ma)
                              /\ \A n \in 1 .. Word - 1 : R!IndexInside(n)
      [] job.of = "boxplot" -> BoxplotExact(job.values)
      [] OTHER -> TRUE
=============================================================================
