----------------------------- MODULE Collective -----------------------------
(***************************************************************************)
(* The collective operations of libmys, over the processes of an MPI       *)
(* program: mys_log_ordered (log.c), RANKLOG_OPEN and RANKLOG_CLOSE        *)
(* (ranklog.c) and mys_table_dump (table.c), all under                     *)
(* src/include/mys/impl/.                                                  *)
(*                                                                         *)
(* Every rank runs the same program, a sequence of calls.  Ranks proceed   *)
(* at their own speed and meet in barriers and messages only.  MPI is      *)
(* external and modelled from how it is used: messages from one rank with  *)
(* one tag arrive in order, a send may end before the message is received  *)
(* or only then, a gather ends at a rank other than the root as soon as    *)
(* that rank has contributed, and the n-th barrier a rank enters is the    *)
(* n-th barrier of the communicator, whatever call it is part of.          *)
(*                                                                         *)
(* A rank has one thread (mys_mpi_ensure_init asks for                     *)
(* MPI_THREAD_SINGLE), so the mutexes of the logger and of the rank log    *)
(* are never contended here.                                               *)
(*                                                                         *)
(* What Log names too (pc, silent, vars, Init, Next, ...) has Rank or rank *)
(* before its name: LogProofs extends both modules.                        *)
(***************************************************************************)
EXTENDS RankLog, SequencesExt

CONSTANTS N,             \* the number of ranks
          Programs,      \* the programs the ranks may run
          NumCells,      \* NumCells[r]: the cells of the table at rank r
          Unopenable,    \* the folders no file may be allowed in
          FailsAlone     \* whether an fopen can fail at one rank only

Ranks == 0 .. N - 1
Tags == {"log", "count", "cell"}   \* 2717, the gather, 1000

Ops == {"ordered", "silence", "unsilence", "dump", "open", "close", "write"}

ASSUME CollectiveAssumption ==
    /\ N \in Nat \ {0}
    /\ NumCells \in [Ranks -> Nat]
    /\ Unopenable \subseteq Folders /\ FailsAlone \in BOOLEAN
    /\ Programs \subseteq Seq([op : Ops, folder : Folders])

VARIABLES
    program,      \* the program this execution runs
    buffers,      \* whether MPI lets a send end before it is received
    unopenable,   \* those in which no rank can open its file
    at,           \* at[r]: the number of the call r is in or makes next
    rank_pc,      \* rank_pc[r]: where in that call it is, "call" before it
    rank_silent,  \* rank_silent[r]: of the rank's logger
    dests, file,  \* of the rank log; file[r][f]: the lines of r's file in f,
                  \* each the folder it was logged to
    entered,      \* entered[r]: barriers r has entered
    channel,      \* channel[r][tag]: messages on their way from r to rank 0
    turn,         \* the rank whose messages rank 0 waits for
    all_num_cells,
    out,          \* what rank 0 has printed in mys_log_ordered
    rows          \* what rank 0 has written to table files

config    == <<program, buffers, unopenable>>
mpi       == <<entered, channel>>
root      == <<turn, all_num_cells, out, rows>>
logs      == <<dests, file>>
rank_vars == <<config, at, rank_pc, rank_silent, logs, mpi, root>>

RankInit == /\ program \in Programs
            /\ buffers \in BOOLEAN
            /\ unopenable \in SUBSET Unopenable
            /\ at = [r \in Ranks |-> 1]
            /\ rank_pc = [r \in Ranks |-> "call"]
            /\ rank_silent = [r \in Ranks |-> FALSE]
            /\ dests = [r \in Ranks |-> <<>>]
            /\ file = [r \in Ranks |-> [f \in Folders |-> <<>>]]
            /\ entered = [r \in Ranks |-> 0]
            /\ channel = [r \in Ranks |-> [tag \in Tags |-> <<>>]]
            /\ turn = 0
            /\ all_num_cells = [r \in Ranks |-> 0]
            /\ out = <<>>
            /\ rows = <<>>

-----------------------------------------------------------------------------
\* r makes the call op of its program.
Calls(r, op) == /\ rank_pc[r] = "call" /\ at[r] <= Len(program)
                /\ program[at[r]].op = op

Folder(r) == program[at[r]].folder

RankGoto(r, step) == rank_pc' = [rank_pc EXCEPT ![r] = step] /\ UNCHANGED at

\* The call of r is over.
RankReturn(r) == /\ rank_pc' = [rank_pc EXCEPT ![r] = "call"]
                 /\ at' = [at EXCEPT ![r] = @ + 1]

\* MPI: the n-th barrier lets nobody pass before all have entered it.
EnterBarrier(r) == /\ entered' = [entered EXCEPT ![r] = @ + 1]
                   /\ RankGoto(r, "barrier")

LeaveBarrier(r) ==
    /\ rank_pc[r] = "barrier"
    /\ \A q \in Ranks : entered[q] >= entered[r]
    /\ RankReturn(r)
    /\ UNCHANGED <<config, rank_silent, logs, mpi, root>>

\* MPI: rank r sends msgs with a tag; it goes on when they are buffered or received.
Send(r, tag, msgs) == channel' = [channel EXCEPT ![r][tag] = @ \o msgs]

SendEnds(r, tag) == buffers \/ channel[r][tag] = <<>>

\* MPI: rank 0 takes the first n messages of r off the channel.
Receive(r, tag, n) == channel' = [channel EXCEPT ![r][tag] = SubSeq(@, n + 1, Len(@))]

-----------------------------------------------------------------------------
\* mys_log_silent, called by every rank.
SetSilent(r) ==
    \E op \in {"silence", "unsilence"} :
        /\ Calls(r, op)
        /\ rank_silent' = [rank_silent EXCEPT ![r] = op = "silence"]
        /\ RankReturn(r)
        /\ UNCHANGED <<config, logs, mpi, root>>

\* mys_log_ordered on a rank whose logger is silent.
OrderedSilent(r) ==
    /\ Calls(r, "ordered") /\ rank_silent[r]
    /\ RankReturn(r)
    /\ UNCHANGED <<config, rank_silent, logs, mpi, root>>

\* mys_log_ordered at rank 0: its own message, then it waits for the others'.
OrderedRoot ==
    /\ Calls(0, "ordered") /\ ~rank_silent[0]
    /\ out' = Append(out, <<at[0], at[0], 0>>)
    /\ turn' = 1
    /\ RankGoto(0, "receive")
    /\ UNCHANGED <<config, rank_silent, logs, mpi, all_num_cells, rows>>

\* Mutant of OrderedReceive: the messages are printed as they arrive.
OrderedReceiveAny ==
    /\ rank_pc[0] = "receive" /\ turn < N
    /\ \E q \in Ranks : /\ channel[q]["log"] # <<>>
                        /\ out' = Append(out, <<at[0], Head(channel[q]["log"]), q>>)
                        /\ Receive(q, "log", 1)
    /\ turn' = turn + 1
    /\ UNCHANGED <<config, at, rank_pc, rank_silent, logs, entered, all_num_cells, rows>>

\* Rank 0 probes for, receives and prints the message of the next rank.
OrderedReceive ==
    /\ rank_pc[0] = "receive" /\ turn < N
    /\ channel[turn]["log"] # <<>>
    /\ out' = Append(out, <<at[0], Head(channel[turn]["log"]), turn>>)
    /\ Receive(turn, "log", 1)
    /\ turn' = turn + 1
    /\ UNCHANGED <<config, at, rank_pc, rank_silent, logs, entered, all_num_cells, rows>>

\* Mutant of OrderedRootEnds: rank 0 does not enter the barrier.
OrderedRootNoBarrier ==
    /\ rank_pc[0] = "receive" /\ turn = N
    /\ RankReturn(0)
    /\ UNCHANGED <<config, rank_silent, logs, mpi, root>>

\* It has printed all messages.
OrderedRootEnds ==
    /\ rank_pc[0] = "receive" /\ turn = N
    /\ EnterBarrier(0)
    /\ UNCHANGED <<config, rank_silent, logs, channel, root>>

\* mys_log_ordered at another rank.
OrderedSend(r) ==
    /\ r # 0 /\ Calls(r, "ordered") /\ ~rank_silent[r]
    /\ Send(r, "log", <<at[r]>>)
    /\ RankGoto(r, "sent")
    /\ UNCHANGED <<config, rank_silent, logs, entered, root>>

\* Mutant of OrderedSent: no barrier at the ranks that send.
OrderedSentNoBarrier(r) ==
    /\ rank_pc[r] = "sent" /\ SendEnds(r, "log")
    /\ RankReturn(r)
    /\ UNCHANGED <<config, rank_silent, logs, mpi, root>>

\* Its message is out of its hands.
OrderedSent(r) ==
    /\ rank_pc[r] = "sent" /\ SendEnds(r, "log")
    /\ EnterBarrier(r)
    /\ UNCHANGED <<config, rank_silent, logs, channel, root>>

-----------------------------------------------------------------------------
\* fopen succeeds on r or not: on every rank alike, unless FailsAlone.
Opens(r, f) == f \notin unopenable
MayFail(r, f) == f \in unopenable \/ FailsAlone

\* RANKLOG_OPEN that fails before or at the fopen: there is no barrier.
OpenRefused(r) ==
    /\ Calls(r, "open")
    /\ MayOpen(dests[r], Folder(r)) => MayFail(r, Folder(r))
    /\ RankReturn(r)
    /\ UNCHANGED <<config, rank_silent, logs, mpi, root>>

\* Mutant of Open: the file is truncated when it is opened again.
OpenTruncates(r) ==
    LET f == Folder(r)
    IN  /\ Calls(r, "open") /\ MayOpen(dests[r], f) /\ Opens(r, f)
        /\ dests' = [dests EXCEPT ![r] = Opened(@, f)]
        /\ file' = [file EXCEPT ![r][f] = <<>>]
        /\ EnterBarrier(r)
        /\ UNCHANGED <<config, rank_silent, channel, root>>

\* RANKLOG_OPEN that succeeds.
Open(r) ==
    LET f == Folder(r)
    IN  /\ Calls(r, "open") /\ MayOpen(dests[r], f) /\ Opens(r, f)
        /\ dests' = [dests EXCEPT ![r] = Opened(@, f)]
        /\ file' = [file EXCEPT ![r][f] = IF Truncates(dests[r], f) THEN <<>> ELSE @]
        /\ EnterBarrier(r)
        /\ UNCHANGED <<config, rank_silent, channel, root>>

\* RANKLOG_CLOSE of a folder that is not open: there is no barrier.  (For one
\* that was never opened the code reads two counters of the slot before the first,
\* ranklog.c:155-156; it uses neither.)
CloseRefused(r) ==
    /\ Calls(r, "close") /\ ~IsOpen(dests[r], Folder(r))
    /\ RankReturn(r)
    /\ UNCHANGED <<config, rank_silent, logs, mpi, root>>

\* RANKLOG_CLOSE.
Close(r) ==
    /\ Calls(r, "close") /\ IsOpen(dests[r], Folder(r))
    /\ dests' = [dests EXCEPT ![r] = Closed(@, Folder(r))]
    /\ EnterBarrier(r)
    /\ UNCHANGED <<config, rank_silent, file, channel, root>>

\* RANKLOG; it is not collective, but every rank makes the call some time.
Write(r) ==
    LET f == Folder(r)
    IN  /\ Calls(r, "write")
        /\ IF IsOpen(dests[r], f)
           THEN /\ dests' = [dests EXCEPT ![r] = Wrote(@, f)]
                /\ file' = [file EXCEPT ![r][FileOf(dests[r], f)] = Append(@, f)]
           ELSE UNCHANGED logs
        /\ RankReturn(r)
        /\ UNCHANGED <<config, rank_silent, mpi, root>>

-----------------------------------------------------------------------------
\* Mutant of DumpRoot: the loop over the ranks starts with rank 1.
DumpRootSkipsOwn ==
    /\ Calls(0, "dump")
    /\ RankGoto(0, "gather") /\ turn' = 1
    /\ UNCHANGED <<config, rank_silent, logs, mpi, all_num_cells, out, rows>>

\* mys_table_dump at rank 0: it opens the file and goes to the gather; if the
\* file cannot be opened it returns, and nobody else knows.
DumpRoot ==
    /\ Calls(0, "dump")
    /\ \E failed \in {FALSE, FailsAlone} :
          IF failed THEN RankReturn(0) /\ UNCHANGED turn
          ELSE RankGoto(0, "gather") /\ turn' = 0
    /\ UNCHANGED <<config, rank_silent, logs, mpi, all_num_cells, out, rows>>

\* The gather at rank 0.
DumpGather ==
    /\ rank_pc[0] = "gather"
    /\ \A q \in Ranks \ {0} : channel[q]["count"] # <<>>
    /\ all_num_cells' = [q \in Ranks |-> IF q = 0 THEN NumCells[0] ELSE Head(channel[q]["count"])]
    /\ channel' = [q \in Ranks |-> IF q = 0 THEN channel[0]
                                   ELSE [channel[q] EXCEPT !["count"] = Tail(@)]]
    /\ RankGoto(0, "collect")
    /\ UNCHANGED <<config, rank_silent, logs, entered, turn, out, rows>>

\* The cells a rank sends in its k-th call: the call, the rank and a number.
Cells(r, k) == [i \in 1 .. NumCells[r] |-> <<k, r, i>>]

\* One turn of rank 0's loop: all cells of one rank are received and written.
DumpCollect ==
    LET n == all_num_cells[turn]
        cells == IF turn = 0 THEN Cells(0, at[0]) ELSE SubSeq(channel[turn]["cell"], 1, n)
    IN  /\ rank_pc[0] = "collect" /\ turn < N
        /\ turn # 0 => Len(channel[turn]["cell"]) >= n
        /\ rows' = rows \o [i \in 1 .. n |-> <<at[0], cells[i]>>]
        /\ IF turn = 0 THEN UNCHANGED channel ELSE Receive(turn, "cell", n)
        /\ turn' = turn + 1
        /\ UNCHANGED <<config, at, rank_pc, rank_silent, logs, entered, all_num_cells, out>>

\* It has written the cells of all ranks.
DumpRootEnds ==
    /\ rank_pc[0] = "collect" /\ turn = N
    /\ RankReturn(0)
    /\ UNCHANGED <<config, rank_silent, logs, mpi, root>>

\* mys_table_dump at another rank: its contribution to the gather.
DumpCount(r) ==
    /\ r # 0 /\ Calls(r, "dump")
    /\ Send(r, "count", <<NumCells[r]>>)
    /\ RankGoto(r, "gather")
    /\ UNCHANGED <<config, rank_silent, logs, entered, root>>

\* Its turn of the loop: it starts to send all its cells.
DumpSend(r) ==
    /\ r # 0 /\ rank_pc[r] = "gather" /\ SendEnds(r, "count")
    /\ Send(r, "cell", Cells(r, at[r]))
    /\ RankGoto(r, "wait")
    /\ UNCHANGED <<config, rank_silent, logs, entered, root>>

\* mys_MPI_Waitall, and the end of the call.
DumpSent(r) ==
    /\ rank_pc[r] = "wait" /\ SendEnds(r, "cell")
    /\ RankReturn(r)
    /\ UNCHANGED <<config, rank_silent, logs, mpi, root>>

-----------------------------------------------------------------------------
Done == \A r \in Ranks : rank_pc[r] = "call" /\ at[r] = Len(program) + 1

Finish == Done /\ UNCHANGED rank_vars

Root == \/ OrderedRoot \/ OrderedReceive \/ OrderedRootEnds
        \/ DumpRoot \/ DumpGather \/ DumpCollect \/ DumpRootEnds

Step(r) == \/ SetSilent(r) \/ OrderedSilent(r) \/ OrderedSend(r) \/ OrderedSent(r)
           \/ OpenRefused(r) \/ Open(r) \/ CloseRefused(r) \/ Close(r) \/ Write(r)
           \/ DumpCount(r) \/ DumpSend(r) \/ DumpSent(r)
           \/ LeaveBarrier(r)

RankNext == \/ Root
            \/ \E r \in Ranks : Step(r)
            \/ Finish

RankSpec == RankInit /\ [][RankNext]_rank_vars

\* Every process runs, and MPI makes progress for it.
Fairness == WF_rank_vars(Root) /\ \A r \in Ranks : WF_rank_vars(Step(r))

FairSpec == RankSpec /\ Fairness

-----------------------------------------------------------------------------
\* Ranks that wait in the same barrier of the communicator wait in the same
\* call: no rank has skipped a barrier, nor entered one too many, so nobody
\* passes a barrier that the others have not reached.
BarriersMatch ==
    \A r, q \in Ranks :
        (rank_pc[r] = "barrier" /\ rank_pc[q] = "barrier" /\ entered[r] = entered[q]) => at[r] = at[q]

\* The sequences s[1], ..., s[n] put together.
Joined(s, n) ==
    LET joined[k \in 0 .. n] == IF k = 0 THEN <<>> ELSE joined[k - 1] \o s[k]
    IN  joined[n]

\* Whether the loggers are silent after the first n calls.
Silenced(n) == \E k \in 1 .. n : /\ program[k].op = "silence"
                                 /\ \A j \in k + 1 .. n : program[j].op # "unsilence"

\* What the logger of all ranks says, in the order it should: for every
\* mys_log_ordered that is not silenced, rank after rank.
Messages(k) ==
    IF program[k].op = "ordered" /\ ~Silenced(k - 1) THEN [i \in 1 .. N |-> <<k, k, i - 1>>] ELSE <<>>

Printed == Joined([k \in DOMAIN program |-> Messages(k)], Len(program))

\* mys_log_ordered prints the ranks' messages in rank order, each message in
\* the call it was logged in, whatever the order they arrive in.
OrderedInOrder == IsPrefix(out, Printed)

\* The table files in the order they should be written: for every dump the
\* cells, rank after rank.
CellRows(r, k) == [i \in 1 .. NumCells[r] |-> <<k, Cells(r, k)[i]>>]

DumpRows(k, n) ==
    IF program[k].op = "dump" THEN Joined([i \in 1 .. N |-> CellRows(i - 1, k)], n) ELSE <<>>

Table == Joined([k \in DOMAIN program |-> DumpRows(k, N)], Len(program))

\* mys_table_dump writes the cells of all ranks in rank order, none lost and
\* none that belongs to another dump, although a fast rank may be in its next
\* dump already.
DumpsAreWhole == IsPrefix(rows, Table)

\* Every line of a rank log is in the file of the folder it was logged to, and
\* tot_wrote of a folder is what its file holds, also after it was closed and
\* opened again; no rank has more folders than the table has room for.
RankLogsExact ==
    \A r \in Ranks :
        /\ Len(dests[r]) <= _MYS_RANK_LOG_DEST_NUM
        /\ \A f \in Folders : \A i \in DOMAIN file[r][f] : file[r][f][i] = f
        /\ \A i \in DOMAIN dests[r] :
              dests[r][i].tot_wrote = Len(file[r][dests[r][i].folder])

\* Every rank gets through the whole program: no collective call leaves a rank
\* waiting for ever, whether MPI buffers messages or not.
EverybodyFinishes == <>Done
=============================================================================
