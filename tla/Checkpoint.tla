----------------------------- MODULE Checkpoint ------------------------------
(***************************************************************************)
(* The checkpoints of a process, src/include/mys/impl/checkpoint.c: a list *)
(* of named times, the set of their names, and one lock.                   *)
(*                                                                         *)
(* Every operation first initialises the module (a test of inited, without *)
(* the lock and then again with it) and then takes the lock.  The lock is  *)
(* the one of module Mutex, of whose codes the caller looks at none: a     *)
(* thread that holds it already is refused with EDEADLK and goes on, and   *)
(* holding it is what two returns without an unlock make possible: the     *)
(* one of the second test of inited and the one of a dump whose file       *)
(* cannot be opened.  A dump logs that it is done before it unlocks, so    *)
(* the logger's lock is taken under this one, and is a part of the state.  *)
(***************************************************************************)
EXTENDS Naturals, Sequences, FiniteSets

CONSTANTS Threads, NoThread,
          Names,               \* the names of checkpoints
          FirstCapacity,       \* 128 in the code
          HandlersCheckpoint,  \* whether the log handlers call mys_checkpoint
          MaxTime              \* bound: checkpoints ever stored

ASSUME CheckpointAssumption ==
    /\ NoThread \notin Threads
    /\ FirstCapacity \in Nat \ {0}
    /\ HandlersCheckpoint \in BOOLEAN
    /\ MaxTime \in Nat

VARIABLES
    lock, inited,
    kept,        \* whether the lock's holder has come back from its call (history)
    arr, capacity, nameset,
    logger,      \* who holds the lock of the logger
    now,         \* the clock: the time of the last checkpoint
    pc, op,      \* op[t]: the operation t is in
    name,        \* name[t]: what t's mys_checkpoint is to store
    file,        \* file[t]: the rows t's dump has written
    due          \* due[t]: the times t's dump has to write (history)

data == <<inited, arr, capacity, nameset, now>>
calls == <<op, name, file, due>>
vars == <<lock, kept, data, logger, pc, calls>>

Operations == {"none", "init", "reset", "checkpoint", "dump", "log"}
Steps == {"out", "test", "init", "enter", "name", "store", "free", "names",
          "open", "row", "report", "leave", "handler"}
Row == [name : Names, time : Nat]

Init == /\ lock = NoThread /\ logger = NoThread
        /\ inited = FALSE /\ kept = FALSE
        /\ arr = <<>> /\ capacity = 0 /\ nameset = {}
        /\ now = 0
        /\ pc = [t \in Threads |-> "out"]
        /\ op = [t \in Threads |-> "none"]
        /\ name \in [Threads -> Names]
        /\ file = [t \in Threads |-> <<>>]
        /\ due = [t \in Threads |-> {}]

-----------------------------------------------------------------------------
Times(rows) == {rows[i].time : i \in DOMAIN rows}

\* The bound allows another call that stores a checkpoint.
Room == now + Cardinality({u \in Threads : op[u] \in {"checkpoint", "log"}
                                            /\ pc[u] # "out"}) < MaxTime

Goto(t, step) == pc' = [pc EXCEPT ![t] = step]

\* Whether mys_mutex_lock comes back to t: with the lock, or refused because t
\* has it (EDEADLK).
Acquires(t) == lock \in {NoThread, t} /\ lock' = t

\* mys_mutex_unlock, refused (EPERM) if t does not hold the lock.
Releases(t) == lock' = IF lock = t THEN NoThread ELSE lock

\* The first step of an operation once the lock is taken.
Body == [init |-> "out", reset |-> "free", checkpoint |-> "name",
         dump |-> "open", log |-> "name"]

\* A client calls one of the operations.  A dump has to write what was stored
\* by calls that returned before it.
Call(t, o, n) ==
    /\ pc[t] = "out"
    /\ o = "checkpoint" => Room
    /\ Goto(t, "test")
    /\ op' = [op EXCEPT ![t] = o]
    /\ name' = [name EXCEPT ![t] = n]
    /\ due' = [due EXCEPT ![t] = IF o = "dump" THEN Times(arr) ELSE {}]
    /\ UNCHANGED <<lock, kept, data, logger, file>>

\* mys_checkpoint_init tests inited without the lock.
InitTest(t) ==
    /\ pc[t] = "test"
    /\ Goto(t, CASE ~inited -> "init"
                 [] inited /\ op[t] = "init" -> "out"
                 [] OTHER -> "enter")
    /\ UNCHANGED <<lock, kept, data, logger, calls>>

\* It takes the lock to set the fields, and unlocks ...
InitSets(t) ==
    /\ pc[t] = "init" /\ lock = NoThread /\ ~inited
    /\ inited' = TRUE
    /\ arr' = <<>> /\ capacity' = 0 /\ nameset' = {}
    /\ Goto(t, IF op[t] = "init" THEN "out" ELSE "enter")
    /\ UNCHANGED <<lock, kept, now, logger, calls>>

\* ... but returns with the lock if another thread has set them meanwhile.
InitReturns(t) ==
    /\ pc[t] = "init" /\ lock = NoThread /\ inited
    /\ lock' = t
    /\ kept' = (op[t] = "init")
    /\ Goto(t, IF op[t] = "init" THEN "out" ELSE "enter")
    /\ UNCHANGED <<data, logger, calls>>

\* Mutant of Enter: the lock is not taken.
EnterUnlocked(t) ==
    /\ pc[t] = "enter"
    /\ Goto(t, Body[op[t]])
    /\ UNCHANGED <<lock, kept, data, logger, calls>>

\* The lock of reset, mys_checkpoint and dump.
Enter(t) ==
    /\ pc[t] = "enter" /\ Acquires(t)
    /\ kept' = FALSE
    /\ Goto(t, Body[op[t]])
    /\ UNCHANGED <<data, logger, calls>>

-----------------------------------------------------------------------------
\* mys_checkpoint finds its name, or inserts it.
InsertName(t) ==
    /\ pc[t] = "name"
    /\ nameset' = nameset \cup {name[t]}
    /\ Goto(t, "store")
    /\ UNCHANGED <<lock, kept, inited, arr, capacity, now, logger, calls>>

\* The array doubles when it is full.
Grown == IF Len(arr) < capacity THEN capacity
         ELSE IF capacity = 0 THEN FirstCapacity ELSE 2 * capacity

\* The checkpoint gets the time it is stored at.
Store(t) ==
    /\ pc[t] = "store"
    /\ capacity' = Grown
    /\ now' = now + 1
    /\ arr' = Append(arr, [name |-> name[t], time |-> now'])
    /\ Goto(t, "leave")
    /\ UNCHANGED <<lock, kept, inited, nameset, logger, calls>>

\* mys_checkpoint_reset frees the array ...
ResetFrees(t) ==
    /\ pc[t] = "free"
    /\ arr' = <<>> /\ capacity' = 0
    /\ due' = [u \in Threads |-> {}]
    /\ Goto(t, "names")
    /\ UNCHANGED <<lock, kept, inited, nameset, now, logger, op, name, file>>

\* ... and the names, which are what the rows of the array point to.
ResetNames(t) ==
    /\ pc[t] = "names"
    /\ nameset' = {}
    /\ Goto(t, "leave")
    /\ UNCHANGED <<lock, kept, inited, arr, capacity, now, logger, calls>>

\* mys_checkpoint_dump opens its file.
DumpOpens(t) ==
    /\ pc[t] = "open"
    /\ Goto(t, "row")
    /\ UNCHANGED <<lock, kept, data, logger, calls>>

\* The file cannot be opened: the dump returns 1 and keeps the lock.
DumpFails(t) ==
    /\ pc[t] = "open"
    /\ Goto(t, "out")
    /\ kept' = TRUE
    /\ UNCHANGED <<lock, data, logger, calls>>

\* Mutant of DumpRow: the loop ends one row early.
DumpRowSkipsLast(t) ==
    /\ pc[t] = "row"
    /\ IF Len(file[t]) + 1 < Len(arr)
       THEN /\ file' = [file EXCEPT ![t] = Append(@, arr[Len(@) + 1])]
            /\ UNCHANGED pc
       ELSE Goto(t, "report") /\ UNCHANGED file
    /\ UNCHANGED <<lock, kept, data, logger, op, name, due>>

\* One row is written, or the last has been and the file is closed.
DumpRow(t) ==
    /\ pc[t] = "row"
    /\ IF Len(file[t]) < Len(arr)
       THEN /\ file' = [file EXCEPT ![t] = Append(@, arr[Len(@) + 1])]
            /\ UNCHANGED pc
       ELSE Goto(t, "report") /\ UNCHANGED file
    /\ UNCHANGED <<lock, kept, data, logger, op, name, due>>

\* The dump logs that it is done, under the logger's lock.  A handler that
\* stores a checkpoint unlocks at its end, and the dump's own unlock is refused.
DumpReports(t) ==
    /\ pc[t] = "report" /\ logger = NoThread
    /\ IF HandlersCheckpoint
       THEN /\ Room
            /\ logger' = t
            /\ op' = [op EXCEPT ![t] = "log"]
            /\ Goto(t, "test")
       ELSE Goto(t, "leave") /\ UNCHANGED <<logger, op>>
    /\ file' = [file EXCEPT ![t] = <<>>]
    /\ due' = [due EXCEPT ![t] = {}]
    /\ UNCHANGED <<lock, kept, data, name>>

\* Mutant of Leave: mys_checkpoint_reset does not unlock.
LeaveResetLocked(t) ==
    /\ pc[t] = "leave"
    /\ IF op[t] = "reset" THEN UNCHANGED lock ELSE Releases(t)
    /\ Goto(t, IF op[t] = "log" THEN "handler" ELSE "out")
    /\ UNCHANGED <<kept, data, logger, calls>>

\* The unlock at the end of reset, mys_checkpoint and dump.
Leave(t) ==
    /\ pc[t] = "leave"
    /\ Releases(t)
    /\ Goto(t, IF op[t] = "log" THEN "handler" ELSE "out")
    /\ UNCHANGED <<kept, data, logger, calls>>

-----------------------------------------------------------------------------
\* A client logs something: the handlers run under the logger's lock, and may
\* be ones that store a checkpoint.
LogEnter(t, n) ==
    /\ pc[t] = "out" /\ logger = NoThread
    /\ HandlersCheckpoint => Room
    /\ logger' = t
    /\ op' = [op EXCEPT ![t] = "log"]
    /\ name' = [name EXCEPT ![t] = n]
    /\ Goto(t, IF HandlersCheckpoint THEN "test" ELSE "handler")
    /\ UNCHANGED <<lock, kept, inited, arr, capacity, nameset, now, file, due>>

LogLeave(t) ==
    /\ pc[t] = "handler"
    /\ logger' = NoThread
    /\ Goto(t, "out")
    /\ UNCHANGED <<lock, kept, data, calls>>

\* What t does once it is in a call.
Continue(t) ==
    \/ InitTest(t) \/ InitSets(t) \/ InitReturns(t) \/ Enter(t)
    \/ InsertName(t) \/ Store(t) \/ ResetFrees(t) \/ ResetNames(t)
    \/ DumpOpens(t) \/ DumpFails(t) \/ DumpRow(t) \/ DumpReports(t)
    \/ Leave(t) \/ LogLeave(t)

\* What clients begin.
Begins == \E t \in Threads :
              \/ \E n \in Names : Call(t, "checkpoint", n) \/ LogEnter(t, n)
              \/ \E o \in {"init", "reset", "dump"} : Call(t, o, name[t])

Next == Begins \/ \E t \in Threads : Continue(t)

Spec == Init /\ [][Next]_vars

\* A thread inside a call is scheduled, and takes a lock that stays free.
FairSpec == Spec /\ \A t \in Threads : WF_vars(Continue(t))

-----------------------------------------------------------------------------
TypeOK ==
    /\ lock \in Threads \cup {NoThread} /\ logger \in Threads \cup {NoThread}
    /\ inited \in BOOLEAN /\ kept \in BOOLEAN
    /\ arr \in Seq(Row) /\ Len(arr) <= capacity
    /\ capacity \in Nat /\ now \in Nat
    /\ nameset \in SUBSET Names
    /\ pc \in [Threads -> Steps] /\ op \in [Threads -> Operations]
    /\ name \in [Threads -> Names]
    /\ file \in [Threads -> Seq(Row)]
    /\ due \in [Threads -> SUBSET Nat]

\* The rows point to names that are there, also while a reset frees the names,
\* a failed dump has kept the lock, or two threads initialise the module.
RowsAreNamed ==
    /\ \A i \in DOMAIN arr : arr[i].name \in nameset
    /\ \A t \in Threads : pc[t] = "store" => name[t] \in nameset

\* A dump that is written holds every checkpoint that was stored when the dump
\* was called and has not been reset since, and its times are in order.
DumpIsComplete ==
    \A t \in Threads : pc[t] = "report" =>
        /\ due[t] \subseteq Times(file[t])
        /\ \A i, j \in DOMAIN file[t] : i < j => file[t][i].time < file[t][j].time

\* Every call comes back once the clients begin no more, except one that waits
\* for a lock which a thread has come back with: from mys_checkpoint_init when
\* another had initialised meanwhile, or from a dump that could not open its
\* file.  No other path keeps the lock, a thread that has come back with it is
\* not stopped by it when it calls again, and who waits for a lock that others
\* use gets it.
LockIsGivenBack ==
    <>[][~Begins]_vars =>
        <>[](\A t \in Threads :
                pc[t] = "out" \/ (kept /\ lock # t /\ pc[t] \in {"init", "enter"}))
=============================================================================
