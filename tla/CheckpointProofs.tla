--------------------------- MODULE CheckpointProofs --------------------------
(***************************************************************************)
(* Proofs about Checkpoint, for any threads and names, any first capacity, *)
(* and log handlers that checkpoint or do not.                             *)
(*                                                                         *)
(* A thread in the body of an operation holds the lock, whichever way it   *)
(* came to it: by waiting, by being refused what it has already, or by a   *)
(* return of mys_checkpoint_init that kept it.  So bodies exclude each     *)
(* other, a dump sees one state of the array, and the names that a reset   *)
(* frees are those of rows it has freed before.                            *)
(***************************************************************************)
EXTENDS Checkpoint, SequenceTheorems, TLAPS

\* t is in the body of an operation.
Inside(t) == pc[t] \in {"name", "store", "free", "names", "open", "row", "report", "leave"}

\* The thread in a body holds the lock.
InsideHoldsLock == \A t \in Threads : Inside(t) => lock = t

\* A thread between two calls is the only one without an operation.
OpIsKnown == \A t \in Threads : pc[t] # "out" => op[t] # "none"

\* There are no rows before the module is initialised, nor when a reset has
\* freed them and goes on to the names.
EmptyWhenFreed == /\ ~inited => arr = <<>>
                  /\ \A t \in Threads : pc[t] = "names" => arr = <<>>

\* A thread is in a body only when the module is initialised.
StoredWhenInited == \A t \in Threads : pc[t] \notin {"out", "test", "init", "handler"} => inited

\* Rows are stored in the order of their times, and none is in the future.
RowsInOrder == /\ \A i \in DOMAIN arr : arr[i].time <= now
               /\ \A i, j \in DOMAIN arr : i < j => arr[i].time < arr[j].time

\* What a dump has written are the first rows of the array, in the end all.
FileIsPrefix == \A t \in Threads :
    /\ pc[t] \notin {"row", "report"} => file[t] = <<>>
    /\ Len(file[t]) <= Len(arr)
    /\ \A i \in 1 .. Len(file[t]) : file[t][i] = arr[i]
    /\ pc[t] = "report" => Len(file[t]) = Len(arr)

\* What a dump has to write is still there.
DueIsStored == \A t \in Threads : due[t] \subseteq Times(arr)

IInv == /\ TypeOK /\ InsideHoldsLock /\ OpIsKnown /\ EmptyWhenFreed /\ StoredWhenInited
        /\ RowsAreNamed /\ RowsInOrder /\ FileIsPrefix /\ DueIsStored

-----------------------------------------------------------------------------
\* The array behind a capacity that has grown has room for one more row.
LEMMA GrownHasRoom ==
    ASSUME TypeOK PROVE Grown \in Nat /\ Len(arr) + 1 <= Grown
BY CheckpointAssumption DEF TypeOK, Grown

\* The body of an operation begins with one of these steps.
LEMMA BodyBegins ==
    ASSUME NEW o \in Operations, o # "none"
    PROVE  Body[o] \in {"out", "free", "name", "open"}
BY DEF Operations, Body

\* Times are numbers.
LEMMA TimesAreNumbers ==
    ASSUME TypeOK PROVE Times(arr) \in SUBSET Nat
<1>1. \A i \in DOMAIN arr : arr[i] \in Row
  BY DEF TypeOK
<1> QED
  BY <1>1 DEF Times, Row

\* The module as it is defined satisfies the invariant.
LEMMA InitIInv == Init => IInv
<1> SUFFICES ASSUME Init PROVE IInv
  OBVIOUS
<1>1. arr = <<>> /\ Len(arr) = 0 /\ DOMAIN arr = {} /\ arr \in Seq(Row)
  BY DEF Init
<1>2. \A t \in Threads : file[t] = <<>> /\ Len(file[t]) = 0 /\ due[t] = {}
                          /\ pc[t] = "out" /\ op[t] = "none"
  BY DEF Init
<1>3. file \in [Threads -> Seq(Row)]
  BY DEF Init
<1>4. /\ lock \in Threads \cup {NoThread} /\ logger \in Threads \cup {NoThread} /\ inited \in BOOLEAN
      /\ capacity \in Nat /\ kept \in BOOLEAN /\ now \in Nat /\ capacity = 0
      /\ nameset \in SUBSET Names /\ name \in [Threads -> Names]
  BY DEF Init
<1>5. pc \in [Threads -> Steps] /\ op \in [Threads -> Operations] /\ due \in [Threads -> SUBSET Nat]
  BY DEF Init, Steps, Operations
<1>6. TypeOK
  BY <1>1, <1>3, <1>4, <1>5 DEF TypeOK
<1> QED
  BY <1>1, <1>2, <1>4, <1>6 DEF IInv, InsideHoldsLock, Inside, OpIsKnown,
     EmptyWhenFreed, StoredWhenInited, RowsAreNamed, RowsInOrder, FileIsPrefix, DueIsStored

\* A call begins.
LEMMA CallIInv ==
    ASSUME IInv, NEW t \in Threads, NEW o \in {"init", "reset", "checkpoint", "dump"}, NEW n \in Names, Call(t, o, n)
    PROVE  IInv'
<1> USE CheckpointAssumption DEF Call, Goto, Room
<1>1. TypeOK'
  BY TimesAreNumbers DEF IInv, TypeOK, data, calls, Steps, Operations
<1>2. InsideHoldsLock' /\ OpIsKnown' /\ StoredWhenInited'
  BY DEF IInv, TypeOK, data, calls, InsideHoldsLock, Inside, OpIsKnown, StoredWhenInited, Steps
<1>3. EmptyWhenFreed' /\ RowsAreNamed' /\ RowsInOrder'
  BY DEF IInv, TypeOK, data, calls, InsideHoldsLock, Inside, EmptyWhenFreed, RowsAreNamed, RowsInOrder
<1>4. FileIsPrefix' /\ DueIsStored'
  BY DEF IInv, TypeOK, data, calls, InsideHoldsLock, Inside, FileIsPrefix, DueIsStored, Times
<1> QED
  BY <1>1, <1>2, <1>3, <1>4 DEF IInv

\* The test of inited without the lock.
LEMMA InitTestIInv ==
    ASSUME IInv, NEW t \in Threads, InitTest(t)
    PROVE  IInv'
<1>0. /\ \E step \in {"init", "out", "enter"} :
            pc' = [pc EXCEPT ![t] = step] /\ (step = "enter" => inited)
      /\ pc[t] = "test" /\ UNCHANGED <<lock, kept, data, logger, calls>>
  <2>1. CASE ~inited
    BY <2>1 DEF InitTest, Goto
  <2>2. CASE inited /\ op[t] = "init"
    BY <2>2 DEF InitTest, Goto
  <2>3. CASE inited /\ op[t] # "init"
    BY <2>3 DEF InitTest, Goto
  <2> QED
    BY <2>1, <2>2, <2>3 DEF InitTest
<1>1. TypeOK'
  BY <1>0 DEF IInv, TypeOK, data, calls, Steps, Operations
<1>2. InsideHoldsLock' /\ OpIsKnown' /\ StoredWhenInited'
  BY <1>0 DEF IInv, TypeOK, data, calls, InsideHoldsLock, Inside, OpIsKnown, StoredWhenInited, Steps
<1>3. EmptyWhenFreed' /\ RowsAreNamed' /\ RowsInOrder'
  BY <1>0 DEF IInv, TypeOK, data, calls, InsideHoldsLock, Inside, EmptyWhenFreed, RowsAreNamed, RowsInOrder
<1>4. FileIsPrefix' /\ DueIsStored'
  BY <1>0 DEF IInv, TypeOK, data, calls, InsideHoldsLock, Inside, FileIsPrefix, DueIsStored, Times
<1> QED
  BY <1>1, <1>2, <1>3, <1>4 DEF IInv

\* The initialisation, when nobody is in a body.
LEMMA InitSetsIInv ==
    ASSUME IInv, NEW t \in Threads, InitSets(t)
    PROVE  IInv'
<1> USE CheckpointAssumption DEF InitSets, Goto
<1>1. TypeOK'
  BY DEF IInv, TypeOK, data, calls, Steps, Operations
<1>2. InsideHoldsLock' /\ OpIsKnown' /\ StoredWhenInited'
  BY DEF IInv, TypeOK, data, calls, InsideHoldsLock, Inside, OpIsKnown, StoredWhenInited, Steps
<1>3. EmptyWhenFreed' /\ RowsAreNamed' /\ RowsInOrder'
  BY DEF IInv, TypeOK, data, calls, InsideHoldsLock, Inside, EmptyWhenFreed, RowsAreNamed, RowsInOrder
<1>4. FileIsPrefix' /\ DueIsStored'
  <2>1. \A u \in Threads : pc'[u] \notin {"row", "report"} /\ pc[u] \notin {"row", "report"}
    BY DEF IInv, TypeOK, InsideHoldsLock, Inside
  <2>2. arr' = arr /\ file' = file /\ due' = due
    BY DEF IInv, EmptyWhenFreed, calls
  <2> QED
    BY <2>1, <2>2 DEF IInv, FileIsPrefix, DueIsStored, Times
<1> QED
  BY <1>1, <1>2, <1>3, <1>4 DEF IInv

\* The return of the initialisation that keeps the lock.
LEMMA InitReturnsIInv ==
    ASSUME IInv, NEW t \in Threads, InitReturns(t)
    PROVE  IInv'
<1> USE CheckpointAssumption DEF InitReturns, Goto
<1>1. TypeOK'
  BY DEF IInv, TypeOK, data, calls, Steps, Operations
<1>2. InsideHoldsLock' /\ OpIsKnown' /\ StoredWhenInited'
  BY DEF IInv, TypeOK, data, calls, InsideHoldsLock, Inside, OpIsKnown, StoredWhenInited, Steps
<1>3. EmptyWhenFreed' /\ RowsAreNamed' /\ RowsInOrder'
  BY DEF IInv, TypeOK, data, calls, InsideHoldsLock, Inside, EmptyWhenFreed, RowsAreNamed, RowsInOrder
<1>4. FileIsPrefix' /\ DueIsStored'
  BY DEF IInv, TypeOK, data, calls, InsideHoldsLock, Inside, FileIsPrefix, DueIsStored, Times
<1> QED
  BY <1>1, <1>2, <1>3, <1>4 DEF IInv

\* The lock of an operation, taken or refused to its holder.
LEMMA EnterIInv ==
    ASSUME IInv, NEW t \in Threads, Enter(t)
    PROVE  IInv'
<1> USE CheckpointAssumption DEF Enter, Goto, Acquires
<1>0. Body[op[t]] \in {"out", "free", "name", "open"}
  BY BodyBegins DEF IInv, TypeOK, OpIsKnown
<1>1. TypeOK'
  BY <1>0 DEF IInv, TypeOK, data, calls, Steps, Operations
<1>2. InsideHoldsLock' /\ OpIsKnown' /\ StoredWhenInited'
  BY <1>0 DEF IInv, TypeOK, data, calls, InsideHoldsLock, Inside, OpIsKnown, StoredWhenInited, Steps
<1>3. EmptyWhenFreed' /\ RowsAreNamed' /\ RowsInOrder'
  BY <1>0 DEF IInv, TypeOK, data, calls, InsideHoldsLock, Inside, EmptyWhenFreed, RowsAreNamed, RowsInOrder
<1>4. FileIsPrefix' /\ DueIsStored'
  BY <1>0 DEF IInv, TypeOK, data, calls, InsideHoldsLock, Inside, FileIsPrefix, DueIsStored, Times
<1> QED
  BY <1>1, <1>2, <1>3, <1>4 DEF IInv

\* A name is found or inserted.
LEMMA InsertNameIInv ==
    ASSUME IInv, NEW t \in Threads, InsertName(t)
    PROVE  IInv'
<1> USE CheckpointAssumption DEF InsertName, Goto
<1>1. TypeOK'
  BY DEF IInv, TypeOK, data, calls, Steps, Operations
<1>2. InsideHoldsLock' /\ OpIsKnown' /\ StoredWhenInited'
  BY DEF IInv, TypeOK, data, calls, InsideHoldsLock, Inside, OpIsKnown, StoredWhenInited, Steps
<1>3. EmptyWhenFreed' /\ RowsAreNamed' /\ RowsInOrder'
  BY DEF IInv, TypeOK, data, calls, InsideHoldsLock, Inside, EmptyWhenFreed, RowsAreNamed, RowsInOrder
<1>4. FileIsPrefix' /\ DueIsStored'
  BY DEF IInv, TypeOK, data, calls, InsideHoldsLock, Inside, FileIsPrefix, DueIsStored, Times
<1> QED
  BY <1>1, <1>2, <1>3, <1>4 DEF IInv

\* A row is stored.
LEMMA StoreIInv ==
    ASSUME IInv, NEW t \in Threads, Store(t)
    PROVE  IInv'
<1> DEFINE row == [name |-> name[t], time |-> now + 1]
<1>1. /\ pc[t] = "store" /\ pc' = [pc EXCEPT ![t] = "leave"]
      /\ capacity' = Grown /\ now' = now + 1 /\ arr' = Append(arr, row)
      /\ UNCHANGED <<lock, kept, inited, nameset, logger, op, name, file, due>>
  BY DEF Store, Goto, calls
<1>2. TypeOK /\ now \in Nat /\ lock = t /\ name[t] \in nameset /\ name[t] \in Names
  BY <1>1 DEF IInv, TypeOK, InsideHoldsLock, Inside, RowsAreNamed
<1>15. row \in Row
  BY <1>2 DEF Row
<1>3. /\ arr \in Seq(Row) /\ arr' \in Seq(Row) /\ Len(arr) \in Nat /\ Len(arr') = Len(arr) + 1
      /\ \A i \in 1 .. Len(arr) : arr'[i] = arr[i]
      /\ arr'[Len(arr) + 1] = row
      /\ DOMAIN arr = 1 .. Len(arr) /\ DOMAIN arr' = 1 .. Len(arr) + 1
  BY <1>1, <1>2, <1>15 DEF TypeOK
<1> HIDE DEF row
<1>4. TypeOK'
  BY <1>1, <1>2, <1>3, GrownHasRoom DEF TypeOK, Steps
<1>5. inited
  BY <1>1 DEF IInv, StoredWhenInited
<1>6. \A u \in Threads : Inside(u) => u = t
  BY <1>2 DEF IInv, InsideHoldsLock
<1>7. InsideHoldsLock' /\ OpIsKnown'
  BY <1>1, <1>2 DEF IInv, TypeOK, InsideHoldsLock, Inside, OpIsKnown
<1>8. EmptyWhenFreed' /\ StoredWhenInited'
  BY <1>1, <1>5, <1>6 DEF IInv, TypeOK, EmptyWhenFreed, StoredWhenInited, Inside
<1>9. row.name = name[t] /\ row.time = now + 1
  BY DEF row
<1>10. RowsAreNamed'
  BY <1>1, <1>2, <1>3, <1>9 DEF IInv, TypeOK, RowsAreNamed
<1>11. \A i \in DOMAIN arr : arr[i].time \in Nat /\ arr[i].time <= now
  <2>1. \A i \in DOMAIN arr : arr[i] \in Row
    BY <1>3
  <2> QED
    BY <2>1 DEF IInv, RowsInOrder, Row
<1>12. RowsInOrder'
  BY <1>1, <1>2, <1>3, <1>9, <1>11 DEF IInv, RowsInOrder
<1>13. FileIsPrefix'
  <2>1. \A u \in Threads : pc'[u] \notin {"row", "report"} /\ pc[u] \notin {"row", "report"}
    BY <1>1, <1>6 DEF IInv, TypeOK, Inside
  <2> QED
    BY <2>1, <1>1, <1>3 DEF IInv, FileIsPrefix
<1>14. DueIsStored'
  BY <1>1, <1>3 DEF IInv, DueIsStored, Times
<1> QED
  BY <1>4, <1>7, <1>8, <1>10, <1>12, <1>13, <1>14 DEF IInv

\* A reset frees the rows.
LEMMA ResetFreesIInv ==
    ASSUME IInv, NEW t \in Threads, ResetFrees(t)
    PROVE  IInv'
<1> USE CheckpointAssumption DEF ResetFrees, Goto
<1>1. TypeOK'
  BY DEF IInv, TypeOK, data, calls, Steps, Operations
<1>2. InsideHoldsLock' /\ OpIsKnown' /\ StoredWhenInited'
  BY DEF IInv, TypeOK, data, calls, InsideHoldsLock, Inside, OpIsKnown, StoredWhenInited, Steps
<1>3. EmptyWhenFreed' /\ RowsAreNamed' /\ RowsInOrder'
  BY DEF IInv, TypeOK, data, calls, InsideHoldsLock, Inside, EmptyWhenFreed, RowsAreNamed, RowsInOrder
<1>4. FileIsPrefix' /\ DueIsStored'
  BY DEF IInv, TypeOK, data, calls, InsideHoldsLock, Inside, FileIsPrefix, DueIsStored, Times
<1> QED
  BY <1>1, <1>2, <1>3, <1>4 DEF IInv

\* A reset frees the names, when nobody is between its name and its row.
LEMMA ResetNamesIInv ==
    ASSUME IInv, NEW t \in Threads, ResetNames(t)
    PROVE  IInv'
<1> USE CheckpointAssumption DEF ResetNames, Goto
<1>1. TypeOK'
  BY DEF IInv, TypeOK, data, calls, Steps, Operations
<1>2. InsideHoldsLock' /\ OpIsKnown' /\ StoredWhenInited'
  BY DEF IInv, TypeOK, data, calls, InsideHoldsLock, Inside, OpIsKnown, StoredWhenInited, Steps
<1>3. EmptyWhenFreed' /\ RowsAreNamed' /\ RowsInOrder'
  BY DEF IInv, TypeOK, data, calls, InsideHoldsLock, Inside, EmptyWhenFreed, RowsAreNamed, RowsInOrder
<1>4. FileIsPrefix' /\ DueIsStored'
  BY DEF IInv, TypeOK, data, calls, InsideHoldsLock, Inside, FileIsPrefix, DueIsStored, Times
<1> QED
  BY <1>1, <1>2, <1>3, <1>4 DEF IInv

\* A dump has opened its file.
LEMMA DumpOpensIInv ==
    ASSUME IInv, NEW t \in Threads, DumpOpens(t)
    PROVE  IInv'
<1> USE CheckpointAssumption DEF DumpOpens, Goto
<1>1. TypeOK'
  BY DEF IInv, TypeOK, data, calls, Steps, Operations
<1>2. InsideHoldsLock' /\ OpIsKnown' /\ StoredWhenInited'
  BY DEF IInv, TypeOK, data, calls, InsideHoldsLock, Inside, OpIsKnown, StoredWhenInited, Steps
<1>3. EmptyWhenFreed' /\ RowsAreNamed' /\ RowsInOrder'
  BY DEF IInv, TypeOK, data, calls, InsideHoldsLock, Inside, EmptyWhenFreed, RowsAreNamed, RowsInOrder
<1>4. FileIsPrefix' /\ DueIsStored'
  BY DEF IInv, TypeOK, data, calls, InsideHoldsLock, Inside, FileIsPrefix, DueIsStored, Times
<1> QED
  BY <1>1, <1>2, <1>3, <1>4 DEF IInv

\* A dump returns with the lock.
LEMMA DumpFailsIInv ==
    ASSUME IInv, NEW t \in Threads, DumpFails(t)
    PROVE  IInv'
<1> USE CheckpointAssumption DEF DumpFails, Goto
<1>1. TypeOK'
  BY DEF IInv, TypeOK, data, calls, Steps, Operations
<1>2. InsideHoldsLock' /\ OpIsKnown' /\ StoredWhenInited'
  BY DEF IInv, TypeOK, data, calls, InsideHoldsLock, Inside, OpIsKnown, StoredWhenInited, Steps
<1>3. EmptyWhenFreed' /\ RowsAreNamed' /\ RowsInOrder'
  BY DEF IInv, TypeOK, data, calls, InsideHoldsLock, Inside, EmptyWhenFreed, RowsAreNamed, RowsInOrder
<1>4. FileIsPrefix' /\ DueIsStored'
  BY DEF IInv, TypeOK, data, calls, InsideHoldsLock, Inside, FileIsPrefix, DueIsStored, Times
<1> QED
  BY <1>1, <1>2, <1>3, <1>4 DEF IInv

\* A dump writes a row, or has written the last.
LEMMA DumpRowIInv ==
    ASSUME IInv, NEW t \in Threads, DumpRow(t)
    PROVE  IInv'
<1>1. /\ pc[t] = "row"
      /\ UNCHANGED <<lock, kept, inited, arr, capacity, nameset, now, logger, op, name, due>>
  BY DEF DumpRow, data
<1>2. /\ arr \in Seq(Row) /\ file[t] \in Seq(Row) /\ Len(arr) \in Nat /\ Len(file[t]) \in Nat
      /\ Len(file[t]) <= Len(arr) /\ DOMAIN arr = 1 .. Len(arr)
  BY DEF IInv, TypeOK, FileIsPrefix
<1>3. CASE Len(file[t]) < Len(arr)
  <2> DEFINE row == arr[Len(file[t]) + 1]
  <2>1. pc' = pc /\ file' = [file EXCEPT ![t] = Append(@, row)]
    BY <1>3 DEF DumpRow
  <2>2. row \in Row
    BY <1>2, <1>3
  <2>3. file'[t] = Append(file[t], row) /\ \A u \in Threads \ {t} : file'[u] = file[u]
    BY <2>1 DEF IInv, TypeOK
  <2>4. /\ file'[t] \in Seq(Row) /\ Len(file'[t]) = Len(file[t]) + 1
        /\ \A i \in 1 .. Len(file[t]) : file'[t][i] = file[t][i]
        /\ file'[t][Len(file[t]) + 1] = row
    BY <1>2, <2>2, <2>3
  <2>5. TypeOK'
    BY <1>1, <2>1, <2>2, <2>4 DEF IInv, TypeOK
  <2>6. FileIsPrefix'
    <3>1. ASSUME NEW u \in Threads, u # t
          PROVE  /\ pc'[u] \notin {"row", "report"} => file'[u] = <<>>
                 /\ Len(file'[u]) <= Len(arr')
                 /\ \A i \in 1 .. Len(file'[u]) : file'[u][i] = arr'[i]
                 /\ pc'[u] = "report" => Len(file'[u]) = Len(arr')
      BY <1>1, <2>1, <2>3, <3>1 DEF IInv, FileIsPrefix
    <3>2. \A i \in 1 .. Len(file'[t]) : file'[t][i] = arr[i]
      <4>1. \A i \in 1 .. Len(file[t]) : file[t][i] = arr[i]
        BY DEF IInv, FileIsPrefix
      <4> QED
        BY <1>2, <2>4, <4>1
    <3>3. pc'[t] = "row" /\ Len(file'[t]) <= Len(arr)
      BY <1>1, <1>2, <1>3, <2>1, <2>4
    <3> QED
      BY <1>1, <3>1, <3>2, <3>3 DEF FileIsPrefix
  <2> QED
    BY <1>1, <2>1, <2>5, <2>6 DEF IInv, InsideHoldsLock, Inside, OpIsKnown, EmptyWhenFreed,
       StoredWhenInited, RowsAreNamed, RowsInOrder, DueIsStored, Times
<1>4. CASE Len(file[t]) >= Len(arr)
  <2>1. pc' = [pc EXCEPT ![t] = "report"] /\ file' = file
    BY <1>2, <1>4 DEF DumpRow, Goto
  <2>2. TypeOK' /\ InsideHoldsLock' /\ OpIsKnown' /\ EmptyWhenFreed' /\ StoredWhenInited'
    BY <1>1, <2>1 DEF IInv, TypeOK, Steps, InsideHoldsLock, Inside, OpIsKnown, EmptyWhenFreed,
       StoredWhenInited
  <2>3. RowsAreNamed' /\ RowsInOrder' /\ DueIsStored'
    BY <1>1, <2>1 DEF IInv, TypeOK, RowsAreNamed, RowsInOrder, DueIsStored, Times
  <2>4. FileIsPrefix'
    BY <1>1, <1>2, <1>4, <2>1 DEF IInv, TypeOK, FileIsPrefix
  <2> QED
    BY <2>2, <2>3, <2>4 DEF IInv
<1> QED
  BY <1>2, <1>3, <1>4

\* A dump logs, and its thread goes on in the handler or not.
LEMMA DumpReportsIInv ==
    ASSUME IInv, NEW t \in Threads, DumpReports(t)
    PROVE  IInv'
<1>0. /\ \/ pc' = [pc EXCEPT ![t] = "test"] /\ op' = [op EXCEPT ![t] = "log"] /\ logger' = t
         \/ pc' = [pc EXCEPT ![t] = "leave"] /\ UNCHANGED <<logger, op>>
      /\ file' = [file EXCEPT ![t] = <<>>] /\ due' = [due EXCEPT ![t] = {}]
      /\ UNCHANGED <<lock, kept, data, name>>
  BY DEF DumpReports, Goto
<1>1. TypeOK'
  <2>1. pc' \in [Threads -> Steps] /\ op' \in [Threads -> Operations]
    BY <1>0 DEF IInv, TypeOK, Steps, Operations
  <2>2. file' \in [Threads -> Seq(Row)] /\ due' \in [Threads -> SUBSET Nat]
    BY <1>0 DEF IInv, TypeOK
  <2>3. logger' \in Threads \cup {NoThread}
    BY <1>0 DEF IInv, TypeOK
  <2> QED
    BY <1>0, <2>1, <2>2, <2>3 DEF IInv, TypeOK, data
<1>5. pc[t] = "report"
  BY DEF DumpReports
<1>2. InsideHoldsLock' /\ OpIsKnown' /\ StoredWhenInited'
  BY <1>0, <1>5 DEF IInv, TypeOK, data, calls, InsideHoldsLock, Inside, OpIsKnown, StoredWhenInited, Steps
<1>3. EmptyWhenFreed' /\ RowsAreNamed' /\ RowsInOrder'
  BY <1>0, <1>5 DEF IInv, TypeOK, data, calls, InsideHoldsLock, Inside, EmptyWhenFreed, RowsAreNamed, RowsInOrder
<1>4. FileIsPrefix' /\ DueIsStored'
  BY <1>0, <1>5 DEF IInv, TypeOK, data, calls, InsideHoldsLock, Inside, FileIsPrefix, DueIsStored, Times
<1> QED
  BY <1>1, <1>2, <1>3, <1>4 DEF IInv

\* The unlock at the end of an operation.
LEMMA LeaveIInv ==
    ASSUME IInv, NEW t \in Threads, Leave(t)
    PROVE  IInv'
<1> USE CheckpointAssumption DEF Leave, Goto, Releases
<1>1. TypeOK'
  BY DEF IInv, TypeOK, data, calls, Steps, Operations
<1>2. InsideHoldsLock' /\ OpIsKnown' /\ StoredWhenInited'
  BY DEF IInv, TypeOK, data, calls, InsideHoldsLock, Inside, OpIsKnown, StoredWhenInited, Steps
<1>3. EmptyWhenFreed' /\ RowsAreNamed' /\ RowsInOrder'
  BY DEF IInv, TypeOK, data, calls, InsideHoldsLock, Inside, EmptyWhenFreed, RowsAreNamed, RowsInOrder
<1>4. FileIsPrefix' /\ DueIsStored'
  BY DEF IInv, TypeOK, data, calls, InsideHoldsLock, Inside, FileIsPrefix, DueIsStored, Times
<1> QED
  BY <1>1, <1>2, <1>3, <1>4 DEF IInv

\* A client logs.
LEMMA LogEnterIInv ==
    ASSUME IInv, NEW t \in Threads, NEW n \in Names, LogEnter(t, n)
    PROVE  IInv'
<1> USE CheckpointAssumption DEF LogEnter, Goto, Room
<1>1. TypeOK'
  BY DEF IInv, TypeOK, data, calls, Steps, Operations
<1>2. InsideHoldsLock' /\ OpIsKnown' /\ StoredWhenInited'
  BY DEF IInv, TypeOK, data, calls, InsideHoldsLock, Inside, OpIsKnown, StoredWhenInited, Steps
<1>3. EmptyWhenFreed' /\ RowsAreNamed' /\ RowsInOrder'
  BY DEF IInv, TypeOK, data, calls, InsideHoldsLock, Inside, EmptyWhenFreed, RowsAreNamed, RowsInOrder
<1>4. FileIsPrefix' /\ DueIsStored'
  BY DEF IInv, TypeOK, data, calls, InsideHoldsLock, Inside, FileIsPrefix, DueIsStored, Times
<1> QED
  BY <1>1, <1>2, <1>3, <1>4 DEF IInv

\* The logger's lock is given back.
LEMMA LogLeaveIInv ==
    ASSUME IInv, NEW t \in Threads, LogLeave(t)
    PROVE  IInv'
<1> USE CheckpointAssumption DEF LogLeave, Goto
<1>1. TypeOK'
  BY DEF IInv, TypeOK, data, calls, Steps, Operations
<1>2. InsideHoldsLock' /\ OpIsKnown' /\ StoredWhenInited'
  BY DEF IInv, TypeOK, data, calls, InsideHoldsLock, Inside, OpIsKnown, StoredWhenInited, Steps
<1>3. EmptyWhenFreed' /\ RowsAreNamed' /\ RowsInOrder'
  BY DEF IInv, TypeOK, data, calls, InsideHoldsLock, Inside, EmptyWhenFreed, RowsAreNamed, RowsInOrder
<1>4. FileIsPrefix' /\ DueIsStored'
  BY DEF IInv, TypeOK, data, calls, InsideHoldsLock, Inside, FileIsPrefix, DueIsStored, Times
<1> QED
  BY <1>1, <1>2, <1>3, <1>4 DEF IInv

\* Every step keeps the invariant.
LEMMA NextIInv == IInv /\ [Next]_vars => IInv'
<1> SUFFICES ASSUME IInv, [Next]_vars PROVE IInv'
  OBVIOUS
<1>1. CASE UNCHANGED vars
  BY <1>1 DEF vars, data, calls, IInv, TypeOK, InsideHoldsLock, Inside, OpIsKnown, EmptyWhenFreed,
     StoredWhenInited, RowsAreNamed, RowsInOrder, FileIsPrefix, DueIsStored, Times
<1>2. ASSUME NEW t \in Threads, NEW n \in Names, Call(t, "checkpoint", n) \/ LogEnter(t, n)
      PROVE  IInv'
  BY <1>2, CallIInv, LogEnterIInv
<1>3. ASSUME NEW t \in Threads, NEW o \in {"init", "reset", "dump"}, Call(t, o, name[t])
      PROVE  IInv'
  <2>1. name[t] \in Names
    BY DEF IInv, TypeOK
  <2> QED
    BY <1>3, <2>1, CallIInv
<1>4. ASSUME NEW t \in Threads, Continue(t)
      PROVE  IInv'
  BY <1>4, InitTestIInv, InitSetsIInv, InitReturnsIInv, EnterIInv, InsertNameIInv, StoreIInv,
     ResetFreesIInv, ResetNamesIInv, DumpOpensIInv, DumpFailsIInv, DumpRowIInv, DumpReportsIInv,
     LeaveIInv, LogLeaveIInv DEF Continue
<1> QED
  BY <1>1, <1>2, <1>3, <1>4 DEF Next, Begins

-----------------------------------------------------------------------------
\* The inductive invariant holds in every behaviour of the module.
THEOREM CheckpointIInvHolds == Spec => []IInv
<1>1. Init => IInv
  BY InitIInv
<1>2. IInv /\ [Next]_vars => IInv'
  BY NextIInv
<1> QED
  BY <1>1, <1>2, PTL DEF Spec

\* A thread in the body of an operation holds the lock, and so no two threads
\* are in bodies at the same time, although two returns keep the lock and the
\* codes of its functions are ignored.
THEOREM BodiesExclude ==
    Spec => [](\A t, u \in Threads : Inside(t) /\ Inside(u) => t = u)
<1>1. IInv => \A t, u \in Threads : Inside(t) /\ Inside(u) => t = u
  BY DEF IInv, InsideHoldsLock
<1> QED
  BY <1>1, CheckpointIInvHolds, PTL

\* The rows point to names that are there.
THEOREM RowsKeepTheirNames == Spec => []RowsAreNamed
<1>1. IInv => RowsAreNamed
  BY DEF IInv
<1> QED
  BY <1>1, CheckpointIInvHolds, PTL

\* A dump that is written holds all that was stored when it was called and has
\* not been reset, in the order of the times.
THEOREM DumpsAreComplete == Spec => []DumpIsComplete
<1>1. IInv => DumpIsComplete
  <2> SUFFICES ASSUME IInv, NEW t \in Threads, pc[t] = "report"
               PROVE  /\ due[t] \subseteq Times(file[t])
                      /\ \A i, j \in DOMAIN file[t] : i < j => file[t][i].time < file[t][j].time
    BY DEF DumpIsComplete
  <2>1. /\ arr \in Seq(Row) /\ file[t] \in Seq(Row) /\ Len(file[t]) = Len(arr)
        /\ \A i \in 1 .. Len(file[t]) : file[t][i] = arr[i]
    BY DEF IInv, TypeOK, FileIsPrefix
  <2>2. DOMAIN arr = 1 .. Len(arr) /\ DOMAIN file[t] = 1 .. Len(arr)
    BY <2>1
  <2>3. Times(file[t]) = Times(arr)
    BY <2>1, <2>2 DEF Times
  <2>4. \A i, j \in DOMAIN file[t] : i < j => file[t][i].time < file[t][j].time
    BY <2>1, <2>2 DEF IInv, RowsInOrder
  <2> QED
    BY <2>3, <2>4 DEF IInv, DueIsStored
<1> QED
  BY <1>1, CheckpointIInvHolds, PTL
==============================================================================
