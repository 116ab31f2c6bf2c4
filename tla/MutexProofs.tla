---------------------------- MODULE MutexProofs -----------------------------
(***************************************************************************)
(* Proofs about Mutex, for any finite set of threads and any word with     *)
(* more values than there are threads and sentinels.                       *)
(*                                                                         *)
(* Mutual exclusion rests on the ids: the compare-and-swap compares the    *)
(* word with the caller's id, so it protects only if no two threads have   *)
(* the same id and no id has the value of a sentinel.  That in turn is a   *)
(* fact about the counter, which counts the threads that have an id and    *)
(* therefore never wraps.  IInv collects these facts.                      *)
(***************************************************************************)
EXTENDS Mutex, FiniteSetTheorems, TLAPS

\* The counter counts the threads that have drawn an id.
CountsKnown == count = Cardinality(Known)

\* Ids in use are below the counter and distinct.
IdsDistinct == /\ \A t \in Known : id[t] < count
               /\ \A t, u \in Known : id[t] = id[u] => t = u

\* A thread that executes an operation that compares ids has one.
CallersKnown == \A t \in Threads : pc[t] \in {"lock", "trylock", "unlock"} => t \in Known

\* The word is a thread's id exactly while that thread holds the lock.
WordNamesHolder == /\ \A t \in holds : t \in Known /\ tid = id[t]
                   /\ tid \notin {IDLE, INVALID} => \E t \in holds : tid = id[t]

IInv == TypeOK /\ CountsKnown /\ IdsDistinct /\ CallersKnown /\ WordNamesHolder

-----------------------------------------------------------------------------
\* The sentinels are three different values of the word.
LEMMA Sentinels == /\ Word \in Nat /\ Word > 3
                   /\ NOID \in 0 .. Word - 1 /\ IDLE \in 0 .. Word - 1
                   /\ INVALID \in 0 .. Word - 1
                   /\ NOID # IDLE /\ NOID # INVALID /\ IDLE # INVALID
<1>1. Cardinality(Threads) \in Nat
  BY ThreadsFinite, FS_CardinalityType
<1>2. QED
  BY <1>1, WordLargeEnough DEF NOID, IDLE, INVALID

\* Below the number of values of the word, reduction modulo it is the identity.
LEMMA ModSmall == ASSUME NEW a \in Nat, NEW b \in Nat, a < b
                  PROVE  a % b = a
OBVIOUS

\* The threads with an id are a finite set, so the counter stays below the
\* sentinels.
LEMMA CounterBound == ASSUME IInv
                      PROVE  /\ IsFiniteSet(Known) /\ Cardinality(Known) \in Nat
                             /\ count <= Cardinality(Threads) /\ count < INVALID
                             /\ \A t \in Known : id[t] < INVALID
<1>1. Known \subseteq Threads
  BY DEF Known
<1>2. IsFiniteSet(Known) /\ Cardinality(Known) <= Cardinality(Threads)
  BY <1>1, ThreadsFinite, FS_Subset
<1>3. Cardinality(Known) \in Nat /\ Cardinality(Threads) \in Nat
  BY <1>2, ThreadsFinite, FS_CardinalityType
<1>4. count <= Cardinality(Threads) /\ count < INVALID
  BY <1>2, <1>3, WordLargeEnough DEF IInv, CountsKnown, INVALID
<1>5. ASSUME NEW t \in Known PROVE id[t] < INVALID
  BY <1>4, WordLargeEnough DEF IInv, IdsDistinct, TypeOK, Known, INVALID
<1>6. QED
  BY <1>2, <1>3, <1>4, <1>5

-----------------------------------------------------------------------------
\* The invariant holds at first.
LEMMA InitIInv == Init => IInv
<1> SUFFICES ASSUME Init PROVE IInv
  OBVIOUS
<1>1. TypeOK
  BY Sentinels, WordLargeEnough DEF Init, TypeOK, Codes, Ops
<1>2. Known = {}
  BY DEF Init, Known
<1>3. CountsKnown
  BY <1>2, FS_EmptySet DEF Init, CountsKnown
<1>4. IdsDistinct /\ CallersKnown /\ WordNamesHolder
  BY <1>2 DEF Init, IdsDistinct, CallersKnown, WordNamesHolder
<1>5. QED
  BY <1>1, <1>3, <1>4 DEF IInv

\* A step that gives no thread an id keeps the facts about ids.
LEMMA SameIds == ASSUME IInv, UNCHANGED <<id, count>>
                 PROVE  Known' = Known /\ CountsKnown' /\ IdsDistinct'
<1>1. Known' = Known
  BY DEF Known
<1>2. CountsKnown'
  BY <1>1 DEF IInv, CountsKnown
<1>3. IdsDistinct'
  BY <1>1 DEF IInv, IdsDistinct
<1>4. QED
  BY <1>1, <1>2, <1>3

\* Drawing an id keeps the ids distinct: the counter is above all of them and
\* does not wrap.
LEMMA ThreadIdKeepsIds ==
    ASSUME IInv, NEW t \in Threads, ThreadId(t)
    PROVE  /\ CountsKnown' /\ IdsDistinct'
           /\ Known' = Known \cup {t}
           /\ \A u \in Known : id'[u] = id[u]
           /\ id' \in [Threads -> 0 .. Word - 1] /\ count' \in 0 .. Word - 1
<1>1. CASE id[t] # NOID
  <2>1. UNCHANGED <<id, count>>
    BY <1>1 DEF ThreadId
  <2>2. Known' = Known /\ CountsKnown' /\ IdsDistinct'
    BY <2>1, SameIds
  <2>3. QED
    BY <1>1, <2>1, <2>2 DEF Known, IInv, TypeOK
<1>2. CASE id[t] = NOID
  <2>1. id' = [id EXCEPT ![t] = count] /\ count' = (count + 1) % Word
    BY <1>2 DEF ThreadId
  <2>2. t \notin Known
    BY <1>2 DEF Known
  <2>3. count \in Nat /\ count < INVALID /\ INVALID \in Nat /\ Word \in Nat
    BY CounterBound, Sentinels DEF IInv, TypeOK
  <2>4. count' = count + 1
    <3>1. count + 1 \in Nat /\ count + 1 < Word
      BY <2>3 DEF INVALID
    <3>2. QED
      BY <2>1, <2>3, <3>1, ModSmall
  <2>5. count # NOID
    BY <2>3 DEF NOID, INVALID
  <2>6. id \in [Threads -> 0 .. Word - 1]
    BY DEF IInv, TypeOK
  <2>7. Known' = Known \cup {t}
    BY <2>1, <2>5, <2>6 DEF Known
  <2>8. Cardinality(Known') = Cardinality(Known) + 1
    BY <2>2, <2>7, CounterBound, FS_AddElement
  <2>9. CountsKnown'
    BY <2>4, <2>8 DEF IInv, CountsKnown
  <2>10. \A u \in Known : id'[u] = id[u] /\ id[u] < count
    BY <2>1, <2>2, <2>6 DEF IInv, IdsDistinct, Known
  <2>11. id'[t] = count
    BY <2>1, <2>6
  <2>12. IdsDistinct'
    <3>1. ASSUME NEW u \in Known' PROVE id'[u] < count'
      BY <2>3, <2>4, <2>6, <2>7, <2>10, <2>11 DEF Known
    <3>2. ASSUME NEW u \in Known', NEW v \in Known', id'[u] = id'[v]
          PROVE  u = v
      BY <2>3, <2>6, <2>7, <2>10, <2>11, <3>2 DEF Known, IInv, IdsDistinct
    <3>3. QED
      BY <3>1, <3>2 DEF IdsDistinct
  <2>13. id' \in [Threads -> 0 .. Word - 1] /\ count' \in 0 .. Word - 1
    BY <2>1, <2>3, <2>4, <2>6 DEF INVALID
  <2>14. QED
    BY <2>7, <2>9, <2>10, <2>12, <2>13
<1>3. QED
  BY <1>1, <1>2

-----------------------------------------------------------------------------
\* A thread enters an operation.
LEMMA CallKeepsIInv ==
    ASSUME IInv, NEW t \in Threads, NEW op \in Ops, Call(t, op)
    PROVE  IInv'
<1>1. pc[t] = "out" /\ pc' = [pc EXCEPT ![t] = op] /\ UNCHANGED <<tid, rc, holds>>
  BY DEF Call
<1>2. /\ CountsKnown' /\ IdsDistinct' /\ \A u \in Known : u \in Known' /\ id'[u] = id[u]
      /\ id' \in [Threads -> 0 .. Word - 1] /\ count' \in 0 .. Word - 1
      /\ op # "destroy" => t \in Known'
  <2>1. CASE op = "destroy"
    <3>1. UNCHANGED <<id, count>>
      BY <2>1 DEF Call
    <3>2. QED
      BY <2>1, <3>1, SameIds DEF IInv, TypeOK
  <2>2. CASE op # "destroy"
    <3>1. ThreadId(t)
      BY <2>2 DEF Call
    <3>2. QED
      BY <3>1, ThreadIdKeepsIds
  <2>3. QED
    BY <2>1, <2>2
<1>3. TypeOK'
  BY <1>1, <1>2 DEF IInv, TypeOK, Ops
<1>4. CallersKnown'
  BY <1>1, <1>2 DEF IInv, TypeOK, CallersKnown
<1>5. WordNamesHolder'
  BY <1>1, <1>2 DEF IInv, WordNamesHolder, IDLE, INVALID
<1>6. QED
  BY <1>2, <1>3, <1>4, <1>5 DEF IInv

\* Leaving an operation keeps everything that is about ids and types.
LEMMA ReturnKeeps ==
    ASSUME IInv, NEW t \in Threads, NEW code \in Codes, Return(t, code)
    PROVE  /\ CountsKnown' /\ IdsDistinct' /\ CallersKnown' /\ Known' = Known
           /\ pc' \in [Threads -> Ops \cup {"out"}] /\ rc' \in [Threads -> Codes]
<1>1. Known' = Known /\ CountsKnown' /\ IdsDistinct'
  BY SameIds DEF Return
<1>2. CallersKnown'
  BY <1>1 DEF IInv, TypeOK, CallersKnown, Return
<1>3. QED
  BY <1>1, <1>2 DEF IInv, TypeOK, Return

\* An operation that leaves the word as it is returns a code.
LEMMA ReportKeepsIInv ==
    ASSUME IInv, NEW t \in Threads, NEW code \in Codes, Report(t, code)
    PROVE  IInv'
<1>1. Return(t, code) /\ UNCHANGED <<id, count, tid, holds>>
  BY DEF Report, Return
<1>2. TypeOK'
  BY <1>1, ReturnKeeps DEF IInv, TypeOK
<1>3. WordNamesHolder'
  BY <1>1, ReturnKeeps DEF IInv, WordNamesHolder, IDLE, INVALID
<1>4. QED
  BY <1>1, <1>2, <1>3, ReturnKeeps DEF IInv

\* A thread that has an id takes the free lock.
LEMMA TakeKeepsIInv ==
    ASSUME IInv, NEW t \in Known, Take(t)
    PROVE  IInv'
<1>1. t \in Threads /\ "ok" \in Codes
  BY DEF Known, Codes
<1>2. /\ tid = IDLE /\ tid' = id[t] /\ holds' = holds \cup {t}
      /\ Return(t, "ok") /\ UNCHANGED <<id, count>>
  BY DEF Take, Return
<1>3. holds = {}
  BY <1>2, CounterBound, Sentinels DEF IInv, WordNamesHolder, IDLE, INVALID, TypeOK, Known
<1>4. TypeOK'
  BY <1>1, <1>2, ReturnKeeps DEF IInv, TypeOK
<1>5. WordNamesHolder'
  BY <1>1, <1>2, <1>3, ReturnKeeps DEF WordNamesHolder
<1>6. QED
  BY <1>1, <1>2, <1>4, <1>5, ReturnKeeps DEF IInv

\* mys_mutex_unlock.
LEMMA UnlockKeepsIInv ==
    ASSUME IInv, NEW t \in Threads, Unlock(t)
    PROVE  IInv'
<1>1. t \in Known
  BY DEF Unlock, IInv, CallersKnown
<1>2. CASE tid # id[t] /\ Report(t, "EPERM")
  BY <1>2, ReportKeepsIInv DEF Codes
<1>3. CASE /\ tid = id[t] /\ tid' = IDLE
           /\ holds' = holds \ {t} /\ Return(t, "ok")
  <2>1. "ok" \in Codes /\ UNCHANGED <<id, count>>
    BY <1>3 DEF Codes, Return
  <2>2. holds' = {}
    <3>1. ASSUME NEW u \in holds PROVE u = t
      BY <1>1, <1>3 DEF IInv, WordNamesHolder, IdsDistinct
    <3>2. QED
      BY <1>3, <3>1
  <2>3. TypeOK'
    BY <1>3, <2>1, ReturnKeeps, Sentinels DEF IInv, TypeOK
  <2>4. WordNamesHolder'
    BY <1>3, <2>2 DEF WordNamesHolder, IDLE, INVALID
  <2>5. QED
    BY <1>3, <2>1, <2>3, <2>4, ReturnKeeps DEF IInv
<1>4. QED
  BY <1>2, <1>3 DEF Unlock

\* An idle or destroyed lock has no holder.
LEMMA SentinelNotHeld == ASSUME IInv, tid \in {IDLE, INVALID}
                         PROVE  holds = {}
BY CounterBound, Sentinels DEF IInv, WordNamesHolder, IDLE, INVALID, TypeOK, Known

\* mys_mutex_destroy.
LEMMA DestroyKeepsIInv ==
    ASSUME IInv, NEW t \in Threads, Destroy(t)
    PROVE  IInv'
<1>1. CASE tid = INVALID /\ Report(t, "EINVAL")
  BY <1>1, ReportKeepsIInv DEF Codes
<1>2. CASE tid \notin {IDLE, INVALID} /\ Report(t, "EBUSY")
  BY <1>2, ReportKeepsIInv DEF Codes
<1>3. CASE tid = IDLE /\ tid' = INVALID /\ Return(t, "ok") /\ UNCHANGED holds
  <2>1. "ok" \in Codes /\ UNCHANGED <<id, count>> /\ holds' = {}
    BY <1>3, SentinelNotHeld DEF Codes, Return
  <2>2. TypeOK'
    BY <1>3, <2>1, ReturnKeeps, Sentinels DEF IInv, TypeOK
  <2>3. WordNamesHolder'
    BY <1>3, <2>1 DEF WordNamesHolder, IDLE, INVALID
  <2>4. QED
    BY <1>3, <2>1, <2>2, <2>3, ReturnKeeps DEF IInv
<1>4. QED
  BY <1>1, <1>2, <1>3 DEF Destroy

\* mys_mutex_init of a lock that was destroyed.
LEMMA ReinitKeepsIInv ==
    ASSUME IInv, Reinit
    PROVE  IInv'
<1>1. holds' = {} /\ tid' = IDLE /\ UNCHANGED <<count, id, pc, rc>>
  BY SentinelNotHeld DEF Reinit
<1>2. Known' = Known /\ CountsKnown' /\ IdsDistinct'
  BY <1>1, SameIds
<1>3. TypeOK'
  BY <1>1, Sentinels DEF IInv, TypeOK
<1>4. CallersKnown' /\ WordNamesHolder'
  BY <1>1, <1>2 DEF IInv, CallersKnown, WordNamesHolder, IDLE
<1>5. QED
  BY <1>2, <1>3, <1>4 DEF IInv

\* The invariant is inductive.
LEMMA NextKeepsIInv == IInv /\ [Next]_vars => IInv'
<1> SUFFICES ASSUME IInv, [Next]_vars PROVE IInv'
  OBVIOUS
<1>1. ASSUME NEW t \in Threads, NEW op \in Ops, Call(t, op) PROVE IInv'
  BY <1>1, CallKeepsIInv
<1>2. ASSUME NEW t \in Threads, Lock(t) PROVE IInv'
  <2>1. t \in Known
    BY <1>2 DEF Lock, IInv, CallersKnown
  <2>2. CASE Take(t)
    BY <2>1, <2>2, TakeKeepsIInv
  <2>3. CASE Report(t, "EDEADLK") \/ Report(t, "EINVAL")
    BY <2>3, ReportKeepsIInv DEF Codes
  <2>4. QED
    BY <1>2, <2>2, <2>3 DEF Lock
<1>3. ASSUME NEW t \in Threads, TryLock(t) PROVE IInv'
  <2>1. t \in Known
    BY <1>3 DEF TryLock, IInv, CallersKnown
  <2>2. CASE Take(t)
    BY <2>1, <2>2, TakeKeepsIInv
  <2>3. CASE Report(t, "EDEADLK") \/ Report(t, "EINVAL") \/ Report(t, "EBUSY")
    BY <2>3, ReportKeepsIInv DEF Codes
  <2>4. QED
    BY <1>3, <2>2, <2>3 DEF TryLock
<1>4. ASSUME NEW t \in Threads, Unlock(t) PROVE IInv'
  BY <1>4, UnlockKeepsIInv
<1>5. ASSUME NEW t \in Threads, Destroy(t) PROVE IInv'
  BY <1>5, DestroyKeepsIInv
<1>6. CASE Reinit
  BY <1>6, ReinitKeepsIInv
<1>7. CASE UNCHANGED vars
  <2>1. UNCHANGED <<tid, count, id, pc, rc, holds>>
    BY <1>7 DEF vars
  <2>2. Known' = Known /\ CountsKnown' /\ IdsDistinct'
    BY <2>1, SameIds
  <2>3. TypeOK' /\ CallersKnown' /\ WordNamesHolder'
    BY <2>1, <2>2 DEF IInv, TypeOK, CallersKnown, WordNamesHolder
  <2>4. QED
    BY <2>2, <2>3 DEF IInv
<1>8. QED
  BY <1>1, <1>2, <1>3, <1>4, <1>5, <1>6, <1>7 DEF Next, Step

\* In every reachable state the ids in use are distinct and below the
\* sentinels, and the lock word names the one holder.
THEOREM IInvHolds == Spec => []IInv
<1>1. IInv /\ [Next]_vars => IInv'
  BY NextKeepsIInv
<1>2. QED
  BY InitIInv, <1>1, PTL DEF Spec

\* Type correctness: the lock word and the ids stay within the word.
THEOREM TypeCorrect == Spec => []TypeOK
<1>1. IInv => TypeOK
  BY DEF IInv
<1>2. QED
  BY <1>1, IInvHolds, PTL

\* Mutual exclusion of the spin mutex, whatever undisciplined threads call:
\* two holders would both have the word as their id.
THEOREM MutexExcludes == Spec => []MutualExclusion
<1>1. IInv => MutualExclusion
  BY DEF IInv, MutualExclusion, WordNamesHolder, IdsDistinct
<1>2. QED
  BY <1>1, IInvHolds, PTL

-----------------------------------------------------------------------------
\* The body of TruthfulCodes.
CodesTell ==
    \A t \in Threads :
        /\ Returns(t, "EDEADLK") => t \in holds
        /\ Returns(t, "EBUSY")   => holds # {}
        /\ Returns(t, "EPERM")   => t \notin holds
        /\ Returns(t, "EINVAL")  => tid = INVALID /\ holds = {}
        /\ (Returns(t, "ok") /\ pc[t] \in {"lock", "trylock", "destroy"}) => holds = {}
        /\ (Returns(t, "ok") /\ pc[t] = "unlock") => t \in holds

\* Only the thread that returns changes its return code and leaves.
LEMMA OneReturns ==
    ASSUME IInv, NEW t \in Threads, NEW code \in Codes, Return(t, code),
           NEW u \in Threads, NEW c, Returns(u, c)
    PROVE  u = t /\ c = code
BY DEF IInv, TypeOK, Return, Returns

\* The id of a thread is in the word only if it holds the lock.
LEMMA WordIsMine == ASSUME IInv, NEW t \in Known, tid = id[t]
                    PROVE  t \in holds
<1>1. tid \notin {IDLE, INVALID}
  BY CounterBound, Sentinels DEF IDLE, INVALID, IInv, TypeOK, Known
<1>2. QED
  BY <1>1 DEF IInv, WordNamesHolder, IdsDistinct

\* Every return code describes the lock at the step that decides it.
THEOREM CodesAreTruthful == Spec => TruthfulCodes
<1>1. IInv /\ [Next]_vars => [CodesTell]_vars
  <2> SUFFICES ASSUME IInv, Next PROVE CodesTell
    OBVIOUS
  <2>1. ASSUME NEW t \in Threads, NEW op \in Ops, Call(t, op) PROVE CodesTell
    BY <2>1 DEF Call, CodesTell, Returns, IInv, TypeOK, Ops
  <2>2. ASSUME NEW t \in Threads, Lock(t) \/ TryLock(t) PROVE CodesTell
    <3>1. t \in Known
      BY <2>2 DEF Lock, TryLock, IInv, CallersKnown
    <3>2. CASE Take(t)
      BY <2>2, <3>2, OneReturns, SentinelNotHeld DEF Take, CodesTell, Codes, Lock, TryLock
    <3>3. CASE tid = id[t] /\ Report(t, "EDEADLK")
      BY <3>1, <3>3, OneReturns, WordIsMine DEF Report, CodesTell, Codes
    <3>4. CASE tid = INVALID /\ Report(t, "EINVAL")
      BY <3>4, OneReturns, SentinelNotHeld DEF Report, CodesTell, Codes
    <3>5. CASE tid \notin {IDLE, id[t], INVALID} /\ Report(t, "EBUSY")
      BY <3>5, OneReturns DEF Report, CodesTell, Codes, IInv, WordNamesHolder
    <3>6. QED
      BY <2>2, <3>2, <3>3, <3>4, <3>5 DEF Lock, TryLock
  <2>3. ASSUME NEW t \in Threads, Unlock(t) PROVE CodesTell
    <3>1. t \in Known
      BY <2>3 DEF Unlock, IInv, CallersKnown
    <3>2. CASE tid = id[t] /\ Return(t, "ok")
      BY <2>3, <3>1, <3>2, OneReturns, WordIsMine DEF CodesTell, Codes, Unlock
    <3>3. CASE tid # id[t] /\ Report(t, "EPERM")
      BY <3>3, OneReturns DEF Report, CodesTell, Codes, IInv, WordNamesHolder
    <3>4. QED
      BY <2>3, <3>2, <3>3 DEF Unlock
  <2>4. ASSUME NEW t \in Threads, Destroy(t) PROVE CodesTell
    <3>1. CASE tid = IDLE /\ Return(t, "ok")
      BY <2>4, <3>1, OneReturns, SentinelNotHeld DEF CodesTell, Codes, Destroy
    <3>2. CASE tid = INVALID /\ Report(t, "EINVAL")
      BY <3>2, OneReturns, SentinelNotHeld DEF Report, CodesTell, Codes
    <3>3. CASE tid \notin {IDLE, INVALID} /\ Report(t, "EBUSY")
      BY <3>3, OneReturns DEF Report, CodesTell, Codes, IInv, WordNamesHolder
    <3>4. QED
      BY <2>4, <3>1, <3>2, <3>3 DEF Destroy
  <2>5. CASE Reinit
    BY <2>5 DEF Reinit, CodesTell, Returns
  <2>6. QED
    BY <2>1, <2>2, <2>3, <2>4, <2>5 DEF Next, Step
<1>2. Spec => [][CodesTell]_vars
  BY <1>1, IInvHolds, PTL DEF Spec
<1>3. QED
  BY <1>2 DEF TruthfulCodes, CodesTell

-----------------------------------------------------------------------------
\* What LockSpec sees: nobody owns an idle word, the holder owns its word.
OwnerMatches == /\ tid = IDLE => Owner = NoOne
                /\ tid = INVALID => Owner = Dead
                /\ \A t \in holds : Owner = t

\* The owner of the abstract lock is the thread that the word names.
LEMMA OwnerIs == IInv => OwnerMatches
<1> SUFFICES ASSUME IInv PROVE OwnerMatches
  OBVIOUS
<1>1. ASSUME tid = IDLE PROVE Owner = NoOne
  BY <1>1 DEF Owner
<1>2. ASSUME tid = INVALID PROVE Owner = Dead
  BY <1>2, Sentinels DEF Owner
<1>3. ASSUME NEW t \in holds PROVE Owner = t
  <2>1. t \in Threads /\ t \in Known /\ tid = id[t]
    BY DEF IInv, WordNamesHolder, Known
  <2>2. tid \notin {IDLE, INVALID, NOID}
    BY <2>1, CounterBound, Sentinels DEF IDLE, INVALID, NOID, IInv, TypeOK
  <2>3. \A u \in Threads : id[u] = tid => u = t
    BY <2>1, <2>2 DEF IInv, IdsDistinct, Known
  <2>4. QED
    BY <2>1, <2>2, <2>3 DEF Owner
<1>4. QED
  BY <1>1, <1>2, <1>3 DEF OwnerMatches

\* A step that changes neither the word nor its holder keeps the owner.
LEMMA SameOwner == ASSUME IInv, OwnerMatches, OwnerMatches', UNCHANGED <<tid, holds>>
                   PROVE  Owner' = Owner
<1>1. CASE tid \in {IDLE, INVALID}
  BY <1>1 DEF OwnerMatches, IDLE, INVALID
<1>2. CASE tid \notin {IDLE, INVALID}
  BY <1>2 DEF OwnerMatches, IInv, WordNamesHolder
<1>3. QED
  BY <1>1, <1>2

\* Every step of the spin mutex is a step of LockSpec or keeps the owner.
LEMMA NextRefines == ASSUME IInv, OwnerMatches, OwnerMatches', [Next]_vars
                     PROVE  [Abstract!Next]_Owner
<1>1. ASSUME NEW t \in Threads, Take(t) PROVE Abstract!Acquire(t)
  <2>1. t \in holds' /\ tid = IDLE
    BY <1>1 DEF Take
  <2>2. QED
    BY <2>1 DEF Abstract!Acquire, OwnerMatches
<1>2. ASSUME NEW t \in Threads, NEW code, Report(t, code) PROVE Owner' = Owner
  BY <1>2, SameOwner DEF Report
<1>3. ASSUME NEW t \in Threads, NEW op \in Ops, Call(t, op) PROVE Owner' = Owner
  BY <1>3, SameOwner DEF Call
<1>4. ASSUME NEW t \in Threads, Unlock(t) PROVE Abstract!Release(t) \/ Owner' = Owner
  <2>1. CASE tid = id[t] /\ tid' = IDLE
    <3>1. t \in holds
      BY <1>4, <2>1, WordIsMine DEF IInv, CallersKnown, Unlock
    <3>2. QED
      BY <2>1, <3>1 DEF Abstract!Release, OwnerMatches, IDLE
  <2>2. QED
    BY <1>4, <2>1, <1>2 DEF Unlock
<1>5. ASSUME NEW t \in Threads, Destroy(t) PROVE Abstract!Destroy \/ Owner' = Owner
  <2>1. CASE tid = IDLE /\ tid' = INVALID
    BY <2>1 DEF Abstract!Destroy, OwnerMatches, INVALID
  <2>2. QED
    BY <1>5, <2>1, <1>2 DEF Destroy
<1>6. ASSUME Reinit PROVE Abstract!Revive \/ Owner' = Owner
  BY <1>6 DEF Reinit, Abstract!Revive, OwnerMatches, IDLE
<1>7. ASSUME UNCHANGED vars PROVE Owner' = Owner
  BY <1>7, SameOwner DEF vars
<1>8. QED
  BY <1>1, <1>2, <1>3, <1>4, <1>5, <1>6, <1>7
  DEF Next, Step, Lock, TryLock, Abstract!Next

\* The spin mutex implements the abstract lock.
THEOREM MutexImplementsLock == Spec => ImplementsLockSpec
<1>1. Init => Abstract!Init
  BY DEF Init, Abstract!Init, Owner
<1>2. IInv /\ OwnerMatches /\ OwnerMatches' /\ [Next]_vars => [Abstract!Next]_Owner
  BY NextRefines
<1>3. Spec => []OwnerMatches
  BY IInvHolds, OwnerIs, PTL
<1>4. QED
  BY <1>1, <1>2, <1>3, IInvHolds, PTL DEF Spec, ImplementsLockSpec, Abstract!Spec
=============================================================================
