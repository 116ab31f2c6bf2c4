------------------------------- MODULE Mutex --------------------------------
(***************************************************************************)
(* The spin mutex of libmys, src/include/mys/impl/thread.c (the default    *)
(* build, without MYS_USE_POSIX_MUTEX), and the thread ids it is built on. *)
(*                                                                         *)
(* The whole lock is one unsigned word, lock->tid.  It holds the sentinel  *)
(* IDLE, the sentinel INVALID (a destroyed lock) or the id of its owner,   *)
(* and every operation is one strong compare-and-swap on it, repeated by   *)
(* mys_mutex_lock while another thread's id is in the word.  An operation  *)
(* is two steps here, so that calls of several threads overlap: the call,  *)
(* which assigns the caller its id, and the compare-and-swap that decides  *)
(* the return code.  Threads are not disciplined: any thread may call any  *)
(* operation, relock a lock it holds, or unlock one it does not hold.      *)
(* Only mys_mutex_init, a plain store, needs the lock to be out of use.    *)
(***************************************************************************)
EXTENDS Integers, FiniteSets

CONSTANTS Threads,      \* the threads of the process
          Word,         \* number of values of the lock word (2^32 for uint32_t)
          NoOne, Dead   \* names of the unowned lock states in LockSpec

ASSUME ThreadsFinite == IsFiniteSet(Threads)
ASSUME WordLargeEnough == Word \in Nat /\ Word > Cardinality(Threads) + 3
ASSUME NamesAreNoThreads == NoOne # Dead /\ {NoOne, Dead} \cap Threads = {}

VARIABLES
    tid,     \* lock->tid, the lock word
    count,   \* __mys_thread_count, the next thread id
    id,      \* id[t]: the thread-local __mys_thread_id of t
    pc,      \* pc[t]: the operation t is executing, or "out"
    rc,      \* rc[t]: what the last operation of t returned
    holds    \* the threads whose lock or trylock returned 0 and that
             \* have not had an unlock return 0 since (history variable)

vars == <<tid, count, id, pc, rc, holds>>

NOID    == Word - 1     \* UINT32_MAX: this thread has no id yet
IDLE    == Word - 2     \* __MYS_MUTEX_IDLE
INVALID == Word - 3     \* __MYS_MUTEX_INVALID

Ops   == {"lock", "trylock", "unlock", "destroy"}
Codes == {"none", "ok", "EDEADLK", "EINVAL", "EBUSY", "EPERM"}

Init == /\ tid = IDLE                       \* MYS_MUTEX_INITIALIZER
        /\ count = 0
        /\ id = [t \in Threads |-> NOID]
        /\ pc = [t \in Threads |-> "out"]
        /\ rc = [t \in Threads |-> "none"]
        /\ holds = {}

-----------------------------------------------------------------------------
\* mys_thread_id: the first call of a thread draws its id from the counter.
ThreadId(t) ==
    IF id[t] = NOID
    THEN /\ id' = [id EXCEPT ![t] = count]
         /\ count' = (count + 1) % Word
    ELSE UNCHANGED <<id, count>>

\* t enters one of the operations.  Only destroy does not ask for its id.
Call(t, op) ==
    /\ pc[t] = "out"
    /\ pc' = [pc EXCEPT ![t] = op]
    /\ IF op = "destroy" THEN UNCHANGED <<id, count>> ELSE ThreadId(t)
    /\ UNCHANGED <<tid, rc, holds>>

\* t leaves its operation with a return code.
Return(t, code) ==
    /\ pc' = [pc EXCEPT ![t] = "out"]
    /\ rc' = [rc EXCEPT ![t] = code]
    /\ UNCHANGED <<id, count>>

\* A compare-and-swap that finds IDLE makes t the owner.
Take(t) ==
    /\ tid = IDLE
    /\ tid' = id[t]
    /\ holds' = holds \cup {t}
    /\ Return(t, "ok")

\* The operation reports what it found in the word and changes nothing.
Report(t, code) == Return(t, code) /\ UNCHANGED <<tid, holds>>

\* Mutant of Lock: the expected value is not reset after a failed exchange, so
\* the next round exchanges the owner's id for the caller's.
LockKeepsExpected(t) ==
    /\ pc[t] = "lock"
    /\ \/ Take(t)
       \/ tid = id[t]   /\ Report(t, "EDEADLK")
       \/ tid = INVALID /\ Report(t, "EINVAL")
       \/ /\ tid \notin {IDLE, id[t], INVALID}
          /\ tid' = id[t]
          /\ holds' = holds \cup {t}
          /\ Return(t, "ok")

\* Mutant of Lock: the expected value is reset to the wrong sentinel, so an
\* idle lock is never taken.
LockExpectsInvalid(t) ==
    /\ pc[t] = "lock"
    /\ \/ /\ tid = INVALID
          /\ tid' = id[t]
          /\ holds' = holds \cup {t}
          /\ Return(t, "ok")
       \/ tid = id[t] /\ Report(t, "EDEADLK")

\* mys_mutex_lock: on another thread's id the loop resets its expected value
\* to IDLE and tries again, which changes no state: t is then not enabled.
Lock(t) ==
    /\ pc[t] = "lock"
    /\ \/ Take(t)
       \/ tid = id[t]   /\ Report(t, "EDEADLK")
       \/ tid = INVALID /\ Report(t, "EINVAL")

\* mys_mutex_trylock: one attempt, so another thread's id is EBUSY.
TryLock(t) ==
    /\ pc[t] = "trylock"
    /\ \/ Take(t)
       \/ tid = id[t]   /\ Report(t, "EDEADLK")
       \/ tid = INVALID /\ Report(t, "EINVAL")
       \/ tid \notin {IDLE, id[t], INVALID} /\ Report(t, "EBUSY")

\* Mutant of Unlock: whoever calls it frees the lock.
UnlockForeign(t) ==
    /\ pc[t] = "unlock"
    /\ \/ /\ tid \notin {IDLE, INVALID}
          /\ tid' = IDLE
          /\ holds' = holds \ {t}
          /\ Return(t, "ok")
       \/ tid \in {IDLE, INVALID} /\ Report(t, "EPERM")

\* mys_mutex_unlock: any word but the caller's own id is EPERM; the tests for
\* INVALID and IDLE that follow that one in the loop are never reached.
Unlock(t) ==
    /\ pc[t] = "unlock"
    /\ \/ /\ tid = id[t]
          /\ tid' = IDLE
          /\ holds' = holds \ {t}
          /\ Return(t, "ok")
       \/ tid # id[t] /\ Report(t, "EPERM")

\* Mutant of Destroy: a store in place of the compare-and-swap.
DestroyStores(t) ==
    /\ pc[t] = "destroy"
    /\ tid' = INVALID
    /\ Return(t, "ok")
    /\ UNCHANGED holds

\* mys_mutex_destroy: only an idle lock becomes INVALID.
Destroy(t) ==
    /\ pc[t] = "destroy"
    /\ \/ /\ tid = IDLE
          /\ tid' = INVALID
          /\ Return(t, "ok")
          /\ UNCHANGED holds
       \/ tid = INVALID /\ Report(t, "EINVAL")
       \/ tid \notin {IDLE, INVALID} /\ Report(t, "EBUSY")

\* mys_mutex_init is a relaxed store.  It is called on a lock that is not in
\* use: before its first use or after its destruction.
Reinit ==
    /\ tid \in {IDLE, INVALID}
    /\ \A t \in Threads : pc[t] = "out"
    /\ tid' = IDLE
    /\ UNCHANGED <<count, id, pc, rc, holds>>

Step(t) == Lock(t) \/ TryLock(t) \/ Unlock(t) \/ Destroy(t)

Next == \/ \E t \in Threads, op \in Ops : Call(t, op)
        \/ \E t \in Threads : Step(t)
        \/ Reinit

Spec == Init /\ [][Next]_vars

\* A thread that is executing an operation keeps executing it.  Nothing is
\* assumed of a thread outside of one: it may never call again.
Fairness == \A t \in Threads : WF_vars(Step(t))

FairSpec == Spec /\ Fairness

-----------------------------------------------------------------------------
TypeOK == /\ tid \in 0 .. Word - 1
          /\ count \in 0 .. Word - 1
          /\ id \in [Threads -> 0 .. Word - 1]
          /\ pc \in [Threads -> Ops \cup {"out"}]
          /\ rc \in [Threads -> Codes]
          /\ holds \in SUBSET Threads

\* The threads that have drawn an id.
Known == {t \in Threads : id[t] # NOID}

\* Mutual exclusion: at most one thread is between a successful lock or
\* trylock and its unlock, whatever the other threads call meanwhile.
MutualExclusion == \A t, u \in holds : t = u

\* The step in which t leaves its operation with the given code.
Returns(t, code) == pc[t] # "out" /\ pc'[t] = "out" /\ rc'[t] = code

\* The return codes tell the truth about the lock at the moment they are
\* decided: EDEADLK only to its holder, EBUSY only while it is held, EPERM
\* only to a thread that does not hold it, success only when it was free, and
\* EINVAL only once it was destroyed.
TruthfulCodes == [][
    \A t \in Threads :
        /\ Returns(t, "EDEADLK") => t \in holds
        /\ Returns(t, "EBUSY")   => holds # {}
        /\ Returns(t, "EPERM")   => t \notin holds
        /\ Returns(t, "EINVAL")  => tid = INVALID /\ holds = {}
        /\ (Returns(t, "ok") /\ pc[t] \in {"lock", "trylock", "destroy"}) => holds = {}
        /\ (Returns(t, "ok") /\ pc[t] = "unlock") => t \in holds
    ]_vars

\* The lock as LockSpec sees it.
Owner == IF tid = IDLE THEN NoOne
         ELSE IF tid = INVALID THEN Dead
         ELSE CHOOSE t \in Threads : id[t] = tid

Abstract == INSTANCE LockSpec WITH Free <- NoOne, owner <- Owner

\* The spin word implements the abstract lock: ownership passes from thread to
\* thread only through the free state, and only a free lock is destroyed.
ImplementsLockSpec == Abstract!Spec

\* A spinning thread is not left behind by a lock that nobody holds: either
\* some thread takes (or destroys) it, or no thread is spinning any more.
FreeLockIsTaken ==
    (tid = IDLE /\ \E t \in Threads : pc[t] = "lock")
        ~> (tid # IDLE \/ \A t \in Threads : pc[t] # "lock")
=============================================================================
