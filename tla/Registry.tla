------------------------------ MODULE Registry ------------------------------
(***************************************************************************)
(* The registry of memory arenas, src/include/mys/impl/memory.c.           *)
(*                                                                         *)
(* A process keeps one array of its arenas.  An arena enters it the first  *)
(* time memory is charged to it (or when it is created) and leaves it when *)
(* it is destroyed; mys_arena_next_leaked walks it.  The array is guarded  *)
(* by a mutex, but whether an arena is registered is asked before the      *)
(* mutex is taken, and how much of it is alive is neither written nor read *)
(* under it by those who allocate.  What a critical section does to the    *)
(* array is one step here, since the array is only touched inside of one;  *)
(* the walk, which reads the arenas' counters, is a step per arena.        *)
(*                                                                         *)
(* The client frees an arena's memory before it destroys the arena, does   *)
(* not destroy an arena that a walk stands on, and lets the calls on one   *)
(* arena overlap only if the arena is in Overlap.                          *)
(***************************************************************************)
EXTENDS Integers, FiniteSets

CONSTANTS Threads,
          Walkers,    \* the threads that look for leaks
          Static,     \* the predefined arenas, such as MYS_ARENA_POOL
          Dynamic,    \* the addresses mys_arena_create can get from malloc
          Overlap,    \* the arenas several threads use at the same time
          NULL, NoThread,
          Capacity,   \* MYS_MAX_REGISTERED_ARENA
          MaxAlive    \* bound: units of memory alive in one arena

Arenas == Static \cup Dynamic

ASSUME RegistryAssumption ==
    /\ Static \cap Dynamic = {} /\ NULL \notin Arenas
    /\ NoThread \notin Threads /\ Walkers \subseteq Threads
    /\ Overlap \subseteq Arenas
    /\ Capacity \in Nat \ {0} /\ MaxAlive \in Nat \ {0}

VARIABLES
    registered_arenas, arena_size, lock,  \* _mys_memory_G
    exists,        \* the arenas whose memory is allocated
    _registered,   \* the arenas whose _registered flag is set
    alive,         \* alive[a]: units of memory
    pc,            \* pc[t]: the step t does next, or "out" between calls
    op, arena,     \* op[t], arena[t]: the call t is in and its argument
    pivot,         \* pivot[t]: the last arena next_leaked returned to t
    index, passed, \* locals of mys_arena_next_leaked
    aborted,       \* an assertion has failed
    visited, must  \* of the walk of t (history variables): the arenas it got,
                   \* and those that were leaked the whole time it has lasted

registry == <<registered_arenas, arena_size, lock>>
calls == <<pc, op, arena>>
walk == <<pivot, index, passed>>
history == <<visited, must>>
vars == <<registry, exists, _registered, alive, calls, walk, aborted, history>>

ArenaOrNull == Arenas \cup {NULL}
Slots == 0 .. Capacity - 1

Init == /\ registered_arenas = [i \in Slots |-> NULL]
        /\ arena_size = 0
        /\ lock = NoThread
        /\ exists = Static
        /\ _registered = {}
        /\ alive = [a \in Arenas |-> 0]
        /\ pc = [t \in Threads |-> "out"]
        /\ op = [t \in Threads |-> "none"]
        /\ arena = [t \in Threads |-> NULL]
        /\ pivot = [t \in Threads |-> NULL]
        /\ index = [t \in Threads |-> 0]
        /\ passed = [t \in Threads |-> FALSE]
        /\ aborted = FALSE
        /\ visited = [t \in Threads |-> {}]
        /\ must = [t \in Threads |-> {}]

-----------------------------------------------------------------------------
Goto(t, step) == pc' = [pc EXCEPT ![t] = step]

Proceed(t, step) == Goto(t, step) /\ UNCHANGED <<op, arena>>

\* A call ends, and its locals with it.
Return(t) ==
    /\ pc' = [pc EXCEPT ![t] = "out"]
    /\ op' = [op EXCEPT ![t] = "none"]
    /\ arena' = [arena EXCEPT ![t] = NULL]

\* Nobody else is in a call on a, or the client does not care.
MayUse(t, a) == a \in Overlap \/ \A u \in Threads \ {t} : pc[u] # "out" => arena[u] # a

\* t makes a call on the existing arena a.
Call(t, o, a) ==
    /\ ~aborted /\ pc[t] = "out"
    /\ a \in exists
    /\ MayUse(t, a)
    /\ op' = [op EXCEPT ![t] = o]
    /\ arena' = [arena EXCEPT ![t] = a]
    /\ UNCHANGED <<registry, exists, _registered, alive, walk, aborted, history>>

\* The first step of _mys_ensure_register_arena, outside the lock.
CheckRegistered(t, a) ==
    Goto(t, IF a \in _registered THEN "charge" ELSE "register")

\* mys_malloc2 and the other allocations, mys_alloc_record.
Alloc(t, a) == alive[a] < MaxAlive /\ Call(t, "alloc", a) /\ CheckRegistered(t, a)

\* mys_free2, mys_free_record.
Free(t, a) == alive[a] > 0 /\ Call(t, "free", a) /\ CheckRegistered(t, a)

\* mys_arena_create.
Create(t, a) ==
    /\ ~aborted /\ pc[t] = "out"
    /\ a \in Dynamic \ exists
    /\ exists' = exists \cup {a}
    /\ alive' = [alive EXCEPT ![a] = 0]
    /\ op' = [op EXCEPT ![t] = "create"]
    /\ arena' = [arena EXCEPT ![t] = a]
    /\ Goto(t, "register")
    /\ UNCHANGED <<registry, _registered, walk, aborted, history>>

\* Mutant of Register: the flag is not set.
RegisterNoFlag(t) ==
    /\ ~aborted /\ pc[t] = "register" /\ lock = NoThread /\ arena_size # Capacity
    /\ registered_arenas' = [registered_arenas EXCEPT ![arena_size] = arena[t]]
    /\ arena_size' = arena_size + 1
    /\ IF op[t] = "create" THEN Return(t) ELSE Proceed(t, "charge")
    /\ UNCHANGED <<_registered, lock, exists, alive, walk, history, aborted>>

\* The critical section of _mys_ensure_register_arena.  It does not ask again
\* whether the arena has been registered since.
Register(t) ==
    /\ ~aborted /\ pc[t] = "register"
    /\ lock = NoThread
    /\ IF arena_size = Capacity
       THEN /\ aborted' = TRUE
            /\ UNCHANGED <<registered_arenas, arena_size, _registered, calls>>
       ELSE /\ registered_arenas' = [registered_arenas EXCEPT ![arena_size] = arena[t]]
            /\ arena_size' = arena_size + 1
            /\ _registered' = _registered \cup {arena[t]}
            /\ IF op[t] = "create" THEN Return(t) ELSE Proceed(t, "charge")
            /\ UNCHANGED aborted
    /\ UNCHANGED <<lock, exists, alive, walk, history>>

\* MAKE_GCC_HAPPY_ALLOC_RECORD and mys_free_record, after ensure_register.
Charge(t) ==
    LET a == arena[t]
    IN  /\ ~aborted /\ pc[t] = "charge"
        /\ alive' = [alive EXCEPT ![a] = IF op[t] = "alloc" THEN @ + 1 ELSE @ - 1]
        /\ must' = [u \in Threads |-> IF alive'[a] = 0 THEN must[u] \ {a} ELSE must[u]]
        /\ Return(t)
        /\ UNCHANGED <<registry, exists, _registered, walk, aborted, visited>>

\* mys_arena_destroy: every created arena is registered, so it goes on to
\* _mys_deregister_arena.
Destroy(t, a) ==
    /\ a \in Dynamic /\ alive[a] = 0
    /\ \A u \in Threads : pivot[u] # a
    /\ Call(t, "destroy", a)
    /\ Goto(t, "deregister")

\* Mutant of Removed: the last arena fills the gap.
RemovedSwapsLast(i) ==
    [registered_arenas EXCEPT ![i] = registered_arenas[arena_size - 1]]

\* The array without the arena at slot i: those behind it move up by one.  What
\* was in the last slot stays there, beyond arena_size.
Removed(i) ==
    [j \in Slots |-> IF j >= i /\ j + 1 < arena_size THEN registered_arenas[j + 1]
                     ELSE IF j = i THEN NULL ELSE registered_arenas[j]]

\* The critical section of _mys_deregister_arena, and the free of the arena.
Deregister(t) ==
    LET a == arena[t]
    IN  /\ ~aborted /\ pc[t] = "deregister"
        /\ lock = NoThread
        /\ \E i \in 0 .. arena_size - 1 :
              /\ registered_arenas[i] = a
              /\ \A j \in 0 .. i - 1 : registered_arenas[j] # a
              /\ registered_arenas' = Removed(i)
        /\ arena_size' = arena_size - 1
        /\ _registered' = _registered \ {a}
        /\ exists' = exists \ {a}
        /\ visited' = [u \in Threads |-> visited[u] \ {a}]
        /\ must' = [u \in Threads |-> must[u] \ {a}]
        /\ Return(t)
        /\ UNCHANGED <<lock, alive, walk, aborted>>

-----------------------------------------------------------------------------
\* mys_arena_next_leaked(pivot[t]): a walk starts from NULL and goes on from
\* what the call before it returned.
NextLeaked(t) ==
    /\ t \in Walkers
    /\ ~aborted /\ pc[t] = "out"
    /\ lock = NoThread
    /\ lock' = t
    /\ index' = [index EXCEPT ![t] = 0]
    /\ passed' = [passed EXCEPT ![t] = pivot[t] = NULL]
    /\ op' = [op EXCEPT ![t] = "next_leaked"]
    /\ Goto(t, "scan")
    /\ must' = IF pivot[t] # NULL THEN must
               ELSE [must EXCEPT ![t] = {a \in _registered : alive[a] # 0}]
    /\ UNCHANGED <<registered_arenas, arena_size, exists, _registered, alive, arena, pivot,
                   aborted, visited>>

Unlock(t) ==
    /\ lock' = NoThread
    /\ index' = [index EXCEPT ![t] = 0]
    /\ passed' = [passed EXCEPT ![t] = FALSE]
    /\ Return(t)

\* The loop finds the next leaked arena.
ScanFinds(t) ==
    /\ ~aborted /\ pc[t] = "scan" /\ index[t] < arena_size
    /\ LET a == registered_arenas[index[t]]
       IN  /\ passed[t] /\ alive[a] # 0
           /\ pivot' = [pivot EXCEPT ![t] = a]
           /\ visited' = [visited EXCEPT ![t] = @ \cup {a}]
    /\ Unlock(t)
    /\ UNCHANGED <<registered_arenas, arena_size, exists, _registered, alive, aborted, must>>

\* The loop goes past an arena.
ScanPasses(t) ==
    /\ ~aborted /\ pc[t] = "scan" /\ index[t] < arena_size
    /\ LET a == registered_arenas[index[t]]
       IN  /\ ~(passed[t] /\ alive[a] # 0)
           /\ passed' = [passed EXCEPT ![t] = @ \/ a = pivot[t]]
    /\ index' = [index EXCEPT ![t] = @ + 1]
    /\ UNCHANGED <<registry, exists, _registered, alive, calls, pivot, aborted, history>>

\* The loop ends: NULL, the walk is over.
ScanEnds(t) ==
    /\ ~aborted /\ pc[t] = "scan" /\ index[t] = arena_size
    /\ pivot' = [pivot EXCEPT ![t] = NULL]
    /\ Unlock(t)
    /\ visited' = [visited EXCEPT ![t] = {}]
    /\ must' = [must EXCEPT ![t] = {}]
    /\ UNCHANGED <<registered_arenas, arena_size, exists, _registered, alive, aborted>>

Next == \E t \in Threads :
            \/ \E a \in Arenas : \/ Alloc(t, a) \/ Free(t, a)
                                 \/ Create(t, a) \/ Destroy(t, a)
            \/ Register(t) \/ Charge(t) \/ Deregister(t)
            \/ NextLeaked(t) \/ ScanFinds(t) \/ ScanPasses(t) \/ ScanEnds(t)

Spec == Init /\ [][Next]_vars

-----------------------------------------------------------------------------
TypeOK ==
    /\ registered_arenas \in [Slots -> ArenaOrNull]
    /\ arena_size \in 0 .. Capacity
    /\ lock \in Threads \cup {NoThread}
    /\ exists \in SUBSET Arenas /\ _registered \in SUBSET Arenas
    /\ alive \in [Arenas -> 0 .. MaxAlive]
    /\ pc \in [Threads -> {"out", "register", "charge", "deregister", "scan"}]
    /\ op \in [Threads -> {"none", "create", "alloc", "free", "destroy", "next_leaked"}]
    /\ arena \in [Threads -> ArenaOrNull] /\ pivot \in [Threads -> ArenaOrNull]
    /\ index \in [Threads -> 0 .. Capacity] /\ passed \in [Threads -> BOOLEAN]
    /\ aborted \in BOOLEAN
    /\ visited \in [Threads -> SUBSET Arenas] /\ must \in [Threads -> SUBSET Arenas]

\* The array holds each registered arena once and nothing else, and all of
\* them exist: a walk never reads a NULL slot or an arena that was freed, and
\* everything memory is charged to is in it.
RegistryExact ==
    LET listed == {registered_arenas[i] : i \in 0 .. arena_size - 1}
    IN  /\ listed = _registered /\ Cardinality(listed) = arena_size
        /\ listed \subseteq exists
        /\ \A a \in Arenas : alive[a] # 0 => a \in listed

\* A walk returns an arena at most once, and when it ends with NULL it has
\* returned every arena that was leaked from its start to its end, however
\* other threads create, charge and destroy arenas between its calls:
\* mys_arena_next_leaked(pivot) is an arena after the pivot, and skips none.
WalkIsExact ==
    [][\A t \in Threads : (pc[t] = "scan" /\ pc'[t] = "out") =>
          IF pivot'[t] = NULL THEN must[t] \subseteq visited[t]
                              ELSE pivot'[t] \notin visited[t]]_vars
=============================================================================
