---------------------------- MODULE RegistryProofs ----------------------------
(***************************************************************************)
(* Proofs about Registry, for any threads, arenas and capacity, when the   *)
(* calls of two threads on one arena do not overlap (Overlap = {}).        *)
(*                                                                         *)
(* What is asked before the lock is taken stays true until it is used,     *)
(* since no other thread is in a call on that arena: an arena that is to   *)
(* be registered is not, and one that is charged is.  A removal keeps the  *)
(* order of the arenas behind it, so that "before the pivot" means the     *)
(* same for all calls of a walk.                                           *)
(***************************************************************************)
EXTENDS Registry, FiniteSetTheorems, TLAPS

At(i) == registered_arenas[i]
Live == 0 .. arena_size - 1

\* The array holds the registered arenas, each of them once, and an arena
\* that has memory is one of them.
ListOK ==
    /\ \A i \in Live : At(i) \in _registered
    /\ \A a \in _registered : \E i \in Live : At(i) = a
    /\ \A i, j \in Live : At(i) = At(j) => i = j
    /\ _registered \subseteq exists
    /\ \A a \in Arenas : alive[a] # 0 => a \in _registered

\* What the call of t relies on.
CallOK(t) ==
    /\ pc[t] \in {"out", "scan"} => arena[t] = NULL
    /\ pc[t] \in {"register", "charge", "deregister"} => arena[t] \in exists
    /\ pc[t] = "register" => arena[t] \notin _registered /\ op[t] \in {"create", "alloc"}
    /\ pc[t] = "charge" => arena[t] \in _registered /\ op[t] \in {"alloc", "free"}
    /\ pc[t] \in {"register", "charge"} /\ op[t] = "alloc" => alive[arena[t]] < MaxAlive
    /\ pc[t] = "charge" /\ op[t] = "free" => alive[arena[t]] > 0
    /\ pc[t] = "deregister" => alive[arena[t]] = 0 /\ \A u \in Threads : pivot[u] # arena[t]

\* No two threads are in calls on one arena.
Exclusive == \A t, u \in Threads : t # u /\ arena[t] # NULL => arena[u] # arena[t]

\* Where the walk of t stands: what it got is not behind its pivot, and what it
\* still has to get is.
WalkOK(t) ==
    /\ pc[t] = "scan" <=> lock = t
    /\ pivot[t] # NULL => pivot[t] \in _registered
    /\ pivot[t] = NULL => visited[t] = {} /\ (pc[t] # "scan" => must[t] = {})
    /\ visited[t] \subseteq _registered /\ must[t] \subseteq _registered
    /\ \A a \in must[t] : alive[a] # 0
    /\ \A i, j \in Live : At(j) = pivot[t] =>
           /\ At(i) \in visited[t] => i <= j
           /\ At(i) \in must[t] \ visited[t] => i > j

\* Where its loop stands: it has passed the pivot, and nothing it has to get.
ScanOK(t) == pc[t] = "scan" =>
    /\ index[t] <= arena_size
    /\ passed[t] <=> pivot[t] = NULL \/ \E j \in 0 .. index[t] - 1 : At(j) = pivot[t]
    /\ passed[t] => \A i \in 0 .. index[t] - 1 : At(i) \notin must[t] \ visited[t]

IInv == /\ TypeOK /\ ListOK /\ Exclusive
        /\ \A t \in Threads : CallOK(t) /\ WalkOK(t) /\ ScanOK(t)
-----------------------------------------------------------------------------
\* A process that has charged nothing yet satisfies the invariant.
LEMMA InitIInv == Init => IInv
<1> SUFFICES ASSUME Init PROVE IInv
  OBVIOUS
<1> USE RegistryAssumption
<1>1. TypeOK
  <2>1. registered_arenas \in [Slots -> ArenaOrNull] /\ arena_size \in 0 .. Capacity
    BY DEF Init, ArenaOrNull
  <2>2. exists \in SUBSET Arenas /\ alive \in [Arenas -> 0 .. MaxAlive]
    BY DEF Init, Arenas
  <2>3. index \in [Threads -> 0 .. Capacity] /\ passed \in [Threads -> BOOLEAN]
    BY DEF Init
  <2> QED
    BY <2>1, <2>2, <2>3 DEF Init, TypeOK, ArenaOrNull
<1>2. ListOK /\ Exclusive
  BY DEF Init, ListOK, Exclusive, Live, At, Arenas
<1>3. \A t \in Threads : CallOK(t) /\ WalkOK(t) /\ ScanOK(t)
  BY DEF Init, CallOK, WalkOK, ScanOK, Live, At
<1> QED
  BY <1>1, <1>2, <1>3 DEF IInv

\* An arena that a call begins on is in no other call.
LEMMA CallAlone ==
    ASSUME Overlap = {}, IInv, NEW t \in Threads, NEW o, NEW a \in Arenas, Call(t, o, a)
    PROVE  /\ arena[t] = NULL /\ pc[t] = "out" /\ lock # t
           /\ a \in exists /\ a # NULL
           /\ \A u \in Threads : arena[u] # a
  BY RegistryAssumption DEF IInv, CallOK, WalkOK, Call, MayUse

\* An allocation begins.
LEMMA AllocIInv ==
    ASSUME Overlap = {}, IInv, NEW t \in Threads, NEW a \in Arenas, Alloc(t, a)
    PROVE  IInv'
<1> USE RegistryAssumption
<1>0. TypeOK /\ ListOK /\ Exclusive /\ \A u \in Threads : CallOK(u) /\ WalkOK(u) /\ ScanOK(u)
  BY DEF IInv
<1>1. /\ ~aborted /\ pc[t] = "out" /\ arena[t] = NULL /\ lock # t
      /\ a \in exists /\ a # NULL /\ \A u \in Threads : arena[u] # a
      /\ op' = [op EXCEPT ![t] = "alloc"]
      /\ arena' = [arena EXCEPT ![t] = a]
      /\ pc' = [pc EXCEPT ![t] = IF a \in _registered THEN "charge" ELSE "register"]
      /\ alive[a] < MaxAlive
      /\ UNCHANGED <<registered_arenas, arena_size, lock, exists, _registered, alive, pivot, index, passed, aborted, visited, must>>
  BY CallAlone DEF Alloc, Call, CheckRegistered, Goto, registry, calls, walk, history
<1>2. TypeOK'
  BY <1>0, <1>1 DEF TypeOK, ArenaOrNull
<1>3. ListOK'
  BY <1>0, <1>1 DEF TypeOK, ListOK, At, Live, CallOK
<1>4. Exclusive'
  BY <1>0, <1>1 DEF TypeOK, Exclusive, CallOK
<1>5. \A u \in Threads : CallOK(u)'
  BY <1>0, <1>1 DEF TypeOK, ListOK, Exclusive, CallOK
<1>6. \A u \in Threads : WalkOK(u)'
  BY <1>0, <1>1 DEF TypeOK, WalkOK, At, Live, ListOK
<1>7. \A u \in Threads : ScanOK(u)'
  BY <1>0, <1>1 DEF TypeOK, ScanOK, WalkOK, At, Live
<1> QED
  BY <1>2, <1>3, <1>4, <1>5, <1>6, <1>7 DEF IInv

\* A free begins.
LEMMA FreeIInv ==
    ASSUME Overlap = {}, IInv, NEW t \in Threads, NEW a \in Arenas, Free(t, a)
    PROVE  IInv'
<1> USE RegistryAssumption
<1>0. TypeOK /\ ListOK /\ Exclusive /\ \A u \in Threads : CallOK(u) /\ WalkOK(u) /\ ScanOK(u)
  BY DEF IInv
<1>1. /\ ~aborted /\ pc[t] = "out" /\ arena[t] = NULL /\ lock # t
      /\ a \in exists /\ a # NULL /\ \A u \in Threads : arena[u] # a
      /\ op' = [op EXCEPT ![t] = "free"]
      /\ arena' = [arena EXCEPT ![t] = a]
      /\ pc' = [pc EXCEPT ![t] = IF a \in _registered THEN "charge" ELSE "register"]
      /\ alive[a] > 0
      /\ UNCHANGED <<registered_arenas, arena_size, lock, exists, _registered, alive, pivot, index, passed, aborted, visited, must>>
  BY CallAlone DEF Free, Call, CheckRegistered, Goto, registry, calls, walk, history
<1>2. TypeOK'
  BY <1>0, <1>1 DEF TypeOK, ArenaOrNull
<1>3. ListOK'
  BY <1>0, <1>1 DEF TypeOK, ListOK, At, Live, CallOK
<1>4. Exclusive'
  BY <1>0, <1>1 DEF TypeOK, Exclusive, CallOK
<1>5. \A u \in Threads : CallOK(u)'
  BY <1>0, <1>1 DEF TypeOK, ListOK, Exclusive, CallOK
<1>6. \A u \in Threads : WalkOK(u)'
  BY <1>0, <1>1 DEF TypeOK, WalkOK, At, Live, ListOK
<1>7. \A u \in Threads : ScanOK(u)'
  BY <1>0, <1>1 DEF TypeOK, ScanOK, WalkOK, At, Live
<1> QED
  BY <1>2, <1>3, <1>4, <1>5, <1>6, <1>7 DEF IInv

\* An arena is going to be destroyed.
LEMMA DestroyIInv ==
    ASSUME Overlap = {}, IInv, NEW t \in Threads, NEW a \in Arenas, Destroy(t, a)
    PROVE  IInv'
<1> USE RegistryAssumption
<1>0. TypeOK /\ ListOK /\ Exclusive /\ \A u \in Threads : CallOK(u) /\ WalkOK(u) /\ ScanOK(u)
  BY DEF IInv
<1>1. /\ ~aborted /\ pc[t] = "out" /\ arena[t] = NULL /\ lock # t
      /\ a \in exists /\ a # NULL /\ \A u \in Threads : arena[u] # a
      /\ op' = [op EXCEPT ![t] = "destroy"]
      /\ arena' = [arena EXCEPT ![t] = a]
      /\ pc' = [pc EXCEPT ![t] = "deregister"]
      /\ alive[a] = 0 /\ \A u \in Threads : pivot[u] # a
      /\ UNCHANGED <<registered_arenas, arena_size, lock, exists, _registered, alive, pivot, index, passed, aborted, visited, must>>
  BY CallAlone DEF Destroy, Call, Goto, registry, calls, walk, history
<1>2. TypeOK'
  BY <1>0, <1>1 DEF TypeOK, ArenaOrNull
<1>3. ListOK'
  BY <1>0, <1>1 DEF TypeOK, ListOK, At, Live, CallOK
<1>4. Exclusive'
  BY <1>0, <1>1 DEF TypeOK, Exclusive, CallOK
<1>5. \A u \in Threads : CallOK(u)'
  BY <1>0, <1>1 DEF TypeOK, ListOK, Exclusive, CallOK
<1>6. \A u \in Threads : WalkOK(u)'
  BY <1>0, <1>1 DEF TypeOK, WalkOK, At, Live, ListOK
<1>7. \A u \in Threads : ScanOK(u)'
  BY <1>0, <1>1 DEF TypeOK, ScanOK, WalkOK, At, Live
<1> QED
  BY <1>2, <1>3, <1>4, <1>5, <1>6, <1>7 DEF IInv

\* An arena is created.
LEMMA CreateIInv ==
    ASSUME Overlap = {}, IInv, NEW t \in Threads, NEW a \in Arenas, Create(t, a)
    PROVE  IInv'
<1> USE RegistryAssumption
<1>0. TypeOK /\ ListOK /\ Exclusive /\ \A u \in Threads : CallOK(u) /\ WalkOK(u) /\ ScanOK(u)
  BY DEF IInv
<1>1. /\ ~aborted /\ pc[t] = "out" /\ a \notin exists
      /\ exists' = exists \cup {a}
      /\ alive' = [alive EXCEPT ![a] = 0]
      /\ op' = [op EXCEPT ![t] = "create"]
      /\ arena' = [arena EXCEPT ![t] = a]
      /\ pc' = [pc EXCEPT ![t] = "register"]
      /\ UNCHANGED <<registered_arenas, arena_size, lock, _registered, pivot, index, passed, aborted, visited, must>>
  BY DEF Create, Goto, registry, calls, walk, history
<1>2. TypeOK'
  BY <1>0, <1>1 DEF TypeOK, ArenaOrNull
<1>3. ListOK'
  BY <1>0, <1>1 DEF TypeOK, ListOK, At, Live, CallOK
<1>4. Exclusive'
  BY <1>0, <1>1 DEF TypeOK, Exclusive, CallOK
<1>5. \A u \in Threads : CallOK(u)'
  BY <1>0, <1>1 DEF TypeOK, ListOK, Exclusive, CallOK
<1>6. \A u \in Threads : WalkOK(u)'
  BY <1>0, <1>1 DEF TypeOK, WalkOK, At, Live, ListOK
<1>7. \A u \in Threads : ScanOK(u)'
  BY <1>0, <1>1 DEF TypeOK, ScanOK, WalkOK, At, Live
<1> QED
  BY <1>2, <1>3, <1>4, <1>5, <1>6, <1>7 DEF IInv

\* An arena enters the array.
LEMMA RegisterIInv ==
    ASSUME Overlap = {}, IInv, NEW t \in Threads, Register(t), arena_size # Capacity
    PROVE  IInv'
<1> USE RegistryAssumption
<1>0. TypeOK /\ ListOK /\ Exclusive /\ \A u \in Threads : CallOK(u) /\ WalkOK(u) /\ ScanOK(u)
  BY DEF IInv
<1>1. /\ pc[t] = "register" /\ lock = NoThread /\ arena_size # Capacity
      /\ registered_arenas' = [registered_arenas EXCEPT ![arena_size] = arena[t]]
      /\ arena_size' = arena_size + 1
      /\ _registered' = _registered \cup {arena[t]}
      /\ \/ op[t] = "create" /\ pc' = [pc EXCEPT ![t] = "out"]
            /\ op' = [op EXCEPT ![t] = "none"] /\ arena' = [arena EXCEPT ![t] = NULL]
         \/ op[t] # "create" /\ pc' = [pc EXCEPT ![t] = "charge"] /\ op' = op /\ arena' = arena
      /\ UNCHANGED <<lock, exists, alive, pivot, index, passed, aborted, visited, must>>
  BY DEF Register, Return, Proceed, Goto, registry, calls, walk, history
<1>8. /\ arena_size \in Nat /\ Live' = Live \cup {arena_size} /\ arena_size \notin Live
      /\ \A i \in Live' : At(i)' = IF i = arena_size THEN arena[t] ELSE At(i)
      /\ arena[t] \in exists \ _registered
      /\ _registered' = _registered \cup {arena[t]}
      /\ exists' = exists /\ alive' = alive
  <2>1. arena_size \in Nat /\ arena_size \in Slots /\ arena_size' = arena_size + 1
    BY <1>0, <1>1 DEF TypeOK, Slots
  <2>2. Live' = Live \cup {arena_size} /\ arena_size \notin Live /\ Live \subseteq Slots
    BY <1>0, <2>1 DEF TypeOK, Live, Slots
  <2>3. \A i \in Slots : At(i)' = IF i = arena_size THEN arena[t] ELSE At(i)
    BY <1>0, <1>1, <2>1 DEF TypeOK, At
  <2>4. arena[t] \in exists \ _registered
    BY <1>0, <1>1 DEF CallOK
  <2> QED
    BY <1>1, <2>1, <2>2, <2>3, <2>4
<1>2. TypeOK'
  <2>1. arena[t] \in Arenas /\ arena_size \in Slots /\ arena_size + 1 \in 0 .. Capacity
    BY <1>0, <1>1 DEF TypeOK, CallOK, Slots
  <2>2. registered_arenas' \in [Slots -> ArenaOrNull] /\ arena_size' \in 0 .. Capacity
    BY <1>0, <1>1, <2>1 DEF TypeOK, ArenaOrNull
  <2>3. /\ pc' \in [Threads -> {"out", "register", "charge", "deregister", "scan"}]
        /\ op' \in [Threads -> {"none", "create", "alloc", "free", "destroy", "next_leaked"}]
        /\ arena' \in [Threads -> ArenaOrNull]
    BY <1>0, <1>1 DEF TypeOK, ArenaOrNull
  <2> QED
    BY <1>0, <1>1, <2>1, <2>2, <2>3 DEF TypeOK
<1>3. ListOK'
  <2>1. \A i \in Live' : At(i)' \in _registered'
    BY <1>0, <1>8 DEF ListOK
  <2>2. \A a \in _registered' : \E i \in Live' : At(i)' = a
    BY <1>0, <1>8 DEF ListOK
  <2>3. \A i, j \in Live' : At(i)' = At(j)' => i = j
    BY <1>0, <1>8 DEF ListOK
  <2> QED
    BY <1>0, <1>8, <2>1, <2>2, <2>3 DEF ListOK
<1>4. Exclusive'
  BY <1>0, <1>1 DEF TypeOK, Exclusive, CallOK
<1>5. \A u \in Threads : CallOK(u)'
  BY <1>0, <1>1 DEF TypeOK, ListOK, Exclusive, CallOK
<1>6. \A u \in Threads : WalkOK(u)'
  <2>1. \A u \in Threads : pc[u] # "scan" /\ pc'[u] # "scan"
    BY <1>0, <1>1 DEF TypeOK, WalkOK
  <2>2. \A u \in Threads, j \in Live' : At(j)' = pivot[u] => j # arena_size
    BY <1>0, <1>1, <1>8 DEF TypeOK, WalkOK
  <2>3. \A u \in Threads, j \in Live' : At(j)' \in visited[u] \cup must[u] => j # arena_size
    BY <1>0, <1>8 DEF WalkOK
  <2> QED
    BY <1>0, <1>1, <1>8, <2>1, <2>2, <2>3 DEF WalkOK
<1>7. \A u \in Threads : ScanOK(u)'
  BY <1>0, <1>1 DEF TypeOK, ScanOK, WalkOK, At, Live
<1> QED
  BY <1>2, <1>3, <1>4, <1>5, <1>6, <1>7 DEF IInv

\* The counters of an arena change.
LEMMA ChargeIInv ==
    ASSUME Overlap = {}, IInv, NEW t \in Threads, Charge(t)
    PROVE  IInv'
<1> USE RegistryAssumption
<1>0. TypeOK /\ ListOK /\ Exclusive /\ \A u \in Threads : CallOK(u) /\ WalkOK(u) /\ ScanOK(u)
  BY DEF IInv
<1>1. /\ pc[t] = "charge"
      /\ alive' = [alive EXCEPT ![arena[t]] = IF op[t] = "alloc" THEN @ + 1 ELSE @ - 1]
      /\ must' = [u \in Threads |-> IF alive'[arena[t]] = 0 THEN must[u] \ {arena[t]} ELSE must[u]]
      /\ pc' = [pc EXCEPT ![t] = "out"]
      /\ op' = [op EXCEPT ![t] = "none"]
      /\ arena' = [arena EXCEPT ![t] = NULL]
      /\ UNCHANGED <<registered_arenas, arena_size, lock, exists, _registered, pivot, index, passed, aborted, visited>>
  BY DEF Charge, Return, registry, calls, walk, history
<1>2. TypeOK'
  <2>1. arena[t] \in Arenas
    BY <1>0, <1>1 DEF TypeOK, CallOK
  <2>2. alive' \in [Arenas -> 0 .. MaxAlive]
    BY <1>0, <1>1, <2>1 DEF TypeOK, CallOK
  <2>3. must' \in [Threads -> SUBSET Arenas]
    BY <1>0, <1>1 DEF TypeOK
  <2> QED
    BY <1>0, <1>1, <2>2, <2>3 DEF TypeOK, ArenaOrNull
<1>3. ListOK'
  BY <1>0, <1>1 DEF TypeOK, ListOK, At, Live, CallOK
<1>4. Exclusive'
  BY <1>0, <1>1 DEF TypeOK, Exclusive, CallOK
<1>5. \A u \in Threads : CallOK(u)'
  BY <1>0, <1>1 DEF TypeOK, ListOK, Exclusive, CallOK
<1>6. \A u \in Threads : WalkOK(u)'
  BY <1>0, <1>1 DEF TypeOK, WalkOK, At, Live, ListOK
<1>7. \A u \in Threads : ScanOK(u)'
  BY <1>0, <1>1 DEF TypeOK, ScanOK, WalkOK, At, Live
<1> QED
  BY <1>2, <1>3, <1>4, <1>5, <1>6, <1>7 DEF IInv

\* A call of mys_arena_next_leaked begins.
LEMMA NextLeakedIInv ==
    ASSUME Overlap = {}, IInv, NEW t \in Threads, NextLeaked(t)
    PROVE  IInv'
<1> USE RegistryAssumption
<1>0. TypeOK /\ ListOK /\ Exclusive /\ \A u \in Threads : CallOK(u) /\ WalkOK(u) /\ ScanOK(u)
  BY DEF IInv
<1>1. /\ pc[t] = "out" /\ lock = NoThread
      /\ lock' = t
      /\ index' = [index EXCEPT ![t] = 0]
      /\ passed' = [passed EXCEPT ![t] = pivot[t] = NULL]
      /\ op' = [op EXCEPT ![t] = "next_leaked"]
      /\ pc' = [pc EXCEPT ![t] = "scan"]
      /\ must' = IF pivot[t] # NULL THEN must
                 ELSE [must EXCEPT ![t] = {a \in _registered : alive[a] # 0}]
      /\ UNCHANGED <<registered_arenas, arena_size, exists, _registered, alive, arena, pivot, aborted, visited>>
  BY DEF NextLeaked, Goto, registry, calls, walk, history
<1>2. TypeOK'
  BY <1>0, <1>1 DEF TypeOK, ArenaOrNull
<1>3. ListOK'
  BY <1>0, <1>1 DEF TypeOK, ListOK, At, Live, CallOK
<1>4. Exclusive'
  BY <1>0, <1>1 DEF TypeOK, Exclusive, CallOK
<1>5. \A u \in Threads : CallOK(u)'
  BY <1>0, <1>1 DEF TypeOK, ListOK, Exclusive, CallOK
<1>6. \A u \in Threads : WalkOK(u)'
  BY <1>0, <1>1 DEF TypeOK, WalkOK, At, Live, ListOK
<1>7. \A u \in Threads : ScanOK(u)'
  <2>1. ASSUME NEW u \in Threads \ {t} PROVE ScanOK(u)'
    BY <1>0, <1>1, <2>1 DEF TypeOK, WalkOK, ScanOK
  <2>2. /\ index'[t] = 0 /\ passed'[t] = (pivot[t] = NULL)
        /\ arena_size \in Nat /\ pivot' = pivot /\ arena_size' = arena_size
    BY <1>0, <1>1 DEF TypeOK
  <2>4. 0 .. index'[t] - 1 = {} /\ index'[t] <= arena_size'
    BY <2>2
  <2>3. ScanOK(t)'
    BY <2>2, <2>4 DEF ScanOK
  <2> QED
    BY <2>1, <2>3
<1> QED
  BY <1>2, <1>3, <1>4, <1>5, <1>6, <1>7 DEF IInv

\* It returns the next leaked arena.
LEMMA ScanFindsIInv ==
    ASSUME Overlap = {}, IInv, NEW t \in Threads, ScanFinds(t)
    PROVE  IInv'
<1> USE RegistryAssumption
<1>0. TypeOK /\ ListOK /\ Exclusive /\ \A u \in Threads : CallOK(u) /\ WalkOK(u) /\ ScanOK(u)
  BY DEF IInv
<1>1. /\ pc[t] = "scan" /\ index[t] < arena_size
      /\ passed[t] /\ alive[At(index[t])] # 0
      /\ pivot' = [pivot EXCEPT ![t] = At(index[t])]
      /\ visited' = [visited EXCEPT ![t] = @ \cup {At(index[t])}]
      /\ lock' = NoThread
      /\ index' = [index EXCEPT ![t] = 0]
      /\ passed' = [passed EXCEPT ![t] = FALSE]
      /\ pc' = [pc EXCEPT ![t] = "out"]
      /\ op' = [op EXCEPT ![t] = "none"]
      /\ arena' = [arena EXCEPT ![t] = NULL]
      /\ UNCHANGED <<registered_arenas, arena_size, exists, _registered, alive, aborted, must>>
  BY DEF ScanFinds, Unlock, Return, At, registry, calls, walk, history
<1>2. TypeOK'
  <2>1. At(index[t]) \in Arenas
    BY <1>0, <1>1 DEF TypeOK, ListOK, Live
  <2>2. pivot' \in [Threads -> ArenaOrNull] /\ visited' \in [Threads -> SUBSET Arenas]
    BY <1>0, <1>1, <2>1 DEF TypeOK, ArenaOrNull
  <2> QED
    BY <1>0, <1>1, <2>2 DEF TypeOK, ArenaOrNull
<1>3. ListOK'
  BY <1>0, <1>1 DEF TypeOK, ListOK, At, Live, CallOK
<1>4. Exclusive'
  BY <1>0, <1>1 DEF TypeOK, Exclusive, CallOK
<1>5. \A u \in Threads : CallOK(u)'
  BY <1>0, <1>1 DEF TypeOK, ListOK, Exclusive, CallOK
<1>6. \A u \in Threads : WalkOK(u)'
  <2>1. ASSUME NEW u \in Threads \ {t} PROVE WalkOK(u)'
    BY <1>0, <1>1, <2>1 DEF TypeOK, WalkOK, At, Live
  <2>2. /\ pivot'[t] = At(index[t]) /\ visited'[t] = visited[t] \cup {At(index[t])} /\ must'[t] = must[t]
        /\ pc'[t] = "out" /\ lock' # t /\ Live' = Live /\ \A i : At(i)' = At(i)
        /\ alive' = alive /\ _registered' = _registered
    BY <1>0, <1>1 DEF TypeOK, At, Live
  <2>3. /\ index[t] \in Live /\ At(index[t]) \in _registered /\ At(index[t]) # NULL
        /\ \A j \in Live : At(j) = At(index[t]) => j = index[t]
    BY <1>0, <1>1 DEF TypeOK, ListOK, Live
  <2>4. \A i \in Live : At(i) \in visited[t] => i < index[t]
    BY <1>0, <1>1, <2>3 DEF TypeOK, ScanOK, WalkOK, Live
  <2>5. \A i \in Live : At(i) \in must[t] \ visited[t] => i >= index[t]
    BY <1>0, <1>1, <2>3 DEF TypeOK, ScanOK, Live
  <2>6. /\ visited'[t] \subseteq _registered /\ must'[t] \subseteq _registered
        /\ \A a \in must'[t] : alive[a] # 0
    BY <1>0, <2>2, <2>3 DEF WalkOK
  <2>7. ASSUME NEW i \in Live, NEW j \in Live, At(j) = pivot'[t]
        PROVE  /\ At(i) \in visited'[t] => i <= j
               /\ At(i) \in must'[t] \ visited'[t] => i > j
    BY <2>2, <2>3, <2>4, <2>5, <2>7 DEF Live
  <2>8. WalkOK(t)'
    BY <2>2, <2>3, <2>6, <2>7 DEF WalkOK
  <2> QED
    BY <2>1, <2>8
<1>7. \A u \in Threads : ScanOK(u)'
  BY <1>0, <1>1 DEF TypeOK, ScanOK, WalkOK, At, Live
<1> QED
  BY <1>2, <1>3, <1>4, <1>5, <1>6, <1>7 DEF IInv

\* It goes past an arena.
LEMMA ScanPassesIInv ==
    ASSUME Overlap = {}, IInv, NEW t \in Threads, ScanPasses(t)
    PROVE  IInv'
<1> USE RegistryAssumption
<1>0. TypeOK /\ ListOK /\ Exclusive /\ \A u \in Threads : CallOK(u) /\ WalkOK(u) /\ ScanOK(u)
  BY DEF IInv
<1>1. /\ pc[t] = "scan" /\ index[t] < arena_size
      /\ ~(passed[t] /\ alive[At(index[t])] # 0)
      /\ passed' = [passed EXCEPT ![t] = @ \/ At(index[t]) = pivot[t]]
      /\ index' = [index EXCEPT ![t] = @ + 1]
      /\ UNCHANGED <<registered_arenas, arena_size, lock, exists, _registered, alive, pc, op, arena, pivot, aborted, visited, must>>
  BY DEF ScanPasses, At, registry, calls, walk, history
<1>2. TypeOK'
  BY <1>0, <1>1 DEF TypeOK, ArenaOrNull
<1>3. ListOK'
  BY <1>0, <1>1 DEF TypeOK, ListOK, At, Live, CallOK
<1>4. Exclusive'
  BY <1>0, <1>1 DEF TypeOK, Exclusive, CallOK
<1>5. \A u \in Threads : CallOK(u)'
  BY <1>0, <1>1 DEF TypeOK, ListOK, Exclusive, CallOK
<1>6. \A u \in Threads : WalkOK(u)'
  BY <1>0, <1>1 DEF TypeOK, WalkOK, At, Live, ListOK
<1>7. \A u \in Threads : ScanOK(u)'
  <2>1. ASSUME NEW u \in Threads \ {t} PROVE ScanOK(u)'
    BY <1>0, <1>1, <2>1 DEF TypeOK, ScanOK, At
  <2>2. /\ index[t] \in Nat /\ index[t] \in Live /\ index[t] + 1 <= arena_size
        /\ index'[t] = index[t] + 1 /\ passed'[t] = (passed[t] \/ At(index[t]) = pivot[t])
        /\ 0 .. index'[t] - 1 = (0 .. index[t] - 1) \cup {index[t]}
        /\ 0 .. index[t] - 1 \subseteq Live
    BY <1>0, <1>1 DEF TypeOK, Live
  <2>3. passed'[t] <=> pivot[t] = NULL \/ \E j \in 0 .. index'[t] - 1 : At(j) = pivot[t]
    BY <1>0, <1>1, <2>2 DEF ScanOK
  <2>4. ASSUME passed'[t], NEW i \in 0 .. index'[t] - 1 PROVE At(i) \notin must[t] \ visited[t]
    <3>1. CASE At(index[t]) = pivot[t]
      BY <1>0, <2>2, <3>1 DEF WalkOK, Live
    <3>2. CASE At(index[t]) # pivot[t]
      BY <1>0, <1>1, <2>2, <2>4, <3>2 DEF WalkOK, ScanOK
    <3> QED
      BY <3>1, <3>2
  <2>5. ScanOK(t)'
    BY <1>1, <2>2, <2>3, <2>4 DEF ScanOK, At
  <2> QED
    BY <2>1, <2>5
<1> QED
  BY <1>2, <1>3, <1>4, <1>5, <1>6, <1>7 DEF IInv

\* It reaches the end of the array.
LEMMA ScanEndsIInv ==
    ASSUME Overlap = {}, IInv, NEW t \in Threads, ScanEnds(t)
    PROVE  IInv'
<1> USE RegistryAssumption
<1>0. TypeOK /\ ListOK /\ Exclusive /\ \A u \in Threads : CallOK(u) /\ WalkOK(u) /\ ScanOK(u)
  BY DEF IInv
<1>1. /\ pc[t] = "scan" /\ index[t] = arena_size
      /\ pivot' = [pivot EXCEPT ![t] = NULL]
      /\ visited' = [visited EXCEPT ![t] = {}]
      /\ must' = [must EXCEPT ![t] = {}]
      /\ lock' = NoThread
      /\ index' = [index EXCEPT ![t] = 0]
      /\ passed' = [passed EXCEPT ![t] = FALSE]
      /\ pc' = [pc EXCEPT ![t] = "out"]
      /\ op' = [op EXCEPT ![t] = "none"]
      /\ arena' = [arena EXCEPT ![t] = NULL]
      /\ UNCHANGED <<registered_arenas, arena_size, exists, _registered, alive, aborted>>
  BY DEF ScanEnds, Unlock, Return, registry, calls, walk, history
<1>2. TypeOK'
  BY <1>0, <1>1 DEF TypeOK, ArenaOrNull
<1>3. ListOK'
  BY <1>0, <1>1 DEF TypeOK, ListOK, At, Live, CallOK
<1>4. Exclusive'
  BY <1>0, <1>1 DEF TypeOK, Exclusive, CallOK
<1>5. \A u \in Threads : CallOK(u)'
  BY <1>0, <1>1 DEF TypeOK, ListOK, Exclusive, CallOK
<1>6. \A u \in Threads : WalkOK(u)'
  BY <1>0, <1>1 DEF TypeOK, WalkOK, At, Live, ListOK
<1>7. \A u \in Threads : ScanOK(u)'
  BY <1>0, <1>1 DEF TypeOK, ScanOK, WalkOK, At, Live
<1> QED
  BY <1>2, <1>3, <1>4, <1>5, <1>6, <1>7 DEF IInv

\* An arena leaves the array.
LEMMA DeregisterIInv ==
    ASSUME Overlap = {}, IInv, NEW t \in Threads, Deregister(t)
    PROVE  IInv'
<1> USE RegistryAssumption
<1> DEFINE a == arena[t]
<1>0. TypeOK /\ ListOK /\ Exclusive /\ \A u \in Threads : CallOK(u) /\ WalkOK(u) /\ ScanOK(u)
  BY DEF IInv
<1>1. /\ pc[t] = "deregister" /\ lock = NoThread
      /\ arena_size' = arena_size - 1
      /\ _registered' = _registered \ {a}
      /\ exists' = exists \ {a}
      /\ visited' = [u \in Threads |-> visited[u] \ {a}]
      /\ must' = [u \in Threads |-> must[u] \ {a}]
      /\ pc' = [pc EXCEPT ![t] = "out"]
      /\ op' = [op EXCEPT ![t] = "none"]
      /\ arena' = [arena EXCEPT ![t] = NULL]
      /\ UNCHANGED <<lock, alive, pivot, index, passed, aborted>>
  BY DEF Deregister, Return, walk
<1>i. PICK i \in Live : At(i) = a /\ registered_arenas' = Removed(i)
  BY DEF Deregister, Live, At
<1> DEFINE Shift(j) == IF j < i THEN j ELSE j + 1
<1>8. /\ arena_size \in Nat /\ i \in Nat /\ i < arena_size
      /\ a \in Arenas /\ a # NULL /\ a \in _registered /\ alive[a] = 0
      /\ \A u \in Threads : pivot[u] # a
      /\ \A u \in Threads \ {t} : arena[u] # a
  BY <1>0, <1>1, <1>i DEF TypeOK, ListOK, Exclusive, CallOK, Live
<1>9. \A j \in Live' : j \in Nat /\ Shift(j) \in Live /\ Shift(j) # i /\ At(j)' = At(Shift(j))
  BY <1>0, <1>1, <1>i, <1>8 DEF TypeOK, Live, At, Removed, Slots
<1>10. \A u \in Threads : pc[u] # "scan" /\ pc'[u] # "scan"
  BY <1>0, <1>1 DEF TypeOK, WalkOK
<1>2. TypeOK'
  <2>1. registered_arenas' \in [Slots -> ArenaOrNull]
    BY <1>0, <1>i, <1>8 DEF TypeOK, Removed, ArenaOrNull, Slots
  <2>2. arena_size' \in 0 .. Capacity
    BY <1>0, <1>1, <1>8 DEF TypeOK
  <2>3. visited' \in [Threads -> SUBSET Arenas] /\ must' \in [Threads -> SUBSET Arenas]
    BY <1>0, <1>1 DEF TypeOK
  <2> QED
    BY <1>0, <1>1, <2>1, <2>2, <2>3 DEF TypeOK, ArenaOrNull
<1>3. ListOK'
  <2>1. \A j \in Live' : At(j)' \in _registered'
    BY <1>0, <1>1, <1>i, <1>9 DEF ListOK
  <2>2. \A b \in _registered' : \E j \in Live' : At(j)' = b
    <3> SUFFICES ASSUME NEW b \in _registered, b # a PROVE \E j \in Live' : At(j)' = b
      BY <1>1
    <3>1. PICK k \in Live : At(k) = b
      BY <1>0 DEF ListOK
    <3>2. PICK j \in Live' : Shift(j) = k
      <4>1. CASE k < i
        BY <1>1, <1>8, <4>1 DEF Live
      <4>2. CASE k > i
        <5>1. k - 1 \in Live' /\ Shift(k - 1) = k
          BY <1>1, <1>8, <4>2 DEF Live
        <5> QED
          BY <5>1
      <4> QED
        BY <1>i, <1>8, <3>1, <4>1, <4>2 DEF Live
    <3> QED
      BY <1>9, <3>1, <3>2
  <2>3. \A j, k \in Live' : At(j)' = At(k)' => j = k
    <3>1. \A j, k \in Live' : Shift(j) = Shift(k) => j = k
      BY <1>8, <1>9
    <3> QED
      BY <1>0, <1>9, <3>1 DEF ListOK
  <2> QED
    BY <1>0, <1>1, <1>8, <2>1, <2>2, <2>3 DEF ListOK
<1>4. Exclusive'
  BY <1>0, <1>1 DEF TypeOK, Exclusive
<1>5. \A u \in Threads : CallOK(u)'
  BY <1>0, <1>1, <1>8 DEF TypeOK, CallOK
<1>6. \A u \in Threads : WalkOK(u)'
  <2> SUFFICES ASSUME NEW u \in Threads PROVE WalkOK(u)'
    OBVIOUS
  <2>1. visited'[u] = visited[u] \ {a} /\ must'[u] = must[u] \ {a}
    BY <1>1
  <2>2. ASSUME NEW k \in Live', NEW j \in Live', At(j)' = pivot'[u]
        PROVE  /\ At(k)' \in visited'[u] => k <= j
               /\ At(k)' \in must'[u] \ visited'[u] => k > j
    <3>1. /\ At(Shift(j)) = pivot[u] /\ Shift(j) \in Live /\ Shift(k) \in Live
          /\ At(k)' = At(Shift(k)) /\ At(Shift(k)) # a
      BY <1>0, <1>1, <1>i, <1>9, <2>2 DEF ListOK
    <3>2. /\ At(k)' \in visited'[u] => Shift(k) <= Shift(j)
          /\ At(k)' \in must'[u] \ visited'[u] => Shift(k) > Shift(j)
      BY <1>0, <2>1, <3>1 DEF WalkOK
    <3> QED
      BY <1>8, <1>9, <3>2
  <2>3. /\ pivot'[u] # NULL => pivot'[u] \in _registered'
        /\ visited'[u] \subseteq _registered' /\ must'[u] \subseteq _registered'
        /\ \A b \in must'[u] : alive'[b] # 0
    BY <1>0, <1>1, <1>8, <2>1 DEF WalkOK
  <2>4. /\ pivot'[u] = NULL => visited'[u] = {} /\ must'[u] = {}
        /\ lock' # u
    BY <1>0, <1>1, <1>10, <2>1 DEF WalkOK
  <2> QED
    BY <1>10, <2>2, <2>3, <2>4 DEF WalkOK
<1>7. \A u \in Threads : ScanOK(u)'
  BY <1>10 DEF ScanOK
<1> QED
  BY <1>2, <1>3, <1>4, <1>5, <1>6, <1>7 DEF IInv

\* The array is full: the process ends.
LEMMA AbortIInv ==
    ASSUME IInv, NEW t \in Threads, Register(t), arena_size = Capacity
    PROVE  IInv'
<1>1. /\ aborted' = TRUE
      /\ UNCHANGED <<registered_arenas, arena_size, lock, exists, _registered, alive, pc, op, arena,
                     pivot, index, passed, visited, must>>
  BY DEF Register, calls, walk, history
<1> QED
  BY <1>1 DEF IInv, TypeOK, ListOK, Exclusive, CallOK, WalkOK, ScanOK, At, Live

-----------------------------------------------------------------------------
\* Every step keeps the invariant.
LEMMA NextIInv ==
    ASSUME Overlap = {}, IInv, [Next]_vars
    PROVE  IInv'
<1>1. CASE UNCHANGED vars
  BY <1>1 DEF vars, registry, calls, walk, history, IInv, TypeOK, ListOK, Exclusive, CallOK, WalkOK,
     ScanOK, At, Live
<1>2. CASE Next
  <2>1. PICK t \in Threads :
            \/ \E a \in Arenas : Alloc(t, a) \/ Free(t, a) \/ Create(t, a) \/ Destroy(t, a)
            \/ Register(t) \/ Charge(t) \/ Deregister(t)
            \/ NextLeaked(t) \/ ScanFinds(t) \/ ScanPasses(t) \/ ScanEnds(t)
    BY <1>2 DEF Next
  <2>2. CASE \E a \in Arenas : Alloc(t, a) \/ Free(t, a) \/ Create(t, a) \/ Destroy(t, a)
    BY <2>2, AllocIInv, FreeIInv, CreateIInv, DestroyIInv
  <2>3. CASE Register(t)
    BY <2>3, RegisterIInv, AbortIInv
  <2>4. CASE Charge(t) \/ Deregister(t)
    BY <2>4, ChargeIInv, DeregisterIInv
  <2>5. CASE NextLeaked(t) \/ ScanFinds(t) \/ ScanPasses(t) \/ ScanEnds(t)
    BY <2>5, NextLeakedIInv, ScanFindsIInv, ScanPassesIInv, ScanEndsIInv
  <2> QED
    BY <2>1, <2>2, <2>3, <2>4, <2>5
<1> QED
  BY <1>1, <1>2

\* The invariant the other theorems rest on holds in every state, if no two
\* threads use one arena at the same time.
THEOREM RegistryIInvHolds == Overlap = {} /\ Spec => []IInv
<1> SUFFICES ASSUME Overlap = {} PROVE Spec => []IInv
  OBVIOUS
<1>1. Init => IInv
  BY InitIInv
<1>2. IInv /\ [Next]_vars => IInv'
  BY NextIInv
<1> QED
  BY <1>1, <1>2, PTL DEF Spec

\* The array of memory.c holds each arena that memory is charged to once, and
\* nothing that was freed.
THEOREM ArrayIsExact == Overlap = {} /\ Spec => []RegistryExact
<1>1. IInv => RegistryExact
  <2> SUFFICES ASSUME IInv PROVE RegistryExact
    OBVIOUS
  <2> DEFINE listed == {registered_arenas[i] : i \in 0 .. arena_size - 1}
             f == [i \in 1 .. arena_size |-> At(i - 1)]
  <2>1. TypeOK /\ ListOK
    BY DEF IInv
  <2>2. listed = _registered
    BY <2>1 DEF ListOK, At, Live
  <2>3. arena_size \in Nat
    BY <2>1, RegistryAssumption DEF TypeOK
  <2>4. f \in Bijection(1 .. arena_size, _registered)
    <3>1. f \in [1 .. arena_size -> _registered]
      BY <2>1, <2>3 DEF ListOK, Live
    <3>2. \A i, j \in 1 .. arena_size : f[i] = f[j] => i = j
      <4>1. \A i \in 1 .. arena_size : i - 1 \in Live /\ i \in Nat
        BY <2>3 DEF Live
      <4>2. \A i, j \in 1 .. arena_size : f[i] = f[j] => i - 1 = j - 1
        BY <2>1, <4>1 DEF ListOK
      <4> QED
        BY <4>1, <4>2
    <3>3. \A a \in _registered : \E i \in 1 .. arena_size : f[i] = a
      <4> SUFFICES ASSUME NEW a \in _registered PROVE \E i \in 1 .. arena_size : f[i] = a
        OBVIOUS
      <4>1. PICK j \in Live : At(j) = a
        BY <2>1 DEF ListOK
      <4>2. j + 1 \in 1 .. arena_size /\ (j + 1) - 1 = j
        BY <2>3 DEF Live
      <4> QED
        BY <4>1, <4>2
    <3> QED
      BY <3>1, <3>2, <3>3 DEF Bijection, Injection, Surjection, IsInjective
  <2>5. Cardinality(listed) = arena_size
    BY <2>2, <2>3, <2>4, FS_CountingElements DEF ExistsBijection
  <2> QED
    BY <2>1, <2>2, <2>5 DEF RegistryExact, ListOK
<1> QED
  BY <1>1, RegistryIInvHolds, PTL

\* A walk of mys_arena_next_leaked gets no arena twice and misses none that was
\* leaked from its start to its end.
THEOREM WalksAreExact == Overlap = {} /\ Spec => WalkIsExact
<1> SUFFICES ASSUME Overlap = {} PROVE Spec => WalkIsExact
  OBVIOUS
<1> DEFINE Step(t) == (pc[t] = "scan" /\ pc'[t] = "out") =>
               IF pivot'[t] = NULL THEN must[t] \subseteq visited[t]
                                   ELSE pivot'[t] \notin visited[t]
<1>1. ASSUME IInv, [Next]_vars, NEW t \in Threads, pc[t] = "scan", pc'[t] = "out"
      PROVE  IF pivot'[t] = NULL THEN must[t] \subseteq visited[t]
                                 ELSE pivot'[t] \notin visited[t]
  <2>1. TypeOK /\ ListOK /\ WalkOK(t) /\ ScanOK(t)
    BY <1>1 DEF IInv
  <2>2. ScanFinds(t) \/ ScanEnds(t)
    BY <1>1, <2>1 DEF Next, vars, calls, Alloc, Free, Create, Destroy, Register, Charge, Deregister,
       NextLeaked, ScanFinds, ScanPasses, ScanEnds, Call, CheckRegistered, Goto, Proceed, Return, Unlock, TypeOK
  <2>3. CASE ScanFinds(t)
    <3>1. /\ pivot'[t] = At(index[t]) /\ passed[t] /\ index[t] \in Live
      BY <2>1, <2>3 DEF ScanFinds, TypeOK, At, Live
    <3>2. At(index[t]) \in _registered /\ At(index[t]) # NULL
      BY <2>1, <3>1, RegistryAssumption DEF ListOK, TypeOK
    <3>3. At(index[t]) \notin visited[t]
      BY <1>1, <2>1, <3>1 DEF TypeOK, ListOK, WalkOK, ScanOK, Live
    <3> QED
      BY <3>1, <3>2, <3>3
  <2>4. CASE ScanEnds(t)
    <3>1. pivot'[t] = NULL /\ index[t] = arena_size
      BY <2>1, <2>4 DEF ScanEnds, TypeOK
    <3>2. passed[t]
      BY <1>1, <2>1, <3>1 DEF ListOK, WalkOK, ScanOK, Live
    <3>3. must[t] \subseteq visited[t]
      <4> SUFFICES ASSUME NEW a \in must[t] PROVE a \in visited[t]
        OBVIOUS
      <4>1. PICK i \in Live : At(i) = a
        BY <2>1 DEF ListOK, WalkOK
      <4> QED
        BY <1>1, <2>1, <3>1, <3>2, <4>1 DEF ScanOK, Live
    <3> QED
      BY <3>1, <3>3
  <2> QED
    BY <2>2, <2>3, <2>4
<1>2. IInv /\ [Next]_vars => [\A t \in Threads : Step(t)]_vars
  BY <1>1
<1> QED
  BY <1>2, RegistryIInvHolds, PTL DEF Spec, WalkIsExact
==============================================================================
