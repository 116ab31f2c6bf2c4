----------------------------- MODULE LogProofs ------------------------------
(***************************************************************************)
(* Proofs about the logger of one process, Log, and then about the         *)
(* collective calls of all processes, Collective.                          *)
(*                                                                         *)
(* Log, for any set of threads, any levels and sites and any length of the *)
(* array of handlers.                                                      *)
(*                                                                         *)
(* Only the thread inside _mys_log_impl holds the mutex for more than one  *)
(* step, and every step that changes the logger finds the mutex free.  So  *)
(* while a thread is inside, level, silent and handlers are those it found *)
(* when it entered, and the handlers it has called are a prefix of them.   *)
(***************************************************************************)
EXTENDS Log, Collective, SequenceTheorems, WellFoundedInduction, NaturalsInduction, TLAPS

\* t is in the critical section of _mys_log_impl.
Inside(t) == pc[t] \in {"next", "handler"}

\* The thread inside holds the mutex.
InsideHoldsLock == \A t \in Threads : Inside(t) => lock = t

\* index counts the handlers called so far.
IndexCounts == \A t \in Threads :
    /\ ~Inside(t) => index[t] = 1
    /\ pc[t] = "next" => index[t] <= Len(handlers) + 1 /\ Len(got[t]) = index[t] - 1
    /\ pc[t] = "handler" => index[t] <= Len(handlers) /\ Len(got[t]) = index[t]

\* The handlers called so far are the first ones of the array.
GotPrefix == \A t \in Threads : Inside(t) => \A i \in 1 .. Len(got[t]) : got[t][i] = handlers[i]

\* The event inside is one the logger lets out.
InsideIsWanted == \A t \in Threads : Inside(t) => ~silent /\ event[t].level >= level

\* mys_log_once has a site.
OnceHasSite == \A t \in Threads : pc[t] \in {"find", "insert"} => event[t].site \in Sites

IInv == /\ TypeOK /\ InsideHoldsLock /\ IndexCounts /\ GotPrefix /\ InsideIsWanted
        /\ HandlersInOrder /\ OnceHasSite

\* One thread at a time is in mys_log_once at a site; the site is in the hash
\* before its message gets out, and no message got out before that.
SitesExclusive == \A t, u \in Threads : event[t].site \in Sites /\ event[u].site = event[t].site => t = u

OnceInv == /\ SitesExclusive
           /\ \A s \in Sites : onces[s] # 0 => onces[s] = 1 /\ s \in once_map
           /\ \A t \in Threads :
                 /\ pc[t] = "insert" => onces[event[t].site] = 0
                 /\ pc[t] = "log" /\ event[t].site \in Sites
                       => event[t].site \in once_map /\ onces[event[t].site] = 0

-----------------------------------------------------------------------------
\* A logger that was just defined satisfies the invariant.
LEMMA InitIInv == Init => IInv
<1> SUFFICES ASSUME Init PROVE IInv
  OBVIOUS
<1> USE LogAssumption
<1>1. TypeOK
  <2>1. NoEvent \in EventType
    BY DEF NoEvent, EventType
  <2>2. event \in [Threads -> EventType]
    BY <2>1 DEF Init
  <2>3. lock \in Threads \cup {NoThread} /\ level \in Levels /\ silent \in BOOLEAN
    BY DEF Init
  <2>4. handlers \in Seq(Nat) /\ Len(handlers) <= MYS_LOG_MAX_HANDLER
    BY DEF Init
  <2>5. handler_id_counter \in Nat /\ once_map \in SUBSET Sites
    BY DEF Init
  <2>6. pc \in [Threads -> {"out", "find", "insert", "log", "next", "handler"}]
    BY DEF Init
  <2>7. index \in [Threads -> 1 .. MYS_LOG_MAX_HANDLER + 1]
    BY DEF Init
  <2>8. got \in [Threads -> Seq(Nat)] /\ onces \in [Sites -> Nat]
    BY DEF Init
  <2>9. QED
    BY <2>2, <2>3, <2>4, <2>5, <2>6, <2>7, <2>8 DEF TypeOK
<1>2. InsideHoldsLock /\ IndexCounts /\ GotPrefix /\ InsideIsWanted
  BY DEF Init, InsideHoldsLock, IndexCounts, GotPrefix, InsideIsWanted, Inside
<1>3. HandlersInOrder /\ OnceHasSite
  BY DEF Init, HandlersInOrder, OnceHasSite
<1>4. QED
  BY <1>1, <1>2, <1>3 DEF IInv

\* A step that finds the mutex free finds nobody inside.
LEMMA FreeMeansEmpty == ASSUME IInv, lock = NoThread, NEW t \in Threads
                        PROVE  ~Inside(t)
BY LogAssumption DEF IInv, InsideHoldsLock

\* A call from outside, and a critical section of mys_log_once or a held back
\* message, touch neither the handlers nor the threads inside.
LEMMA OutsideStep ==
    ASSUME IInv, NEW t \in Threads, ~Inside(t),
           UNCHANGED <<lock, level, silent, handlers, handler_id_counter, got>>,
           NEW step \in {"out", "find", "insert", "log"}, pc' = [pc EXCEPT ![t] = step],
           NEW e \in EventType, event' = [event EXCEPT ![t] = e],
           step \in {"find", "insert"} => e.site \in Sites,
           index' = [index EXCEPT ![t] = 1],
           once_map' \in SUBSET Sites, onces' \in [Sites -> Nat]
    PROVE  IInv'
<1> USE LogAssumption
<1>1. TypeOK'
  BY DEF IInv, TypeOK
<1>2. \A u \in Threads : Inside(u)' => u # t /\ Inside(u) /\ event'[u] = event[u]
  BY DEF IInv, TypeOK, Inside
<1>3. InsideHoldsLock' /\ InsideIsWanted'
  BY <1>2 DEF IInv, InsideHoldsLock, InsideIsWanted
<1>4. IndexCounts'
  BY DEF IInv, TypeOK, IndexCounts, Inside
<1>5. GotPrefix'
  BY <1>2 DEF IInv, GotPrefix
<1>6. HandlersInOrder' /\ OnceHasSite'
  BY DEF IInv, TypeOK, HandlersInOrder, OnceHasSite
<1>7. QED
  BY <1>1, <1>3, <1>4, <1>5, <1>6 DEF IInv

\* A step that is one critical section finds nobody inside, so that it may
\* change the logger; it has to keep the array of handlers in order.
LEMMA SectionStep ==
    ASSUME IInv, NEW t \in Threads, Section(t),
           level' \in Levels, silent' \in BOOLEAN, once_map' = once_map,
           handlers' \in Seq(Nat), Len(handlers') <= MYS_LOG_MAX_HANDLER,
           handler_id_counter' \in Nat, HandlersInOrder'
    PROVE  IInv'
<1> USE LogAssumption
<1>1. TypeOK'
  BY DEF IInv, TypeOK, Section, history
<1>2. \A u \in Threads : ~Inside(u)' /\ ~Inside(u)
  BY FreeMeansEmpty DEF Section, Inside
<1>3. InsideHoldsLock' /\ InsideIsWanted' /\ GotPrefix'
  BY <1>2 DEF InsideHoldsLock, InsideIsWanted, GotPrefix
<1>4. IndexCounts'
  BY <1>2 DEF IInv, IndexCounts, Section, Inside
<1>5. OnceHasSite'
  BY DEF IInv, OnceHasSite, Section
<1>6. QED
  BY <1>1, <1>3, <1>4, <1>5 DEF IInv

\* The array without a handler is shorter, and its handlers are in order still.
LEMMA WithoutKeepsOrder ==
    ASSUME IInv, NEW id
    PROVE  /\ Without(id) \in Seq(Nat) /\ Len(Without(id)) <= Len(handlers)
           /\ \A i, j \in DOMAIN Without(id) : i < j => Without(id)[i] < Without(id)[j]
           /\ \A i \in DOMAIN Without(id) : Without(id)[i] < handler_id_counter
<1> DEFINE i0 == CHOOSE j \in DOMAIN handlers : handlers[j] = id
           n == Len(handlers)
           w == [j \in 1 .. n - 1 |-> handlers[IF j < i0 THEN j ELSE j + 1]]
<1>1. handlers \in Seq(Nat) /\ n \in Nat /\ DOMAIN handlers = 1 .. n
  BY DEF IInv, TypeOK
<1>2. CASE id \notin ToSet(handlers)
  BY <1>1, <1>2 DEF Without, IInv, HandlersInOrder
<1>3. CASE id \in ToSet(handlers)
  <2>1. i0 \in 1 .. n /\ n > 0
    BY <1>1, <1>3 DEF ToSet
  <2>2. Without(id) = w
    BY <1>3 DEF Without
  <2> HIDE DEF i0
  <2>3. \A j \in 1 .. n - 1 : (IF j < i0 THEN j ELSE j + 1) \in 1 .. n
    BY <1>1, <2>1
  <2>4. \A j \in 1 .. n - 1 : handlers[IF j < i0 THEN j ELSE j + 1] \in Nat
    BY <1>1, <2>3
  <2>5. w \in Seq(Nat) /\ Len(w) = n - 1 /\ DOMAIN w = 1 .. n - 1
    BY <1>1, <2>1, <2>4
  <2>6. ASSUME NEW i \in 1 .. n - 1, NEW j \in 1 .. n - 1, i < j
        PROVE  w[i] < w[j]
    <3>1. (IF i < i0 THEN i ELSE i + 1) < (IF j < i0 THEN j ELSE j + 1)
      BY <1>1, <2>1, <2>6
    <3>2. QED
      BY <1>1, <2>3, <2>6, <3>1 DEF IInv, HandlersInOrder
  <2>7. ASSUME NEW i \in 1 .. n - 1 PROVE w[i] < handler_id_counter
    BY <1>1, <2>3 DEF IInv, HandlersInOrder
  <2> HIDE DEF w
  <2>8. DOMAIN Without(id) = 1 .. n - 1
    BY <2>2, <2>5
  <2>9. Without(id) \in Seq(Nat) /\ Len(Without(id)) <= Len(handlers)
    BY <1>1, <2>2, <2>5
  <2>10. \A i, j \in DOMAIN Without(id) : i < j => Without(id)[i] < Without(id)[j]
    BY <2>2, <2>6, <2>8
  <2>11. \A i \in DOMAIN Without(id) : Without(id)[i] < handler_id_counter
    BY <2>2, <2>7, <2>8
  <2>12. QED
    BY <2>9, <2>10, <2>11
<1>4. QED
  BY <1>2, <1>3

\* What appending does to a sequence.
LEMMA AppendFacts ==
    ASSUME NEW S, NEW s \in Seq(S), NEW x \in S
    PROVE  /\ Len(s) \in Nat /\ Len(Append(s, x)) = Len(s) + 1
           /\ \A i \in 1 .. Len(s) : Append(s, x)[i] = s[i]
           /\ Append(s, x)[Len(s) + 1] = x
OBVIOUS

\* The steps by which a thread enters and calls the handlers leave the
\* logger alone.
LEMMA InsideStep ==
    ASSUME IInv, NEW t \in Threads, InsideHoldsLock', TypeOK',
           UNCHANGED <<level, silent, handlers, handler_id_counter, event>>,
           \A u \in Threads \ {t} : pc'[u] = pc[u] /\ index'[u] = index[u] /\ got'[u] = got[u],
           Inside(t)', ~silent, event[t].level >= level,
           pc'[t] = "next" => index'[t] <= Len(handlers) + 1 /\ Len(got'[t]) = index'[t] - 1,
           pc'[t] = "handler" => index'[t] <= Len(handlers) /\ Len(got'[t]) = index'[t],
           \A i \in 1 .. Len(got'[t]) : got'[t][i] = handlers[i]
    PROVE  IInv'
<1>1. IndexCounts'
  BY DEF IInv, IndexCounts, Inside
<1>2. GotPrefix'
  BY DEF IInv, GotPrefix, Inside
<1>3. InsideIsWanted'
  BY DEF IInv, InsideIsWanted, Inside
<1>4. HandlersInOrder' /\ OnceHasSite'
  BY DEF IInv, HandlersInOrder, OnceHasSite, Inside
<1>5. QED
  BY <1>1, <1>2, <1>3, <1>4 DEF IInv

\* Every step of log.c keeps the invariant.
LEMMA NextIInv == IInv /\ [Next]_vars => IInv'
<1> SUFFICES ASSUME IInv, [Next]_vars PROVE IInv'
  OBVIOUS
<1> USE LogAssumption
<1>1. CASE UNCHANGED vars
  BY <1>1 DEF IInv, TypeOK, InsideHoldsLock, IndexCounts, GotPrefix, InsideIsWanted,
              HandlersInOrder, OnceHasSite, Inside, vars, logger, history
<1>2. ASSUME NEW t \in Threads, NEW l \in Levels, NEW mine \in BOOLEAN, LogRank(t, l, mine)
      PROVE  IInv'
  <2> DEFINE e == [level |-> l, site |-> NoSite, mine |-> mine]
  <2>1. e \in EventType
    BY DEF EventType
  <2>2. /\ ~Inside(t) /\ pc' = [pc EXCEPT ![t] = "log"] /\ event' = [event EXCEPT ![t] = e]
        /\ UNCHANGED <<lock, level, silent, handlers, handler_id_counter, once_map, index, got, onces>>
    BY <1>2 DEF LogRank, Call, Goto, logger, history, Inside
  <2>3. index' = [index EXCEPT ![t] = 1]
    BY <2>2 DEF IInv, TypeOK, IndexCounts
  <2> HIDE DEF e
  <2>4. QED
    BY <2>1, <2>2, <2>3, OutsideStep DEF IInv, TypeOK
<1>3. ASSUME NEW t \in Threads, NEW l \in Levels, NEW s \in Sites, LogOnce(t, l, s)
      PROVE  IInv'
  <2> DEFINE e == [level |-> l, site |-> s, mine |-> TRUE]
  <2>1. e \in EventType
    BY DEF EventType
  <2>2. /\ ~Inside(t) /\ pc' = [pc EXCEPT ![t] = "find"] /\ event' = [event EXCEPT ![t] = e]
        /\ UNCHANGED <<lock, level, silent, handlers, handler_id_counter, once_map, index, got, onces>>
    BY <1>3 DEF LogOnce, Call, Goto, logger, history, Inside
  <2>3. index' = [index EXCEPT ![t] = 1]
    BY <2>2 DEF IInv, TypeOK, IndexCounts
  <2>4. e.site \in Sites
    OBVIOUS
  <2> HIDE DEF e
  <2>5. QED
    BY <2>1, <2>2, <2>3, <2>4, OutsideStep DEF IInv, TypeOK
<1>4. ASSUME NEW t \in Threads, FindOnce(t) \/ InsertOnce(t) \/ FilterLog(t)
      PROVE  IInv'
  <2>1. /\ ~Inside(t)
        /\ UNCHANGED <<lock, level, silent, handlers, handler_id_counter, onces, got>>
        /\ once_map' \in SUBSET Sites
    <3>1. pc[t] = "insert" => event[t].site \in Sites
      BY DEF IInv, OnceHasSite
    <3>2. QED
      BY <1>4, <3>1 DEF FindOnce, InsertOnce, FilterLog, logger, history, Inside, IInv, TypeOK
  <2>2. NoEvent \in EventType /\ event[t] \in EventType
    BY DEF IInv, TypeOK, NoEvent, EventType
  <2>3. index[t] = 1
    BY <2>1 DEF IInv, IndexCounts
  <2>4. event = [event EXCEPT ![t] = event[t]] /\ index = [index EXCEPT ![t] = 1]
    BY <2>3 DEF IInv, TypeOK
  <2>5. CASE Return(t)
    BY <2>1, <2>2, <2>5, OutsideStep DEF Return, IInv, TypeOK
  <2>6. CASE UNCHANGED <<event, index>> /\ (Goto(t, "insert") \/ Goto(t, "log"))
    <3>1. event' = [event EXCEPT ![t] = event[t]] /\ index' = [index EXCEPT ![t] = 1]
      BY <2>4, <2>6
    <3>2. onces' \in [Sites -> Nat]
      BY <2>1 DEF IInv, TypeOK
    <3>3. CASE Goto(t, "insert")
      <4>1. event[t].site \in Sites
        BY <1>4, <2>6, <3>3 DEF FindOnce, InsertOnce, FilterLog, Goto, Return, IInv, TypeOK, OnceHasSite
      <4>2. QED
        BY <2>1, <2>2, <3>1, <3>2, <3>3, <4>1, OutsideStep DEF Goto
    <3>4. CASE Goto(t, "log")
      BY <2>1, <2>2, <3>1, <3>2, <3>4, OutsideStep DEF Goto
    <3>5. QED
      BY <2>6, <3>3, <3>4
  <2>7. QED
    BY <1>4, <2>5, <2>6 DEF FindOnce, InsertOnce, FilterLog
<1>5. ASSUME NEW t \in Threads, EnterLog(t)
      PROVE  IInv'
  <2>1. /\ lock = NoThread /\ lock' = t /\ pc' = [pc EXCEPT ![t] = "next"]
        /\ got' = [got EXCEPT ![t] = <<>>] /\ index' = index
        /\ UNCHANGED <<level, silent, handlers, handler_id_counter, once_map, event>>
        /\ ~silent /\ event[t].level >= level
    BY <1>5 DEF EnterLog, Goto, logger
  <2>2. \A u \in Threads : ~Inside(u)
    BY <2>1, FreeMeansEmpty
  <2>3. onces' \in [Sites -> Nat]
    BY <1>5 DEF EnterLog, IInv, TypeOK
  <2>4. TypeOK'
    BY <2>1, <2>3 DEF IInv, TypeOK
  <2>5. InsideHoldsLock'
    BY <2>1, <2>2 DEF IInv, TypeOK, InsideHoldsLock, Inside
  <2>6. index'[t] = 1 /\ got'[t] = <<>> /\ pc'[t] = "next"
    BY <2>1, <2>2 DEF IInv, TypeOK, IndexCounts
  <2>7. \A u \in Threads \ {t} : pc'[u] = pc[u] /\ index'[u] = index[u] /\ got'[u] = got[u]
    BY <2>1 DEF IInv, TypeOK
  <2>8. Len(handlers) \in Nat
    BY DEF IInv, TypeOK
  <2>9. QED
    BY <2>1, <2>4, <2>5, <2>6, <2>7, <2>8, InsideStep DEF Inside
<1>6. ASSUME NEW t \in Threads, CallHandler(t)
      PROVE  IInv'
  <2>1. /\ pc[t] = "next" /\ index[t] <= Len(handlers) /\ pc' = [pc EXCEPT ![t] = "handler"]
        /\ got' = [got EXCEPT ![t] = Append(@, handlers[index[t]])]
        /\ UNCHANGED <<lock, level, silent, handlers, handler_id_counter, once_map, event, index, onces>>
    BY <1>6 DEF CallHandler, Goto, logger
  <2>2. handlers \in Seq(Nat) /\ got[t] \in Seq(Nat) /\ index[t] \in 1 .. Len(handlers)
    BY <2>1 DEF IInv, TypeOK
  <2>3. handlers[index[t]] \in Nat
    BY <2>2
  <2>4. Len(got[t]) = index[t] - 1 /\ \A i \in 1 .. Len(got[t]) : got[t][i] = handlers[i]
    BY <2>1 DEF IInv, IndexCounts, GotPrefix, Inside
  <2>5. /\ got'[t] = Append(got[t], handlers[index[t]]) /\ pc'[t] = "handler"
        /\ index'[t] = index[t] /\ Append(got[t], handlers[index[t]]) \in Seq(Nat)
    BY <2>1, <2>2, <2>3 DEF IInv, TypeOK
  <2>6. Len(got'[t]) = index[t] /\ \A i \in 1 .. Len(got'[t]) : got'[t][i] = handlers[i]
    <3> DEFINE a == Append(got[t], handlers[index[t]])
    <3>1. /\ Len(got[t]) \in Nat /\ Len(a) = Len(got[t]) + 1
          /\ \A i \in 1 .. Len(got[t]) : a[i] = got[t][i]
          /\ a[Len(got[t]) + 1] = handlers[index[t]]
      BY <2>2, <2>3, AppendFacts
    <3>2. index[t] = Len(got[t]) + 1
      BY <2>2, <2>4
    <3> HIDE DEF a
    <3>3. ASSUME NEW i \in 1 .. Len(a) PROVE a[i] = handlers[i]
      <4>1. i \in 1 .. Len(got[t]) \/ i = Len(got[t]) + 1
        BY <3>1
      <4>2. CASE i \in 1 .. Len(got[t])
        BY <2>4, <3>1, <4>2
      <4>3. CASE i = Len(got[t]) + 1
        BY <3>1, <3>2, <4>3
      <4>4. QED
        BY <4>1, <4>2, <4>3
    <3>4. QED
      BY <2>5, <3>1, <3>2, <3>3 DEF a
  <2>7. TypeOK'
    BY <2>1, <2>5 DEF IInv, TypeOK
  <2>8. InsideHoldsLock'
    BY <2>1 DEF IInv, TypeOK, InsideHoldsLock, Inside
  <2>9. \A u \in Threads \ {t} : pc'[u] = pc[u] /\ index'[u] = index[u] /\ got'[u] = got[u]
    BY <2>1 DEF IInv, TypeOK
  <2>10. ~silent /\ event[t].level >= level
    BY <2>1 DEF IInv, InsideIsWanted, Inside
  <2>11. QED
    BY <2>1, <2>2, <2>5, <2>6, <2>7, <2>8, <2>9, <2>10, InsideStep DEF Inside
<1>7. ASSUME NEW t \in Threads, HandlerReturns(t)
      PROVE  IInv'
  <2>1. /\ pc[t] = "handler" /\ pc' = [pc EXCEPT ![t] = "next"]
        /\ index' = [index EXCEPT ![t] = @ + 1]
        /\ UNCHANGED <<lock, level, silent, handlers, handler_id_counter, once_map, event, got, onces>>
    BY <1>7 DEF HandlerReturns, Goto, logger, history
  <2>2. /\ index[t] <= Len(handlers) /\ Len(got[t]) = index[t]
        /\ \A i \in 1 .. Len(got[t]) : got[t][i] = handlers[i]
    BY <2>1 DEF IInv, IndexCounts, GotPrefix, Inside
  <2>3. handlers \in Seq(Nat) /\ index[t] \in Nat /\ Len(handlers) <= MYS_LOG_MAX_HANDLER
    BY DEF IInv, TypeOK
  <2>4. index'[t] = index[t] + 1 /\ pc'[t] = "next" /\ index[t] + 1 \in 1 .. MYS_LOG_MAX_HANDLER + 1
    BY <2>1, <2>2, <2>3 DEF IInv, TypeOK
  <2>5. TypeOK'
    BY <2>1, <2>4 DEF IInv, TypeOK
  <2>6. InsideHoldsLock'
    BY <2>1 DEF IInv, TypeOK, InsideHoldsLock, Inside
  <2>7. \A u \in Threads \ {t} : pc'[u] = pc[u] /\ index'[u] = index[u] /\ got'[u] = got[u]
    BY <2>1 DEF IInv, TypeOK
  <2>8. ~silent /\ event[t].level >= level
    BY <2>1 DEF IInv, InsideIsWanted, Inside
  <2>9. QED
    BY <2>1, <2>2, <2>3, <2>4, <2>5, <2>6, <2>7, <2>8, InsideStep DEF Inside
<1>8. ASSUME NEW t \in Threads, LeaveLog(t)
      PROVE  IInv'
  <2>1. /\ pc[t] = "next" /\ lock' = NoThread /\ pc' = [pc EXCEPT ![t] = "out"]
        /\ event' = [event EXCEPT ![t] = NoEvent] /\ index' = [index EXCEPT ![t] = 1]
        /\ got' = [got EXCEPT ![t] = <<>>]
        /\ UNCHANGED <<level, silent, handlers, handler_id_counter, once_map, onces>>
    BY <1>8 DEF LeaveLog, Return, logger
  <2>2. NoEvent \in EventType
    BY DEF NoEvent, EventType
  <2>3. TypeOK'
    BY <2>1, <2>2 DEF IInv, TypeOK
  <2>4. \A u \in Threads : ~Inside(u)'
    BY <2>1 DEF IInv, TypeOK, InsideHoldsLock, Inside
  <2>5. InsideHoldsLock' /\ InsideIsWanted' /\ GotPrefix'
    BY <2>4 DEF InsideHoldsLock, InsideIsWanted, GotPrefix
  <2>6. \A u \in Threads : index'[u] = 1
    BY <2>1, <2>4 DEF IInv, TypeOK, IndexCounts, Inside
  <2>7. IndexCounts'
    BY <2>4, <2>6 DEF IndexCounts, Inside
  <2>8. HandlersInOrder' /\ OnceHasSite'
    BY <2>1 DEF IInv, TypeOK, HandlersInOrder, OnceHasSite
  <2>9. QED
    BY <2>3, <2>5, <2>7, <2>8 DEF IInv
<1>9. ASSUME NEW t \in Threads, AddHandler(t)
      PROVE  IInv'
  <2>1. /\ Section(t) /\ Len(handlers) < MYS_LOG_MAX_HANDLER
        /\ handlers' = Append(handlers, handler_id_counter)
        /\ handler_id_counter' = handler_id_counter + 1
        /\ UNCHANGED <<level, silent, once_map>>
    BY <1>9 DEF AddHandler
  <2>2. handlers \in Seq(Nat) /\ handler_id_counter \in Nat /\ Len(handlers) \in Nat
    BY DEF IInv, TypeOK
  <2>3. handlers' \in Seq(Nat) /\ Len(handlers') = Len(handlers) + 1
    BY <2>1, <2>2
  <2>4. HandlersInOrder'
    BY <2>1, <2>2, <2>3 DEF IInv, HandlersInOrder
  <2>5. level' \in Levels /\ silent' \in BOOLEAN /\ once_map' = once_map
    BY <2>1 DEF IInv, TypeOK
  <2>6. Len(handlers') <= MYS_LOG_MAX_HANDLER /\ handler_id_counter' \in Nat
    BY <2>1, <2>2, <2>3, LogAssumption
  <2>7. QED
    BY <2>1, <2>3, <2>4, <2>5, <2>6, SectionStep
<1>10. ASSUME NEW t \in Threads, ClearHandler(t)
       PROVE  IInv'
  <2>1. handlers' \in Seq(Nat) /\ Len(handlers') = 0 /\ HandlersInOrder'
    BY <1>10 DEF ClearHandler, HandlersInOrder
  <2>2. level' \in Levels /\ silent' \in BOOLEAN /\ once_map' = once_map
        /\ handler_id_counter' \in Nat
    BY <1>10 DEF ClearHandler, IInv, TypeOK
  <2>3. Len(handlers') <= MYS_LOG_MAX_HANDLER
    BY <2>1, LogAssumption
  <2>4. QED
    BY <1>10, <2>1, <2>2, <2>3, SectionStep DEF ClearHandler
<1>11. ASSUME NEW t \in Threads, NEW id, RemoveHandler(t, id)
       PROVE  IInv'
  <2>1. HandlersInOrder'
    BY <1>11, WithoutKeepsOrder DEF RemoveHandler, HandlersInOrder
  <2>2. Len(handlers) \in Nat /\ Len(handlers') \in Nat /\ Len(handlers') <= MYS_LOG_MAX_HANDLER
    BY <1>11, WithoutKeepsOrder DEF RemoveHandler, IInv, TypeOK
  <2>3. QED
    BY <1>11, <2>1, <2>2, WithoutKeepsOrder, SectionStep DEF RemoveHandler, IInv, TypeOK
<1>12. ASSUME NEW t \in Threads, NEW l \in Levels, SetLevel(t, l)
       PROVE  IInv'
  <2>1. HandlersInOrder'
    BY <1>12 DEF SetLevel, IInv, HandlersInOrder
  <2>2. QED
    BY <1>12, <2>1, SectionStep DEF SetLevel, IInv, TypeOK
<1>13. ASSUME NEW t \in Threads, NEW val \in BOOLEAN, Silent(t, val)
       PROVE  IInv'
  <2>1. HandlersInOrder'
    BY <1>13 DEF Silent, IInv, HandlersInOrder
  <2>2. QED
    BY <1>13, <2>1, SectionStep DEF Silent, IInv, TypeOK
<1>14. QED
  BY <1>1, <1>2, <1>3, <1>4, <1>5, <1>6, <1>7, <1>8, <1>9, <1>10, <1>11, <1>12, <1>13 DEF Next

\* The inductive invariant holds in every behaviour of the logger.
THEOREM LogIInvHolds == Spec => []IInv
<1>1. Init => IInv
  BY InitIInv
<1>2. IInv /\ [Next]_vars => IInv'
  BY NextIInv
<1>3. QED
  BY <1>1, <1>2, PTL DEF Spec

\* The state of the logger has its type; in particular the array of handlers
\* is never longer than MYS_LOG_MAX_HANDLER.
THEOREM LogTypeCorrect == Spec => []TypeOK
<1>1. IInv => TypeOK
  BY DEF IInv
<1>2. QED
  BY <1>1, LogIInvHolds, PTL

\* Handlers never run on two threads at once, however many threads log.
THEOREM HandlersAreSerialized == Spec => []HandlersSerialized
<1>1. IInv => HandlersSerialized
  BY DEF IInv, InsideHoldsLock, Inside, HandlersSerialized
<1>2. QED
  BY <1>1, LogIInvHolds, PTL

\* The handlers stay in the order in which they were added, with distinct ids.
THEOREM HandlersKeepOrder == Spec => []HandlersInOrder
<1>1. IInv => HandlersInOrder
  BY DEF IInv
<1>2. QED
  BY <1>1, LogIInvHolds, PTL

\* A handler that runs is installed and was given a message the logger lets out.
THEOREM RunningHandlerIsWanted == Spec => []RunningIsWanted
<1>1. IInv => RunningIsWanted
  <2> SUFFICES ASSUME IInv, NEW t \in Threads, pc[t] = "handler"
               PROVE  Last(got[t]) \in ToSet(handlers) /\ ~silent /\ event[t].level >= level
    BY DEF RunningIsWanted
  <2>1. ~silent /\ event[t].level >= level
    BY DEF IInv, InsideIsWanted, Inside
  <2>2. handlers \in Seq(Nat) /\ index[t] \in 1 .. Len(handlers) /\ Len(got[t]) = index[t]
    BY DEF IInv, TypeOK, IndexCounts
  <2>3. got[t][Len(got[t])] = handlers[index[t]]
    BY <2>2 DEF IInv, GotPrefix, Inside
  <2>4. Last(got[t]) = handlers[index[t]]
    BY <2>3 DEF Last
  <2>5. index[t] \in DOMAIN handlers
    BY <2>2
  <2>6. QED
    BY <2>1, <2>4, <2>5 DEF ToSet
<1>2. QED
  BY <1>1, LogIInvHolds, PTL

\* When a thread leaves the critical section its event has been given to every
\* installed handler, once and in order: the array has not changed meanwhile.
THEOREM EventsReachAll == Spec => DeliversToAll
<1>1. IInv /\ [Next]_vars =>
          [\A t \in Threads : (pc[t] = "next" /\ pc'[t] = "out") => got[t] = handlers]_vars
  <2> SUFFICES ASSUME IInv, Next, NEW t \in Threads, pc[t] = "next", pc'[t] = "out"
               PROVE  got[t] = handlers
    OBVIOUS
  <2>1. LeaveLog(t)
    <3>1. \A u \in Threads, l \in Levels, mine \in BOOLEAN : ~LogRank(u, l, mine)
      BY DEF LogRank, Call, Goto, IInv, TypeOK
    <3>2. \A u \in Threads, l \in Levels, s \in Sites : ~LogOnce(u, l, s)
      BY DEF LogOnce, Call, Goto, IInv, TypeOK
    <3>3. \A u \in Threads : ~FindOnce(u) /\ ~InsertOnce(u) /\ ~FilterLog(u) /\ ~EnterLog(u)
      BY FreeMeansEmpty DEF Inside, FindOnce, InsertOnce, FilterLog, EnterLog
    <3>4. \A u \in Threads : ~CallHandler(u) /\ ~HandlerReturns(u)
      BY DEF CallHandler, HandlerReturns, Goto, IInv, TypeOK
    <3>5. \A u \in Threads : ~Section(u)
      BY FreeMeansEmpty DEF Inside, Section
    <3>6. \E u \in Threads : LeaveLog(u)
      BY <3>1, <3>2, <3>3, <3>4, <3>5
      DEF Next, AddHandler, ClearHandler, RemoveHandler, SetLevel, Silent
    <3>7. QED
      BY <3>6 DEF LeaveLog, Return, IInv, TypeOK
  <2>2. /\ handlers \in Seq(Nat) /\ got[t] \in Seq(Nat) /\ index[t] \in Nat
        /\ index[t] > Len(handlers)
    BY <2>1 DEF LeaveLog, IInv, TypeOK
  <2>3. Len(got[t]) = index[t] - 1 /\ index[t] <= Len(handlers) + 1
    BY DEF IInv, IndexCounts
  <2>4. Len(got[t]) = Len(handlers)
    BY <2>2, <2>3
  <2>5. \A i \in 1 .. Len(got[t]) : got[t][i] = handlers[i]
    BY DEF IInv, GotPrefix, Inside
  <2>6. QED
    BY <2>2, <2>4, <2>5
<1>2. QED
  BY <1>1, LogIInvHolds, PTL DEF Spec, DeliversToAll

-----------------------------------------------------------------------------
\* No line was logged once yet.
LEMMA InitOnceInv == Init => OnceInv
<1> SUFFICES ASSUME Init PROVE OnceInv
  OBVIOUS
<1>1. \A t \in Threads : event[t].site \notin Sites /\ pc[t] = "out"
  BY LogAssumption DEF Init, NoEvent
<1>2. QED
  BY <1>1 DEF Init, OnceInv, SitesExclusive

\* A step after which t is in no site, or in the one it was in, and which
\* touches no site but by that, keeps the facts about the sites.
LEMMA SameSites ==
    ASSUME IInv, OnceInv, UNCHANGED <<once_map, onces>>, NEW t \in Threads,
           event'[t] = event[t] \/ event'[t].site \notin Sites,
           \A u \in Threads \ {t} : event'[u] = event[u] /\ pc'[u] = pc[u],
           pc'[t] \notin {"insert", "log"} \/ (pc'[t] = pc[t] /\ event'[t] = event[t])
             \/ (event'[t].site \notin Sites /\ pc'[t] # "insert")
    PROVE  OnceInv'
<1>1. SitesExclusive'
  BY DEF OnceInv, SitesExclusive
<1>2. \A s \in Sites : onces'[s] # 0 => onces'[s] = 1 /\ s \in once_map'
  BY DEF OnceInv
<1>3. ASSUME NEW u \in Threads
      PROVE  /\ pc'[u] = "insert" => onces'[event'[u].site] = 0
             /\ pc'[u] = "log" /\ event'[u].site \in Sites
                    => event'[u].site \in once_map' /\ onces'[event'[u].site] = 0
  BY DEF OnceInv
<1>4. QED
  BY <1>1, <1>2, <1>3 DEF OnceInv

\* A thread that returns leaves its line as it is.
LEMMA ReturnKeepsSites ==
    ASSUME IInv, OnceInv, UNCHANGED <<once_map, onces>>, NEW t \in Threads, Return(t)
    PROVE  OnceInv'
<1>1. /\ event'[t] = NoEvent /\ pc'[t] = "out"
      /\ \A u \in Threads \ {t} : event'[u] = event[u] /\ pc'[u] = pc[u]
  BY DEF Return, IInv, TypeOK
<1>2. event'[t].site \notin Sites
  BY <1>1, LogAssumption DEF NoEvent
<1>3. QED
  BY <1>1, <1>2, SameSites

\* Every step keeps the facts about the lines, if no two threads overlap there.
LEMMA NextOnceInv == ~OnceOverlaps /\ IInv /\ OnceInv /\ [Next]_vars => OnceInv'
<1> SUFFICES ASSUME ~OnceOverlaps, IInv, OnceInv, [Next]_vars PROVE OnceInv'
  OBVIOUS
<1> USE LogAssumption
<1>1. CASE UNCHANGED vars
  BY <1>1 DEF OnceInv, SitesExclusive, vars, logger, history
<1>2. ASSUME NEW t \in Threads, NEW l \in Levels, NEW mine \in BOOLEAN, LogRank(t, l, mine)
      PROVE  OnceInv'
  BY <1>2, SameSites DEF LogRank, Call, Goto, logger, history, IInv, TypeOK
<1>3. ASSUME NEW t \in Threads, NEW l \in Levels, NEW s \in Sites, LogOnce(t, l, s)
      PROVE  OnceInv'
  <2>1. /\ \A u \in Threads : event[u].site # s
        /\ \A u \in Threads \ {t} : event'[u] = event[u] /\ pc'[u] = pc[u]
        /\ event'[t].site = s /\ pc'[t] = "find" /\ UNCHANGED <<once_map, onces>>
    BY <1>3 DEF LogOnce, Call, Goto, logger, history, IInv, TypeOK
  <2>2. SitesExclusive'
    BY <2>1 DEF OnceInv, SitesExclusive
  <2>3. QED
    BY <2>1, <2>2 DEF OnceInv
<1>4. ASSUME NEW t \in Threads, FindOnce(t)
      PROVE  OnceInv'
  <2>1. CASE event[t].site \in once_map
    BY <1>4, <2>1, ReturnKeepsSites DEF FindOnce, logger, history
  <2>2. CASE event[t].site \notin once_map
    <3>1. /\ UNCHANGED <<once_map, onces, event>> /\ pc'[t] = "insert"
          /\ \A u \in Threads \ {t} : pc'[u] = pc[u]
      BY <1>4, <2>2 DEF FindOnce, Goto, logger, history, IInv, TypeOK
    <3>2. event[t].site \in Sites
      BY <1>4 DEF FindOnce, IInv, OnceHasSite
    <3>3. onces[event[t].site] = 0
      BY <2>2, <3>2 DEF OnceInv
    <3>4. QED
      BY <3>1, <3>3 DEF OnceInv, SitesExclusive
  <2>3. QED
    BY <2>1, <2>2
<1>5. ASSUME NEW t \in Threads, InsertOnce(t)
      PROVE  OnceInv'
  <2>1. /\ UNCHANGED <<onces, event>> /\ pc'[t] = "log" /\ pc[t] = "insert"
        /\ once_map' = once_map \cup {event[t].site}
        /\ \A u \in Threads \ {t} : pc'[u] = pc[u]
    BY <1>5 DEF InsertOnce, Goto, history, IInv, TypeOK
  <2>2. onces[event[t].site] = 0
    BY <2>1 DEF OnceInv
  <2>3. QED
    BY <2>1, <2>2 DEF OnceInv, SitesExclusive
<1>6. ASSUME NEW t \in Threads, EnterLog(t)
      PROVE  OnceInv'
  <2>1. /\ UNCHANGED <<event, once_map>> /\ pc[t] = "log" /\ pc'[t] = "next"
        /\ \A u \in Threads \ {t} : pc'[u] = pc[u]
        /\ onces \in [Sites -> Nat]
        /\ \A s \in Sites : onces'[s] = onces[s]
                              \/ (event[t].site = s /\ onces'[s] = onces[s] + 1)
    BY <1>6 DEF EnterLog, Goto, logger, IInv, TypeOK
  <2>2. event[t].site \in Sites => event[t].site \in once_map /\ onces[event[t].site] = 0
    BY <2>1 DEF OnceInv
  <2>3. \A s \in Sites : onces'[s] # 0 => onces'[s] = 1 /\ s \in once_map
    BY <2>1, <2>2 DEF OnceInv
  <2>4. ASSUME NEW u \in Threads, u # t, event[u].site \in Sites
        PROVE  onces'[event[u].site] = onces[event[u].site]
    BY <2>1, <2>4 DEF OnceInv, SitesExclusive
  <2>5. \A u \in Threads : pc[u] = "insert" => event[u].site \in Sites
    BY DEF IInv, OnceHasSite
  <2>6. QED
    BY <2>1, <2>3, <2>4, <2>5 DEF OnceInv, SitesExclusive
<1>7. ASSUME NEW t \in Threads, FilterLog(t) \/ LeaveLog(t)
      PROVE  OnceInv'
  BY <1>7, ReturnKeepsSites DEF FilterLog, LeaveLog, logger, history
<1>8. ASSUME NEW t \in Threads, CallHandler(t) \/ HandlerReturns(t)
      PROVE  OnceInv'
  BY <1>8, SameSites DEF CallHandler, HandlerReturns, Goto, logger, history, IInv, TypeOK
<1>9. ASSUME NEW t \in Threads, Section(t), UNCHANGED once_map
      PROVE  OnceInv'
  BY <1>9, SameSites DEF Section, history
<1>10. QED
  BY <1>1, <1>2, <1>3, <1>4, <1>5, <1>6, <1>7, <1>8, <1>9
  DEF Next, AddHandler, ClearHandler, RemoveHandler, SetLevel, Silent

\* mys_log_once logs once at a site when the site is not reached by two threads
\* at the same time.
THEOREM OnceLogsOnce == ~OnceOverlaps /\ Spec => []OncePerSite
<1> SUFFICES ASSUME ~OnceOverlaps PROVE Spec => []OncePerSite
  OBVIOUS
<1>1. IInv /\ OnceInv => OncePerSite
  BY DEF OnceInv, OncePerSite
<1>2. Init => IInv /\ OnceInv
  BY InitIInv, InitOnceInv
<1>3. (IInv /\ OnceInv) /\ [Next]_vars => (IInv /\ OnceInv)'
  BY NextIInv, NextOnceInv
<1>4. QED
  BY <1>1, <1>2, <1>3, PTL DEF Spec

-----------------------------------------------------------------------------
(***************************************************************************)
(* The collective calls, for any number of ranks, any programs, cells and  *)
(* folders.                                                                *)
(*                                                                         *)
(* What a rank has done is what the calls before its own say (Past), so    *)
(* the state of a rank is a function of the call it is in and of where in  *)
(* it, and two ranks that are in one barrier are in one call.  Therefore a *)
(* rank has at most one message of mys_log_ordered on its way, and what    *)
(* rank 0 has printed is what the ranks before turn said, in their order.  *)
(* mys_table_dump has no barrier: there it is the order of the cells on    *)
(* their way that keeps the dumps apart.                                   *)
(***************************************************************************)
\* Induction over the natural numbers, for a property that is a set.
LEMMA LessIsWellFounded ==
    \E rel : IsWellFoundedOn(rel, Nat) /\ \A x, y \in Nat : <<y, x>> \in rel <=> y < x
<1>1. \A x, y \in Nat : <<y, x>> \in OpToRel(<, Nat) <=> y < x
  BY DEF OpToRel
<1>2. QED
  BY <1>1, NatLessThanWellFounded, Zenon

\* A set with 0 and with n + 1 for each n in it holds every number.
LEMMA SetInduction ==
    ASSUME NEW dom, 0 \in dom, \A n \in Nat : n \in dom => n + 1 \in dom
    PROVE  Nat \subseteq dom
<1> DEFINE sub == Nat \ dom
<1> SUFFICES ASSUME sub # {} PROVE FALSE
  OBVIOUS
<1>1. PICK rel : IsWellFoundedOn(rel, Nat) /\ \A x, y \in Nat : <<y, x>> \in rel <=> y < x
  BY LessIsWellFounded
<1>2. sub \subseteq Nat
  OBVIOUS
<1> HIDE DEF sub
<1>3. PICK x \in sub : \A y \in sub : ~ (<<y, x>> \in rel)
  BY <1>1, <1>2, WFMin
<1> USE DEF sub
<1>4. x \in Nat /\ x # 0
  OBVIOUS
<1>5. x - 1 \in Nat /\ x - 1 < x /\ x - 1 + 1 = x
  BY <1>4
<1>6. x - 1 \in dom
  BY <1>1, <1>3, <1>4, <1>5
<1> QED
  BY <1>5, <1>6

-----------------------------------------------------------------------------
\* h holds what Joined puts together for every k up to n.
Joining(h, s, n) == h = [k \in 0 .. n |-> IF k = 0 THEN <<>> ELSE h[k - 1] \o s[k]]

\* There is such a function.
LEMMA JoiningExists ==
    ASSUME NEW s, NEW n \in Nat
    PROVE  \E h : Joining(h, s, n)
<1> DEFINE good == {k \in Nat : \E h : Joining(h, s, k)}
<1>1. 0 \in good
  <2> DEFINE h == [k \in 0 .. 0 |-> <<>>]
  <2>1. Joining(h, s, 0)
    BY DEF Joining
  <2> QED
    BY <2>1
<1>2. ASSUME NEW k \in Nat, k \in good PROVE k + 1 \in good
  <2>1. PICK h : Joining(h, s, k)
    BY <1>2
  <2> DEFINE g == [m \in 0 .. k + 1 |-> IF m = k + 1 THEN h[k] \o s[k + 1] ELSE h[m]]
  <2>2. ASSUME NEW m \in 0 .. k + 1 PROVE g[m] = IF m = 0 THEN <<>> ELSE g[m - 1] \o s[m]
    <3>1. CASE m = k + 1
      <4>1. g[m - 1] = h[k] /\ m # 0 /\ g[m] = h[k] \o s[m]
        BY <3>1
      <4> QED
        BY <4>1
    <3>2. CASE m # k + 1
      <4>1. m \in 0 .. k /\ g[m] = h[m] /\ (m # 0 => m - 1 \in 0 .. k + 1 /\ m - 1 # k + 1 /\ g[m - 1] = h[m - 1])
        BY <3>2
      <4>2. h[m] = IF m = 0 THEN <<>> ELSE h[m - 1] \o s[m]
        BY <2>1, <4>1 DEF Joining
      <4> HIDE DEF g
      <4> QED
        BY <4>1, <4>2
    <3> QED
      BY <3>1, <3>2
  <2>3. g = [m \in 0 .. k + 1 |-> IF m = 0 THEN <<>> ELSE g[m - 1] \o s[m]]
    <3>1. g = [m \in 0 .. k + 1 |-> g[m]]
      OBVIOUS
    <3> HIDE DEF g
    <3> QED
      BY <2>2, <3>1
  <2>4. Joining(g, s, k + 1)
    BY <2>3 DEF Joining
  <2> HIDE DEF g
  <2> QED
    BY <2>4
<1> HIDE DEF good
<1>3. n \in good
  BY <1>1, <1>2, SetInduction
<1> QED
  BY <1>3 DEF good

\* Joined is what it is defined to be.
LEMMA JoinedIs ==
    ASSUME NEW s, NEW n \in Nat, NEW h, Joining(h, s, n), NEW m \in 0 .. n
    PROVE  Joined(s, m) = h[m]
<1> DEFINE f == CHOOSE f : f = [k \in 0 .. m |-> IF k = 0 THEN <<>> ELSE f[k - 1] \o s[k]]
<1>1. Joined(s, m) = f[m]
  BY DEF Joined
<1>2. Joining(f, s, m)
  <2>1. \E g : Joining(g, s, m)
    BY JoiningExists
  <2> QED
    BY <2>1 DEF Joining
<1> HIDE DEF f
<1>3. \A k \in 0 .. m : f[k] = IF k = 0 THEN <<>> ELSE f[k - 1] \o s[k]
  BY <1>2 DEF Joining
<1>4. \A k \in 0 .. n : h[k] = IF k = 0 THEN <<>> ELSE h[k - 1] \o s[k]
  BY DEF Joining
<1> DEFINE good == {k \in Nat : k \in 0 .. m => f[k] = h[k]}
<1>5. 0 \in good
  BY <1>3, <1>4
<1>6. ASSUME NEW k \in Nat, k \in good PROVE k + 1 \in good
  <2> SUFFICES ASSUME k + 1 \in 0 .. m PROVE f[k + 1] = h[k + 1]
    OBVIOUS
  <2> DEFINE x == k + 1
  <2>1. k \in 0 .. m /\ x \in 0 .. m /\ x \in 0 .. n /\ x # 0 /\ x - 1 = k
    OBVIOUS
  <2> HIDE DEF x
  <2>2. f[x] = f[k] \o s[x]
    BY <1>3, <2>1
  <2>3. h[x] = h[k] \o s[x]
    BY <1>4, <2>1
  <2>4. f[k] = h[k]
    BY <1>6, <2>1
  <2> QED
    BY <2>2, <2>3, <2>4 DEF x
<1> HIDE DEF good
<1>7. m \in good
  BY <1>5, <1>6, SetInduction
<1> QED
  BY <1>1, <1>7 DEF good

\* Joined says it step by step: k joins one more than m = k - 1.
LEMMA JoinedSteps ==
    ASSUME NEW elems, NEW n \in Nat, NEW s, \A k \in 1 .. n : s[k] \in Seq(elems)
    PROVE  /\ Joined(s, 0) = <<>>
           /\ \A k \in 1 .. n, m \in 0 .. n : m = k - 1 => Joined(s, k) = Joined(s, m) \o s[k]
           /\ \A k \in 0 .. n : Joined(s, k) \in Seq(elems)
<1>1. PICK h : Joining(h, s, n)
  BY JoiningExists
<1>2. \A k \in 0 .. n : Joined(s, k) = h[k]
  BY <1>1, JoinedIs
<1>3. \A k \in 0 .. n : h[k] = IF k = 0 THEN <<>> ELSE h[k - 1] \o s[k]
  BY <1>1 DEF Joining
<1>4. Joined(s, 0) = <<>>
  BY <1>2, <1>3
<1>5. ASSUME NEW k \in 1 .. n, NEW m \in 0 .. n, m = k - 1 PROVE Joined(s, k) = Joined(s, m) \o s[k]
  <2>1. k \in 0 .. n /\ k # 0
    OBVIOUS
  <2> QED
    BY <1>2, <1>3, <1>5, <2>1
<1> DEFINE good == {k \in Nat : k \in 0 .. n => Joined(s, k) \in Seq(elems)}
<1>6. 0 \in good
  <2>1. <<>> \in Seq(elems)
    OBVIOUS
  <2> QED
    BY <1>4, <2>1
<1>7. ASSUME NEW k \in Nat, k \in good PROVE k + 1 \in good
  <2> SUFFICES ASSUME k + 1 \in 0 .. n PROVE Joined(s, k + 1) \in Seq(elems)
    OBVIOUS
  <2> DEFINE m == k + 1
             here == Joined(s, k)
             more == Joined(s, m)
             part1 == s[m]
  <2>1. m \in 1 .. n /\ k = m - 1 /\ k \in 0 .. n
    OBVIOUS
  <2> HIDE DEF m
  <2>2. more = here \o part1
    BY <1>5, <2>1
  <2>3. here \in Seq(elems)
    BY <1>7, <2>1
  <2>4. part1 \in Seq(elems)
    BY <2>1
  <2> HIDE DEF here, more, part1
  <2>5. more \in Seq(elems)
    BY <2>2, <2>3, <2>4
  <2> QED
    BY <2>5 DEF more, m
<1> HIDE DEF good
<1>8. Nat \subseteq good
  BY <1>6, <1>7, SetInduction
<1>9. \A k \in 0 .. n : Joined(s, k) \in Seq(elems)
  BY <1>8 DEF good
<1> QED
  BY <1>4, <1>5, <1>9

\* s is the beginning of t.
Begins(s, t, elems) == \E rest \in Seq(elems) : t = s \o rest

\* The beginning of a beginning is one.
LEMMA BeginsTransitive ==
    ASSUME NEW elems, NEW a \in Seq(elems), NEW b \in Seq(elems), NEW c \in Seq(elems),
           Begins(a, b, elems), Begins(b, c, elems)
    PROVE  Begins(a, c, elems)
<1>1. PICK x \in Seq(elems), y \in Seq(elems) : b = a \o x /\ c = b \o y
  BY DEF Begins
<1>2. c = a \o (x \o y) /\ x \o y \in Seq(elems)
  BY <1>1, ConcatAssociative
<1> QED
  BY <1>2 DEF Begins

\* What is put in front of a beginning and of the whole leaves it a beginning.
LEMMA BeginsAfter ==
    ASSUME NEW elems, NEW a \in Seq(elems), NEW b \in Seq(elems), NEW c \in Seq(elems), Begins(b, c, elems)
    PROVE  Begins(a \o b, a \o c, elems)
<1>1. PICK x \in Seq(elems) : c = b \o x
  BY DEF Begins
<1>2. (a \o b) \o x = a \o (b \o x)
  BY <1>1, ConcatAssociative
<1> QED
  BY <1>1, <1>2 DEF Begins

\* A beginning is not longer, and agrees with the whole.
LEMMA BeginsAgrees ==
    ASSUME NEW elems, NEW a \in Seq(elems), NEW b \in Seq(elems), Begins(a, b, elems)
    PROVE  Len(a) <= Len(b) /\ \A j \in 1 .. Len(a) : a[j] = b[j]
<1>1. PICK x \in Seq(elems) : b = a \o x
  BY DEF Begins
<1> QED
  BY <1>1

\* A beginning is a prefix in the sense of the community module.
LEMMA BeginsIsPrefix ==
    ASSUME NEW elems, NEW s \in Seq(elems), NEW t, Begins(s, t, elems)
    PROVE  IsPrefix(s, t)
<1>1. PICK x \in Seq(elems) : t = s \o x
  BY DEF Begins
<1> QED
  BY <1>1 DEF IsPrefix

\* What is joined first is the beginning of what is joined later.
LEMMA JoinedGrows ==
    ASSUME NEW elems, NEW n \in Nat, NEW s, \A k \in 1 .. n : s[k] \in Seq(elems),
           NEW m \in 0 .. n, NEW k \in 0 .. n, m <= k
    PROVE  Begins(Joined(s, m), Joined(s, k), elems)
<1> DEFINE J(x) == Joined(s, x)
           good == {x \in Nat : m + x <= n => \E rest \in Seq(elems) : J(m + x) = J(m) \o rest}
<1>1. \A x \in 0 .. n : J(x) \in Seq(elems)
  BY JoinedSteps
<1>2. \A x \in 1 .. n, y \in 0 .. n : y = x - 1 => J(x) = J(y) \o s[x]
  BY JoinedSteps
<1> HIDE DEF J
<1>3. 0 \in good
  <2>1. J(m) = J(m) \o <<>> /\ <<>> \in Seq(elems)
    BY <1>1, ConcatEmptySeq
  <2>2. m + 0 = m
    OBVIOUS
  <2> QED
    BY <2>1, <2>2
<1>4. ASSUME NEW x \in Nat, x \in good PROVE x + 1 \in good
  <2> SUFFICES ASSUME m + (x + 1) <= n PROVE \E rest \in Seq(elems) : J(m + (x + 1)) = J(m) \o rest
    OBVIOUS
  <2> DEFINE y == m + (x + 1)
             z == m + x
  <2>1. y \in 1 .. n /\ z \in 0 .. n /\ z = y - 1
    OBVIOUS
  <2>2. PICK rest \in Seq(elems) : J(z) = J(m) \o rest
    <3>1. m + x <= n
      OBVIOUS
    <3> QED
      BY <1>4, <3>1
  <2> HIDE DEF y, z
  <2>3. J(y) = J(z) \o s[y] /\ s[y] \in Seq(elems) /\ J(m) \in Seq(elems)
    BY <1>1, <1>2, <2>1
  <2>4. J(y) = J(m) \o (rest \o s[y])
    <3> DEFINE a == J(m)
               c == s[y]
    <3>1. a \in Seq(elems) /\ c \in Seq(elems)
      BY <2>3
    <3> HIDE DEF a, c
    <3>2. (a \o rest) \o c = a \o (rest \o c)
      BY <3>1, ConcatAssociative
    <3> USE DEF a, c
    <3> QED
      BY <2>2, <2>3, <3>2
  <2>5. rest \o s[y] \in Seq(elems)
    BY <2>3
  <2> QED
    BY <2>4, <2>5 DEF y
<1> HIDE DEF good
<1>5. k - m \in good
  BY <1>3, <1>4, SetInduction
<1>6. m + (k - m) = k /\ k <= n
  OBVIOUS
<1> QED
  BY <1>5, <1>6 DEF Begins, good, J

-----------------------------------------------------------------------------
(***************************************************************************)
(* What a rank's program does to the rank alone: its table of folders, the *)
(* barriers it enters and whether its logger is silent after each call.    *)
(* These depend on the calls and on the folders that can be opened, so     *)
(* they are the same on every rank, as long as no fopen fails on one only. *)
(***************************************************************************)
\* The k-th call of program p enters a barrier, made by a rank that is as s
\* says; u are the folders that cannot be opened.
Meets(p, u, k, s) ==
    \/ p[k].op = "ordered" /\ ~s.silent
    \/ p[k].op = "open" /\ MayOpen(s.dests, p[k].folder) /\ p[k].folder \notin u
    \/ p[k].op = "close" /\ IsOpen(s.dests, p[k].folder)

\* The rank after that call.
DestsAfter(p, u, k, s) ==
    LET f == p[k].folder
    IN  IF p[k].op = "open" /\ Meets(p, u, k, s) THEN Opened(s.dests, f)
        ELSE IF p[k].op = "close" /\ Meets(p, u, k, s) THEN Closed(s.dests, f)
        ELSE IF p[k].op = "write" /\ IsOpen(s.dests, f) THEN Wrote(s.dests, f)
        ELSE s.dests

After(p, u, k, s) ==
    [dests   |-> DestsAfter(p, u, k, s),
     entered |-> IF Meets(p, u, k, s) THEN s.entered + 1 ELSE s.entered,
     silent  |-> IF p[k].op = "silence" THEN TRUE ELSE IF p[k].op = "unsilence" THEN FALSE ELSE s.silent]

Start == [dests |-> <<>>, entered |-> 0, silent |-> FALSE]

\* h[k] is a rank after the first k calls.
Records(h, p, u, n) == h = [k \in 0 .. n |-> IF k = 0 THEN Start ELSE After(p, u, k, h[k - 1])]

History(p, u) == CHOOSE h : Records(h, p, u, Len(p))

\* There is such a function.
LEMMA RecordsExist ==
    ASSUME NEW p, NEW u, NEW n \in Nat
    PROVE  \E h : Records(h, p, u, n)
<1> DEFINE good == {k \in Nat : \E h : Records(h, p, u, k)}
<1>1. 0 \in good
  <2> DEFINE h == [k \in 0 .. 0 |-> Start]
  <2>1. Records(h, p, u, 0)
    BY DEF Records
  <2> QED
    BY <2>1
<1>2. ASSUME NEW k \in Nat, k \in good PROVE k + 1 \in good
  <2>1. PICK h : Records(h, p, u, k)
    BY <1>2
  <2> DEFINE g == [m \in 0 .. k + 1 |-> IF m = k + 1 THEN After(p, u, k + 1, h[k]) ELSE h[m]]
  <2>2. ASSUME NEW m \in 0 .. k + 1 PROVE g[m] = IF m = 0 THEN Start ELSE After(p, u, m, g[m - 1])
    <3>1. CASE m = k + 1
      <4>1. g[m - 1] = h[k] /\ m # 0 /\ g[m] = After(p, u, m, h[k])
        BY <3>1
      <4> QED
        BY <4>1
    <3>2. CASE m # k + 1
      <4>1. m \in 0 .. k /\ g[m] = h[m] /\ (m # 0 => m - 1 \in 0 .. k + 1 /\ m - 1 # k + 1 /\ g[m - 1] = h[m - 1])
        BY <3>2
      <4>2. h[m] = IF m = 0 THEN Start ELSE After(p, u, m, h[m - 1])
        BY <2>1, <4>1 DEF Records
      <4> HIDE DEF g
      <4> QED
        BY <4>1, <4>2
    <3> QED
      BY <3>1, <3>2
  <2>3. g = [m \in 0 .. k + 1 |-> IF m = 0 THEN Start ELSE After(p, u, m, g[m - 1])]
    <3>1. g = [m \in 0 .. k + 1 |-> g[m]]
      OBVIOUS
    <3> HIDE DEF g
    <3> QED
      BY <2>2, <3>1
  <2>4. Records(g, p, u, k + 1)
    BY <2>3 DEF Records
  <2> HIDE DEF g
  <2> QED
    BY <2>4
<1> HIDE DEF good
<1>3. n \in good
  BY <1>1, <1>2, SetInduction
<1> QED
  BY <1>3 DEF good

\* A program that runs is a sequence of calls.
LEMMA ProgramIsSequence ==
    ASSUME program \in Programs
    PROVE  /\ program \in Seq([op : Ops, folder : Folders])
           /\ Len(program) \in Nat /\ DOMAIN program = 1 .. Len(program)
           /\ \A k \in 1 .. Len(program) : program[k].op \in Ops /\ program[k].folder \in Folders
<1> DEFINE calls == [op : Ops, folder : Folders]
<1>1. program \in Seq(calls)
  BY CollectiveAssumption
<1>2. \A c \in calls : c.op \in Ops /\ c.folder \in Folders
  OBVIOUS
<1> HIDE DEF calls
<1>3. \A k \in 1 .. Len(program) : program[k] \in calls
  BY <1>1
<1>4. Len(program) \in Nat /\ DOMAIN program = 1 .. Len(program)
  BY <1>1
<1> QED
  BY <1>1, <1>2, <1>3, <1>4 DEF calls

\* What all ranks are after k calls.
Past(k) == History(program, unopenable)[k]

\* It follows the calls one by one.
LEMMA PastSteps ==
    ASSUME program \in Programs
    PROVE  /\ Past(0) = Start
           /\ \A k \in 1 .. Len(program), m \in 0 .. Len(program) :
                 m = k - 1 => Past(k) = After(program, unopenable, k, Past(m))
<1> DEFINE h == History(program, unopenable)
<1>1. Len(program) \in Nat
  BY ProgramIsSequence
<1>2. Records(h, program, unopenable, Len(program))
  <2>1. \E g : Records(g, program, unopenable, Len(program))
    BY <1>1, RecordsExist
  <2> QED
    BY <2>1 DEF History
<1> HIDE DEF h
<1>3. \A k \in 0 .. Len(program) : h[k] = IF k = 0 THEN Start ELSE After(program, unopenable, k, h[k - 1])
  BY <1>2 DEF Records
<1>4. h[0] = Start
  BY <1>1, <1>3
<1>5. ASSUME NEW k \in 1 .. Len(program), NEW m \in 0 .. Len(program), m = k - 1
      PROVE  h[k] = After(program, unopenable, k, h[m])
  <2>1. k \in 0 .. Len(program) /\ k # 0
    BY <1>1
  <2> QED
    BY <1>3, <1>5, <2>1
<1> QED
  BY <1>4, <1>5 DEF h, Past

\* Ranks enter barriers one at a time, and their loggers are silent as Silenced says.
LEMMA PastIs ==
    ASSUME program \in Programs
    PROVE  \A k \in 0 .. Len(program) : Past(k).entered \in Nat /\ Past(k).silent = Silenced(k)
<1> DEFINE Holds(k) == Past(k).entered \in Nat /\ Past(k).silent = Silenced(k)
           good == {k \in Nat : k \in 0 .. Len(program) => Holds(k)}
<1>0. Len(program) \in Nat
  BY ProgramIsSequence
<1>1. 0 \in good
  <2>1. Past(0) = Start
    BY PastSteps
  <2>2. Silenced(0) = FALSE
    BY DEF Silenced
  <2>3. Start.entered = 0 /\ Start.silent = FALSE
    BY DEF Start
  <2>4. Past(0).entered \in Nat
    BY <2>1, <2>3
  <2>5. Past(0).silent = Silenced(0)
    BY <2>1, <2>2, <2>3, Zenon
  <2> QED
    BY <2>4, <2>5
<1>2. ASSUME NEW k \in Nat, k \in good PROVE k + 1 \in good
  <2> SUFFICES ASSUME k + 1 \in 0 .. Len(program) PROVE Holds(k + 1)
    OBVIOUS
  <2> DEFINE m == k + 1
  <2>1. m \in 1 .. Len(program) /\ k \in 0 .. Len(program) /\ k = m - 1 /\ m \in Nat
    BY <1>0
  <2>2. Holds(k)
    BY <1>2, <2>1
  <2>3. Silenced(m) = IF program[m].op = "silence" THEN TRUE
                        ELSE IF program[m].op = "unsilence" THEN FALSE ELSE Silenced(k)
    <3>1. \A j \in Int : j \in 1 .. m <=> j \in 1 .. k \/ j = m
      BY <2>1
    <3>2. \A i \in 1 .. k : \A j \in Int : j \in i + 1 .. m <=> j \in i + 1 .. k \/ j = m
      BY <2>1
    <3>3. \A j \in Int : ~(j \in m + 1 .. m)
      BY <2>1
    <3>4. CASE program[m].op = "silence"
      <4>1. Silenced(m)
        BY <2>1, <3>1, <3>3, <3>4 DEF Silenced
      <4> QED
        BY <3>4, <4>1
    <3>5. CASE program[m].op = "unsilence"
      <4>1. ASSUME NEW i \in 1 .. m, program[i].op = "silence", \A j \in i + 1 .. m : program[j].op # "unsilence"
            PROVE  FALSE
        <5>1. i # m /\ m \in i + 1 .. m
          BY <2>1, <3>5, <4>1
        <5> QED
          BY <3>5, <4>1, <5>1
      <4>2. Silenced(m) = FALSE
        BY <4>1 DEF Silenced
      <4> QED
        BY <3>5, <4>2
    <3>6. CASE program[m].op \notin {"silence", "unsilence"}
      <4>1. ASSUME Silenced(k) PROVE Silenced(m)
        <5>1. PICK i \in 1 .. k : program[i].op = "silence" /\ \A j \in i + 1 .. k : program[j].op # "unsilence"
          BY <4>1 DEF Silenced
        <5>2. i \in 1 .. m /\ \A j \in i + 1 .. m : program[j].op # "unsilence"
          BY <2>1, <3>2, <3>6, <5>1
        <5> QED
          BY <5>1, <5>2 DEF Silenced
      <4>2. ASSUME Silenced(m) PROVE Silenced(k)
        <5>1. PICK i \in 1 .. m : program[i].op = "silence" /\ \A j \in i + 1 .. m : program[j].op # "unsilence"
          BY <4>2 DEF Silenced
        <5>2. i \in 1 .. k /\ \A j \in i + 1 .. k : program[j].op # "unsilence"
          BY <2>1, <3>6, <5>1
        <5> QED
          BY <5>1, <5>2 DEF Silenced
      <4>3. Silenced(m) \in BOOLEAN /\ Silenced(k) \in BOOLEAN
        BY DEF Silenced
      <4> QED
        BY <3>6, <4>1, <4>2, <4>3
    <3> QED
      BY <3>4, <3>5, <3>6
  <2> HIDE DEF m
  <2>4. Past(m) = After(program, unopenable, m, Past(k))
    BY <2>1, PastSteps
  <2>5. Past(m).entered \in Nat
    BY <2>2, <2>4 DEF After
  <2>6. Past(m).silent = Silenced(m)
    BY <2>2, <2>3, <2>4 DEF After
  <2> QED
    BY <2>5, <2>6 DEF m
<1> HIDE DEF good
<1>3. Nat \subseteq good
  BY <1>1, <1>2, SetInduction
<1> QED
  BY <1>0, <1>3 DEF good

\* Barriers are only ever added.
LEMMA PastGrows ==
    ASSUME program \in Programs,
           NEW j \in 0 .. Len(program), NEW k \in 0 .. Len(program), j <= k
    PROVE  Past(j).entered <= Past(k).entered
<1> DEFINE E(x) == Past(x).entered
           good == {x \in Nat : j + x <= Len(program) => E(j) <= E(j + x)}
<1>0. Len(program) \in Nat /\ j \in Nat /\ k \in Nat
  BY ProgramIsSequence
<1>1. \A x \in 0 .. Len(program) : E(x) \in Nat
  BY PastIs
<1>2. ASSUME NEW x \in 1 .. Len(program), NEW y \in 0 .. Len(program), y = x - 1 PROVE E(y) <= E(x)
  <2>1. Past(x) = After(program, unopenable, x, Past(y))
    BY <1>2, PastSteps
  <2>2. E(x) = E(y) \/ E(x) = E(y) + 1
    BY <2>1 DEF After
  <2> QED
    BY <1>1, <2>2
<1> HIDE DEF E
<1>3. 0 \in good
  BY <1>0, <1>1
<1>4. ASSUME NEW x \in Nat, x \in good PROVE x + 1 \in good
  <2> SUFFICES ASSUME j + (x + 1) <= Len(program) PROVE E(j) <= E(j + (x + 1))
    OBVIOUS
  <2> DEFINE y == j + (x + 1)
             z == j + x
  <2>1. y \in 1 .. Len(program) /\ z \in 0 .. Len(program) /\ z = y - 1 /\ z <= Len(program)
    BY <1>0
  <2>2. E(j) <= E(z)
    BY <1>4, <2>1
  <2> HIDE DEF y, z
  <2>3. E(z) <= E(y)
    BY <1>2, <2>1
  <2>4. E(j) <= E(y)
    BY <1>1, <2>1, <2>2, <2>3
  <2> QED
    BY <2>4 DEF y
<1> HIDE DEF good
<1>5. k - j \in good
  BY <1>0, <1>3, <1>4, SetInduction
<1>6. j + (k - j) = k /\ k <= Len(program)
  BY <1>0
<1> QED
  BY <1>5, <1>6 DEF good, E

-----------------------------------------------------------------------------
(***************************************************************************)
(* Types, and where a rank is in its call.                                 *)
(***************************************************************************)
Cell == Nat \X Nat \X Nat
Message == Nat \cup Cell

Places == {"call", "barrier", "receive", "sent", "gather", "collect", "wait"}

RanksTyped ==
    /\ program \in Programs /\ buffers \in BOOLEAN /\ unopenable \in SUBSET Unopenable
    /\ at \in [Ranks -> Nat \ {0}]
    /\ rank_pc \in [Ranks -> Places]
    /\ rank_silent \in [Ranks -> BOOLEAN]
    /\ dests \in [Ranks -> Seq(Slot)]
    /\ file \in [Ranks -> [Folders -> Seq(Folders)]]
    /\ entered \in [Ranks -> Nat]
    /\ channel \in [Ranks -> [Tags -> Seq(Message)]]
    /\ turn \in 0 .. N
    /\ all_num_cells \in [Ranks -> Nat]
    /\ out \in Seq(Nat \X Message \X Nat)
    /\ rows \in Seq(Nat \X Message)

\* What a rank contributes to a gather is the number of its cells.
CountsAreTrue ==
    /\ \A r \in Ranks : \A i \in DOMAIN channel[r]["count"] : channel[r]["count"][i] = NumCells[r]
    /\ rank_pc[0] = "collect" => \A r \in Ranks : all_num_cells[r] = NumCells[r]

\* Rank 0, and a rank that is waiting in a call, is in the call its program says.
InPlace(r) ==
    LET op == program[at[r]].op
    IN  /\ at[r] <= Len(program) + 1
        /\ rank_pc[r] # "call" => at[r] <= Len(program)
        /\ rank_pc[r] = "barrier" => op \in {"ordered", "open", "close"}
        /\ rank_pc[r] \in {"receive", "sent"} => op = "ordered" /\ ~rank_silent[r]
        /\ rank_pc[r] \in {"gather", "collect", "wait"} => op = "dump"
        /\ rank_pc[r] \in {"receive", "collect"} => r = 0
        /\ rank_pc[r] \in {"sent", "wait"} => r # 0

AllInPlace ==
    /\ \A r \in Ranks : InPlace(r)
    /\ rank_pc[0] = "gather" => turn = 0
    /\ rank_pc[0] = "receive" => turn # 0

Basics == RanksTyped /\ CountsAreTrue /\ AllInPlace

\* Ranks are numbers, and 0 is one of them.
LEMMA RanksAre == /\ N \in Nat /\ N # 0 /\ Ranks \subseteq Nat /\ 0 \in Ranks
                  /\ \A r \in Ranks : NumCells[r] \in Nat
BY CollectiveAssumption DEF Ranks

\* At first no rank has made a call.
LEMMA InitBasics == ASSUME RankInit PROVE Basics
<1>0. 0 \in Ranks /\ Ranks \subseteq Nat /\ N \in Nat /\ N # 0
  BY RanksAre
<1>1. RanksTyped
  <2>1. \A S : <<>> \in Seq(S)
    OBVIOUS
  <2>2. [f \in Folders |-> <<>>] \in [Folders -> Seq(Folders)] /\ [tag \in Tags |-> <<>>] \in [Tags -> Seq(Message)]
    BY <2>1
  <2>3. dests \in [Ranks -> Seq(Slot)] /\ file \in [Ranks -> [Folders -> Seq(Folders)]]
    BY <2>1, <2>2 DEF RankInit
  <2>4. channel \in [Ranks -> [Tags -> Seq(Message)]]
    BY <2>2 DEF RankInit
  <2>5. program \in Programs /\ buffers \in BOOLEAN /\ unopenable \in SUBSET Unopenable
    BY DEF RankInit
  <2>6. /\ at \in [Ranks -> Nat \ {0}]
        /\ rank_pc \in [Ranks -> Places]
        /\ rank_silent \in [Ranks -> BOOLEAN]
    BY DEF RankInit, Places
  <2>7. entered \in [Ranks -> Nat] /\ turn \in 0 .. N /\ all_num_cells \in [Ranks -> Nat]
    BY <1>0 DEF RankInit
  <2>8. out \in Seq(Nat \X Message \X Nat) /\ rows \in Seq(Nat \X Message)
    BY <2>1 DEF RankInit
  <2> QED
    BY <2>3, <2>4, <2>5, <2>6, <2>7, <2>8 DEF RanksTyped
<1>2. CountsAreTrue
  BY <1>0 DEF RankInit, CountsAreTrue, Tags
<1>3. AllInPlace
  <2>1. Len(program) \in Nat
    BY <1>1, ProgramIsSequence DEF RanksTyped
  <2> QED
    BY <1>0, <2>1 DEF RankInit, AllInPlace, InPlace
<1> QED
  BY <1>1, <1>2, <1>3 DEF Basics

\* All messages are still messages when some are sent or received.
LEMMA ChannelTyped ==
    ASSUME RanksTyped, NEW r \in Ranks, NEW tag \in Tags,
           \/ \E msgs \in Seq(Message) : Send(r, tag, msgs)
           \/ \E n \in Nat : n <= Len(channel[r][tag]) /\ Receive(r, tag, n)
    PROVE  channel' \in [Ranks -> [Tags -> Seq(Message)]]
<1> DEFINE Chan == [Tags -> Seq(Message)]
<1>1. channel \in [Ranks -> Chan] /\ channel[r] \in Chan /\ channel[r][tag] \in Seq(Message)
  BY DEF RanksTyped
<1>2. \E s \in Seq(Message) : channel' = [channel EXCEPT ![r][tag] = s]
  <2>1. CASE \E msgs \in Seq(Message) : Send(r, tag, msgs)
    <3>1. PICK msgs \in Seq(Message) : Send(r, tag, msgs)
      BY <2>1
    <3>2. channel[r][tag] \o msgs \in Seq(Message)
      BY <1>1
    <3>3. channel' = [channel EXCEPT ![r][tag] = channel[r][tag] \o msgs]
      BY <3>1 DEF Send
    <3> QED
      BY <3>2, <3>3
  <2>2. CASE \E n \in Nat : n <= Len(channel[r][tag]) /\ Receive(r, tag, n)
    <3>1. PICK n \in Nat : n <= Len(channel[r][tag]) /\ Receive(r, tag, n)
      BY <2>2
    <3>2. SubSeq(channel[r][tag], n + 1, Len(channel[r][tag])) \in Seq(Message)
      <4> DEFINE s == channel[r][tag]
      <4>1. s \in Seq(Message)
        BY <1>1
      <4> HIDE DEF s
      <4>2. SubSeq(s, n + 1, Len(s)) \in Seq(Message)
        BY <4>1, SubSeqProperties
      <4> QED
        BY <4>2 DEF s
    <3>3. channel' = [channel EXCEPT ![r][tag] = SubSeq(channel[r][tag], n + 1, Len(channel[r][tag]))]
      BY <3>1 DEF Receive
    <3> QED
      BY <3>2, <3>3
  <2> QED
    BY <2>1, <2>2
<1>3. PICK s \in Seq(Message) : channel' = [channel EXCEPT ![r][tag] = s]
  BY <1>2
<1>4. [channel[r] EXCEPT ![tag] = s] \in Chan
  BY <1>1, <1>3
<1>5. channel' = [channel EXCEPT ![r] = [channel[r] EXCEPT ![tag] = s]]
  BY <1>3
<1> HIDE DEF Chan
<1>6. channel' \in [Ranks -> Chan]
  BY <1>1, <1>4, <1>5
<1> QED
  BY <1>6 DEF Chan

\* The cells of a rank are messages.
LEMMA CellsTyped ==
    ASSUME NEW r \in Ranks, NEW k \in Nat
    PROVE  Cells(r, k) \in Seq(Cell) /\ Cells(r, k) \in Seq(Message) /\ Len(Cells(r, k)) = NumCells[r]
<1>1. NumCells[r] \in Nat /\ r \in Nat
  BY RanksAre
<1>2. \A i \in 1 .. NumCells[r] : <<k, r, i>> \in Cell
  BY <1>1 DEF Cell
<1>3. Cell \subseteq Message
  BY DEF Message
<1> QED
  BY <1>1, <1>2, <1>3 DEF Cells

\* The table of folders of a rank stays one, whatever call it makes.
LEMMA SlotsTyped ==
    ASSUME NEW s \in Seq(Slot), NEW f \in Folders
    PROVE  Opened(s, f) \in Seq(Slot) /\ Closed(s, f) \in Seq(Slot) /\ Wrote(s, f) \in Seq(Slot)
<1> DEFINE k == FindDest(s, f)
           new == [folder |-> f, file |-> f, tot_wrote |-> 0, cur_wrote |-> 0]
<1>1. new \in Slot
  BY DEF Slot
<1>2. \A d \in Slot : /\ [d EXCEPT !.file = f] \in Slot /\ [d EXCEPT !.file = NoFile] \in Slot
                        /\ [[d EXCEPT !.file = f] EXCEPT !.cur_wrote = 0] \in Slot
                        /\ [[d EXCEPT !.tot_wrote = @ + 1] EXCEPT !.cur_wrote = @ + 1] \in Slot
  <2> SUFFICES ASSUME NEW d \in Slot
               PROVE  /\ [d EXCEPT !.file = f] \in Slot /\ [d EXCEPT !.file = NoFile] \in Slot
                      /\ [[d EXCEPT !.file = f] EXCEPT !.cur_wrote = 0] \in Slot
                      /\ [[d EXCEPT !.tot_wrote = @ + 1] EXCEPT !.cur_wrote = @ + 1] \in Slot
    OBVIOUS
  <2>1. [d EXCEPT !.file = f] \in Slot /\ [d EXCEPT !.file = NoFile] \in Slot
    BY DEF Slot
  <2>2. [[d EXCEPT !.file = f] EXCEPT !.cur_wrote = 0] \in Slot
    BY DEF Slot
  <2>3. \A x, y \in Nat : [[d EXCEPT !.tot_wrote = x] EXCEPT !.cur_wrote = y] \in Slot
    BY DEF Slot
  <2>4. d.tot_wrote + 1 \in Nat /\ d.cur_wrote + 1 \in Nat
    BY DEF Slot
  <2>5. [d EXCEPT !.tot_wrote = d.tot_wrote + 1].cur_wrote = d.cur_wrote
    BY DEF Slot
  <2>6. [[d EXCEPT !.tot_wrote = @ + 1] EXCEPT !.cur_wrote = @ + 1]
          = [[d EXCEPT !.tot_wrote = d.tot_wrote + 1] EXCEPT !.cur_wrote = d.cur_wrote + 1]
    BY <2>5
  <2> QED
    BY <2>1, <2>2, <2>3, <2>4, <2>6
<1>3. Append(s, new) \in Seq(Slot)
  BY <1>1
<1> HIDE DEF k, new
<1>4. Len(s) \in Nat /\ s \in [1 .. Len(s) -> Slot]
  OBVIOUS
<1>5. ASSUME NEW d \in Slot PROVE [s EXCEPT ![k] = d] \in Seq(Slot)
  <2>1. [s EXCEPT ![k] = d] \in [1 .. Len(s) -> Slot]
    BY <1>4
  <2> QED
    BY <1>4, <2>1, SeqDef
<1>6. CASE k \in 1 .. Len(s)
  <2>1. s[k] \in Slot
    BY <1>6
  <2>2. [s EXCEPT ![k].file = NoFile] \in Seq(Slot)
    BY <1>2, <1>5, <2>1
  <2>3. [s EXCEPT ![k].file = f, ![k].cur_wrote = 0] = [s EXCEPT ![k] = [[s[k] EXCEPT !.file = f] EXCEPT !.cur_wrote = 0]]
    BY <1>6
  <2>4. [s EXCEPT ![k].tot_wrote = @ + 1, ![k].cur_wrote = @ + 1]
           = [s EXCEPT ![k] = [[s[k] EXCEPT !.tot_wrote = @ + 1] EXCEPT !.cur_wrote = @ + 1]]
    BY <1>6, <2>1
  <2>5. /\ [s EXCEPT ![k].file = f, ![k].cur_wrote = 0] \in Seq(Slot)
        /\ [s EXCEPT ![k].tot_wrote = @ + 1, ![k].cur_wrote = @ + 1] \in Seq(Slot)
    BY <1>2, <1>5, <2>1, <2>3, <2>4
  <2> QED
    BY <1>3, <2>2, <2>5 DEF Opened, Closed, Wrote, k, new
<1>7. CASE k \notin 1 .. Len(s)
  <2>1. [s EXCEPT ![k].file = NoFile] = s
    BY <1>4, <1>7
  <2>2. [s EXCEPT ![k].file = f, ![k].cur_wrote = 0] = s
    BY <1>4, <1>7
  <2>3. [s EXCEPT ![k].tot_wrote = @ + 1, ![k].cur_wrote = @ + 1] = s
    BY <1>4, <1>7
  <2> QED
    BY <1>3, <2>1, <2>2, <2>3 DEF Opened, Closed, Wrote, k, new
<1> QED
  BY <1>6, <1>7

\* What a call of r may do to r's logs.
LEMMA LogsTyped ==
    ASSUME RanksTyped, NEW r \in Ranks, at[r] <= Len(program), Open(r) \/ Close(r) \/ Write(r)
    PROVE  dests' \in [Ranks -> Seq(Slot)] /\ file' \in [Ranks -> [Folders -> Seq(Folders)]]
<1> DEFINE f == Folder(r)
           Files == [Folders -> Seq(Folders)]
<1>1. f \in Folders
  <2>1. at[r] \in 1 .. Len(program)
    BY ProgramIsSequence DEF RanksTyped
  <2> QED
    BY <2>1, ProgramIsSequence DEF RanksTyped, Folder
<1>2. dests[r] \in Seq(Slot) /\ file[r] \in Files
  BY DEF RanksTyped
<1> HIDE DEF f
<1>3. Opened(dests[r], f) \in Seq(Slot) /\ Closed(dests[r], f) \in Seq(Slot) /\ Wrote(dests[r], f) \in Seq(Slot)
  BY <1>1, <1>2, SlotsTyped
<1>4. ASSUME NEW g PROVE [file[r] EXCEPT ![g] = Append(@, f)] \in Files /\ [file[r] EXCEPT ![g] = <<>>] \in Files
  <2>1. \A h \in Folders : file[r][h] \in Seq(Folders) /\ Append(file[r][h], f) \in Seq(Folders)
    BY <1>1, <1>2
  <2>2. CASE g \in Folders
    BY <1>2, <2>1, <2>2
  <2>3. CASE g \notin Folders
    <3>1. [file[r] EXCEPT ![g] = Append(@, f)] = file[r] /\ [file[r] EXCEPT ![g] = <<>>] = file[r]
      BY <1>2, <2>3
    <3> QED
      BY <1>2, <3>1
  <2> QED
    BY <2>2, <2>3
<1>0. file \in [Ranks -> Files] /\ dests \in [Ranks -> Seq(Slot)]
  BY DEF RanksTyped
<1> HIDE DEF Files
<1>5. CASE Open(r)
  <2>1. dests' = [dests EXCEPT ![r] = Opened(dests[r], f)]
    BY <1>5 DEF Open, f
  <2>2. file' = file \/ file' = [file EXCEPT ![r] = [file[r] EXCEPT ![f] = <<>>]]
    <3>1. file' = [file EXCEPT ![r][f] = IF Truncates(dests[r], f) THEN <<>> ELSE @]
      BY <1>5 DEF Open, f
    <3>2. CASE Truncates(dests[r], f)
      BY <3>1, <3>2
    <3>3. CASE ~Truncates(dests[r], f)
      <4>1. file' = [file EXCEPT ![r][f] = @]
        BY <3>1, <3>3
      <4> QED
        BY <1>2, <4>1 DEF RanksTyped, Files
    <3> QED
      BY <3>2, <3>3
  <2>3. dests' \in [Ranks -> Seq(Slot)]
    BY <1>0, <1>3, <2>1
  <2>4. file' \in [Ranks -> Files]
    <3>1. [file[r] EXCEPT ![f] = <<>>] \in Files
      BY <1>4
    <3> QED
      BY <1>0, <2>2, <3>1
  <2> QED
    BY <2>3, <2>4 DEF Files
<1>6. CASE Close(r)
  <2>1. dests' = [dests EXCEPT ![r] = Closed(dests[r], f)] /\ file' = file
    BY <1>6 DEF Close, f
  <2> QED
    BY <1>0, <1>3, <2>1 DEF Files
<1>7. CASE Write(r)
  <2>1. CASE IsOpen(dests[r], f)
    <3>1. /\ dests' = [dests EXCEPT ![r] = Wrote(dests[r], f)]
          /\ file' = [file EXCEPT ![r][FileOf(dests[r], f)] = Append(@, f)]
      BY <1>7, <2>1 DEF Write, f
    <3>2. file' = [file EXCEPT ![r] = [file[r] EXCEPT ![FileOf(dests[r], f)] = Append(@, f)]]
      BY <3>1
    <3> QED
      BY <1>0, <1>3, <1>4, <3>1, <3>2 DEF Files
  <2>2. CASE ~IsOpen(dests[r], f)
    <3>1. dests' = dests /\ file' = file
      BY <1>7, <2>2 DEF Write, f, logs
    <3> QED
      BY <3>1 DEF RanksTyped
  <2> QED
    BY <2>1, <2>2
<1> QED
  BY <1>5, <1>6, <1>7

\* Every step keeps the types.
LEMMA NextTyped == ASSUME Basics, [RankNext]_rank_vars PROVE RanksTyped'
<1> DEFINE Chan == [Ranks -> [Tags -> Seq(Message)]]
<1>0. RanksTyped /\ CountsAreTrue /\ AllInPlace
  BY DEF Basics
<1>1. N \in Nat /\ N # 0 /\ 0 \in Ranks /\ Ranks \subseteq Nat
  BY RanksAre
<1>2. \A r \in Ranks : at[r] \in Nat \ {0} /\ at[r] + 1 \in Nat \ {0}
  BY <1>0 DEF RanksTyped
<1>3. \A r \in Ranks : \A op : Calls(r, op) => at[r] <= Len(program)
  BY DEF Calls
<1> DEFINE Moved == at' \in [Ranks -> Nat \ {0}] /\ rank_pc' \in [Ranks -> Places]
<1>4. ASSUME NEW r \in Ranks
      PROVE  /\ \A step \in Places : RankGoto(r, step) => Moved
             /\ RankReturn(r) => Moved
             /\ EnterBarrier(r) => Moved /\ entered' \in [Ranks -> Nat]
  <2>1. /\ \A step \in Places : [rank_pc EXCEPT ![r] = step] \in [Ranks -> Places]
        /\ [at EXCEPT ![r] = @ + 1] \in [Ranks -> Nat \ {0}]
        /\ [entered EXCEPT ![r] = @ + 1] \in [Ranks -> Nat]
    BY <1>0, <1>2 DEF RanksTyped
  <2>2. "call" \in Places /\ "barrier" \in Places
    BY DEF Places
  <2>3. \A step \in Places : RankGoto(r, step) => Moved
    BY <1>0, <2>1 DEF RankGoto, RanksTyped
  <2>4. RankReturn(r) => Moved
    BY <2>1, <2>2 DEF RankReturn
  <2>5. EnterBarrier(r) => Moved /\ entered' \in [Ranks -> Nat]
    BY <2>1, <2>2, <2>3 DEF EnterBarrier
  <2> QED
    BY <2>3, <2>4, <2>5
<1> USE DEF config, logs, mpi, root, Places
<1>5. ASSUME NEW r \in Ranks, Step(r) PROVE RanksTyped'
  <2>1. CASE SetSilent(r)
    <3>1. rank_silent' \in [Ranks -> BOOLEAN]
      BY <1>0, <2>1 DEF SetSilent, RanksTyped
    <3> QED
      BY <1>0, <1>4, <2>1, <3>1 DEF RanksTyped, SetSilent
  <2>2. CASE OrderedSilent(r) \/ OpenRefused(r) \/ CloseRefused(r) \/ LeaveBarrier(r) \/ DumpSent(r)
    BY <1>0, <1>4, <2>2 DEF RanksTyped, OrderedSilent, OpenRefused, CloseRefused, LeaveBarrier, DumpSent
  <2>3. CASE OrderedSend(r)
    <3>1. <<at[r]>> \in Seq(Message)
      BY <1>2 DEF Message
    <3>2. channel' \in Chan
      BY <1>0, <2>3, <3>1, ChannelTyped DEF OrderedSend, Tags
    <3> QED
      BY <1>0, <1>4, <2>3, <3>2 DEF RanksTyped, OrderedSend
  <2>4. CASE OrderedSent(r)
    BY <1>0, <1>4, <2>4 DEF RanksTyped, OrderedSent
  <2>5. CASE Open(r)
    <3>1. dests' \in [Ranks -> Seq(Slot)] /\ file' \in [Ranks -> [Folders -> Seq(Folders)]]
      <4>1. at[r] <= Len(program)
        BY <1>3, <2>5 DEF Open
      <4> QED
        BY <1>0, <2>5, <4>1, LogsTyped
    <3> QED
      BY <1>0, <1>4, <2>5, <3>1 DEF RanksTyped, Open
  <2>6. CASE Close(r)
    <3>1. dests' \in [Ranks -> Seq(Slot)] /\ file' \in [Ranks -> [Folders -> Seq(Folders)]]
      <4>1. at[r] <= Len(program)
        BY <1>3, <2>6 DEF Close
      <4> QED
        BY <1>0, <2>6, <4>1, LogsTyped
    <3> QED
      BY <1>0, <1>4, <2>6, <3>1 DEF RanksTyped, Close
  <2>7. CASE Write(r)
    <3>1. dests' \in [Ranks -> Seq(Slot)] /\ file' \in [Ranks -> [Folders -> Seq(Folders)]]
      <4>1. at[r] <= Len(program)
        BY <1>3, <2>7 DEF Write
      <4> QED
        BY <1>0, <2>7, <4>1, LogsTyped
    <3> QED
      BY <1>0, <1>4, <2>7, <3>1 DEF RanksTyped, Write
  <2>8. CASE DumpCount(r)
    <3>1. <<NumCells[r]>> \in Seq(Message)
      BY RanksAre DEF Message
    <3>2. channel' \in Chan
      BY <1>0, <2>8, <3>1, ChannelTyped DEF DumpCount, Tags
    <3> QED
      BY <1>0, <1>4, <2>8, <3>2 DEF RanksTyped, DumpCount
  <2>9. CASE DumpSend(r)
    <3>1. Cells(r, at[r]) \in Seq(Message)
      BY <1>2, CellsTyped
    <3>2. channel' \in Chan
      BY <1>0, <2>9, <3>1, ChannelTyped DEF DumpSend, Tags
    <3> QED
      BY <1>0, <1>4, <2>9, <3>2 DEF RanksTyped, DumpSend
  <2> QED
    BY <1>5, <2>1, <2>2, <2>3, <2>4, <2>5, <2>6, <2>7, <2>8, <2>9 DEF Step
<1>6. CASE OrderedRoot
  <2>1. out' \in Seq(Nat \X Message \X Nat)
    BY <1>0, <1>1, <1>2, <1>6 DEF OrderedRoot, RanksTyped, Message
  <2>2. turn' \in 0 .. N
    BY <1>1, <1>6 DEF OrderedRoot
  <2> QED
    BY <1>1, <1>0, <1>4, <1>6, <2>1, <2>2 DEF RanksTyped, OrderedRoot
<1>7. CASE OrderedReceive
  <2>0. turn \in Ranks /\ turn \in Nat /\ turn + 1 \in 0 .. N
    BY <1>0, <1>1, <1>7 DEF OrderedReceive, RanksTyped, Ranks
  <2>1. channel[turn]["log"] \in Seq(Message) /\ channel[turn]["log"] # <<>>
    BY <1>0, <1>7, <2>0 DEF OrderedReceive, RanksTyped, Tags
  <2>2. Head(channel[turn]["log"]) \in Message /\ 1 <= Len(channel[turn]["log"])
    BY <2>1
  <2>3. out' \in Seq(Nat \X Message \X Nat)
    <3>1. <<at[0], Head(channel[turn]["log"]), turn>> \in Nat \X Message \X Nat
      BY <1>1, <1>2, <2>0, <2>2
    <3> QED
      BY <1>0, <1>7, <3>1 DEF OrderedReceive, RanksTyped
  <2>4. channel' \in Chan
    BY <1>0, <1>7, <2>0, <2>2, ChannelTyped DEF OrderedReceive, Tags
  <2>5. turn' \in 0 .. N
    BY <1>7, <2>0 DEF OrderedReceive
  <2> QED
    BY <1>0, <1>7, <2>3, <2>4, <2>5 DEF OrderedReceive, RanksTyped
<1>8. CASE OrderedRootEnds
  BY <1>1, <1>0, <1>4, <1>8 DEF RanksTyped, OrderedRootEnds
<1>9. CASE DumpRoot
  <2>1. turn' = turn \/ turn' = 0
    BY <1>9 DEF DumpRoot
  <2>2. turn' \in 0 .. N
    BY <1>0, <1>1, <2>1 DEF RanksTyped
  <2>3. CASE RankReturn(0)
    BY <1>1, <1>0, <1>4, <1>9, <2>2, <2>3 DEF RanksTyped, DumpRoot
  <2>4. CASE RankGoto(0, "gather")
    BY <1>1, <1>0, <1>4, <1>9, <2>2, <2>4 DEF RanksTyped, DumpRoot
  <2> QED
    BY <1>9, <2>3, <2>4 DEF DumpRoot
<1>10. CASE DumpGather
  <2>1. ASSUME NEW q \in Ranks \ {0} PROVE Head(channel[q]["count"]) = NumCells[q] /\ Tail(channel[q]["count"]) \in Seq(Message)
    <3>1. channel[q]["count"] \in Seq(Message) /\ channel[q]["count"] # <<>>
      BY <1>0, <1>10 DEF DumpGather, RanksTyped, Tags
    <3>2. 1 \in DOMAIN channel[q]["count"] /\ Head(channel[q]["count"]) = channel[q]["count"][1]
      BY <3>1
    <3> QED
      BY <1>0, <3>1, <3>2 DEF CountsAreTrue
  <2>2. all_num_cells' \in [Ranks -> Nat]
    BY <1>1, <1>10, <2>1, RanksAre DEF DumpGather
  <2>3. channel' \in Chan
    <3>1. \A q \in Ranks : channel[q] \in [Tags -> Seq(Message)]
      BY <1>0 DEF RanksTyped
    <3>2. \A q \in Ranks \ {0} : [channel[q] EXCEPT !["count"] = Tail(@)] \in [Tags -> Seq(Message)]
      BY <2>1, <3>1 DEF Tags
    <3> QED
      BY <1>10, <3>1, <3>2 DEF DumpGather
  <2> QED
    BY <1>1, <1>0, <1>4, <1>10, <2>2, <2>3 DEF RanksTyped, DumpGather
<1>11. CASE DumpCollect
  <2> DEFINE n == all_num_cells[turn]
             cells == IF turn = 0 THEN Cells(0, at[0]) ELSE SubSeq(channel[turn]["cell"], 1, n)
  <2>0. turn \in Ranks /\ turn \in Nat /\ turn + 1 \in 0 .. N
    BY <1>0, <1>1, <1>11 DEF DumpCollect, RanksTyped, Ranks
  <2>1. n \in Nat /\ n = NumCells[turn]
    BY <1>0, <1>11, <2>0, RanksAre DEF DumpCollect, CountsAreTrue
  <2>2. turn # 0 => n <= Len(channel[turn]["cell"]) /\ channel[turn]["cell"] \in Seq(Message)
    <3>1. turn # 0 => Len(channel[turn]["cell"]) >= n
      BY <1>11 DEF DumpCollect
    <3>2. channel[turn]["cell"] \in Seq(Message)
      BY <1>0, <2>0 DEF RanksTyped, Tags
    <3>3. Len(channel[turn]["cell"]) \in Nat
      BY <3>2
    <3> HIDE DEF n
    <3> QED
      BY <2>1, <3>1, <3>2, <3>3
  <2>3. cells \in Seq(Message) /\ Len(cells) = n
    <3>1. CASE turn = 0
      <4>1. Cells(0, at[0]) \in Seq(Message) /\ Len(Cells(0, at[0])) = NumCells[0]
        BY <1>1, <1>2, CellsTyped
      <4> QED
        BY <2>1, <3>1, <4>1
    <3>2. CASE turn # 0
      <4> DEFINE s == channel[turn]["cell"]
      <4>1. s \in Seq(Message) /\ n <= Len(s)
        BY <2>2, <3>2
      <4> HIDE DEF s, n
      <4>2. SubSeq(s, 1, n) \in Seq(Message) /\ Len(SubSeq(s, 1, n)) = n
        BY <2>1, <4>1
      <4> QED
        BY <3>2, <4>2 DEF s
    <3> QED
      BY <3>1, <3>2
  <2>4. rows' = rows \o [i \in 1 .. n |-> <<at[0], cells[i]>>]
    BY <1>11 DEF DumpCollect
  <2>5. channel' \in Chan
    <3>1. CASE turn = 0
      BY <1>0, <1>11, <3>1 DEF DumpCollect, RanksTyped
    <3>2. CASE turn # 0
      <4>1. Receive(turn, "cell", n)
        BY <1>11, <3>2 DEF DumpCollect
      <4>2. "cell" \in Tags
        BY DEF Tags
      <4> QED
        BY <1>0, <2>0, <2>1, <2>2, <3>2, <4>1, <4>2, ChannelTyped
    <3> QED
      BY <3>1, <3>2
  <2> HIDE DEF cells, n
  <2>6. rows' \in Seq(Nat \X Message)
    <3>1. \A i \in 1 .. n : <<at[0], cells[i]>> \in Nat \X Message
      BY <1>1, <1>2, <2>1, <2>3
    <3>2. [i \in 1 .. n |-> <<at[0], cells[i]>>] \in Seq(Nat \X Message)
      BY <2>1, <3>1
    <3> QED
      BY <1>0, <2>4, <3>2 DEF RanksTyped
  <2>7. turn' \in 0 .. N
    BY <1>11, <2>0 DEF DumpCollect
  <2> QED
    BY <1>0, <1>11, <2>5, <2>6, <2>7 DEF DumpCollect, config, RanksTyped
<1>12. CASE DumpRootEnds
  BY <1>1, <1>0, <1>4, <1>12 DEF RanksTyped, DumpRootEnds
<1>13. CASE UNCHANGED rank_vars
  BY <1>0, <1>13 DEF RanksTyped, rank_vars
<1> QED
  BY <1>5, <1>6, <1>7, <1>8, <1>9, <1>10, <1>11, <1>12, <1>13 DEF RankNext, Root, Finish

\* What Send and Receive leave of the messages, and of those of other ranks and tags.
LEMMA ChannelAfter ==
    ASSUME RanksTyped, NEW r \in Ranks, NEW tag \in Tags, NEW q \in Ranks, NEW other \in Tags
    PROVE  /\ \A msgs : Send(r, tag, msgs) => channel'[q][other] = IF q = r /\ other = tag THEN channel[r][tag] \o msgs
                                                                     ELSE channel[q][other]
           /\ \A n : Receive(r, tag, n) =>
                 channel'[q][other] = IF q = r /\ other = tag THEN SubSeq(channel[r][tag], n + 1, Len(channel[r][tag]))
                                      ELSE channel[q][other]
<1>1. channel \in [Ranks -> [Tags -> Seq(Message)]]
  BY DEF RanksTyped
<1>2. \A s : [channel EXCEPT ![r][tag] = s][q][other] = IF q = r /\ other = tag THEN s ELSE channel[q][other]
  BY <1>1
<1>3. ASSUME NEW msgs, Send(r, tag, msgs)
      PROVE  channel'[q][other] = IF q = r /\ other = tag THEN channel[r][tag] \o msgs ELSE channel[q][other]
  <2>1. channel' = [channel EXCEPT ![r][tag] = channel[r][tag] \o msgs]
    BY <1>3 DEF Send
  <2> QED
    BY <1>2, <2>1
<1>4. ASSUME NEW n, Receive(r, tag, n)
      PROVE  channel'[q][other] = IF q = r /\ other = tag THEN SubSeq(channel[r][tag], n + 1, Len(channel[r][tag]))
                                  ELSE channel[q][other]
  <2>1. channel' = [channel EXCEPT ![r][tag] = SubSeq(channel[r][tag], n + 1, Len(channel[r][tag]))]
    BY <1>4 DEF Receive
  <2> QED
    BY <1>2, <2>1
<1> QED
  BY <1>3, <1>4

\* The gather takes one count of every rank but 0, and nothing else.
LEMMA ChannelGathered ==
    ASSUME RanksTyped, DumpGather, NEW q \in Ranks, NEW other \in Tags
    PROVE  channel'[q][other] = IF q # 0 /\ other = "count" THEN Tail(channel[q]["count"]) ELSE channel[q][other]
<1>1. channel[q] \in [Tags -> Seq(Message)]
  BY DEF RanksTyped
<1>2. channel'[q] = IF q = 0 THEN channel[0] ELSE [channel[q] EXCEPT !["count"] = Tail(@)]
  BY DEF DumpGather
<1> QED
  BY <1>1, <1>2

\* Every step keeps the counts true.
LEMMA NextCounts == ASSUME Basics, [RankNext]_rank_vars PROVE CountsAreTrue'
<1>0. RanksTyped /\ CountsAreTrue
  BY DEF Basics
<1>1. 0 \in Ranks /\ "log" \in Tags /\ "count" \in Tags /\ "cell" \in Tags
  BY RanksAre DEF Tags
<1> DEFINE True(s, r) == \A i \in DOMAIN s : s[i] = NumCells[r]
           TrueCounts == \A r \in Ranks : True(channel[r]["count"], r)
<1>2. TrueCounts /\ \A r \in Ranks : channel[r]["count"] \in Seq(Message)
  BY <1>0, <1>1 DEF CountsAreTrue, RanksTyped
<1>3. ASSUME \A r \in Ranks : channel'[r]["count"] = channel[r]["count"] PROVE TrueCounts'
  BY <1>2, <1>3
<1>4. ASSUME NEW r \in Ranks, NEW tag \in {"log", "cell"},
             (\E msgs : Send(r, tag, msgs)) \/ (\E n : Receive(r, tag, n))
      PROVE  TrueCounts'
  <2>1. tag \in Tags /\ tag # "count"
    BY <1>1
  <2>2. \A q \in Ranks : channel'[q]["count"] = channel[q]["count"]
    BY <1>0, <1>1, <1>4, <2>1, ChannelAfter
  <2> QED
    BY <1>3, <2>2
<1>5. ASSUME UNCHANGED channel PROVE TrueCounts'
  BY <1>2, <1>5
<1>6. ASSUME NEW s \in Seq(Message), NEW r \in Ranks, True(s, r)
      PROVE  True(s \o <<NumCells[r]>>, r) /\ (s # <<>> => True(Tail(s), r))
  <2>1. NumCells[r] \in Message
    BY RanksAre DEF Message
  <2>2. True(s \o <<NumCells[r]>>, r)
    BY <1>6, <2>1
  <2>3. ASSUME s # <<>> PROVE True(Tail(s), r)
    <3>1. \A i \in DOMAIN Tail(s) : i + 1 \in DOMAIN s /\ Tail(s)[i] = s[i + 1]
      BY <2>3
    <3> QED
      BY <1>6, <3>1
  <2> QED
    BY <2>2, <2>3
<1> HIDE DEF True
<1>7. ASSUME NEW r \in Ranks, Step(r) PROVE TrueCounts'
  <2>1. CASE DumpCount(r)
    <3>1. \A q \in Ranks : channel'[q]["count"] = IF q = r THEN channel[r]["count"] \o <<NumCells[r]>>
                                                    ELSE channel[q]["count"]
      <4>1. Send(r, "count", <<NumCells[r]>>)
        BY <2>1 DEF DumpCount
      <4> QED
        BY <1>0, <1>1, <4>1, ChannelAfter
    <3> QED
      BY <1>2, <1>6, <3>1
  <2>2. CASE OrderedSend(r) \/ DumpSend(r)
    <3>1. (\E msgs : Send(r, "log", msgs)) \/ (\E msgs : Send(r, "cell", msgs))
      BY <2>2 DEF OrderedSend, DumpSend
    <3> QED
      BY <1>4, <3>1
  <2>3. CASE ~(DumpCount(r) \/ OrderedSend(r) \/ DumpSend(r))
    <3>1. UNCHANGED channel
      BY <1>7, <2>3 DEF Step, SetSilent, OrderedSilent, OrderedSent, OpenRefused, Open, CloseRefused,
                        Close, Write, DumpSent, LeaveBarrier, mpi
    <3> QED
      BY <1>5, <3>1
  <2> QED
    BY <2>1, <2>2, <2>3
<1>8. ASSUME Root \/ UNCHANGED rank_vars PROVE TrueCounts'
  <2>1. CASE DumpGather
    <3>1. \A q \in Ranks : channel'[q]["count"] = IF q # 0 THEN Tail(channel[q]["count"]) ELSE channel[q]["count"]
      BY <1>0, <1>1, <2>1, ChannelGathered
    <3>2. \A q \in Ranks \ {0} : channel[q]["count"] # <<>>
      BY <2>1 DEF DumpGather
    <3> QED
      BY <1>2, <1>6, <3>1, <3>2
  <2>2. CASE OrderedReceive \/ DumpCollect
    <3>1. turn \in Ranks
      BY <1>0, <2>2, RanksAre DEF OrderedReceive, DumpCollect, RanksTyped, Ranks
    <3>2. Receive(turn, "log", 1) \/ (\E n : Receive(turn, "cell", n)) \/ UNCHANGED channel
      BY <2>2 DEF OrderedReceive, DumpCollect
    <3> QED
      BY <1>4, <1>5, <3>1, <3>2
  <2>3. CASE ~(DumpGather \/ OrderedReceive \/ DumpCollect)
    <3>1. UNCHANGED channel
      BY <1>8, <2>3 DEF Root, OrderedRoot, OrderedRootEnds, DumpRoot, DumpRootEnds, rank_vars, mpi
    <3> QED
      BY <1>5, <3>1
  <2> QED
    BY <2>1, <2>2, <2>3
<1>9. TrueCounts'
  BY <1>7, <1>8 DEF RankNext, Finish
<1>10. ASSUME rank_pc'[0] = "collect" PROVE \A r \in Ranks : all_num_cells'[r] = NumCells[r]
  <2>0. rank_pc \in [Ranks -> Places]
    BY <1>0 DEF RanksTyped
  <2>1. CASE DumpGather
    <3>1. \A q \in Ranks \ {0} : Head(channel[q]["count"]) = NumCells[q]
      <4>1. ASSUME NEW q \in Ranks \ {0} PROVE Head(channel[q]["count"]) = NumCells[q]
        <5> DEFINE s == channel[q]["count"]
        <5>1. s \in Seq(Message) /\ s # <<>> /\ True(s, q)
          BY <1>2, <2>1 DEF DumpGather
        <5> HIDE DEF s
        <5>2. 1 \in DOMAIN s /\ Head(s) = s[1]
          BY <5>1
        <5> QED
          BY <5>1, <5>2 DEF s, True
      <4> QED
        BY <4>1
    <3> QED
      BY <1>1, <2>1, <3>1 DEF DumpGather
  <2>2. CASE ~DumpGather
    <3>1. rank_pc[0] = "collect" /\ UNCHANGED all_num_cells
      <4>1. CASE \E r \in Ranks : Step(r)
        <5> USE DEF Step, RankGoto, RankReturn, EnterBarrier, root
        <5>1. PICK r \in Ranks : Step(r)
          BY <4>1
        <5>2. \E step \in Places \ {"collect"} : rank_pc' = [rank_pc EXCEPT ![r] = step] /\ UNCHANGED all_num_cells
          BY <5>1 DEF DumpCount, OrderedSend, DumpSend, SetSilent, OrderedSilent, OrderedSent, OpenRefused,
                      Open, CloseRefused, Close, Write, DumpSent, LeaveBarrier, Places
        <5> QED
          BY <1>1, <1>10, <2>0, <5>2
      <4>2. CASE Root
        <5> USE DEF RankGoto, RankReturn, EnterBarrier, root
        <5> QED
          BY <1>1, <1>10, <2>0, <2>2, <4>2 DEF Root, OrderedRoot, OrderedReceive, OrderedRootEnds, DumpRoot,
                      DumpCollect, DumpRootEnds
      <4>3. CASE UNCHANGED rank_vars
        BY <1>10, <4>3 DEF rank_vars, root
      <4> QED
        BY <4>1, <4>2, <4>3 DEF RankNext, Finish
    <3> QED
      BY <1>0, <3>1 DEF CountsAreTrue
  <2> QED
    BY <2>1, <2>2
<1> QED
  BY <1>9, <1>10 DEF CountsAreTrue, True

\* The step of a rank; only rank 0 takes those of Root.
StepOf(r) == Step(r) \/ (r = 0 /\ Root)

\* What Return, Goto and EnterBarrier do to the rank that takes them and to the others.
LEMMA Movement ==
    ASSUME RanksTyped, NEW r \in Ranks
    PROVE  /\ RankReturn(r) => /\ at'[r] = at[r] + 1 /\ rank_pc'[r] = "call"
                             /\ \A q \in Ranks : q # r => at'[q] = at[q] /\ rank_pc'[q] = rank_pc[q]
           /\ \A step : RankGoto(r, step) =>
                             /\ at'[r] = at[r] /\ rank_pc'[r] = step
                             /\ \A q \in Ranks : q # r => at'[q] = at[q] /\ rank_pc'[q] = rank_pc[q]
           /\ EnterBarrier(r) =>
                             /\ at'[r] = at[r] /\ rank_pc'[r] = "barrier" /\ entered'[r] = entered[r] + 1
                             /\ \A q \in Ranks : q # r => at'[q] = at[q] /\ rank_pc'[q] = rank_pc[q] /\ entered'[q] = entered[q]
<1>1. RankReturn(r) => /\ at'[r] = at[r] + 1 /\ rank_pc'[r] = "call"
                     /\ \A q \in Ranks : q # r => at'[q] = at[q] /\ rank_pc'[q] = rank_pc[q]
  BY DEF RankReturn, RanksTyped
<1>2. ASSUME NEW step, RankGoto(r, step)
      PROVE  /\ at'[r] = at[r] /\ rank_pc'[r] = step
             /\ \A q \in Ranks : q # r => at'[q] = at[q] /\ rank_pc'[q] = rank_pc[q]
  BY <1>2 DEF RankGoto, RanksTyped
<1>3. EnterBarrier(r) => RankGoto(r, "barrier") /\ entered' = [entered EXCEPT ![r] = @ + 1]
  BY DEF EnterBarrier
<1> QED
  BY <1>1, <1>2, <1>3 DEF RanksTyped

\* It leaves the other ranks as they are.
LEMMA StepIsLocal ==
    ASSUME RanksTyped, NEW r \in Ranks, StepOf(r), NEW q \in Ranks, q # r
    PROVE  /\ at'[q] = at[q] /\ rank_pc'[q] = rank_pc[q] /\ rank_silent'[q] = rank_silent[q]
           /\ dests'[q] = dests[q] /\ file'[q] = file[q] /\ entered'[q] = entered[q]
<1> USE Movement DEF config, logs, mpi, root
<1>0. /\ \A b : [rank_silent EXCEPT ![r] = b][q] = rank_silent[q]
      /\ \A d : [dests EXCEPT ![r] = d][q] = dests[q]
      /\ \A f, lines : [file EXCEPT ![r][f] = lines][q] = file[q]
  BY DEF RanksTyped
<1>1. CASE SetSilent(r)
  BY <1>0, <1>1 DEF SetSilent
<1>2. CASE OrderedSilent(r) \/ LeaveBarrier(r)
  BY <1>0, <1>2 DEF OrderedSilent, LeaveBarrier
<1>3. CASE OrderedSend(r) \/ OrderedSent(r)
  BY <1>0, <1>3 DEF OrderedSend, OrderedSent
<1>4. CASE OpenRefused(r) \/ CloseRefused(r)
  BY <1>0, <1>4 DEF OpenRefused, CloseRefused
<1>5. CASE Close(r)
  BY <1>0, <1>5 DEF Close
<1>6. CASE DumpCount(r) \/ DumpSend(r) \/ DumpSent(r)
  BY <1>0, <1>6 DEF DumpCount, DumpSend, DumpSent
<1>7. CASE Open(r)
  BY <1>0, <1>7 DEF Open
<1>8. CASE Write(r)
  <2>1. RankReturn(r) /\ UNCHANGED <<rank_silent, entered>>
    BY <1>8 DEF Write
  <2>2. dests'[q] = dests[q] /\ file'[q] = file[q]
    <3>1. CASE IsOpen(dests[r], Folder(r))
      <4>1. /\ dests' = [dests EXCEPT ![r] = Wrote(@, Folder(r))]
            /\ file' = [file EXCEPT ![r][FileOf(dests[r], Folder(r))] = Append(@, Folder(r))]
        BY <1>8, <3>1 DEF Write
      <4> QED
        BY <1>0, <4>1
    <3>2. CASE ~IsOpen(dests[r], Folder(r))
      BY <1>8, <3>2 DEF Write
    <3> QED
      BY <3>1, <3>2
  <2> QED
    BY <2>1, <2>2
<1>9. CASE r = 0 /\ (OrderedRoot \/ OrderedReceive \/ OrderedRootEnds)
  BY <1>0, <1>9 DEF OrderedRoot, OrderedReceive, OrderedRootEnds
<1>10. CASE r = 0 /\ (DumpRoot \/ DumpGather \/ DumpCollect \/ DumpRootEnds)
  BY <1>0, <1>10 DEF DumpRoot, DumpGather, DumpCollect, DumpRootEnds
<1> QED
  BY <1>1, <1>2, <1>3, <1>4, <1>5, <1>6, <1>7, <1>8, <1>9, <1>10 DEF StepOf, Step, Root

\* It leaves the program as it is, and so what ranks are after each call.
LEMMA ProgramStays ==
    ASSUME RankNext \/ UNCHANGED rank_vars
    PROVE  program' = program /\ unopenable' = unopenable /\ buffers' = buffers
<1> QED
  BY DEF RankNext, Step, Root, Finish, config, rank_vars,
         SetSilent, OrderedSilent, OrderedSend, OrderedSent, LeaveBarrier,
         OpenRefused, CloseRefused, Open, Close, Write, DumpCount, DumpSend, DumpSent,
         OrderedRoot, OrderedReceive, OrderedRootEnds, DumpRoot, DumpGather, DumpCollect, DumpRootEnds

\* A rank is where its program says after its own steps too.
LEMMA StepInPlace ==
    ASSUME Basics, NEW r \in Ranks, StepOf(r)
    PROVE  InPlace(r)'
<1> USE Movement DEF Calls
<1>0. RanksTyped /\ at[r] \in Nat /\ Len(program) \in Nat /\ program' = program /\ InPlace(r)
  BY ProgramStays, ProgramIsSequence DEF Basics, RanksTyped, AllInPlace, StepOf, RankNext
<1> DEFINE Silence == rank_silent'[r] = rank_silent[r]
           Advances == at'[r] = at[r] + 1 /\ rank_pc'[r] = "call" /\ at[r] <= Len(program)
           Stays(step) == at'[r] = at[r] /\ rank_pc'[r] = step /\ Silence
<1>1. ASSUME Advances PROVE InPlace(r)'
  BY <1>0, <1>1 DEF InPlace
<1>2. CASE SetSilent(r) \/ OrderedSilent(r)
  <2> USE <1>0, <1>2 DEF SetSilent, OrderedSilent
  <2>1. Advances
    OBVIOUS
  <2> QED
    BY <1>1, <2>1
<1>3. CASE LeaveBarrier(r)
  <2> USE <1>0, <1>3 DEF LeaveBarrier
  <2>1. Advances
    BY DEF InPlace
  <2> QED
    BY <1>1, <2>1
<1>4. CASE OpenRefused(r) \/ CloseRefused(r) \/ Write(r)
  <2> USE <1>0, <1>4 DEF OpenRefused, CloseRefused, Write
  <2>1. Advances
    OBVIOUS
  <2> QED
    BY <1>1, <2>1
<1>5. CASE Open(r) \/ Close(r)
  <2> USE <1>0, <1>5 DEF Open, Close
  <2>1. Stays("barrier") /\ at[r] <= Len(program) /\ program[at[r]].op \in {"open", "close"}
    OBVIOUS
  <2> QED
    BY <2>1 DEF InPlace
<1>6. CASE OrderedSend(r)
  <2> USE <1>0, <1>6 DEF OrderedSend
  <2>1. Stays("sent") /\ at[r] <= Len(program) /\ program[at[r]].op = "ordered" /\ ~rank_silent[r] /\ r # 0
    OBVIOUS
  <2> QED
    BY <2>1 DEF InPlace
<1>7. CASE OrderedSent(r)
  <2> USE <1>0, <1>7 DEF OrderedSent
  <2>1. Stays("barrier") /\ rank_pc[r] = "sent"
    BY DEF root
  <2> QED
    BY <2>1 DEF InPlace
<1>8. CASE DumpCount(r)
  <2> USE <1>0, <1>8 DEF DumpCount
  <2>1. Stays("gather") /\ at[r] <= Len(program) /\ program[at[r]].op = "dump"
    OBVIOUS
  <2> QED
    BY <2>1 DEF InPlace
<1>9. CASE DumpSend(r)
  <2> USE <1>0, <1>9 DEF DumpSend
  <2>1. Stays("wait") /\ rank_pc[r] = "gather" /\ r # 0
    OBVIOUS
  <2> QED
    BY <2>1 DEF InPlace
<1>10. CASE DumpSent(r)
  <2> USE <1>0, <1>10 DEF DumpSent
  <2>1. Advances
    BY DEF InPlace
  <2> QED
    BY <1>1, <2>1
<1>11. CASE r = 0 /\ OrderedRoot
  <2> USE <1>0, <1>11 DEF OrderedRoot
  <2>1. Stays("receive") /\ at[r] <= Len(program) /\ program[at[r]].op = "ordered" /\ ~rank_silent[r]
    OBVIOUS
  <2> QED
    BY <2>1 DEF InPlace
<1>12. CASE r = 0 /\ OrderedReceive
  <2> USE <1>0, <1>12 DEF OrderedReceive
  <2>1. Stays(rank_pc[r])
    OBVIOUS
  <2> QED
    BY <2>1 DEF InPlace
<1>13. CASE r = 0 /\ OrderedRootEnds
  <2> USE <1>0, <1>13 DEF OrderedRootEnds
  <2>1. Stays("barrier") /\ rank_pc[r] = "receive"
    OBVIOUS
  <2> QED
    BY <2>1 DEF InPlace
<1>14. CASE r = 0 /\ DumpRoot
  <2> USE <1>0, <1>14 DEF DumpRoot
  <2>1. Advances \/ (Stays("gather") /\ at[r] <= Len(program) /\ program[at[r]].op = "dump")
    OBVIOUS
  <2> QED
    BY <1>1, <2>1 DEF InPlace
<1>15. CASE r = 0 /\ DumpGather
  <2> USE <1>0, <1>15 DEF DumpGather
  <2>1. Stays("collect") /\ rank_pc[r] = "gather"
    OBVIOUS
  <2> QED
    BY <2>1 DEF InPlace
<1>16. CASE r = 0 /\ DumpCollect
  <2> USE <1>0, <1>16 DEF DumpCollect
  <2>1. Stays(rank_pc[r])
    OBVIOUS
  <2> QED
    BY <2>1 DEF InPlace
<1>17. CASE r = 0 /\ DumpRootEnds
  <2> USE <1>0, <1>17 DEF DumpRootEnds
  <2>1. Advances
    BY DEF InPlace
  <2> QED
    BY <1>1, <2>1
<1> QED
  BY <1>2, <1>3, <1>4, <1>5, <1>6, <1>7, <1>8, <1>9, <1>10, <1>11, <1>12, <1>13, <1>14, <1>15, <1>16, <1>17 DEF StepOf, Step, Root

\* Every step keeps all ranks in place.
LEMMA NextInPlace == ASSUME Basics, [RankNext]_rank_vars PROVE AllInPlace'
<1>0. AllInPlace /\ RanksTyped /\ program' = program /\ 0 \in Ranks /\ turn \in Nat
  BY ProgramStays, RanksAre DEF Basics, RanksTyped
<1>1. CASE \E r \in Ranks : StepOf(r)
  <2>1. PICK r \in Ranks : StepOf(r)
    BY <1>1
  <2>2. InPlace(r)'
    BY <2>1, StepInPlace
  <2>3. ASSUME NEW q \in Ranks, q # r PROVE InPlace(q)'
    <3>1. at'[q] = at[q] /\ rank_pc'[q] = rank_pc[q] /\ rank_silent'[q] = rank_silent[q]
      BY <1>0, <2>1, <2>3, StepIsLocal
    <3> QED
      BY <1>0, <3>1 DEF AllInPlace, InPlace
  <2>4. /\ rank_pc'[0] = "gather" => turn' = 0
        /\ rank_pc'[0] = "receive" => turn' # 0
    <3> USE DEF RankGoto, RankReturn, EnterBarrier, root
    <3>0. rank_pc \in [Ranks -> Places]
      BY <1>0 DEF RanksTyped
    <3>1. CASE Root
      BY <1>0, <3>0, <3>1 DEF Root, AllInPlace, OrderedRoot, OrderedReceive, OrderedRootEnds, DumpRoot,
                              DumpGather, DumpCollect, DumpRootEnds
    <3>2. CASE Step(r)
      <4>1. UNCHANGED turn
        BY <3>2 DEF Step, SetSilent, OrderedSilent, OrderedSend, OrderedSent, LeaveBarrier,
           OpenRefused, CloseRefused, Open, Close, Write, DumpCount, DumpSend, DumpSent
      <4>2. rank_pc'[0] \in {"gather", "receive"} => rank_pc'[0] = rank_pc[0]
        <5>1. \E step \in Places : rank_pc' = [rank_pc EXCEPT ![r] = step] /\ (step \in {"gather", "receive"} => r # 0)
          BY <3>2 DEF Places, Step, SetSilent, OrderedSilent, OrderedSend, OrderedSent, LeaveBarrier,
             OpenRefused, CloseRefused, Open, Close, Write, DumpCount, DumpSend, DumpSent
        <5> QED
          BY <1>0, <3>0, <5>1
      <4> QED
        BY <1>0, <4>1, <4>2 DEF AllInPlace
    <3> QED
      BY <2>1, <3>1, <3>2 DEF StepOf
  <2> QED
    BY <2>2, <2>3, <2>4 DEF AllInPlace
<1>2. CASE UNCHANGED rank_vars
  BY <1>0, <1>2 DEF AllInPlace, InPlace, rank_vars, root, config
<1>3. Root => StepOf(0)
  BY DEF StepOf
<1>4. ASSUME NEW r \in Ranks, Step(r) PROVE StepOf(r)
  BY <1>4 DEF StepOf
<1> QED
  BY <1>0, <1>1, <1>2, <1>3, <1>4 DEF RankNext, Finish

\* No step leaves the types.
LEMMA NextBasics == ASSUME Basics, [RankNext]_rank_vars PROVE Basics'
BY NextTyped, NextCounts, NextInPlace DEF Basics

\* For any number of ranks and any program (log.c, ranklog.c, table.c): the
\* state of the ranks stays inside its types, a rank that waits is inside the
\* call its program says, and a gather collects the true numbers of cells.
THEOREM RanksBasics == RankSpec => []Basics
<1>1. RankInit => Basics
  BY InitBasics
<1>2. Basics /\ [RankNext]_rank_vars => Basics'
  BY NextBasics
<1> QED
  BY <1>1, <1>2, PTL DEF RankSpec

-----------------------------------------------------------------------------
(***************************************************************************)
(* Ranks enter the same barriers.  Every rank follows the history of the   *)
(* program (Follows), and no rank is in a call that comes after a barrier  *)
(* another rank has not entered (NobodyAhead).                             *)
(***************************************************************************)
\* Rank r is as the program leaves a rank after k calls.
Agrees(r, k) == /\ dests[r] = Past(k).dests
                /\ entered[r] = Past(k).entered
                /\ rank_silent[r] = Past(k).silent

Follows(r) == /\ rank_pc[r] # "barrier" => Agrees(r, at[r] - 1)
              /\ rank_pc[r] = "barrier" => /\ Agrees(r, at[r])
                                           /\ Meets(program, unopenable, at[r], Past(at[r] - 1))

AllFollow == \A r \in Ranks : Follows(r)

NobodyAhead == \A q, r \in Ranks : entered[q] >= Past(at[r] - 1).entered

MatchInv == Basics /\ AllFollow /\ NobodyAhead

\* After the step rank r is as the program leaves a rank after k calls.
AgreesThen(r, k) == /\ dests'[r] = Past(k).dests
                    /\ entered'[r] = Past(k).entered
                    /\ rank_silent'[r] = Past(k).silent

\* The four kinds of step: within a call, to its barrier, out of the barrier,
\* and to the end of a call that has none.
Within(r) == /\ at'[r] = at[r] /\ rank_pc[r] # "barrier" /\ rank_pc'[r] # "barrier"
             /\ dests'[r] = dests[r] /\ entered'[r] = entered[r] /\ rank_silent'[r] = rank_silent[r]

Entering(r) == /\ at'[r] = at[r] /\ rank_pc[r] # "barrier" /\ rank_pc'[r] = "barrier" /\ at[r] <= Len(program)
               /\ Meets(program, unopenable, at[r], Past(at[r] - 1)) /\ AgreesThen(r, at[r])

Leaving(r) == /\ at'[r] = at[r] + 1 /\ rank_pc[r] = "barrier" /\ rank_pc'[r] = "call" /\ at[r] <= Len(program)
              /\ \A q \in Ranks : entered[q] >= entered[r]
              /\ AgreesThen(r, at[r])

Ending(r) == /\ at'[r] = at[r] + 1 /\ rank_pc[r] # "barrier" /\ rank_pc'[r] = "call" /\ at[r] <= Len(program)
             /\ ~Meets(program, unopenable, at[r], Past(at[r] - 1)) /\ AgreesThen(r, at[r])

\* A rank that follows the history is somewhere in it.
LEMMA WhereRanksAre ==
    ASSUME Basics, NEW r \in Ranks
    PROVE  /\ at[r] \in Nat \ {0} /\ at[r] - 1 \in 0 .. Len(program) /\ Len(program) \in Nat /\ entered[r] \in Nat
           /\ at[r] <= Len(program) => at[r] \in 1 .. Len(program) /\ at[r] \in 0 .. Len(program)
           /\ at[r] <= Len(program) => Past(at[r]) = After(program, unopenable, at[r], Past(at[r] - 1))
           /\ rank_pc[r] # "call" => at[r] <= Len(program)
<1>1. RanksTyped /\ InPlace(r) /\ program \in Programs
  BY DEF Basics, AllInPlace, RanksTyped
<1>2. at[r] \in Nat \ {0} /\ Len(program) \in Nat /\ entered[r] \in Nat
  BY <1>1, ProgramIsSequence DEF RanksTyped
<1>3. at[r] <= Len(program) + 1 /\ (rank_pc[r] # "call" => at[r] <= Len(program))
  BY <1>1 DEF InPlace
<1>4. at[r] - 1 \in 0 .. Len(program) /\ (at[r] <= Len(program) => at[r] \in 1 .. Len(program) /\ at[r] \in 0 .. Len(program))
  BY <1>2, <1>3
<1> QED
  BY <1>1, <1>2, <1>3, <1>4, PastSteps

\* A step of a rank stays within its call, enters or leaves a barrier, or ends
\* the call.
LEMMA StepKinds ==
    ASSUME FailsAlone = FALSE, Basics, NEW r \in Ranks, StepOf(r), Follows(r)
    PROVE  Within(r) \/ Entering(r) \/ Leaving(r) \/ Ending(r)
<1> DEFINE k == at[r]
           op == program[k].op
           f == program[k].folder
           before == Past(at[r] - 1)
           Meeting == Meets(program, unopenable, at[r], Past(at[r] - 1))
           Same == dests'[r] = dests[r] /\ entered'[r] = entered[r] /\ rank_silent'[r] = rank_silent[r]
           Out == rank_pc[r] # "barrier"
           Going == k <= Len(program)
           End == at'[r] = k + 1 /\ rank_pc'[r] = "call"
           Arrive == at'[r] = k /\ rank_pc'[r] = "barrier" /\ entered'[r] = entered[r] + 1
<1>0. RanksTyped /\ InPlace(r)
  BY DEF Basics, AllInPlace
<1>1. Going => /\ Past(k).dests = DestsAfter(program, unopenable, k, before)
               /\ Past(k).entered = IF Meeting THEN before.entered + 1 ELSE before.entered
               /\ Past(k).silent = IF op = "silence" THEN TRUE ELSE IF op = "unsilence" THEN FALSE ELSE before.silent
  <2>1. \A p, u, s : /\ After(p, u, k, s).dests = DestsAfter(p, u, k, s)
                     /\ After(p, u, k, s).entered = IF Meets(p, u, k, s) THEN s.entered + 1 ELSE s.entered
                     /\ After(p, u, k, s).silent = IF p[k].op = "silence" THEN TRUE
                                                   ELSE IF p[k].op = "unsilence" THEN FALSE ELSE s.silent
    BY DEF After
  <2> SUFFICES ASSUME Going
               PROVE  /\ Past(k).dests = DestsAfter(program, unopenable, k, before)
                      /\ Past(k).entered = IF Meeting THEN before.entered + 1 ELSE before.entered
                      /\ Past(k).silent = IF op = "silence" THEN TRUE ELSE IF op = "unsilence" THEN FALSE ELSE before.silent
    OBVIOUS
  <2>2. Past(k) = After(program, unopenable, k, before)
    BY WhereRanksAre
  <2> HIDE DEF k, before
  <2>3. Past(k).dests = DestsAfter(program, unopenable, k, before)
    BY <2>1, <2>2
  <2>4. Past(k).entered = IF Meeting THEN before.entered + 1 ELSE before.entered
    BY <2>1, <2>2 DEF k, before
  <2>5. Past(k).silent = IF op = "silence" THEN TRUE ELSE IF op = "unsilence" THEN FALSE ELSE before.silent
    <3>1. After(program, unopenable, k, before).silent
             = IF op = "silence" THEN TRUE ELSE IF op = "unsilence" THEN FALSE ELSE before.silent
      BY <2>1, Zenon
    <3> QED
      BY <2>2, <3>1, Zenon
  <2> QED
    BY <2>3, <2>4, <2>5
<1>2. Out => dests[r] = before.dests /\ entered[r] = before.entered /\ rank_silent[r] = before.silent
  BY DEF Follows, Agrees
<1>3. Meeting = (\/ op = "ordered" /\ ~before.silent
                 \/ op = "open" /\ MayOpen(before.dests, f) /\ f \notin unopenable
                 \/ op = "close" /\ IsOpen(before.dests, f))
  BY DEF Meets
<1>4. Going /\ op \notin {"open", "close", "write"} => Past(k).dests = before.dests
  BY <1>1 DEF DestsAfter
<1>5. ASSUME Out, Going, End, ~Meeting, Past(k).dests = before.dests, op \notin {"silence", "unsilence"}, Same
      PROVE  Ending(r)
  BY <1>1, <1>2, <1>5 DEF Ending, AgreesThen
<1>6. ASSUME Out, Going, Arrive, Meeting, Past(k).dests = dests'[r], op \notin {"silence", "unsilence"},
             rank_silent'[r] = rank_silent[r]
      PROVE  Entering(r)
  BY <1>1, <1>2, <1>6 DEF Entering, AgreesThen
<1>7. ASSUME NEW step, step # "barrier", Out, at'[r] = k, rank_pc'[r] = step, Same PROVE Within(r)
  BY <1>7 DEF Within
<1>8. /\ RankReturn(r) => End
      /\ \A step : RankGoto(r, step) => at'[r] = k /\ rank_pc'[r] = step
      /\ EnterBarrier(r) => Arrive
  BY <1>0, Movement
<1>9. \A o : Calls(r, o) => Out /\ Going /\ op = o
  BY DEF Calls
<1>10. Out /\ rank_pc[r] # "call" => Going
  BY <1>0 DEF InPlace
<1>11. Folder(r) = f
  BY DEF Folder
<1>12. /\ \A d : [dests EXCEPT ![r] = d][r] = d
       /\ \A b : [rank_silent EXCEPT ![r] = b][r] = b
  BY <1>0 DEF RanksTyped
<1> USE DEF config, logs, mpi, root
<1> HIDE DEF k, op, f, before, Meeting, End, Arrive
<1>20. CASE SetSilent(r)
  <2>1. Out /\ Going /\ End /\ op \in {"silence", "unsilence"} /\ rank_silent'[r] = (op = "silence")
        /\ dests'[r] = dests[r] /\ entered'[r] = entered[r]
    BY <1>8, <1>9, <1>12, <1>20 DEF SetSilent
  <2>2. ~Meeting
    BY <1>3, <2>1
  <2> QED
    BY <1>1, <1>2, <1>4, <2>1, <2>2 DEF Ending, AgreesThen, k, End, before, Meeting
<1>21. CASE OrderedSilent(r)
  <2>1. Out /\ Going /\ End /\ op = "ordered" /\ rank_silent[r] /\ Same
    BY <1>8, <1>9, <1>21 DEF OrderedSilent
  <2> QED
    BY <1>2, <1>3, <1>4, <1>5, <2>1
<1>22. CASE OrderedSend(r)
  BY <1>7, <1>8, <1>9, <1>22 DEF OrderedSend
<1>23. CASE OrderedSent(r)
  <2>1. Out /\ Going /\ Arrive /\ op = "ordered" /\ ~rank_silent[r]
        /\ dests'[r] = dests[r] /\ rank_silent'[r] = rank_silent[r]
    BY <1>0, <1>8, <1>10, <1>23 DEF OrderedSent, InPlace, k, op
  <2> QED
    BY <1>2, <1>3, <1>4, <1>6, <2>1
<1>24. CASE OpenRefused(r)
  <2>1. Out /\ Going /\ End /\ op = "open" /\ Same /\ (MayOpen(dests[r], f) => f \in unopenable)
    BY <1>8, <1>9, <1>11, <1>24 DEF OpenRefused, MayFail
  <2>2. ~Meeting
    BY <1>2, <1>3, <2>1
  <2>3. Past(k).dests = before.dests
    BY <1>1, <2>1, <2>2 DEF DestsAfter, Meeting, op, k, before
  <2> QED
    BY <1>5, <2>1, <2>2, <2>3
<1>25. CASE Open(r)
  <2>1. Out /\ Going /\ Arrive /\ op = "open" /\ MayOpen(dests[r], f) /\ f \notin unopenable
        /\ dests'[r] = Opened(dests[r], f) /\ rank_silent'[r] = rank_silent[r]
    BY <1>8, <1>9, <1>11, <1>12, <1>25 DEF Open, Opens
  <2>2. Meeting
    BY <1>2, <1>3, <2>1
  <2>3. Past(k).dests = Opened(before.dests, f)
    BY <1>1, <2>1, <2>2 DEF DestsAfter, Meeting, op, f, k, before
  <2> QED
    BY <1>2, <1>6, <2>1, <2>2, <2>3
<1>26. CASE CloseRefused(r)
  <2>1. Out /\ Going /\ End /\ op = "close" /\ Same /\ ~IsOpen(dests[r], f)
    BY <1>8, <1>9, <1>11, <1>26 DEF CloseRefused
  <2>2. ~Meeting
    BY <1>2, <1>3, <2>1
  <2>3. Past(k).dests = before.dests
    BY <1>1, <2>1, <2>2 DEF DestsAfter, Meeting, op, k, before
  <2> QED
    BY <1>5, <2>1, <2>2, <2>3
<1>27. CASE Close(r)
  <2>1. Out /\ Going /\ Arrive /\ op = "close" /\ IsOpen(dests[r], f)
        /\ dests'[r] = Closed(dests[r], f) /\ rank_silent'[r] = rank_silent[r]
    BY <1>8, <1>9, <1>11, <1>12, <1>27 DEF Close
  <2>2. Meeting
    BY <1>2, <1>3, <2>1
  <2>3. Past(k).dests = Closed(before.dests, f)
    BY <1>1, <2>1, <2>2 DEF DestsAfter, Meeting, op, f, k, before
  <2> QED
    BY <1>2, <1>6, <2>1, <2>2, <2>3
<1>28. CASE Write(r)
  <2>1. Out /\ Going /\ End /\ op = "write" /\ entered'[r] = entered[r] /\ rank_silent'[r] = rank_silent[r]
    BY <1>8, <1>9, <1>28 DEF Write
  <2>2. dests'[r] = IF IsOpen(dests[r], f) THEN Wrote(dests[r], f) ELSE dests[r]
    <3>1. CASE IsOpen(dests[r], f)
      BY <1>11, <1>12, <1>28, <3>1 DEF Write
    <3>2. CASE ~IsOpen(dests[r], f)
      BY <1>11, <1>28, <3>2 DEF Write
    <3> QED
      BY <3>1, <3>2
  <2>3. ~Meeting
    BY <1>3, <2>1
  <2>4. Past(k).dests = IF IsOpen(before.dests, f) THEN Wrote(before.dests, f) ELSE before.dests
    BY <1>1, <2>1 DEF DestsAfter, op, f, k, before
  <2> QED
    BY <1>1, <1>2, <2>1, <2>2, <2>3, <2>4 DEF Ending, AgreesThen, k, End, before, Meeting
<1>29. CASE DumpCount(r)
  BY <1>7, <1>8, <1>9, <1>29 DEF DumpCount
<1>30. CASE DumpSend(r)
  BY <1>7, <1>8, <1>30 DEF DumpSend
<1>31. CASE DumpSent(r) \/ (r = 0 /\ DumpRootEnds)
  <2>1. Out /\ rank_pc[r] \in {"wait", "collect"} /\ Going /\ End /\ Same
    BY <1>8, <1>10, <1>31 DEF DumpSent, DumpRootEnds
  <2>2. op = "dump"
    BY <1>0, <2>1 DEF InPlace, op, k
  <2> QED
    BY <1>3, <1>4, <1>5, <2>1, <2>2
<1>32. CASE LeaveBarrier(r)
  <2>1. rank_pc[r] = "barrier" /\ End /\ Same /\ \A q \in Ranks : entered[q] >= entered[r]
    BY <1>8, <1>32 DEF LeaveBarrier
  <2>2. Going
    BY <1>0, <2>1 DEF InPlace, k
  <2>3. Agrees(r, k)
    BY <2>1 DEF Follows, k
  <2> QED
    BY <2>1, <2>2, <2>3 DEF Leaving, Agrees, AgreesThen, End, k
<1>33. CASE r = 0 /\ OrderedRoot
  BY <1>7, <1>8, <1>9, <1>33 DEF OrderedRoot
<1>34. CASE r = 0 /\ (OrderedReceive \/ DumpCollect)
  BY <1>7, <1>34 DEF OrderedReceive, DumpCollect, k
<1>35. CASE r = 0 /\ OrderedRootEnds
  <2>1. Out /\ Going /\ Arrive /\ op = "ordered" /\ ~rank_silent[r]
        /\ dests'[r] = dests[r] /\ rank_silent'[r] = rank_silent[r]
    BY <1>0, <1>8, <1>10, <1>35 DEF OrderedRootEnds, InPlace, k, op
  <2> QED
    BY <1>2, <1>3, <1>4, <1>6, <2>1
<1>36. CASE r = 0 /\ DumpRoot
  <2>1. Calls(0, "dump") /\ RankGoto(0, "gather") /\ Same
    BY <1>36 DEF DumpRoot
  <2> QED
    BY <1>7, <1>8, <1>9, <1>36, <2>1
<1>37. CASE r = 0 /\ DumpGather
  BY <1>7, <1>8, <1>37 DEF DumpGather
<1> QED
  BY <1>20, <1>21, <1>22, <1>23, <1>24, <1>25, <1>26, <1>27, <1>28, <1>29, <1>30, <1>31, <1>32, <1>33, <1>34,
     <1>35, <1>36, <1>37 DEF StepOf, Step, Root

\* The history is that of the program, which stays.
LEMMA PastStays ==
    ASSUME program' = program, unopenable' = unopenable, NEW k
    PROVE  History(program', unopenable')[k] = Past(k)
BY DEF Past

\* A step keeps the rank that takes it in the history.
LEMMA StepFollows ==
    ASSUME FailsAlone = FALSE, Basics, NEW r \in Ranks, StepOf(r), Follows(r)
    PROVE  Follows(r)'
<1>0. at[r] \in Nat /\ program' = program /\ unopenable' = unopenable
  BY WhereRanksAre, ProgramStays DEF StepOf, RankNext
<1>1. \A k : History(program', unopenable')[k] = Past(k)
  BY <1>0, PastStays
<1>2. Within(r) \/ Entering(r) \/ Leaving(r) \/ Ending(r)
  BY StepKinds
<1>3. CASE Within(r)
  BY <1>0, <1>1, <1>3 DEF Within, Follows, Agrees, Past
<1>4. CASE Entering(r)
  BY <1>0, <1>1, <1>4 DEF Entering, AgreesThen, Follows, Agrees, Past
<1>5. CASE Leaving(r) \/ Ending(r)
  <2>1. at'[r] - 1 = at[r] /\ rank_pc'[r] = "call" /\ AgreesThen(r, at[r])
    BY <1>0, <1>5 DEF Leaving, Ending
  <2> QED
    BY <1>0, <1>1, <2>1 DEF AgreesThen, Follows, Agrees, Past
<1> QED
  BY <1>2, <1>3, <1>4, <1>5

\* After a step every rank is still as the calls it has made leave it, and none
\* is ahead of a barrier.
LEMMA NextFollow ==
    ASSUME FailsAlone = FALSE, MatchInv, NEW r \in Ranks, StepOf(r)
    PROVE  AllFollow' /\ NobodyAhead'
<1>0. program' = program /\ unopenable' = unopenable /\ RanksTyped
  BY ProgramStays DEF StepOf, RankNext, MatchInv, Basics
<1>1. \A k : History(program', unopenable')[k] = Past(k)
  BY <1>0, PastStays
<1>2. ASSUME NEW q \in Ranks, q # r
      PROVE  at'[q] = at[q] /\ rank_pc'[q] = rank_pc[q] /\ rank_silent'[q] = rank_silent[q]
             /\ dests'[q] = dests[q] /\ entered'[q] = entered[q]
  BY <1>0, <1>2, StepIsLocal
<1>3. AllFollow'
  <2>1. Follows(r)'
    BY StepFollows DEF MatchInv, AllFollow
  <2>2. ASSUME NEW q \in Ranks, q # r PROVE Follows(q)'
    BY <1>0, <1>1, <1>2, <2>2 DEF MatchInv, AllFollow, Follows, Agrees, Past
  <2> QED
    BY <2>1, <2>2 DEF AllFollow
<1>4. Within(r) \/ Entering(r) \/ Leaving(r) \/ Ending(r)
  BY StepKinds DEF MatchInv, AllFollow
<1>5. /\ at[r] \in Nat \ {0} /\ entered[r] \in Nat /\ Past(at[r] - 1).entered \in Nat
      /\ at[r] <= Len(program) => Past(at[r]).entered \in Nat
      /\ at[r] <= Len(program) => Past(at[r]) = After(program, unopenable, at[r], Past(at[r] - 1))
  BY WhereRanksAre, PastIs DEF MatchInv, Basics, RanksTyped
<1>6. Follows(r)
  BY DEF MatchInv, AllFollow
<1>7. entered'[r] >= entered[r]
  <2>1. CASE Within(r)
    BY <1>5, <2>1 DEF Within
  <2>2. CASE Leaving(r)
    BY <1>5, <1>6, <2>2 DEF Leaving, Follows, Agrees, AgreesThen
  <2>3. CASE Entering(r) \/ Ending(r)
    <3>1. entered[r] = Past(at[r] - 1).entered /\ entered'[r] = Past(at[r]).entered /\ at[r] <= Len(program)
      BY <1>6, <2>3 DEF Entering, Ending, Follows, Agrees, AgreesThen
    <3>2. Past(at[r]).entered = Past(at[r] - 1).entered \/ Past(at[r]).entered = Past(at[r] - 1).entered + 1
      BY <1>5, <3>1 DEF After
    <3> QED
      BY <1>5, <3>1, <3>2
  <2> QED
    BY <1>4, <2>1, <2>2, <2>3
<1>8. \A q \in Ranks : entered[q] \in Nat /\ entered'[q] \in Nat /\ entered'[q] >= entered[q]
  <2>1. entered'[r] \in Nat
    <3>1. CASE Within(r)
      BY <1>5, <3>1 DEF Within
    <3>2. CASE ~Within(r)
      BY <1>4, <1>5, <3>2 DEF Entering, Leaving, Ending, AgreesThen
    <3> QED
      BY <3>1, <3>2
  <2>2. \A q \in Ranks : entered[q] \in Nat
    BY <1>0 DEF RanksTyped
  <2> QED
    BY <1>2, <1>7, <2>1, <2>2
<1>9. ASSUME NEW q \in Ranks PROVE entered[q] >= Past(at'[r] - 1).entered
  <2>0. entered[q] >= Past(at[r] - 1).entered
    BY DEF MatchInv, NobodyAhead
  <2>1. CASE Within(r) \/ Entering(r)
    BY <2>0, <2>1 DEF Within, Entering
  <2>2. CASE Leaving(r)
    <3>1. entered[r] = Past(at[r]).entered /\ at'[r] - 1 = at[r] /\ entered[q] >= entered[r]
      BY <1>5, <1>6, <2>2 DEF Leaving, Follows, Agrees
    <3> QED
      BY <3>1
  <2>3. CASE Ending(r)
    <3>1. at'[r] - 1 = at[r] /\ Past(at[r]).entered = Past(at[r] - 1).entered
      BY <1>5, <2>3 DEF Ending, After
    <3> QED
      BY <2>0, <3>1
  <2> QED
    BY <1>4, <2>1, <2>2, <2>3
<1>10. NobodyAhead'
  <2>1. ASSUME NEW q \in Ranks, NEW s \in Ranks PROVE entered'[q] >= Past(at'[s] - 1).entered
    <3>1. entered[q] >= Past(at'[s] - 1).entered
      BY <1>2, <1>9 DEF MatchInv, NobodyAhead
    <3>2. Past(at'[s] - 1).entered \in Nat
      <4>1. CASE s # r
        BY <1>2, <4>1, WhereRanksAre, PastIs DEF MatchInv, Basics, RanksTyped
      <4>2. CASE s = r
        <5>1. at'[r] = at[r] \/ (at'[r] - 1 = at[r] /\ at[r] <= Len(program))
          BY <1>4, <1>5 DEF Within, Entering, Leaving, Ending
        <5> QED
          BY <1>5, <4>2, <5>1
      <4> QED
        BY <4>1, <4>2
    <3> QED
      BY <1>8, <3>1, <3>2
  <2> QED
    BY <1>1, <2>1 DEF NobodyAhead, Past
<1> QED
  BY <1>3, <1>10

\* The start of the history.
LEMMA InitMatch == ASSUME RankInit PROVE MatchInv
<1>1. Basics
  BY InitBasics
<1>2. Past(0) = Start
  BY <1>1, PastSteps DEF Basics, RanksTyped
<1>3. \A r \in Ranks : at[r] = 1 /\ rank_pc[r] = "call" /\ entered[r] = 0 /\ dests[r] = <<>> /\ rank_silent[r] = FALSE
  BY DEF RankInit
<1>4. \A r \in Ranks : at[r] - 1 = 0
  BY <1>3
<1>5. Past(0).dests = <<>> /\ Past(0).entered = 0 /\ Past(0).silent = FALSE
  BY <1>2 DEF Start
<1>6. AllFollow
  BY <1>3, <1>4, <1>5 DEF AllFollow, Follows, Agrees
<1>7. NobodyAhead
  BY <1>3, <1>4, <1>5 DEF NobodyAhead
<1> QED
  BY <1>1, <1>6, <1>7 DEF MatchInv

\* So the invariant of the barriers is inductive.
LEMMA NextMatch == ASSUME FailsAlone = FALSE, MatchInv, [RankNext]_rank_vars PROVE MatchInv'
<1>1. Basics'
  BY NextBasics DEF MatchInv
<1>2. CASE \E r \in Ranks : StepOf(r)
  BY <1>1, <1>2, NextFollow DEF MatchInv
<1>3. CASE UNCHANGED rank_vars
  <2>1. program' = program /\ unopenable' = unopenable
    BY <1>3, ProgramStays
  <2>2. \A k : History(program', unopenable')[k] = Past(k)
    BY <2>1, PastStays
  <2>3. UNCHANGED <<at, rank_pc, rank_silent, dests, entered>>
    BY <1>3 DEF rank_vars, logs, mpi
  <2> QED
    BY <1>1, <2>1, <2>2, <2>3 DEF MatchInv, AllFollow, NobodyAhead, Follows, Agrees, Past
<1>4. ASSUME NEW r \in Ranks, Step(r) PROVE StepOf(r)
  BY <1>4 DEF StepOf
<1>5. Root => 0 \in Ranks /\ StepOf(0)
  BY RanksAre DEF StepOf
<1> QED
  BY <1>2, <1>3, <1>4, <1>5 DEF RankNext, Finish

\* Ranks that have entered as many barriers are in the same call.
LEMMA SameBarrier ==
    ASSUME MatchInv, NEW r \in Ranks, NEW q \in Ranks,
           rank_pc[r] = "barrier", rank_pc[q] = "barrier", entered[r] = entered[q]
    PROVE  ~(at[r] < at[q])
<1> SUFFICES ASSUME at[r] < at[q] PROVE FALSE
  OBVIOUS
<1>0. Basics /\ program \in Programs /\ Follows(r) /\ Follows(q)
  BY DEF MatchInv, Basics, RanksTyped, AllFollow
<1>1. /\ at[q] \in 1 .. Len(program) /\ at[q] - 1 \in 0 .. Len(program)
      /\ at[r] \in 0 .. Len(program) /\ Len(program) \in Nat /\ at[r] <= at[q] - 1
      /\ Past(at[q]) = After(program, unopenable, at[q], Past(at[q] - 1))
  BY <1>0, WhereRanksAre
<1>2. Past(at[q]).entered = Past(at[q] - 1).entered + 1
  BY <1>0, <1>1 DEF After, Follows
<1>3. Past(at[r]).entered <= Past(at[q] - 1).entered
  BY <1>0, <1>1, PastGrows
<1>4. Past(at[r]).entered = Past(at[q]).entered
  BY <1>0 DEF Follows, Agrees
<1>5. Past(at[q] - 1).entered \in Nat
  BY <1>0, <1>1, PastIs
<1> QED
  BY <1>2, <1>3, <1>4, <1>5

\* As long as a folder opens on all ranks or on none (ranklog.c): the table of
\* folders, the silence and the barriers of a rank are those that the calls it
\* has made leave, and no rank is in a call before all have entered the
\* barriers of the calls before it.
THEOREM RanksMatch == FailsAlone = FALSE /\ RankSpec => []MatchInv
<1> SUFFICES ASSUME FailsAlone = FALSE PROVE RankSpec => []MatchInv
  OBVIOUS
<1>1. RankInit => MatchInv
  BY InitMatch
<1>2. MatchInv /\ [RankNext]_rank_vars => MatchInv'
  BY NextMatch
<1> QED
  BY <1>1, <1>2, PTL DEF RankSpec

\* For any number of ranks and any program of collective calls (log.c,
\* ranklog.c): ranks that wait in the same barrier wait in the same call, as
\* long as a folder opens on all ranks or on none.
THEOREM RanksMeetInTheSameCall == FailsAlone = FALSE /\ RankSpec => []BarriersMatch
<1> SUFFICES ASSUME FailsAlone = FALSE PROVE RankSpec => []BarriersMatch
  OBVIOUS
<1>1. MatchInv => BarriersMatch
  <2> SUFFICES ASSUME MatchInv, NEW r \in Ranks, NEW q \in Ranks,
                      rank_pc[r] = "barrier", rank_pc[q] = "barrier", entered[r] = entered[q]
               PROVE  at[r] = at[q]
    BY DEF BarriersMatch
  <2>1. ~(at[r] < at[q]) /\ ~(at[q] < at[r])
    BY SameBarrier
  <2>2. at[r] \in Nat /\ at[q] \in Nat
    BY DEF MatchInv, Basics, RanksTyped
  <2> QED
    BY <2>1, <2>2
<1> QED
  BY <1>1, RanksMatch, PTL

-----------------------------------------------------------------------------
(***************************************************************************)
(* mys_log_ordered.  Between two barriers a rank has at most one message   *)
(* on its way to rank 0, that of the call it is in (MailInTime), and what  *)
(* rank 0 has received it was sent in rank 0's own call (MailReceived).    *)
(***************************************************************************)
\* The k-th call enters a barrier.
Meeting(k) == Meets(program, unopenable, k, Past(k - 1))

\* What rank 0 has printed when the first k calls are over.
Spoken(k) == Joined([i \in DOMAIN program |-> Messages(i)], k)

\* The messages of the first n ranks in the k-th call.
Voices(k, n) == [i \in 1 .. n |-> <<k, k, i - 1>>]

OutIsSpoken ==
    /\ rank_pc[0] = "receive" => out = Spoken(at[0] - 1) \o Voices(at[0], turn)
    /\ rank_pc[0] = "barrier" => out = Spoken(at[0])
    /\ rank_pc[0] \notin {"receive", "barrier"} => out = Spoken(at[0] - 1)

HasMail(r) == channel[r]["log"] # <<>>

MailInTime ==
    \A r \in Ranks : r # 0 /\ HasMail(r) =>
        /\ channel[r]["log"] = <<at[r]>>
        /\ rank_pc[r] \in {"sent", "barrier"} /\ program[at[r]].op = "ordered"
        /\ at[0] <= at[r]
        /\ at[0] = at[r] => rank_pc[0] # "barrier" /\ (rank_pc[0] = "receive" => turn <= r)

HasSpoken(r) == at[r] > at[0] \/ (at[r] = at[0] /\ rank_pc[r] \in {"sent", "barrier"})

MailReceived ==
    \A r \in Ranks : r # 0 =>
        /\ rank_pc[0] = "receive" /\ r < turn => HasSpoken(r)
        /\ rank_pc[0] = "barrier" /\ program[at[0]].op = "ordered" => HasSpoken(r)

OrderInv == MatchInv /\ OutIsSpoken /\ MailInTime /\ MailReceived

\* A call that prints is one that enters a barrier.
LEMMA PrintsAndMeets ==
    ASSUME program \in Programs, NEW k \in 1 .. Len(program)
    PROVE  /\ Messages(k) = IF program[k].op = "ordered" /\ Meeting(k) THEN Voices(k, N) ELSE <<>>
           /\ Messages(k) \in Seq(Nat \X Message \X Nat)
<1>1. Len(program) \in Nat /\ k - 1 \in 0 .. Len(program)
  BY ProgramIsSequence
<1>2. Past(k - 1).silent = Silenced(k - 1)
  BY <1>1, PastIs
<1>3. program[k].op = "ordered" => (Meeting(k) <=> ~Silenced(k - 1))
  BY <1>2 DEF Meeting, Meets
<1>4. Messages(k) = IF program[k].op = "ordered" /\ Meeting(k) THEN Voices(k, N) ELSE <<>>
  <2>1. CASE program[k].op = "ordered" /\ Meeting(k)
    BY <1>3, <2>1 DEF Messages, Voices
  <2>2. CASE ~(program[k].op = "ordered" /\ Meeting(k))
    BY <1>3, <2>2 DEF Messages
  <2> QED
    BY <2>1, <2>2
<1>5. Voices(k, N) \in Seq(Nat \X Message \X Nat) /\ <<>> \in Seq(Nat \X Message \X Nat)
  <2>1. \A i \in 1 .. N : <<k, k, i - 1>> \in Nat \X Message \X Nat
    BY <1>1, RanksAre DEF Message
  <2> QED
    BY <2>1, RanksAre DEF Voices
<1> QED
  BY <1>4, <1>5

\* What is printed grows call by call.
LEMMA SpokenSteps ==
    ASSUME program \in Programs
    PROVE  /\ Spoken(0) = <<>>
           /\ \A k \in 1 .. Len(program), m \in 0 .. Len(program) :
                 m = k - 1 => Spoken(k) = IF program[k].op = "ordered" /\ Meeting(k) THEN Spoken(m) \o Voices(k, N)
                                          ELSE Spoken(m)
           /\ \A k \in 0 .. Len(program) : Spoken(k) \in Seq(Nat \X Message \X Nat)
<1> DEFINE T == Nat \X Message \X Nat
           s == [i \in DOMAIN program |-> Messages(i)]
           n == Len(program)
<1>0. n \in Nat /\ DOMAIN program = 1 .. n
  BY ProgramIsSequence
<1>1. \A k \in 1 .. n : s[k] = Messages(k) /\ s[k] \in Seq(T)
  BY <1>0, PrintsAndMeets
<1>2. /\ Joined(s, 0) = <<>>
      /\ \A k \in 1 .. n, m \in 0 .. n : m = k - 1 => Joined(s, k) = Joined(s, m) \o s[k]
      /\ \A k \in 0 .. n : Joined(s, k) \in Seq(T)
  <2> HIDE DEF s, T, n
  <2> QED
    BY <1>0, <1>1, JoinedSteps
<1>3. \A k : Spoken(k) = Joined(s, k)
  BY DEF Spoken
<1> HIDE DEF s, T
<1>4. ASSUME NEW k \in 1 .. n, NEW m \in 0 .. n, m = k - 1
      PROVE  Spoken(k) = IF program[k].op = "ordered" /\ Meeting(k) THEN Spoken(m) \o Voices(k, N) ELSE Spoken(m)
  <2>1. Spoken(k) = Spoken(m) \o Messages(k) /\ Spoken(m) \in Seq(T)
    BY <1>1, <1>2, <1>3, <1>4
  <2>2. CASE program[k].op = "ordered" /\ Meeting(k)
    BY <2>1, <2>2, PrintsAndMeets
  <2>3. CASE ~(program[k].op = "ordered" /\ Meeting(k))
    <3>1. Messages(k) = <<>>
      BY <2>3, PrintsAndMeets
    <3>2. Spoken(m) \o <<>> = Spoken(m)
      BY <2>1, ConcatEmptySeq
    <3> QED
      BY <2>1, <2>3, <3>1, <3>2
  <2> QED
    BY <2>2, <2>3
<1> QED
  BY <1>2, <1>3, <1>4 DEF T

\* The program stays, and so does what it prints.
LEMMA SpokenStays ==
    ASSUME program' = program, NEW k
    PROVE  Spoken(k)' = Spoken(k)
BY DEF Spoken, Messages, Silenced

\* Which steps of rank 0 print, and what the others leave as it is.
LEMMA RootKinds ==
    ASSUME Basics, StepOf(0)
    PROVE  \/ OrderedRoot \/ OrderedReceive \/ OrderedRootEnds
           \/ /\ UNCHANGED out /\ rank_pc[0] # "receive" /\ rank_pc'[0] # "receive"
              /\ \A r \in Ranks : channel'[r]["log"] = channel[r]["log"]
              /\ rank_pc'[0] = "barrier" => program[at[0]].op # "ordered"
<1>0. RanksTyped /\ InPlace(0) /\ 0 \in Ranks /\ "log" \in Tags /\ "cell" \in Tags /\ "count" \in Tags
  BY RanksAre DEF Basics, AllInPlace, Tags
<1>1. /\ RankReturn(0) => rank_pc'[0] = "call"
      /\ \A step : RankGoto(0, step) => rank_pc'[0] = step
      /\ EnterBarrier(0) => rank_pc'[0] = "barrier"
  BY <1>0, Movement
<1>2. UNCHANGED channel => \A r \in Ranks : channel'[r]["log"] = channel[r]["log"]
  OBVIOUS
<1> USE DEF Calls, mpi, root
<1>3. CASE SetSilent(0) \/ OrderedSilent(0) \/ LeaveBarrier(0)
  BY <1>1, <1>2, <1>3 DEF SetSilent, OrderedSilent, LeaveBarrier
<1>4. CASE OpenRefused(0) \/ CloseRefused(0) \/ Write(0)
  BY <1>1, <1>2, <1>4 DEF OpenRefused, CloseRefused, Write
<1>5. CASE Open(0) \/ Close(0)
  BY <1>1, <1>2, <1>5 DEF Open, Close
<1>6. CASE OrderedSend(0) \/ OrderedSent(0) \/ DumpCount(0) \/ DumpSend(0) \/ DumpSent(0)
  BY <1>0, <1>6 DEF OrderedSend, OrderedSent, DumpCount, DumpSend, DumpSent, InPlace
<1>7. CASE DumpRoot
  BY <1>1, <1>2, <1>7 DEF DumpRoot
<1>8. CASE DumpRootEnds
  BY <1>1, <1>2, <1>8 DEF DumpRootEnds
<1>9. CASE DumpGather
  <2>1. \A r \in Ranks : channel'[r]["log"] = channel[r]["log"]
    BY <1>0, <1>9, ChannelGathered
  <2> QED
    BY <1>1, <1>9, <2>1 DEF DumpGather
<1>10. CASE DumpCollect
  <2>1. turn \in Ranks
    BY <1>0, <1>10, RanksAre DEF DumpCollect, RanksTyped, Ranks
  <2>2. UNCHANGED channel \/ \E n : Receive(turn, "cell", n)
    BY <1>10 DEF DumpCollect
  <2>3. \A r \in Ranks : channel'[r]["log"] = channel[r]["log"]
    BY <1>0, <2>1, <2>2, ChannelAfter
  <2> QED
    BY <1>10, <2>3 DEF DumpCollect
<1> QED
  BY <1>3, <1>4, <1>5, <1>6, <1>7, <1>8, <1>9, <1>10 DEF StepOf, Step, Root

\* The steps of the other ranks, by what they do to the messages.
LEMMA OtherKinds ==
    ASSUME Basics, NEW r \in Ranks, r # 0, StepOf(r)
    PROVE  /\ UNCHANGED <<turn, all_num_cells, out, rows>>
           /\ \/ OrderedSend(r) /\ rank_pc'[r] = "sent" /\ at'[r] = at[r]
              \/ /\ \A q \in Ranks : channel'[q]["log"] = channel[q]["log"]
                 /\ \/ OrderedSent(r) /\ rank_pc'[r] = "barrier" /\ at'[r] = at[r]
                    \/ LeaveBarrier(r) /\ at'[r] = at[r] + 1
                    \/ rank_pc[r] \notin {"sent", "barrier"}
<1>0. RanksTyped /\ "log" \in Tags /\ "cell" \in Tags /\ "count" \in Tags
  BY DEF Basics, Tags
<1>1. /\ RankReturn(r) => rank_pc'[r] = "call" /\ at'[r] = at[r] + 1
      /\ \A step : RankGoto(r, step) => rank_pc'[r] = step /\ at'[r] = at[r]
      /\ EnterBarrier(r) => rank_pc'[r] = "barrier" /\ at'[r] = at[r]
  BY <1>0, Movement
<1>2. UNCHANGED channel => \A q \in Ranks : channel'[q]["log"] = channel[q]["log"]
  OBVIOUS
<1> USE DEF Calls, mpi, root
<1>3. CASE SetSilent(r) \/ OrderedSilent(r)
  BY <1>2, <1>3 DEF SetSilent, OrderedSilent
<1>4. CASE OpenRefused(r) \/ CloseRefused(r) \/ Write(r)
  BY <1>2, <1>4 DEF OpenRefused, CloseRefused, Write
<1>5. CASE Open(r) \/ Close(r)
  BY <1>2, <1>5 DEF Open, Close
<1>6. CASE OrderedSend(r)
  BY <1>1, <1>6 DEF OrderedSend
<1>7. CASE OrderedSent(r)
  BY <1>1, <1>2, <1>7 DEF OrderedSent
<1>8. CASE LeaveBarrier(r)
  BY <1>1, <1>2, <1>8 DEF LeaveBarrier
<1>9. CASE DumpSent(r)
  BY <1>2, <1>9 DEF DumpSent
<1>10. CASE DumpCount(r)
  <2>1. \A q \in Ranks : channel'[q]["log"] = channel[q]["log"]
    BY <1>0, <1>10, ChannelAfter DEF DumpCount
  <2> QED
    BY <1>10, <2>1 DEF DumpCount
<1>11. CASE DumpSend(r)
  <2>1. \A q \in Ranks : channel'[q]["log"] = channel[q]["log"]
    BY <1>0, <1>11, ChannelAfter DEF DumpSend
  <2> QED
    BY <1>11, <2>1 DEF DumpSend
<1> QED
  BY <1>3, <1>4, <1>5, <1>6, <1>7, <1>8, <1>9, <1>10, <1>11 DEF StepOf, Step


\* A rank that has not come to a barrier has entered fewer than one that has.
LEMMA BeforeBarrier ==
    ASSUME MatchInv, NEW q \in Ranks, NEW k \in 1 .. Len(program), Meeting(k),
           at[q] < k \/ (at[q] = k /\ rank_pc[q] # "barrier")
    PROVE  entered[q] < Past(k).entered
<1>0. Basics /\ program \in Programs /\ Follows(q)
  BY DEF MatchInv, Basics, RanksTyped, AllFollow
<1>1. /\ Len(program) \in Nat /\ at[q] \in Nat \ {0} /\ k \in 0 .. Len(program) /\ k - 1 \in 0 .. Len(program)
      /\ at[q] - 1 \in 0 .. Len(program) /\ at[q] <= k /\ at[q] \in 0 .. Len(program)
  BY <1>0, WhereRanksAre
<1>2. Past(k) = After(program, unopenable, k, Past(k - 1))
  BY <1>0, <1>1, PastSteps
<1>3. Past(k).entered = Past(k - 1).entered + 1
  BY <1>2 DEF After, Meeting
<1>4. entered[q] <= Past(k - 1).entered
  <2>1. CASE rank_pc[q] = "barrier"
    <3>1. at[q] <= k - 1 /\ entered[q] = Past(at[q]).entered
      BY <1>0, <1>1, <2>1 DEF Follows, Agrees
    <3> QED
      BY <1>0, <1>1, <3>1, PastGrows
  <2>2. CASE rank_pc[q] # "barrier"
    <3>1. at[q] - 1 <= k - 1 /\ entered[q] = Past(at[q] - 1).entered
      BY <1>0, <1>1, <2>2 DEF Follows, Agrees
    <3> QED
      BY <1>0, <1>1, <3>1, PastGrows
  <2> QED
    BY <2>1, <2>2
<1>5. Past(k - 1).entered \in Nat /\ entered[q] \in Nat
  BY <1>0, <1>1, PastIs DEF Basics, RanksTyped
<1> QED
  BY <1>3, <1>4, <1>5

\* A rank past a barrier has the others past its entry.
LEMMA PassedBarrier ==
    ASSUME MatchInv, NEW r \in Ranks, NEW q \in Ranks,
           NEW k \in 1 .. Len(program), Meeting(k), at[r] > k
    PROVE  at[q] > k \/ (at[q] = k /\ rank_pc[q] = "barrier")
<1> SUFFICES ASSUME ~(at[q] > k \/ (at[q] = k /\ rank_pc[q] = "barrier")) PROVE FALSE
  OBVIOUS
<1>0. Basics /\ program \in Programs
  BY DEF MatchInv, Basics, RanksTyped
<1>1. /\ Len(program) \in Nat /\ at[q] \in Nat \ {0} /\ at[r] \in Nat \ {0} /\ k \in 0 .. Len(program)
      /\ at[r] - 1 \in 0 .. Len(program) /\ k <= at[r] - 1
  BY <1>0, WhereRanksAre
<1>2. entered[q] < Past(k).entered
  BY <1>1, BeforeBarrier
<1>3. Past(k).entered <= Past(at[r] - 1).entered
  BY <1>0, <1>1, PastGrows
<1>4. entered[q] >= Past(at[r] - 1).entered
  BY DEF MatchInv, NobodyAhead
<1>5. Past(k).entered \in Nat /\ Past(at[r] - 1).entered \in Nat /\ entered[q] \in Nat
  BY <1>0, <1>1, PastIs DEF Basics, RanksTyped
<1> QED
  BY <1>2, <1>3, <1>4, <1>5

\* A rank that prints, or waits for the message it sent, is in a call with a barrier.
LEMMA SpeakersMeet ==
    ASSUME MatchInv, NEW r \in Ranks, at[r] <= Len(program),
           program[at[r]].op = "ordered", rank_pc[r] = "barrier" \/ ~rank_silent[r]
    PROVE  Meeting(at[r]) /\ at[r] \in 1 .. Len(program)
<1>1. Follows(r) /\ Basics /\ at[r] \in 1 .. Len(program)
  BY WhereRanksAre DEF MatchInv, AllFollow
<1>2. CASE rank_pc[r] = "barrier"
  BY <1>1, <1>2 DEF Follows, Meeting
<1>3. CASE rank_pc[r] # "barrier"
  <2>1. ~Past(at[r] - 1).silent
    BY <1>1, <1>3 DEF Follows, Agrees
  <2> QED
    BY <1>1, <2>1 DEF Meeting, Meets
<1> QED
  BY <1>2, <1>3

\* A message that is on its way belongs to a call that meets in a barrier.
LEMMA MailMeets ==
    ASSUME OrderInv, NEW r \in Ranks, r # 0, HasMail(r)
    PROVE  Meeting(at[r]) /\ at[r] \in 1 .. Len(program)
<1>1. rank_pc[r] \in {"sent", "barrier"} /\ program[at[r]].op = "ordered"
  BY DEF OrderInv, MailInTime
<1>2. at[r] <= Len(program) /\ (rank_pc[r] = "sent" => ~rank_silent[r])
  BY <1>1 DEF OrderInv, MatchInv, Basics, AllInPlace, InPlace
<1> QED
  BY <1>1, <1>2, SpeakersMeet DEF OrderInv

\* One more voice.
LEMMA VoicesGrow ==
    ASSUME NEW k \in Nat, NEW n \in Nat, NEW s \in Seq(Nat \X Message \X Nat)
    PROVE  /\ Append(s \o Voices(k, n), <<k, k, n>>) = s \o Voices(k, n + 1)
           /\ s \o Voices(k, 0) = s
<1> DEFINE T == Nat \X Message \X Nat
           v == Voices(k, n)
           w == Voices(k, n + 1)
           m == <<k, k, n>>
<1>1. v \in Seq(T) /\ Len(v) = n /\ m \in T
  BY DEF Voices, Message
<1>2. w = Append(v, m)
  BY DEF Voices
<1>3. Voices(k, 0) = <<>>
  BY DEF Voices
<1> HIDE DEF T, v, w, m
<1>4. s \in Seq(T)
  BY DEF T
<1>5. Append(s \o v, m) = s \o Append(v, m)
  <2>1. s \o v \in Seq(T) /\ <<m>> \in Seq(T)
    BY <1>1, <1>4
  <2>2. Append(s \o v, m) = (s \o v) \o <<m>> /\ Append(v, m) = v \o <<m>>
    BY <1>1, <2>1, AppendIsConcat
  <2>3. (s \o v) \o <<m>> = s \o (v \o <<m>>)
    BY <1>1, <1>4, <2>1, ConcatAssociative
  <2> QED
    BY <2>2, <2>3
<1>6. s \o <<>> = s
  BY <1>4, ConcatEmptySeq
<1> QED
  BY <1>2, <1>3, <1>5, <1>6 DEF v, w, m

\* The steps of the ranks that send keep it.
LEMMA OtherOrder ==
    ASSUME FailsAlone = FALSE, OrderInv, NEW r \in Ranks, r # 0, StepOf(r)
    PROVE  OutIsSpoken' /\ MailInTime' /\ MailReceived'
<1>0. /\ RanksTyped /\ Basics /\ MatchInv /\ InPlace(r) /\ Follows(r) /\ 0 \in Ranks /\ "log" \in Tags
      /\ program' = program /\ OutIsSpoken /\ MailInTime /\ MailReceived
  BY RanksAre, ProgramStays DEF StepOf, RankNext, OrderInv, MatchInv, Basics, AllInPlace, AllFollow, Tags
<1>1. ASSUME NEW q \in Ranks, q # r PROVE at'[q] = at[q] /\ rank_pc'[q] = rank_pc[q]
  BY <1>0, <1>1, StepIsLocal
<1>2. at'[0] = at[0] /\ rank_pc'[0] = rank_pc[0] /\ UNCHANGED <<turn, out>>
  BY <1>0, <1>1, OtherKinds
<1>3. at[r] \in Nat /\ at[0] \in Nat /\ turn \in Nat /\ r \in Nat
  BY <1>0, RanksAre DEF RanksTyped
<1>4. Within(r) \/ Entering(r) \/ Leaving(r) \/ Ending(r)
  BY <1>0, StepKinds
<1>5. at'[r] = at[r] \/ at'[r] = at[r] + 1
  BY <1>4 DEF Within, Entering, Leaving, Ending
<1>6. \/ OrderedSend(r) /\ rank_pc'[r] = "sent" /\ at'[r] = at[r]
      \/ /\ \A q \in Ranks : channel'[q]["log"] = channel[q]["log"]
         /\ \/ OrderedSent(r) /\ rank_pc'[r] = "barrier" /\ at'[r] = at[r]
            \/ LeaveBarrier(r) /\ at'[r] = at[r] + 1
            \/ rank_pc[r] \notin {"sent", "barrier"}
  BY <1>0, OtherKinds
<1>7. OutIsSpoken'
  <2>1. \A k : Spoken(k)' = Spoken(k)
    BY <1>0, SpokenStays
  <2>2. \A k : Spoken(k)' = Joined([i \in DOMAIN program' |-> Messages(i)'], k)
    BY DEF Spoken
  <2> QED
    BY <1>0, <1>2, <2>1 DEF OutIsSpoken
<1>8. OrderedSend(r) => rank_pc[r] = "call" /\ at[r] <= Len(program) /\ program[at[r]].op = "ordered" /\ ~rank_silent[r]
                          /\ Send(r, "log", <<at[r]>>)
  BY DEF OrderedSend, Calls
<1>9. HasSpoken(r) => at'[r] > at[0] \/ (at'[r] = at[0] /\ rank_pc'[r] \in {"sent", "barrier"})
  BY <1>3, <1>5, <1>6, <1>8 DEF HasSpoken
<1>10. MailReceived'
  <2>1. ASSUME NEW q \in Ranks, HasSpoken(q) PROVE HasSpoken(q)'
    <3>1. CASE q = r
      BY <1>2, <1>9, <2>1, <3>1 DEF HasSpoken
    <3>2. CASE q # r
      BY <1>1, <1>2, <2>1, <3>2 DEF HasSpoken
    <3> QED
      BY <3>1, <3>2
  <2> QED
    BY <1>0, <1>2, <2>1 DEF MailReceived
<1>11. ASSUME NEW q \in Ranks, q # 0, q # r, HasMail(q)'
       PROVE  /\ channel'[q]["log"] = <<at'[q]>>
              /\ rank_pc'[q] \in {"sent", "barrier"} /\ program[at'[q]].op = "ordered"
              /\ at[0] <= at'[q]
              /\ at[0] = at'[q] => rank_pc[0] # "barrier" /\ (rank_pc[0] = "receive" => turn <= q)
  <2>1. channel'[q]["log"] = channel[q]["log"]
    BY <1>0, <1>6, <1>8, <1>11, ChannelAfter
  <2>2. HasMail(q)
    BY <1>11, <2>1 DEF HasMail
  <2> QED
    BY <1>0, <1>1, <1>11, <2>1, <2>2 DEF MailInTime
<1>12. ASSUME HasMail(r)'
       PROVE  /\ channel'[r]["log"] = <<at'[r]>>
              /\ rank_pc'[r] \in {"sent", "barrier"} /\ program[at'[r]].op = "ordered"
              /\ at[0] <= at'[r]
              /\ at[0] = at'[r] => rank_pc[0] # "barrier" /\ (rank_pc[0] = "receive" => turn <= r)
  <2>1. CASE OrderedSend(r)
    <3>1. ~HasMail(r)
      BY <1>0, <1>8, <2>1 DEF MailInTime
    <3>2. channel'[r]["log"] = <<at[r]>>
      <4>0. RanksTyped /\ "log" \in Tags /\ Send(r, "log", <<at[r]>>)
        BY <1>0, <1>8, <2>1
      <4>1. channel'[r]["log"] = channel[r]["log"] \o <<at[r]>>
        <5>1. \A q \in Ranks : channel'[q]["log"] = IF q = r THEN channel[r]["log"] \o <<at[r]>> ELSE channel[q]["log"]
          BY <4>0, ChannelAfter
        <5> QED
          BY <5>1
      <4>2. channel[r]["log"] = <<>>
        BY <3>1 DEF HasMail
      <4>3. <<>> \o <<at[r]>> = <<at[r]>>
        OBVIOUS
      <4> QED
        BY <4>1, <4>2, <4>3
    <3>3. rank_pc'[r] = "sent" /\ at'[r] = at[r]
      <4>1. RankGoto(r, "sent")
        BY <2>1 DEF OrderedSend
      <4> QED
        BY <1>0, <4>1, Movement
    <3>4. Meeting(at[r]) /\ at[r] \in 1 .. Len(program)
      BY <1>0, <1>8, <2>1, SpeakersMeet
    <3>5. at[0] <= at[r]
      <4> SUFFICES ASSUME at[0] > at[r] PROVE FALSE
        BY <1>3
      <4> QED
        BY <1>0, <1>3, <1>8, <2>1, <3>4, PassedBarrier
    <3>6. ~HasSpoken(r) \/ at[r] # at[0]
      BY <1>3, <1>8, <2>1 DEF HasSpoken
    <3>7. ASSUME at[0] = at[r] PROVE rank_pc[0] # "barrier" /\ (rank_pc[0] = "receive" => turn <= r)
      <4>1. ~HasSpoken(r) /\ program[at[0]].op = "ordered"
        BY <1>8, <2>1, <3>6, <3>7
      <4>2. rank_pc[0] # "barrier" /\ ~(rank_pc[0] = "receive" /\ r < turn)
        BY <1>0, <4>1 DEF MailReceived
      <4> QED
        BY <1>3, <4>2
    <3> QED
      BY <1>8, <2>1, <3>2, <3>3, <3>5, <3>7
  <2>2. CASE ~OrderedSend(r)
    <3>1. channel'[r]["log"] = channel[r]["log"]
      BY <1>6, <2>2
    <3>2. HasMail(r)
      BY <1>12, <3>1 DEF HasMail
    <3>3. /\ channel[r]["log"] = <<at[r]>>
          /\ rank_pc[r] \in {"sent", "barrier"} /\ program[at[r]].op = "ordered"
          /\ at[0] <= at[r]
          /\ at[0] = at[r] => rank_pc[0] # "barrier" /\ (rank_pc[0] = "receive" => turn <= r)
      BY <1>0, <3>2 DEF MailInTime
    <3>4. CASE LeaveBarrier(r)
      <4>1. rank_pc[r] = "barrier" /\ entered[0] >= entered[r]
        BY <1>0, <3>4 DEF LeaveBarrier
      <4>2. Meeting(at[r]) /\ at[r] \in 1 .. Len(program)
        BY <3>2, MailMeets
      <4>3. entered[r] = Past(at[r]).entered
        BY <1>0, <4>1 DEF Follows, Agrees
      <4>4. at[0] < at[r] \/ (at[0] = at[r] /\ rank_pc[0] # "barrier")
        BY <1>3, <3>3
      <4>5. entered[0] < Past(at[r]).entered
        BY <1>0, <4>2, <4>4, BeforeBarrier
      <4>6. entered[0] \in Nat /\ entered[r] \in Nat
        BY <1>0 DEF RanksTyped
      <4> QED
        BY <4>1, <4>3, <4>5, <4>6
    <3>5. CASE rank_pc'[r] = "barrier" /\ at'[r] = at[r]
      BY <3>1, <3>3, <3>5
    <3> QED
      BY <1>6, <2>2, <3>3, <3>4, <3>5
  <2> QED
    BY <2>1, <2>2
<1>13. MailInTime'
  BY <1>0, <1>2, <1>11, <1>12 DEF MailInTime
<1> QED
  BY <1>7, <1>10, <1>13

\* The steps of rank 0 keep it.
LEMMA RootOrder ==
    ASSUME FailsAlone = FALSE, OrderInv, StepOf(0)
    PROVE  OutIsSpoken' /\ MailInTime' /\ MailReceived'
<1> DEFINE k == at[0]
           before == Spoken(at[0] - 1)
<1>0. /\ RanksTyped /\ Basics /\ MatchInv /\ InPlace(0) /\ Follows(0) /\ 0 \in Ranks /\ "log" \in Tags
      /\ program' = program /\ OutIsSpoken /\ MailInTime /\ MailReceived /\ program \in Programs
      /\ (rank_pc[0] = "receive" => turn # 0)
  BY RanksAre, ProgramStays DEF StepOf, RankNext, OrderInv, MatchInv, Basics, AllInPlace, AllFollow, Tags, RanksTyped
<1>1. \A q \in Ranks : q # 0 => at'[q] = at[q] /\ rank_pc'[q] = rank_pc[q]
  BY <1>0, StepIsLocal
<1>2. /\ k \in Nat \ {0} /\ k - 1 \in Nat /\ turn \in 0 .. N /\ N \in Nat /\ before \in Seq(Nat \X Message \X Nat)
      /\ \A q \in Ranks : q \in Nat /\ q < N /\ at[q] \in Nat
  <2>1. k \in Nat \ {0} /\ k - 1 \in 0 .. Len(program) /\ Len(program) \in Nat
    BY <1>0, WhereRanksAre
  <2>2. before \in Seq(Nat \X Message \X Nat)
    BY <1>0, <2>1, SpokenSteps
  <2>3. \A q \in Ranks : q \in Nat /\ q < N /\ at[q] \in Nat
    <3>1. \A q \in Ranks : q \in Nat /\ q < N
      BY RanksAre DEF Ranks
    <3>2. at \in [Ranks -> Nat \ {0}]
      BY <1>0 DEF RanksTyped
    <3> QED
      BY <3>1, <3>2
  <2>4. turn \in 0 .. N
    BY <1>0 DEF RanksTyped
  <2> QED
    BY <2>1, <2>2, <2>3, <2>4, RanksAre
<1>3. k <= Len(program) => Spoken(k) = IF program[k].op = "ordered" /\ Meeting(k) THEN before \o Voices(k, N) ELSE before
  BY <1>0, WhereRanksAre, SpokenSteps
<1>4. /\ rank_pc'[0] = "receive" /\ out' = Spoken(at'[0] - 1) \o Voices(at'[0], turn') => OutIsSpoken'
      /\ rank_pc'[0] = "barrier" /\ out' = Spoken(at'[0]) => OutIsSpoken'
      /\ rank_pc'[0] \notin {"receive", "barrier"} /\ out' = Spoken(at'[0] - 1) => OutIsSpoken'
  <2>1. Spoken(at[0] - 1)' = Spoken(at'[0] - 1) /\ Spoken(at[0])' = Spoken(at'[0])
    BY <1>0 DEF Spoken, Messages, Silenced
  <2> QED
    BY <2>1 DEF OutIsSpoken, Voices
<1>5. \A q \in Ranks : q # 0 /\ HasMail(q) =>
        /\ channel[q]["log"] = <<at[q]>>
        /\ rank_pc[q] \in {"sent", "barrier"} /\ program[at[q]].op = "ordered"
        /\ k <= at[q]
        /\ k = at[q] => rank_pc[0] # "barrier" /\ (rank_pc[0] = "receive" => turn <= q)
  BY <1>0 DEF MailInTime
<1>6. ASSUME \A q \in Ranks : q # 0 /\ HasMail(q)' =>
                /\ channel'[q]["log"] = channel[q]["log"]
                /\ at'[0] <= at[q]
                /\ at'[0] = at[q] => rank_pc'[0] # "barrier" /\ (rank_pc'[0] = "receive" => turn' <= q)
      PROVE  MailInTime'
  <2>1. ASSUME NEW q \in Ranks, q # 0, HasMail(q)' PROVE channel'[q]["log"] = channel[q]["log"] /\ HasMail(q)
    BY <1>6, <2>1 DEF HasMail
  <2> QED
    BY <1>0, <1>1, <1>5, <1>6, <2>1 DEF MailInTime
<1>7. (\A q \in Ranks : q # 0 /\ rank_pc'[0] = "receive" /\ q < turn' => HasSpoken(q)')
      /\ (\A q \in Ranks : q # 0 /\ rank_pc'[0] = "barrier" /\ program[at'[0]].op = "ordered" => HasSpoken(q)')
      => MailReceived'
  BY <1>0 DEF MailReceived
<1>8. at'[0] = k => \A q \in Ranks : q # 0 /\ HasSpoken(q) => HasSpoken(q)'
  BY <1>1 DEF HasSpoken
<1> HIDE DEF before
<1>11. CASE OrderedRoot
  <2>1. /\ rank_pc[0] = "call" /\ at'[0] = k /\ rank_pc'[0] = "receive" /\ turn' = 1 /\ UNCHANGED channel
        /\ out' = Append(out, <<k, k, 0>>)
    <3>1. RankGoto(0, "receive")
      BY <1>11 DEF OrderedRoot
    <3>2. at'[0] = k /\ rank_pc'[0] = "receive"
      BY <1>0, <3>1, Movement
    <3> QED
      BY <1>11, <3>2 DEF OrderedRoot, Calls, mpi
  <2>2. OutIsSpoken'
    <3>1. out = before
      BY <1>0, <2>1 DEF OutIsSpoken, before
    <3>2. out' = before \o Voices(k, 1)
      <4>1. Append(before \o Voices(k, 0), <<k, k, 0>>) = before \o Voices(k, 0 + 1) /\ before \o Voices(k, 0) = before
        BY <1>2, VoicesGrow
      <4>2. 0 + 1 = 1
        OBVIOUS
      <4> QED
        BY <2>1, <3>1, <4>1, <4>2
    <3>3. out' = Spoken(at'[0] - 1) \o Voices(at'[0], turn')
      BY <2>1, <3>2 DEF before
    <3> QED
      BY <1>4, <2>1, <3>3
  <2>3. MailInTime'
    <3>1. ASSUME NEW q \in Ranks, q # 0, HasMail(q)' PROVE HasMail(q)
      BY <2>1, <3>1 DEF HasMail
    <3> QED
      BY <1>2, <1>5, <1>6, <2>1, <3>1
  <2>4. MailReceived'
    BY <1>2, <1>7, <2>1
  <2> QED
    BY <2>2, <2>3, <2>4
<1>12. CASE OrderedReceive
  <2>0. rank_pc[0] = "receive" /\ turn \in Ranks /\ turn # 0 /\ turn \in Nat /\ HasMail(turn)
    BY <1>0, <1>2, <1>12 DEF OrderedReceive, Ranks, HasMail
  <2>1. /\ at'[0] = k /\ rank_pc'[0] = "receive" /\ turn' = turn + 1 /\ Receive(turn, "log", 1)
        /\ out' = Append(out, <<k, Head(channel[turn]["log"]), turn>>)
    BY <1>12, <2>0 DEF OrderedReceive
  <2>2. k <= Len(program) /\ program[k].op = "ordered" /\ ~rank_silent[0]
    BY <1>0, <2>0 DEF InPlace
  <2>3. Meeting(k) /\ k \in 1 .. Len(program)
    BY <1>0, <2>2, SpeakersMeet
  <2>4. at[turn] = k
    <3>1. k <= at[turn]
      BY <1>5, <2>0
    <3>2. ~(at[turn] > k)
      <4> SUFFICES ASSUME at[turn] > k PROVE FALSE
        OBVIOUS
      <4>1. at[0] > k \/ (at[0] = k /\ rank_pc[0] = "barrier")
        BY <1>0, <2>0, <2>3, PassedBarrier
      <4> QED
        BY <1>2, <2>0, <4>1
    <3> QED
      BY <1>2, <2>0, <3>1, <3>2
  <2>5. channel[turn]["log"] = <<k>> /\ rank_pc[turn] \in {"sent", "barrier"}
    BY <1>5, <2>0, <2>4
  <2>6. \A q \in Ranks : channel'[q]["log"] = IF q = turn THEN <<>> ELSE channel[q]["log"]
    <3>1. SubSeq(<<k>>, 1 + 1, Len(<<k>>)) = <<>>
      BY <1>2
    <3>2. \A q \in Ranks : channel'[q]["log"] = IF q = turn THEN SubSeq(channel[turn]["log"], 1 + 1, Len(channel[turn]["log"]))
                                                  ELSE channel[q]["log"]
      BY <1>0, <2>0, <2>1, ChannelAfter
    <3> QED
      BY <2>5, <3>1, <3>2
  <2>7. OutIsSpoken'
    <3>1. out = before \o Voices(k, turn)
      BY <1>0, <2>0 DEF OutIsSpoken, before
    <3>2. Head(<<k>>) = k
      OBVIOUS
    <3>3. out' = before \o Voices(k, turn + 1)
      <4>1. Append(before \o Voices(k, turn), <<k, k, turn>>) = before \o Voices(k, turn + 1)
        BY <1>2, <2>0, VoicesGrow
      <4> QED
        BY <2>1, <2>5, <3>1, <3>2, <4>1
    <3>4. out' = Spoken(at'[0] - 1) \o Voices(at'[0], turn')
      BY <2>1, <3>3 DEF before
    <3> QED
      BY <1>4, <2>1, <3>4
  <2>8. MailInTime'
    <3>1. ASSUME NEW q \in Ranks, q # 0, HasMail(q)' PROVE HasMail(q) /\ q # turn /\ channel'[q]["log"] = channel[q]["log"]
      BY <2>6, <3>1 DEF HasMail
    <3> QED
      BY <1>2, <1>5, <1>6, <2>0, <2>1, <3>1
  <2>9. MailReceived'
    <3>1. ASSUME NEW q \in Ranks, q # 0, q < turn' PROVE HasSpoken(q)
      <4>1. CASE q = turn
        BY <2>4, <2>5, <4>1 DEF HasSpoken
      <4>2. CASE q # turn
        <5>1. q < turn
          BY <1>2, <2>0, <2>1, <3>1, <4>2
        <5> QED
          BY <1>0, <2>0, <3>1, <5>1 DEF MailReceived
      <4> QED
        BY <4>1, <4>2
    <3> QED
      BY <1>7, <1>8, <2>1, <3>1
  <2> QED
    BY <2>7, <2>8, <2>9
<1>13. CASE OrderedRootEnds
  <2>1. rank_pc[0] = "receive" /\ turn = N /\ at'[0] = k /\ rank_pc'[0] = "barrier" /\ UNCHANGED <<channel, out>>
    <3>1. EnterBarrier(0)
      BY <1>13 DEF OrderedRootEnds
    <3>2. at'[0] = k /\ rank_pc'[0] = "barrier"
      BY <1>0, <3>1, Movement
    <3> QED
      BY <1>13, <3>2 DEF OrderedRootEnds, root
  <2>2. k <= Len(program) /\ program[k].op = "ordered" /\ ~rank_silent[0]
    BY <1>0, <2>1 DEF InPlace
  <2>3. Meeting(k)
    BY <1>0, <2>2, SpeakersMeet
  <2>4. OutIsSpoken'
    <3>1. out = before \o Voices(k, N)
      BY <1>0, <2>1 DEF OutIsSpoken, before
    <3>2. out' = Spoken(at'[0])
      BY <1>3, <2>1, <2>2, <2>3, <3>1
    <3> QED
      BY <1>4, <2>1, <3>2
  <2>5. MailInTime'
    <3>1. ASSUME NEW q \in Ranks, q # 0, HasMail(q)' PROVE HasMail(q)
      BY <2>1, <3>1 DEF HasMail
    <3>2. \A q \in Ranks : ~(turn <= q)
      BY <1>2, <2>1
    <3> QED
      BY <1>5, <1>6, <2>1, <3>1, <3>2
  <2>6. MailReceived'
    <3>1. ASSUME NEW q \in Ranks, q # 0 PROVE HasSpoken(q)
      BY <1>0, <1>2, <2>1, <3>1 DEF MailReceived
    <3> QED
      BY <1>7, <1>8, <2>1, <3>1
  <2> QED
    BY <2>4, <2>5, <2>6
<1>14. CASE /\ UNCHANGED out /\ rank_pc[0] # "receive" /\ rank_pc'[0] # "receive"
            /\ \A r \in Ranks : channel'[r]["log"] = channel[r]["log"]
            /\ rank_pc'[0] = "barrier" => program[at[0]].op # "ordered"
  <2>1. \A q \in Ranks : HasMail(q)' => HasMail(q)
    BY <1>14 DEF HasMail
  <2>2. MailReceived' \/ rank_pc'[0] = "barrier"
    BY <1>7, <1>14
  <2>3. CASE Within(0)
    <3>1. at'[0] = k /\ rank_pc[0] # "barrier" /\ rank_pc'[0] # "barrier" /\ out' = before
      BY <1>0, <1>14, <2>3 DEF Within, OutIsSpoken, before
    <3>2. OutIsSpoken'
      BY <1>4, <1>14, <3>1 DEF before
    <3>3. MailInTime'
      BY <1>5, <1>6, <1>14, <2>1, <3>1
    <3> QED
      BY <2>2, <3>1, <3>2, <3>3
  <2>4. CASE Entering(0)
    <3>1. /\ at'[0] = k /\ rank_pc[0] # "barrier" /\ rank_pc'[0] = "barrier" /\ out' = before /\ k <= Len(program)
          /\ program[k].op # "ordered"
      BY <1>0, <1>14, <2>4 DEF Entering, OutIsSpoken, before
    <3>2. OutIsSpoken'
      BY <1>3, <1>4, <3>1
    <3>3. MailInTime'
      BY <1>5, <1>6, <1>14, <2>1, <3>1
    <3>4. MailReceived'
      BY <1>7, <3>1
    <3> QED
      BY <3>2, <3>3, <3>4
  <2>5. CASE Leaving(0)
    <3>1. at'[0] = k + 1 /\ rank_pc[0] = "barrier" /\ rank_pc'[0] = "call" /\ out' = Spoken(k)
      BY <1>0, <1>14, <2>5 DEF Leaving, OutIsSpoken
    <3>2. OutIsSpoken'
      <4>1. at'[0] - 1 = k
        BY <1>2, <3>1
      <4> QED
        BY <1>4, <3>1, <4>1
    <3>3. MailInTime'
      <4>1. ASSUME NEW q \in Ranks, q # 0, HasMail(q) PROVE k + 1 <= at[q]
        <5>1. k <= at[q] /\ k # at[q]
          BY <1>5, <3>1, <4>1
        <5> QED
          BY <1>2, <5>1
      <4> QED
        BY <1>6, <1>14, <2>1, <3>1, <4>1
    <3> QED
      BY <2>2, <3>1, <3>2, <3>3
  <2>6. CASE Ending(0)
    <3>1. /\ at'[0] = k + 1 /\ rank_pc[0] # "barrier" /\ rank_pc'[0] = "call" /\ out' = before /\ k <= Len(program)
          /\ ~Meeting(k)
      BY <1>0, <1>14, <2>6 DEF Ending, OutIsSpoken, before, Meeting
    <3>2. OutIsSpoken'
      <4>1. at'[0] - 1 = k /\ out' = Spoken(k)
        BY <1>2, <1>3, <3>1
      <4> QED
        BY <1>4, <3>1, <4>1
    <3>3. MailInTime'
      <4>1. \A q \in Ranks : q # 0 /\ HasMail(q) => at[q] # k
        BY <3>1, MailMeets
      <4>2. \A q \in Ranks : q # 0 /\ HasMail(q) => k + 1 <= at[q]
        BY <1>2, <1>5, <4>1
      <4> QED
        BY <1>6, <1>14, <2>1, <3>1, <4>2
    <3> QED
      BY <2>2, <3>1, <3>2, <3>3
  <2> QED
    BY <1>0, <2>3, <2>4, <2>5, <2>6, StepKinds
<1> QED
  BY <1>0, <1>11, <1>12, <1>13, <1>14, RootKinds

\* Nothing is printed and nothing on its way at first.
LEMMA InitOrder == ASSUME RankInit PROVE OrderInv
<1>1. MatchInv
  BY InitMatch
<1>2. Spoken(0) = <<>>
  BY <1>1, SpokenSteps DEF MatchInv, Basics, RanksTyped
<1>3. at[0] - 1 = 0 /\ rank_pc[0] = "call" /\ out = <<>>
  BY RanksAre DEF RankInit
<1>4. \A r \in Ranks : channel[r]["log"] = <<>>
  BY DEF RankInit, Tags
<1> QED
  BY <1>1, <1>2, <1>3, <1>4 DEF OrderInv, OutIsSpoken, MailInTime, MailReceived, HasMail

\* No step puts what is printed out of order.
LEMMA NextOrder == ASSUME FailsAlone = FALSE, OrderInv, [RankNext]_rank_vars PROVE OrderInv'
<1>1. MatchInv'
  BY NextMatch DEF OrderInv
<1>2. CASE \E r \in Ranks : StepOf(r)
  BY <1>1, <1>2, OtherOrder, RootOrder DEF OrderInv
<1>3. CASE UNCHANGED rank_vars
  <2>1. program' = program
    BY <1>3, ProgramStays
  <2>2. UNCHANGED <<at, rank_pc, channel, turn, out>>
    BY <1>3 DEF rank_vars, mpi, root
  <2>3. Spoken(at[0] - 1)' = Spoken(at[0] - 1) /\ Spoken(at[0])' = Spoken(at[0])
    BY <2>1, <2>2 DEF Spoken, Messages, Silenced
  <2>4. OutIsSpoken'
    BY <2>2, <2>3 DEF OrderInv, OutIsSpoken, Voices
  <2>5. MailInTime' /\ MailReceived'
    BY <2>1, <2>2 DEF OrderInv, MailInTime, MailReceived, HasMail, HasSpoken
  <2> QED
    BY <1>1, <2>4, <2>5 DEF OrderInv
<1>4. ASSUME NEW r \in Ranks, Step(r) PROVE StepOf(r)
  BY <1>4 DEF StepOf
<1>5. Root => 0 \in Ranks /\ StepOf(0)
  BY RanksAre DEF StepOf
<1> QED
  BY <1>2, <1>3, <1>4, <1>5 DEF RankNext, Finish

\* The first voices of a call are the beginning of all.
LEMMA VoicesBegin ==
    ASSUME NEW k \in Nat, NEW m \in 0 .. N
    PROVE  LET T == Nat \X Message \X Nat
           IN  Voices(k, m) \in Seq(T) /\ Voices(k, N) \in Seq(T) /\ Begins(Voices(k, m), Voices(k, N), T)
<1> DEFINE T == Nat \X Message \X Nat
           v == Voices(k, m)
           w == Voices(k, N)
           more == [i \in 1 .. N - m |-> <<k, k, m + i - 1>>]
<1>0. N \in Nat /\ m \in Nat /\ N - m \in Nat
  BY RanksAre
<1>1. /\ \A i \in 1 .. N - m : <<k, k, m + i - 1>> \in T
      /\ \A i \in 1 .. N : <<k, k, i - 1>> \in T
  BY <1>0 DEF Message
<1>2. more \in Seq(T) /\ Len(more) = N - m /\ \A i \in 1 .. N - m : more[i] = <<k, k, m + i - 1>>
  BY <1>0, <1>1
<1>3. /\ v \in Seq(T) /\ Len(v) = m /\ \A i \in 1 .. m : v[i] = <<k, k, i - 1>>
      /\ w \in Seq(T) /\ Len(w) = N /\ \A i \in 1 .. N : w[i] = <<k, k, i - 1>>
  BY <1>0, <1>1 DEF Voices
<1> HIDE DEF T, v, w, more
<1>4. /\ v \o more \in Seq(T) /\ Len(v \o more) = N
      /\ \A i \in 1 .. N : (v \o more)[i] = IF i <= m THEN v[i] ELSE more[i - m]
  <2>1. v \o more \in Seq(T) /\ Len(v \o more) = Len(v) + Len(more)
    BY <1>2, <1>3
  <2>2. \A i \in 1 .. Len(v) + Len(more) :
           (v \o more)[i] = IF i <= Len(v) THEN v[i] ELSE more[i - Len(v)]
    <3>1. v \in Seq(T) /\ more \in Seq(T)
      BY <1>2, <1>3
    <3> QED
      BY <3>1, ConcatProperties, Zenon
  <2>3. Len(v) = m /\ Len(v) + Len(more) = N
    BY <1>0, <1>2, <1>3
  <2> QED
    BY <2>1, <2>2, <2>3
<1>5. ASSUME NEW i \in 1 .. N PROVE w[i] = (v \o more)[i]
  <2>1. CASE i <= m
    <3>1. i \in 1 .. m
      BY <1>0, <2>1
    <3> QED
      BY <1>3, <1>4, <2>1, <3>1
  <2>2. CASE ~(i <= m)
    <3>1. i - m \in 1 .. N - m /\ m + (i - m) - 1 = i - 1
      BY <1>0, <2>2
    <3> QED
      BY <1>2, <1>3, <1>4, <2>2, <3>1
  <2> QED
    BY <2>1, <2>2
<1>6. w = v \o more
  BY <1>3, <1>4, <1>5, SeqEqual
<1> QED
  BY <1>2, <1>3, <1>6 DEF Begins, T, v, w

\* What is printed is always the beginning of what the program says.
LEMMA OutIsPrefix == ASSUME OrderInv PROVE OrderedInOrder
<1> DEFINE T == Nat \X Message \X Nat
           n == Len(program)
           k == at[0]
<1>0. /\ Basics /\ MatchInv /\ OutIsSpoken /\ program \in Programs /\ InPlace(0) /\ 0 \in Ranks /\ turn \in 0 .. N
      /\ N \in Nat
  BY RanksAre DEF OrderInv, MatchInv, Basics, RanksTyped, AllInPlace
<1>1. /\ n \in Nat /\ DOMAIN program = 1 .. n /\ k \in Nat \ {0} /\ k - 1 \in 0 .. n
      /\ rank_pc[0] # "call" => k \in 1 .. n /\ k \in 0 .. n
  BY <1>0, WhereRanksAre, ProgramIsSequence
<1>2. Printed = Spoken(n)
  BY DEF Printed, Spoken
<1>3. ASSUME NEW i \in 0 .. n PROVE Begins(Spoken(i), Spoken(n), T)
  <2> DEFINE s == [j \in DOMAIN program |-> Messages(j)]
  <2>1. \A j \in 1 .. n : s[j] \in Seq(T)
    BY <1>0, <1>1, PrintsAndMeets
  <2>2. Spoken(n) = Joined(s, n) /\ Spoken(i) = Joined(s, i)
    BY DEF Spoken
  <2>3. n \in Nat /\ n \in 0 .. n /\ i \in 0 .. n /\ i <= n
    BY <1>1
  <2> HIDE DEF s, n, T
  <2>4. Begins(Joined(s, i), Joined(s, n), T)
    BY <2>1, <2>3, JoinedGrows
  <2> QED
    BY <2>2, <2>4
<1>4. \A i \in 0 .. n : Spoken(i) \in Seq(T)
  BY <1>0, SpokenSteps
<1>5. out \in Seq(T) /\ Begins(out, Spoken(n), T)
  <2>1. CASE rank_pc[0] = "receive"
    <3> DEFINE before == Spoken(k - 1)
               v == Voices(k, turn)
               w == Voices(k, N)
    <3>1. out = before \o v /\ k \in 1 .. n /\ k \in 0 .. n
      BY <1>0, <1>1, <2>1 DEF OutIsSpoken
    <3>2. program[k].op = "ordered" /\ Meeting(k)
      BY <1>0, <1>1, <2>1, SpeakersMeet DEF InPlace
    <3>3. Spoken(k) = before \o w
      BY <1>0, <1>1, <3>1, <3>2, SpokenSteps
    <3>4. v \in Seq(T) /\ w \in Seq(T) /\ Begins(v, w, T)
      BY <1>0, <1>1, VoicesBegin
    <3>5. before \in Seq(T) /\ Spoken(k) \in Seq(T) /\ Spoken(n) \in Seq(T) /\ Begins(Spoken(k), Spoken(n), T)
      <4>1. n \in 0 .. n
        BY <1>1
      <4> HIDE DEF n, T
      <4> QED
        BY <1>1, <1>3, <1>4, <3>1, <4>1
    <3> HIDE DEF before, v, w, T, n
    <3>6. out \in Seq(T) /\ Begins(out, Spoken(k), T)
      BY <3>1, <3>3, <3>4, <3>5, BeginsAfter
    <3> QED
      BY <3>5, <3>6, BeginsTransitive
  <2>2. CASE rank_pc[0] # "receive"
    <3>1. (out = Spoken(k) /\ k \in 0 .. n) \/ out = Spoken(k - 1)
      BY <1>0, <1>1, <2>2 DEF OutIsSpoken
    <3> QED
      BY <1>1, <1>3, <1>4, <3>1
  <2> QED
    BY <2>1, <2>2
<1> QED
  BY <1>2, <1>5, BeginsIsPrefix DEF OrderedInOrder

\* As long as a folder opens on all ranks or on none (log.c): what rank 0 has
\* printed is what the ranks below turn said, and a rank has at most one
\* message on its way, that of the call it is in.
THEOREM RanksSpeakInOrder == FailsAlone = FALSE /\ RankSpec => []OrderInv
<1> SUFFICES ASSUME FailsAlone = FALSE PROVE RankSpec => []OrderInv
  OBVIOUS
<1>1. RankInit => OrderInv
  BY InitOrder
<1>2. OrderInv /\ [RankNext]_rank_vars => OrderInv'
  BY NextOrder
<1> QED
  BY <1>1, <1>2, PTL DEF RankSpec

\* For any number of ranks and any program (log.c): mys_log_ordered prints the
\* messages rank after rank and call after call, those of silent loggers left
\* out, whatever the order they arrive in.
THEOREM OrderedLogIsOrdered == FailsAlone = FALSE /\ RankSpec => []OrderedInOrder
<1> SUFFICES ASSUME FailsAlone = FALSE PROVE RankSpec => []OrderedInOrder
  OBVIOUS
<1>1. OrderInv => OrderedInOrder
  BY OutIsPrefix
<1> QED
  BY <1>1, RanksSpeakInOrder, PTL

-----------------------------------------------------------------------------
(***************************************************************************)
(* The rank logs.  No folder has two slots, an open folder writes to its   *)
(* own file, and tot_wrote is what that file holds.                        *)
(***************************************************************************)
Files == [Folders -> Seq(Folders)]

TableIsExact(d, files) ==
    /\ Len(d) <= _MYS_RANK_LOG_DEST_NUM
    /\ \A f \in Folders : \A i \in DOMAIN files[f] : files[f][i] = f
    /\ \A i, j \in DOMAIN d : d[i].folder = d[j].folder => i = j
    /\ \A i \in DOMAIN d : d[i].file \in {NoFile, d[i].folder} /\ d[i].tot_wrote = Len(files[d[i].folder])

LogsAreExact == \A r \in Ranks : TableIsExact(dests[r], file[r])

\* As long as no folder's name begins another's, the slot that is found is the folder's.
LEMMA FoundIsFolder ==
    ASSUME BeginsName = {}, NEW d \in Seq(Slot), NEW files, TableIsExact(d, files), NEW f
    PROVE  \/ FindDest(d, f) = 0 /\ \A i \in DOMAIN d : d[i].folder # f
           \/ FindDest(d, f) \in 1 .. Len(d) /\ d[FindDest(d, f)].folder = f
<1> DEFINE found == {i \in DOMAIN d : d[i].folder = f \/ <<f, d[i].folder>> \in BeginsName}
<1>1. FindDest(d, f) = IF found = {} THEN 0 ELSE Min(found)
  BY DEF FindDest
<1>2. \A i : i \in found <=> i \in 1 .. Len(d) /\ d[i].folder = f
  OBVIOUS
<1> HIDE DEF found
<1>3. CASE found = {}
  BY <1>1, <1>2, <1>3
<1>4. CASE found # {}
  <2>1. PICK k : k \in found
    BY <1>4
  <2>2. \A i \in found : i = k
    BY <1>2, <2>1 DEF TableIsExact
  <2>3. Min(found) \in found
    <3>1. k \in Nat /\ \A y \in found : k <= y
      BY <1>2, <2>1, <2>2
    <3> QED
      BY <2>1, <3>1 DEF Min
  <2> QED
    BY <1>1, <1>2, <1>4, <2>3
<1> QED
  BY <1>3, <1>4

\* A slot changes, and the file of its folder with it.
LEMMA SlotChanges ==
    ASSUME NEW d \in Seq(Slot), NEW files \in Files, TableIsExact(d, files),
           NEW k \in 1 .. Len(d), NEW new \in Slot, NEW then \in Files,
           new.folder = d[k].folder, new.file \in {NoFile, new.folder},
           \A g \in Folders : g # new.folder => then[g] = files[g],
           \A i \in DOMAIN then[new.folder] : then[new.folder][i] = new.folder,
           new.tot_wrote = Len(then[new.folder])
    PROVE  TableIsExact([d EXCEPT ![k] = new], then)
<1> DEFINE e == [d EXCEPT ![k] = new]
<1>1. Len(d) \in Nat /\ DOMAIN d = 1 .. Len(d) /\ d \in [1 .. Len(d) -> Slot]
  OBVIOUS
<1>2. Len(e) = Len(d) /\ DOMAIN e = DOMAIN d /\ \A i \in DOMAIN d : e[i] = IF i = k THEN new ELSE d[i]
  <2>1. e \in [1 .. Len(d) -> Slot]
    BY <1>1
  <2>2. e \in Seq(Slot) /\ Len(e) = Len(d)
    BY <1>1, <2>1, SeqDef
  <2> QED
    BY <1>1, <2>2
<1>3. \A i \in DOMAIN d : d[i].folder \in Folders
  BY <1>1 DEF Slot
<1> HIDE DEF e
<1>4. Len(e) <= _MYS_RANK_LOG_DEST_NUM
  BY <1>2 DEF TableIsExact
<1>5. \A f \in Folders : \A i \in DOMAIN then[f] : then[f][i] = f
  BY DEF TableIsExact
<1>6. \A i \in DOMAIN e : e[i].folder = d[i].folder
  BY <1>2
<1>7. \A i, j \in DOMAIN e : e[i].folder = e[j].folder => i = j
  BY <1>2, <1>6 DEF TableIsExact
<1>8. ASSUME NEW i \in DOMAIN e
      PROVE  e[i].file \in {NoFile, e[i].folder} /\ e[i].tot_wrote = Len(then[e[i].folder])
  <2>1. CASE i = k
    BY <1>2, <2>1
  <2>2. CASE i # k
    <3>1. e[i] = d[i] /\ i \in DOMAIN d /\ d[i].folder # new.folder
      BY <1>1, <1>2, <1>8, <2>2 DEF TableIsExact
    <3>2. then[d[i].folder] = files[d[i].folder]
      BY <1>3, <3>1
    <3> QED
      BY <3>1, <3>2 DEF TableIsExact
  <2> QED
    BY <2>1, <2>2
<1> QED
  BY <1>4, <1>5, <1>7, <1>8 DEF TableIsExact, e

\* RANKLOG_OPEN that succeeds.
LEMMA OpenIsExact ==
    ASSUME BeginsName = {}, NEW d \in Seq(Slot), NEW files \in Files, TableIsExact(d, files),
           NEW f \in Folders, MayOpen(d, f)
    PROVE  TableIsExact(Opened(d, f), IF Truncates(d, f) THEN [files EXCEPT ![f] = <<>>] ELSE files)
<1> DEFINE k == FindDest(d, f)
           new == [folder |-> f, file |-> f, tot_wrote |-> 0, cur_wrote |-> 0]
<1>0. Len(d) \in Nat /\ DOMAIN d = 1 .. Len(d)
  OBVIOUS
<1>1. (k = 0 /\ \A i \in DOMAIN d : d[i].folder # f) \/ (k \in 1 .. Len(d) /\ d[k].folder = f)
  BY FoundIsFolder
<1>2. Len(d) # _MYS_RANK_LOG_DEST_NUM
  BY DEF MayOpen
<1> HIDE DEF k
<1>3. CASE k = 0
  <2> DEFINE e == Append(d, new)
             then == [files EXCEPT ![f] = <<>>]
  <2>1. Opened(d, f) = e /\ Truncates(d, f)
    BY <1>3 DEF Opened, Truncates, k
  <2>2. new \in Slot /\ new.folder = f /\ new.file = f /\ new.tot_wrote = 0
    BY DEF Slot
  <2> HIDE DEF new
  <2>3. /\ Len(e) = Len(d) + 1 /\ DOMAIN e = 1 .. Len(d) + 1
        /\ \A i \in DOMAIN d : e[i] = d[i] /\ e[Len(d) + 1] = new
    BY <2>2
  <2>4. e[Len(d) + 1] = new
    BY <2>2
  <2>5. then \in Files /\ then[f] = <<>> /\ \A g \in Folders : g # f => then[g] = files[g]
    BY DEF Files
  <2>6. \A i \in DOMAIN d : d[i].folder \in Folders /\ d[i].folder # f
    <3>1. \A x \in Slot : x.folder \in Folders
      BY DEF Slot
    <3>2. \A i \in DOMAIN d : d[i] \in Slot
      OBVIOUS
    <3> QED
      BY <1>1, <1>3, <3>1, <3>2
  <2>7. \A i \in DOMAIN e : i \in DOMAIN d \/ i = Len(d) + 1
    BY <1>0, <2>3
  <2> HIDE DEF e, then
  <2>8. Len(e) <= _MYS_RANK_LOG_DEST_NUM
    <3>1. _MYS_RANK_LOG_DEST_NUM \in Nat
      BY RankLogAssumption
    <3>2. Len(d) <= _MYS_RANK_LOG_DEST_NUM
      BY DEF TableIsExact
    <3>3. \A x, y \in Nat : x <= y /\ x # y => x + 1 <= y
      OBVIOUS
    <3>4. Len(e) = Len(d) + 1
      BY <2>3
    <3>5. Len(d) + 1 <= _MYS_RANK_LOG_DEST_NUM
      BY <1>0, <1>2, <3>1, <3>2, <3>3, Zenon
    <3> QED
      BY <3>4, <3>5, Zenon
  <2>9. \A g \in Folders : \A i \in DOMAIN then[g] : then[g][i] = g
    BY <2>5 DEF TableIsExact
  <2>10. \A i, j \in DOMAIN e : e[i].folder = e[j].folder => i = j
    BY <1>0, <2>2, <2>3, <2>4, <2>6, <2>7 DEF TableIsExact
  <2>11. ASSUME NEW i \in DOMAIN e
         PROVE  e[i].file \in {NoFile, e[i].folder} /\ e[i].tot_wrote = Len(then[e[i].folder])
    <3>1. CASE i \in DOMAIN d
      BY <2>3, <2>5, <2>6, <3>1 DEF TableIsExact
    <3>2. CASE i = Len(d) + 1
      BY <2>2, <2>4, <2>5, <3>2
    <3> QED
      BY <2>7, <3>1, <3>2
  <2> QED
    BY <2>1, <2>8, <2>9, <2>10, <2>11 DEF TableIsExact, then
<1>4. CASE k # 0
  <2> DEFINE slot == [[d[k] EXCEPT !.file = f] EXCEPT !.cur_wrote = 0]
  <2>1. k \in 1 .. Len(d) /\ d[k].folder = f /\ d[k] \in Slot
    BY <1>1, <1>4
  <2>2. Opened(d, f) = [d EXCEPT ![k].file = f, ![k].cur_wrote = 0] /\ ~Truncates(d, f)
    BY <1>4 DEF Opened, Truncates, k
  <2>3. [d EXCEPT ![k].file = f, ![k].cur_wrote = 0] = [d EXCEPT ![k] = slot]
    BY <2>1
  <2>4. slot \in Slot /\ slot.folder = f /\ slot.file = f /\ slot.tot_wrote = d[k].tot_wrote
    BY <2>1 DEF Slot
  <2>5. slot.tot_wrote = Len(files[f]) /\ \A i \in DOMAIN files[f] : files[f][i] = f
    BY <1>0, <2>1, <2>4 DEF TableIsExact
  <2> HIDE DEF slot
  <2>6. TableIsExact([d EXCEPT ![k] = slot], files)
    BY <2>1, <2>4, <2>5, SlotChanges
  <2> QED
    BY <2>2, <2>3, <2>6
<1> QED
  BY <1>3, <1>4

\* RANKLOG_CLOSE and RANKLOG of an open folder.
LEMMA CloseIsExact ==
    ASSUME BeginsName = {}, NEW d \in Seq(Slot), NEW files \in Files, TableIsExact(d, files),
           NEW f \in Folders, IsOpen(d, f)
    PROVE  TableIsExact(Closed(d, f), files)
<1> DEFINE k == FindDest(d, f)
           slot == [d[k] EXCEPT !.file = NoFile]
<1>1. k \in 1 .. Len(d) /\ d[k].folder = f /\ d[k] \in Slot /\ k \in DOMAIN d
  BY FoundIsFolder DEF IsOpen
<1> HIDE DEF k
<1>2. Closed(d, f) = [d EXCEPT ![k].file = NoFile]
  BY DEF Closed, k
<1>3. [d EXCEPT ![k].file = NoFile] = [d EXCEPT ![k] = slot]
  BY <1>1
<1>4. slot \in Slot /\ slot.folder = f /\ slot.file = NoFile /\ slot.tot_wrote = d[k].tot_wrote
  BY <1>1 DEF Slot
<1>5. slot.tot_wrote = Len(files[f]) /\ \A i \in DOMAIN files[f] : files[f][i] = f
  BY <1>1, <1>4 DEF TableIsExact
<1> HIDE DEF slot
<1>6. TableIsExact([d EXCEPT ![k] = slot], files)
  BY <1>1, <1>4, <1>5, SlotChanges
<1> QED
  BY <1>2, <1>3, <1>6

\* A line is written to the file of its folder, and counted.
LEMMA WriteIsExact ==
    ASSUME BeginsName = {}, NEW d \in Seq(Slot), NEW files \in Files, TableIsExact(d, files),
           NEW f \in Folders, IsOpen(d, f)
    PROVE  FileOf(d, f) = f /\ TableIsExact(Wrote(d, f), [files EXCEPT ![f] = Append(@, f)])
<1> DEFINE k == FindDest(d, f)
           slot == [[d[k] EXCEPT !.tot_wrote = @ + 1] EXCEPT !.cur_wrote = @ + 1]
           then == [files EXCEPT ![f] = Append(@, f)]
<1>1. k \in 1 .. Len(d) /\ d[k].folder = f /\ d[k] \in Slot /\ k \in DOMAIN d /\ d[k].file # NoFile
  BY FoundIsFolder DEF IsOpen
<1> HIDE DEF k
<1>2. Wrote(d, f) = [d EXCEPT ![k].tot_wrote = @ + 1, ![k].cur_wrote = @ + 1]
  BY DEF Wrote, k
<1>3. [d EXCEPT ![k].tot_wrote = @ + 1, ![k].cur_wrote = @ + 1] = [d EXCEPT ![k] = slot]
  BY <1>1
<1>4. d[k].file = f
  BY <1>1 DEF TableIsExact
<1>5. slot \in Slot /\ slot.folder = f /\ slot.file = f /\ slot.tot_wrote = d[k].tot_wrote + 1
  <2> DEFINE here == d[k]
  <2>1. here \in Slot /\ here.folder = f /\ here.file = f
    BY <1>1, <1>4
  <2>2. here.tot_wrote + 1 \in Nat /\ here.cur_wrote + 1 \in Nat
    BY <2>1 DEF Slot
  <2> HIDE DEF here
  <2>3. \A x, y \in Nat : LET z == [[here EXCEPT !.tot_wrote = x] EXCEPT !.cur_wrote = y]
                          IN  z \in Slot /\ z.folder = f /\ z.file = f /\ z.tot_wrote = x
    BY <2>1 DEF Slot
  <2>4. [here EXCEPT !.tot_wrote = here.tot_wrote + 1].cur_wrote = here.cur_wrote
    BY <2>1 DEF Slot
  <2>5. [[here EXCEPT !.tot_wrote = @ + 1] EXCEPT !.cur_wrote = @ + 1]
          = [[here EXCEPT !.tot_wrote = here.tot_wrote + 1] EXCEPT !.cur_wrote = here.cur_wrote + 1]
    BY <2>4
  <2>6. slot = [[here EXCEPT !.tot_wrote = here.tot_wrote + 1] EXCEPT !.cur_wrote = here.cur_wrote + 1]
    BY <2>5 DEF here
  <2> HIDE DEF slot
  <2>7. slot \in Slot /\ slot.folder = f /\ slot.file = f /\ slot.tot_wrote = here.tot_wrote + 1
    BY <2>2, <2>3, <2>6
  <2> QED
    BY <2>7 DEF here
<1>6. files[f] \in Seq(Folders) /\ d[k].tot_wrote = Len(files[f]) /\ \A i \in DOMAIN files[f] : files[f][i] = f
  BY <1>1 DEF TableIsExact, Files
<1>7. then \in Files /\ then[f] = Append(files[f], f) /\ \A g \in Folders : g # f => then[g] = files[g]
  <2>1. Append(files[f], f) \in Seq(Folders)
    BY <1>6
  <2> QED
    BY <2>1 DEF Files
<1> HIDE DEF slot, then
<1>8. Len(then[f]) = slot.tot_wrote /\ \A i \in DOMAIN then[f] : then[f][i] = f
  BY <1>5, <1>6, <1>7
<1>9. TableIsExact([d EXCEPT ![k] = slot], then)
  <2>1. /\ slot.folder = d[k].folder /\ slot.file \in {NoFile, slot.folder} /\ slot.tot_wrote = Len(then[slot.folder])
        /\ \A g \in Folders : g # slot.folder => then[g] = files[g]
        /\ \A i \in DOMAIN then[slot.folder] : then[slot.folder][i] = slot.folder
    BY <1>1, <1>5, <1>7, <1>8
  <2>2. slot \in Slot /\ then \in Files /\ k \in 1 .. Len(d)
    BY <1>1, <1>5, <1>7
  <2> QED
    BY <2>1, <2>2, SlotChanges
<1> QED
  BY <1>2, <1>3, <1>4, <1>9 DEF then, FileOf, k

\* Only Open, Close and Write touch the logs of the rank that takes the step.
LEMMA LogSteps ==
    ASSUME NEW r \in Ranks, StepOf(r)
    PROVE  Open(r) \/ Close(r) \/ Write(r) \/ UNCHANGED <<dests, file>>
BY DEF StepOf, Step, Root, SetSilent, OrderedSilent, OrderedSend, OrderedSent, LeaveBarrier, OpenRefused,
       CloseRefused, DumpCount, DumpSend, DumpSent, OrderedRoot, OrderedReceive, OrderedRootEnds,
       DumpRoot, DumpGather, DumpCollect, DumpRootEnds, logs

\* No step of a rank makes a file, or a count, wrong.
LEMMA StepIsExact ==
    ASSUME BeginsName = {}, Basics, LogsAreExact, NEW r \in Ranks, StepOf(r)
    PROVE  LogsAreExact'
<1> DEFINE f == Folder(r)
<1>0. RanksTyped /\ dests \in [Ranks -> Seq(Slot)] /\ file \in [Ranks -> Files]
  BY DEF Basics, RanksTyped, Files
<1>1. dests[r] \in Seq(Slot) /\ file[r] \in Files /\ TableIsExact(dests[r], file[r])
  BY <1>0 DEF LogsAreExact
<1>2. \A op : Calls(r, op) => f \in Folders
  <2>1. \A op : Calls(r, op) => at[r] \in 1 .. Len(program)
    BY <1>0, WhereRanksAre DEF Calls
  <2> QED
    BY <1>0, <2>1, ProgramIsSequence DEF RanksTyped, Folder
<1>3. \A q \in Ranks : q # r => dests'[q] = dests[q] /\ file'[q] = file[q]
  BY <1>0, StepIsLocal
<1> HIDE DEF f
<1>4. TableIsExact(dests'[r], file'[r])
  <2>1. CASE Open(r)
    <3>1. f \in Folders /\ MayOpen(dests[r], f) /\ dests' = [dests EXCEPT ![r] = Opened(dests[r], f)]
          /\ file' = [file EXCEPT ![r][f] = IF Truncates(dests[r], f) THEN <<>> ELSE @]
      BY <1>2, <2>1 DEF Open, f
    <3>2. dests'[r] = Opened(dests[r], f)
      BY <1>0, <3>1
    <3>3. file'[r] = IF Truncates(dests[r], f) THEN [file[r] EXCEPT ![f] = <<>>] ELSE file[r]
      <4>1. CASE Truncates(dests[r], f)
        BY <1>0, <3>1, <4>1
      <4>2. CASE ~Truncates(dests[r], f)
        <5>1. file'[r] = [file[r] EXCEPT ![f] = @]
          BY <1>0, <3>1, <4>2
        <5> QED
          BY <1>1, <4>2, <5>1 DEF Files
      <4> QED
        BY <4>1, <4>2
    <3> QED
      BY <1>1, <3>1, <3>2, <3>3, OpenIsExact
  <2>2. CASE Close(r)
    <3>1. f \in Folders /\ IsOpen(dests[r], f) /\ dests' = [dests EXCEPT ![r] = Closed(dests[r], f)] /\ file' = file
      BY <1>2, <2>2 DEF Close, f
    <3>2. dests'[r] = Closed(dests[r], f) /\ file'[r] = file[r]
      BY <1>0, <3>1
    <3> QED
      BY <1>1, <3>1, <3>2, CloseIsExact
  <2>3. CASE Write(r) /\ IsOpen(dests[r], f)
    <3>1. f \in Folders /\ dests' = [dests EXCEPT ![r] = Wrote(dests[r], f)]
          /\ file' = [file EXCEPT ![r][FileOf(dests[r], f)] = Append(@, f)]
      BY <1>2, <2>3 DEF Write, f
    <3>2. FileOf(dests[r], f) = f /\ TableIsExact(Wrote(dests[r], f), [file[r] EXCEPT ![f] = Append(@, f)])
      BY <1>1, <2>3, <3>1, WriteIsExact
    <3>3. dests'[r] = Wrote(dests[r], f)
      BY <1>0, <3>1
    <3>4. file'[r] = [file[r] EXCEPT ![f] = Append(@, f)]
      BY <1>0, <3>1, <3>2
    <3> QED
      BY <3>2, <3>3, <3>4
  <2>4. CASE (Write(r) /\ ~IsOpen(dests[r], f)) \/ UNCHANGED <<dests, file>>
    <3>1. dests' = dests /\ file' = file
      BY <2>4 DEF Write, logs, f
    <3> QED
      BY <1>1, <3>1
  <2> QED
    BY <2>1, <2>2, <2>3, <2>4, LogSteps
<1>5. ASSUME NEW q \in Ranks PROVE TableIsExact(dests'[q], file'[q])
  <2>1. CASE q = r
    BY <1>4, <2>1
  <2>2. CASE q # r
    BY <1>3, <2>2 DEF LogsAreExact
  <2> QED
    BY <2>1, <2>2
<1> QED
  BY <1>5 DEF LogsAreExact, TableIsExact

\* As long as no folder's name is the beginning of another's (ranklog.c): no
\* folder has two slots, and an open one writes to the file of its own name.
THEOREM LogsStayExact == BeginsName = {} /\ RankSpec => [](Basics /\ LogsAreExact)
<1> SUFFICES ASSUME BeginsName = {} PROVE RankSpec => [](Basics /\ LogsAreExact)
  OBVIOUS
<1>1. ASSUME RankInit PROVE Basics /\ LogsAreExact
  <2>1. ASSUME NEW r \in Ranks PROVE TableIsExact(dests[r], file[r])
    <3>1. dests[r] = <<>> /\ file[r] = [f \in Folders |-> <<>>]
      BY <1>1 DEF RankInit
    <3>2. 0 <= _MYS_RANK_LOG_DEST_NUM
      BY RankLogAssumption
    <3> QED
      BY <3>1, <3>2 DEF TableIsExact
  <2> QED
    BY <1>1, <2>1, InitBasics DEF LogsAreExact
<1>2. ASSUME Basics /\ LogsAreExact, [RankNext]_rank_vars PROVE (Basics /\ LogsAreExact)'
  <2>1. Basics'
    BY <1>2, NextBasics
  <2>2. CASE \E r \in Ranks : StepOf(r)
    BY <1>2, <2>1, <2>2, StepIsExact
  <2>3. CASE UNCHANGED rank_vars
    <3>1. UNCHANGED <<dests, file>>
      BY <2>3 DEF rank_vars, logs
    <3> QED
      BY <1>2, <2>1, <3>1 DEF LogsAreExact, TableIsExact
  <2>4. ASSUME NEW r \in Ranks, Step(r) PROVE StepOf(r)
    BY <2>4 DEF StepOf
  <2>5. Root => 0 \in Ranks /\ StepOf(0)
    BY RanksAre DEF StepOf
  <2> QED
    BY <1>2, <2>2, <2>3, <2>4, <2>5 DEF RankNext, Finish
<1> QED
  BY <1>1, <1>2, PTL DEF RankSpec

\* For any number of ranks and folders (ranklog.c), whether folders open on all
\* ranks or not: every line is in the file of its folder and tot_wrote counts
\* them, as long as no folder's name is the beginning of another's.
THEOREM RankLogsStayExact == BeginsName = {} /\ RankSpec => []RankLogsExact
<1> SUFFICES ASSUME BeginsName = {} PROVE RankSpec => []RankLogsExact
  OBVIOUS
<1>1. LogsAreExact => RankLogsExact
  BY DEF LogsAreExact, TableIsExact, RankLogsExact
<1> QED
  BY <1>1, LogsStayExact, PTL

-----------------------------------------------------------------------------
(***************************************************************************)
(* mys_table_dump.  What rank 0 has received of a rank, and what is on its *)
(* way, are the cells of all dumps the rank has sent (CellsInFlight), so   *)
(* the next cells rank 0 takes are those of the dump it is in.             *)
(***************************************************************************)
\* The cells rank r sends in its k-th call, and in its first k calls.
Carried(r, k) == IF program[k].op = "dump" THEN Cells(r, k) ELSE <<>>

CarriedBy(r, k) == Joined([i \in DOMAIN program |-> Carried(r, i)], k)

\* What the table files hold after k calls.
TabledBy(k) == Joined([i \in DOMAIN program |-> DumpRows(i, N)], k)

SentUpTo(r) == IF rank_pc[r] = "wait" THEN at[r] ELSE at[r] - 1

ReceivedUpTo(r) == IF rank_pc[0] = "collect" /\ r < turn THEN at[0] ELSE at[0] - 1

CellsInFlight ==
    \A r \in Ranks : r # 0 => CarriedBy(r, ReceivedUpTo(r)) \o channel[r]["cell"] = CarriedBy(r, SentUpTo(r))

RowsAreTabled ==
    /\ rank_pc[0] = "collect" => rows = TabledBy(at[0] - 1) \o DumpRows(at[0], turn)
    /\ rank_pc[0] # "collect" => rows = TabledBy(at[0] - 1)

DumpInv == Basics /\ CellsInFlight /\ RowsAreTabled

\* What is sent grows call by call.
LEMMA CarriedSteps ==
    ASSUME program \in Programs, NEW r \in Ranks
    PROVE  /\ CarriedBy(r, 0) = <<>>
           /\ \A k \in 1 .. Len(program), m \in 0 .. Len(program) :
                 m = k - 1 => CarriedBy(r, k) = IF program[k].op = "dump" THEN CarriedBy(r, m) \o Cells(r, k)
                                                ELSE CarriedBy(r, m)
           /\ \A k \in 0 .. Len(program) : CarriedBy(r, k) \in Seq(Message)
           /\ \A k, m \in 0 .. Len(program) : m <= k => Begins(CarriedBy(r, m), CarriedBy(r, k), Message)
<1> DEFINE s == [i \in DOMAIN program |-> Carried(r, i)]
           n == Len(program)
<1>0. n \in Nat /\ DOMAIN program = 1 .. n
  BY ProgramIsSequence
<1>1. \A k \in 1 .. n : s[k] = Carried(r, k) /\ Carried(r, k) \in Seq(Message)
  <2>1. \A k \in Nat : Cells(r, k) \in Seq(Message)
    BY CellsTyped
  <2>2. <<>> \in Seq(Message)
    OBVIOUS
  <2> QED
    BY <1>0, <2>1, <2>2 DEF Carried
<1>2. \A k : CarriedBy(r, k) = Joined(s, k)
  BY DEF CarriedBy
<1> HIDE DEF s
<1>3. \A k \in 1 .. n : s[k] \in Seq(Message)
  BY <1>1
<1> HIDE DEF n
<1>4. /\ Joined(s, 0) = <<>>
      /\ \A k \in 1 .. n, m \in 0 .. n : m = k - 1 => Joined(s, k) = Joined(s, m) \o s[k]
      /\ \A k \in 0 .. n : Joined(s, k) \in Seq(Message)
  BY <1>0, <1>3, JoinedSteps
<1>5. \A k, m \in 0 .. n : m <= k => Begins(Joined(s, m), Joined(s, k), Message)
  BY <1>0, <1>3, JoinedGrows
<1>6. ASSUME NEW k \in 1 .. n, NEW m \in 0 .. n, m = k - 1
      PROVE  CarriedBy(r, k) = IF program[k].op = "dump" THEN CarriedBy(r, m) \o Cells(r, k) ELSE CarriedBy(r, m)
  <2>1. CarriedBy(r, k) = CarriedBy(r, m) \o Carried(r, k) /\ CarriedBy(r, m) \in Seq(Message)
    BY <1>1, <1>2, <1>4, <1>6
  <2>2. CASE program[k].op = "dump"
    BY <2>1, <2>2 DEF Carried
  <2>3. CASE program[k].op # "dump"
    <3>1. CarriedBy(r, m) \o <<>> = CarriedBy(r, m)
      BY <2>1, ConcatEmptySeq
    <3> QED
      BY <2>1, <2>3, <3>1 DEF Carried
  <2> QED
    BY <2>2, <2>3
<1> QED
  BY <1>2, <1>4, <1>5, <1>6 DEF n

\* A dump writes the cells of rank after rank.
LEMMA DumpRowsSteps ==
    ASSUME program \in Programs, NEW k \in 1 .. Len(program), program[k].op = "dump"
    PROVE  /\ DumpRows(k, 0) = <<>>
           /\ \A n \in 0 .. N - 1 : DumpRows(k, n + 1) = DumpRows(k, n) \o CellRows(n, k)
           /\ \A n \in 0 .. N : DumpRows(k, n) \in Seq(Nat \X Message)
           /\ \A m, n \in 0 .. N : m <= n => Begins(DumpRows(k, m), DumpRows(k, n), Nat \X Message)
<1> DEFINE s == [i \in 1 .. N |-> CellRows(i - 1, k)]
           T == Nat \X Message
<1>0. N \in Nat /\ k \in Nat
  BY RanksAre, ProgramIsSequence
<1>1. \A i \in 1 .. N : i - 1 \in Ranks
  BY <1>0 DEF Ranks
<1>2. \A r \in Ranks : CellRows(r, k) \in Seq(T)
  <2> SUFFICES ASSUME NEW r \in Ranks PROVE CellRows(r, k) \in Seq(T)
    OBVIOUS
  <2>1. NumCells[r] \in Nat /\ r \in Nat
    BY RanksAre
  <2>2. \A i \in 1 .. NumCells[r] : Cells(r, k)[i] \in Message
    BY <1>0, <2>1 DEF Cells, Message, Cell
  <2>3. \A i \in 1 .. NumCells[r] : <<k, Cells(r, k)[i]>> \in T
    BY <1>0, <2>2
  <2> HIDE DEF T
  <2> QED
    BY <2>1, <2>3 DEF CellRows
<1>3. \A i \in 1 .. N : s[i] = CellRows(i - 1, k) /\ s[i] \in Seq(T)
  BY <1>1, <1>2
<1>4. \A n : DumpRows(k, n) = Joined(s, n)
  BY DEF DumpRows
<1> HIDE DEF s, T
<1>5. \A i \in 1 .. N : s[i] \in Seq(T)
  BY <1>3
<1>6. /\ Joined(s, 0) = <<>>
      /\ \A i \in 1 .. N, m \in 0 .. N : m = i - 1 => Joined(s, i) = Joined(s, m) \o s[i]
      /\ \A i \in 0 .. N : Joined(s, i) \in Seq(T)
  BY <1>0, <1>5, JoinedSteps
<1>7. \A n, m \in 0 .. N : m <= n => Begins(Joined(s, m), Joined(s, n), T)
  BY <1>0, <1>5, JoinedGrows
<1>8. ASSUME NEW n \in 0 .. N - 1 PROVE DumpRows(k, n + 1) = DumpRows(k, n) \o CellRows(n, k)
  <2>1. n + 1 \in 1 .. N /\ n \in 0 .. N /\ n = (n + 1) - 1
    BY <1>0
  <2>2. Joined(s, n + 1) = Joined(s, n) \o s[n + 1]
    BY <1>6, <2>1
  <2>3. s[n + 1] = CellRows(n, k)
    BY <1>3, <2>1
  <2> QED
    BY <1>4, <2>2, <2>3
<1> QED
  BY <1>4, <1>6, <1>7, <1>8 DEF T

\* The table files grow call by call.
LEMMA TabledSteps ==
    ASSUME program \in Programs
    PROVE  /\ TabledBy(0) = <<>>
           /\ \A k \in 1 .. Len(program), m \in 0 .. Len(program) :
                 m = k - 1 => TabledBy(k) = IF program[k].op = "dump" THEN TabledBy(m) \o DumpRows(k, N)
                                            ELSE TabledBy(m)
           /\ \A k \in 0 .. Len(program) : TabledBy(k) \in Seq(Nat \X Message)
           /\ \A k, m \in 0 .. Len(program) : m <= k => Begins(TabledBy(m), TabledBy(k), Nat \X Message)
<1> DEFINE s == [i \in DOMAIN program |-> DumpRows(i, N)]
           n == Len(program)
           T == Nat \X Message
<1>0. n \in Nat /\ DOMAIN program = 1 .. n /\ N \in Nat
  BY ProgramIsSequence, RanksAre
<1>1. ASSUME NEW k \in 1 .. n
      PROVE  /\ s[k] = DumpRows(k, N) /\ DumpRows(k, N) \in Seq(T)
             /\ program[k].op # "dump" => DumpRows(k, N) = <<>>
  <2>1. CASE program[k].op = "dump"
    <3>1. N \in 0 .. N
      BY <1>0
    <3>2. DumpRows(k, N) \in Seq(T)
      BY <2>1, <3>1, DumpRowsSteps
    <3> QED
      BY <1>0, <2>1, <3>2
  <2>2. CASE program[k].op # "dump"
    <3>1. DumpRows(k, N) = <<>>
      BY <2>2 DEF DumpRows
    <3>2. <<>> \in Seq(T)
      OBVIOUS
    <3> QED
      BY <1>0, <3>1, <3>2
  <2> QED
    BY <2>1, <2>2
<1>2. \A k : TabledBy(k) = Joined(s, k)
  BY DEF TabledBy
<1> HIDE DEF s
<1>3. \A k \in 1 .. n : s[k] \in Seq(T)
  BY <1>1
<1> HIDE DEF n, T
<1>4. /\ Joined(s, 0) = <<>>
      /\ \A k \in 1 .. n, m \in 0 .. n : m = k - 1 => Joined(s, k) = Joined(s, m) \o s[k]
      /\ \A k \in 0 .. n : Joined(s, k) \in Seq(T)
  BY <1>0, <1>3, JoinedSteps
<1>5. \A k, m \in 0 .. n : m <= k => Begins(Joined(s, m), Joined(s, k), T)
  BY <1>0, <1>3, JoinedGrows
<1>6. ASSUME NEW k \in 1 .. n, NEW m \in 0 .. n, m = k - 1
      PROVE  TabledBy(k) = IF program[k].op = "dump" THEN TabledBy(m) \o DumpRows(k, N) ELSE TabledBy(m)
  <2>1. TabledBy(k) = TabledBy(m) \o DumpRows(k, N) /\ TabledBy(m) \in Seq(T)
    BY <1>1, <1>2, <1>4, <1>6
  <2>2. CASE program[k].op = "dump"
    BY <2>1, <2>2
  <2>3. CASE program[k].op # "dump"
    <3>1. TabledBy(m) \o <<>> = TabledBy(m)
      BY <2>1, ConcatEmptySeq
    <3> QED
      BY <1>1, <2>1, <2>3, <3>1
  <2> QED
    BY <2>2, <2>3
<1> QED
  BY <1>2, <1>4, <1>5, <1>6 DEF n, T

\* Which steps move cells; the others go on within a call, or end one that is no dump.
Quietly(r) == /\ rank_pc[r] \notin {"wait", "collect"} /\ rank_pc'[r] \notin {"wait", "collect"}
              /\ \/ at'[r] = at[r]
                 \/ at'[r] = at[r] + 1 /\ at[r] <= Len(program) /\ program[at[r]].op # "dump"

CellsStay == UNCHANGED rows /\ \A q \in Ranks : channel'[q]["cell"] = channel[q]["cell"]

\* A step of a rank sends its cells to a dump, has sent them, or leaves the cells
\* as they are.
LEMMA RankKinds ==
    ASSUME Basics, NEW r \in Ranks, Step(r)
    PROVE  /\ UNCHANGED <<turn, all_num_cells, rows>>
           /\ \/ DumpSend(r) \/ DumpSent(r)
              \/ CellsStay /\ Quietly(r)
<1>0. RanksTyped /\ InPlace(r) /\ "log" \in Tags /\ "cell" \in Tags /\ "count" \in Tags
  BY DEF Basics, AllInPlace, Tags
<1>1. /\ RankReturn(r) => rank_pc'[r] = "call" /\ at'[r] = at[r] + 1
      /\ \A step : RankGoto(r, step) => rank_pc'[r] = step /\ at'[r] = at[r]
      /\ EnterBarrier(r) => rank_pc'[r] = "barrier" /\ at'[r] = at[r]
  BY <1>0, Movement
<1>2. UNCHANGED <<rows, channel>> => CellsStay
  BY DEF CellsStay
<1> USE DEF Calls, mpi, root, Quietly
<1>3. CASE SetSilent(r) \/ OrderedSilent(r)
  BY <1>1, <1>2, <1>3 DEF SetSilent, OrderedSilent
<1>4. CASE OpenRefused(r) \/ CloseRefused(r) \/ Write(r)
  BY <1>1, <1>2, <1>4 DEF OpenRefused, CloseRefused, Write
<1>5. CASE Open(r) \/ Close(r)
  BY <1>1, <1>2, <1>5 DEF Open, Close
<1>6. CASE OrderedSend(r)
  <2>1. Send(r, "log", <<at[r]>>) /\ UNCHANGED rows
    BY <1>6 DEF OrderedSend
  <2>2. CellsStay
    BY <1>0, <2>1, ChannelAfter DEF CellsStay
  <2> QED
    BY <1>1, <1>6, <2>2 DEF OrderedSend
<1>7. CASE OrderedSent(r)
  BY <1>1, <1>2, <1>7 DEF OrderedSent
<1>8. CASE LeaveBarrier(r)
  <2>1. rank_pc[r] = "barrier" /\ at[r] <= Len(program) /\ program[at[r]].op # "dump"
    BY <1>0, <1>8 DEF LeaveBarrier, InPlace
  <2> QED
    BY <1>1, <1>2, <1>8, <2>1 DEF LeaveBarrier
<1>9. CASE DumpSent(r)
  BY <1>9 DEF DumpSent
<1>10. CASE DumpCount(r)
  <2>1. Send(r, "count", <<NumCells[r]>>) /\ UNCHANGED rows
    BY <1>10 DEF DumpCount
  <2>2. CellsStay
    BY <1>0, <2>1, ChannelAfter DEF CellsStay
  <2> QED
    BY <1>1, <1>10, <2>2 DEF DumpCount
<1>11. CASE DumpSend(r)
  BY <1>11 DEF DumpSend
<1> QED
  BY <1>3, <1>4, <1>5, <1>6, <1>7, <1>8, <1>9, <1>10, <1>11 DEF Step

\* The dump of rank 0 fails only where fopen fails alone.
LEMMA RootDumpKinds ==
    ASSUME FailsAlone = FALSE, Basics, Root
    PROVE  DumpGather \/ DumpCollect \/ DumpRootEnds \/ (CellsStay /\ Quietly(0))
<1>0. RanksTyped /\ InPlace(0) /\ 0 \in Ranks /\ "log" \in Tags /\ "cell" \in Tags
  BY RanksAre DEF Basics, AllInPlace, Tags
<1>1. /\ \A step : RankGoto(0, step) => rank_pc'[0] = step /\ at'[0] = at[0]
      /\ EnterBarrier(0) => rank_pc'[0] = "barrier" /\ at'[0] = at[0]
  BY <1>0, Movement
<1>2. UNCHANGED <<rows, channel>> => CellsStay
  BY DEF CellsStay
<1> USE DEF Calls, mpi, root, Quietly
<1>3. CASE OrderedRoot
  BY <1>1, <1>2, <1>3 DEF OrderedRoot
<1>4. CASE OrderedReceive
  <2>1. turn \in Ranks /\ Receive(turn, "log", 1) /\ UNCHANGED rows
    BY <1>0, <1>4, RanksAre DEF OrderedReceive, RanksTyped, Ranks
  <2>2. CellsStay
    BY <1>0, <2>1, ChannelAfter DEF CellsStay
  <2> QED
    BY <1>4, <2>2 DEF OrderedReceive
<1>5. CASE OrderedRootEnds
  BY <1>1, <1>2, <1>5 DEF OrderedRootEnds
<1>6. CASE DumpRoot
  <2>1. RankGoto(0, "gather") /\ UNCHANGED <<rows, channel>> /\ rank_pc[0] = "call"
    BY <1>6 DEF DumpRoot
  <2> QED
    BY <1>1, <1>2, <2>1
<1> QED
  BY <1>3, <1>4, <1>5, <1>6 DEF Root

\* What the invariant says after a step, of the program that stays.
LEMMA DumpThen ==
    ASSUME program' = program
    PROVE  /\ (\A q \in Ranks : q # 0 =>
                   CarriedBy(q, ReceivedUpTo(q)') \o channel'[q]["cell"] = CarriedBy(q, SentUpTo(q)')) => CellsInFlight'
           /\ /\ rank_pc'[0] = "collect" => rows' = TabledBy(at'[0] - 1) \o DumpRows(at'[0], turn')
              /\ rank_pc'[0] # "collect" => rows' = TabledBy(at'[0] - 1)
              => RowsAreTabled'
<1>1. \A q : /\ CarriedBy(q, ReceivedUpTo(q))' = CarriedBy(q, ReceivedUpTo(q)')
             /\ CarriedBy(q, SentUpTo(q))' = CarriedBy(q, SentUpTo(q)')
  BY DEF CarriedBy, Carried, Cells
<1>2. TabledBy(at[0] - 1)' = TabledBy(at'[0] - 1) /\ DumpRows(at[0], turn)' = DumpRows(at'[0], turn')
  BY DEF TabledBy, DumpRows, CellRows, Cells
<1> QED
  BY <1>1, <1>2 DEF CellsInFlight, RowsAreTabled

\* A step that moves no cells.
LEMMA QuietDump ==
    ASSUME DumpInv, NEW r \in Ranks, StepOf(r), CellsStay, Quietly(r), r # 0 => UNCHANGED turn
    PROVE  CellsInFlight' /\ RowsAreTabled'
<1>0. /\ Basics /\ RanksTyped /\ program \in Programs /\ program' = program /\ 0 \in Ranks /\ at[r] \in Nat
      /\ \A q \in Ranks : at[q] \in Nat
  BY RanksAre, ProgramStays DEF StepOf, RankNext, DumpInv, Basics, RanksTyped
<1>1. \A q \in Ranks : q # r => at'[q] = at[q] /\ rank_pc'[q] = rank_pc[q]
  BY <1>0, StepIsLocal
<1>2. at'[r] = at[r] \/ (/\ at'[r] - 1 = at[r]
                         /\ TabledBy(at[r]) = TabledBy(at[r] - 1)
                         /\ \A q \in Ranks : CarriedBy(q, at[r]) = CarriedBy(q, at[r] - 1))
  <2> SUFFICES ASSUME at'[r] # at[r]
               PROVE  /\ at'[r] - 1 = at[r]
                      /\ TabledBy(at[r]) = TabledBy(at[r] - 1)
                      /\ \A q \in Ranks : CarriedBy(q, at[r]) = CarriedBy(q, at[r] - 1)
    OBVIOUS
  <2>1. at'[r] = at[r] + 1 /\ at[r] <= Len(program) /\ program[at[r]].op # "dump"
    BY DEF Quietly
  <2>2. at[r] \in 1 .. Len(program) /\ at[r] - 1 \in 0 .. Len(program)
    BY <1>0, <2>1, WhereRanksAre
  <2>3. TabledBy(at[r]) = TabledBy(at[r] - 1)
    BY <1>0, <2>1, <2>2, TabledSteps
  <2>4. \A q \in Ranks : CarriedBy(q, at[r]) = CarriedBy(q, at[r] - 1)
    BY <1>0, <2>1, <2>2, CarriedSteps
  <2> QED
    BY <1>0, <2>1, <2>3, <2>4
<1>4. ASSUME NEW q \in Ranks, q # 0
      PROVE  /\ CarriedBy(q, ReceivedUpTo(q)') = CarriedBy(q, ReceivedUpTo(q))
             /\ CarriedBy(q, SentUpTo(q)') = CarriedBy(q, SentUpTo(q))
  <2>1. CarriedBy(q, ReceivedUpTo(q)') = CarriedBy(q, ReceivedUpTo(q))
    <3>1. CASE r = 0
      BY <1>2, <3>1 DEF ReceivedUpTo, Quietly
    <3>2. CASE r # 0
      BY <1>0, <1>1, <3>2 DEF ReceivedUpTo
    <3> QED
      BY <3>1, <3>2
  <2>2. CarriedBy(q, SentUpTo(q)') = CarriedBy(q, SentUpTo(q))
    <3>1. CASE r = q
      BY <1>2, <3>1 DEF SentUpTo, Quietly
    <3>2. CASE r # q
      BY <1>1, <3>2 DEF SentUpTo
    <3> QED
      BY <3>1, <3>2
  <2> QED
    BY <2>1, <2>2
<1>5. CellsInFlight'
  <2>1. ASSUME NEW q \in Ranks, q # 0
        PROVE  CarriedBy(q, ReceivedUpTo(q)') \o channel'[q]["cell"] = CarriedBy(q, SentUpTo(q)')
    BY <1>4, <2>1 DEF DumpInv, CellsInFlight, CellsStay
  <2> QED
    BY <1>0, <2>1, DumpThen
<1>6. RowsAreTabled'
  <2>1. /\ rank_pc'[0] = "collect" => rows' = TabledBy(at'[0] - 1) \o DumpRows(at'[0], turn')
        /\ rank_pc'[0] # "collect" => rows' = TabledBy(at'[0] - 1)
    <3>1. CASE r = 0
      BY <1>2, <3>1 DEF DumpInv, RowsAreTabled, CellsStay, Quietly
    <3>2. CASE r # 0
      BY <1>0, <1>1, <3>2 DEF DumpInv, RowsAreTabled, CellsStay
    <3> QED
      BY <3>1, <3>2
  <2> QED
    BY <1>0, <2>1, DumpThen
<1> QED
  BY <1>5, <1>6

\* A rank sends its cells, and has sent them.
LEMMA SendDump ==
    ASSUME DumpInv, NEW r \in Ranks, DumpSend(r) \/ DumpSent(r)
    PROVE  CellsInFlight' /\ RowsAreTabled'
<1>0. /\ Basics /\ RanksTyped /\ InPlace(r) /\ program \in Programs /\ program' = program /\ 0 \in Ranks /\ "cell" \in Tags
      /\ StepOf(r) /\ CellsInFlight /\ RowsAreTabled
  BY RanksAre, ProgramStays DEF StepOf, Step, RankNext, DumpInv, Basics, RanksTyped, AllInPlace, Tags
<1>1. \A q \in Ranks : q # r => at'[q] = at[q] /\ rank_pc'[q] = rank_pc[q]
  BY <1>0, StepIsLocal
<1>2. r # 0 /\ UNCHANGED <<turn, rows>>
  BY <1>0 DEF DumpSend, DumpSent, root, InPlace
<1>3. rank_pc[r] \in {"gather", "wait"} /\ at[r] \in 1 .. Len(program) /\ at[r] - 1 \in 0 .. Len(program)
  <2>1. rank_pc[r] \in {"gather", "wait"}
    BY DEF DumpSend, DumpSent
  <2> QED
    BY <1>0, <2>1, WhereRanksAre
<1>4. program[at[r]].op = "dump"
  BY <1>0, <1>3 DEF InPlace
<1>5. \A q \in Ranks : ReceivedUpTo(q)' = ReceivedUpTo(q)
  BY <1>0, <1>1, <1>2 DEF ReceivedUpTo
<1>6. RowsAreTabled'
  BY <1>0, <1>1, <1>2, DumpThen DEF RowsAreTabled
<1>7. ASSUME NEW q \in Ranks, q # 0
      PROVE  CarriedBy(q, ReceivedUpTo(q)') \o channel'[q]["cell"] = CarriedBy(q, SentUpTo(q)')
  <2> DEFINE taken == CarriedBy(q, ReceivedUpTo(q))
             ch == channel[q]["cell"]
             sent == CarriedBy(q, SentUpTo(q))
             cells == Cells(r, at[r])
  <2>1. taken \o ch = sent
    BY <1>0, <1>7 DEF CellsInFlight
  <2>2. CASE q # r
    <3>1. channel'[q]["cell"] = ch
      <4>1. CASE DumpSend(r)
        <5>1. Send(r, "cell", Cells(r, at[r]))
          BY <4>1 DEF DumpSend
        <5> QED
          BY <1>0, <2>2, <5>1, ChannelAfter
      <4>2. CASE DumpSent(r)
        BY <4>2 DEF DumpSent, mpi
      <4> QED
        BY <4>1, <4>2
    <3>2. SentUpTo(q)' = SentUpTo(q)
      BY <1>1, <2>2 DEF SentUpTo
    <3> QED
      BY <1>5, <2>1, <3>1, <3>2
  <2>3. CASE q = r /\ DumpSend(r)
    <3>1. Send(r, "cell", cells) /\ RankGoto(r, "wait") /\ rank_pc[r] = "gather"
      BY <2>3 DEF DumpSend
    <3>2. at'[r] = at[r] /\ rank_pc'[r] = "wait"
      BY <1>0, <3>1, Movement
    <3>3. SentUpTo(r) = at[r] - 1 /\ SentUpTo(r)' = at[r]
      BY <3>1, <3>2 DEF SentUpTo
    <3>4. CarriedBy(r, at[r]) = CarriedBy(r, at[r] - 1) \o cells
      BY <1>0, <1>3, <1>4, CarriedSteps
    <3>5. channel'[r]["cell"] = channel[r]["cell"] \o cells
      <4>1. \A p \in Ranks : channel'[p]["cell"] = IF p = r THEN channel[r]["cell"] \o cells ELSE channel[p]["cell"]
        <5> HIDE DEF cells
        <5> QED
          BY <1>0, <3>1, ChannelAfter
      <4> QED
        BY <4>1
    <3>6. taken \in Seq(Message) /\ ch \in Seq(Message) /\ cells \in Seq(Message)
      <4>1. ReceivedUpTo(q) \in 0 .. Len(program)
        BY <1>0, WhereRanksAre DEF ReceivedUpTo
      <4>2. taken \in Seq(Message)
        BY <1>0, <4>1, CarriedSteps
      <4>3. ch \in Seq(Message)
        BY <1>0 DEF RanksTyped
      <4>4. cells \in Seq(Message)
        BY <1>3, CellsTyped
      <4> QED
        BY <4>2, <4>3, <4>4
    <3> HIDE DEF cells
    <3>7. taken \o (ch \o cells) = (taken \o ch) \o cells
      <4> HIDE DEF taken, ch
      <4> QED
        BY <3>6, ConcatAssociative
    <3> QED
      BY <1>5, <2>1, <2>3, <3>3, <3>4, <3>5, <3>7
  <2>4. CASE q = r /\ DumpSent(r)
    <3>1. RankReturn(r) /\ rank_pc[r] = "wait" /\ UNCHANGED channel
      BY <2>4 DEF DumpSent, mpi
    <3>2. at'[r] = at[r] + 1 /\ rank_pc'[r] = "call"
      BY <1>0, <3>1, Movement
    <3>3. SentUpTo(r)' = SentUpTo(r)
      BY <1>3, <3>1, <3>2 DEF SentUpTo
    <3> QED
      BY <1>5, <2>1, <2>4, <3>1, <3>3
  <2> QED
    BY <2>2, <2>3, <2>4
<1> QED
  BY <1>0, <1>6, <1>7, DumpThen

\* Rank 0 has all counts, and has the cells of all ranks.
LEMMA GatherDump ==
    ASSUME DumpInv, DumpGather \/ DumpRootEnds
    PROVE  CellsInFlight' /\ RowsAreTabled'
<1>0. /\ Basics /\ RanksTyped /\ InPlace(0) /\ program \in Programs /\ program' = program /\ 0 \in Ranks /\ "cell" \in Tags
      /\ StepOf(0) /\ CellsInFlight /\ RowsAreTabled /\ (rank_pc[0] = "gather" => turn = 0) /\ N \in Nat
  BY RanksAre, ProgramStays DEF StepOf, Root, RankNext, DumpInv, Basics, RanksTyped, AllInPlace, Tags
<1>1. \A q \in Ranks : q # 0 => at'[q] = at[q] /\ rank_pc'[q] = rank_pc[q]
  BY <1>0, StepIsLocal
<1>2. /\ rank_pc[0] \in {"gather", "collect"} /\ at[0] \in 1 .. Len(program) /\ at[0] - 1 \in 0 .. Len(program)
      /\ UNCHANGED <<turn, rows>>
  <2>1. rank_pc[0] \in {"gather", "collect"} /\ UNCHANGED <<turn, rows>>
    BY DEF DumpGather, DumpRootEnds, root
  <2> QED
    BY <1>0, <2>1, WhereRanksAre
<1>3. program[at[0]].op = "dump"
  BY <1>0, <1>2 DEF InPlace
<1>4. \A q \in Ranks : q # 0 => SentUpTo(q)' = SentUpTo(q)
  BY <1>1 DEF SentUpTo
<1>5. CASE DumpGather
  <2>1. at'[0] = at[0] /\ rank_pc'[0] = "collect" /\ rank_pc[0] = "gather" /\ turn = 0
    <3>1. RankGoto(0, "collect") /\ rank_pc[0] = "gather"
      BY <1>5 DEF DumpGather
    <3> QED
      BY <1>0, <3>1, Movement
  <2>2. \A q \in Ranks : channel'[q]["cell"] = channel[q]["cell"]
    BY <1>0, <1>5, ChannelGathered
  <2>3. \A q \in Ranks : q # 0 => ReceivedUpTo(q)' = ReceivedUpTo(q)
    <3>1. \A q \in Ranks : ~(q < 0)
      BY DEF Ranks
    <3> QED
      BY <1>2, <2>1, <3>1 DEF ReceivedUpTo
  <2>4. CellsInFlight'
    BY <1>0, <1>4, <2>2, <2>3, DumpThen DEF CellsInFlight
  <2>5. RowsAreTabled'
    <3>1. rows = TabledBy(at[0] - 1) /\ TabledBy(at[0] - 1) \in Seq(Nat \X Message)
      BY <1>0, <1>2, <2>1, TabledSteps DEF RowsAreTabled
    <3>2. DumpRows(at[0], 0) = <<>>
      BY <1>0, <1>2, <1>3, DumpRowsSteps
    <3>3. rows = TabledBy(at[0] - 1) \o DumpRows(at[0], turn)
      <4>1. rows \o <<>> = rows
        BY <3>1, ConcatEmptySeq
      <4> QED
        BY <2>1, <3>1, <3>2, <4>1
    <3> QED
      BY <1>0, <1>2, <2>1, <3>3, DumpThen
  <2> QED
    BY <2>4, <2>5
<1>6. CASE DumpRootEnds
  <2>1. at'[0] = at[0] + 1 /\ rank_pc'[0] = "call" /\ rank_pc[0] = "collect" /\ turn = N /\ UNCHANGED channel
    <3>1. RankReturn(0) /\ rank_pc[0] = "collect" /\ turn = N /\ UNCHANGED channel
      BY <1>6 DEF DumpRootEnds, mpi
    <3> QED
      BY <1>0, <3>1, Movement
  <2>2. \A q \in Ranks : ReceivedUpTo(q)' = ReceivedUpTo(q)
    <3>1. \A q \in Ranks : q < N
      BY RanksAre DEF Ranks
    <3> QED
      BY <1>2, <2>1, <3>1 DEF ReceivedUpTo
  <2>3. CellsInFlight'
    BY <1>0, <1>4, <2>1, <2>2, DumpThen DEF CellsInFlight
  <2>4. RowsAreTabled'
    <3>1. rows = TabledBy(at[0])
      BY <1>0, <1>2, <1>3, <2>1, TabledSteps DEF RowsAreTabled
    <3>2. at'[0] - 1 = at[0]
      BY <1>2, <2>1
    <3> QED
      BY <1>0, <1>2, <2>1, <3>1, <3>2, DumpThen
  <2> QED
    BY <2>3, <2>4
<1> QED
  BY <1>5, <1>6

\* ch starts with cells; b with the rest of ch is c.
Takes(ch, cells, b, c) == /\ SubSeq(ch, 1, Len(cells)) = cells
                          /\ b \o SubSeq(ch, Len(cells) + 1, Len(ch)) = c

\* What comes next in a sequence that agrees with b is what b ends with.
LEMMA TakesNext ==
    ASSUME NEW elems, NEW a \in Seq(elems), NEW ch \in Seq(elems), NEW cells \in Seq(elems), Len(ch) >= Len(cells),
           NEW b, b = a \o cells, NEW c, c = a \o ch, Begins(b, c, elems) \/ Begins(c, b, elems)
    PROVE  Takes(ch, cells, b, c)
<1> DEFINE n == Len(cells)
           tail == SubSeq(ch, n + 1, Len(ch))
<1>1. /\ b \in Seq(elems) /\ Len(b) = Len(a) + n /\ \A i \in 1 .. n : b[Len(a) + i] = cells[i]
      /\ c \in Seq(elems) /\ Len(c) = Len(a) + Len(ch) /\ \A i \in 1 .. Len(ch) : c[Len(a) + i] = ch[i]
      /\ n \in Nat /\ Len(a) \in Nat /\ Len(ch) \in Nat
  OBVIOUS
<1>2. \A j \in 1 .. Len(b) : b[j] = c[j]
  <2> HIDE DEF n
  <2>1. CASE Begins(b, c, elems)
    BY <1>1, <2>1, BeginsAgrees
  <2>2. CASE Begins(c, b, elems)
    <3>1. Len(c) <= Len(b) /\ \A j \in 1 .. Len(c) : c[j] = b[j]
      BY <1>1, <2>2, BeginsAgrees
    <3>2. Len(c) = Len(b)
      <4>1. Len(b) = Len(a) + n /\ Len(c) = Len(a) + Len(ch) /\ n \in Nat /\ Len(a) \in Nat /\ Len(ch) \in Nat
        BY <1>1
      <4>2. Len(ch) >= n /\ Len(c) <= Len(b)
        BY <3>1 DEF n
      <4> QED
        BY <4>1, <4>2
    <3> QED
      BY <3>1, <3>2
  <2> QED
    BY <2>1, <2>2
<1>3. \A i \in 1 .. n : ch[i] = cells[i]
  <2> SUFFICES ASSUME NEW i \in 1 .. n PROVE ch[i] = cells[i]
    OBVIOUS
  <2>1. i \in 1 .. Len(ch) /\ Len(a) + i \in 1 .. Len(b)
    BY <1>1
  <2> HIDE DEF n
  <2> QED
    BY <1>1, <1>2, <2>1
<1>4. SubSeq(ch, 1, n) = cells
  <2>1. SubSeq(ch, 1, n) \in Seq(elems) /\ Len(SubSeq(ch, 1, n)) = n /\ \A i \in 1 .. n : SubSeq(ch, 1, n)[i] = ch[i]
    BY <1>1, SubSeqProperties
  <2> QED
    BY <1>3, <2>1, SeqEqual
<1>5. tail \in Seq(elems) /\ Len(tail) = Len(ch) - n /\ \A i \in 1 .. Len(tail) : tail[i] = ch[i + n]
  <2>1. tail \in Seq(elems) /\ Len(tail) = Len(ch) - n
    BY <1>1
  <2>2. \A i \in 1 .. Len(tail) : tail[i] = ch[i + n]
    BY <1>1, <2>1
  <2> QED
    BY <2>1, <2>2
<1>6. cells \o tail = ch
  <2>1. cells \o tail \in Seq(elems) /\ Len(cells \o tail) = Len(ch)
    <3> HIDE DEF tail
    <3> QED
      BY <1>1, <1>5
  <2>2. ASSUME NEW i \in 1 .. Len(ch) PROVE (cells \o tail)[i] = ch[i]
    <3> HIDE DEF tail
    <3>1. CASE i <= n
      BY <1>1, <1>3, <1>5, <3>1
    <3>2. CASE ~(i <= n)
      <4>1. i - n \in 1 .. Len(tail) /\ (i - n) + n = i
        BY <1>1, <1>5, <3>2
      <4>2. (cells \o tail)[i] = tail[i - n]
        BY <1>1, <1>5, <3>2
      <4> QED
        BY <1>5, <4>1, <4>2
    <3> QED
      BY <3>1, <3>2
  <2> HIDE DEF tail
  <2> QED
    BY <2>1, <2>2, SeqEqual
<1>7. (a \o cells) \o tail = a \o (cells \o tail)
  <2>1. tail \in Seq(elems)
    BY <1>5
  <2> HIDE DEF tail
  <2> QED
    BY <2>1, ConcatAssociative
<1> QED
  BY <1>4, <1>5, <1>6, <1>7 DEF Takes

\* Rank 0 takes the cells of the next rank.
LEMMA CollectDump ==
    ASSUME DumpInv, DumpCollect
    PROVE  CellsInFlight' /\ RowsAreTabled'
<1> DEFINE k == at[0]
           n == all_num_cells[turn]
           ch == channel[turn]["cell"]
           cells == Cells(turn, k)
<1>0. /\ Basics /\ RanksTyped /\ InPlace(0) /\ program \in Programs /\ program' = program /\ 0 \in Ranks /\ "cell" \in Tags
      /\ StepOf(0) /\ CellsInFlight /\ RowsAreTabled /\ N \in Nat
  BY RanksAre, ProgramStays DEF StepOf, Root, RankNext, DumpInv, Basics, RanksTyped, AllInPlace, Tags
<1>1. UNCHANGED <<at, rank_pc>> /\ rank_pc[0] = "collect" /\ turn' = turn + 1 /\ turn \in Ranks /\ turn \in Nat /\ turn < N
  BY <1>0 DEF DumpCollect, RanksTyped, Ranks
<1>2. k \in 1 .. Len(program) /\ k \in 0 .. Len(program) /\ k - 1 \in 0 .. Len(program) /\ k \in Nat /\ program[k].op = "dump"
  BY <1>0, <1>1, WhereRanksAre DEF InPlace
<1>3. n = NumCells[turn] /\ NumCells[turn] \in Nat
  BY <1>1, RanksAre DEF DumpInv, Basics, CountsAreTrue
<1>4. cells \in Seq(Message) /\ Len(cells) = n
  BY <1>1, <1>2, <1>3, CellsTyped
<1>5. \A q \in Ranks : q # 0 => SentUpTo(q)' = SentUpTo(q)
  BY <1>1 DEF SentUpTo
<1>6. \A q \in Ranks : ReceivedUpTo(q)' = IF q = turn THEN k ELSE ReceivedUpTo(q)
  <2>1. \A q \in Ranks : q \in Nat /\ (q < turn + 1 <=> q < turn \/ q = turn)
    BY <1>1, RanksAre
  <2> QED
    BY <1>1, <2>1 DEF ReceivedUpTo
<1>7. ReceivedUpTo(turn) = k - 1
  BY <1>1 DEF ReceivedUpTo
<1>8. CarriedBy(turn, k) = CarriedBy(turn, k - 1) \o cells
  BY <1>0, <1>1, <1>2, CarriedSteps
<1>9. turn # 0 =>
        /\ SubSeq(ch, 1, n) = cells
        /\ CarriedBy(turn, k) \o SubSeq(ch, n + 1, Len(ch)) = CarriedBy(turn, SentUpTo(turn))
  <2> SUFFICES ASSUME turn # 0
               PROVE  /\ SubSeq(ch, 1, n) = cells
                      /\ CarriedBy(turn, k) \o SubSeq(ch, n + 1, Len(ch)) = CarriedBy(turn, SentUpTo(turn))
    OBVIOUS
  <2> DEFINE a == CarriedBy(turn, k - 1)
             s == SentUpTo(turn)
  <2>1. Len(ch) >= n
    BY DEF DumpCollect
  <2>2. a \o ch = CarriedBy(turn, s)
    BY <1>0, <1>1, <1>7 DEF CellsInFlight
  <2>3. ch \in Seq(Message)
    BY <1>0, <1>1 DEF RanksTyped
  <2>4. a \in Seq(Message)
    BY <1>0, <1>1, <1>2, CarriedSteps
  <2>5. s \in 0 .. Len(program)
    BY <1>0, <1>1, WhereRanksAre DEF SentUpTo
  <2>6. Begins(CarriedBy(turn, s), CarriedBy(turn, k), Message) \/ Begins(CarriedBy(turn, k), CarriedBy(turn, s), Message)
    <3>1. s <= k \/ k <= s
      BY <1>2, <2>5
    <3> HIDE DEF s, k
    <3> QED
      BY <1>0, <1>1, <1>2, <2>5, <3>1, CarriedSteps
  <2> HIDE DEF a, s, ch, cells, n, k
  <2>7. CarriedBy(turn, k) = a \o cells
    BY <1>8 DEF a
  <2>8. Len(ch) >= Len(cells) /\ cells \in Seq(Message)
    BY <1>4, <2>1
  <2>9. /\ SubSeq(ch, 1, Len(cells)) = cells
        /\ CarriedBy(turn, k) \o SubSeq(ch, Len(cells) + 1, Len(ch)) = CarriedBy(turn, s)
    <3> DEFINE b == CarriedBy(turn, k)
               c == CarriedBy(turn, s)
    <3>1. c = a \o ch /\ b = a \o cells /\ (Begins(b, c, Message) \/ Begins(c, b, Message))
      BY <2>2, <2>6, <2>7
    <3> HIDE DEF b, c
    <3>2. Takes(ch, cells, b, c)
      BY <2>3, <2>4, <2>8, <3>1, TakesNext
    <3> QED
      BY <3>2 DEF Takes, b, c
  <2> QED
    BY <1>4, <2>9 DEF s
<1>10. rows' = rows \o CellRows(turn, k) /\ (turn = 0 => UNCHANGED channel) /\ (turn # 0 => Receive(turn, "cell", n))
  <2>1. (IF turn = 0 THEN Cells(0, k) ELSE SubSeq(ch, 1, n)) = cells
    BY <1>9
  <2>2. rows' = rows \o [i \in 1 .. n |-> <<k, (IF turn = 0 THEN Cells(0, k) ELSE SubSeq(ch, 1, n))[i]>>]
    BY DEF DumpCollect
  <2>3. (turn = 0 => UNCHANGED channel) /\ (turn # 0 => Receive(turn, "cell", n))
    BY DEF DumpCollect
  <2>4. CellRows(turn, k) = [i \in 1 .. n |-> <<k, cells[i]>>]
    BY <1>3 DEF CellRows
  <2> HIDE DEF cells, n, k
  <2> QED
    BY <2>1, <2>2, <2>3, <2>4
<1>11. \A q \in Ranks : q # 0 => channel'[q]["cell"] = IF q = turn THEN SubSeq(ch, n + 1, Len(ch)) ELSE channel[q]["cell"]
  <2>1. CASE turn = 0
    BY <1>10, <2>1
  <2>2. CASE turn # 0
    <3> HIDE DEF n
    <3> QED
      BY <1>0, <1>1, <1>10, <2>2, ChannelAfter
  <2> QED
    BY <2>1, <2>2
<1>12. CellsInFlight'
  <2> HIDE DEF n, k, ch
  <2>1. ASSUME NEW q \in Ranks, q # 0
        PROVE  CarriedBy(q, ReceivedUpTo(q)') \o channel'[q]["cell"] = CarriedBy(q, SentUpTo(q)')
    <3>1. CASE q = turn
      BY <1>5, <1>6, <1>9, <1>11, <2>1, <3>1
    <3>2. CASE q # turn
      BY <1>0, <1>5, <1>6, <1>11, <2>1, <3>2 DEF CellsInFlight
    <3> QED
      BY <3>1, <3>2
  <2> QED
    BY <1>0, <2>1, DumpThen
<1>13. RowsAreTabled'
  <2> DEFINE T == Nat \X Message
             a == TabledBy(k - 1)
             b == DumpRows(k, turn)
             c == CellRows(turn, k)
  <2>1. rows = a \o b
    BY <1>0, <1>1 DEF RowsAreTabled
  <2>2. turn \in 0 .. N - 1 /\ turn \in 0 .. N /\ turn + 1 \in 0 .. N
    BY <1>0, <1>1
  <2>3. DumpRows(k, turn + 1) = b \o c /\ b \in Seq(T)
    BY <1>0, <1>2, <2>2, DumpRowsSteps
  <2>4. a \in Seq(T)
    BY <1>0, <1>2, TabledSteps
  <2>5. c \in Seq(T)
    <3>1. \A i \in 1 .. n : cells[i] \in Message
      BY <1>4
    <3>2. c = [i \in 1 .. n |-> <<k, cells[i]>>]
      BY <1>3 DEF CellRows
    <3> HIDE DEF cells, n, c, k
    <3>3. \A i \in 1 .. n : <<k, cells[i]>> \in T
      BY <1>2, <3>1
    <3> HIDE DEF T
    <3> QED
      BY <1>3, <3>2, <3>3
  <2>6. (a \o b) \o c = a \o (b \o c)
    <3> HIDE DEF a, b, c, T
    <3> QED
      BY <2>3, <2>4, <2>5, ConcatAssociative
  <2>7. rows' = a \o DumpRows(k, turn + 1)
    BY <1>10, <2>1, <2>3, <2>6
  <2>8. rows' = TabledBy(at'[0] - 1) \o DumpRows(at'[0], turn')
    BY <1>1, <2>7
  <2> QED
    BY <1>0, <1>1, <2>8, DumpThen
<1> QED
  BY <1>12, <1>13

\* For any number of ranks (table.c): the cells that rank 0 has received of a
\* rank and those on their way are, in order, all the rank has sent, and the
\* rows are those of the ranks below turn.
THEOREM CellsStayInOrder == FailsAlone = FALSE /\ RankSpec => []DumpInv
<1> SUFFICES ASSUME FailsAlone = FALSE PROVE RankSpec => []DumpInv
  OBVIOUS
<1>1. ASSUME RankInit PROVE DumpInv
  <2>1. Basics /\ program \in Programs /\ \A r \in Ranks : at[r] - 1 = 0 /\ rank_pc[r] = "call"
    BY <1>1, InitBasics DEF RankInit
  <2>2. 0 \in Ranks /\ rows = <<>> /\ \A r \in Ranks : channel[r]["cell"] = <<>>
    BY <1>1, RanksAre DEF RankInit, Tags
  <2>3. TabledBy(0) = <<>> /\ \A r \in Ranks : CarriedBy(r, 0) = <<>>
    BY <2>1, TabledSteps, CarriedSteps
  <2>4. CellsInFlight
    <3> SUFFICES ASSUME NEW r \in Ranks, r # 0
                 PROVE  CarriedBy(r, ReceivedUpTo(r)) \o channel[r]["cell"] = CarriedBy(r, SentUpTo(r))
      BY DEF CellsInFlight
    <3>1. ReceivedUpTo(r) = 0 /\ SentUpTo(r) = 0
      BY <2>1, <2>2 DEF ReceivedUpTo, SentUpTo
    <3>2. <<>> \o <<>> = <<>>
      OBVIOUS
    <3> QED
      BY <2>2, <2>3, <3>1, <3>2
  <2>5. RowsAreTabled
    BY <2>1, <2>2, <2>3 DEF RowsAreTabled
  <2> QED
    BY <2>1, <2>4, <2>5 DEF DumpInv
<1>2. ASSUME DumpInv, [RankNext]_rank_vars PROVE DumpInv'
  <2>0. Basics' /\ 0 \in Ranks
    BY <1>2, NextBasics, RanksAre DEF DumpInv
  <2>1. CASE Root
    <3>1. StepOf(0)
      BY <2>1 DEF StepOf
    <3>2. DumpGather \/ DumpCollect \/ DumpRootEnds \/ (CellsStay /\ Quietly(0))
      BY <1>2, <2>1, RootDumpKinds DEF DumpInv
    <3>3. CellsInFlight' /\ RowsAreTabled'
      BY <1>2, <2>0, <3>1, <3>2, GatherDump, CollectDump, QuietDump
    <3> QED
      BY <2>0, <3>3 DEF DumpInv
  <2>2. ASSUME NEW r \in Ranks, Step(r) PROVE DumpInv'
    <3>1. StepOf(r)
      BY <2>2 DEF StepOf
    <3>2. UNCHANGED turn /\ (DumpSend(r) \/ DumpSent(r) \/ (CellsStay /\ Quietly(r)))
      BY <1>2, <2>2, RankKinds DEF DumpInv
    <3>3. CellsInFlight' /\ RowsAreTabled'
      BY <1>2, <3>1, <3>2, SendDump, QuietDump
    <3> QED
      BY <2>0, <3>3 DEF DumpInv
  <2>3. CASE UNCHANGED rank_vars
    <3>1. program' = program
      BY <2>3, ProgramStays
    <3>2. UNCHANGED <<at, rank_pc, turn, channel, rows>>
      BY <2>3 DEF rank_vars, mpi, root
    <3>3. \A q \in Ranks : ReceivedUpTo(q)' = ReceivedUpTo(q) /\ SentUpTo(q)' = SentUpTo(q)
      BY <3>2 DEF ReceivedUpTo, SentUpTo
    <3>4. CellsInFlight'
      BY <1>2, <3>1, <3>2, <3>3, DumpThen DEF DumpInv, CellsInFlight
    <3>5. RowsAreTabled'
      BY <1>2, <3>1, <3>2, DumpThen DEF DumpInv, RowsAreTabled
    <3> QED
      BY <2>0, <3>4, <3>5 DEF DumpInv
  <2> QED
    BY <1>2, <2>1, <2>2, <2>3 DEF RankNext, Finish
<1> QED
  BY <1>1, <1>2, PTL DEF RankSpec

\* The inductive invariant of the dumps implies the property.
LEMMA RowsArePrefix == ASSUME DumpInv PROVE DumpsAreWhole
<1> DEFINE T == Nat \X Message
           n == Len(program)
           k == at[0]
<1>0. Basics /\ RowsAreTabled /\ program \in Programs /\ InPlace(0) /\ 0 \in Ranks /\ turn \in 0 .. N /\ N \in Nat
  BY RanksAre DEF DumpInv, Basics, RanksTyped, AllInPlace
<1>1. n \in Nat /\ n \in 0 .. n /\ k - 1 \in 0 .. n /\ k - 1 <= n /\ (rank_pc[0] # "call" => k \in 1 .. n /\ k \in 0 .. n /\ k <= n)
  BY <1>0, WhereRanksAre
<1>2. Table = TabledBy(n)
  BY DEF Table, TabledBy
<1>3. /\ \A i \in 0 .. n : TabledBy(i) \in Seq(T)
      /\ \A i \in 0 .. n : i <= n => Begins(TabledBy(i), TabledBy(n), T)
  <2>1. /\ \A i \in 0 .. n : TabledBy(i) \in Seq(T)
        /\ \A i, m \in 0 .. n : m <= i => Begins(TabledBy(m), TabledBy(i), T)
    BY <1>0, TabledSteps
  <2> HIDE DEF n, T
  <2> QED
    BY <1>1, <2>1
<1>4. rows \in Seq(T) /\ Begins(rows, TabledBy(n), T)
  <2>1. CASE rank_pc[0] = "collect"
    <3> DEFINE a == TabledBy(k - 1)
               b == DumpRows(k, turn)
               c == DumpRows(k, N)
    <3>1. rows = a \o b /\ k \in 1 .. n /\ k \in 0 .. n /\ k <= n /\ program[k].op = "dump"
      BY <1>0, <1>1, <2>1 DEF RowsAreTabled, InPlace
    <3>2. TabledBy(k) = a \o c
      BY <1>0, <1>1, <3>1, TabledSteps
    <3>3. b \in Seq(T) /\ c \in Seq(T) /\ Begins(b, c, T)
      <4>1. N \in 0 .. N /\ turn <= N
        BY <1>0
      <4> QED
        BY <1>0, <3>1, <4>1, DumpRowsSteps
    <3>4. a \in Seq(T) /\ TabledBy(k) \in Seq(T) /\ TabledBy(n) \in Seq(T) /\ Begins(TabledBy(k), TabledBy(n), T)
      BY <1>1, <1>3, <3>1
    <3> HIDE DEF a, b, c, T, n, k
    <3>5. rows \in Seq(T) /\ Begins(rows, TabledBy(k), T)
      BY <3>1, <3>2, <3>3, <3>4, BeginsAfter
    <3> QED
      BY <3>4, <3>5, BeginsTransitive
  <2>2. CASE rank_pc[0] # "collect"
    BY <1>0, <1>1, <1>3, <2>2 DEF RowsAreTabled
  <2> QED
    BY <2>1, <2>2
<1> QED
  BY <1>2, <1>4, BeginsIsPrefix DEF DumpsAreWhole

\* For any number of ranks and of cells and any program (table.c): what rank 0
\* writes is the cells of rank after rank, dump after dump, none lost and none of
\* another dump, although a fast rank may send those of its next dump already.
THEOREM DumpsStayWhole == FailsAlone = FALSE /\ RankSpec => []DumpsAreWhole
<1> SUFFICES ASSUME FailsAlone = FALSE PROVE RankSpec => []DumpsAreWhole
  OBVIOUS
<1>1. DumpInv => DumpsAreWhole
  BY RowsArePrefix
<1> QED
  BY <1>1, CellsStayInOrder, PTL
=============================================================================
