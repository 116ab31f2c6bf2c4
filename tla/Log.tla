-------------------------------- MODULE Log ---------------------------------
(***************************************************************************)
(* A logger in one process, src/include/mys/impl/log.c.                    *)
(*                                                                         *)
(* A logger has a level, a silent flag and an array of handlers.  A call   *)
(* that logs takes the logger's mutex, decides whether the message gets    *)
(* out and calls the handlers one after the other, still holding the       *)
(* mutex; a handler is the client's code and takes its time.  Everything   *)
(* that changes the logger takes the mutex too, and is one step here.      *)
(* mys_log_once takes it three times: it looks its site (file and line) up *)
(* in once_map, adds the site, and logs.                                   *)
(*                                                                         *)
(* Handlers do not call the logger they are called by: its mutex would     *)
(* refuse the inner call (EDEADLK, which log.c ignores) and be released    *)
(* by it.  Collective logging over several processes is not in this module.*)
(***************************************************************************)
EXTENDS Integers, Sequences, FiniteSets, SequencesExt

CONSTANTS Threads, NoThread,
          Levels,         \* the levels that are used, numbers
          Sites,          \* the places in the program that call mys_log_once
          NoSite,
          MYS_LOG_MAX_HANDLER,
          OnceOverlaps,   \* whether two threads can be in the same site at once
          MaxIds,         \* bound: the handlers ever added
          MaxOnce         \* bound: the messages logged from one site

ASSUME LogAssumption ==
    /\ NoThread \notin Threads /\ NoSite \notin Sites
    /\ Levels \subseteq Int
    /\ MYS_LOG_MAX_HANDLER \in Nat \ {0}
    /\ OnceOverlaps \in BOOLEAN
    /\ MaxIds \in Nat /\ MaxOnce \in Nat \ {0}

VARIABLES
    lock, level, silent,
    handlers,            \* the ids of handlers[0 .. num_handlers - 1]
    handler_id_counter,
    once_map,            \* the sites in the hash
    pc,                  \* pc[t]: where t is, or "out" between calls
    event,               \* event[t]: [level, site, mine] of the call t is in
    index,               \* index[t]: the loop of mys_log_invoke_handlers
    got,                 \* got[t]: handlers called with the event (history)
    onces                \* onces[s]: messages of site s that came out (history)

logger == <<level, silent, handlers, handler_id_counter, once_map>>
history == <<got, onces>>
vars == <<lock, logger, pc, event, index, history>>

NoEvent == [level |-> 0, site |-> NoSite, mine |-> FALSE]
EventType == [level : Levels \cup {0}, site : Sites \cup {NoSite}, mine : BOOLEAN]

\* mys_predefined_logger: one handler, level MYS_LOG_TRACE.
Init == /\ lock = NoThread
        /\ level \in Levels /\ \A l \in Levels : level <= l
        /\ silent = FALSE
        /\ handlers = <<0>>
        /\ handler_id_counter = 1
        /\ once_map = {}
        /\ pc = [t \in Threads |-> "out"]
        /\ event = [t \in Threads |-> NoEvent]
        /\ index = [t \in Threads |-> 1]
        /\ got = [t \in Threads |-> <<>>]
        /\ onces = [s \in Sites |-> 0]

-----------------------------------------------------------------------------
Goto(t, step) == pc' = [pc EXCEPT ![t] = step]

Call(t, step, e) ==
    /\ pc[t] = "out"
    /\ Goto(t, step)
    /\ event' = [event EXCEPT ![t] = e]
    /\ UNCHANGED <<lock, logger, index, history>>

Return(t) ==
    /\ pc' = [pc EXCEPT ![t] = "out"]
    /\ event' = [event EXCEPT ![t] = NoEvent]
    /\ index' = [index EXCEPT ![t] = 1]

\* mys_log_rank to this rank or to another one; mys_log_when and mys_log_self
\* are calls to this rank.
LogRank(t, l, mine) == Call(t, "log", [level |-> l, site |-> NoSite, mine |-> mine])

\* mys_log_once.  A site is counted up to MaxOnce.
LogOnce(t, l, s) ==
    /\ onces[s] < MaxOnce
    /\ OnceOverlaps \/ \A u \in Threads : event[u].site # s
    /\ Call(t, "find", [level |-> l, site |-> s, mine |-> TRUE])

\* The first critical section of mys_log_once: the site is looked up.
FindOnce(t) ==
    /\ pc[t] = "find" /\ lock = NoThread
    /\ IF event[t].site \in once_map
       THEN Return(t)
       ELSE Goto(t, "insert") /\ UNCHANGED <<event, index>>
    /\ UNCHANGED <<lock, logger, history>>

\* Mutant of InsertOnce: the site is not added.
InsertOnceForgotten(t) ==
    /\ pc[t] = "insert" /\ lock = NoThread
    /\ Goto(t, "log")
    /\ UNCHANGED <<lock, logger, event, index, history>>

\* The second critical section of mys_log_once: the site is added.
InsertOnce(t) ==
    /\ pc[t] = "insert" /\ lock = NoThread
    /\ once_map' = once_map \cup {event[t].site}
    /\ Goto(t, "log")
    /\ UNCHANGED <<lock, level, silent, handlers, handler_id_counter, event, index, history>>

\* Mutant of EnterLog: the mutex is not taken.
EnterLogUnlocked(t) ==
    /\ pc[t] = "log"
    /\ ~silent /\ event[t].mine /\ event[t].level >= level
    /\ Goto(t, "next")
    /\ got' = [got EXCEPT ![t] = <<>>]
    /\ onces' = [s \in Sites |->
                    onces[s] + IF event[t].site = s /\ handlers # <<>> THEN 1 ELSE 0]
    /\ UNCHANGED <<lock, logger, event, index>>

\* _mys_log_impl lets the message out and goes on to the handlers.
EnterLog(t) ==
    /\ pc[t] = "log" /\ lock = NoThread
    /\ ~silent /\ event[t].mine /\ event[t].level >= level
    /\ lock' = t
    /\ Goto(t, "next")
    /\ got' = [got EXCEPT ![t] = <<>>]
    /\ onces' = [s \in Sites |->
                    onces[s] + IF event[t].site = s /\ handlers # <<>> THEN 1 ELSE 0]
    /\ UNCHANGED <<logger, event, index>>

\* _mys_log_impl holds the message back.
FilterLog(t) ==
    /\ pc[t] = "log" /\ lock = NoThread
    /\ silent \/ ~event[t].mine \/ event[t].level < level
    /\ Return(t)
    /\ UNCHANGED <<lock, logger, history>>

\* mys_log_invoke_handlers calls the next handler.
CallHandler(t) ==
    /\ pc[t] = "next" /\ index[t] <= Len(handlers)
    /\ Goto(t, "handler")
    /\ got' = [got EXCEPT ![t] = Append(@, handlers[index[t]])]
    /\ UNCHANGED <<lock, logger, event, index, onces>>

\* The handler returns.
HandlerReturns(t) ==
    /\ pc[t] = "handler"
    /\ Goto(t, "next")
    /\ index' = [index EXCEPT ![t] = @ + 1]
    /\ UNCHANGED <<lock, logger, event, history>>

\* All handlers have been called: _mys_log_impl unlocks.
LeaveLog(t) ==
    /\ pc[t] = "next" /\ index[t] > Len(handlers)
    /\ lock' = NoThread
    /\ Return(t)
    /\ got' = [got EXCEPT ![t] = <<>>]
    /\ UNCHANGED <<logger, onces>>

-----------------------------------------------------------------------------
\* A call that is one critical section.
Section(t) == pc[t] = "out" /\ lock = NoThread /\ UNCHANGED <<lock, pc, event, index, history>>

\* mys_log_add_handler.  A NULL function, or a full array, is refused.
AddHandler(t) ==
    /\ Section(t)
    /\ handler_id_counter < MaxIds
    /\ Len(handlers) < MYS_LOG_MAX_HANDLER
    /\ handlers' = Append(handlers, handler_id_counter)
    /\ handler_id_counter' = handler_id_counter + 1
    /\ UNCHANGED <<level, silent, once_map>>

\* Mutant of Without: the last handler takes the place of the removed one.
WithoutSwapsLast(id) ==
    LET i == CHOOSE j \in DOMAIN handlers : handlers[j] = id
    IN  IF id \notin ToSet(handlers) THEN handlers
        ELSE Front([handlers EXCEPT ![i] = Last(handlers)])

\* The array once the handlers behind id have moved up by one.
Without(id) ==
    LET i == CHOOSE j \in DOMAIN handlers : handlers[j] = id
    IN  IF id \notin ToSet(handlers) THEN handlers
        ELSE [j \in 1 .. Len(handlers) - 1 |-> handlers[IF j < i THEN j ELSE j + 1]]

\* Mutant of RemoveHandler: the mutex is not taken.
RemoveHandlerUnlocked(t, id) ==
    /\ pc[t] = "out"
    /\ handlers' = Without(id)
    /\ UNCHANGED <<lock, pc, event, index, history, level, silent, handler_id_counter, once_map>>

\* mys_log_remove_handler.  Of an id that is not there it does nothing.
RemoveHandler(t, id) ==
    /\ Section(t)
    /\ handlers' = Without(id)
    /\ UNCHANGED <<level, silent, handler_id_counter, once_map>>

\* mys_log_clear_handler.
ClearHandler(t) ==
    /\ Section(t)
    /\ handlers' = <<>>
    /\ UNCHANGED <<level, silent, handler_id_counter, once_map>>

\* mys_log_set_level.
SetLevel(t, l) ==
    /\ Section(t)
    /\ level' = l
    /\ UNCHANGED <<silent, handlers, handler_id_counter, once_map>>

\* Mutant of Silent: the mutex is not taken.
SilentUnlocked(t, val) ==
    /\ pc[t] = "out"
    /\ silent' = val
    /\ UNCHANGED <<lock, pc, event, index, history, level, handlers, handler_id_counter, once_map>>

\* mys_log_silent.
Silent(t, val) ==
    /\ Section(t)
    /\ silent' = val
    /\ UNCHANGED <<level, handlers, handler_id_counter, once_map>>

Next == \E t \in Threads :
            \/ \E l \in Levels, mine \in BOOLEAN : LogRank(t, l, mine)
            \/ \E l \in Levels, s \in Sites : LogOnce(t, l, s)
            \/ FindOnce(t) \/ InsertOnce(t)
            \/ EnterLog(t) \/ FilterLog(t)
            \/ CallHandler(t) \/ HandlerReturns(t) \/ LeaveLog(t)
            \/ AddHandler(t) \/ ClearHandler(t)
            \/ \E id \in 0 .. MaxIds - 1 : RemoveHandler(t, id)
            \/ \E l \in Levels : SetLevel(t, l)
            \/ \E val \in BOOLEAN : Silent(t, val)

Spec == Init /\ [][Next]_vars

-----------------------------------------------------------------------------
TypeOK ==
    /\ lock \in Threads \cup {NoThread}
    /\ level \in Levels /\ silent \in BOOLEAN
    /\ handlers \in Seq(Nat) /\ Len(handlers) <= MYS_LOG_MAX_HANDLER
    /\ handler_id_counter \in Nat
    /\ once_map \in SUBSET Sites
    /\ pc \in [Threads -> {"out", "find", "insert", "log", "next", "handler"}]
    /\ event \in [Threads -> EventType]
    /\ index \in [Threads -> 1 .. MYS_LOG_MAX_HANDLER + 1]
    /\ got \in [Threads -> Seq(Nat)]
    /\ onces \in [Sites -> Nat]

\* Handlers never run on two threads at once, so that they need no lock of
\* their own and messages are not mixed.
HandlersSerialized ==
    \A t \in Threads : pc[t] \in {"next", "handler"} =>
        \A u \in Threads \ {t} : pc[u] \notin {"next", "handler"}

\* A handler that runs is installed, and its message is one that the logger
\* lets out now: no message comes out after mys_log_silent, mys_log_set_level
\* or mys_log_remove_handler has returned to forbid it.
RunningIsWanted ==
    \A t \in Threads : pc[t] = "handler" =>
        /\ Last(got[t]) \in ToSet(handlers)
        /\ ~silent /\ event[t].level >= level

\* A message that gets out goes to every installed handler once, in the order
\* in which they were added.
DeliversToAll ==
    [][\A t \in Threads : (pc[t] = "next" /\ pc'[t] = "out") => got[t] = handlers]_vars

\* Handlers stay in the order in which they were added and an id is never
\* given to a second handler: removing by id removes the one that was meant.
HandlersInOrder ==
    /\ \A i, j \in DOMAIN handlers : i < j => handlers[i] < handlers[j]
    /\ \A i \in DOMAIN handlers : handlers[i] < handler_id_counter

\* mys_log_once logs only once at a site (log.c: log only once at "file:line").
OncePerSite == \A s \in Sites : onces[s] <= 1
=============================================================================
