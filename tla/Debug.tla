------------------------------- MODULE Debug --------------------------------
(***************************************************************************)
(* Crash and timeout reports, src/include/mys/impl/debug.c.                *)
(*                                                                         *)
(* mys_debug_init puts one signal handler in the place of the client's, on *)
(* a stack of its own.  The handler first gives every signal its old       *)
(* handler back, then prints a report, then ends the process (EXIT is the  *)
(* only post action that can be in effect: nothing sets another).  So it   *)
(* never returns to the code it interrupted, which may hold the mutex of   *)
(* this module.  A timeout is a timer whose expiry runs a function on a    *)
(* thread of its own, and that function sends a signal to the process.     *)
(*                                                                         *)
(* The thread main makes the calls that set things up; signals hit any     *)
(* thread at any step but one inside the handler, and any thread sets the  *)
(* message.  A signal whose disposition is the client's is none of this    *)
(* module's business.  The code is right only for clients that keep the    *)
(* rules below, which no comment of it states; those in Broken are dropped *)
(* and TLC then finds what goes wrong (see README.md).                     *)
(***************************************************************************)
EXTENDS Integers, Sequences, FiniteSets

CONSTANTS Threads, main, NoThread,
          Signals,       \* the signals a client may want caught
          SIGTIMEOUT,    \* the signal of timeouts, SIGRTMIN + 1
          NoSignal,
          original,      \* original[s]: the client's disposition of s
          Installed,     \* the signals mys_debug_init sets, in order
          _MYS_DEBUG_SIGNAL_MAX,
          Broken,        \* the rules the client does not keep
          Expiries,      \* bound: functions of the timer that run at a time
          MaxInits       \* bound: calls of mys_debug_init

Rules == {"clear the last",        \* clear_signal is of the signal set last
          "clear before fini",     \* clear_timeout comes before fini
          "no crash in init"}      \* no signal hits main in a second init

ASSUME DebugAssumption ==
    /\ main \in Threads /\ NoThread \notin Threads
    /\ SIGTIMEOUT \notin Signals /\ NoSignal \notin Signals \cup {SIGTIMEOUT}
    /\ Installed \in Seq(Signals) /\ _MYS_DEBUG_SIGNAL_MAX \in Nat
    /\ Len(Installed) <= _MYS_DEBUG_SIGNAL_MAX
    /\ \A i, j \in DOMAIN Installed : Installed[i] = Installed[j] => i = j
    /\ original \in [Signals \cup {SIGTIMEOUT} -> {"default", "client"}]
    /\ Broken \subseteq Rules /\ MaxInits \in Nat

VARIABLES
    action,          \* action[s]: the disposition of s
    lock, inited, signals, nsignals, old_actions,
    stack,           \* stack_memory: "none", "allocated" or "freed"
    altstack,        \* main's alternate stack is stack_memory, alive or not
    signo, old_action,   \* of main's call of set_signal or clear_signal
    timeout_inited, timeout_reached, timeout_old_action,
    timeout_signal,  \* NoSignal: the -1 of mys_debug_init
    timer,           \* the timer of the kernel: "none", "disarmed" or "armed"
    expiry,          \* expiry[x]: where a function of the timer is, "out" when it
                     \* does not run, "sent" when its signal is on the way
    pc,              \* pc[t]: where t is, "out" between calls
    restarting,      \* mys_debug_clear_timeout is part of a restart
    overtaken,       \* history: main deleted a timer that had run out, before
                     \* the function of the timer did
    timed,           \* the threads that SIGTIMEOUT brought into the handler
    reports,         \* those that reported a timeout
    ended,           \* "no", or how the process ended
    inits            \* calls of mys_debug_init so far

process == <<action, reports, ended, inits>>
saved   == <<inited, signals, nsignals, old_actions>>
local   == <<signo, old_action>>
memory  == <<stack, altstack>>
watch   == <<timeout_inited, timeout_reached, timeout_old_action, timeout_signal>>
clock   == <<timer, expiry, overtaken>>
timeout == <<watch, clock, restarting>>
vars    == <<process, lock, saved, local, memory, timeout, pc, timed>>

All == Signals \cup {SIGTIMEOUT}
Places == 1 .. _MYS_DEBUG_SIGNAL_MAX
Actions == {"default", "client", "mys"}

Init == /\ action = original
        /\ lock = NoThread /\ inited = FALSE
        /\ signals = [i \in Places |-> NoSignal] /\ nsignals = 0
        /\ old_actions = [i \in Places |-> "default"]
        /\ signo = NoSignal /\ old_action = "default"
        /\ stack = "none" /\ altstack = FALSE
        /\ timeout_inited = FALSE /\ timeout_reached = FALSE
        /\ timeout_old_action = "default" /\ timeout_signal = NoSignal
        /\ timer = "none" /\ expiry = [x \in Expiries |-> "out"] /\ overtaken = FALSE
        /\ pc = [t \in Threads |-> "out"]
        /\ restarting = FALSE
        /\ timed = {}
        /\ reports = {} /\ ended = "no" /\ inits = 0

-----------------------------------------------------------------------------
At(t, step)   == ended = "no" /\ pc[t] = step
Goto(t, step) == pc' = [pc EXCEPT ![t] = step]

\* mys_mutex_lock, whose EDEADLK to the holder is ignored, and mys_mutex_unlock,
\* whose EPERM to others is ignored: they do not nest.
Acquire(t) == lock \in {NoThread, t} /\ lock' = t
Release(t) == lock' = IF lock = t THEN NoThread ELSE lock

\* The recorded signals, up to the first 0.
Recorded == {i \in Places : \A j \in 1 .. i : signals[j] # NoSignal}

\* _mys_debug_revert_all between lock and unlock: later records win.
RevertAll ==
    action' = [s \in All |->
                  IF \E i \in Recorded : signals[i] = s
                  THEN old_actions[CHOOSE i \in Recorded :
                           signals[i] = s /\ \A j \in Recorded : signals[j] = s => j <= i]
                  ELSE action[s]]

-----------------------------------------------------------------------------
\* mys_debug_set_message, get_message and clear_message take the lock ...
Message(t) ==
    /\ At(t, "out") /\ Acquire(t) /\ Goto(t, "message")
    /\ UNCHANGED <<process, saved, local, memory, timeout, timed>>

\* ... and give it back.
MessageEnds(t) ==
    /\ At(t, "message") /\ Release(t) /\ Goto(t, "out")
    /\ UNCHANGED <<process, saved, local, memory, timeout, timed>>

\* mys_debug_init of the process that is set up already.
InitAgain ==
    /\ At(main, "out") /\ Acquire(main) /\ inited
    /\ Goto(main, "message")
    /\ UNCHANGED <<process, saved, local, memory, timeout, timed>>

\* mys_debug_init sets its signals.
InitSignals ==
    /\ At(main, "out") /\ Acquire(main) /\ ~inited
    /\ inits < MaxInits /\ inits' = inits + 1
    /\ nsignals' = Len(Installed)
    /\ signals' = [i \in Places |-> IF i <= Len(Installed) THEN Installed[i] ELSE NoSignal]
    /\ old_actions' = [i \in Places |-> IF i <= Len(Installed) THEN action[Installed[i]]
                                        ELSE old_actions[i]]
    /\ action' = [s \in All |-> IF \E i \in DOMAIN Installed : Installed[i] = s
                                THEN "mys" ELSE action[s]]
    /\ Goto(main, "init")
    /\ UNCHANGED <<reports, ended, inited, local, memory, timeout, timed>>

\* The rest of mys_debug_init: the stack, and the fields of the timeout.
InitStack ==
    /\ At(main, "init")
    /\ stack' = "allocated" /\ altstack' = TRUE
    /\ timeout_inited' = FALSE /\ timeout_signal' = NoSignal
    /\ inited' = TRUE
    /\ Release(main) /\ Goto(main, "out")
    /\ UNCHANGED <<process, signals, nsignals, old_actions, local, timeout_reached,
                   timeout_old_action, clock, restarting, timed>>

\* mys_debug_fini enters.
Fini ==
    /\ At(main, "out") /\ inited
    /\ timeout_inited => "clear before fini" \in Broken
    /\ Acquire(main) /\ Goto(main, "fini")
    /\ UNCHANGED <<process, saved, local, memory, timeout, timed>>

\* Mutant of FiniReverts: the stack is freed first.
FiniFreesFirst ==
    /\ At(main, "fini")
    /\ stack' = "freed"
    /\ Acquire(main) /\ Goto(main, "free")
    /\ UNCHANGED <<process, saved, local, altstack, timeout, timed>>

\* It reverts the signals; the inner unlock releases the lock fini took.
FiniReverts ==
    /\ At(main, "fini")
    /\ RevertAll
    /\ Release(main) /\ Goto(main, "free")
    /\ UNCHANGED <<reports, ended, inits, saved, local, memory, timeout, timed>>

\* It frees the stack, which stays main's alternate stack.
FiniFrees ==
    /\ At(main, "free")
    /\ stack' = "freed" /\ inited' = FALSE
    /\ Release(main) /\ Goto(main, "out")
    /\ UNCHANGED <<process, signals, nsignals, old_actions, local, altstack, timeout, timed>>

\* Mutant of SetSignal: it does not look whether the signal is set.
SetSignalTwice(s) ==
    /\ At(main, "out") /\ inited /\ nsignals < _MYS_DEBUG_SIGNAL_MAX
    /\ signo' = s /\ old_action' = action[s]
    /\ action' = [action EXCEPT ![s] = "mys"]
    /\ Goto(main, "record")
    /\ UNCHANGED <<reports, ended, inits, lock, saved, memory, timeout, timed>>

\* mys_debug_set_signal of a signal that is not set; otherwise, and when the
\* array is full, it does nothing.  It takes no lock.  It installs the handler, ...
SetSignal(s) ==
    /\ At(main, "out") /\ inited /\ nsignals < _MYS_DEBUG_SIGNAL_MAX
    /\ \A i \in 1 .. nsignals : signals[i] # s
    /\ signo' = s /\ old_action' = action[s]
    /\ action' = [action EXCEPT ![s] = "mys"]
    /\ Goto(main, "record")
    /\ UNCHANGED <<reports, ended, inits, lock, saved, memory, timeout, timed>>

\* ... and then records it.
SetRecords ==
    /\ At(main, "record")
    /\ signals' = [signals EXCEPT ![nsignals + 1] = signo]
    /\ old_actions' = [old_actions EXCEPT ![nsignals + 1] = old_action]
    /\ nsignals' = nsignals + 1
    /\ signo' = NoSignal /\ old_action' = "default"
    /\ Goto(main, "out")
    /\ UNCHANGED <<process, lock, inited, memory, timeout, timed>>

\* The place of s among the signals, the one behind them if it is not set.
PlaceOf(s) == CHOOSE k \in 1 .. nsignals + 1 :
                  (k > nsignals \/ signals[k] = s) /\ \A i \in 1 .. k - 1 : signals[i] # s

\* mys_debug_clear_signal installs the action that is saved at the signal's place,
\* for a signal that is not set that of the place behind the last, which may lie
\* behind the array.  (With no signal set it goes on to write before the array.)
ClearSignal(s) ==
    /\ At(main, "out") /\ inited /\ nsignals > 0
    /\ PlaceOf(s) # nsignals => "clear the last" \in Broken
    /\ \E a \in Actions :
           /\ PlaceOf(s) \in Places => a = old_actions[PlaceOf(s)]
           /\ action' = [action EXCEPT ![s] = a]
    /\ signo' = s
    /\ Goto(main, "unrecord")
    /\ UNCHANGED <<reports, ended, inits, lock, saved, old_action, memory, timeout, timed>>

\* The signals behind it move up by one, the saved actions do not.  For a signal
\* that is not set the last one is dropped.
ClearUnrecords ==
    LET k == PlaceOf(signo)
    IN  /\ At(main, "unrecord")
        /\ signals' = [i \in Places |-> IF i = nsignals THEN NoSignal
                                        ELSE IF i < k \/ i > nsignals THEN signals[i]
                                        ELSE signals[i + 1]]
        /\ nsignals' = nsignals - 1
        /\ signo' = NoSignal
        /\ Goto(main, "out")
        /\ UNCHANGED <<process, lock, inited, old_actions, old_action, memory, timeout, timed>>

-----------------------------------------------------------------------------
\* An operation on the timer fails: exit(1).
Fail == ended' = "failed" /\ UNCHANGED <<action, reports, inits>>

\* _mys_debug_set_timeout.  The first time it installs the handler, ...
StartTimeout ==
    IF timeout_inited
    THEN Goto(main, "arm") /\ UNCHANGED <<action, timeout_old_action, timeout_signal>>
    ELSE /\ timeout_signal' = SIGTIMEOUT
         /\ timeout_old_action' = action[SIGTIMEOUT]
         /\ action' = [action EXCEPT ![SIGTIMEOUT] = "mys"]
         /\ Goto(main, "create")

\* (when the module is not set up the process ends)
SetTimeout ==
    /\ At(main, "out") /\ inited
    /\ StartTimeout
    /\ UNCHANGED <<reports, ended, inits, lock, saved, local, memory, timeout_inited,
                   timeout_reached, clock, restarting, timed>>

\* ... makes the timer, ...
CreateTimer ==
    /\ At(main, "create")
    /\ timer' = "disarmed"
    /\ Goto(main, "flags")
    /\ UNCHANGED <<process, lock, saved, local, memory, watch, expiry, overtaken,
                   restarting, timed>>

\* ... and says that there is one.
SetFlags ==
    /\ At(main, "flags")
    /\ timeout_reached' = FALSE /\ timeout_inited' = TRUE
    /\ Goto(main, "arm")
    /\ UNCHANGED <<process, lock, saved, local, memory, timeout_old_action, timeout_signal,
                   clock, restarting, timed>>

\* timer_settime, every time.
Arm ==
    /\ At(main, "arm")
    /\ IF timer = "none" THEN Fail /\ UNCHANGED timer
       ELSE timer' = "armed" /\ UNCHANGED process
    /\ Goto(main, "out")
    /\ UNCHANGED <<lock, saved, local, memory, watch, expiry, overtaken, restarting, timed>>

\* mys_debug_clear_timeout, or _mys_debug_restart_timeout, begins.
ClearTimeout(restart) ==
    /\ At(main, "out") /\ timeout_inited /\ (restart => inited)
    /\ restarting' = restart
    /\ Goto(main, "disarm")
    /\ UNCHANGED <<process, lock, saved, local, memory, watch, clock, timed>>

\* timer_settime with a zero time.
Disarm ==
    /\ At(main, "disarm")
    /\ IF timer = "none" THEN Fail /\ UNCHANGED timer
       ELSE timer' = "disarmed" /\ UNCHANGED process
    /\ Goto(main, "undo")
    /\ UNCHANGED <<lock, saved, local, memory, watch, expiry, overtaken, restarting, timed>>

\* sigaction with the old action.
Undo ==
    /\ At(main, "undo")
    /\ action' = [action EXCEPT ![SIGTIMEOUT] = timeout_old_action]
    /\ Goto(main, "delete")
    /\ UNCHANGED <<reports, ended, inits, lock, saved, local, memory, timeout, timed>>

\* timer_delete.
Delete ==
    /\ At(main, "delete")
    /\ IF timer = "none" THEN Fail /\ UNCHANGED <<timer, overtaken>>
       ELSE /\ timer' = "none"
            /\ overtaken' = (overtaken \/ \E x \in Expiries : expiry[x] = "delete")
            /\ UNCHANGED process
    /\ Goto(main, "forget")
    /\ UNCHANGED <<lock, saved, local, memory, watch, expiry, restarting, timed>>

\* The end of mys_debug_clear_timeout.
Forget ==
    /\ At(main, "forget")
    /\ timeout_inited' = FALSE /\ timeout_reached' = FALSE
    /\ Goto(main, IF restarting THEN "restart" ELSE "out")
    /\ UNCHANGED <<process, lock, saved, local, memory, timeout_old_action, timeout_signal,
                   clock, restarting, timed>>

\* The second half of a restart.
Restart ==
    /\ At(main, "restart")
    /\ StartTimeout
    /\ restarting' = FALSE
    /\ UNCHANGED <<reports, ended, inits, lock, saved, local, memory, timeout_inited,
                   timeout_reached, clock, timed>>

-----------------------------------------------------------------------------
Advance(x, step) == expiry' = [expiry EXCEPT ![x] = step]
ExpiryAt(x, step) == ended = "no" /\ expiry[x] = step

\* The kernel: the timer runs out once and runs its function on a new thread.
Expire(x) ==
    /\ ExpiryAt(x, "out") /\ timer = "armed"
    /\ timer' = "disarmed" /\ Advance(x, "delete")
    /\ UNCHANGED <<process, lock, saved, local, memory, watch, overtaken, restarting,
                   pc, timed>>

\* Mutant of ExpireDelete: the function leaves the timer to main.
ExpireKeepsTimer(x) ==
    /\ ExpiryAt(x, "delete")
    /\ Advance(x, "reached")
    /\ UNCHANGED <<process, lock, saved, local, memory, watch, timer, overtaken, restarting,
                   pc, timed>>

\* _mys_debug_timeout_handler: timer_delete of the timer there is, which may be
\* none or a new one and whose failure is ignored, ...
ExpireDelete(x) ==
    /\ ExpiryAt(x, "delete")
    /\ timer' = "none" /\ Advance(x, "reached")
    /\ UNCHANGED <<process, lock, saved, local, memory, watch, overtaken, restarting,
                   pc, timed>>

\* ... the flag, ...
ExpireReached(x) ==
    /\ ExpiryAt(x, "reached")
    /\ timeout_reached' = TRUE /\ Advance(x, "kill")
    /\ UNCHANGED <<process, lock, saved, local, memory, timeout_inited, timeout_old_action,
                   timeout_signal, timer, overtaken, restarting, pc, timed>>

\* ... and the signal; there is none between an init and the next timeout.
ExpireKill(x) ==
    /\ ExpiryAt(x, "kill")
    /\ Advance(x, IF timeout_signal = NoSignal THEN "out" ELSE "sent")
    /\ UNCHANGED <<process, lock, saved, local, memory, watch, timer, overtaken, restarting,
                   pc, timed>>

-----------------------------------------------------------------------------
HandlerSteps == {"revert", "print", "exit"}

Handling(t) == pc[t] \in HandlerSteps \cup {"handler"}

\* The kernel delivers s to t: the handler of this module starts, or the
\* process ends, or the client's handler runs and returns.
Deliver(t, s) ==
    \/ /\ action[s] = "mys"
       /\ timed' = IF s = SIGTIMEOUT THEN timed \cup {t} ELSE timed
       /\ Goto(t, "handler")
       /\ UNCHANGED process
    \/ /\ action[s] = "default"
       /\ ended' = "killed"
       /\ UNCHANGED <<action, reports, inits, timed, pc>>
    \/ /\ action[s] = "client"
       /\ UNCHANGED <<process, timed, pc>>

\* A signal hits t: a fault of its own, or one that somebody sent.
Crash(t, s) ==
    /\ ended = "no" /\ ~Handling(t)
    /\ t = main /\ pc[t] = "init" /\ stack = "freed" => "no crash in init" \in Broken
    /\ Deliver(t, s)
    /\ UNCHANGED <<lock, saved, local, memory, timeout>>

\* The signal of the timeout is delivered to some thread.
Timeout(t) ==
    /\ ended = "no" /\ ~Handling(t)
    /\ \E x \in Expiries : expiry[x] = "sent" /\ Advance(x, "out")
    /\ Deliver(t, SIGTIMEOUT)
    /\ UNCHANGED <<lock, saved, local, memory, watch, timer, overtaken, restarting>>

\* Mutant of HandlerLocks: the lock waits for its holder, whoever that is.
HandlerWaits(t) ==
    /\ At(t, "handler")
    /\ lock = NoThread /\ lock' = t /\ Goto(t, "revert")
    /\ UNCHANGED <<process, saved, local, memory, timeout, timed>>

\* _mys_debug_revert_all in the handler: lock, ...
HandlerLocks(t) ==
    /\ At(t, "handler")
    /\ Acquire(t) /\ Goto(t, "revert")
    /\ UNCHANGED <<process, saved, local, memory, timeout, timed>>

\* ... the loop and unlock.
HandlerReverts(t) ==
    /\ At(t, "revert")
    /\ RevertAll
    /\ Release(t) /\ Goto(t, "print")
    /\ UNCHANGED <<reports, ended, inits, saved, local, memory, timeout, timed>>

\* The report, as far as it is about timeouts: the signal of one is sent, and who
\* does not take it for a timeout does not report it (MPI_Abort sends signals).
HandlerPrints(t) ==
    LET is_timeout == /\ timeout_inited /\ timeout_reached
                      /\ t \in timed /\ timeout_signal = SIGTIMEOUT
    IN  /\ At(t, "print")
        /\ reports' = IF is_timeout THEN reports \cup {t} ELSE reports
        /\ Goto(t, "exit")
        /\ UNCHANGED <<action, ended, inits, lock, saved, local, memory, timeout, timed>>

\* sleep(1) and _exit(signo).
HandlerExits(t) ==
    /\ At(t, "exit")
    /\ ended' = "exited"
    /\ Goto(t, "gone")
    /\ UNCHANGED <<action, reports, inits, lock, saved, local, memory, timeout, timed>>

Calls == \/ \E t \in Threads : Message(t)
         \/ InitAgain \/ InitSignals \/ Fini
         \/ \E s \in Signals : SetSignal(s) \/ ClearSignal(s)
         \/ SetTimeout
         \/ \E restart \in BOOLEAN : ClearTimeout(restart)

Main == InitStack \/ FiniReverts \/ FiniFrees \/ SetRecords \/ ClearUnrecords
            \/ CreateTimer \/ SetFlags \/ Arm \/ Disarm \/ Undo \/ Delete \/ Forget \/ Restart

Thread(t) == MessageEnds(t) \/ HandlerLocks(t) \/ HandlerReverts(t)
                 \/ HandlerPrints(t) \/ HandlerExits(t)

Timer(x) == ExpireDelete(x) \/ ExpireReached(x) \/ ExpireKill(x)

Next == \/ Calls \/ Main
        \/ \E x \in Expiries : Timer(x) \/ Expire(x)
        \/ \E t \in Threads : Thread(t) \/ Timeout(t)
        \/ \E t \in Threads, s \in Signals : Crash(t, s)

Spec == Init /\ [][Next]_vars

\* Every thread that is in a call or a handler runs, the timer's too, and the
\* kernel runs out armed timers and delivers what was sent.
Fairness == /\ WF_vars(Main) /\ \A t \in Threads : WF_vars(Thread(t))
            /\ \A x \in Expiries : WF_vars(Timer(x))
            /\ WF_vars(\E x \in Expiries : Expire(x))
            /\ WF_vars(\E t \in Threads : Timeout(t))

FairSpec == Spec /\ Fairness

-----------------------------------------------------------------------------
\* After mys_debug_fini every signal has the client's handler again, and after
\* mys_debug_clear_timeout so has that of the timeout, whatever was set, set
\* twice and cleared in between (debug.h: finalize and revert old handlers).
FiniRestores ==
    /\ (ended = "no" /\ ~inited /\ pc[main] = "out") =>
           \A s \in Signals : action[s] = original[s]
    /\ (ended = "no" /\ ~timeout_inited /\ pc[main] = "out") =>
           action[SIGTIMEOUT] = original[SIGTIMEOUT]

\* The handler, when it runs on the alternate stack, has that stack: main does
\* not come into the handler after the memory was freed.
HandlerHasStack == (Handling(main) /\ altstack) => stack = "allocated"

\* Once its function has deleted the timer, a timeout is reported, whatever main
\* is doing to it meanwhile: its signal finds the handler of this module, and who
\* catches it takes it for a timeout and not for a signal that somebody sent.  What
\* is excepted is what the code does not prevent: main deleted the timer first
\* (overtaken), and main is between the last two steps of a clear, the second of
\* which ends the process, or was caught there by a signal of its own.
TimeoutIsReported ==
    \/ overtaken
    \/ /\ (ended = "no" /\ \E x \in Expiries : expiry[x] = "sent") =>
              action[SIGTIMEOUT] = "mys" \/ pc[main] = "delete" \/ Handling(main)
       /\ \A t \in Threads :
              (pc[t] \in {"exit", "gone"} /\ t \in timed) => t \in reports

\* After mys_debug_clear_timeout no timeout is on its way.  The code does not
\* keep this (see README.md).
ClearedIsOff ==
    (ended = "no" /\ ~timeout_inited /\ pc[main] = "out") =>
        \A x \in Expiries : expiry[x] = "out"

\* A thread that comes into the handler gets to its end, also when it was hit
\* while it, or another thread, held the lock.  The lock is a spin lock: it does
\* not promise anything to a thread while others call again and again.
HandlerEnds == (<>[][~Calls]_vars) => ((\E t \in Threads : pc[t] = "handler") ~> ended # "no")
=============================================================================
