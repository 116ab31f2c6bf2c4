----------------------------- MODULE DebugProofs -----------------------------
(***************************************************************************)
(* Proofs about the two modules that deal with processes and signals.      *)
(*                                                                         *)
(* Debug, for any threads, signals, old handlers and sizes of the array,   *)
(* when the client keeps all of its rules (Broken = {}).                   *)
(* A signal whose handler is not the client's is one of the recorded ones, *)
(* and what is saved for a recorded signal is the client's handler: so a   *)
(* revert by whichever thread puts everything back, and between fini and   *)
(* init nothing of this module is left that could run on a freed stack.    *)
(* A timeout that expires deletes the timer: main, if it has not deleted it *)
(* before, fails at its next operation on it before it can forget it.      *)
(*                                                                         *)
(* Popen, for any number of children, any programs, exit codes, and sizes  *)
(* of pipes and buffers.                                                   *)
(* Two facts carry it.  A unit that was printed is in the pipe or in the   *)
(* buffer.  And a prun that has read a stream to its end knows that its    *)
(* child has ended and will print no more, so that the pipes it closes     *)
(* are empty and end nobody by a signal.                                   *)
(***************************************************************************)
EXTENDS Debug, Popen, TLAPS

Steps == {"out", "message", "init", "fini", "free", "record", "unrecord", "create", "flags",
          "arm", "disarm", "undo", "delete", "forget", "restart",
          "handler", "revert", "print", "exit", "gone"}

TypeOK ==
    /\ action \in [All -> Actions]
    /\ inited \in BOOLEAN /\ altstack \in BOOLEAN
    /\ signals \in [Places -> Signals \cup {NoSignal}] /\ old_actions \in [Places -> Actions]
    /\ nsignals \in 0 .. _MYS_DEBUG_SIGNAL_MAX
    /\ signo \in Signals \cup {NoSignal} /\ old_action \in Actions
    /\ stack \in {"none", "allocated", "freed"}
    /\ timeout_inited \in BOOLEAN /\ timeout_reached \in BOOLEAN /\ overtaken \in BOOLEAN
    /\ timeout_old_action \in Actions /\ timeout_signal \in {SIGTIMEOUT, NoSignal}
    /\ timer \in {"none", "disarmed", "armed"}
    /\ expiry \in [Expiries -> {"out", "delete", "reached", "kill", "sent"}]
    /\ pc \in [Threads -> Steps]
    /\ timed \subseteq Threads

\* The signals are the first of the array, each once, with the handlers of the
\* client, and no other has the handler of this module, but for one that is
\* about to be recorded.
SignalsOK ==
    /\ \A i \in Places : signals[i] # NoSignal <=> i <= nsignals
    /\ \A i, j \in 1 .. nsignals : signals[i] = signals[j] => i = j
    /\ \A i \in 1 .. nsignals : old_actions[i] = original[signals[i]]
    /\ \A s \in Signals : action[s] # original[s] =>
           action[s] = "mys" /\ (s = signo \/ \E i \in 1 .. nsignals : signals[i] = s)

\* Main is in the handler, or the process has ended.
Caught == Handling(main) \/ pc[main] = "gone"

\* The signal of a call: about to be recorded, or about to be dropped.
LocalOK ==
    /\ pc[main] \in {"record", "unrecord"} \/ Caught \/ signo = NoSignal
    /\ pc[main] = "record" => /\ signo \in Signals /\ nsignals < _MYS_DEBUG_SIGNAL_MAX
                              /\ old_action = original[signo]
                              /\ \A i \in 1 .. nsignals : signals[i] # signo
    /\ pc[main] = "unrecord" => /\ nsignals > 0 /\ signo = signals[nsignals]
                                /\ action[signo] = original[signo]

\* Where main can be, whether the module is set up or not.
CallsOK ==
    /\ pc[main] \in {"fini", "free", "record", "unrecord", "create", "flags", "arm",
                     "disarm", "undo", "delete", "forget", "restart"} => inited
    /\ pc[main] = "init" => ~inited
    /\ pc[main] = "free" \/ (~inited /\ pc[main] \in {"out", "message"}) =>
           \A s \in Signals : action[s] = original[s]
    /\ \A t \in Threads : pc[t] = "gone" => ended # "no"
    /\ \A t \in Threads \ {main} : pc[t] \in {"out", "message"} \/ Handling(t) \/ pc[t] = "gone"
    /\ \A t \in timed : Handling(t) \/ pc[t] = "gone"

\* The memory of the stack is there as long as the module is set up.
StackOK ==
    /\ inited => stack = "allocated"
    /\ stack = "none" => ~altstack
    /\ Handling(main) /\ altstack => stack = "allocated"

\* The handler of the timeout is set while there is one, from before main says
\* that there is to before main deletes the timer.
TimeoutOK ==
    /\ action[SIGTIMEOUT] # original[SIGTIMEOUT] =>
           action[SIGTIMEOUT] = "mys" /\ inited
               /\ (timeout_inited \/ pc[main] \in {"create", "flags"} \/ Caught)
    /\ timeout_inited \/ pc[main] \in {"create", "flags"} =>
           /\ inited /\ timeout_old_action = original[SIGTIMEOUT] /\ timeout_signal = SIGTIMEOUT
           /\ pc[main] \in {"delete", "forget"} \/ Caught \/ action[SIGTIMEOUT] = "mys"
    /\ timeout_inited => pc[main] \notin {"init", "fini", "free", "create", "flags", "restart"}
    /\ pc[main] \in {"arm", "disarm", "undo", "delete", "forget"} => timeout_inited
    /\ pc[main] \in {"delete", "forget", "restart"} =>
           action[SIGTIMEOUT] = original[SIGTIMEOUT]
    /\ timer = "armed" => timeout_inited /\ pc[main] \notin {"undo", "delete", "forget"}
    /\ pc[main] = "forget" => timer = "none" \/ ended # "no"

\* The timeout cannot be forgotten: there is one, and main is not where it changes
\* what the handler reads.
Kept == timeout_inited /\ pc[main] # "forget"

\* A timeout that has run out, from the start of the function to the end of the
\* process, keeps main from forgetting it, if main did not overtake the function.
TimerOK == ended = "no" /\ ~overtaken =>
    /\ \A x \in Expiries : expiry[x] # "out" => Kept
    /\ \A x \in Expiries : expiry[x] \in {"reached", "kill", "sent"} => timer = "none"
    /\ \A x \in Expiries : expiry[x] \in {"kill", "sent"} => timeout_reached
    /\ \A t \in timed : Handling(t) => Kept /\ timeout_reached /\ timer = "none"

\* What is to be shown of reports.
ReportOK ==
    overtaken \/ \A t \in timed : pc[t] \in {"exit", "gone"} => t \in reports

IInv == TypeOK /\ SignalsOK /\ LocalOK /\ CallsOK /\ StackOK /\ TimeoutOK /\ TimerOK /\ ReportOK

-----------------------------------------------------------------------------
\* A process that has not called anything satisfies the invariant.
LEMMA InitIInv == Init => IInv
<1> SUFFICES ASSUME Init PROVE IInv
  OBVIOUS
<1> USE DebugAssumption
<1>1. TypeOK
  <2>1. action \in [All -> Actions]
    BY DEF Init, Actions, All
  <2>2. signals \in [Places -> Signals \cup {NoSignal}] /\ old_actions \in [Places -> Actions]
    BY DEF Init, Actions
  <2>3. pc \in [Threads -> Steps] /\ timed \subseteq Threads
    BY DEF Init, Steps
  <2>4. nsignals \in 0 .. _MYS_DEBUG_SIGNAL_MAX /\ timeout_old_action \in Actions
           /\ old_action \in Actions
    BY DEF Init, Actions
  <2>5. expiry \in [Expiries -> {"out", "delete", "reached", "kill", "sent"}]
    BY DEF Init
  <2> QED
    BY <2>1, <2>2, <2>3, <2>4, <2>5 DEF Init, TypeOK
<1>2. SignalsOK /\ LocalOK /\ CallsOK /\ StackOK
  BY DEF Init, SignalsOK, LocalOK, CallsOK, StackOK, Handling, HandlerSteps, Places
<1>3. TimeoutOK /\ TimerOK /\ ReportOK
  BY DEF Init, TimeoutOK, TimerOK, ReportOK, Handling, HandlerSteps, All
<1> QED
  BY <1>1, <1>2, <1>3 DEF IInv

\* A revert gives every signal the handler of the client, but for one that is about
\* to be recorded, and leaves the handler of the timeout as it is.
LEMMA RevertAllRestores ==
    ASSUME TypeOK, SignalsOK, RevertAll
    PROVE  /\ action' \in [All -> Actions]
           /\ \A s \in Signals : s # signo => action'[s] = original[s]
           /\ \A s \in Signals : action'[s] \in {action[s], original[s]}
           /\ action'[SIGTIMEOUT] = action[SIGTIMEOUT]
<1> USE DebugAssumption
<1>1. Recorded = 1 .. nsignals
  <2>1. ASSUME NEW i \in Places
        PROVE  i \in Recorded <=> i <= nsignals
    <3>1. i \in Int /\ nsignals \in Int /\ i \in 1 .. i /\ 1 .. i \subseteq Places
      BY DEF TypeOK, Places
    <3>2. i \in Recorded <=> \A j \in 1 .. i : signals[j] # NoSignal
      BY DEF Recorded
    <3>3. \A j \in 1 .. i : signals[j] # NoSignal <=> j <= nsignals
      BY <3>1 DEF SignalsOK
    <3> QED
      BY <3>1, <3>2, <3>3
  <2>2. Recorded \subseteq Places
    BY DEF Recorded
  <2>3. nsignals \in Int /\ nsignals <= _MYS_DEBUG_SIGNAL_MAX /\ 1 .. nsignals \subseteq Places
    BY DEF TypeOK, Places
  <2>4. \A i \in Places : i \in 1 .. nsignals <=> i <= nsignals
    BY <2>3 DEF Places
  <2> QED
    BY <2>1, <2>2, <2>3, <2>4
<1>2. ASSUME NEW s \in All, NEW i \in Recorded, signals[i] = s
      PROVE  action'[s] = original[s] /\ s # SIGTIMEOUT
  <2> DEFINE P(k) == signals[k] = s /\ \A j \in Recorded : signals[j] = s => j <= k
             c == CHOOSE k \in Recorded : P(k)
  <2>1. \A k \in Recorded : signals[k] = s => k = i
    BY <1>1, <1>2 DEF SignalsOK
  <2>2. i \in Int /\ P(i)
    BY <1>1, <1>2, <2>1
  <2>3. c \in Recorded /\ P(c)
    BY <2>2
  <2>4. c = i
    BY <2>1, <2>3
  <2>5. action'[s] = old_actions[c]
    BY <1>2 DEF RevertAll
  <2>6. action'[s] = original[s] /\ s # NoSignal
    BY <1>1, <1>2, <2>4, <2>5 DEF SignalsOK, All
  <2>7. s \in Signals
    BY <1>2, <2>6 DEF TypeOK, Recorded
  <2> QED
    BY <2>6, <2>7
<1>3. ASSUME NEW s \in All, \A i \in Recorded : signals[i] # s
      PROVE  action'[s] = action[s]
  BY <1>3 DEF RevertAll
<1>4. \A s \in Signals : /\ s # signo => action'[s] = original[s]
                         /\ action'[s] \in {action[s], original[s]}
  <2> TAKE s \in Signals
  <2>1. CASE \E i \in Recorded : signals[i] = s
    BY <1>2, <2>1 DEF All
  <2>2. CASE \A i \in Recorded : signals[i] # s
    BY <1>1, <1>3, <2>2 DEF SignalsOK, All
  <2> QED
    BY <2>1, <2>2
<1>5. action'[SIGTIMEOUT] = action[SIGTIMEOUT]
  BY <1>2, <1>3 DEF All
<1>6. action' \in [All -> Actions]
  <2>1. action' = [s \in All |-> action'[s]]
    BY DEF RevertAll
  <2>2. \A s \in All : action'[s] \in Actions
    BY <1>4, <1>5 DEF TypeOK, All, Actions
  <2> QED
    BY <2>1, <2>2
<1> QED
  BY <1>4, <1>5, <1>6

\* A call about the message begins.
LEMMA MessageIInv ==
    ASSUME Broken = {}, IInv, NEW t \in Threads, Message(t)
    PROVE  IInv'
<1> USE DebugAssumption
<1>0. TypeOK /\ SignalsOK /\ LocalOK /\ CallsOK /\ StackOK /\ TimeoutOK /\ TimerOK /\ ReportOK
  BY DEF IInv
<1>1. /\ ended = "no" /\ pc[t] = "out"
      /\ pc' = [pc EXCEPT ![t] = "message"]
      /\ UNCHANGED <<action, reports, ended, inited, signals, nsignals, old_actions,
                   signo, old_action, stack, altstack, timeout_inited,
                   timeout_reached, timeout_old_action, timeout_signal, timer,
                   expiry, overtaken, timed>>
  BY DEF Message, At, Goto, process, saved, local, memory, watch, clock, timeout
<1>2. TypeOK'
  BY <1>0, <1>1 DEF TypeOK, Steps, Actions, Places, All
<1>3. SignalsOK'
  BY <1>0, <1>1 DEF TypeOK, SignalsOK, All, Places
<1>4. LocalOK'
  BY <1>0, <1>1 DEF TypeOK, LocalOK, Caught, Handling, HandlerSteps, Steps
<1>5. CallsOK'
  BY <1>0, <1>1 DEF TypeOK, CallsOK, Handling, HandlerSteps, Steps
<1>6. StackOK'
  BY <1>0, <1>1 DEF TypeOK, StackOK, CallsOK, Handling, HandlerSteps
<1>7. TimeoutOK'
  BY <1>0, <1>1 DEF TypeOK, TimeoutOK, CallsOK, All, Caught, Handling, HandlerSteps
<1>8. TimerOK'
  BY <1>0, <1>1 DEF TypeOK, TimerOK, Kept, TimeoutOK, CallsOK, Handling, HandlerSteps
<1>9. ReportOK'
  BY <1>0, <1>1 DEF TypeOK, ReportOK
<1> QED
  BY <1>2, <1>3, <1>4, <1>5, <1>6, <1>7, <1>8, <1>9 DEF IInv

\* It ends.
LEMMA MessageEndsIInv ==
    ASSUME Broken = {}, IInv, NEW t \in Threads, MessageEnds(t)
    PROVE  IInv'
<1> USE DebugAssumption
<1>0. TypeOK /\ SignalsOK /\ LocalOK /\ CallsOK /\ StackOK /\ TimeoutOK /\ TimerOK /\ ReportOK
  BY DEF IInv
<1>1. /\ ended = "no" /\ pc[t] = "message"
      /\ pc' = [pc EXCEPT ![t] = "out"]
      /\ UNCHANGED <<action, reports, ended, inited, signals, nsignals, old_actions,
                   signo, old_action, stack, altstack, timeout_inited,
                   timeout_reached, timeout_old_action, timeout_signal, timer,
                   expiry, overtaken, timed>>
  BY DEF MessageEnds, At, Goto, process, saved, local, memory, watch, clock, timeout
<1>2. TypeOK'
  BY <1>0, <1>1 DEF TypeOK, Steps, Actions, Places, All
<1>3. SignalsOK'
  BY <1>0, <1>1 DEF TypeOK, SignalsOK, All, Places
<1>4. LocalOK'
  BY <1>0, <1>1 DEF TypeOK, LocalOK, Caught, Handling, HandlerSteps, Steps
<1>5. CallsOK'
  BY <1>0, <1>1 DEF TypeOK, CallsOK, Handling, HandlerSteps, Steps
<1>6. StackOK'
  BY <1>0, <1>1 DEF TypeOK, StackOK, CallsOK, Handling, HandlerSteps
<1>7. TimeoutOK'
  BY <1>0, <1>1 DEF TypeOK, TimeoutOK, CallsOK, All, Caught, Handling, HandlerSteps
<1>8. TimerOK'
  BY <1>0, <1>1 DEF TypeOK, TimerOK, Kept, TimeoutOK, CallsOK, Handling, HandlerSteps
<1>9. ReportOK'
  BY <1>0, <1>1 DEF TypeOK, ReportOK
<1> QED
  BY <1>2, <1>3, <1>4, <1>5, <1>6, <1>7, <1>8, <1>9 DEF IInv

\* mys_debug_init has nothing to do.
LEMMA InitAgainIInv ==
    ASSUME Broken = {}, IInv, InitAgain
    PROVE  IInv'
<1> USE DebugAssumption
<1>0. TypeOK /\ SignalsOK /\ LocalOK /\ CallsOK /\ StackOK /\ TimeoutOK /\ TimerOK /\ ReportOK
  BY DEF IInv
<1>1. /\ ended = "no" /\ pc[main] = "out" /\ inited
      /\ pc' = [pc EXCEPT ![main] = "message"]
      /\ UNCHANGED <<action, reports, ended, inited, signals, nsignals, old_actions,
                   signo, old_action, stack, altstack, timeout_inited,
                   timeout_reached, timeout_old_action, timeout_signal, timer,
                   expiry, overtaken, timed>>
  BY DEF InitAgain, At, Goto, process, saved, local, memory, watch, clock, timeout
<1>2. TypeOK'
  BY <1>0, <1>1 DEF TypeOK, Steps, Actions, Places, All
<1>3. SignalsOK'
  BY <1>0, <1>1 DEF TypeOK, SignalsOK, All, Places
<1>4. LocalOK'
  BY <1>0, <1>1 DEF TypeOK, LocalOK, Caught, Handling, HandlerSteps, Steps
<1>5. CallsOK'
  BY <1>0, <1>1 DEF TypeOK, CallsOK, Handling, HandlerSteps, Steps
<1>6. StackOK'
  BY <1>0, <1>1 DEF TypeOK, StackOK, CallsOK, Handling, HandlerSteps
<1>7. TimeoutOK'
  BY <1>0, <1>1 DEF TypeOK, TimeoutOK, CallsOK, All, Caught, Handling, HandlerSteps
<1>8. TimerOK'
  BY <1>0, <1>1 DEF TypeOK, TimerOK, Kept, TimeoutOK, CallsOK, Handling, HandlerSteps
<1>9. ReportOK'
  BY <1>0, <1>1 DEF TypeOK, ReportOK
<1> QED
  BY <1>2, <1>3, <1>4, <1>5, <1>6, <1>7, <1>8, <1>9 DEF IInv

\* The signals are set: they have the handlers of the client before.
LEMMA InitSignalsIInv ==
    ASSUME Broken = {}, IInv, InitSignals
    PROVE  IInv'
<1> USE DebugAssumption
<1>0. TypeOK /\ SignalsOK /\ LocalOK /\ CallsOK /\ StackOK /\ TimeoutOK /\ TimerOK /\ ReportOK
  BY DEF IInv
<1>1. /\ ended = "no" /\ pc[main] = "out"
      /\ pc' = [pc EXCEPT ![main] = "init"]
      /\ ~inited /\ nsignals' = Len(Installed)
      /\ signals' = [i \in Places |-> IF i <= Len(Installed) THEN Installed[i] ELSE NoSignal]
      /\ old_actions' = [i \in Places |-> IF i <= Len(Installed) THEN action[Installed[i]]
                                          ELSE old_actions[i]]
      /\ action' = [s \in All |-> IF \E i \in DOMAIN Installed : Installed[i] = s
                                  THEN "mys" ELSE action[s]]
      /\ UNCHANGED <<reports, ended, inited, signo, old_action, stack, altstack,
                   timeout_inited, timeout_reached, timeout_old_action,
                   timeout_signal, timer, expiry, overtaken, timed>>
  BY DEF InitSignals, At, Goto, process, saved, local, memory, watch, clock, timeout
<1>2. TypeOK'
  <2>1. Len(Installed) \in 0 .. _MYS_DEBUG_SIGNAL_MAX /\ DOMAIN Installed = 1 .. Len(Installed)
    OBVIOUS
  <2>2. \A i \in Places : i <= Len(Installed) => Installed[i] \in Signals
    BY <2>1 DEF Places
  <2>3. signals' \in [Places -> Signals \cup {NoSignal}]
    BY <1>1, <2>2
  <2>4. old_actions' \in [Places -> Actions]
    BY <1>0, <1>1, <2>2 DEF TypeOK, All
  <2>5. action' \in [All -> Actions]
    BY <1>0, <1>1 DEF TypeOK, Actions
  <2> QED
    BY <1>0, <1>1, <2>1, <2>3, <2>4, <2>5 DEF TypeOK, Steps
<1>3. SignalsOK'
  <2>1. Len(Installed) \in 0 .. _MYS_DEBUG_SIGNAL_MAX /\ DOMAIN Installed = 1 .. Len(Installed)
    OBVIOUS
  <2>2. \A i \in 1 .. Len(Installed) :
            i \in Places /\ Installed[i] \in Signals /\ Installed[i] # NoSignal
    BY <2>1 DEF Places
  <2>3. \A s \in Signals : action[s] = original[s]
    BY <1>0, <1>1 DEF CallsOK
  <2>4. \A i \in 1 .. Len(Installed) :
            signals'[i] = Installed[i] /\ old_actions'[i] = original[Installed[i]]
    BY <1>1, <2>1, <2>2, <2>3 DEF Places
  <2>5. \A i \in Places : signals'[i] # NoSignal <=> i <= nsignals'
    BY <1>1, <2>1, <2>2 DEF Places
  <2>6. \A i, j \in 1 .. nsignals' : signals'[i] = signals'[j] => i = j
    <3> TAKE i, j \in 1 .. nsignals'
    <3>1. i \in DOMAIN Installed /\ j \in DOMAIN Installed
      BY <1>1, <2>1
    <3>2. signals'[i] = Installed[i] /\ signals'[j] = Installed[j]
      BY <1>1, <2>4
    <3> QED
      BY <3>1, <3>2
  <2>7. \A i \in 1 .. nsignals' : old_actions'[i] = original[signals'[i]]
    BY <1>1, <2>4
  <2>8. \A s \in Signals : action'[s] # original[s] =>
            action'[s] = "mys" /\ (s = signo' \/ \E i \in 1 .. nsignals' : signals'[i] = s)
    BY <1>1, <2>1, <2>3, <2>4 DEF All
  <2> QED
    BY <2>5, <2>6, <2>7, <2>8 DEF SignalsOK
<1>4. LocalOK'
  BY <1>0, <1>1 DEF TypeOK, LocalOK, Caught, Handling, HandlerSteps, Steps
<1>5. CallsOK'
  BY <1>0, <1>1 DEF TypeOK, CallsOK, Handling, HandlerSteps, Steps
<1>6. StackOK'
  BY <1>0, <1>1 DEF TypeOK, StackOK, CallsOK, Handling, HandlerSteps
<1>7. TimeoutOK'
  <2>1. action'[SIGTIMEOUT] = action[SIGTIMEOUT]
    BY <1>1 DEF All
  <2> QED
    BY <1>0, <1>1, <2>1 DEF TypeOK, TimeoutOK, Caught, Handling, HandlerSteps
<1>8. TimerOK'
  BY <1>0, <1>1 DEF TypeOK, TimerOK, Kept, TimeoutOK, CallsOK, Handling, HandlerSteps
<1>9. ReportOK'
  BY <1>0, <1>1 DEF TypeOK, ReportOK
<1> QED
  BY <1>2, <1>3, <1>4, <1>5, <1>6, <1>7, <1>8, <1>9 DEF IInv

\* The stack is there, and there is no timeout.
LEMMA InitStackIInv ==
    ASSUME Broken = {}, IInv, InitStack
    PROVE  IInv'
<1> USE DebugAssumption
<1>0. TypeOK /\ SignalsOK /\ LocalOK /\ CallsOK /\ StackOK /\ TimeoutOK /\ TimerOK /\ ReportOK
  BY DEF IInv
<1>1. /\ ended = "no" /\ pc[main] = "init"
      /\ pc' = [pc EXCEPT ![main] = "out"]
      /\ stack' = "allocated" /\ altstack' = TRUE
      /\ timeout_inited' = FALSE /\ timeout_signal' = NoSignal /\ inited' = TRUE
      /\ UNCHANGED <<action, reports, ended, signals, nsignals, old_actions, signo,
                   old_action, timeout_reached, timeout_old_action, timer, expiry,
                   overtaken, timed>>
  BY DEF InitStack, At, Goto, process, saved, local, memory, watch, clock, timeout
<1>2. TypeOK'
  BY <1>0, <1>1 DEF TypeOK, Steps, Actions, Places, All
<1>3. SignalsOK'
  BY <1>0, <1>1 DEF TypeOK, SignalsOK, All, Places
<1>4. LocalOK'
  BY <1>0, <1>1 DEF TypeOK, LocalOK, Caught, Handling, HandlerSteps, Steps
<1>5. CallsOK'
  BY <1>0, <1>1 DEF TypeOK, CallsOK, Handling, HandlerSteps, Steps
<1>6. StackOK'
  BY <1>0, <1>1 DEF TypeOK, StackOK, CallsOK, Handling, HandlerSteps
<1>7. TimeoutOK'
  BY <1>0, <1>1 DEF TypeOK, TimeoutOK, CallsOK, All, Caught, Handling, HandlerSteps
<1>8. TimerOK'
  BY <1>0, <1>1 DEF TypeOK, TimerOK, Kept, TimeoutOK, CallsOK, Handling, HandlerSteps
<1>9. ReportOK'
  BY <1>0, <1>1 DEF TypeOK, ReportOK
<1> QED
  BY <1>2, <1>3, <1>4, <1>5, <1>6, <1>7, <1>8, <1>9 DEF IInv

\* mys_debug_fini is called when the timeout is cleared.
LEMMA FiniIInv ==
    ASSUME Broken = {}, IInv, Fini
    PROVE  IInv'
<1> USE DebugAssumption
<1>0. TypeOK /\ SignalsOK /\ LocalOK /\ CallsOK /\ StackOK /\ TimeoutOK /\ TimerOK /\ ReportOK
  BY DEF IInv
<1>1. /\ ended = "no" /\ pc[main] = "out"
      /\ pc' = [pc EXCEPT ![main] = "fini"]
      /\ inited /\ ~timeout_inited
      /\ UNCHANGED <<action, reports, ended, inited, signals, nsignals, old_actions,
                   signo, old_action, stack, altstack, timeout_inited,
                   timeout_reached, timeout_old_action, timeout_signal, timer,
                   expiry, overtaken, timed>>
  BY DEF Fini, At, Goto, process, saved, local, memory, watch, clock, timeout
<1>2. TypeOK'
  BY <1>0, <1>1 DEF TypeOK, Steps, Actions, Places, All
<1>3. SignalsOK'
  BY <1>0, <1>1 DEF TypeOK, SignalsOK, All, Places
<1>4. LocalOK'
  BY <1>0, <1>1 DEF TypeOK, LocalOK, Caught, Handling, HandlerSteps, Steps
<1>5. CallsOK'
  BY <1>0, <1>1 DEF TypeOK, CallsOK, Handling, HandlerSteps, Steps
<1>6. StackOK'
  BY <1>0, <1>1 DEF TypeOK, StackOK, CallsOK, Handling, HandlerSteps
<1>7. TimeoutOK'
  BY <1>0, <1>1 DEF TypeOK, TimeoutOK, CallsOK, All, Caught, Handling, HandlerSteps
<1>8. TimerOK'
  BY <1>0, <1>1 DEF TypeOK, TimerOK, Kept, TimeoutOK, CallsOK, Handling, HandlerSteps
<1>9. ReportOK'
  BY <1>0, <1>1 DEF TypeOK, ReportOK
<1> QED
  BY <1>2, <1>3, <1>4, <1>5, <1>6, <1>7, <1>8, <1>9 DEF IInv

\* mys_debug_fini reverts the signals.
LEMMA FiniRevertsIInv ==
    ASSUME Broken = {}, IInv, FiniReverts
    PROVE  IInv'
<1> USE DebugAssumption
<1>0. TypeOK /\ SignalsOK /\ LocalOK /\ CallsOK /\ StackOK /\ TimeoutOK /\ TimerOK /\ ReportOK
  BY DEF IInv
<1>1. /\ ended = "no" /\ pc[main] = "fini"
      /\ pc' = [pc EXCEPT ![main] = "free"]
      /\ action' \in [All -> Actions]
      /\ \A s \in Signals : s # signo => action'[s] = original[s]
      /\ \A s \in Signals : action'[s] \in {action[s], original[s]}
      /\ action'[SIGTIMEOUT] = action[SIGTIMEOUT]
      /\ UNCHANGED <<reports, ended, inited, signals, nsignals, old_actions, signo,
                   old_action, stack, altstack, timeout_inited, timeout_reached,
                   timeout_old_action, timeout_signal, timer, expiry, overtaken,
                   timed>>
  BY <1>0, RevertAllRestores DEF FiniReverts, At, Goto, process, saved, local, memory,
     watch, clock, timeout
<1>2. TypeOK'
  BY <1>0, <1>1 DEF TypeOK, Steps, Actions, Places, All
<1>3. SignalsOK'
  BY <1>0, <1>1 DEF TypeOK, SignalsOK, All, Places
<1>4. LocalOK'
  BY <1>0, <1>1 DEF TypeOK, LocalOK, Caught, Handling, HandlerSteps, Steps
<1>5. CallsOK'
  <2>1. signo = NoSignal
    BY <1>0, <1>1 DEF LocalOK, Caught, Handling, HandlerSteps
  <2> QED
    BY <1>0, <1>1, <2>1 DEF TypeOK, CallsOK, Handling, HandlerSteps, Steps
<1>6. StackOK'
  BY <1>0, <1>1 DEF TypeOK, StackOK, CallsOK, Handling, HandlerSteps
<1>7. TimeoutOK'
  BY <1>0, <1>1 DEF TypeOK, TimeoutOK, CallsOK, All, Caught, Handling, HandlerSteps
<1>8. TimerOK'
  BY <1>0, <1>1 DEF TypeOK, TimerOK, Kept, TimeoutOK, CallsOK, Handling, HandlerSteps
<1>9. ReportOK'
  BY <1>0, <1>1 DEF TypeOK, ReportOK
<1> QED
  BY <1>2, <1>3, <1>4, <1>5, <1>6, <1>7, <1>8, <1>9 DEF IInv

\* Nothing is set any more when the stack is freed.
LEMMA FiniFreesIInv ==
    ASSUME Broken = {}, IInv, FiniFrees
    PROVE  IInv'
<1> USE DebugAssumption
<1>0. TypeOK /\ SignalsOK /\ LocalOK /\ CallsOK /\ StackOK /\ TimeoutOK /\ TimerOK /\ ReportOK
  BY DEF IInv
<1>1. /\ ended = "no" /\ pc[main] = "free"
      /\ pc' = [pc EXCEPT ![main] = "out"]
      /\ stack' = "freed" /\ inited' = FALSE
      /\ UNCHANGED <<action, reports, ended, signals, nsignals, old_actions, signo,
                   old_action, altstack, timeout_inited, timeout_reached,
                   timeout_old_action, timeout_signal, timer, expiry, overtaken,
                   timed>>
  BY DEF FiniFrees, At, Goto, process, saved, local, memory, watch, clock, timeout
<1>2. TypeOK'
  <2>1. pc' \in [Threads -> Steps]
    BY <1>0, <1>1 DEF TypeOK, Steps
  <2> QED
    BY <1>0, <1>1, <2>1 DEF TypeOK
<1>3. SignalsOK'
  BY <1>0, <1>1 DEF TypeOK, SignalsOK, All, Places
<1>4. LocalOK'
  BY <1>0, <1>1 DEF TypeOK, LocalOK, Caught, Handling, HandlerSteps, Steps
<1>5. CallsOK'
  BY <1>0, <1>1 DEF TypeOK, CallsOK, Handling, HandlerSteps, Steps
<1>6. StackOK'
  BY <1>0, <1>1 DEF TypeOK, StackOK, CallsOK, Handling, HandlerSteps
<1>7. TimeoutOK'
  BY <1>0, <1>1 DEF TypeOK, TimeoutOK, CallsOK, All, Caught, Handling, HandlerSteps
<1>8. TimerOK'
  BY <1>0, <1>1 DEF TypeOK, TimerOK, Kept, TimeoutOK, CallsOK, Handling, HandlerSteps
<1>9. ReportOK'
  BY <1>0, <1>1 DEF TypeOK, ReportOK
<1> QED
  BY <1>2, <1>3, <1>4, <1>5, <1>6, <1>7, <1>8, <1>9 DEF IInv

\* A signal that is not recorded has the handler of the client.
LEMMA SetSignalIInv ==
    ASSUME Broken = {}, IInv, NEW s \in Signals, SetSignal(s)
    PROVE  IInv'
<1> USE DebugAssumption
<1>0. TypeOK /\ SignalsOK /\ LocalOK /\ CallsOK /\ StackOK /\ TimeoutOK /\ TimerOK /\ ReportOK
  BY DEF IInv
<1>1. /\ ended = "no" /\ pc[main] = "out" /\ inited
      /\ nsignals < _MYS_DEBUG_SIGNAL_MAX /\ \A i \in 1 .. nsignals : signals[i] # s
      /\ signo' = s /\ old_action' = action[s]
      /\ action' = [action EXCEPT ![s] = "mys"]
      /\ pc' = [pc EXCEPT ![main] = "record"]
      /\ UNCHANGED <<reports, ended, inited, signals, nsignals, old_actions, stack,
                   altstack, timeout_inited, timeout_reached, timeout_old_action,
                   timeout_signal, timer, expiry, overtaken, timed>>
  BY DEF SetSignal, At, Goto, process, saved, local, memory, watch, clock, timeout
<1>2. TypeOK'
  BY <1>0, <1>1 DEF TypeOK, Steps, Actions, Places, All
<1>3. SignalsOK'
  <2>1. s \in All /\ signo = NoSignal
    BY <1>0, <1>1 DEF LocalOK, Caught, Handling, HandlerSteps, All
  <2>2. \A z \in Signals : action'[z] # original[z] =>
            action'[z] = "mys" /\ (z = signo' \/ \E i \in 1 .. nsignals : signals[i] = z)
    BY <1>0, <1>1, <2>1 DEF TypeOK, SignalsOK, All
  <2> QED
    BY <1>0, <1>1, <2>2 DEF SignalsOK
<1>4. LocalOK'
  <2>1. s # NoSignal /\ s \in All /\ action[s] = original[s]
    BY <1>0, <1>1 DEF TypeOK, SignalsOK, LocalOK, Caught, Handling, HandlerSteps, All
  <2> QED
    BY <1>0, <1>1, <2>1 DEF TypeOK, LocalOK, Caught, Handling, HandlerSteps, Steps
<1>5. CallsOK'
  BY <1>0, <1>1 DEF TypeOK, CallsOK, Handling, HandlerSteps, Steps
<1>6. StackOK'
  BY <1>0, <1>1 DEF TypeOK, StackOK, CallsOK, Handling, HandlerSteps
<1>7. TimeoutOK'
  BY <1>0, <1>1 DEF TypeOK, TimeoutOK, CallsOK, All, Caught, Handling, HandlerSteps
<1>8. TimerOK'
  BY <1>0, <1>1 DEF TypeOK, TimerOK, Kept, TimeoutOK, CallsOK, Handling, HandlerSteps
<1>9. ReportOK'
  BY <1>0, <1>1 DEF TypeOK, ReportOK
<1> QED
  BY <1>2, <1>3, <1>4, <1>5, <1>6, <1>7, <1>8, <1>9 DEF IInv

\* The signal is recorded, with the action of the client.
LEMMA SetRecordsIInv ==
    ASSUME Broken = {}, IInv, SetRecords
    PROVE  IInv'
<1> USE DebugAssumption
<1>0. TypeOK /\ SignalsOK /\ LocalOK /\ CallsOK /\ StackOK /\ TimeoutOK /\ TimerOK /\ ReportOK
  BY DEF IInv
<1>1. /\ ended = "no" /\ pc[main] = "record"
      /\ signals' = [signals EXCEPT ![nsignals + 1] = signo]
      /\ old_actions' = [old_actions EXCEPT ![nsignals + 1] = old_action]
      /\ nsignals' = nsignals + 1
      /\ signo' = NoSignal /\ old_action' = "default"
      /\ pc' = [pc EXCEPT ![main] = "out"]
      /\ UNCHANGED <<action, reports, ended, inited, stack, altstack, timeout_inited,
                   timeout_reached, timeout_old_action, timeout_signal, timer,
                   expiry, overtaken, timed>>
  BY DEF SetRecords, At, Goto, process, saved, local, memory, watch, clock, timeout
<1>2. TypeOK'
  <2>1. nsignals + 1 \in Places
    BY <1>0, <1>1 DEF TypeOK, LocalOK, Places
  <2> QED
    BY <1>0, <1>1, <2>1 DEF TypeOK, Actions, Steps, Places
<1>3. SignalsOK'
  <2>1. /\ nsignals \in Nat /\ nsignals + 1 \in Places /\ signo \in Signals
        /\ old_action = original[signo] /\ \A i \in 1 .. nsignals : signals[i] # signo
    BY <1>0, <1>1 DEF TypeOK, LocalOK, Places
  <2>2. /\ signals'[nsignals + 1] = signo /\ old_actions'[nsignals + 1] = original[signo]
        /\ \A i \in 1 .. nsignals : /\ i \in Places
                                    /\ signals'[i] = signals[i]
                                    /\ old_actions'[i] = old_actions[i]
    BY <1>0, <1>1, <2>1 DEF TypeOK, Places
  <2>3. \A i \in Places : signals'[i] # NoSignal <=> i <= nsignals'
    BY <1>0, <1>1, <2>1 DEF TypeOK, SignalsOK, Places
  <2>4. \A i, j \in 1 .. nsignals' : signals'[i] = signals'[j] => i = j
    BY <1>0, <1>1, <2>1, <2>2 DEF SignalsOK
  <2>5. \A i \in 1 .. nsignals' : old_actions'[i] = original[signals'[i]]
    BY <1>0, <1>1, <2>1, <2>2 DEF SignalsOK
  <2>6. \A z \in Signals : action'[z] # original[z] =>
            action'[z] = "mys" /\ \E i \in 1 .. nsignals' : signals'[i] = z
    <3> TAKE z \in Signals
    <3>1. CASE z = signo
      <4>1. nsignals + 1 \in 1 .. nsignals'
        BY <1>1, <2>1
      <4> QED
        BY <1>0, <1>1, <2>2, <3>1, <4>1 DEF SignalsOK
    <3>2. CASE z # signo
      BY <1>0, <1>1, <2>1, <2>2, <3>2 DEF SignalsOK
    <3> QED
      BY <3>1, <3>2
  <2> QED
    BY <2>3, <2>4, <2>5, <2>6 DEF SignalsOK
<1>4. LocalOK'
  BY <1>0, <1>1 DEF TypeOK, LocalOK, Caught, Handling, HandlerSteps, Steps
<1>5. CallsOK'
  BY <1>0, <1>1 DEF TypeOK, CallsOK, Handling, HandlerSteps, Steps
<1>6. StackOK'
  BY <1>0, <1>1 DEF TypeOK, StackOK, CallsOK, Handling, HandlerSteps
<1>7. TimeoutOK'
  BY <1>0, <1>1 DEF TypeOK, TimeoutOK, CallsOK, All, Caught, Handling, HandlerSteps
<1>8. TimerOK'
  BY <1>0, <1>1 DEF TypeOK, TimerOK, Kept, TimeoutOK, CallsOK, Handling, HandlerSteps
<1>9. ReportOK'
  BY <1>0, <1>1 DEF TypeOK, ReportOK
<1> QED
  BY <1>2, <1>3, <1>4, <1>5, <1>6, <1>7, <1>8, <1>9 DEF IInv

\* The last signal gets the handler of the client back.
LEMMA ClearSignalIInv ==
    ASSUME Broken = {}, IInv, NEW s \in Signals, ClearSignal(s)
    PROVE  IInv'
<1> USE DebugAssumption
<1>0. TypeOK /\ SignalsOK /\ LocalOK /\ CallsOK /\ StackOK /\ TimeoutOK /\ TimerOK /\ ReportOK
  BY DEF IInv
<1>p. /\ nsignals \in Places /\ s = signals[nsignals] /\ old_actions[nsignals] = original[s]
      /\ PlaceOf(s) = nsignals
  <2>1. nsignals \in Places /\ nsignals \in 1 .. nsignals /\ PlaceOf(s) = nsignals
    BY <1>0 DEF ClearSignal, TypeOK, Places
  <2> DEFINE W(k) == (k > nsignals \/ signals[k] = s) /\ \A i \in 1 .. k - 1 : signals[i] # s
  <2>n. nsignals \in Nat
    BY <1>0 DEF TypeOK
  <2>2. \E k \in 1 .. nsignals + 1 : W(k)
    <3>1. CASE \A i \in 1 .. nsignals : signals[i] # s
      <4>1. nsignals + 1 \in 1 .. nsignals + 1 /\ W(nsignals + 1)
        BY <2>n, <3>1
      <4> QED
        BY <4>1
    <3>2. CASE \E i \in 1 .. nsignals : signals[i] = s
      <4>1. PICK i \in 1 .. nsignals : signals[i] = s
        BY <3>2
      <4>2. \A j \in 1 .. nsignals : signals[j] = s => j = i
        BY <1>0, <4>1 DEF SignalsOK
      <4>3. i \in 1 .. nsignals + 1 /\ W(i)
        BY <2>n, <4>1, <4>2
      <4> QED
        BY <4>3
    <3> QED
      BY <3>1, <3>2
  <2>3. signals[PlaceOf(s)] = s \/ PlaceOf(s) > nsignals
    BY <2>2 DEF PlaceOf
  <2>4. signals[nsignals] = s
    BY <2>1, <2>3 DEF Places
  <2> QED
    BY <1>0, <2>1, <2>4 DEF SignalsOK
<1>1. /\ ended = "no" /\ pc[main] = "out" /\ inited /\ nsignals > 0 /\ s = signals[nsignals]
      /\ signo' = s /\ action' = [action EXCEPT ![s] = original[s]]
      /\ pc' = [pc EXCEPT ![main] = "unrecord"]
      /\ UNCHANGED <<reports, ended, inited, signals, nsignals, old_actions,
                   old_action, stack, altstack, timeout_inited, timeout_reached,
                   timeout_old_action, timeout_signal, timer, expiry, overtaken,
                   timed>>
  BY <1>p DEF ClearSignal, At, Goto, process, saved, local, memory, watch, clock,
     timeout
<1>2. TypeOK'
  <2>1. original[s] \in Actions
    BY DEF Actions
  <2> QED
    BY <1>0, <1>1, <2>1 DEF TypeOK, Steps
<1>3. SignalsOK'
  <2>1. s \in All /\ signo = NoSignal
    BY <1>0, <1>1 DEF LocalOK, Caught, Handling, HandlerSteps, All
  <2>2. \A z \in Signals : action'[z] # original[z] =>
            action'[z] = "mys" /\ \E i \in 1 .. nsignals : signals[i] = z
    BY <1>0, <1>1, <2>1 DEF TypeOK, SignalsOK, All
  <2> QED
    BY <1>0, <1>1, <2>2 DEF SignalsOK
<1>4. LocalOK'
  <2>1. s \in All
    BY DEF All
  <2> QED
    BY <1>0, <1>1, <2>1 DEF TypeOK, LocalOK, Caught, Handling, HandlerSteps, Steps
<1>5. CallsOK'
  BY <1>0, <1>1 DEF TypeOK, CallsOK, Handling, HandlerSteps, Steps
<1>6. StackOK'
  BY <1>0, <1>1 DEF TypeOK, StackOK, CallsOK, Handling, HandlerSteps
<1>7. TimeoutOK'
  BY <1>0, <1>1 DEF TypeOK, TimeoutOK, CallsOK, All, Caught, Handling, HandlerSteps
<1>8. TimerOK'
  BY <1>0, <1>1 DEF TypeOK, TimerOK, Kept, TimeoutOK, CallsOK, Handling, HandlerSteps
<1>9. ReportOK'
  BY <1>0, <1>1 DEF TypeOK, ReportOK
<1> QED
  BY <1>2, <1>3, <1>4, <1>5, <1>6, <1>7, <1>8, <1>9 DEF IInv

\* The last signal is dropped.
LEMMA ClearUnrecordsIInv ==
    ASSUME Broken = {}, IInv, ClearUnrecords
    PROVE  IInv'
<1> USE DebugAssumption
<1>0. TypeOK /\ SignalsOK /\ LocalOK /\ CallsOK /\ StackOK /\ TimeoutOK /\ TimerOK /\ ReportOK
  BY DEF IInv
<1>p. nsignals > 0 /\ signals' = [signals EXCEPT ![nsignals] = NoSignal]
  <2>1. /\ nsignals \in Nat /\ nsignals > 0 /\ signals[nsignals] = signo
        /\ nsignals \in 1 .. nsignals
    BY <1>0 DEF ClearUnrecords, At, TypeOK, LocalOK
  <2> DEFINE W(k) == /\ k > nsignals \/ signals[k] = signo
                     /\ \A i \in 1 .. k - 1 : signals[i] # signo
  <2>2. \A i \in 1 .. nsignals : signals[i] = signo => i = nsignals
    BY <1>0, <2>1 DEF SignalsOK
  <2>3. nsignals \in 1 .. nsignals + 1 /\ W(nsignals)
    BY <2>1, <2>2
  <2>4. PlaceOf(signo) \in 1 .. nsignals + 1 /\ W(PlaceOf(signo))
    BY <2>3 DEF PlaceOf
  <2>5. PlaceOf(signo) = nsignals
    BY <2>1, <2>2, <2>4
  <2>6. signals' = [i \in Places |-> IF i = nsignals THEN NoSignal
                                     ELSE IF i < nsignals \/ i > nsignals THEN signals[i]
                                     ELSE signals[i + 1]]
    BY <2>5 DEF ClearUnrecords
  <2>7. \A i \in Places : signals'[i] = IF i = nsignals THEN NoSignal ELSE signals[i]
    BY <2>1, <2>6 DEF Places
  <2> QED
    BY <1>0, <2>1, <2>6, <2>7 DEF TypeOK
<1>1. /\ ended = "no" /\ pc[main] = "unrecord" /\ nsignals > 0
      /\ signals' = [signals EXCEPT ![nsignals] = NoSignal] /\ nsignals' = nsignals - 1
      /\ signo' = NoSignal
      /\ pc' = [pc EXCEPT ![main] = "out"]
      /\ UNCHANGED <<action, reports, ended, inited, old_actions, old_action, stack,
                   altstack, timeout_inited, timeout_reached, timeout_old_action,
                   timeout_signal, timer, expiry, overtaken, timed>>
  BY <1>p DEF ClearUnrecords, At, Goto, process, saved, local, memory, watch, clock,
     timeout
<1>2. TypeOK'
  BY <1>0, <1>1 DEF TypeOK, Steps, Places
<1>3. SignalsOK'
  <2> DEFINE k == nsignals
  <2>1. k \in Int /\ k >= 1 /\ k \in 1 .. nsignals /\ k \in Places /\ signals[k] = signo
    BY <1>0, <1>1 DEF TypeOK, LocalOK, Places
  <2>2. \A i \in 1 .. nsignals' : /\ i \in 1 .. nsignals /\ i \in Places /\ i # k
                                  /\ signals'[i] = signals[i]
    BY <1>0, <1>1, <2>1 DEF TypeOK, Places
  <2>3. \A i \in Places : signals'[i] # NoSignal <=> i <= nsignals'
    BY <1>0, <1>1, <2>1 DEF TypeOK, SignalsOK, Places
  <2>4. \A i, j \in 1 .. nsignals' : signals'[i] = signals'[j] => i = j
    BY <1>0, <1>1, <2>2 DEF SignalsOK
  <2>5. \A i \in 1 .. nsignals' : old_actions'[i] = original[signals'[i]]
    BY <1>0, <1>1, <2>2 DEF SignalsOK
  <2>6. \A z \in Signals : action'[z] # original[z] =>
            action'[z] = "mys" /\ \E i \in 1 .. nsignals' : signals'[i] = z
    <3> TAKE z \in Signals
    <3>1. CASE z = signo
      BY <1>0, <1>1, <3>1 DEF LocalOK
    <3>2. CASE z # signo
      <4>2. \A i \in 1 .. nsignals : i # k => i \in 1 .. nsignals' /\ signals'[i] = signals[i]
        BY <1>0, <1>1, <2>1 DEF TypeOK, Places
      <4> QED
        BY <1>0, <1>1, <2>1, <3>2, <4>2 DEF SignalsOK
    <3> QED
      BY <3>1, <3>2
  <2> QED
    BY <2>3, <2>4, <2>5, <2>6 DEF SignalsOK
<1>4. LocalOK'
  BY <1>0, <1>1 DEF TypeOK, LocalOK, Caught, Handling, HandlerSteps, Steps
<1>5. CallsOK'
  BY <1>0, <1>1 DEF TypeOK, CallsOK, Handling, HandlerSteps, Steps
<1>6. StackOK'
  BY <1>0, <1>1 DEF TypeOK, StackOK, CallsOK, Handling, HandlerSteps
<1>7. TimeoutOK'
  BY <1>0, <1>1 DEF TypeOK, TimeoutOK, CallsOK, All, Caught, Handling, HandlerSteps
<1>8. TimerOK'
  BY <1>0, <1>1 DEF TypeOK, TimerOK, Kept, TimeoutOK, CallsOK, Handling, HandlerSteps
<1>9. ReportOK'
  BY <1>0, <1>1 DEF TypeOK, ReportOK
<1> QED
  BY <1>2, <1>3, <1>4, <1>5, <1>6, <1>7, <1>8, <1>9 DEF IInv

\* A timeout is set, again or for the first time.
LEMMA SetNewIInv ==
    ASSUME Broken = {}, IInv, SetTimeout, ~timeout_inited
    PROVE  IInv'
<1> USE DebugAssumption
<1>0. TypeOK /\ SignalsOK /\ LocalOK /\ CallsOK /\ StackOK /\ TimeoutOK /\ TimerOK /\ ReportOK
  BY DEF IInv
<1>1. /\ ended = "no" /\ pc[main] = "out" /\ inited /\ ~timeout_inited
      /\ pc' = [pc EXCEPT ![main] = "create"]
      /\ timeout_signal' = SIGTIMEOUT /\ timeout_old_action' = action[SIGTIMEOUT]
      /\ action' = [action EXCEPT ![SIGTIMEOUT] = "mys"]
      /\ UNCHANGED <<reports, ended, inited, signals, nsignals, old_actions, signo,
                   old_action, stack, altstack, timeout_inited, timeout_reached,
                   timer, expiry, overtaken, timed>>
  BY <1>0 DEF SetTimeout, At, Goto, StartTimeout, CallsOK, process, saved, local,
     memory, watch, clock, timeout
<1>2. TypeOK'
  BY <1>0, <1>1 DEF TypeOK, Steps, Actions, Places, All
<1>3. SignalsOK'
  BY <1>0, <1>1 DEF TypeOK, SignalsOK, All, Places
<1>4. LocalOK'
  BY <1>0, <1>1 DEF TypeOK, LocalOK, Caught, Handling, HandlerSteps, Steps
<1>5. CallsOK'
  BY <1>0, <1>1 DEF TypeOK, CallsOK, Handling, HandlerSteps, Steps
<1>6. StackOK'
  BY <1>0, <1>1 DEF TypeOK, StackOK, CallsOK, Handling, HandlerSteps
<1>7. TimeoutOK'
  BY <1>0, <1>1 DEF TypeOK, TimeoutOK, CallsOK, All, Caught, Handling, HandlerSteps
<1>8. TimerOK'
  BY <1>0, <1>1 DEF TypeOK, TimerOK, Kept, TimeoutOK, CallsOK, Handling, HandlerSteps
<1>9. ReportOK'
  BY <1>0, <1>1 DEF TypeOK, ReportOK
<1> QED
  BY <1>2, <1>3, <1>4, <1>5, <1>6, <1>7, <1>8, <1>9 DEF IInv

\* It is there already.
LEMMA SetOldIInv ==
    ASSUME Broken = {}, IInv, SetTimeout, timeout_inited
    PROVE  IInv'
<1> USE DebugAssumption
<1>0. TypeOK /\ SignalsOK /\ LocalOK /\ CallsOK /\ StackOK /\ TimeoutOK /\ TimerOK /\ ReportOK
  BY DEF IInv
<1>1. /\ ended = "no" /\ pc[main] = "out" /\ inited /\ timeout_inited
      /\ pc' = [pc EXCEPT ![main] = "arm"]
      /\ UNCHANGED <<action, reports, ended, inited, signals, nsignals, old_actions,
                   signo, old_action, stack, altstack, timeout_inited,
                   timeout_reached, timeout_old_action, timeout_signal, timer,
                   expiry, overtaken, timed>>
  BY <1>0 DEF SetTimeout, At, Goto, StartTimeout, CallsOK, process, saved, local,
     memory, watch, clock, timeout
<1>2. TypeOK'
  BY <1>0, <1>1 DEF TypeOK, Steps, Actions, Places, All
<1>3. SignalsOK'
  BY <1>0, <1>1 DEF TypeOK, SignalsOK, All, Places
<1>4. LocalOK'
  BY <1>0, <1>1 DEF TypeOK, LocalOK, Caught, Handling, HandlerSteps, Steps
<1>5. CallsOK'
  BY <1>0, <1>1 DEF TypeOK, CallsOK, Handling, HandlerSteps, Steps
<1>6. StackOK'
  BY <1>0, <1>1 DEF TypeOK, StackOK, CallsOK, Handling, HandlerSteps
<1>7. TimeoutOK'
  BY <1>0, <1>1 DEF TypeOK, TimeoutOK, CallsOK, All, Caught, Handling, HandlerSteps
<1>8. TimerOK'
  BY <1>0, <1>1 DEF TypeOK, TimerOK, Kept, TimeoutOK, CallsOK, Handling, HandlerSteps
<1>9. ReportOK'
  BY <1>0, <1>1 DEF TypeOK, ReportOK
<1> QED
  BY <1>2, <1>3, <1>4, <1>5, <1>6, <1>7, <1>8, <1>9 DEF IInv

\* The timeout is set after it was cleared.
LEMMA RestartNewIInv ==
    ASSUME Broken = {}, IInv, Restart, ~timeout_inited
    PROVE  IInv'
<1> USE DebugAssumption
<1>0. TypeOK /\ SignalsOK /\ LocalOK /\ CallsOK /\ StackOK /\ TimeoutOK /\ TimerOK /\ ReportOK
  BY DEF IInv
<1>1. /\ ended = "no" /\ pc[main] = "restart" /\ inited /\ ~timeout_inited
      /\ pc' = [pc EXCEPT ![main] = "create"]
      /\ timeout_signal' = SIGTIMEOUT /\ timeout_old_action' = action[SIGTIMEOUT]
      /\ action' = [action EXCEPT ![SIGTIMEOUT] = "mys"]
      /\ UNCHANGED <<reports, ended, inited, signals, nsignals, old_actions, signo,
                   old_action, stack, altstack, timeout_inited, timeout_reached,
                   timer, expiry, overtaken, timed>>
  BY <1>0 DEF Restart, At, Goto, StartTimeout, CallsOK, process, saved, local, memory,
     watch, clock, timeout
<1>2. TypeOK'
  BY <1>0, <1>1 DEF TypeOK, Steps, Actions, Places, All
<1>3. SignalsOK'
  BY <1>0, <1>1 DEF TypeOK, SignalsOK, All, Places
<1>4. LocalOK'
  BY <1>0, <1>1 DEF TypeOK, LocalOK, Caught, Handling, HandlerSteps, Steps
<1>5. CallsOK'
  BY <1>0, <1>1 DEF TypeOK, CallsOK, Handling, HandlerSteps, Steps
<1>6. StackOK'
  BY <1>0, <1>1 DEF TypeOK, StackOK, CallsOK, Handling, HandlerSteps
<1>7. TimeoutOK'
  BY <1>0, <1>1 DEF TypeOK, TimeoutOK, CallsOK, All, Caught, Handling, HandlerSteps
<1>8. TimerOK'
  BY <1>0, <1>1 DEF TypeOK, TimerOK, Kept, TimeoutOK, CallsOK, Handling, HandlerSteps
<1>9. ReportOK'
  BY <1>0, <1>1 DEF TypeOK, ReportOK
<1> QED
  BY <1>2, <1>3, <1>4, <1>5, <1>6, <1>7, <1>8, <1>9 DEF IInv

\* It is there already.
LEMMA RestartOldIInv ==
    ASSUME Broken = {}, IInv, Restart, timeout_inited
    PROVE  IInv'
<1> USE DebugAssumption
<1>0. TypeOK /\ SignalsOK /\ LocalOK /\ CallsOK /\ StackOK /\ TimeoutOK /\ TimerOK /\ ReportOK
  BY DEF IInv
<1>1. /\ ended = "no" /\ pc[main] = "restart" /\ inited /\ timeout_inited
      /\ pc' = [pc EXCEPT ![main] = "arm"]
      /\ UNCHANGED <<action, reports, ended, inited, signals, nsignals, old_actions,
                   signo, old_action, stack, altstack, timeout_inited,
                   timeout_reached, timeout_old_action, timeout_signal, timer,
                   expiry, overtaken, timed>>
  BY <1>0 DEF Restart, At, Goto, StartTimeout, CallsOK, process, saved, local, memory,
     watch, clock, timeout
<1>2. TypeOK'
  BY <1>0, <1>1 DEF TypeOK, Steps, Actions, Places, All
<1>3. SignalsOK'
  BY <1>0, <1>1 DEF TypeOK, SignalsOK, All, Places
<1>4. LocalOK'
  BY <1>0, <1>1 DEF TypeOK, LocalOK, Caught, Handling, HandlerSteps, Steps
<1>5. CallsOK'
  BY <1>0, <1>1 DEF TypeOK, CallsOK, Handling, HandlerSteps, Steps
<1>6. StackOK'
  BY <1>0, <1>1 DEF TypeOK, StackOK, CallsOK, Handling, HandlerSteps
<1>7. TimeoutOK'
  BY <1>0, <1>1 DEF TypeOK, TimeoutOK, CallsOK, All, Caught, Handling, HandlerSteps
<1>8. TimerOK'
  BY <1>0, <1>1 DEF TypeOK, TimerOK, Kept, TimeoutOK, CallsOK, Handling, HandlerSteps
<1>9. ReportOK'
  BY <1>0, <1>1 DEF TypeOK, ReportOK
<1> QED
  BY <1>2, <1>3, <1>4, <1>5, <1>6, <1>7, <1>8, <1>9 DEF IInv

\* The timer is made.
LEMMA CreateTimerIInv ==
    ASSUME Broken = {}, IInv, CreateTimer
    PROVE  IInv'
<1> USE DebugAssumption
<1>0. TypeOK /\ SignalsOK /\ LocalOK /\ CallsOK /\ StackOK /\ TimeoutOK /\ TimerOK /\ ReportOK
  BY DEF IInv
<1>1. /\ ended = "no" /\ pc[main] = "create"
      /\ pc' = [pc EXCEPT ![main] = "flags"]
      /\ timer' = "disarmed"
      /\ UNCHANGED <<action, reports, ended, inited, signals, nsignals, old_actions,
                   signo, old_action, stack, altstack, timeout_inited,
                   timeout_reached, timeout_old_action, timeout_signal, expiry,
                   overtaken, timed>>
  BY DEF CreateTimer, At, Goto, process, saved, local, memory, watch, clock, timeout
<1>2. TypeOK'
  BY <1>0, <1>1 DEF TypeOK, Steps, Actions, Places, All
<1>3. SignalsOK'
  BY <1>0, <1>1 DEF TypeOK, SignalsOK, All, Places
<1>4. LocalOK'
  BY <1>0, <1>1 DEF TypeOK, LocalOK, Caught, Handling, HandlerSteps, Steps
<1>5. CallsOK'
  BY <1>0, <1>1 DEF TypeOK, CallsOK, Handling, HandlerSteps, Steps
<1>6. StackOK'
  BY <1>0, <1>1 DEF TypeOK, StackOK, CallsOK, Handling, HandlerSteps
<1>7. TimeoutOK'
  BY <1>0, <1>1 DEF TypeOK, TimeoutOK, CallsOK, All, Caught, Handling, HandlerSteps
<1>8. TimerOK'
  BY <1>0, <1>1 DEF TypeOK, TimerOK, Kept, TimeoutOK, CallsOK, Handling, HandlerSteps
<1>9. ReportOK'
  BY <1>0, <1>1 DEF TypeOK, ReportOK
<1> QED
  BY <1>2, <1>3, <1>4, <1>5, <1>6, <1>7, <1>8, <1>9 DEF IInv

\* Main says that there is a timeout: nothing of an earlier one is left.
LEMMA SetFlagsIInv ==
    ASSUME Broken = {}, IInv, SetFlags
    PROVE  IInv'
<1> USE DebugAssumption
<1>0. TypeOK /\ SignalsOK /\ LocalOK /\ CallsOK /\ StackOK /\ TimeoutOK /\ TimerOK /\ ReportOK
  BY DEF IInv
<1>1. /\ ended = "no" /\ pc[main] = "flags"
      /\ pc' = [pc EXCEPT ![main] = "arm"]
      /\ timeout_reached' = FALSE /\ timeout_inited' = TRUE
      /\ UNCHANGED <<action, reports, ended, inited, signals, nsignals, old_actions,
                   signo, old_action, stack, altstack, timeout_old_action,
                   timeout_signal, timer, expiry, overtaken, timed>>
  BY DEF SetFlags, At, Goto, process, saved, local, memory, watch, clock, timeout
<1>2. TypeOK'
  <2>1. pc' \in [Threads -> Steps]
    BY <1>0, <1>1 DEF TypeOK, Steps
  <2> QED
    BY <1>0, <1>1, <2>1 DEF TypeOK
<1>3. SignalsOK'
  BY <1>0, <1>1 DEF TypeOK, SignalsOK, All, Places
<1>4. LocalOK'
  BY <1>0, <1>1 DEF TypeOK, LocalOK, Caught, Handling, HandlerSteps, Steps
<1>5. CallsOK'
  BY <1>0, <1>1 DEF TypeOK, CallsOK, Handling, HandlerSteps, Steps
<1>6. StackOK'
  BY <1>0, <1>1 DEF TypeOK, StackOK, CallsOK, Handling, HandlerSteps
<1>7. TimeoutOK'
  BY <1>0, <1>1 DEF TypeOK, TimeoutOK, CallsOK, All, Caught, Handling, HandlerSteps
<1>8. TimerOK'
  BY <1>0, <1>1 DEF TypeOK, TimerOK, Kept, TimeoutOK, CallsOK, Handling, HandlerSteps
<1>9. ReportOK'
  BY <1>0, <1>1 DEF TypeOK, ReportOK
<1> QED
  BY <1>2, <1>3, <1>4, <1>5, <1>6, <1>7, <1>8, <1>9 DEF IInv

\* The timer is armed, or was deleted and the process ends.
LEMMA ArmIInv ==
    ASSUME Broken = {}, IInv, Arm
    PROVE  IInv'
<1> USE DebugAssumption
<1>0. TypeOK /\ SignalsOK /\ LocalOK /\ CallsOK /\ StackOK /\ TimeoutOK /\ TimerOK /\ ReportOK
  BY DEF IInv
<1>1. /\ ended = "no" /\ pc[main] = "arm"
      /\ pc' = [pc EXCEPT ![main] = "out"]
      /\ \/ ended' = "failed" /\ timer' = timer
         \/ timer # "none" /\ timer' = "armed" /\ ended' = ended
      /\ UNCHANGED <<action, reports, inited, signals, nsignals, old_actions, signo,
                   old_action, stack, altstack, timeout_inited, timeout_reached,
                   timeout_old_action, timeout_signal, expiry, overtaken, timed>>
  BY DEF Arm, At, Goto, Fail, process, saved, local, memory, watch, clock, timeout
<1>2. TypeOK'
  BY <1>0, <1>1 DEF TypeOK, Steps, Actions, Places, All
<1>3. SignalsOK'
  BY <1>0, <1>1 DEF TypeOK, SignalsOK, All, Places
<1>4. LocalOK'
  BY <1>0, <1>1 DEF TypeOK, LocalOK, Caught, Handling, HandlerSteps, Steps
<1>5. CallsOK'
  BY <1>0, <1>1 DEF TypeOK, CallsOK, Handling, HandlerSteps, Steps
<1>6. StackOK'
  BY <1>0, <1>1 DEF TypeOK, StackOK, CallsOK, Handling, HandlerSteps
<1>7. TimeoutOK'
  BY <1>0, <1>1 DEF TypeOK, TimeoutOK, CallsOK, All, Caught, Handling, HandlerSteps
<1>8. TimerOK'
  BY <1>0, <1>1 DEF TypeOK, TimerOK, Kept, TimeoutOK, CallsOK, Handling, HandlerSteps
<1>9. ReportOK'
  BY <1>0, <1>1 DEF TypeOK, ReportOK
<1> QED
  BY <1>2, <1>3, <1>4, <1>5, <1>6, <1>7, <1>8, <1>9 DEF IInv

\* The timeout is going to be cleared.
LEMMA ClearTimeoutIInv ==
    ASSUME Broken = {}, IInv, NEW r \in BOOLEAN, ClearTimeout(r)
    PROVE  IInv'
<1> USE DebugAssumption
<1>0. TypeOK /\ SignalsOK /\ LocalOK /\ CallsOK /\ StackOK /\ TimeoutOK /\ TimerOK /\ ReportOK
  BY DEF IInv
<1>1. /\ ended = "no" /\ pc[main] = "out" /\ timeout_inited
      /\ pc' = [pc EXCEPT ![main] = "disarm"]
      /\ UNCHANGED <<action, reports, ended, inited, signals, nsignals, old_actions,
                   signo, old_action, stack, altstack, timeout_inited,
                   timeout_reached, timeout_old_action, timeout_signal, timer,
                   expiry, overtaken, timed>>
  BY DEF ClearTimeout, At, Goto, process, saved, local, memory, watch, clock, timeout
<1>2. TypeOK'
  BY <1>0, <1>1 DEF TypeOK, Steps, Actions, Places, All
<1>3. SignalsOK'
  BY <1>0, <1>1 DEF TypeOK, SignalsOK, All, Places
<1>4. LocalOK'
  BY <1>0, <1>1 DEF TypeOK, LocalOK, Caught, Handling, HandlerSteps, Steps
<1>5. CallsOK'
  <2>1. \A t \in Threads : t # main => pc'[t] = pc[t]
    BY <1>0, <1>1 DEF TypeOK
  <2>2. pc'[main] = "disarm" /\ main \notin timed /\ inited
    BY <1>0, <1>1 DEF TypeOK, CallsOK, TimeoutOK, Handling, HandlerSteps
  <2>3. \A t \in timed : Handling(t)' \/ pc'[t] = "gone"
    BY <1>0, <2>1, <2>2 DEF TypeOK, CallsOK, Handling
  <2>4. \A t \in Threads : t # main => (Handling(t) <=> Handling(t)')
    BY <2>1 DEF Handling
  <2> QED
    BY <1>0, <1>1, <2>1, <2>2, <2>3, <2>4 DEF CallsOK
<1>6. StackOK'
  BY <1>0, <1>1 DEF TypeOK, StackOK, CallsOK, Handling, HandlerSteps
<1>7. TimeoutOK'
  BY <1>0, <1>1 DEF TypeOK, TimeoutOK, CallsOK, All, Caught, Handling, HandlerSteps
<1>8. TimerOK'
  BY <1>0, <1>1 DEF TypeOK, TimerOK, Kept, TimeoutOK, CallsOK, Handling, HandlerSteps
<1>9. ReportOK'
  BY <1>0, <1>1 DEF TypeOK, ReportOK
<1> QED
  BY <1>2, <1>3, <1>4, <1>5, <1>6, <1>7, <1>8, <1>9 DEF IInv

\* The timer is disarmed, or was deleted and the process ends.
LEMMA DisarmIInv ==
    ASSUME Broken = {}, IInv, Disarm
    PROVE  IInv'
<1> USE DebugAssumption
<1>0. TypeOK /\ SignalsOK /\ LocalOK /\ CallsOK /\ StackOK /\ TimeoutOK /\ TimerOK /\ ReportOK
  BY DEF IInv
<1>1. /\ ended = "no" /\ pc[main] = "disarm"
      /\ pc' = [pc EXCEPT ![main] = "undo"]
      /\ \/ ended' = "failed" /\ timer = "none" /\ timer' = timer
         \/ timer # "none" /\ timer' = "disarmed" /\ ended' = ended
      /\ UNCHANGED <<action, reports, inited, signals, nsignals, old_actions, signo,
                   old_action, stack, altstack, timeout_inited, timeout_reached,
                   timeout_old_action, timeout_signal, expiry, overtaken, timed>>
  BY DEF Disarm, At, Goto, Fail, process, saved, local, memory, watch, clock, timeout
<1>2. TypeOK'
  BY <1>0, <1>1 DEF TypeOK, Steps, Actions, Places, All
<1>3. SignalsOK'
  BY <1>0, <1>1 DEF TypeOK, SignalsOK, All, Places
<1>4. LocalOK'
  BY <1>0, <1>1 DEF TypeOK, LocalOK, Caught, Handling, HandlerSteps, Steps
<1>5. CallsOK'
  BY <1>0, <1>1 DEF TypeOK, CallsOK, Handling, HandlerSteps, Steps
<1>6. StackOK'
  BY <1>0, <1>1 DEF TypeOK, StackOK, CallsOK, Handling, HandlerSteps
<1>7. TimeoutOK'
  <2>1. pc'[main] = "undo" /\ ~Caught /\ ~Caught'
    BY <1>0, <1>1 DEF TypeOK, Caught, Handling, HandlerSteps
  <2>2. timer' = "armed" => timer = "armed"
    BY <1>1
  <2>3. timeout_inited /\ timeout_inited' /\ inited'
    BY <1>0, <1>1 DEF TimeoutOK
  <2>5. action[SIGTIMEOUT] = "mys"
    BY <1>0, <1>1, <2>1, <2>3 DEF TimeoutOK
  <2>6. timer' # "armed"
    BY <1>1
  <2>7. timeout_old_action = original[SIGTIMEOUT] /\ timeout_signal = SIGTIMEOUT
    BY <1>0, <2>3 DEF TimeoutOK
  <2> QED
    BY <1>0, <1>1, <2>1, <2>3, <2>5, <2>6, <2>7 DEF TimeoutOK
<1>8. TimerOK'
  BY <1>0, <1>1 DEF TypeOK, TimerOK, Kept, TimeoutOK, CallsOK, Handling, HandlerSteps
<1>9. ReportOK'
  BY <1>0, <1>1 DEF TypeOK, ReportOK
<1> QED
  BY <1>2, <1>3, <1>4, <1>5, <1>6, <1>7, <1>8, <1>9 DEF IInv

\* The handler of the timeout is undone.
LEMMA UndoIInv ==
    ASSUME Broken = {}, IInv, Undo
    PROVE  IInv'
<1> USE DebugAssumption
<1>0. TypeOK /\ SignalsOK /\ LocalOK /\ CallsOK /\ StackOK /\ TimeoutOK /\ TimerOK /\ ReportOK
  BY DEF IInv
<1>1. /\ ended = "no" /\ pc[main] = "undo"
      /\ pc' = [pc EXCEPT ![main] = "delete"]
      /\ action' = [action EXCEPT ![SIGTIMEOUT] = timeout_old_action]
      /\ UNCHANGED <<reports, ended, inited, signals, nsignals, old_actions, signo,
                   old_action, stack, altstack, timeout_inited, timeout_reached,
                   timeout_old_action, timeout_signal, timer, expiry, overtaken,
                   timed>>
  BY DEF Undo, At, Goto, process, saved, local, memory, watch, clock, timeout
<1>2. TypeOK'
  BY <1>0, <1>1 DEF TypeOK, Steps, Actions, Places, All
<1>3. SignalsOK'
  BY <1>0, <1>1 DEF TypeOK, SignalsOK, All, Places
<1>4. LocalOK'
  BY <1>0, <1>1 DEF TypeOK, LocalOK, Caught, Handling, HandlerSteps, Steps
<1>5. CallsOK'
  BY <1>0, <1>1 DEF TypeOK, CallsOK, Handling, HandlerSteps, Steps
<1>6. StackOK'
  BY <1>0, <1>1 DEF TypeOK, StackOK, CallsOK, Handling, HandlerSteps
<1>7. TimeoutOK'
  BY <1>0, <1>1 DEF TypeOK, TimeoutOK, CallsOK, All, Caught, Handling, HandlerSteps
<1>8. TimerOK'
  BY <1>0, <1>1 DEF TypeOK, TimerOK, Kept, TimeoutOK, CallsOK, Handling, HandlerSteps
<1>9. ReportOK'
  BY <1>0, <1>1 DEF TypeOK, ReportOK
<1> QED
  BY <1>2, <1>3, <1>4, <1>5, <1>6, <1>7, <1>8, <1>9 DEF IInv

\* The timer is deleted, before any function of the timer got to it, or the
\* process ends.
LEMMA DeleteIInv ==
    ASSUME Broken = {}, IInv, Delete
    PROVE  IInv'
<1> USE DebugAssumption
<1>0. TypeOK /\ SignalsOK /\ LocalOK /\ CallsOK /\ StackOK /\ TimeoutOK /\ TimerOK /\ ReportOK
  BY DEF IInv
<1>1. /\ ended = "no" /\ pc[main] = "delete"
      /\ pc' = [pc EXCEPT ![main] = "forget"]
      /\ \/ ended' = "failed" /\ timer' = timer /\ overtaken' = overtaken
         \/ /\ timer # "none" /\ timer' = "none" /\ ended' = ended
            /\ overtaken' = (overtaken \/ \E x \in Expiries : expiry[x] = "delete")
      /\ UNCHANGED <<action, reports, inited, signals, nsignals, old_actions, signo,
                   old_action, stack, altstack, timeout_inited, timeout_reached,
                   timeout_old_action, timeout_signal, expiry, timed>>
  BY DEF Delete, At, Goto, Fail, process, saved, local, memory, watch, clock, timeout
<1>2. TypeOK'
  <2>1. pc' \in [Threads -> Steps]
    BY <1>0, <1>1 DEF TypeOK, Steps
  <2> QED
    BY <1>0, <1>1, <2>1, ZenonT(60) DEF TypeOK
<1>3. SignalsOK'
  BY <1>0, <1>1 DEF TypeOK, SignalsOK, All, Places
<1>4. LocalOK'
  BY <1>0, <1>1 DEF TypeOK, LocalOK, Caught, Handling, HandlerSteps, Steps
<1>5. CallsOK'
  BY <1>0, <1>1 DEF TypeOK, CallsOK, Handling, HandlerSteps, Steps
<1>6. StackOK'
  BY <1>0, <1>1 DEF TypeOK, StackOK, CallsOK, Handling, HandlerSteps
<1>7. TimeoutOK'
  BY <1>0, <1>1 DEF TypeOK, TimeoutOK, CallsOK, All, Caught, Handling, HandlerSteps
<1>8. TimerOK'
  BY <1>0, <1>1 DEF TypeOK, TimerOK, Kept, TimeoutOK, CallsOK, Handling, HandlerSteps
<1>9. ReportOK'
  BY <1>0, <1>1 DEF TypeOK, ReportOK
<1> QED
  BY <1>2, <1>3, <1>4, <1>5, <1>6, <1>7, <1>8, <1>9 DEF IInv

\* The timeout is forgotten.
LEMMA ForgetIInv ==
    ASSUME Broken = {}, IInv, Forget
    PROVE  IInv'
<1> USE DebugAssumption
<1>0. TypeOK /\ SignalsOK /\ LocalOK /\ CallsOK /\ StackOK /\ TimeoutOK /\ TimerOK /\ ReportOK
  BY DEF IInv
<1>1. /\ ended = "no" /\ pc[main] = "forget"
      /\ pc' = [pc EXCEPT ![main] = "out"] \/ pc' = [pc EXCEPT ![main] = "restart"]
      /\ timeout_inited' = FALSE /\ timeout_reached' = FALSE
      /\ UNCHANGED <<action, reports, ended, inited, signals, nsignals, old_actions,
                   signo, old_action, stack, altstack, timeout_old_action,
                   timeout_signal, timer, expiry, overtaken, timed>>
  BY DEF Forget, At, Goto, process, saved, local, memory, watch, clock, timeout
<1>2. TypeOK'
  <2>1. pc' \in [Threads -> Steps]
    BY <1>0, <1>1 DEF TypeOK, Steps
  <2> QED
    BY <1>0, <1>1, <2>1 DEF TypeOK
<1>3. SignalsOK'
  BY <1>0, <1>1 DEF TypeOK, SignalsOK, All, Places
<1>4. LocalOK'
  BY <1>0, <1>1 DEF TypeOK, LocalOK, Caught, Handling, HandlerSteps, Steps
<1>5. CallsOK'
  BY <1>0, <1>1 DEF TypeOK, CallsOK, Handling, HandlerSteps, Steps
<1>6. StackOK'
  BY <1>0, <1>1 DEF TypeOK, StackOK, CallsOK, Handling, HandlerSteps
<1>7. TimeoutOK'
  BY <1>0, <1>1 DEF TypeOK, TimeoutOK, CallsOK, All, Caught, Handling, HandlerSteps
<1>8. TimerOK'
  BY <1>0, <1>1 DEF TypeOK, TimerOK, Kept, TimeoutOK, CallsOK, Handling, HandlerSteps
<1>9. ReportOK'
  BY <1>0, <1>1 DEF TypeOK, ReportOK
<1> QED
  BY <1>2, <1>3, <1>4, <1>5, <1>6, <1>7, <1>8, <1>9 DEF IInv

\* The timer runs out.
LEMMA ExpireIInv ==
    ASSUME Broken = {}, IInv, NEW x \in Expiries, Expire(x)
    PROVE  IInv'
<1> USE DebugAssumption
<1>0. TypeOK /\ SignalsOK /\ LocalOK /\ CallsOK /\ StackOK /\ TimeoutOK /\ TimerOK /\ ReportOK
  BY DEF IInv
<1>1. /\ ended = "no" /\ expiry[x] = "out" /\ timer = "armed" /\ timer' = "disarmed"
      /\ expiry' = [expiry EXCEPT ![x] = "delete"]
      /\ UNCHANGED <<action, reports, ended, inited, signals, nsignals, old_actions,
                   signo, old_action, stack, altstack, timeout_inited,
                   timeout_reached, timeout_old_action, timeout_signal, overtaken,
                   pc, timed>>
  BY DEF Expire, ExpiryAt, Advance, process, saved, local, memory, watch, clock,
     timeout
<1>2. TypeOK'
  BY <1>0, <1>1 DEF TypeOK, Steps, Actions, Places, All
<1>3. SignalsOK'
  BY <1>0, <1>1 DEF TypeOK, SignalsOK, All, Places
<1>4. LocalOK'
  BY <1>0, <1>1 DEF TypeOK, LocalOK, Caught, Handling, HandlerSteps, Steps
<1>5. CallsOK'
  BY <1>0, <1>1 DEF TypeOK, CallsOK, Handling, HandlerSteps, Steps
<1>6. StackOK'
  BY <1>0, <1>1 DEF TypeOK, StackOK, CallsOK, Handling, HandlerSteps
<1>7. TimeoutOK'
  BY <1>0, <1>1 DEF TypeOK, TimeoutOK, CallsOK, All, Caught, Handling, HandlerSteps
<1>8. TimerOK'
  BY <1>0, <1>1 DEF TypeOK, TimerOK, Kept, TimeoutOK, CallsOK, Handling, HandlerSteps
<1>9. ReportOK'
  BY <1>0, <1>1 DEF TypeOK, ReportOK
<1> QED
  BY <1>2, <1>3, <1>4, <1>5, <1>6, <1>7, <1>8, <1>9 DEF IInv

\* Its function deletes the timer, ...
LEMMA ExpireDeleteIInv ==
    ASSUME Broken = {}, IInv, NEW x \in Expiries, ExpireDelete(x)
    PROVE  IInv'
<1> USE DebugAssumption
<1>0. TypeOK /\ SignalsOK /\ LocalOK /\ CallsOK /\ StackOK /\ TimeoutOK /\ TimerOK /\ ReportOK
  BY DEF IInv
<1>1. /\ ended = "no" /\ expiry[x] = "delete" /\ timer' = "none"
      /\ expiry' = [expiry EXCEPT ![x] = "reached"]
      /\ UNCHANGED <<action, reports, ended, inited, signals, nsignals, old_actions,
                   signo, old_action, stack, altstack, timeout_inited,
                   timeout_reached, timeout_old_action, timeout_signal, overtaken,
                   pc, timed>>
  BY DEF ExpireDelete, ExpiryAt, Advance, process, saved, local, memory, watch, clock,
     timeout
<1>2. TypeOK'
  BY <1>0, <1>1 DEF TypeOK, Steps, Actions, Places, All
<1>3. SignalsOK'
  BY <1>0, <1>1 DEF TypeOK, SignalsOK, All, Places
<1>4. LocalOK'
  BY <1>0, <1>1 DEF TypeOK, LocalOK, Caught, Handling, HandlerSteps, Steps
<1>5. CallsOK'
  BY <1>0, <1>1 DEF TypeOK, CallsOK, Handling, HandlerSteps, Steps
<1>6. StackOK'
  BY <1>0, <1>1 DEF TypeOK, StackOK, CallsOK, Handling, HandlerSteps
<1>7. TimeoutOK'
  BY <1>0, <1>1 DEF TypeOK, TimeoutOK, CallsOK, All, Caught, Handling, HandlerSteps
<1>8. TimerOK'
  BY <1>0, <1>1 DEF TypeOK, TimerOK, Kept, TimeoutOK, CallsOK, Handling, HandlerSteps
<1>9. ReportOK'
  BY <1>0, <1>1 DEF TypeOK, ReportOK
<1> QED
  BY <1>2, <1>3, <1>4, <1>5, <1>6, <1>7, <1>8, <1>9 DEF IInv

\* ... says that the timeout was reached ...
LEMMA ExpireReachedIInv ==
    ASSUME Broken = {}, IInv, NEW x \in Expiries, ExpireReached(x)
    PROVE  IInv'
<1> USE DebugAssumption
<1>0. TypeOK /\ SignalsOK /\ LocalOK /\ CallsOK /\ StackOK /\ TimeoutOK /\ TimerOK /\ ReportOK
  BY DEF IInv
<1>1. /\ ended = "no" /\ expiry[x] = "reached" /\ timeout_reached' = TRUE
      /\ expiry' = [expiry EXCEPT ![x] = "kill"]
      /\ UNCHANGED <<action, reports, ended, inited, signals, nsignals, old_actions,
                   signo, old_action, stack, altstack, timeout_inited,
                   timeout_old_action, timeout_signal, timer, overtaken, pc,
                   timed>>
  BY DEF ExpireReached, ExpiryAt, Advance, process, saved, local, memory, watch,
     clock, timeout
<1>2. TypeOK'
  BY <1>0, <1>1 DEF TypeOK, Steps, Actions, Places, All
<1>3. SignalsOK'
  BY <1>0, <1>1 DEF TypeOK, SignalsOK, All, Places
<1>4. LocalOK'
  BY <1>0, <1>1 DEF TypeOK, LocalOK, Caught, Handling, HandlerSteps, Steps
<1>5. CallsOK'
  BY <1>0, <1>1 DEF TypeOK, CallsOK, Handling, HandlerSteps, Steps
<1>6. StackOK'
  BY <1>0, <1>1 DEF TypeOK, StackOK, CallsOK, Handling, HandlerSteps
<1>7. TimeoutOK'
  BY <1>0, <1>1 DEF TypeOK, TimeoutOK, CallsOK, All, Caught, Handling, HandlerSteps
<1>8. TimerOK'
  BY <1>0, <1>1 DEF TypeOK, TimerOK, Kept, TimeoutOK, CallsOK, Handling, HandlerSteps
<1>9. ReportOK'
  BY <1>0, <1>1 DEF TypeOK, ReportOK
<1> QED
  BY <1>2, <1>3, <1>4, <1>5, <1>6, <1>7, <1>8, <1>9 DEF IInv

\* ... and sends the signal.
LEMMA ExpireKillIInv ==
    ASSUME Broken = {}, IInv, NEW x \in Expiries, ExpireKill(x)
    PROVE  IInv'
<1> USE DebugAssumption
<1>0. TypeOK /\ SignalsOK /\ LocalOK /\ CallsOK /\ StackOK /\ TimeoutOK /\ TimerOK /\ ReportOK
  BY DEF IInv
<1>1. /\ ended = "no" /\ expiry[x] = "kill"
      /\ \E e \in {"out", "sent"} : expiry' = [expiry EXCEPT ![x] = e]
      /\ UNCHANGED <<action, reports, ended, inited, signals, nsignals, old_actions,
                   signo, old_action, stack, altstack, timeout_inited,
                   timeout_reached, timeout_old_action, timeout_signal, timer,
                   overtaken, pc, timed>>
  BY DEF ExpireKill, ExpiryAt, Advance, process, saved, local, memory, watch, clock,
     timeout
<1>2. TypeOK'
  BY <1>0, <1>1 DEF TypeOK, Steps, Actions, Places, All
<1>3. SignalsOK'
  BY <1>0, <1>1 DEF TypeOK, SignalsOK, All, Places
<1>4. LocalOK'
  BY <1>0, <1>1 DEF TypeOK, LocalOK, Caught, Handling, HandlerSteps, Steps
<1>5. CallsOK'
  BY <1>0, <1>1 DEF TypeOK, CallsOK, Handling, HandlerSteps, Steps
<1>6. StackOK'
  BY <1>0, <1>1 DEF TypeOK, StackOK, CallsOK, Handling, HandlerSteps
<1>7. TimeoutOK'
  BY <1>0, <1>1 DEF TypeOK, TimeoutOK, CallsOK, All, Caught, Handling, HandlerSteps
<1>8. TimerOK'
  BY <1>0, <1>1 DEF TypeOK, TimerOK, Kept, TimeoutOK, CallsOK, Handling, HandlerSteps
<1>9. ReportOK'
  BY <1>0, <1>1 DEF TypeOK, ReportOK
<1> QED
  BY <1>2, <1>3, <1>4, <1>5, <1>6, <1>7, <1>8, <1>9 DEF IInv

\* A signal hits a thread: main has a stack if the handler is set.
LEMMA CrashIInv ==
    ASSUME Broken = {}, IInv, NEW t \in Threads, NEW s \in Signals, Crash(t, s)
    PROVE  IInv'
<1> USE DebugAssumption
<1>0. TypeOK /\ SignalsOK /\ LocalOK /\ CallsOK /\ StackOK /\ TimeoutOK /\ TimerOK /\ ReportOK
  BY DEF IInv
<1>1. /\ ended = "no" /\ ~Handling(t) /\ ~(t = main /\ pc[t] = "init" /\ stack = "freed")
      /\ \/ action[s] = "mys" /\ ended' = ended /\ timed' = timed /\ pc' = [pc EXCEPT ![t] = "handler"]
         \/ (ended' = "killed" \/ ended' = ended) /\ timed' = timed /\ pc' = pc
      /\ UNCHANGED <<action, reports, inited, signals, nsignals, old_actions, signo,
                   old_action, stack, altstack, timeout_inited, timeout_reached,
                   timeout_old_action, timeout_signal, timer, expiry, overtaken>>
  BY DEF Crash, Deliver, Goto, process, saved, local, memory, watch, clock, timeout
<1>2. TypeOK'
  BY <1>0, <1>1 DEF TypeOK, Steps
<1>3. SignalsOK'
  BY <1>0, <1>1 DEF TypeOK, SignalsOK, All, Places
<1>4. LocalOK'
  BY <1>0, <1>1 DEF TypeOK, LocalOK, Caught, Handling, HandlerSteps, Steps
<1>5. CallsOK'
  BY <1>0, <1>1 DEF TypeOK, CallsOK, Handling, HandlerSteps, Steps
<1>6. StackOK'
  <2>1. ASSUME t = main, action[s] = "mys", altstack
        PROVE  stack = "allocated"
    <3>1. CASE inited
      BY <1>0, <3>1 DEF StackOK
    <3>2. CASE ~inited
      <4>1. original[s] # "mys"
        BY DEF All
      <4>2. pc[main] \notin {"out", "message", "free"}
        BY <1>0, <2>1, <3>2, <4>1 DEF CallsOK
      <4>3. pc[main] # "gone"
        BY <1>0, <1>1 DEF CallsOK
      <4>4. pc[main] = "init"
        BY <1>0, <1>1, <2>1, <3>2, <4>2, <4>3
           DEF TypeOK, CallsOK, Steps, Handling, HandlerSteps
      <4> QED
        BY <1>0, <1>1, <2>1, <4>4 DEF TypeOK, StackOK
    <3> QED
      BY <3>1, <3>2
  <2> QED
    BY <1>0, <1>1, <2>1 DEF TypeOK, StackOK, Handling, HandlerSteps
<1>7. TimeoutOK'
  BY <1>0, <1>1 DEF TypeOK, TimeoutOK, CallsOK, All, Caught, Handling, HandlerSteps
<1>8. TimerOK'
  BY <1>0, <1>1 DEF TypeOK, TimerOK, Kept, TimeoutOK, CallsOK, Handling, HandlerSteps
<1>9. ReportOK'
  BY <1>0, <1>1 DEF TypeOK, ReportOK
<1> QED
  BY <1>2, <1>3, <1>4, <1>5, <1>6, <1>7, <1>8, <1>9 DEF IInv

\* The signal of the timeout arrives.
LEMMA TimeoutIInv ==
    ASSUME Broken = {}, IInv, NEW t \in Threads, Timeout(t)
    PROVE  IInv'
<1> USE DebugAssumption
<1>0. TypeOK /\ SignalsOK /\ LocalOK /\ CallsOK /\ StackOK /\ TimeoutOK /\ TimerOK /\ ReportOK
  BY DEF IInv
<1>1. /\ ended = "no" /\ ~Handling(t)
      /\ \E x \in Expiries : expiry[x] = "sent" /\ expiry' = [expiry EXCEPT ![x] = "out"]
      /\ \/ /\ action[SIGTIMEOUT] = "mys" /\ ended' = ended
            /\ timed' = timed \cup {t} /\ pc' = [pc EXCEPT ![t] = "handler"]
         \/ (ended' = "killed" \/ ended' = ended) /\ timed' = timed /\ pc' = pc
      /\ UNCHANGED <<action, reports, inited, signals, nsignals, old_actions, signo,
                   old_action, stack, altstack, timeout_inited, timeout_reached,
                   timeout_old_action, timeout_signal, timer, overtaken>>
  BY DEF Timeout, Deliver, Goto, Advance, process, saved, local, memory, watch, clock,
     timeout
<1>2. TypeOK'
  BY <1>0, <1>1 DEF TypeOK, Steps
<1>3. SignalsOK'
  BY <1>0, <1>1 DEF TypeOK, SignalsOK, All, Places
<1>4. LocalOK'
  BY <1>0, <1>1 DEF TypeOK, LocalOK, Caught, Handling, HandlerSteps, Steps
<1>5. CallsOK'
  BY <1>0, <1>1 DEF TypeOK, CallsOK, Handling, HandlerSteps, Steps
<1>6. StackOK'
  <2>1. ASSUME t = main, action[SIGTIMEOUT] = "mys", altstack
        PROVE  stack = "allocated"
    <3>1. original[SIGTIMEOUT] # "mys"
      BY DEF All
    <3> QED
      BY <1>0, <1>1, <2>1, <3>1 DEF TimeoutOK, StackOK
  <2> QED
    BY <1>0, <1>1, <2>1 DEF TypeOK, StackOK, Handling, HandlerSteps
<1>7. TimeoutOK'
  BY <1>0, <1>1 DEF TypeOK, TimeoutOK, CallsOK, All, Caught, Handling, HandlerSteps
<1>8. TimerOK'
  BY <1>0, <1>1 DEF TypeOK, TimerOK, Kept, TimeoutOK, CallsOK, Handling, HandlerSteps
<1>9. ReportOK'
  BY <1>0, <1>1 DEF TypeOK, ReportOK
<1> QED
  BY <1>2, <1>3, <1>4, <1>5, <1>6, <1>7, <1>8, <1>9 DEF IInv

\* The handler takes the lock, ...
LEMMA HandlerLocksIInv ==
    ASSUME Broken = {}, IInv, NEW t \in Threads, HandlerLocks(t)
    PROVE  IInv'
<1> USE DebugAssumption
<1>0. TypeOK /\ SignalsOK /\ LocalOK /\ CallsOK /\ StackOK /\ TimeoutOK /\ TimerOK /\ ReportOK
  BY DEF IInv
<1>1. /\ ended = "no" /\ pc[t] = "handler"
      /\ pc' = [pc EXCEPT ![t] = "revert"]
      /\ UNCHANGED <<action, reports, ended, inited, signals, nsignals, old_actions,
                   signo, old_action, stack, altstack, timeout_inited,
                   timeout_reached, timeout_old_action, timeout_signal, timer,
                   expiry, overtaken, timed>>
  BY DEF HandlerLocks, At, Goto, process, saved, local, memory, watch, clock, timeout
<1>2. TypeOK'
  BY <1>0, <1>1 DEF TypeOK, Steps, Actions, Places, All
<1>3. SignalsOK'
  BY <1>0, <1>1 DEF TypeOK, SignalsOK, All, Places
<1>4. LocalOK'
  BY <1>0, <1>1 DEF TypeOK, LocalOK, Caught, Handling, HandlerSteps, Steps
<1>5. CallsOK'
  BY <1>0, <1>1 DEF TypeOK, CallsOK, Handling, HandlerSteps, Steps
<1>6. StackOK'
  BY <1>0, <1>1 DEF TypeOK, StackOK, CallsOK, Handling, HandlerSteps
<1>7. TimeoutOK'
  BY <1>0, <1>1 DEF TypeOK, TimeoutOK, CallsOK, All, Caught, Handling, HandlerSteps
<1>8. TimerOK'
  BY <1>0, <1>1 DEF TypeOK, TimerOK, Kept, TimeoutOK, CallsOK, Handling, HandlerSteps
<1>9. ReportOK'
  BY <1>0, <1>1 DEF TypeOK, ReportOK
<1> QED
  BY <1>2, <1>3, <1>4, <1>5, <1>6, <1>7, <1>8, <1>9 DEF IInv

\* ... reverts the signals and gives the lock back.
LEMMA HandlerRevertsIInv ==
    ASSUME Broken = {}, IInv, NEW t \in Threads, HandlerReverts(t)
    PROVE  IInv'
<1> USE DebugAssumption
<1>0. TypeOK /\ SignalsOK /\ LocalOK /\ CallsOK /\ StackOK /\ TimeoutOK /\ TimerOK /\ ReportOK
  BY DEF IInv
<1>1. /\ ended = "no" /\ pc[t] = "revert"
      /\ pc' = [pc EXCEPT ![t] = "print"]
      /\ action' \in [All -> Actions]
      /\ \A s \in Signals : s # signo => action'[s] = original[s]
      /\ \A s \in Signals : action'[s] \in {action[s], original[s]}
      /\ action'[SIGTIMEOUT] = action[SIGTIMEOUT]
      /\ UNCHANGED <<reports, ended, inited, signals, nsignals, old_actions, signo,
                   old_action, stack, altstack, timeout_inited, timeout_reached,
                   timeout_old_action, timeout_signal, timer, expiry, overtaken,
                   timed>>
  BY <1>0, RevertAllRestores DEF HandlerReverts, At, Goto, process, saved, local,
     memory, watch, clock, timeout
<1>2. TypeOK'
  BY <1>0, <1>1 DEF TypeOK, Steps, Actions, Places, All
<1>3. SignalsOK'
  BY <1>0, <1>1 DEF TypeOK, SignalsOK, All, Places
<1>4. LocalOK'
  <2>1. \A z \in {"record", "unrecord"} : pc'[main] = z => pc[main] = z
    BY <1>0, <1>1 DEF TypeOK
  <2>2. Caught => Caught'
    BY <1>0, <1>1 DEF TypeOK, Caught, Handling, HandlerSteps
  <2>3. pc[main] \in {"record", "unrecord"} => Caught' \/ pc'[main] = pc[main]
    BY <1>0, <1>1 DEF TypeOK, Caught, Handling, HandlerSteps
  <2>4. pc[main] = "unrecord" => signo \in Signals
    BY <1>0, <1>1 DEF TypeOK, LocalOK, SignalsOK, Places
  <2> QED
    BY <1>0, <1>1, <2>1, <2>2, <2>3, <2>4 DEF LocalOK
<1>5. CallsOK'
  BY <1>0, <1>1 DEF TypeOK, CallsOK, Handling, HandlerSteps, Steps
<1>6. StackOK'
  BY <1>0, <1>1 DEF TypeOK, StackOK, CallsOK, Handling, HandlerSteps
<1>7. TimeoutOK'
  BY <1>0, <1>1 DEF TypeOK, TimeoutOK, CallsOK, All, Caught, Handling, HandlerSteps
<1>8. TimerOK'
  BY <1>0, <1>1 DEF TypeOK, TimerOK, Kept, TimeoutOK, CallsOK, Handling, HandlerSteps
<1>9. ReportOK'
  BY <1>0, <1>1 DEF TypeOK, ReportOK
<1> QED
  BY <1>2, <1>3, <1>4, <1>5, <1>6, <1>7, <1>8, <1>9 DEF IInv

\* A handler that a timeout called reports it.
LEMMA HandlerPrintsIInv ==
    ASSUME Broken = {}, IInv, NEW t \in Threads, HandlerPrints(t)
    PROVE  IInv'
<1> USE DebugAssumption
<1>0. TypeOK /\ SignalsOK /\ LocalOK /\ CallsOK /\ StackOK /\ TimeoutOK /\ TimerOK /\ ReportOK
  BY DEF IInv
<1>1. /\ ended = "no" /\ pc[t] = "print"
      /\ pc' = [pc EXCEPT ![t] = "exit"]
      /\ reports \subseteq reports'
      /\ (t \in timed /\ timeout_inited /\ timeout_reached /\ timeout_signal = SIGTIMEOUT)
             => t \in reports'
      /\ UNCHANGED <<action, ended, inited, signals, nsignals, old_actions, signo,
                   old_action, stack, altstack, timeout_inited, timeout_reached,
                   timeout_old_action, timeout_signal, timer, expiry, overtaken,
                   timed>>
  BY DEF HandlerPrints, At, Goto, process, saved, local, memory, watch, clock, timeout
<1>2. TypeOK'
  BY <1>0, <1>1 DEF TypeOK, Steps, Actions, Places, All
<1>3. SignalsOK'
  BY <1>0, <1>1 DEF TypeOK, SignalsOK, All, Places
<1>4. LocalOK'
  BY <1>0, <1>1 DEF TypeOK, LocalOK, Caught, Handling, HandlerSteps, Steps
<1>5. CallsOK'
  BY <1>0, <1>1 DEF TypeOK, CallsOK, Handling, HandlerSteps, Steps
<1>6. StackOK'
  BY <1>0, <1>1 DEF TypeOK, StackOK, CallsOK, Handling, HandlerSteps
<1>7. TimeoutOK'
  BY <1>0, <1>1 DEF TypeOK, TimeoutOK, CallsOK, All, Caught, Handling, HandlerSteps
<1>8. TimerOK'
  BY <1>0, <1>1 DEF TypeOK, TimerOK, Kept, TimeoutOK, CallsOK, Handling, HandlerSteps
<1>9. ReportOK'
  <2>1. t \in timed /\ ~overtaken => t \in reports'
    BY <1>0, <1>1 DEF TimerOK, Kept, TimeoutOK, Handling, HandlerSteps
  <2> QED
    BY <1>0, <1>1, <2>1 DEF TypeOK, ReportOK
<1> QED
  BY <1>2, <1>3, <1>4, <1>5, <1>6, <1>7, <1>8, <1>9 DEF IInv

\* The process ends.
LEMMA HandlerExitsIInv ==
    ASSUME Broken = {}, IInv, NEW t \in Threads, HandlerExits(t)
    PROVE  IInv'
<1> USE DebugAssumption
<1>0. TypeOK /\ SignalsOK /\ LocalOK /\ CallsOK /\ StackOK /\ TimeoutOK /\ TimerOK /\ ReportOK
  BY DEF IInv
<1>1. /\ ended = "no" /\ ended' = "exited" /\ pc[t] = "exit"
      /\ pc' = [pc EXCEPT ![t] = "gone"]
      /\ UNCHANGED <<action, reports, inited, signals, nsignals, old_actions, signo,
                   old_action, stack, altstack, timeout_inited, timeout_reached,
                   timeout_old_action, timeout_signal, timer, expiry, overtaken,
                   timed>>
  BY DEF HandlerExits, At, Goto, process, saved, local, memory, watch, clock, timeout
<1>2. TypeOK'
  BY <1>0, <1>1 DEF TypeOK, Steps, Actions, Places, All
<1>3. SignalsOK'
  BY <1>0, <1>1 DEF TypeOK, SignalsOK, All, Places
<1>4. LocalOK'
  BY <1>0, <1>1 DEF TypeOK, LocalOK, Caught, Handling, HandlerSteps, Steps
<1>5. CallsOK'
  BY <1>0, <1>1 DEF TypeOK, CallsOK, Handling, HandlerSteps, Steps
<1>6. StackOK'
  BY <1>0, <1>1 DEF TypeOK, StackOK, CallsOK, Handling, HandlerSteps
<1>7. TimeoutOK'
  BY <1>0, <1>1 DEF TypeOK, TimeoutOK, CallsOK, All, Caught, Handling, HandlerSteps
<1>8. TimerOK'
  BY <1>0, <1>1 DEF TypeOK, TimerOK, Kept, TimeoutOK, CallsOK, Handling, HandlerSteps
<1>9. ReportOK'
  BY <1>0, <1>1 DEF TypeOK, ReportOK
<1> QED
  BY <1>2, <1>3, <1>4, <1>5, <1>6, <1>7, <1>8, <1>9 DEF IInv

-----------------------------------------------------------------------------
\* Every step of a client that keeps the rules preserves the invariant.
LEMMA NextIInv == Broken = {} /\ IInv /\ [Next]_vars => IInv'
<1> SUFFICES ASSUME Broken = {}, IInv, [Next]_vars PROVE IInv'
  OBVIOUS
<1>1. CASE Calls
  BY <1>1, MessageIInv, InitAgainIInv, InitSignalsIInv, FiniIInv, SetSignalIInv,
     ClearSignalIInv, SetNewIInv, SetOldIInv, ClearTimeoutIInv DEF Calls
<1>2. CASE Main
  BY <1>2, InitStackIInv, FiniRevertsIInv, FiniFreesIInv, SetRecordsIInv, ClearUnrecordsIInv,
     CreateTimerIInv, SetFlagsIInv, ArmIInv, DisarmIInv, UndoIInv, DeleteIInv, ForgetIInv,
     RestartNewIInv, RestartOldIInv DEF Main
<1>3. ASSUME NEW x \in Expiries, Timer(x) \/ Expire(x)
      PROVE  IInv'
  BY <1>3, ExpireIInv, ExpireDeleteIInv, ExpireReachedIInv, ExpireKillIInv DEF Timer
<1>4. ASSUME NEW t \in Threads, Thread(t) \/ Timeout(t)
      PROVE  IInv'
  BY <1>4, MessageEndsIInv, HandlerLocksIInv, HandlerRevertsIInv,
     HandlerPrintsIInv, HandlerExitsIInv, TimeoutIInv DEF Thread
<1>5. ASSUME NEW t \in Threads, NEW s \in Signals, Crash(t, s)
      PROVE  IInv'
  BY <1>5, CrashIInv
<1>6. CASE UNCHANGED vars
  <2> USE <1>6 DEF vars, process, saved, local, memory, watch, clock, timeout
  <2>1. TypeOK'
    BY DEF IInv, TypeOK
  <2>2. SignalsOK' /\ LocalOK'
    BY DEF IInv, SignalsOK, LocalOK, Caught, Handling
  <2>3. CallsOK' /\ StackOK'
    BY DEF IInv, CallsOK, StackOK, Handling
  <2>4. TimeoutOK'
    BY DEF IInv, TimeoutOK, Caught, Handling
  <2>5. TimerOK' /\ ReportOK'
    BY DEF IInv, TimerOK, ReportOK, Kept, Handling
  <2> QED
    BY <2>1, <2>2, <2>3, <2>4, <2>5 DEF IInv
<1> QED
  BY <1>1, <1>2, <1>3, <1>4, <1>5, <1>6 DEF Next

\* Whatever hits which thread and when, the recorded signals are those whose
\* handler is set, and what is saved is the client's.
THEOREM DebugIInvHolds == Broken = {} /\ Spec => []IInv
<1> SUFFICES ASSUME Broken = {} PROVE Spec => []IInv
  OBVIOUS
<1>1. Init => IInv
  BY InitIInv
<1>2. IInv /\ [Next]_vars => IInv'
  BY NextIInv
<1> QED
  BY <1>1, <1>2, PTL DEF Spec

\* When the client keeps its rules, mys_debug_fini and mys_debug_clear_timeout
\* give the client its handlers back.
THEOREM FiniGivesBack == Broken = {} /\ Spec => []FiniRestores
<1> SUFFICES ASSUME Broken = {} PROVE Spec => []FiniRestores
  OBVIOUS
<1>1. IInv => FiniRestores
  BY DebugAssumption DEF IInv, CallsOK, TimeoutOK, FiniRestores, Caught, Handling, HandlerSteps
<1> QED
  BY <1>1, DebugIInvHolds, PTL

\* The handler never runs on a stack that was freed.
THEOREM StackIsThere == Broken = {} /\ Spec => []HandlerHasStack
<1> SUFFICES ASSUME Broken = {} PROVE Spec => []HandlerHasStack
  OBVIOUS
<1>1. IInv => HandlerHasStack
  BY DEF IInv, StackOK, HandlerHasStack
<1> QED
  BY <1>1, DebugIInvHolds, PTL

\* Once the function of the timer has deleted it, the timeout is reported, however
\* main changes the timeout at that moment.
THEOREM TimeoutsAreReported == Broken = {} /\ Spec => []TimeoutIsReported
<1> SUFFICES ASSUME Broken = {} PROVE Spec => []TimeoutIsReported
  OBVIOUS
<1>1. IInv => TimeoutIsReported
  <2> SUFFICES ASSUME IInv, ~overtaken PROVE TimeoutIsReported
    BY DEF TimeoutIsReported
  <2>1. ASSUME ended = "no", NEW x \in Expiries, expiry[x] = "sent"
        PROVE  action[SIGTIMEOUT] = "mys" \/ pc[main] = "delete" \/ Handling(main)
    BY <2>1, DebugAssumption DEF IInv, TimerOK, Kept, TimeoutOK, Caught, CallsOK
  <2>2. \A t \in Threads : (pc[t] \in {"exit", "gone"} /\ t \in timed) => t \in reports
    BY DEF IInv, ReportOK
  <2> QED
    BY <2>1, <2>2 DEF TimeoutIsReported
<1> QED
  BY <1>1, DebugIInvHolds, PTL

-----------------------------------------------------------------------------
\* Popen

Prun(k) == kind[k] \in {"prun", "prun2"}
Output == {"out", "err"}

PopenTypeOK ==
    /\ child \in [Kids -> {"none", "running", "stopped", "zombie", "reaped"}]
    /\ code \in [Kids -> Nat] /\ retval \in [Kids -> Nat]
    /\ signaled \in SUBSET Kids
    /\ rest \in [Kids -> Seq(Streams \X Units)]
    /\ pipe \in [Kids -> [Output -> Nat]] /\ printed \in [Kids -> [Output -> Seq(Units)]]
    /\ len \in [Kids -> [Output -> Nat]] /\ cap \in [Kids -> [Output -> Nat]]
    /\ fds \in [Kids -> SUBSET Streams]
    /\ alive \in [Kids -> BOOLEAN]
    /\ kind \in [Kids -> {"unused", "popen", "prun", "prun2"}]
    /\ held \in [Kids -> SUBSET {"cmd", "out", "err"}]
    /\ success \in SUBSET Kids /\ short \in SUBSET Kids
    /\ seen \in SUBSET Kids /\ closed \in SUBSET Kids
    /\ call \in [at : {"outside", "out", "err", "cut", "close", "wait"}, of : Nat]

\* What the parent is doing with child k, if anything.
AtCall(k) == IF call.of = k THEN call.at ELSE "outside"

\* The parent is in one call at most.
OneCall == call = Outside \/ (call.of \in Kids /\ call.at # "outside")

\* A handle is alive until it was waited for, or the wait has failed; one that
\* never was created, or could not be, has no child and nothing open.
AliveIsKnown(k) ==
    /\ alive[k] => child[k] \in {"running", "stopped", "zombie"}
    /\ child[k] = "reaped" \/ retval[k] = NoRetval
    /\ child[k] = "none" => fds[k] = {}
    /\ k \in success \/ k \in seen => ~alive[k] /\ child[k] # "none"
    /\ k \in closed => ~alive[k]

\* A handle that was not used is as it was at the start.
UnusedIsClean(k) == kind[k] = "unused" =>
    /\ child[k] = "none" /\ held[k] = {}
    /\ k \notin closed /\ k \notin short /\ k \notin signaled
    /\ \A s \in Output : pipe[k][s] = 0 /\ printed[k][s] = <<>> /\ len[k][s] = 0

\* The parent is in a call about a child that it has not waited for, and does
\* not leave a prun before that.
CallIsLive(k) ==
    /\ AtCall(k) # "outside" => alive[k]
    /\ AtCall(k) \in {"out", "err", "cut"} => Prun(k)
    /\ Prun(k) /\ alive[k] => AtCall(k) # "outside"

\* What is left open, and by whom, and what memory is left.
OpenIsKnown(k) ==
    /\ ~alive[k] => fds[k] = {} \/ k \in seen
    /\ AtCall(k) = "wait" => fds[k] = {}
    /\ Prun(k) /\ alive[k] /\ AtCall(k) # "wait" => fds[k] = Streams
    /\ kind[k] = "popen" => held[k] = {}
    /\ Prun(k) /\ child[k] # "none" => alive[k] \/ k \in success
    /\ Prun(k) /\ child[k] = "none" => held[k] \subseteq {"cmd"}
    /\ k \in success => Prun(k)
    /\ k \in seen => kind[k] = "popen"
    /\ k \in closed => kind[k] # "unused"
    /\ k \in closed /\ k \in success => held[k] = {}

\* The output of a prun was read, and the newlines at its end were cut off.
WasCut(k) == Prun(k) /\ (k \in success \/ AtCall(k) \in {"close", "wait"})

\* The buffers hold a part of what was printed and is not in the pipe, ...
Fits(k) == \A s \in Output :
    len[k][s] <= cap[k][s] /\ len[k][s] + pipe[k][s] <= Len(printed[k][s])

\* ... all of it, ...
AllThere(k) == \A s \in Output : len[k][s] + pipe[k][s] = Len(printed[k][s])

\* ... or all but the newlines at the end of what was printed.
AllTrimmed(k) == \A s \in Output : Trims(printed[k][s], Len(printed[k][s]), len[k][s])

\* A unit is in the pipe or in the buffer until it is cut off or the buffer is
\* freed.
UnitsAreKept(k) == k \notin closed =>
    /\ Fits(k)
    /\ WasCut(k) \/ AllThere(k)
    /\ WasCut(k) /\ k \notin short => AllTrimmed(k)

\* The streams of child k that have been read to their end.
AtEnd(k) == IF k \in success \/ AtCall(k) \in {"cut", "close", "wait"} THEN Output
            ELSE IF AtCall(k) = "err" THEN {"out"} ELSE {}

\* They are empty, and their child has ended by itself.
EndIsEnd(k) == Prun(k) /\ k \notin short =>
    /\ \A s \in AtEnd(k) : pipe[k][s] = 0 /\ ~Lives(k)
    /\ k \notin signaled
    /\ k \in success => retval[k] \in {code[k], NoRetval}

KidInv(k) == /\ AliveIsKnown(k) /\ UnusedIsClean(k) /\ CallIsLive(k) /\ OpenIsKnown(k)
             /\ UnitsAreKept(k) /\ EndIsEnd(k)

PopenIInv == PopenTypeOK /\ OneCall /\ \A k \in Kids : KidInv(k)

-----------------------------------------------------------------------------
\* Nothing of child k changes.
Same(k) ==
    /\ child'[k] = child[k] /\ code'[k] = code[k] /\ pipe'[k] = pipe[k] /\ printed'[k] = printed[k]
    /\ fds'[k] = fds[k] /\ alive'[k] = alive[k] /\ retval'[k] = retval[k] /\ kind'[k] = kind[k]
    /\ len'[k] = len[k] /\ cap'[k] = cap[k] /\ held'[k] = held[k]
    /\ (k \in signaled') = (k \in signaled) /\ (k \in success') = (k \in success)
    /\ (k \in short') = (k \in short) /\ (k \in seen') = (k \in seen)
    /\ (k \in closed') = (k \in closed)
    /\ AtCall(k)' = AtCall(k)

\* A step about one child leaves the others as they are.
LEMMA OthersKeep ==
    ASSUME PopenIInv, NEW k \in Kids, PopenTypeOK', OneCall', KidInv(k)',
           \A j \in Kids \ {k} : Same(j)
    PROVE  PopenIInv'
<1>1. ASSUME NEW j \in Kids \ {k} PROVE KidInv(j)'
  <2>1. KidInv(j) /\ Same(j)
    BY DEF PopenIInv
  <2>2. AliveIsKnown(j)' /\ UnusedIsClean(j)' /\ CallIsLive(j)'
    BY <2>1 DEF KidInv, Same, AliveIsKnown, UnusedIsClean, CallIsLive, Prun
  <2>3. OpenIsKnown(j)' /\ UnitsAreKept(j)'
    BY <2>1 DEF KidInv, Same, OpenIsKnown, UnitsAreKept, Fits, AllThere, AllTrimmed, WasCut, Prun
  <2>4. AtEnd(j)' = AtEnd(j)
    BY <2>1 DEF Same, AtEnd
  <2>5. EndIsEnd(j)'
    BY <2>1, <2>4 DEF KidInv, Same, EndIsEnd, Lives, Prun
  <2> QED
    BY <2>2, <2>3, <2>5 DEF KidInv
<1> QED
  BY <1>1 DEF PopenIInv

\* A process that has made no call satisfies the invariant.
LEMMA PopenInitIInv == PopenInit => PopenIInv
<1> SUFFICES ASSUME PopenInit PROVE PopenIInv
  OBVIOUS
<1>1. PopenTypeOK /\ OneCall
  BY PopenAssumption DEF PopenInit, PopenTypeOK, OneCall, Output, Outside, None, NoRetval
<1>2. ASSUME NEW k \in Kids PROVE KidInv(k)
  BY DEF PopenInit, KidInv, AliveIsKnown, UnusedIsClean, CallIsLive, OpenIsKnown, UnitsAreKept, EndIsEnd,
     Fits, AllThere, WasCut, AtEnd, AtCall, Prun, Output, Outside, None, Kids
<1> QED
  BY <1>1, <1>2 DEF PopenIInv

\* A child reads the end of its input.
LEMMA ChildReadsIInv ==
    ASSUME PopenIInv, NEW k \in Kids, ChildReads(k)
    PROVE  PopenIInv'
<1> USE PopenAssumption
<1>1. /\ rest' = [rest EXCEPT ![k] = Tail(rest[k])] /\ rest[k] # <<>>
      /\ UNCHANGED <<child, code, signaled, pipe, printed, fds, alive, retval, kind, len, cap, held, success, short, seen, closed, call>>
  BY DEF ChildReads, processes, channels, handle, history
<1>2. PopenTypeOK /\ OneCall /\ KidInv(k)
  BY DEF PopenIInv
<1>3. PopenTypeOK' /\ OneCall'
  <2>1. rest' \in [Kids -> Seq(Streams \X Units)]
    <3>1. Tail(rest[k]) \in Seq(Streams \X Units)
      BY <1>1, <1>2 DEF PopenTypeOK
    <3> QED
      BY <1>1, <1>2, <3>1 DEF PopenTypeOK
  <2> QED
    BY <1>1, <1>2, <2>1 DEF PopenTypeOK, OneCall
<1>4. \A j \in Kids \ {k} : Same(j)
  BY <1>1, <1>2 DEF PopenTypeOK, Same, AtCall, Outside, OneCall, Output
<1>5. AliveIsKnown(k)' /\ UnusedIsClean(k)' /\ CallIsLive(k)'
  BY <1>1, <1>2 DEF PopenTypeOK, KidInv, AliveIsKnown, UnusedIsClean, CallIsLive, AtCall, Prun, Outside, Output
<1>6. OpenIsKnown(k)'
  BY <1>1, <1>2 DEF PopenTypeOK, KidInv, AliveIsKnown, UnusedIsClean, OpenIsKnown, CallIsLive, AtCall, Prun, Outside, Output
<1>7. UnitsAreKept(k)'
  <2>1. Fits(k)' = Fits(k) /\ AllThere(k)' = AllThere(k) /\ AllTrimmed(k)' = AllTrimmed(k)
    BY <1>1 DEF Fits, AllThere, AllTrimmed
  <2> QED
    BY <1>1, <1>2, <2>1 DEF PopenTypeOK, KidInv, UnitsAreKept, WasCut, AtCall, Prun, OneCall, Outside
<1>8. EndIsEnd(k)'
  BY <1>1, <1>2 DEF PopenTypeOK, KidInv, AliveIsKnown, UnusedIsClean, CallIsLive, OpenIsKnown, EndIsEnd, AtEnd, AtCall,
     Lives, Prun, Outside, Output
<1> QED
  BY <1>1, <1>3, <1>4, <1>5, <1>6, <1>7, <1>8, OthersKeep DEF KidInv

\* A child exits.
LEMMA ChildExitsIInv ==
    ASSUME PopenIInv, NEW k \in Kids, NEW c \in Codes, ChildExits(k, c)
    PROVE  PopenIInv'
<1> USE PopenAssumption
<1>1. /\ child[k] = "running"
      /\ child' = [child EXCEPT ![k] = "zombie"]
      /\ code' = [code EXCEPT ![k] = c]
      /\ UNCHANGED <<rest, signaled, pipe, printed, fds, alive, retval, kind, len, cap, held, success, short, seen, closed, call>>
  BY DEF ChildExits, Ends, processes, channels, handle, history
<1>2. PopenTypeOK /\ OneCall /\ KidInv(k)
  BY DEF PopenIInv
<1>3. PopenTypeOK' /\ OneCall'
  <2>1. c \in Nat
    OBVIOUS
  <2>2. code' \in [Kids -> Nat] /\ child' \in [Kids -> {"none", "running", "stopped", "zombie", "reaped"}]
    BY <1>1, <1>2, <2>1 DEF PopenTypeOK
  <2> QED
    BY <1>1, <1>2, <2>2 DEF PopenTypeOK, OneCall
<1>4. \A j \in Kids \ {k} : Same(j)
  BY <1>1, <1>2 DEF PopenTypeOK, Same, AtCall, Outside, OneCall, Output
<1>5. AliveIsKnown(k)' /\ UnusedIsClean(k)' /\ CallIsLive(k)'
  BY <1>1, <1>2 DEF PopenTypeOK, KidInv, AliveIsKnown, UnusedIsClean, CallIsLive, AtCall, Prun, Outside, Output
<1>6. OpenIsKnown(k)'
  BY <1>1, <1>2 DEF PopenTypeOK, KidInv, AliveIsKnown, UnusedIsClean, OpenIsKnown, CallIsLive, AtCall, Prun, Outside, Output
<1>7. UnitsAreKept(k)'
  <2>1. Fits(k)' = Fits(k) /\ AllThere(k)' = AllThere(k) /\ AllTrimmed(k)' = AllTrimmed(k)
    BY <1>1 DEF Fits, AllThere, AllTrimmed
  <2> QED
    BY <1>1, <1>2, <2>1 DEF PopenTypeOK, KidInv, UnitsAreKept, WasCut, AtCall, Prun, OneCall, Outside
<1>8. EndIsEnd(k)'
  BY <1>1, <1>2 DEF PopenTypeOK, KidInv, AliveIsKnown, UnusedIsClean, CallIsLive, OpenIsKnown, EndIsEnd, AtEnd, AtCall,
     Lives, Prun, Outside, Output
<1> QED
  BY <1>1, <1>3, <1>4, <1>5, <1>6, <1>7, <1>8, OthersKeep DEF KidInv

\* The handle that is created next was not used, and the parent is in no call.
LEMMA FreshIsUnused ==
    ASSUME NEW k \in Kids, Fresh(k)
    PROVE  call = Outside /\ kind[k] = "unused"
  BY PopenAssumption DEF Fresh, Kids

\* A child cannot be created.
LEMMA CreateFailsIInv ==
    ASSUME PopenIInv, NEW k \in Kids, NEW how \in {"popen", "prun", "prun2"}, CreateFails(k, how)
    PROVE  PopenIInv'
<1> USE PopenAssumption
<1>1. /\ call = Outside /\ kind[k] = "unused"
      /\ kind' = [kind EXCEPT ![k] = how]
      /\ held' = [held EXCEPT ![k] = IF how = "prun2" THEN {"cmd"} ELSE {}]
      /\ UNCHANGED <<child, rest, code, signaled, pipe, printed, fds, alive, retval, len, cap, success, short, seen, closed, call>>
  BY FreshIsUnused DEF CreateFails, processes, channels, handle, history
<1>2. PopenTypeOK /\ OneCall /\ KidInv(k)
  BY DEF PopenIInv
<1>3. PopenTypeOK' /\ OneCall'
  BY <1>1, <1>2 DEF PopenTypeOK, OneCall, Outside, Output, Streams
<1>4. \A j \in Kids \ {k} : Same(j)
  BY <1>1, <1>2 DEF PopenTypeOK, Same, AtCall, Outside, OneCall, Output
<1>5. AliveIsKnown(k)' /\ UnusedIsClean(k)' /\ CallIsLive(k)'
  BY <1>1, <1>2 DEF PopenTypeOK, KidInv, AliveIsKnown, UnusedIsClean, CallIsLive, AtCall, Prun, Outside, Output
<1>6. OpenIsKnown(k)'
  BY <1>1, <1>2 DEF PopenTypeOK, KidInv, AliveIsKnown, UnusedIsClean, OpenIsKnown, CallIsLive, AtCall, Prun, Outside, Output
<1>7. UnitsAreKept(k)'
  <2>1. Fits(k)' = Fits(k) /\ AllThere(k)' = AllThere(k) /\ AllTrimmed(k)' = AllTrimmed(k)
    BY <1>1 DEF Fits, AllThere, AllTrimmed
  <2>2. ~WasCut(k) /\ ~WasCut(k)'
    BY <1>1, <1>2 DEF WasCut, KidInv, AliveIsKnown, UnusedIsClean, AtCall, Outside
  <2> QED
    BY <1>1, <1>2, <2>1, <2>2 DEF KidInv, UnitsAreKept
<1>8. EndIsEnd(k)'
  BY <1>1, <1>2 DEF PopenTypeOK, KidInv, AliveIsKnown, UnusedIsClean, CallIsLive, OpenIsKnown, EndIsEnd, AtEnd, AtCall,
     Lives, Prun, Outside, Output
<1> QED
  BY <1>1, <1>3, <1>4, <1>5, <1>6, <1>7, <1>8, OthersKeep DEF KidInv

\* A stream is at its end, and so is its child.
LEMMA ReadEndsIInv ==
    ASSUME PopenIInv, NEW k \in Kids, NEW s \in {"out", "err"}, ReadEnds(k, s)
    PROVE  PopenIInv'
<1> USE PopenAssumption
<1>1. /\ call = [at |-> s, of |-> k] /\ pipe[k][s] = 0 /\ ~Lives(k)
      /\ call' = [at |-> IF s = "out" THEN "err" ELSE "cut", of |-> k]
      /\ UNCHANGED <<child, rest, code, signaled, pipe, printed, fds, alive, retval, kind, len, cap, held, success, short, seen, closed>>
  BY DEF ReadEnds, Full, After, GoOn, processes, channels, handle, history
<1>2. PopenTypeOK /\ OneCall /\ KidInv(k)
  BY DEF PopenIInv
<1>3. PopenTypeOK' /\ OneCall'
  BY <1>1, <1>2 DEF PopenTypeOK, OneCall, Outside, Output, Streams
<1>4. \A j \in Kids \ {k} : Same(j)
  BY <1>1, <1>2 DEF PopenTypeOK, Same, AtCall, Outside, OneCall, Output
<1>5. AliveIsKnown(k)' /\ UnusedIsClean(k)' /\ CallIsLive(k)'
  BY <1>1, <1>2 DEF PopenTypeOK, KidInv, AliveIsKnown, UnusedIsClean, CallIsLive, AtCall, Prun, Outside, Output
<1>6. OpenIsKnown(k)'
  BY <1>1, <1>2 DEF PopenTypeOK, KidInv, AliveIsKnown, UnusedIsClean, OpenIsKnown, CallIsLive, AtCall, Prun, Outside, Output
<1>7. UnitsAreKept(k)'
  <2>1. Fits(k)' = Fits(k) /\ AllThere(k)' = AllThere(k) /\ AllTrimmed(k)' = AllTrimmed(k)
    BY <1>1 DEF Fits, AllThere, AllTrimmed
  <2> QED
    BY <1>1, <1>2, <2>1 DEF PopenTypeOK, KidInv, UnitsAreKept, WasCut, AtCall, Prun, OneCall, Outside
<1>8. EndIsEnd(k)'
  BY <1>1, <1>2 DEF PopenTypeOK, KidInv, AliveIsKnown, UnusedIsClean, CallIsLive, OpenIsKnown, EndIsEnd, AtEnd, AtCall,
     Lives, Prun, Outside, Output
<1> QED
  BY <1>1, <1>3, <1>4, <1>5, <1>6, <1>7, <1>8, OthersKeep DEF KidInv

\* A buffer grows.
LEMMA ReadGrowsIInv ==
    ASSUME PopenIInv, NEW k \in Kids, NEW s \in {"out", "err"}, ReadGrows(k, s)
    PROVE  PopenIInv'
<1> USE PopenAssumption
<1>1. /\ call = [at |-> s, of |-> k] /\ kind[k] = "prun2"
      /\ cap' = [cap EXCEPT ![k][s] = IF @ = 0 THEN FirstBuffer ELSE 2 * @]
      /\ held' = [held EXCEPT ![k] = @ \cup {s}]
      /\ UNCHANGED <<child, rest, code, signaled, pipe, printed, fds, alive, retval, kind, len, success, short, seen, closed, call>>
  BY DEF ReadGrows, Full, processes, channels, handle, history
<1>2. PopenTypeOK /\ OneCall /\ KidInv(k)
  BY DEF PopenIInv
<1>3. PopenTypeOK' /\ OneCall'
  <2>1. cap[k] \in [Output -> Nat] /\ s \in Output
    BY <1>2 DEF PopenTypeOK, Output
  <2> DEFINE b == IF cap[k][s] = 0 THEN FirstBuffer ELSE 2 * cap[k][s]
  <2>2. b \in Nat
    BY <2>1
  <2>5. cap' = [cap EXCEPT ![k] = [cap[k] EXCEPT ![s] = b]]
    BY <1>1
  <2> HIDE DEF b
  <2>3. cap' \in [Kids -> [Output -> Nat]]
    BY <1>2, <2>1, <2>2, <2>5 DEF PopenTypeOK
  <2>4. held' \in [Kids -> SUBSET {"cmd", "out", "err"}]
    BY <1>1, <1>2 DEF PopenTypeOK
  <2> QED
    BY <1>1, <1>2, <2>3, <2>4 DEF PopenTypeOK, OneCall
<1>4. \A j \in Kids \ {k} : Same(j)
  BY <1>1, <1>2 DEF PopenTypeOK, Same, AtCall, Outside, OneCall, Output
<1>5. AliveIsKnown(k)' /\ UnusedIsClean(k)' /\ CallIsLive(k)'
  BY <1>1, <1>2 DEF PopenTypeOK, KidInv, AliveIsKnown, UnusedIsClean, CallIsLive, AtCall, Prun, Outside, Output
<1>6. OpenIsKnown(k)'
  BY <1>1, <1>2 DEF PopenTypeOK, KidInv, AliveIsKnown, UnusedIsClean, OpenIsKnown, CallIsLive, AtCall, Prun, Outside, Output
<1>7. UnitsAreKept(k)'
  <2>1. /\ cap[k] \in [Output -> Nat] /\ len[k] \in [Output -> Nat] /\ s \in Output
        /\ cap' = [cap EXCEPT ![k] = cap'[k]]
    BY <1>1, <1>2 DEF PopenTypeOK, Output
  <2>2. cap'[k] = [cap[k] EXCEPT ![s] = IF @ = 0 THEN FirstBuffer ELSE 2 * @]
    BY <1>1, <1>2 DEF PopenTypeOK
  <2>3. \A z \in Output : cap'[k][z] \in Nat /\ cap[k][z] <= cap'[k][z]
    <3> TAKE z \in Output
    <3>1. CASE z # s
      BY <2>1, <2>2, <3>1
    <3>2. CASE z = s
      <4>1. cap'[k][s] = IF cap[k][s] = 0 THEN FirstBuffer ELSE 2 * cap[k][s]
        BY <2>1, <2>2
      <4> QED
        BY <2>1, <3>2, <4>1
    <3> QED
      BY <3>1, <3>2
  <2>4. \A z \in Output : len[k][z] <= cap[k][z] => len[k][z] <= cap'[k][z]
    <3> TAKE z \in Output
    <3>1. len[k][z] \in Nat /\ cap[k][z] \in Nat
      BY <2>1
    <3>2. cap'[k][z] \in Nat /\ cap[k][z] <= cap'[k][z]
      BY <2>3
    <3> QED
      BY <3>1, <3>2
  <2>5. (Fits(k) => Fits(k)') /\ AllThere(k)' = AllThere(k) /\ AllTrimmed(k)' = AllTrimmed(k)
    BY <1>1, <2>4 DEF Fits, AllThere, AllTrimmed
  <2>6. WasCut(k)' = WasCut(k)
    BY <1>1 DEF WasCut, Prun, AtCall
  <2> QED
    BY <1>1, <1>2, <2>5, <2>6 DEF KidInv, UnitsAreKept
<1>8. EndIsEnd(k)'
  BY <1>1, <1>2 DEF PopenTypeOK, KidInv, AliveIsKnown, UnusedIsClean, CallIsLive, OpenIsKnown, EndIsEnd, AtEnd, AtCall,
     Lives, Prun, Outside, Output
<1> QED
  BY <1>1, <1>3, <1>4, <1>5, <1>6, <1>7, <1>8, OthersKeep DEF KidInv

\* A buffer is full.
LEMMA ReadStopsIInv ==
    ASSUME PopenIInv, NEW k \in Kids, NEW s \in {"out", "err"}, ReadStops(k, s)
    PROVE  PopenIInv'
<1> USE PopenAssumption
<1>1. /\ call = [at |-> s, of |-> k]
      /\ short' = short \cup {k}
      /\ call' = [at |-> IF s = "out" THEN "err" ELSE "cut", of |-> k]
      /\ UNCHANGED <<child, rest, code, signaled, pipe, printed, fds, alive, retval, kind, len, cap, held, success, seen, closed>>
  BY DEF ReadStops, Full, After, GoOn, processes, channels, handle, history
<1>2. PopenTypeOK /\ OneCall /\ KidInv(k)
  BY DEF PopenIInv
<1>3. PopenTypeOK' /\ OneCall'
  BY <1>1, <1>2 DEF PopenTypeOK, OneCall, Outside, Output, Streams
<1>4. \A j \in Kids \ {k} : Same(j)
  BY <1>1, <1>2 DEF PopenTypeOK, Same, AtCall, Outside, OneCall, Output
<1>5. AliveIsKnown(k)' /\ UnusedIsClean(k)' /\ CallIsLive(k)'
  BY <1>1, <1>2 DEF PopenTypeOK, KidInv, AliveIsKnown, UnusedIsClean, CallIsLive, AtCall, Prun, Outside, Output
<1>6. OpenIsKnown(k)'
  BY <1>1, <1>2 DEF PopenTypeOK, KidInv, AliveIsKnown, UnusedIsClean, OpenIsKnown, CallIsLive, AtCall, Prun, Outside, Output
<1>7. UnitsAreKept(k)'
  <2>1. Fits(k)' = Fits(k) /\ AllThere(k)' = AllThere(k) /\ AllTrimmed(k)' = AllTrimmed(k)
    BY <1>1 DEF Fits, AllThere, AllTrimmed
  <2> QED
    BY <1>1, <1>2, <2>1 DEF PopenTypeOK, KidInv, UnitsAreKept, WasCut, AtCall, Prun, OneCall, Outside
<1>8. EndIsEnd(k)'
  BY <1>1, <1>2 DEF PopenTypeOK, KidInv, AliveIsKnown, UnusedIsClean, CallIsLive, OpenIsKnown, EndIsEnd, AtEnd, AtCall,
     Lives, Prun, Outside, Output
<1> QED
  BY <1>1, <1>3, <1>4, <1>5, <1>6, <1>7, <1>8, OthersKeep DEF KidInv

\* A read fails.
LEMMA ReadFailsIInv ==
    ASSUME PopenIInv, NEW k \in Kids, NEW s \in {"out", "err"}, ReadFails(k, s)
    PROVE  PopenIInv'
<1> USE PopenAssumption
<1>1. /\ call = [at |-> s, of |-> k]
      /\ short' = short \cup {k}
      /\ call' = [at |-> IF s = "out" THEN "err" ELSE "cut", of |-> k]
      /\ UNCHANGED <<child, rest, code, signaled, pipe, printed, fds, alive, retval, kind, len, cap, held, success, seen, closed>>
  BY DEF ReadFails, Full, After, GoOn, processes, channels, handle, history
<1>2. PopenTypeOK /\ OneCall /\ KidInv(k)
  BY DEF PopenIInv
<1>3. PopenTypeOK' /\ OneCall'
  BY <1>1, <1>2 DEF PopenTypeOK, OneCall, Outside, Output, Streams
<1>4. \A j \in Kids \ {k} : Same(j)
  BY <1>1, <1>2 DEF PopenTypeOK, Same, AtCall, Outside, OneCall, Output
<1>5. AliveIsKnown(k)' /\ UnusedIsClean(k)' /\ CallIsLive(k)'
  BY <1>1, <1>2 DEF PopenTypeOK, KidInv, AliveIsKnown, UnusedIsClean, CallIsLive, AtCall, Prun, Outside, Output
<1>6. OpenIsKnown(k)'
  BY <1>1, <1>2 DEF PopenTypeOK, KidInv, AliveIsKnown, UnusedIsClean, OpenIsKnown, CallIsLive, AtCall, Prun, Outside, Output
<1>7. UnitsAreKept(k)'
  <2>1. Fits(k)' = Fits(k) /\ AllThere(k)' = AllThere(k) /\ AllTrimmed(k)' = AllTrimmed(k)
    BY <1>1 DEF Fits, AllThere, AllTrimmed
  <2> QED
    BY <1>1, <1>2, <2>1 DEF PopenTypeOK, KidInv, UnitsAreKept, WasCut, AtCall, Prun, OneCall, Outside
<1>8. EndIsEnd(k)'
  BY <1>1, <1>2 DEF PopenTypeOK, KidInv, AliveIsKnown, UnusedIsClean, CallIsLive, OpenIsKnown, EndIsEnd, AtEnd, AtCall,
     Lives, Prun, Outside, Output
<1> QED
  BY <1>1, <1>3, <1>4, <1>5, <1>6, <1>7, <1>8, OthersKeep DEF KidInv

\* The newlines at the ends are cut off.
LEMMA CutIInv ==
    ASSUME PopenIInv, NEW k \in Kids, Cut(k)
    PROVE  PopenIInv'
<1> USE PopenAssumption
<1>2. PopenTypeOK /\ OneCall /\ KidInv(k)
  BY DEF PopenIInv
<1>0. PICK new \in [Output -> Nat] :
          /\ \A s \in Output : new[s] <= len[k][s] /\ Trims(printed[k][s], len[k][s], new[s])
          /\ len' = [len EXCEPT ![k] = new]
  <2>1. PICK out \in 0 .. len[k]["out"], err \in 0 .. len[k]["err"] :
            /\ Trims(printed[k]["out"], len[k]["out"], out)
            /\ Trims(printed[k]["err"], len[k]["err"], err)
            /\ len' = [len EXCEPT ![k] = [s \in {"out", "err"} |-> IF s = "out" THEN out ELSE err]]
    BY DEF Cut
  <2> DEFINE new == [s \in {"out", "err"} |-> IF s = "out" THEN out ELSE err]
  <2>2. len[k]["out"] \in Nat /\ len[k]["err"] \in Nat
    BY <1>2 DEF PopenTypeOK, Output
  <2>3. out \in Nat /\ err \in Nat /\ out <= len[k]["out"] /\ err <= len[k]["err"]
    BY <2>2
  <2>4. new["out"] = out /\ new["err"] = err /\ new \in [Output -> Nat]
    BY <2>3 DEF Output
  <2>5. len' = [len EXCEPT ![k] = new]
    BY <2>1
  <2> HIDE DEF new
  <2> QED
    BY <2>1, <2>3, <2>4, <2>5 DEF Output
<1>1. /\ call = [at |-> "cut", of |-> k]
      /\ call' = [at |-> "close", of |-> k]
      /\ UNCHANGED <<child, rest, code, signaled, pipe, printed, fds, alive, retval, kind, cap, held, success, short, seen, closed>>
  BY DEF Cut, GoOn, processes, channels, history
<1>9. len' \in [Kids -> [Output -> Nat]] /\ len'[k] = new /\ \A j \in Kids \ {k} : len'[j] = len[j]
  BY <1>0, <1>2 DEF PopenTypeOK
<1>3. PopenTypeOK' /\ OneCall'
  BY <1>1, <1>2, <1>9 DEF PopenTypeOK, OneCall
<1>4. \A j \in Kids \ {k} : Same(j)
  BY <1>1, <1>2, <1>9 DEF Same, AtCall
<1>5. AliveIsKnown(k)' /\ UnusedIsClean(k)' /\ CallIsLive(k)'
  BY <1>1, <1>2, <1>9 DEF KidInv, AliveIsKnown, UnusedIsClean, CallIsLive, AtCall, Prun, Output
<1>6. OpenIsKnown(k)'
  BY <1>1, <1>2 DEF PopenTypeOK, KidInv, AliveIsKnown, UnusedIsClean, OpenIsKnown, CallIsLive, AtCall, Prun, Outside, Output
<1>7. UnitsAreKept(k)'
  <2>1. k \notin closed /\ ~WasCut(k)
    BY <1>1, <1>2 DEF KidInv, AliveIsKnown, CallIsLive, WasCut, AtCall
  <2>2. Fits(k) /\ AllThere(k)
    BY <1>2, <2>1 DEF KidInv, UnitsAreKept
  <2>3. \A s \in Output : /\ len[k][s] \in Nat /\ pipe[k][s] \in Nat /\ Len(printed[k][s]) \in Nat
                          /\ cap[k][s] \in Nat /\ new[s] \in Nat /\ new[s] <= len[k][s]
    BY <1>0, <1>2 DEF PopenTypeOK
  <2>4. Fits(k)'
    BY <1>1, <1>9, <2>2, <2>3 DEF Fits
  <2>5. WasCut(k)'
    BY <1>1, <1>2 DEF PopenTypeOK, WasCut, KidInv, CallIsLive, Prun, AtCall
  <2>6. ASSUME k \notin short PROVE AllTrimmed(k)'
    <3>1. \A s \in Output : pipe[k][s] = 0
      BY <1>1, <1>2, <2>5, <2>6 DEF KidInv, EndIsEnd, AtEnd, AtCall, WasCut, Prun
    <3>2. \A s \in Output : Len(printed[k][s]) = len[k][s]
      BY <2>2, <2>3, <3>1 DEF AllThere
    <3> QED
      BY <1>0, <1>1, <1>9, <3>2 DEF AllTrimmed
  <2> QED
    BY <1>1, <2>4, <2>5, <2>6 DEF UnitsAreKept
<1>8. EndIsEnd(k)'
  BY <1>1, <1>2 DEF PopenTypeOK, KidInv, AliveIsKnown, UnusedIsClean, CallIsLive, OpenIsKnown, EndIsEnd, AtEnd, AtCall,
     Lives, Prun, Outside, Output
<1> QED
  BY <1>1, <1>3, <1>4, <1>5, <1>6, <1>7, <1>8, OthersKeep DEF KidInv

\* The pipes are closed.
LEMMA CloseIInv ==
    ASSUME PopenIInv, NEW k \in Kids, Close(k)
    PROVE  PopenIInv'
<1> USE PopenAssumption
<1>1. /\ call = [at |-> "close", of |-> k]
      /\ fds' = [fds EXCEPT ![k] = {}]
      /\ call' = [at |-> "wait", of |-> k]
      /\ UNCHANGED <<child, rest, code, signaled, pipe, printed, alive, retval, kind, len, cap, held, success, short, seen, closed>>
  BY DEF Close, Closed, GoOn, processes, channels, handle, history
<1>2. PopenTypeOK /\ OneCall /\ KidInv(k)
  BY DEF PopenIInv
<1>3. PopenTypeOK' /\ OneCall'
  BY <1>1, <1>2 DEF PopenTypeOK, OneCall, Outside, Output, Streams
<1>4. \A j \in Kids \ {k} : Same(j)
  BY <1>1, <1>2 DEF PopenTypeOK, Same, AtCall, Outside, OneCall, Output
<1>5. AliveIsKnown(k)' /\ UnusedIsClean(k)' /\ CallIsLive(k)'
  BY <1>1, <1>2 DEF PopenTypeOK, KidInv, AliveIsKnown, UnusedIsClean, CallIsLive, AtCall, Prun, Outside, Output
<1>6. OpenIsKnown(k)'
  BY <1>1, <1>2 DEF PopenTypeOK, KidInv, AliveIsKnown, UnusedIsClean, OpenIsKnown, CallIsLive, AtCall, Prun, Outside, Output
<1>7. UnitsAreKept(k)'
  <2>1. Fits(k)' = Fits(k) /\ AllThere(k)' = AllThere(k) /\ AllTrimmed(k)' = AllTrimmed(k)
    BY <1>1 DEF Fits, AllThere, AllTrimmed
  <2> QED
    BY <1>1, <1>2, <2>1 DEF PopenTypeOK, KidInv, UnitsAreKept, WasCut, AtCall, Prun, OneCall, Outside
<1>8. EndIsEnd(k)'
  BY <1>1, <1>2 DEF PopenTypeOK, KidInv, AliveIsKnown, UnusedIsClean, CallIsLive, OpenIsKnown, EndIsEnd, AtEnd, AtCall,
     Lives, Prun, Outside, Output
<1> QED
  BY <1>1, <1>3, <1>4, <1>5, <1>6, <1>7, <1>8, OthersKeep DEF KidInv

\* The child is waited for.
LEMMA WaitIInv ==
    ASSUME PopenIInv, NEW k \in Kids, Wait(k)
    PROVE  PopenIInv'
<1> USE PopenAssumption
<1>1. /\ call = [at |-> "wait", of |-> k]
      /\ child' = [child EXCEPT ![k] = "reaped"]
      /\ retval' = [retval EXCEPT ![k] = IF k \in signaled THEN 0 ELSE code[k]]
      /\ alive' = [alive EXCEPT ![k] = FALSE]
      /\ call' = Outside
      /\ success' = IF kind[k] = "popen" THEN success ELSE success \cup {k}
      /\ closed' = IF kind[k] = "popen" THEN closed \cup {k} ELSE closed
      /\ UNCHANGED <<rest, code, signaled, pipe, printed, fds, kind, len, cap, held, short, seen>>
  BY DEF Wait, WaitEnds, Reaped, processes, channels, handle, history
<1>2. PopenTypeOK /\ OneCall /\ KidInv(k)
  BY DEF PopenIInv
<1>3. PopenTypeOK' /\ OneCall'
  BY <1>1, <1>2 DEF PopenTypeOK, OneCall, Outside, Output, Streams
<1>4. \A j \in Kids \ {k} : Same(j)
  BY <1>1, <1>2 DEF PopenTypeOK, Same, AtCall, Outside, OneCall, Output
<1>5. AliveIsKnown(k)' /\ UnusedIsClean(k)' /\ CallIsLive(k)'
  BY <1>1, <1>2 DEF PopenTypeOK, KidInv, AliveIsKnown, UnusedIsClean, CallIsLive, AtCall, Prun, Outside, Output
<1>6. OpenIsKnown(k)'
  BY <1>1, <1>2 DEF PopenTypeOK, KidInv, AliveIsKnown, UnusedIsClean, OpenIsKnown, CallIsLive, AtCall, Prun, Outside, Output
<1>7. UnitsAreKept(k)'
  <2>1. Fits(k)' = Fits(k) /\ AllThere(k)' = AllThere(k) /\ AllTrimmed(k)' = AllTrimmed(k)
    BY <1>1 DEF Fits, AllThere, AllTrimmed
  <2> QED
    BY <1>1, <1>2, <2>1 DEF PopenTypeOK, KidInv, UnitsAreKept, WasCut, AtCall, Prun, OneCall, Outside
<1>8. EndIsEnd(k)'
  BY <1>1, <1>2 DEF PopenTypeOK, KidInv, AliveIsKnown, UnusedIsClean, CallIsLive, OpenIsKnown, EndIsEnd, AtEnd, AtCall,
     Lives, Prun, Outside, Output
<1> QED
  BY <1>1, <1>3, <1>4, <1>5, <1>6, <1>7, <1>8, OthersKeep DEF KidInv

\* The wait fails.
LEMMA WaitFailsIInv ==
    ASSUME PopenIInv, NEW k \in Kids, WaitFails(k)
    PROVE  PopenIInv'
<1> USE PopenAssumption
<1>1. /\ call = [at |-> "wait", of |-> k]
      /\ retval' = [retval EXCEPT ![k] = NoRetval]
      /\ alive' = [alive EXCEPT ![k] = FALSE]
      /\ call' = Outside
      /\ success' = IF kind[k] = "popen" THEN success ELSE success \cup {k}
      /\ closed' = IF kind[k] = "popen" THEN closed \cup {k} ELSE closed
      /\ UNCHANGED <<child, rest, code, signaled, pipe, printed, fds, kind, len, cap, held, short, seen>>
  BY DEF WaitFails, WaitEnds, processes, channels, handle, history
<1>2. PopenTypeOK /\ OneCall /\ KidInv(k)
  BY DEF PopenIInv
<1>3. PopenTypeOK' /\ OneCall'
  BY <1>1, <1>2 DEF PopenTypeOK, OneCall, Outside, NoRetval
<1>4. \A j \in Kids \ {k} : Same(j)
  BY <1>1, <1>2 DEF PopenTypeOK, Same, AtCall, Outside, OneCall, Output
<1>5. AliveIsKnown(k)' /\ UnusedIsClean(k)' /\ CallIsLive(k)'
  BY <1>1, <1>2 DEF PopenTypeOK, KidInv, AliveIsKnown, UnusedIsClean, CallIsLive, AtCall, Prun, Outside, Output
<1>6. OpenIsKnown(k)'
  BY <1>1, <1>2 DEF PopenTypeOK, KidInv, AliveIsKnown, UnusedIsClean, OpenIsKnown, CallIsLive, AtCall, Prun, Outside, Output
<1>7. UnitsAreKept(k)'
  <2>1. Fits(k)' = Fits(k) /\ AllThere(k)' = AllThere(k) /\ AllTrimmed(k)' = AllTrimmed(k)
    BY <1>1 DEF Fits, AllThere, AllTrimmed
  <2> QED
    BY <1>1, <1>2, <2>1 DEF PopenTypeOK, KidInv, UnitsAreKept, WasCut, AtCall, Prun, OneCall, Outside
<1>8. EndIsEnd(k)'
  BY <1>1, <1>2 DEF PopenTypeOK, KidInv, AliveIsKnown, UnusedIsClean, CallIsLive, OpenIsKnown, EndIsEnd, AtEnd, AtCall,
     Lives, Prun, Outside, Output
<1> QED
  BY <1>1, <1>3, <1>4, <1>5, <1>6, <1>7, <1>8, OthersKeep DEF KidInv

\* The end of a child is found by a test.
LEMMA TestRunsIInv ==
    ASSUME PopenIInv, NEW k \in Kids, TestRuns(k)
    PROVE  PopenIInv'
<1> USE PopenAssumption
<1>1. /\ call = Outside /\ kind[k] = "popen" /\ alive[k]
      /\ child' = [child EXCEPT ![k] = "reaped"]
      /\ retval' = [retval EXCEPT ![k] = IF k \in signaled THEN 0 ELSE code[k]]
      /\ alive' = [alive EXCEPT ![k] = FALSE]
      /\ seen' = seen \cup {k}
      /\ UNCHANGED <<rest, code, signaled, pipe, printed, fds, kind, len, cap, held, success, short, closed, call>>
  BY DEF TestRuns, Client, Reaped, processes, channels, handle, history
<1>2. PopenTypeOK /\ OneCall /\ KidInv(k)
  BY DEF PopenIInv
<1>3. PopenTypeOK' /\ OneCall'
  BY <1>1, <1>2 DEF PopenTypeOK, OneCall, Outside, Output, Streams
<1>4. \A j \in Kids \ {k} : Same(j)
  BY <1>1, <1>2 DEF PopenTypeOK, Same, AtCall, Outside, OneCall, Output
<1>5. AliveIsKnown(k)' /\ UnusedIsClean(k)' /\ CallIsLive(k)'
  BY <1>1, <1>2 DEF PopenTypeOK, KidInv, AliveIsKnown, UnusedIsClean, CallIsLive, AtCall, Prun, Outside, Output
<1>6. OpenIsKnown(k)'
  BY <1>1, <1>2 DEF PopenTypeOK, KidInv, AliveIsKnown, UnusedIsClean, OpenIsKnown, CallIsLive, AtCall, Prun, Outside, Output
<1>7. UnitsAreKept(k)'
  <2>1. Fits(k)' = Fits(k) /\ AllThere(k)' = AllThere(k) /\ AllTrimmed(k)' = AllTrimmed(k)
    BY <1>1 DEF Fits, AllThere, AllTrimmed
  <2> QED
    BY <1>1, <1>2, <2>1 DEF PopenTypeOK, KidInv, UnitsAreKept, WasCut, AtCall, Prun, OneCall, Outside
<1>8. EndIsEnd(k)'
  BY <1>1, <1>2 DEF PopenTypeOK, KidInv, AliveIsKnown, UnusedIsClean, CallIsLive, OpenIsKnown, EndIsEnd, AtEnd, AtCall,
     Lives, Prun, Outside, Output
<1> QED
  BY <1>1, <1>3, <1>4, <1>5, <1>6, <1>7, <1>8, OthersKeep DEF KidInv

\* A test fails.
LEMMA TestFailsIInv ==
    ASSUME PopenIInv, NEW k \in Kids, TestFails(k)
    PROVE  PopenIInv'
<1> USE PopenAssumption
<1>1. /\ call = Outside /\ kind[k] = "popen" /\ alive[k]
      /\ alive' = [alive EXCEPT ![k] = FALSE]
      /\ seen' = seen \cup {k}
      /\ UNCHANGED <<child, retval, rest, code, signaled, pipe, printed, fds, kind, len, cap, held, success, short, closed, call>>
  BY DEF TestFails, Client, processes, channels, handle, history
<1>2. PopenTypeOK /\ OneCall /\ KidInv(k)
  BY DEF PopenIInv
<1>3. PopenTypeOK' /\ OneCall'
  BY <1>1, <1>2 DEF PopenTypeOK, OneCall, Outside, Output, Streams
<1>4. \A j \in Kids \ {k} : Same(j)
  BY <1>1, <1>2 DEF PopenTypeOK, Same, AtCall, Outside, OneCall, Output
<1>5. AliveIsKnown(k)' /\ UnusedIsClean(k)' /\ CallIsLive(k)'
  BY <1>1, <1>2 DEF PopenTypeOK, KidInv, AliveIsKnown, UnusedIsClean, CallIsLive, AtCall, Prun, Outside, Output
<1>6. OpenIsKnown(k)'
  BY <1>1, <1>2 DEF PopenTypeOK, KidInv, AliveIsKnown, UnusedIsClean, OpenIsKnown, CallIsLive, AtCall, Prun, Outside, Output
<1>7. UnitsAreKept(k)'
  <2>1. Fits(k)' = Fits(k) /\ AllThere(k)' = AllThere(k) /\ AllTrimmed(k)' = AllTrimmed(k)
    BY <1>1 DEF Fits, AllThere, AllTrimmed
  <2> QED
    BY <1>1, <1>2, <2>1 DEF PopenTypeOK, KidInv, UnitsAreKept, WasCut, AtCall, Prun, OneCall, Outside
<1>8. EndIsEnd(k)'
  BY <1>1, <1>2 DEF PopenTypeOK, KidInv, AliveIsKnown, UnusedIsClean, CallIsLive, OpenIsKnown, EndIsEnd, AtEnd, AtCall,
     Lives, Prun, Outside, Output
<1> QED
  BY <1>1, <1>3, <1>4, <1>5, <1>6, <1>7, <1>8, OthersKeep DEF KidInv

\* A wait begins.
LEMMA StartWaitIInv ==
    ASSUME PopenIInv, NEW k \in Kids, StartWait(k)
    PROVE  PopenIInv'
<1> USE PopenAssumption
<1>1. /\ call = Outside /\ kind[k] = "popen" /\ alive[k]
      /\ call' = [at |-> "close", of |-> k]
      /\ UNCHANGED <<child, rest, code, signaled, pipe, printed, fds, alive, retval, kind, len, cap, held, success, short, seen, closed>>
  BY DEF StartWait, Client, GoOn, processes, channels, handle, history
<1>2. PopenTypeOK /\ OneCall /\ KidInv(k)
  BY DEF PopenIInv
<1>3. PopenTypeOK' /\ OneCall'
  <2>1. k \in Nat
    BY DEF Kids
  <2>2. OneCall' /\ call' \in [at : {"outside", "out", "err", "cut", "close", "wait"}, of : Nat]
    BY <1>1, <2>1 DEF OneCall
  <2> QED
    BY <1>1, <1>2, <2>2 DEF PopenTypeOK
<1>4. \A j \in Kids \ {k} : Same(j)
  BY <1>1, <1>2 DEF PopenTypeOK, Same, AtCall, Outside, OneCall, Output
<1>5. AliveIsKnown(k)' /\ UnusedIsClean(k)' /\ CallIsLive(k)'
  BY <1>1, <1>2 DEF PopenTypeOK, KidInv, AliveIsKnown, UnusedIsClean, CallIsLive, AtCall, Prun, Outside, Output
<1>6. OpenIsKnown(k)'
  BY <1>1, <1>2 DEF PopenTypeOK, KidInv, AliveIsKnown, UnusedIsClean, OpenIsKnown, CallIsLive, AtCall, Prun, Outside, Output
<1>7. UnitsAreKept(k)'
  <2>1. Fits(k)' = Fits(k) /\ AllThere(k)' = AllThere(k) /\ AllTrimmed(k)' = AllTrimmed(k)
    BY <1>1 DEF Fits, AllThere, AllTrimmed
  <2> QED
    BY <1>1, <1>2, <2>1 DEF PopenTypeOK, KidInv, UnitsAreKept, WasCut, AtCall, Prun, OneCall, Outside
<1>8. EndIsEnd(k)'
  BY <1>1, <1>2 DEF PopenTypeOK, KidInv, AliveIsKnown, UnusedIsClean, CallIsLive, OpenIsKnown, EndIsEnd, AtEnd, AtCall,
     Lives, Prun, Outside, Output
<1> QED
  BY <1>1, <1>3, <1>4, <1>5, <1>6, <1>7, <1>8, OthersKeep DEF KidInv

\* A wait for a child that is not alive.
LEMMA WaitAgainIInv ==
    ASSUME PopenIInv, NEW k \in Kids, WaitAgain(k)
    PROVE  PopenIInv'
<1> USE PopenAssumption
<1>1. /\ call = Outside /\ kind[k] = "popen" /\ ~alive[k]
      /\ closed' = closed \cup {k}
      /\ UNCHANGED <<child, rest, code, signaled, pipe, printed, fds, alive, retval, kind, len, cap, held, success, short, seen, call>>
  BY DEF WaitAgain, Client, processes, channels, handle, history
<1>2. PopenTypeOK /\ OneCall /\ KidInv(k)
  BY DEF PopenIInv
<1>3. PopenTypeOK' /\ OneCall'
  BY <1>1, <1>2 DEF PopenTypeOK, OneCall, Outside, Output, Streams
<1>4. \A j \in Kids \ {k} : Same(j)
  BY <1>1, <1>2 DEF PopenTypeOK, Same, AtCall, Outside, OneCall, Output
<1>5. AliveIsKnown(k)' /\ UnusedIsClean(k)' /\ CallIsLive(k)'
  BY <1>1, <1>2 DEF PopenTypeOK, KidInv, AliveIsKnown, UnusedIsClean, CallIsLive, AtCall, Prun, Outside, Output
<1>6. OpenIsKnown(k)'
  BY <1>1, <1>2 DEF PopenTypeOK, KidInv, AliveIsKnown, UnusedIsClean, OpenIsKnown, CallIsLive, AtCall, Prun, Outside, Output
<1>7. UnitsAreKept(k)'
  <2>1. Fits(k)' = Fits(k) /\ AllThere(k)' = AllThere(k) /\ AllTrimmed(k)' = AllTrimmed(k)
    BY <1>1 DEF Fits, AllThere, AllTrimmed
  <2> QED
    BY <1>1, <1>2, <2>1 DEF PopenTypeOK, KidInv, UnitsAreKept, WasCut, AtCall, Prun, OneCall, Outside
<1>8. EndIsEnd(k)'
  BY <1>1, <1>2 DEF PopenTypeOK, KidInv, AliveIsKnown, UnusedIsClean, CallIsLive, OpenIsKnown, EndIsEnd, AtEnd, AtCall,
     Lives, Prun, Outside, Output
<1> QED
  BY <1>1, <1>3, <1>4, <1>5, <1>6, <1>7, <1>8, OthersKeep DEF KidInv

\* A child is killed.
LEMMA KillIInv ==
    ASSUME PopenIInv, NEW k \in Kids, Kill(k)
    PROVE  PopenIInv'
<1> USE PopenAssumption
<1>2. PopenTypeOK /\ OneCall /\ KidInv(k)
  BY DEF PopenIInv
<1>0. child[k] \in {"running", "stopped", "zombie"}
  BY <1>2 DEF KidInv, AliveIsKnown, Kill, Client
<1>1. /\ call = Outside /\ kind[k] = "popen" /\ alive[k]
      /\ \E c \in {"running", "stopped", "zombie"} : child' = [child EXCEPT ![k] = c]
      /\ signaled' \in {signaled, signaled \cup {k}}
      /\ fds' = [fds EXCEPT ![k] = {}]
      /\ call' = [at |-> "wait", of |-> k]
      /\ UNCHANGED <<rest, code, pipe, printed, alive, retval, kind, len, cap, held, success, short, seen, closed>>
  <2>1. /\ \E c \in {"running", "stopped", "zombie"} : child' = [child EXCEPT ![k] = c]
        /\ signaled' \in {signaled, signaled \cup {k}}
    <3>1. child = [child EXCEPT ![k] = child[k]]
      BY <1>2 DEF PopenTypeOK
    <3> QED
      BY <1>0, <3>1 DEF Kill, Ends
  <2> QED
    BY <2>1 DEF Kill, Client, Closed, GoOn, channels, handle, history
<1>3. PopenTypeOK' /\ OneCall'
  <2>1. k \in Nat
    BY DEF Kids
  <2>2. OneCall' /\ call' \in [at : {"outside", "out", "err", "cut", "close", "wait"}, of : Nat]
    BY <1>1, <2>1 DEF OneCall
  <2> QED
    BY <1>1, <1>2, <2>2 DEF PopenTypeOK
<1>9. \A j \in Kids \ {k} : AtCall(j)' = AtCall(j)
  BY <1>1 DEF AtCall, Outside
<1>4. \A j \in Kids \ {k} : Same(j)
  BY <1>1, <1>2, <1>9 DEF PopenTypeOK, Same
<1>5. AliveIsKnown(k)' /\ UnusedIsClean(k)' /\ CallIsLive(k)'
  BY <1>1, <1>2 DEF PopenTypeOK, KidInv, AliveIsKnown, UnusedIsClean, CallIsLive, AtCall, Prun, Outside, Output
<1>6. OpenIsKnown(k)'
  BY <1>1, <1>2 DEF PopenTypeOK, KidInv, AliveIsKnown, UnusedIsClean, OpenIsKnown, CallIsLive, AtCall, Prun, Outside, Output
<1>7. UnitsAreKept(k)'
  <2>1. Fits(k)' = Fits(k) /\ AllThere(k)' = AllThere(k) /\ AllTrimmed(k)' = AllTrimmed(k)
    BY <1>1 DEF Fits, AllThere, AllTrimmed
  <2> QED
    BY <1>1, <1>2, <2>1 DEF PopenTypeOK, KidInv, UnitsAreKept, WasCut, AtCall, Prun, OneCall, Outside
<1>8. EndIsEnd(k)'
  BY <1>1, <1>2 DEF PopenTypeOK, KidInv, AliveIsKnown, UnusedIsClean, CallIsLive, OpenIsKnown, EndIsEnd, AtEnd, AtCall,
     Lives, Prun, Outside, Output
<1> QED
  BY <1>1, <1>3, <1>4, <1>5, <1>6, <1>7, <1>8, OthersKeep DEF KidInv

\* A prun is destroyed.
LEMMA DestroyIInv ==
    ASSUME PopenIInv, NEW k \in Kids, Destroy(k)
    PROVE  PopenIInv'
<1> USE PopenAssumption
<1>1. /\ call = Outside /\ Prun(k)
      /\ held' = IF k \in success THEN [held EXCEPT ![k] = {}] ELSE held
      /\ len' = IF k \in success THEN [len EXCEPT ![k] = None] ELSE len
      /\ closed' = closed \cup {k}
      /\ UNCHANGED <<child, rest, code, signaled, pipe, printed, fds, alive, retval, kind, cap, success, short, seen, call>>
  BY DEF Destroy, Prun, processes, channels, handle, history
<1>2. PopenTypeOK /\ OneCall /\ KidInv(k)
  BY DEF PopenIInv
<1>3. PopenTypeOK' /\ OneCall'
  <2>1. None \in [Output -> Nat]
    BY DEF None, Output
  <2>2. len' \in [Kids -> [Output -> Nat]]
    BY <1>1, <1>2, <2>1 DEF PopenTypeOK
  <2>3. held' \in [Kids -> SUBSET {"cmd", "out", "err"}]
    BY <1>1, <1>2 DEF PopenTypeOK
  <2> QED
    BY <1>1, <1>2, <2>2, <2>3 DEF PopenTypeOK, OneCall
<1>4. \A j \in Kids \ {k} : Same(j)
  BY <1>1, <1>2 DEF PopenTypeOK, Same, AtCall, Outside, OneCall, Output
<1>5. AliveIsKnown(k)' /\ UnusedIsClean(k)' /\ CallIsLive(k)'
  BY <1>1, <1>2 DEF PopenTypeOK, KidInv, AliveIsKnown, UnusedIsClean, CallIsLive, AtCall, Prun, Outside, Output
<1>6. OpenIsKnown(k)'
  BY <1>1, <1>2 DEF PopenTypeOK, KidInv, AliveIsKnown, UnusedIsClean, OpenIsKnown, CallIsLive, AtCall, Prun, Outside, Output
<1>7. UnitsAreKept(k)'
  BY <1>1 DEF UnitsAreKept
<1>8. EndIsEnd(k)'
  BY <1>1, <1>2 DEF PopenTypeOK, KidInv, AliveIsKnown, UnusedIsClean, CallIsLive, OpenIsKnown, EndIsEnd, AtEnd, AtCall,
     Lives, Prun, Outside, Output
<1> QED
  BY <1>1, <1>3, <1>4, <1>5, <1>6, <1>7, <1>8, OthersKeep DEF KidInv
\* A unit more in the pipe is one more that was printed.
LEMMA OneMore ==
    ASSUME NEW l \in Nat, NEW p \in Nat, NEW n \in Nat, NEW p1, NEW n1,
           (p1 = p + 1 /\ n1 = n + 1) \/ (p1 = p /\ n1 = n)
    PROVE  (l + p <= n => l + p1 <= n1) /\ (l + p = n => l + p1 = n1)
  OBVIOUS

\* A child prints a unit that the parent, or another child, could read.
LEMMA ChildPrintsIInv ==
    ASSUME PopenIInv, NEW k \in Kids, NEW s \in {"out", "err"}, ChildPrints(k, s), Open(k, s)
    PROVE  PopenIInv'
<1> USE PopenAssumption
<1>1. /\ child[k] = "running"
      /\ pipe' = [pipe EXCEPT ![k] = [pipe[k] EXCEPT ![s] = pipe[k][s] + 1]]
      /\ printed' = [printed EXCEPT ![k] = [printed[k] EXCEPT ![s] = Append(printed[k][s], Head(rest[k])[2])]]
      /\ rest' = [rest EXCEPT ![k] = Tail(rest[k])] /\ rest[k] # <<>>
      /\ UNCHANGED <<child, code, signaled, fds, alive, retval, kind, len, cap, held, success, short, seen, closed, call>>
  BY DEF ChildPrints, handle, history
<1>2. PopenTypeOK /\ OneCall /\ KidInv(k)
  BY DEF PopenIInv
<1>9. /\ pipe[k] \in [Output -> Nat] /\ printed[k] \in [Output -> Seq(Units)] /\ s \in Output
      /\ pipe[k][s] + 1 \in Nat /\ Append(printed[k][s], Head(rest[k])[2]) \in Seq(Units)
      /\ Len(Append(printed[k][s], Head(rest[k])[2])) = Len(printed[k][s]) + 1
  <2>1. rest[k] \in Seq(Streams \X Units) /\ rest[k] # <<>>
    BY <1>1, <1>2 DEF PopenTypeOK
  <2>2. Head(rest[k]) \in Streams \X Units
    BY <2>1
  <2>3. Head(rest[k])[2] \in Units
    BY <2>2
  <2>4. s \in Output /\ pipe[k] \in [Output -> Nat] /\ printed[k] \in [Output -> Seq(Units)]
    BY <1>2 DEF PopenTypeOK, Output
  <2>5. printed[k][s] \in Seq(Units) /\ pipe[k][s] \in Nat
    BY <2>4
  <2> QED
    BY <2>3, <2>4, <2>5
<1>3. PopenTypeOK' /\ OneCall'
  <2>1. pipe' \in [Kids -> [Output -> Nat]] /\ printed' \in [Kids -> [Output -> Seq(Units)]]
    BY <1>1, <1>2, <1>9 DEF PopenTypeOK
  <2>2. rest' \in [Kids -> Seq(Streams \X Units)]
    <3>1. Tail(rest[k]) \in Seq(Streams \X Units)
      BY <1>1, <1>2 DEF PopenTypeOK
    <3> QED
      BY <1>1, <1>2, <3>1 DEF PopenTypeOK
  <2> QED
    BY <1>1, <1>2, <2>1, <2>2 DEF PopenTypeOK, OneCall
<1>4. \A j \in Kids \ {k} : Same(j)
  BY <1>1, <1>2 DEF PopenTypeOK, Same, AtCall
<1>5. AliveIsKnown(k)' /\ UnusedIsClean(k)' /\ CallIsLive(k)'
  <2>1. kind[k] # "unused"
    BY <1>1, <1>2 DEF KidInv, UnusedIsClean
  <2> QED
    BY <1>1, <1>2, <2>1 DEF KidInv, AliveIsKnown, UnusedIsClean, CallIsLive, AtCall, Prun
<1>6. OpenIsKnown(k)'
  BY <1>1, <1>2, <1>9 DEF PopenTypeOK, KidInv, AliveIsKnown, UnusedIsClean, OpenIsKnown, CallIsLive, AtCall, Prun, Outside, Output
<1>7. UnitsAreKept(k)'
  <2>1. /\ pipe'[k] = [pipe[k] EXCEPT ![s] = pipe[k][s] + 1]
        /\ printed'[k] = [printed[k] EXCEPT ![s] = Append(printed[k][s], Head(rest[k])[2])]
    BY <1>1, <1>2 DEF PopenTypeOK
  <2>2. \A z \in Output : /\ len[k][z] \in Nat /\ pipe[k][z] \in Nat /\ Len(printed[k][z]) \in Nat
                          /\ cap[k][z] \in Nat
    BY <1>2, <1>9 DEF PopenTypeOK
  <2>3. \A z \in Output :
            /\ pipe'[k][z] = IF z = s THEN pipe[k][z] + 1 ELSE pipe[k][z]
            /\ Len(printed'[k][z]) = IF z = s THEN Len(printed[k][z]) + 1 ELSE Len(printed[k][z])
            /\ len'[k][z] = len[k][z] /\ cap'[k][z] = cap[k][z]
    <3> TAKE z \in Output
    <3>1. CASE z = s
      BY <1>1, <1>9, <2>1, <3>1
    <3>2. CASE z # s
      BY <1>1, <1>9, <2>1, <3>2
    <3> QED
      BY <3>1, <3>2
  <2>7. \A z \in Output :
            /\ (len[k][z] + pipe[k][z] <= Len(printed[k][z])
                    => len[k][z] + pipe'[k][z] <= Len(printed'[k][z]))
            /\ (len[k][z] + pipe[k][z] = Len(printed[k][z])
                    => len[k][z] + pipe'[k][z] = Len(printed'[k][z]))
    <3> TAKE z \in Output
    <3> DEFINE l == len[k][z]
               p == pipe[k][z]
               n == Len(printed[k][z])
               p1 == pipe'[k][z]
               n1 == Len(printed'[k][z])
    <3>1. l \in Nat /\ p \in Nat /\ n \in Nat
      BY <2>2
    <3>2. (p1 = p + 1 /\ n1 = n + 1) \/ (p1 = p /\ n1 = n)
      BY <2>3
    <3> HIDE DEF l, p, n, p1, n1
    <3>3. (l + p <= n => l + p1 <= n1) /\ (l + p = n => l + p1 = n1)
      BY ONLY <3>1, <3>2, OneMore
    <3> QED
      BY <3>3 DEF l, p, n, p1, n1
  <2>8. ASSUME Fits(k) PROVE Fits(k)'
    BY <2>3, <2>7, <2>8 DEF Fits
  <2>9. ASSUME AllThere(k) PROVE AllThere(k)'
    BY <2>3, <2>7, <2>9 DEF AllThere
  <2>4. (Fits(k) => Fits(k)') /\ (AllThere(k) => AllThere(k)')
    BY <2>8, <2>9
  <2>5. WasCut(k)' = WasCut(k) /\ (k \in short' <=> k \in short)
    BY <1>1 DEF WasCut, Prun, AtCall
  <2>6. WasCut(k) => k \in short
    BY <1>1, <1>2 DEF KidInv, EndIsEnd, WasCut, AtEnd, Output, Lives
  <2> QED
    BY <1>1, <1>2, <2>4, <2>5, <2>6 DEF KidInv, UnitsAreKept
<1>8. EndIsEnd(k)'
  BY <1>1, <1>2, <1>9 DEF PopenTypeOK, KidInv, AliveIsKnown, UnusedIsClean, CallIsLive, OpenIsKnown, EndIsEnd, AtEnd, AtCall,
     Lives, Prun, Outside, Output
<1> QED
  BY <1>1, <1>3, <1>4, <1>5, <1>6, <1>7, <1>8, OthersKeep DEF KidInv

\* A child that nobody can hear any more dies when it prints.
LEMMA ChildIsUnheardIInv ==
    ASSUME PopenIInv, NEW k \in Kids, NEW s \in {"out", "err"}, ChildPrints(k, s), ~Open(k, s)
    PROVE  PopenIInv'
<1> USE PopenAssumption
<1>1. /\ child[k] = "running" /\ s \notin fds[k]
      /\ child' = [child EXCEPT ![k] = "zombie"]
      /\ signaled' = signaled \cup {k}
      /\ UNCHANGED <<rest, code, pipe, printed, fds, alive, retval, kind, len, cap, held, success, short, seen, closed, call>>
  BY DEF ChildPrints, Ends, Open, handle, history
<1>2. PopenTypeOK /\ OneCall /\ KidInv(k)
  BY DEF PopenIInv
<1>9. Prun(k) => AtCall(k) = "wait" \/ k \in success
  BY <1>1, <1>2 DEF KidInv, AliveIsKnown, OpenIsKnown, Streams
<1>3. PopenTypeOK' /\ OneCall'
  BY <1>1, <1>2 DEF PopenTypeOK, OneCall
<1>4. \A j \in Kids \ {k} : Same(j)
  BY <1>1, <1>2 DEF PopenTypeOK, Same, AtCall
<1>5. AliveIsKnown(k)' /\ UnusedIsClean(k)' /\ CallIsLive(k)'
  BY <1>1, <1>2 DEF PopenTypeOK, KidInv, AliveIsKnown, UnusedIsClean, CallIsLive, AtCall, Prun, Outside, Output
<1>6. OpenIsKnown(k)'
  BY <1>1, <1>2 DEF PopenTypeOK, KidInv, AliveIsKnown, UnusedIsClean, OpenIsKnown, CallIsLive, AtCall, Prun, Outside, Output
<1>7. UnitsAreKept(k)'
  <2>1. Fits(k)' = Fits(k) /\ AllThere(k)' = AllThere(k) /\ AllTrimmed(k)' = AllTrimmed(k)
    BY <1>1 DEF Fits, AllThere, AllTrimmed
  <2> QED
    BY <1>1, <1>2, <2>1 DEF PopenTypeOK, KidInv, UnitsAreKept, WasCut, AtCall, Prun, OneCall, Outside
<1>8. EndIsEnd(k)'
  BY <1>1, <1>2, <1>9 DEF PopenTypeOK, KidInv, AliveIsKnown, UnusedIsClean, CallIsLive, OpenIsKnown, EndIsEnd, AtEnd, AtCall,
     Lives, Prun, Outside, Output
<1> QED
  BY <1>1, <1>3, <1>4, <1>5, <1>6, <1>7, <1>8, OthersKeep DEF KidInv

\* A child is created.
LEMMA CreateIInv ==
    ASSUME PopenIInv, NEW k \in Kids, NEW p \in Programs, NEW how \in {"popen", "prun", "prun2"},
           Create(k, p, how)
    PROVE  PopenIInv'
<1> USE PopenAssumption
<1>0. PICK b \in {0, Buffer} :
          cap' = [cap EXCEPT ![k] = [s \in {"out", "err"} |->
                     IF how # "prun" THEN 0 ELSE IF s = "out" THEN Buffer ELSE b]]
  BY DEF Create
<1>1. /\ call = Outside /\ kind[k] = "unused"
      /\ kind' = [kind EXCEPT ![k] = how]
      /\ child' = [child EXCEPT ![k] = "running"]
      /\ rest' = [rest EXCEPT ![k] = p]
      /\ fds' = [fds EXCEPT ![k] = Streams]
      /\ alive' = [alive EXCEPT ![k] = TRUE]
      /\ held' = [held EXCEPT ![k] = IF how = "prun2" THEN {"cmd"} ELSE {}]
      /\ call' = IF how = "popen" THEN call ELSE [at |-> "out", of |-> k]
      /\ UNCHANGED <<code, signaled, pipe, printed, retval, len, success, short, seen, closed>>
  BY FreshIsUnused DEF Create, GoOn, history
<1>2. PopenTypeOK /\ OneCall /\ KidInv(k)
  BY DEF PopenIInv
<1>9. cap' \in [Kids -> [Output -> Nat]] /\ cap'[k] \in [Output -> Nat]
      /\ \A j \in Kids \ {k} : cap'[j] = cap[j]
  <2> DEFINE c == [s \in {"out", "err"} |-> IF how # "prun" THEN 0 ELSE IF s = "out" THEN Buffer ELSE b]
  <2>1. c \in [Output -> Nat]
    BY DEF Output
  <2>2. cap' = [cap EXCEPT ![k] = c]
    BY <1>0
  <2> HIDE DEF c
  <2> QED
    BY <1>2, <2>1, <2>2 DEF PopenTypeOK
<1>3. PopenTypeOK' /\ OneCall'
  <2>1. k \in Nat
    BY DEF Kids
  <2>2. OneCall' /\ call' \in [at : {"outside", "out", "err", "cut", "close", "wait"}, of : Nat]
    BY <1>1, <1>2, <2>1 DEF PopenTypeOK, OneCall
  <2>3. held' \in [Kids -> SUBSET {"cmd", "out", "err"}]
    BY <1>1, <1>2 DEF PopenTypeOK
  <2> QED
    BY <1>1, <1>2, <1>9, <2>2, <2>3 DEF PopenTypeOK
<1>10. AtCall(k)' = (IF how = "popen" THEN "outside" ELSE "out") /\ AtCall(k) = "outside"
  BY <1>1 DEF AtCall, Outside
<1>4. \A j \in Kids \ {k} : Same(j)
  <2>1. \A j \in Kids \ {k} : AtCall(j)' = AtCall(j)
    BY <1>1 DEF AtCall, Outside
  <2> QED
    BY <1>1, <1>2, <1>9, <2>1 DEF PopenTypeOK, Same
<1>5. AliveIsKnown(k)' /\ UnusedIsClean(k)' /\ CallIsLive(k)'
  BY <1>1, <1>2, <1>10 DEF PopenTypeOK, KidInv, AliveIsKnown, UnusedIsClean, CallIsLive, Prun, Outside, Output
<1>6. OpenIsKnown(k)'
  BY <1>1, <1>2, <1>10 DEF PopenTypeOK, KidInv, AliveIsKnown, UnusedIsClean, OpenIsKnown, CallIsLive, Prun, Outside, Output
<1>7. UnitsAreKept(k)'
  <2>1. ASSUME NEW r \in Output PROVE (len[k][r] = 0 /\ pipe[k][r] = 0 /\ printed[k][r] = <<>>)'
    BY <1>1, <1>2 DEF KidInv, UnusedIsClean
  <2>2. \A r \in Output : cap'[k][r] \in Nat
    BY <1>9
  <2>3. Fits(k)' /\ AllThere(k)'
    BY <2>1, <2>2 DEF Fits, AllThere
  <2>4. ~WasCut(k)'
    BY <1>1, <1>2, <1>10 DEF WasCut, KidInv, AliveIsKnown, UnusedIsClean
  <2> QED
    BY <2>3, <2>4 DEF UnitsAreKept
<1>8. EndIsEnd(k)'
  BY <1>1, <1>2, <1>10 DEF PopenTypeOK, KidInv, AliveIsKnown, UnusedIsClean, CallIsLive, OpenIsKnown, EndIsEnd, AtEnd,
     Lives, Prun, Outside, Output
<1> QED
  BY <1>1, <1>3, <1>4, <1>5, <1>6, <1>7, <1>8, OthersKeep DEF KidInv

\* What is in the pipe is read, up to the size of the buffer.
LEMMA ReadIInv ==
    ASSUME PopenIInv, NEW k \in Kids, NEW s \in {"out", "err"}, Read(k, s)
    PROVE  PopenIInv'
<1> USE PopenAssumption
<1>2. PopenTypeOK /\ OneCall /\ KidInv(k)
  BY DEF PopenIInv
<1>9. /\ pipe[k] \in [Output -> Nat] /\ len[k] \in [Output -> Nat] /\ cap[k] \in [Output -> Nat]
      /\ s \in Output
  BY <1>2 DEF PopenTypeOK, Output
<1>1. PICK n \in Nat :
      /\ n <= pipe[k][s] /\ len[k][s] + n <= cap[k][s]
      /\ call = [at |-> s, of |-> k]
      /\ len' = [len EXCEPT ![k] = [len[k] EXCEPT ![s] = len[k][s] + n]]
      /\ pipe' = [pipe EXCEPT ![k] = [pipe[k] EXCEPT ![s] = pipe[k][s] - n]]
      /\ UNCHANGED <<child, rest, code, signaled, printed, fds, alive, retval, kind, cap, held, success, short, seen, closed, call>>
  <2> DEFINE room == cap[k][s] - len[k][s] - 1
             n == IF pipe[k][s] < room THEN pipe[k][s] ELSE room
  <2>1. n \in Nat /\ n <= pipe[k][s] /\ len[k][s] + n <= cap[k][s]
    BY <1>9 DEF Read, Full
  <2>2. /\ len' = [len EXCEPT ![k] = [len[k] EXCEPT ![s] = len[k][s] + n]]
        /\ pipe' = [pipe EXCEPT ![k] = [pipe[k] EXCEPT ![s] = pipe[k][s] - n]]
    BY DEF Read
  <2>3. /\ call = [at |-> s, of |-> k]
        /\ UNCHANGED <<child, rest, code, signaled, printed, fds, alive, retval, kind, cap, held, success, short, seen, closed, call>>
    BY DEF Read, processes, history
  <2> HIDE DEF n
  <2> QED
    BY <2>1, <2>2, <2>3
<1>10. len[k][s] + n \in Nat /\ pipe[k][s] - n \in Nat
  BY <1>1, <1>9
<1>3. PopenTypeOK' /\ OneCall'
  <2>1. len' \in [Kids -> [Output -> Nat]] /\ pipe' \in [Kids -> [Output -> Nat]]
    BY <1>1, <1>2, <1>9, <1>10 DEF PopenTypeOK
  <2> QED
    BY <1>1, <1>2, <2>1 DEF PopenTypeOK, OneCall
<1>4. \A j \in Kids \ {k} : Same(j)
  BY <1>1, <1>2 DEF PopenTypeOK, Same, AtCall
<1>5. AliveIsKnown(k)' /\ UnusedIsClean(k)' /\ CallIsLive(k)'
  BY <1>1, <1>2, <1>9 DEF PopenTypeOK, KidInv, AliveIsKnown, UnusedIsClean, CallIsLive, AtCall, Prun, Outside, Output
<1>6. OpenIsKnown(k)'
  BY <1>1, <1>2, <1>9 DEF PopenTypeOK, KidInv, AliveIsKnown, UnusedIsClean, OpenIsKnown, CallIsLive, AtCall, Prun, Outside, Output
<1>7. UnitsAreKept(k)'
  <2>1. /\ pipe'[k] = [pipe[k] EXCEPT ![s] = pipe[k][s] - n]
        /\ len'[k] = [len[k] EXCEPT ![s] = len[k][s] + n]
    BY <1>1, <1>2 DEF PopenTypeOK
  <2>2. \A z \in Output : /\ len[k][z] \in Nat /\ pipe[k][z] \in Nat /\ Len(printed[k][z]) \in Nat
                          /\ cap[k][z] \in Nat
    BY <1>2, <1>9 DEF PopenTypeOK
  <2>3. \A z \in Output :
            /\ pipe'[k][z] = IF z = s THEN pipe[k][z] - n ELSE pipe[k][z]
            /\ len'[k][z] = IF z = s THEN len[k][z] + n ELSE len[k][z]
            /\ printed'[k][z] = printed[k][z] /\ cap'[k][z] = cap[k][z]
    BY <1>1, <1>9, <2>1
  <2>4. (Fits(k) => Fits(k)') /\ (AllThere(k) => AllThere(k)')
    BY <1>1, <2>2, <2>3 DEF Fits, AllThere
  <2>5. ~WasCut(k) /\ ~WasCut(k)'
    BY <1>1, <1>2 DEF WasCut, Prun, AtCall, KidInv, AliveIsKnown, CallIsLive
  <2> QED
    BY <1>1, <1>2, <2>4, <2>5 DEF KidInv, UnitsAreKept
<1>8. EndIsEnd(k)'
  BY <1>1, <1>2, <1>9 DEF PopenTypeOK, KidInv, AliveIsKnown, UnusedIsClean, CallIsLive, OpenIsKnown, EndIsEnd, AtEnd, AtCall,
     Lives, Prun, Outside, Output
<1> QED
  BY <1>1, <1>3, <1>4, <1>5, <1>6, <1>7, <1>8, OthersKeep DEF KidInv

-----------------------------------------------------------------------------
\* Every step keeps the invariant.
LEMMA PopenNextIInv ==
    ASSUME PopenIInv, [PopenNext]_popenVars
    PROVE  PopenIInv'
<1>1. CASE UNCHANGED popenVars
  <2>1. UNCHANGED <<child, rest, code, signaled, pipe, printed, fds, alive, retval, kind, len, cap, held,
                    success, short, seen, closed, call>>
    BY <1>1 DEF popenVars, processes, channels, handle, history
  <2> QED
    BY <2>1 DEF PopenIInv, PopenTypeOK, OneCall, KidInv, AliveIsKnown, UnusedIsClean, CallIsLive, OpenIsKnown,
       UnitsAreKept, Fits, AllThere, AllTrimmed, WasCut, EndIsEnd, AtEnd, AtCall, Lives, Prun
<1>2. CASE PopenNext
  <2>1. PICK k \in Kids :
            \/ \E p \in Programs, how \in {"popen", "prun", "prun2"} : Create(k, p, how)
            \/ \E how \in {"popen", "prun", "prun2"} : CreateFails(k, how)
            \/ Child(k) \/ Parent(k) \/ Fails(k)
            \/ TestRuns(k) \/ StartWait(k) \/ WaitAgain(k) \/ Kill(k) \/ Destroy(k)
    BY <1>2 DEF PopenNext
  <2>2. CASE \E p \in Programs, how \in {"popen", "prun", "prun2"} : Create(k, p, how)
    BY <2>2, CreateIInv
  <2>3. CASE \E how \in {"popen", "prun", "prun2"} : CreateFails(k, how)
    BY <2>3, CreateFailsIInv
  <2>4. CASE Child(k)
    BY <2>4, ChildPrintsIInv, ChildIsUnheardIInv, ChildReadsIInv, ChildExitsIInv DEF Child
  <2>5. CASE Parent(k)
    BY <2>5, ReadIInv, ReadEndsIInv, ReadGrowsIInv, ReadStopsIInv, CutIInv, CloseIInv, WaitIInv DEF Parent
  <2>7. CASE Fails(k)
    BY <2>7, TestFailsIInv, WaitFailsIInv, ReadFailsIInv DEF Fails
  <2>6. CASE TestRuns(k) \/ StartWait(k) \/ WaitAgain(k) \/ Kill(k) \/ Destroy(k)
    BY <2>6, TestRunsIInv, StartWaitIInv, WaitAgainIInv, KillIInv, DestroyIInv
  <2> QED
    BY <2>1, <2>2, <2>3, <2>4, <2>5, <2>6, <2>7
<1> QED
  BY <1>1, <1>2

\* The invariant the other theorems rest on holds in every state.
THEOREM PopenIInvHolds == PopenSpec => []PopenIInv
<1>1. PopenInit => PopenIInv
  BY PopenInitIInv
<1>2. PopenIInv /\ [PopenNext]_popenVars => PopenIInv'
  BY PopenNextIInv
<1> QED
  BY <1>1, <1>2, PTL DEF PopenSpec

\* A wait, a kill and the destruction of a prun (os.c) leave no descriptor, unless
\* a test came before, no child but one that retval = -1 tells of, and no memory
\* but the command of a prun that could not start, whatever the child did and
\* whichever read or wait failed.
THEOREM CleanUpIsComplete == PopenSpec => []CleanedUp
<1>1. PopenIInv => CleanedUp
  <2> SUFFICES ASSUME PopenIInv, NEW k \in closed
               PROVE  /\ k \notin seen => fds[k] = {}
                      /\ child[k] = "reaped" \/ retval[k] = NoRetval
                      /\ held[k] \subseteq IF kind[k] = "popen" \/ k \in success THEN {} ELSE {"cmd"}
    BY DEF CleanedUp
  <2>1. k \in Kids
    BY DEF PopenIInv, PopenTypeOK
  <2>2. PopenTypeOK /\ KidInv(k)
    BY <2>1 DEF PopenIInv
  <2>3. ~alive[k] /\ (child[k] = "reaped" \/ retval[k] = NoRetval)
    BY <2>2 DEF KidInv, AliveIsKnown
  <2>4. k \notin seen => fds[k] = {}
    BY <2>2, <2>3 DEF KidInv, OpenIsKnown
  <2>5. held[k] \subseteq IF kind[k] = "popen" \/ k \in success THEN {} ELSE {"cmd"}
    BY <2>1, <2>2, <2>3 DEF PopenTypeOK, KidInv, OpenIsKnown, Prun
  <2> QED
    BY <2>3, <2>4, <2>5
<1> QED
  BY <1>1, PopenIInvHolds, PTL

\* What mys_prun_create (os.c) hands out is what the child printed, but for the
\* newlines at its end, with the code that the child ended with or the -1 of a
\* failed wait; it is less only if a buffer was full or a read failed.
THEOREM CapturedIsPrinted == PopenSpec => []OutputIsCaptured
<1>1. PopenIInv => OutputIsCaptured
  <2> SUFFICES ASSUME PopenIInv, NEW k \in success \ closed
               PROVE  /\ \A s \in {"out", "err"} : len[k][s] <= Len(printed[k][s]) /\ len[k][s] <= cap[k][s]
                      /\ k \notin short =>
                             /\ \A s \in {"out", "err"} :
                                    Trims(printed[k][s], Len(printed[k][s]), len[k][s])
                             /\ k \notin signaled
                             /\ retval[k] \in {code[k], NoRetval}
    BY DEF OutputIsCaptured
  <2>1. k \in Kids
    BY DEF PopenIInv, PopenTypeOK
  <2>2. PopenTypeOK /\ KidInv(k)
    BY <2>1 DEF PopenIInv
  <2>3. Fits(k) /\ Prun(k) /\ (k \notin short => AllTrimmed(k))
    BY <2>2 DEF KidInv, OpenIsKnown, UnitsAreKept, WasCut
  <2>4. \A s \in Output : /\ len[k][s] \in Nat /\ pipe[k][s] \in Nat
                          /\ Len(printed[k][s]) \in Nat /\ cap[k][s] \in Nat
    BY <2>1, <2>2 DEF PopenTypeOK
  <2>5. \A s \in Output : len[k][s] <= Len(printed[k][s]) /\ len[k][s] <= cap[k][s]
    BY <2>3, <2>4 DEF Fits
  <2>6. k \notin short => k \notin signaled /\ retval[k] \in {code[k], NoRetval}
    BY <2>2, <2>3 DEF KidInv, EndIsEnd
  <2> QED
    BY <2>3, <2>5, <2>6 DEF Output, AllTrimmed
<1> QED
  BY <1>1, PopenIInvHolds, PTL
=============================================================================
