------------------------------ MODULE EventLog ------------------------------
(***************************************************************************)
(* What a mys_trace_t promises: a log of events that only grows, and one   *)
(* reader at a time that sees the events in the order they were logged and *)
(* stops after the last one, also when events are logged while it reads.   *)
(***************************************************************************)
EXTENDS Naturals, Sequences

CONSTANTS Events, Nothing

VARIABLES state,  \* "none", "live", "gone" (destroyed) or "lost"
          log,
          pos,    \* the position of the reader in the log, or 0
          seen    \* the event the reader sees, or Nothing

vars == <<state, log, pos, seen>>

Init == state = "none" /\ log = <<>> /\ pos = 0 /\ seen = Nothing

Create == state = "none" /\ state' = "live" /\ UNCHANGED <<log, pos, seen>>

LogEvent(e) == /\ state = "live"
               /\ log' = Append(log, e)
               /\ UNCHANGED <<state, pos, seen>>

ReadAt(p) == p \in DOMAIN log /\ pos' = p /\ seen' = log[p]
Stop      == pos' = 0 /\ seen' = Nothing

\* The first event, if there is one.
Start == state = "live" /\ pos = 0 /\ ReadAt(1) /\ UNCHANGED <<state, log>>

\* The next event, and nothing only after the last one.
Read == /\ state = "live" /\ pos # 0
        /\ ReadAt(pos + 1) \/ (pos = Len(log) /\ Stop)
        /\ UNCHANGED <<state, log>>

Interrupt == state = "live" /\ pos # 0 /\ Stop /\ UNCHANGED <<state, log>>

\* The log is destroyed, or (out of memory) lost.
End(s) == /\ state = "live" /\ state' = s
          /\ log' = <<>> /\ Stop

Next == Create \/ (\E e \in Events : LogEvent(e)) \/ Start \/ Read \/ Interrupt
        \/ End("gone") \/ End("lost")

Spec == Init /\ [][Next]_vars
=============================================================================
