-------------------------------- MODULE Guard -------------------------------
(***************************************************************************)
(* Type guards, src/include/mys/impl/guard.c: G_BEGIN remembers the bytes  *)
(* of a variable under the name of its type, G_END forgets them and ends   *)
(* the process when there is nothing to forget.  A type's node counts its  *)
(* records and is removed when the count is zero.                          *)
(***************************************************************************)
EXTENDS Integers, Sequences

CONSTANTS Types,      \* names of types
          Values,     \* what a variable can hold
          Word,       \* number of values of size_t
          MaxOpen,    \* bound: guards of one type that are open
          Equal       \* whether equal variables are guarded at a time

\* What a configuration must give.
GuardAssumption == /\ MaxOpen \in Nat /\ Word \in Nat /\ MaxOpen < Word
                   /\ Equal \in BOOLEAN

VARIABLES
    node,        \* node[t]: whether the map has a node of the type
    num_record,  \* num_record[t], when it has
    records,     \* records[t]: the values, oldest first
    open,        \* open[t]: what the caller has begun and not ended, in order
    phase        \* "running", or "exited" by exit(1)

vars == <<node, num_record, records, open, phase>>

Init == /\ node = [t \in Types |-> FALSE]
        /\ num_record = [t \in Types |-> 0]
        /\ records = [t \in Types |-> <<>>]
        /\ open = [t \in Types |-> <<>>]
        /\ phase = "running"

Holds(s, v) == \E k \in DOMAIN s : s[k] = v

\* mys_guard_begin, with the insertion of the node.
Begin(t, v) ==
    /\ phase = "running"
    /\ Len(open[t]) < MaxOpen
    /\ Equal \/ ~Holds(open[t], v)
    /\ node' = [node EXCEPT ![t] = TRUE]
    /\ num_record' = [num_record EXCEPT ![t] = (IF node[t] THEN @ ELSE 0) + 1]
    /\ records' = [records EXCEPT ![t] = Append(IF node[t] THEN @ ELSE <<>>, v)]
    /\ open' = [open EXCEPT ![t] = Append(@, v)]
    /\ UNCHANGED phase

\* Mutant of Without: only the record at the head is looked at.
WithoutHead(s, v) == IF s # <<>> /\ Head(s) = v THEN Tail(s) ELSE s

\* _mys_guard_records_remove takes out every record with these bytes.
Without(s, v) ==
    LET kept[k \in 0 .. Len(s)] ==
            IF k = 0 THEN <<>>
            ELSE IF s[k] = v THEN kept[k - 1] ELSE Append(kept[k - 1], s[k])
    IN  kept[Len(s)]

\* What is open when the first guard that holds v is closed.
Closed(s, v) ==
    LET k == CHOOSE k \in DOMAIN s : s[k] = v /\ \A j \in 1 .. k - 1 : s[j] # v
    IN  SubSeq(s, 1, k - 1) \o SubSeq(s, k + 1, Len(s))

Found(t, v) == node[t] /\ Holds(records[t], v)

\* mys_guard_end of a variable that was begun, or never was, or was changed.
\* The records of a node that is removed are freed with it.
End(t, v) ==
    /\ phase = "running"
    /\ IF Found(t, v)
       THEN LET left == (num_record[t] + Word - 1) % Word
            IN /\ num_record' = [num_record EXCEPT ![t] = left]
               /\ node' = [node EXCEPT ![t] = left # 0]
               /\ records' = [records EXCEPT ![t] = IF left = 0 THEN <<>> ELSE Without(@, v)]
               /\ open' = [open EXCEPT ![t] = Closed(@, v)]
               /\ UNCHANGED phase
       ELSE /\ phase' = "exited"
            /\ UNCHANGED <<node, num_record, records, open>>

Next == \E t \in Types, v \in Values : Begin(t, v) \/ End(t, v)
Spec == Init /\ [][Next]_vars

-----------------------------------------------------------------------------
\* What is remembered is what is open, so that the process is ended by the end
\* of a guard that was not begun and by no other, and a type of which nothing
\* is open has no node any more.
GuardExact ==
    /\ \A t \in Types :
         /\ records[t] = open[t]
         /\ node[t] <=> open[t] # <<>>
         /\ node[t] => num_record[t] = Len(open[t])

=============================================================================
