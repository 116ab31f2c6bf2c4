------------------------------- MODULE Format -------------------------------
(***************************************************************************)
(* The formatter, src/include/mys/impl/format.c: an expression is compiled *)
(* into runs, each a text to copy or a pass to call with its spec, and the *)
(* runs are applied one after the other.  A text is a sequence of          *)
(* characters.                                                             *)
(***************************************************************************)
EXTENDS Integers, Sequences, SequencesExt

CONSTANT BufferSize   \* 32: the bytes for a name or a spec, with the zero

MaxPasses == 8        \* MYS_FORMATER_MAX_PASSES

\* mys_fmter_register_pass, for one name after the other; those beyond the
\* maximum are dropped.  A pass is named by its place among the calls.
Registered(names) == SubSeq(names, 1, IF Len(names) < MaxPasses THEN Len(names) ELSE MaxPasses)

\* The pass of a name: the first that was registered with it, or 0.
PassOf(passes, name) ==
    LET same == {k \in DOMAIN passes : passes[k] = name}
    IN IF same = {} THEN 0 ELSE CHOOSE k \in same : \A j \in same : k <= j

\* strchr from p, or 0.
Find(s, p, c) ==
    LET at == {k \in p .. Len(s) : s[k] = c}
    IN IF at = {} THEN 0 ELSE CHOOSE k \in at : \A j \in at : k <= j

Copy(s, p, n) == [pass |-> 0, spec |-> SubSeq(s, p, p + n - 1)]

\* How much is copied from p on, or 0 when a pass starts there.
LiteralLen(s, p) ==
    LET left  == Find(s, p, "{")
        right == Find(s, p, "}")
        next  == Find(s, p + 1, "{")
    IN IF left = 0 THEN Len(s) - p + 1
       ELSE IF left > p THEN left - p
       ELSE IF right = 0 THEN Len(s) - p + 1
       ELSE IF next # 0 /\ next < right THEN next - left
       ELSE 0

\* The pass between the brace at p and the one that closes it, cut at a colon.
\* Its name and its spec are copied into two buffers without a look at their
\* size: this is what the code does with those that fit (InBuffers).
PassAt(s, p) ==
    LET right == Find(s, p, "}")
        colon == Find(s, p, ":")
        cut   == IF colon # 0 /\ colon < right THEN colon ELSE right
    IN [name |-> SubSeq(s, p + 1, cut - 1), spec |-> SubSeq(s, cut + 1, right - 1),
        next |-> right + 1]

\* mys_fmter_compile.
Compile(passes, s) ==
    LET from[p \in 1 .. Len(s) + 1] ==
            LET n == LiteralLen(s, p)
                call == PassAt(s, p)
                pass == PassOf(passes, call.name)
            IN IF p > Len(s) THEN <<>>
               ELSE IF n > 0 THEN <<Copy(s, p, n)>> \o from[p + n]
               ELSE IF pass # 0 THEN <<[pass |-> pass, spec |-> call.spec]>> \o from[call.next]
               ELSE from[call.next]
    IN from[1]

\* mys_fmtex_apply: the characters and the calls, in order.
Apply(runs) ==
    FoldLeft(LAMBDA out, run : out \o (IF run.pass = 0 THEN run.spec ELSE <<run>>), <<>>, runs)

-----------------------------------------------------------------------------
\* The calls of an expression, without a pass over it: a brace, characters
\* that are no braces, and a closing brace.
Calls(s) == {c \in (1 .. Len(s)) \X (1 .. Len(s)) :
                /\ c[1] < c[2] /\ s[c[1]] = "{" /\ s[c[2]] = "}"
                /\ \A k \in c[1] + 1 .. c[2] - 1 : s[k] \notin {"{", "}"}}

Meaning(passes, s) ==
    LET item(k) ==
            IF \E c \in Calls(s) : c[1] = k
            THEN LET pass == PassOf(passes, PassAt(s, k).name)
                 IN IF pass = 0 THEN <<>> ELSE <<[pass |-> pass, spec |-> PassAt(s, k).spec]>>
            ELSE IF \E c \in Calls(s) : k \in c[1] .. c[2] THEN <<>>
            ELSE <<s[k]>>
    IN FoldLeft(LAMBDA out, k : out \o item(k), <<>>, [k \in 1 .. Len(s) |-> k])

\* The name and the spec of every call fit into their buffers, also those of a
\* pass that is not registered.
InBuffers(s) == \A c \in Calls(s) :
    Len(PassAt(s, c[1]).name) < BufferSize /\ Len(PassAt(s, c[1]).spec) < BufferSize

\* Every character outside of a call is printed once and in order, also next
\* to braces that do not match; calls of a pass that is registered are made
\* with the spec they were written with, and others leave nothing.
FormatExact(names, s) ==
    InBuffers(s) => Apply(Compile(Registered(names), s)) = Meaning(Registered(names), s)

\* What mys_fmter_compile charges for the specs and mys_fmtex_free gives back:
\* the zero behind each is not given back, and in debug mode the arena aborts.
SpecsCharged(runs) == FoldLeft(LAMBDA sum, run : sum + Len(run.spec) + 1, 0, runs)
SpecsFreed(runs) == FoldLeft(LAMBDA sum, run : sum + Len(run.spec), 0, runs)
AccountCloses(names, s) ==
    LET runs == Compile(Registered(names), s) IN SpecsFreed(runs) = SpecsCharged(runs)
=============================================================================
