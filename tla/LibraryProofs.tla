---------------------------- MODULE LibraryProofs ----------------------------
(***************************************************************************)
(* Proofs about the parts that Library runs: for any values of the         *)
(* constants that LibraryAssumption allows, the invariants that the run of *)
(* Library checks on a small instance hold in every state.                 *)
(*                                                                         *)
(* Each part has an invariant of its own.  A step of Library is a step of  *)
(* one part and leaves the others as they are (StepsOfParts), so every     *)
(* section proves that the part's initial states satisfy its invariant and *)
(* that each of its actions keeps it.                                      *)
(***************************************************************************)
EXTENDS Library, FunctionProofs

-----------------------------------------------------------------------------
\* y follows x in xy.
Follows(xy, x, y, a, c, elems) ==
    /\ xy \in Seq(elems) /\ Len(xy) = a + c
    /\ \A k \in 1 .. a : xy[k] = x[k]
    /\ \A k \in 1 .. c : xy[a + k] = y[k]

\* So it does in a concatenation.
LEMMA ConcatFollows ==
    ASSUME NEW elems, NEW x \in Seq(elems), NEW y \in Seq(elems), NEW a, a = Len(x), NEW c, c = Len(y)
    PROVE  Follows(x \o y, x, y, a, c, elems)
<1> DEFINE xy == x \o y
<1>1. a \in Nat /\ c \in Nat
  OBVIOUS
<1>2. /\ xy \in Seq(elems) /\ Len(xy) = a + c
      /\ \A k \in 1 .. a + c : xy[k] = IF k <= a THEN x[k] ELSE y[k - a]
  BY ConcatProperties
<1> HIDE DEF xy
<1>3. ASSUME NEW k \in 1 .. a PROVE xy[k] = x[k]
  <2>1. k \in 1 .. a + c /\ k <= a
    BY <1>1
  <2> QED
    BY <1>2, <2>1
<1>4. ASSUME NEW k \in 1 .. c PROVE xy[a + k] = y[k]
  <2> DEFINE j == a + k
  <2>1. j \in 1 .. a + c /\ ~(j <= a) /\ j - a = k
    BY <1>1
  <2> HIDE DEF j
  <2>2. xy[j] = y[k]
    BY <1>2, <2>1
  <2> QED
    BY <2>2 DEF j
<1> QED
  BY <1>2, <1>3, <1>4 DEF Follows, xy
\* Induction over the subsets of a finite set, for a property that is a set.
LEMMA SubsetInduction ==
    ASSUME NEW dom, IsFiniteSet(dom), NEW good,
           \A sub \in SUBSET dom : (\A x \in sub : sub \ {x} \in good) => sub \in good
    PROVE  SUBSET dom \subseteq good
<1> DEFINE bad == (SUBSET dom) \ good
           rel == StrictSubsetOrdering(dom)
<1>1. IsWellFoundedOn(rel, SUBSET dom)
  <2>1. FiniteSubsetsOf(dom) = SUBSET dom
    BY FS_FiniteSubsetsOfFinite
  <2> QED
    BY <2>1, FS_StrictSubsetOrderingWellFounded
<1> SUFFICES ASSUME bad # {} PROVE FALSE
  OBVIOUS
<1>2. bad \in SUBSET (SUBSET dom)
  OBVIOUS
<1>3. PICK sub \in bad : \A y \in bad : ~(<<y, sub>> \in rel)
  <2> HIDE DEF bad, rel
  <2> QED
    BY <1>1, <1>2, WFMin
<1>4. ASSUME NEW x \in sub PROVE sub \ {x} \in good
  <2>1. <<sub \ {x}, sub>> \in rel
    BY <1>4 DEF StrictSubsetOrdering
  <2>2. sub \ {x} \notin bad
    BY <1>3, <2>1
  <2> QED
    BY <2>2
<1> QED
  BY <1>3, <1>4

\* The member of a set that MapThenSumSet takes next.
Pick(sub) == CHOOSE x \in sub : TRUE

\* v is the sum of the values of f on the finite set dom.
SumsUp(h, f, dom) ==
    \A sub \in SUBSET dom : h[sub] = IF sub = {} THEN 0 ELSE f[Pick(sub)] + h[sub \ {Pick(sub)}]
\* v is the sum of f over dom.
SumIs(v, f, dom) == \E h : v = h[dom] /\ SumsUp(h, f, dom)

\* The same for an operator f.
SumIsOf(v, f(_), dom) == SumIs(v, [x \in dom |-> f(x)], dom)

\* MapThenSumSet is that sum.
LEMMA SumIsFold ==
    ASSUME NEW dom, IsFiniteSet(dom), NEW f(_)
    PROVE  SumIsOf(MapThenSumSet(f, dom), f, dom)
<1> DEFINE plus(x, y) == x + y
           pick(sub) == CHOOSE x \in sub : TRUE
           v == MapThenFoldSet(plus, 0, f, pick, dom)
<1>1. MapThenSumSet(f, dom) = v
  BY DEF MapThenSumSet
<1>2. Chooses(pick, dom)
  BY DEF Chooses
<1>3. IsFold(MapThenFoldSet(plus, 0, f, pick, dom), plus, 0, f, pick, dom)
  <2> HIDE DEF plus, pick
  <2> QED
    BY <1>2, FoldIsFunction
<1>4. PICK g : /\ v = g[dom]
               /\ g = [sub \in SUBSET dom |->
                         IF sub = {} THEN 0 ELSE plus(f(pick(sub)), g[sub \ {pick(sub)}])]
  BY <1>3 DEF IsFold
<1>5. ASSUME NEW sub \in SUBSET dom
      PROVE  g[sub] = IF sub = {} THEN 0 ELSE [x \in dom |-> f(x)][Pick(sub)] + g[sub \ {Pick(sub)}]
  <2>1. sub # {} => Pick(sub) \in dom
    BY DEF Pick
  <2>2. pick(sub) = Pick(sub)
    BY DEF Pick
  <2>3. g[sub] = IF sub = {} THEN 0 ELSE f(pick(sub)) + g[sub \ {pick(sub)}]
    BY <1>4
  <2> QED
    BY <2>1, <2>2, <2>3
<1> QED
  BY <1>1, <1>4, <1>5 DEF SumIs, SumsUp, SumIsOf

\* A sum of natural numbers is one, and none of them is larger.
LEMMA SumOfNats ==
    ASSUME NEW dom, IsFiniteSet(dom), NEW f \in [dom -> Nat], NEW v, SumIs(v, f, dom)
    PROVE  v \in Nat /\ \A x \in dom : f[x] <= v
<1>1. PICK h : /\ v = h[dom]
               /\ \A sub \in SUBSET dom :
                    h[sub] = IF sub = {} THEN 0 ELSE f[Pick(sub)] + h[sub \ {Pick(sub)}]
  BY DEF SumIs, SumsUp
<1> DEFINE good == {sub \in SUBSET dom : h[sub] \in Nat /\ \A x \in sub : f[x] <= h[sub]}
<1>2. ASSUME NEW sub \in SUBSET dom, \A x \in sub : sub \ {x} \in good PROVE sub \in good
  <2>1. CASE sub = {}
    BY <1>1, <2>1
  <2>2. CASE sub # {}
    <3> DEFINE p == Pick(sub)
    <3>1. p \in sub
      BY <2>2 DEF Pick
    <3>2. h[sub] = f[p] + h[sub \ {p}]
      BY <1>1, <2>2
    <3>3. h[sub \ {p}] \in Nat /\ \A x \in sub \ {p} : f[x] <= h[sub \ {p}]
      BY <1>2, <3>1
    <3> HIDE DEF p
    <3>4. f[p] \in Nat /\ \A x \in sub : f[x] \in Nat
      BY <3>1
    <3>5. h[sub] \in Nat
      BY <3>2, <3>3, <3>4
    <3>6. ASSUME NEW x \in sub PROVE f[x] <= h[sub]
      BY <3>2, <3>3, <3>4
    <3> QED
      BY <3>5, <3>6
  <2> QED
    BY <2>1, <2>2
<1> HIDE DEF good
<1>3. dom \in good
  BY <1>2, SubsetInduction
<1> QED
  BY <1>1, <1>3 DEF good

\* Where no value is larger, the sum is not.
LEMMA SumIsMonotone ==
    ASSUME NEW dom, IsFiniteSet(dom), NEW f \in [dom -> Nat], NEW g \in [dom -> Nat],
           \A x \in dom : f[x] <= g[x],
           NEW v, SumIs(v, f, dom), NEW w, SumIs(w, g, dom)
    PROVE  v <= w
<1>1. PICK h : /\ v = h[dom]
               /\ \A sub \in SUBSET dom :
                    h[sub] = IF sub = {} THEN 0 ELSE f[Pick(sub)] + h[sub \ {Pick(sub)}]
  BY DEF SumIs, SumsUp
<1>2. PICK k : /\ w = k[dom]
               /\ \A sub \in SUBSET dom :
                    k[sub] = IF sub = {} THEN 0 ELSE g[Pick(sub)] + k[sub \ {Pick(sub)}]
  BY DEF SumIs, SumsUp
<1> DEFINE good == {sub \in SUBSET dom : h[sub] \in Nat /\ k[sub] \in Nat /\ h[sub] <= k[sub]}
<1>3. ASSUME NEW sub \in SUBSET dom, \A x \in sub : sub \ {x} \in good PROVE sub \in good
  <2>1. CASE sub = {}
    BY <1>1, <1>2, <2>1
  <2>2. CASE sub # {}
    <3> DEFINE p == Pick(sub)
    <3>1. p \in sub
      BY <2>2 DEF Pick
    <3>2. h[sub] = f[p] + h[sub \ {p}] /\ k[sub] = g[p] + k[sub \ {p}]
      BY <1>1, <1>2, <2>2
    <3>3. h[sub \ {p}] \in Nat /\ k[sub \ {p}] \in Nat /\ h[sub \ {p}] <= k[sub \ {p}]
      BY <1>3, <3>1
    <3> HIDE DEF p
    <3>4. f[p] \in Nat /\ g[p] \in Nat /\ f[p] <= g[p]
      BY <3>1
    <3> QED
      BY <3>2, <3>3, <3>4
  <2> QED
    BY <2>1, <2>2
<1> HIDE DEF good
<1>4. dom \in good
  BY <1>3, SubsetInduction
<1> QED
  BY <1>1, <1>2, <1>4 DEF good

\* When one value changes, the sum changes as much.
LEMMA SumOfUpdate ==
    ASSUME NEW dom, IsFiniteSet(dom), NEW f \in [dom -> Nat], NEW g \in [dom -> Nat],
           NEW c \in dom, \A x \in dom : x # c => f[x] = g[x],
           NEW v, SumIs(v, f, dom), NEW w, SumIs(w, g, dom)
    PROVE  w = v - f[c] + g[c]
<1>1. PICK h : /\ v = h[dom]
               /\ \A sub \in SUBSET dom :
                    h[sub] = IF sub = {} THEN 0 ELSE f[Pick(sub)] + h[sub \ {Pick(sub)}]
  BY DEF SumIs, SumsUp
<1>2. PICK k : /\ w = k[dom]
               /\ \A sub \in SUBSET dom :
                    k[sub] = IF sub = {} THEN 0 ELSE g[Pick(sub)] + k[sub \ {Pick(sub)}]
  BY DEF SumIs, SumsUp
<1> DEFINE diff(sub) == IF c \in sub THEN g[c] - f[c] ELSE 0
           good == {sub \in SUBSET dom : h[sub] \in Nat /\ k[sub] = h[sub] + diff(sub)}
<1>0. f[c] \in Nat /\ g[c] \in Nat
  OBVIOUS
<1>3. ASSUME NEW sub \in SUBSET dom, \A x \in sub : sub \ {x} \in good PROVE sub \in good
  <2>1. CASE sub = {}
    <3>1. h[sub] = 0 /\ k[sub] = 0 /\ diff(sub) = 0
      <4> HIDE DEF good
      <4> QED
        BY <1>1, <1>2, <2>1
    <3> QED
      BY <2>1, <3>1
  <2>2. CASE sub # {}
    <3> DEFINE p == Pick(sub)
    <3>1. p \in sub
      BY <2>2 DEF Pick
    <3>2. h[sub] = f[p] + h[sub \ {p}] /\ k[sub] = g[p] + k[sub \ {p}]
      BY <1>1, <1>2, <2>2
    <3>3. h[sub \ {p}] \in Nat /\ k[sub \ {p}] = h[sub \ {p}] + diff(sub \ {p})
      BY <1>3, <3>1
    <3> HIDE DEF p
    <3>4. f[p] \in Nat /\ g[p] \in Nat
      BY <3>1
    <3>5. CASE p = c
      <4>1. diff(sub \ {p}) = 0 /\ diff(sub) = g[p] - f[p]
        BY <3>1, <3>5
      <4> QED
        BY <3>2, <3>3, <3>4, <4>1
    <3>6. CASE p # c
      <4>1. diff(sub \ {p}) = diff(sub) /\ f[p] = g[p] /\ diff(sub) \in Int
        BY <1>0, <3>1, <3>6
      <4> HIDE DEF diff
      <4>2. k[sub] = h[sub] + diff(sub) /\ h[sub] \in Nat
        BY <3>2, <3>3, <3>4, <4>1
      <4> QED
        BY <4>2
    <3> QED
      BY <3>5, <3>6
  <2> QED
    BY <2>1, <2>2
<1>4. dom \in good
  <2> HIDE DEF good
  <2> QED
    BY <1>3, SubsetInduction
<1> QED
  BY <1>0, <1>1, <1>2, <1>4

\* There is a sum, and it follows an update.
LEMMA SumExists ==
    ASSUME NEW dom, IsFiniteSet(dom), NEW f \in [dom -> Nat]
    PROVE  \E v \in Nat : SumIs(v, f, dom)
<1> DEFINE val(x) == f[x]
           v == MapThenSumSet(val, dom)
<1>0. SumIsOf(MapThenSumSet(val, dom), val, dom)
  <2> HIDE DEF val
  <2> QED
    BY SumIsFold
<1>1. SumIs(MapThenSumSet(val, dom), [x \in dom |-> val(x)], dom)
  BY <1>0 DEF SumIsOf
<1>2. [x \in dom |-> val(x)] = f
  OBVIOUS
<1>3. SumIs(v, f, dom)
  BY <1>1, <1>2
<1> HIDE DEF v
<1> QED
  BY <1>3, SumOfNats

\* The sum after one value of f has been replaced.
LEMMA SumFollows ==
    ASSUME NEW dom, IsFiniteSet(dom), NEW f \in [dom -> Nat], NEW v, SumIs(v, f, dom),
           NEW c \in dom, NEW x \in Nat
    PROVE  /\ SumIs(v - f[c] + x, [f EXCEPT ![c] = x], dom)
           /\ [f EXCEPT ![c] = x] \in [dom -> Nat] /\ v \in Nat /\ f[c] <= v
<1> DEFINE g == [f EXCEPT ![c] = x]
<1>1. g \in [dom -> Nat] /\ g[c] = x /\ \A y \in dom : y # c => f[y] = g[y]
  OBVIOUS
<1> HIDE DEF g
<1>2. PICK w \in Nat : SumIs(w, g, dom)
  BY <1>1, SumExists
<1>3. w = v - f[c] + x
  BY <1>1, <1>2, SumOfUpdate
<1>4. v \in Nat /\ f[c] <= v
  BY SumOfNats
<1> QED
  BY <1>1, <1>2, <1>3, <1>4 DEF g

\* A sum does not depend on the order.
AnyOrder(h, f, dom) ==
    \A sub \in SUBSET dom : h[sub] \in Nat /\ \A x \in sub : h[sub] = f[x] + h[sub \ {x}]

\* Any member can be taken out first.
LEMMA SumInAnyOrder ==
    ASSUME NEW dom, IsFiniteSet(dom), NEW f \in [dom -> Nat], NEW h, SumsUp(h, f, dom)
    PROVE  AnyOrder(h, f, dom)
<1>0. \A sub \in SUBSET dom : sub # {} => Pick(sub) \in sub
  BY DEF Pick
<1> USE DEF SumsUp
<1> DEFINE nats == {sub \in SUBSET dom : h[sub] \in Nat}
           good == {sub \in SUBSET dom : \A x \in sub : h[sub] = f[x] + h[sub \ {x}]}
<1>1. SUBSET dom \subseteq nats
  <2>1. ASSUME NEW sub \in SUBSET dom, \A x \in sub : sub \ {x} \in nats PROVE sub \in nats
    <3>1. CASE sub = {}
      <4>1. h[sub] = 0
        BY <3>1
      <4> QED
        BY <4>1
    <3>2. CASE sub # {}
      <4> DEFINE p == Pick(sub)
      <4>1. p \in sub /\ h[sub] = f[p] + h[sub \ {p}]
        BY <1>0, <3>2
      <4> HIDE DEF p
      <4>2. f[p] \in Nat /\ h[sub \ {p}] \in Nat
        BY <2>1, <4>1
      <4> QED
        BY <4>1, <4>2
    <3> QED
      BY <3>1, <3>2
  <2> HIDE DEF nats
  <2> QED
    BY <2>1, SubsetInduction
<1>2. ASSUME NEW sub \in SUBSET dom, \A x \in sub : sub \ {x} \in good, NEW x \in sub
      PROVE  h[sub] = f[x] + h[sub \ {x}]
  <2> DEFINE p == Pick(sub)
  <2>1. p \in sub /\ h[sub] = f[p] + h[sub \ {p}]
    BY <1>0
  <2> HIDE DEF p
  <2>2. CASE x = p
    BY <2>1, <2>2
  <2>3. CASE x # p
    <3>1. x \in sub \ {p} /\ p \in sub \ {x} /\ sub \ {p} \in good /\ sub \ {x} \in good
      BY <1>2, <2>1, <2>3
    <3>2. h[sub \ {p}] = f[x] + h[(sub \ {p}) \ {x}] /\ h[sub \ {x}] = f[p] + h[(sub \ {x}) \ {p}]
      BY <3>1
    <3>3. (sub \ {p}) \ {x} = (sub \ {x}) \ {p} /\ (sub \ {x}) \ {p} \in SUBSET dom
      OBVIOUS
    <3> DEFINE rest == h[(sub \ {x}) \ {p}]
    <3>4. rest \in Nat
      BY <1>1, <3>3
    <3>5. f[p] \in Nat /\ f[x] \in Nat
      BY <2>1
    <3>6. h[sub] = f[p] + (f[x] + rest) /\ h[sub \ {x}] = f[p] + rest
      BY <2>1, <3>2, <3>3
    <3> HIDE DEF rest
    <3>7. f[p] + (f[x] + rest) = f[x] + (f[p] + rest)
      BY <3>4, <3>5
    <3> QED
      BY <3>6, <3>7
  <2> QED
    BY <2>2, <2>3
<1>3. SUBSET dom \subseteq good
  <2>1. \A sub \in SUBSET dom : (\A x \in sub : sub \ {x} \in good) => sub \in good
    BY <1>2
  <2> HIDE DEF good
  <2> QED
    BY <2>1, SubsetInduction
<1> QED
  BY <1>1, <1>3 DEF AnyOrder

\* A zero does not count.
LEMMA SumWithoutZero ==
    ASSUME NEW dom, IsFiniteSet(dom), NEW c, c \notin dom, NEW f \in [dom \cup {c} -> Nat], f[c] = 0,
           NEW v, SumIs(v, f, dom \cup {c}), NEW g, \A x \in dom : g[x] = f[x]
    PROVE  SumIs(v, g, dom)
<1> DEFINE more == dom \cup {c}
<1>1. IsFiniteSet(more)
  BY FS_AddElement
<1>2. PICK h : /\ v = h[more]
               /\ \A sub \in SUBSET more :
                    h[sub] = IF sub = {} THEN 0 ELSE f[Pick(sub)] + h[sub \ {Pick(sub)}]
  BY DEF SumIs, SumsUp
<1>3. AnyOrder(h, f, more)
  <2>1. f \in [more -> Nat]
    OBVIOUS
  <2>2. SumsUp(h, f, more)
    BY <1>2 DEF SumsUp
  <2> HIDE DEF more
  <2> QED
    BY <1>1, <2>1, <2>2, SumInAnyOrder
<1>4. h[more] = f[c] + h[more \ {c}] /\ more \ {c} = dom
  BY <1>3 DEF AnyOrder
<1>a. h[dom] \in Nat
  BY <1>3 DEF AnyOrder
<1>5. v = h[dom]
  <2>1. v = h[more]
    BY <1>2
  <2>2. v = 0 + h[dom]
    BY <1>4, <2>1
  <2> HIDE DEF more
  <2> QED
    BY <1>a, <2>2
<1>6. ASSUME NEW sub \in SUBSET dom
      PROVE  h[sub] = IF sub = {} THEN 0 ELSE g[Pick(sub)] + h[sub \ {Pick(sub)}]
  <2>1. sub # {} => Pick(sub) \in dom
    BY DEF Pick
  <2> QED
    BY <1>2, <2>1
<1> QED
  BY <1>5, <1>6 DEF SumIs, SumsUp

\* A sum of zeros is zero.
LEMMA SumOfZeros ==
    ASSUME NEW dom, IsFiniteSet(dom), NEW f \in [dom -> Nat], \A x \in dom : f[x] = 0
    PROVE  SumIs(0, f, dom)
<1>1. PICK v \in Nat : SumIs(v, f, dom)
  BY SumExists
<1>2. PICK h : /\ v = h[dom]
               /\ \A sub \in SUBSET dom :
                    h[sub] = IF sub = {} THEN 0 ELSE f[Pick(sub)] + h[sub \ {Pick(sub)}]
  BY <1>1 DEF SumIs, SumsUp
<1> DEFINE good == {sub \in SUBSET dom : h[sub] = 0}
<1>3. ASSUME NEW sub \in SUBSET dom, \A x \in sub : sub \ {x} \in good PROVE sub \in good
  <2>1. CASE sub = {}
    BY <1>2, <2>1
  <2>2. CASE sub # {}
    <3> DEFINE p == Pick(sub)
    <3>1. p \in sub
      BY <2>2 DEF Pick
    <3>2. h[sub] = f[p] + h[sub \ {p}]
      BY <1>2, <2>2
    <3> HIDE DEF p
    <3>3. f[p] = 0 /\ h[sub \ {p}] = 0
      BY <1>3, <3>1
    <3> QED
      BY <3>2, <3>3
  <2> QED
    BY <2>1, <2>2
<1> HIDE DEF good
<1>4. dom \in good
  BY <1>3, SubsetInduction
<1> QED
  BY <1>1, <1>2, <1>4 DEF good

-----------------------------------------------------------------------------
\* Every part of Library starts as it does alone; the groups and the
\* directories only where they are the part that runs.
LEMMA StartOfParts ==
    Init => /\ A!Init /\ T!Init /\ S!Init /\ D!Init /\ H!Init /\ job = Idle
            /\ part = "groups" => G!Init
            /\ part = "directories" => K!Init
BY DEF Init

\* A step of Library is one of a part, or leaves the part as it is.
LEMMA StepsOfParts ==
    [Next]_vars => /\ part' = part
                   /\ A!Next \/ UNCHANGED arenaVars
                   /\ T!Next \/ UNCHANGED traceVars
                   /\ (part = "groups" /\ G!Visit) \/ UNCHANGED groupVars
                   /\ S!Next \/ UNCHANGED stringVars
                   /\ D!Next \/ UNCHANGED guardVars
                   /\ H!Next \/ UNCHANGED digestVars
                   /\ (part = "directories" /\ K!Next) \/ UNCHANGED pathVars
                   /\ Call \/ UNCHANGED job
BY DEF Next, vars, RunArena, RunTrace, RunGroups, RunStrings, RunGuards, RunDigests,
       RunDirectories, RunFunctions

-----------------------------------------------------------------------------
(***************************************************************************)
(* Event traces.  The last block of a trace has room unless an allocation  *)
(* has failed: every block has a capacity, and the event that fills one is *)
(* followed by a new one.  What is allocated is the trace, two pieces for  *)
(* each block, and the iterator while there is one.                        *)
(***************************************************************************)
TraceBlock == [capacity : Nat \ {0}, events : Seq(Events)]

\* The types of the variables of Trace.
TraceTypeOK ==
    /\ trace_phase \in {"none", "live", "destroyed", "crashed"}
    /\ blocks \in Seq(TraceBlock)
    /\ being_iter \in BOOLEAN
    /\ allocated \in Int
    /\ starved \in BOOLEAN

\* A block of the trace is never empty of room before the next is opened.
RoomIsKept ==
    /\ trace_phase = "none" => blocks = <<>> /\ ~starved
    /\ trace_phase = "live" => T!HasRoom \/ starved

\* There is an iterator exactly while the trace is iterated.
OneIterator ==
    /\ being_iter <=> e1 # <<>>
    /\ trace_phase = "none" => ~being_iter

\* The arena is charged for what the trace has.
AccountIsExact ==
    allocated = CASE trace_phase = "live" -> 1 + 2 * Len(blocks) + (IF being_iter THEN 1 ELSE 0)
                  [] trace_phase = "crashed" -> allocated
                  [] OTHER -> IF being_iter THEN 1 ELSE 0

\* The iterator points at an event that was logged, and the trace remembers
\* the same place.
IteratorPointsAtEvent ==
    trace_phase = "live" /\ being_iter =>
        /\ e1 = <<e1_iter_last_block, e1_iter_last_index>>
        /\ e1_iter_last_block \in 1 .. Len(blocks)
        /\ e1_iter_last_index \in 0 .. Len(blocks[e1_iter_last_block].events) - 1

\* The inductive invariant of Trace.
TraceInv == TraceTypeOK /\ RoomIsKept /\ OneIterator /\ AccountIsExact /\ IteratorPointsAtEvent

-----------------------------------------------------------------------------
\* The capacity of a block is never 0.
LEMMA NextCapacityPositive ==
    ASSUME T!TraceAssumption, NEW bs \in Seq(TraceBlock)
    PROVE  T!NextCapacity(bs) \in Nat \ {0}
<1>1. CASE bs = <<>>
  BY <1>1 DEF T!NextCapacity, T!TraceAssumption
<1>2. CASE bs # <<>>
  <2>1. Last(bs) \in TraceBlock
    BY <1>2 DEF Last
  <2>2. Last(bs).capacity \in Nat \ {0}
    BY <2>1 DEF TraceBlock
  <2> QED
    BY <1>2, <2>2 DEF T!NextCapacity, Last
<1> QED
  BY <1>1, <1>2

\* When a block is opened behind bs there is room, and when it is not, the
\* trace is starved.
LEMMA ExpandKeepsRoom ==
    ASSUME T!TraceAssumption, NEW bs \in Seq(TraceBlock), NEW n \in Int, T!Expand(bs, n), starved \in BOOLEAN
    PROVE  /\ blocks' \in Seq(TraceBlock) /\ starved' \in BOOLEAN /\ allocated' \in Int
           /\ T!HasRoom' \/ starved'
           /\ \/ allocated' = n + 2 /\ Len(blocks') = Len(bs) + 1
              \/ allocated' = n /\ Len(blocks') = Len(bs)
           /\ \A b \in 1 .. Len(bs) : blocks'[b] = bs[b]
           /\ Len(blocks') >= Len(bs)
<1> DEFINE new == [capacity |-> T!NextCapacity(bs), events |-> <<>>]
<1>0. T!NextCapacity(bs) \in Nat \ {0}
  BY NextCapacityPositive
<1>1. new \in TraceBlock
  <2>1. <<>> \in Seq(Events)
    OBVIOUS
  <2> QED
    BY <1>0, <2>1 DEF TraceBlock
<1>2. CASE blocks' = Append(bs, new) /\ allocated' = n + 2 /\ UNCHANGED starved
  <2>1. /\ blocks' \in Seq(TraceBlock) /\ blocks' # <<>> /\ Len(blocks') = Len(bs) + 1
        /\ blocks'[Len(blocks')] = new
        /\ \A b \in 1 .. Len(bs) : blocks'[b] = bs[b]
    BY <1>1, <1>2
  <2>2. Len(new.events) < new.capacity
    BY <1>0
  <2>3. T!HasRoom'
    BY <2>1, <2>2 DEF T!HasRoom, T!tail, Last
  <2> QED
    BY <1>2, <2>1, <2>3
<1>3. CASE blocks' = bs /\ allocated' = n /\ starved' = TRUE
  BY <1>3
<1> QED
  BY <1>2, <1>3 DEF T!Expand

\* An event is written at the end of the last block, and nothing else changes.
LEMMA WithEventKeeps ==
    ASSUME NEW e \in Events, blocks \in Seq(TraceBlock), T!HasRoom
    PROVE  /\ T!WithEvent(e) \in Seq(TraceBlock) /\ Len(T!WithEvent(e)) = Len(blocks) /\ blocks # <<>>
           /\ Len(Last(T!WithEvent(e)).events) = Len(Last(blocks).events) + 1
           /\ Last(T!WithEvent(e)).capacity = Last(blocks).capacity
           /\ Last(blocks).capacity \in Nat /\ Len(Last(blocks).events) \in Nat
           /\ \A b \in 1 .. Len(blocks) : Len(T!WithEvent(e)[b].events) >= Len(blocks[b].events)
<1> DEFINE n == Len(blocks)
           new == [blocks[n] EXCEPT !.events = Append(@, e)]
<1>1. n \in 1 .. Len(blocks) /\ blocks[n] \in TraceBlock /\ Last(blocks) = blocks[n] /\ blocks # <<>>
  BY DEF T!HasRoom, T!tail, Last
<1>2. /\ new \in TraceBlock /\ new.capacity = blocks[n].capacity
      /\ Len(new.events) = Len(blocks[n].events) + 1 /\ Len(blocks[n].events) \in Nat
      /\ blocks[n].capacity \in Nat
  <2>1. blocks[n].events \in Seq(Events) /\ blocks[n].capacity \in Nat \ {0}
    BY <1>1 DEF TraceBlock
  <2>2. /\ Append(blocks[n].events, e) \in Seq(Events)
        /\ Len(Append(blocks[n].events, e)) = Len(blocks[n].events) + 1
    BY <2>1
  <2>3. new.events = Append(blocks[n].events, e) /\ new.capacity = blocks[n].capacity
    BY <1>1 DEF TraceBlock
  <2>4. new \in TraceBlock
    BY <1>1, <2>2 DEF TraceBlock
  <2> QED
    BY <2>1, <2>2, <2>3, <2>4
<1>3. T!WithEvent(e) = [blocks EXCEPT ![n] = new]
  BY DEF T!WithEvent
<1> HIDE DEF new
<1>4. /\ T!WithEvent(e) \in Seq(TraceBlock) /\ Len(T!WithEvent(e)) = n /\ T!WithEvent(e)[n] = new
      /\ \A b \in 1 .. n : b # n => T!WithEvent(e)[b] = blocks[b]
  BY <1>1, <1>2, <1>3
<1>5. \A b \in 1 .. n : Len(blocks[b].events) \in Nat
  BY DEF TraceBlock
<1> QED
  BY <1>1, <1>2, <1>4, <1>5 DEF Last

-----------------------------------------------------------------------------
\* A trace that was not created satisfies the invariant.
LEMMA InitTraceInv == T!Init => TraceInv
<1> SUFFICES ASSUME T!Init PROVE TraceInv
  OBVIOUS
<1>1. TraceTypeOK
  <2>1. <<>> \in Seq(TraceBlock)
    OBVIOUS
  <2>2. blocks \in Seq(TraceBlock) /\ trace_phase = "none" /\ being_iter = FALSE /\ allocated = 0 /\ starved = FALSE
    BY <2>1 DEF T!Init
  <2>3. allocated \in Int
    BY <2>2
  <2>4. being_iter \in BOOLEAN /\ starved \in BOOLEAN
    BY <2>2
  <2> QED
    BY <2>2, <2>3, <2>4 DEF TraceTypeOK
<1>2. RoomIsKept /\ OneIterator /\ IteratorPointsAtEvent
  BY DEF T!Init, RoomIsKept, OneIterator, IteratorPointsAtEvent
<1>3. AccountIsExact
  BY DEF T!Init, AccountIsExact
<1> QED
  BY <1>1, <1>2, <1>3 DEF TraceInv

\* The first block has room for the begin event.
LEMMA TraceCreate == T!TraceAssumption /\ TraceInv /\ T!Create => TraceInv'
<1> SUFFICES ASSUME T!TraceAssumption, TraceInv, T!Create PROVE TraceInv'
  OBVIOUS
<1>1. /\ trace_phase = "none" /\ trace_phase' = "live" /\ T!Expand(<<>>, 1)
      /\ UNCHANGED <<being_iter, e1, e1_iter_last_block, e1_iter_last_index>>
  BY DEF T!Create, T!iterator
<1>2. <<>> \in Seq(TraceBlock) /\ Len(<<>>) = 0 /\ 1 \in Int
  OBVIOUS
<1>3. /\ blocks' \in Seq(TraceBlock) /\ starved' \in BOOLEAN /\ allocated' \in Int
      /\ T!HasRoom' \/ starved'
      /\ \/ allocated' = 1 + 2 /\ Len(blocks') = 0 + 1
         \/ allocated' = 1 /\ Len(blocks') = 0
  BY <1>1, <1>2, ExpandKeepsRoom DEF TraceInv, TraceTypeOK
<1>4. ~being_iter'
  BY <1>1 DEF TraceInv, OneIterator
<1>5. TraceTypeOK' /\ RoomIsKept' /\ IteratorPointsAtEvent'
  BY <1>1, <1>3, <1>4 DEF TraceInv, TraceTypeOK, RoomIsKept, IteratorPointsAtEvent
<1>6. OneIterator'
  BY <1>1 DEF TraceInv, OneIterator
<1>7. AccountIsExact'
  <2>1. allocated' = 1 + 2 * Len(blocks') + 0
    <3>1. CASE allocated' = 3 /\ Len(blocks') = 1
      BY <3>1
    <3>2. CASE allocated' = 1 /\ Len(blocks') = 0
      BY <3>2
    <3> QED
      BY <1>3, <3>1, <3>2
  <2>2. (IF being_iter' THEN 1 ELSE 0) = 0
    BY <1>4
  <2> QED
    BY <1>1, <2>1, <2>2 DEF AccountIsExact
<1> QED
  BY <1>5, <1>6, <1>7 DEF TraceInv

\* An appended event goes into a block with room, and a full block gets a successor.
LEMMA TraceAppendEvent ==
    ASSUME T!TraceAssumption, TraceInv, NEW e \in Events, T!AppendEvent(e)
    PROVE  TraceInv'
<1>1. /\ trace_phase = "live" /\ T!HasRoom
      /\ UNCHANGED <<trace_phase, being_iter, e1, e1_iter_last_block, e1_iter_last_index>>
  BY DEF T!AppendEvent, T!iterator
<1>0. TraceTypeOK /\ OneIterator /\ AccountIsExact /\ IteratorPointsAtEvent
  BY DEF TraceInv
<1> DEFINE w == T!WithEvent(e)
<1>2. /\ w \in Seq(TraceBlock) /\ Len(w) = Len(blocks)
      /\ Len(Last(w).events) = Len(Last(blocks).events) + 1
      /\ Last(w).capacity = Last(blocks).capacity
      /\ Last(blocks).capacity \in Nat /\ Len(Last(blocks).events) \in Nat
      /\ \A b \in 1 .. Len(blocks) : Len(w[b].events) >= Len(blocks[b].events)
      /\ w # <<>>
  BY <1>0, <1>1, WithEventKeeps DEF TraceTypeOK
<1> HIDE DEF w
<1>3. /\ blocks' \in Seq(TraceBlock) /\ starved' \in BOOLEAN /\ allocated' \in Int
      /\ T!HasRoom' \/ starved'
      /\ \/ allocated' = allocated + 2 /\ Len(blocks') = Len(blocks) + 1
         \/ allocated' = allocated /\ Len(blocks') = Len(blocks)
      /\ \A b \in 1 .. Len(blocks) : blocks'[b] = w[b]
  <2>1. CASE Len(Last(blocks).events) + 1 = Last(blocks).capacity
    <3>1. T!Expand(w, allocated)
      BY <2>1 DEF T!AppendEvent, T!tail, Last, w
    <3> QED
      BY <1>0, <1>2, <3>1, ExpandKeepsRoom DEF TraceTypeOK
  <2>2. CASE Len(Last(blocks).events) + 1 # Last(blocks).capacity
    <3>1. blocks' = w /\ UNCHANGED <<allocated, starved>>
      BY <2>2 DEF T!AppendEvent, T!tail, Last, w
    <3>2. Len(Last(blocks).events) < Last(blocks).capacity
      BY <1>1 DEF T!HasRoom, T!tail, Last
    <3>3. T!HasRoom'
      BY <1>2, <2>2, <3>1, <3>2 DEF T!HasRoom, T!tail, Last
    <3> QED
      BY <1>0, <1>2, <3>1, <3>3 DEF TraceTypeOK
  <2> QED
    BY <2>1, <2>2
<1>4. TraceTypeOK' /\ RoomIsKept' /\ OneIterator'
  BY <1>0, <1>1, <1>3 DEF TraceTypeOK, RoomIsKept, OneIterator
<1>5. AccountIsExact'
  <2>1. allocated = 1 + 2 * Len(blocks) + (IF being_iter THEN 1 ELSE 0)
    BY <1>0, <1>1 DEF AccountIsExact
  <2>2. Len(blocks) \in Nat /\ Len(blocks') \in Nat /\ allocated \in Int
    BY <1>0, <1>3 DEF TraceTypeOK
  <2>3. allocated' = 1 + 2 * Len(blocks') + (IF being_iter THEN 1 ELSE 0)
    BY <1>3, <2>1, <2>2
  <2> QED
    BY <1>1, <2>3 DEF AccountIsExact
<1>6. IteratorPointsAtEvent'
  <2>1. \A b \in 1 .. Len(blocks) : Len(blocks[b].events) \in Nat /\ Len(w[b].events) \in Nat
    <3>1. \A b \in 1 .. Len(blocks) : blocks[b] \in TraceBlock /\ w[b] \in TraceBlock
      BY <1>0, <1>2 DEF TraceTypeOK
    <3> QED
      BY <3>1 DEF TraceBlock
  <2> SUFFICES ASSUME being_iter
               PROVE  /\ e1 = <<e1_iter_last_block, e1_iter_last_index>>
                      /\ e1_iter_last_block \in 1 .. Len(blocks')
                      /\ e1_iter_last_index \in 0 .. Len(blocks'[e1_iter_last_block].events) - 1
    BY <1>1 DEF IteratorPointsAtEvent
  <2>2. /\ e1 = <<e1_iter_last_block, e1_iter_last_index>>
        /\ e1_iter_last_block \in 1 .. Len(blocks)
        /\ e1_iter_last_index \in 0 .. Len(blocks[e1_iter_last_block].events) - 1
    BY <1>0, <1>1 DEF IteratorPointsAtEvent
  <2>3. /\ e1_iter_last_block \in 1 .. Len(blocks')
        /\ Len(blocks'[e1_iter_last_block].events) >= Len(blocks[e1_iter_last_block].events)
        /\ Len(blocks'[e1_iter_last_block].events) \in Nat
    <3>1. e1_iter_last_block \in 1 .. Len(blocks')
      BY <1>0, <1>3, <2>2 DEF TraceTypeOK
    <3>2. blocks'[e1_iter_last_block] = w[e1_iter_last_block]
      BY <1>3, <2>2
    <3> QED
      BY <1>2, <2>1, <2>2, <3>1, <3>2
  <2> QED
    BY <2>1, <2>2, <2>3
<1> QED
  BY <1>4, <1>5, <1>6 DEF TraceInv

\* A trace that ends, or that loses an event outside it, keeps what is said of the blocks.
LEMMA TraceEnds == TraceInv /\ (T!AppendOutside \/ T!Destroy) => TraceInv'
<1> SUFFICES ASSUME TraceInv, T!AppendOutside \/ T!Destroy PROVE TraceInv'
  OBVIOUS
<1>1. CASE T!AppendOutside
  BY <1>1 DEF T!AppendOutside, T!iterator, TraceInv, TraceTypeOK, RoomIsKept, OneIterator, AccountIsExact, IteratorPointsAtEvent
<1>2. CASE T!Destroy
  BY <1>2 DEF T!Destroy, T!iterator, TraceInv, TraceTypeOK, RoomIsKept, OneIterator, AccountIsExact, IteratorPointsAtEvent
<1> QED
  BY <1>1, <1>2

\* An iteration starts at the first event of the first block.
LEMMA TraceStartIter == TraceInv /\ T!StartIter => TraceInv'
<1> SUFFICES ASSUME TraceInv, T!StartIter PROVE TraceInv'
  OBVIOUS
<1>1. 1 \in DOMAIN blocks /\ Len(blocks[1].events) # 0
  BY DEF T!StartIter, T!size
<1>2. 1 \in 1 .. Len(blocks) /\ Len(blocks[1].events) \in Nat
  BY <1>1 DEF TraceInv, TraceTypeOK, TraceBlock
<1> QED
  BY <1>1, <1>2 DEF T!StartIter, TraceInv, TraceTypeOK, RoomIsKept, T!HasRoom, T!tail, Last, OneIterator, AccountIsExact, IteratorPointsAtEvent

\* The end of an iteration gives the iterator's memory back.
LEMMA TraceEndIter ==
    TraceInv /\ trace_phase = "live" /\ e1 # <<>> /\ T!EndIter /\ UNCHANGED <<trace_phase, blocks, starved>>
        => TraceInv'
<1> SUFFICES ASSUME TraceInv, trace_phase = "live", e1 # <<>>, T!EndIter, UNCHANGED <<trace_phase, blocks, starved>>
             PROVE  TraceInv'
  OBVIOUS
<1>1. TraceTypeOK /\ RoomIsKept /\ OneIterator /\ AccountIsExact
  BY DEF TraceInv
<1>2. being_iter /\ being_iter' = FALSE /\ e1' = <<>> /\ allocated' = allocated - 1
  BY <1>1 DEF T!EndIter, OneIterator
<1>3. TraceTypeOK' /\ RoomIsKept'
  <2>1. TraceTypeOK'
    <3>1. allocated' \in Int
      BY <1>1, <1>2 DEF TraceTypeOK
    <3>2. being_iter' \in BOOLEAN
      BY <1>2
    <3> QED
      BY <1>1, <3>1, <3>2 DEF TraceTypeOK
  <2>2. RoomIsKept'
    BY <1>1 DEF RoomIsKept, T!HasRoom, T!tail, Last
  <2> QED
    BY <2>1, <2>2
<1>4. OneIterator' /\ IteratorPointsAtEvent'
  BY <1>2 DEF OneIterator, IteratorPointsAtEvent
<1>5. AccountIsExact'
  BY <1>1, <1>2 DEF TraceTypeOK, AccountIsExact
<1> QED
  BY <1>3, <1>4, <1>5 DEF TraceInv

\* An iteration goes to the next event, which is there, or ends.
LEMMA TraceNextIter == TraceInv /\ T!NextIter => TraceInv'
<1> SUFFICES ASSUME TraceInv, T!NextIter PROVE TraceInv'
  OBVIOUS
<1> DEFINE b == e1_iter_last_block
           k == e1_iter_last_index + 1
<1>0. /\ trace_phase = "live" /\ being_iter /\ e1 # <<>> /\ TraceTypeOK
      /\ b \in 1 .. Len(blocks) /\ k \in Nat
      /\ UNCHANGED <<trace_phase, blocks, starved>>
  BY DEF T!NextIter, TraceInv, TraceTypeOK, IteratorPointsAtEvent
<1>1. CASE T!EndIter
  BY <1>0, <1>1, TraceEndIter
<1>2. ASSUME NEW c \in 1 .. Len(blocks), NEW j \in Nat, j < Len(blocks[c].events), T!MoveTo(c, j)
      PROVE  TraceInv'
  <2>1. j \in 0 .. Len(blocks[c].events) - 1
    BY <1>0, <1>2 DEF TraceTypeOK, TraceBlock
  <2> QED
    BY <1>0, <1>2, <2>1 DEF T!MoveTo, TraceInv, TraceTypeOK, RoomIsKept, T!HasRoom, T!tail, Last, OneIterator, AccountIsExact, IteratorPointsAtEvent
<1>3. CASE k < T!size(b) /\ T!MoveTo(b, k)
  BY <1>0, <1>2, <1>3 DEF T!size, TraceTypeOK
<1>4. CASE T!size(b + 1) > 0 /\ T!MoveTo(b + 1, 0)
  <2>1. b + 1 \in 1 .. Len(blocks) /\ 0 < Len(blocks[b + 1].events)
    BY <1>0, <1>4 DEF T!size, TraceTypeOK
  <2> QED
    BY <1>2, <1>4, <2>1
<1> QED
  BY <1>1, <1>3, <1>4 DEF T!NextIter

\* Every step of Library keeps the invariant of a trace.
LEMMA NextTraceInv == TraceInv /\ [Next]_vars => TraceInv'
<1> SUFFICES ASSUME TraceInv, [Next]_vars PROVE TraceInv'
  OBVIOUS
<1>0. T!TraceAssumption
  BY LibraryAssumption
<1>1. CASE UNCHANGED traceVars
  BY <1>1 DEF traceVars, TraceInv, TraceTypeOK, RoomIsKept, T!HasRoom, T!tail, Last, OneIterator,
              AccountIsExact, IteratorPointsAtEvent
<1>2. CASE T!Next
  BY <1>0, <1>2, TraceCreate, TraceAppendEvent, TraceEnds, TraceStartIter, TraceEndIter, TraceNextIter
     DEF T!Next, T!InterruptIter
<1> QED
  BY <1>1, <1>2, StepsOfParts

\* The invariant of a trace holds in every state.
THEOREM TraceInvHolds == Spec => []TraceInv
<1>1. Init => TraceInv
  BY StartOfParts, InitTraceInv
<1>2. TraceInv /\ [Next]_vars => TraceInv'
  BY NextTraceInv
<1> QED
  BY <1>1, <1>2, PTL DEF Spec

\* As long as no allocation fails, the unchecked write of _mys_trace_append1
\* (trace.c) stays inside the last block.
THEOREM WritesStayInside == Spec => []WritesInside
<1>1. TraceInv => WritesInside
  BY DEF TraceInv, RoomIsKept, WritesInside, T!WritesInside
<1> QED
  BY <1>1, TraceInvHolds, PTL

\* A destroyed trace (mys_trace_destroy) has given everything back, however its
\* iterations ended, but for the one iterator of an iteration that did not end.
THEOREM TracesDoNotLeak == Spec => []NothingLeaks
<1>1. TraceInv => NothingLeaks
  BY DEF TraceInv, AccountIsExact, OneIterator, NothingLeaks, T!NothingLeaks
<1> QED
  BY <1>1, TraceInvHolds, PTL
-----------------------------------------------------------------------------
(***************************************************************************)
(* Type guards, of callers that do not guard two equal variables at a      *)
(* time: what is open is there once, so that taking out every record with  *)
(* the bytes of a variable takes out one, and the count follows.           *)
(***************************************************************************)
GuardTypeOK ==
    /\ node \in [Types -> BOOLEAN]
    /\ num_record \in [Types -> Nat]
    /\ records \in [Types -> Seq(Values)]
    /\ open \in [Types -> Seq(Values)]

\* No value is open twice, and the counts stay far from the width of size_t.
OpenAreDifferent ==
    \A t \in Types :
        /\ Len(open[t]) <= MaxOpen
        /\ \A j, k \in 1 .. Len(open[t]) : open[t][j] = open[t][k] => j = k

\* The inductive invariant of Guard.
GuardInv == GuardTypeOK /\ OpenAreDifferent /\ D!GuardExact

\* The sequence s without its k-th element, from the first n elements of s.
Left(s, k, n) == [j \in 1 .. (IF n < k THEN n ELSE n - 1) |-> IF j < k THEN s[j] ELSE s[j + 1]]

\* Objects that are deleted stay so.
LEMMA LeftGrows ==
    ASSUME NEW s \in Seq(Values), NEW k \in 1 .. Len(s), NEW n \in 1 .. Len(s)
    PROVE  /\ Left(s, k, n - 1) \in Seq(Values)
           /\ Left(s, k, n) \in Seq(Values)
           /\ Left(s, k, n) = IF n = k THEN Left(s, k, n - 1) ELSE Append(Left(s, k, n - 1), s[n])
<1>1. \A m \in 0 .. Len(s) : Left(s, k, m) \in Seq(Values) /\ Len(Left(s, k, m)) = IF m < k THEN m ELSE m - 1
  <2> SUFFICES ASSUME NEW m \in 0 .. Len(s)
               PROVE  Left(s, k, m) \in Seq(Values) /\ Len(Left(s, k, m)) = IF m < k THEN m ELSE m - 1
    OBVIOUS
  <2> DEFINE l == IF m < k THEN m ELSE m - 1
  <2>1. l \in Nat /\ l <= Len(s) /\ (l = Len(s) => m < k)
    OBVIOUS
  <2>2. \A j \in 1 .. l : (j < k => j \in 1 .. Len(s)) /\ (~(j < k) => j + 1 \in 1 .. Len(s))
    OBVIOUS
  <2>3. Left(s, k, m) = [j \in 1 .. l |-> IF j < k THEN s[j] ELSE s[j + 1]]
    BY DEF Left
  <2> HIDE DEF l
  <2>4. Left(s, k, m) \in [1 .. l -> Values]
    BY <2>1, <2>2, <2>3
  <2>5. Left(s, k, m) \in Seq(Values) /\ Len(Left(s, k, m)) = l
    BY <2>1, <2>4
  <2> QED
    BY <2>5 DEF l
<1>2. CASE n = k
  BY <1>1, <1>2 DEF Left
<1>3. CASE n # k
  <2> DEFINE a == Left(s, k, n - 1)
             b == Left(s, k, n)
             l == IF n < k THEN n ELSE n - 1
  <2>1. a \in Seq(Values) /\ b \in Seq(Values) /\ Len(b) = l /\ Len(a) = l - 1 /\ l \in Nat
    BY <1>1, <1>3
  <2>2. \A j \in 1 .. l - 1 : b[j] = a[j]
    BY <1>3 DEF Left
  <2>3. b[l] = s[n]
    BY <1>3 DEF Left
  <2> HIDE DEF a, b, l
  <2>4. s[n] \in Values
    OBVIOUS
  <2>5. /\ Append(a, s[n]) \in Seq(Values) /\ Len(Append(a, s[n])) = l
        /\ \A j \in 1 .. l - 1 : Append(a, s[n])[j] = a[j]
        /\ Append(a, s[n])[l] = s[n]
    BY <2>1, <2>4
  <2>6. \A j \in 1 .. l : b[j] = Append(a, s[n])[j]
    BY <2>1, <2>2, <2>3, <2>5
  <2>7. b = Append(a, s[n])
    BY <2>1, <2>5, <2>6, SeqEqual
  <2> QED
    BY <1>3, <2>1, <2>7 DEF a, b
<1> QED
  BY <1>1, <1>2, <1>3

\* What _mys_guard_records_remove leaves of records that are different is what
\* there is without the one that is found.
LEMMA RemovesOne ==
    ASSUME NEW s \in Seq(Values), NEW v, NEW k \in 1 .. Len(s), s[k] = v,
           \A j \in 1 .. Len(s) : j # k => s[j] # v
    PROVE  D!Without(s, v) = Left(s, k, Len(s))
<1> DEFINE n == Len(s)
           Makes(h) == h = [m \in 0 .. n |-> IF m = 0 THEN <<>>
                                             ELSE IF s[m] = v THEN h[m - 1] ELSE Append(h[m - 1], s[m])]
           h == CHOOSE h : Makes(h)
           g == [m \in 0 .. n |-> Left(s, k, m)]
<1>1. n \in Nat /\ D!Without(s, v) = h[n]
  BY DEF D!Without
<1>2. Left(s, k, 0) = <<>>
  <2>1. 1 \in 1 .. Len(s) /\ 1 - 1 = 0
    OBVIOUS
  <2>2. Left(s, k, 0) \in Seq(Values)
    BY <2>1, LeftGrows
  <2>3. Left(s, k, 0) = [j \in 1 .. 0 |-> IF j < k THEN s[j] ELSE s[j + 1]]
    BY DEF Left
  <2> QED
    BY <2>2, <2>3, EmptySeq
<1>3. ASSUME NEW m \in 1 .. n, NEW l, l = m - 1
      PROVE  Left(s, k, m) = IF s[m] = v THEN Left(s, k, l) ELSE Append(Left(s, k, l), s[m])
  <2>1. s[m] = v <=> m = k
    OBVIOUS
  <2> QED
    BY <1>3, <2>1, LeftGrows
<1>4. Makes(g)
  <2>1. ASSUME NEW m \in 0 .. n
        PROVE  g[m] = IF m = 0 THEN <<>> ELSE IF s[m] = v THEN g[m - 1] ELSE Append(g[m - 1], s[m])
    <3>1. CASE m = 0
      BY <1>2, <3>1
    <3>2. CASE m # 0
      <4> DEFINE l == m - 1
      <4>1. m \in 1 .. n /\ l = m - 1 /\ g[m] = Left(s, k, m) /\ g[l] = Left(s, k, l)
        BY <1>1, <3>2
      <4> HIDE DEF g, l
      <4>2. g[m] = IF s[m] = v THEN g[l] ELSE Append(g[l], s[m])
        BY <1>3, <4>1
      <4> QED
        BY <3>2, <4>1, <4>2
    <3> QED
      BY <3>1, <3>2
  <2>2. g = [m \in 0 .. n |-> g[m]]
    OBVIOUS
  <2> HIDE DEF g
  <2> QED
    BY <2>1, <2>2
<1>5. Makes(h)
  <2> HIDE DEF Makes
  <2> QED
    BY <1>4
<1> HIDE DEF h
<1>6. \A m \in 0 .. n : h[m] = IF m = 0 THEN <<>> ELSE IF s[m] = v THEN h[m - 1] ELSE Append(h[m - 1], s[m])
  BY <1>5
<1> DEFINE good == {m \in Nat : m \in 0 .. n => h[m] = Left(s, k, m)}
<1>7. 0 \in good
  BY <1>1, <1>2, <1>6
<1>8. ASSUME NEW m \in Nat, m \in good PROVE m + 1 \in good
  <2> SUFFICES ASSUME m + 1 \in 0 .. n PROVE h[m + 1] = Left(s, k, m + 1)
    OBVIOUS
  <2> DEFINE x == m + 1
  <2>1. x \in 1 .. n /\ x \in 0 .. n /\ x # 0 /\ m = x - 1 /\ m \in 0 .. n
    BY <1>1
  <2> HIDE DEF x
  <2>2. h[x] = IF s[x] = v THEN h[m] ELSE Append(h[m], s[x])
    BY <1>6, <2>1
  <2>3. h[m] = Left(s, k, m)
    BY <1>8, <2>1
  <2>4. h[x] = Left(s, k, x)
    BY <1>3, <2>1, <2>2, <2>3
  <2> QED
    BY <2>4 DEF x
<1> HIDE DEF good
<1>9. n \in good
  BY <1>1, <1>7, <1>8, SetInduction
<1> QED
  BY <1>1, <1>9 DEF good

\* So is what the caller has left open.
LEMMA RemovesFirst ==
    ASSUME NEW s \in Seq(Values), NEW v, NEW k \in 1 .. Len(s), s[k] = v,
           \A j \in 1 .. Len(s) : j # k => s[j] # v
    PROVE  D!Closed(s, v) = Left(s, k, Len(s))
<1>1. (CHOOSE m \in DOMAIN s : s[m] = v /\ \A j \in 1 .. m - 1 : s[j] # v) = k
  <2>1. DOMAIN s = 1 .. Len(s) /\ \A j \in 1 .. k - 1 : j \in 1 .. Len(s) /\ j # k
    OBVIOUS
  <2> QED
    BY <2>1
<1>3. D!Closed(s, v) = SubSeq(s, 1, k - 1) \o SubSeq(s, k + 1, Len(s))
  BY <1>1 DEF D!Closed
<1> DEFINE a == SubSeq(s, 1, k - 1)
           b == SubSeq(s, k + 1, Len(s))
           c == Left(s, k, Len(s))
<1>4. /\ a \in Seq(Values) /\ Len(a) = k - 1 /\ \A j \in 1 .. k - 1 : a[j] = s[j]
      /\ b \in Seq(Values) /\ Len(b) = Len(s) - k /\ \A j \in 1 .. Len(s) - k : b[j] = s[k + j]
  OBVIOUS
<1>5. c \in Seq(Values) /\ Len(c) = Len(s) - 1
  <2>1. Len(s) \in 1 .. Len(s) /\ c = [j \in 1 .. Len(s) - 1 |-> IF j < k THEN s[j] ELSE s[j + 1]]
    BY DEF Left
  <2>2. c \in Seq(Values)
    BY <2>1, LeftGrows
  <2> QED
    BY <2>1, <2>2
<1>6. \A j \in 1 .. Len(s) - 1 : c[j] = IF j < k THEN s[j] ELSE s[j + 1]
  BY DEF Left
<1> HIDE DEF a, b, c
<1>7. a \o b \in Seq(Values) /\ Len(a \o b) = Len(s) - 1
  BY <1>4
<1>8. \A j \in 1 .. Len(s) - 1 : (a \o b)[j] = c[j]
  <2> SUFFICES ASSUME NEW j \in 1 .. Len(s) - 1 PROVE (a \o b)[j] = c[j]
    OBVIOUS
  <2>1. CASE j < k
    BY <1>4, <1>6, <2>1
  <2>2. CASE ~(j < k)
    <3> DEFINE l == j - (k - 1)
    <3>1. l \in 1 .. Len(b) /\ l \in 1 .. Len(s) - k /\ k + l = j + 1 /\ j = Len(a) + l
      BY <1>4, <2>2
    <3>2. (a \o b)[j] = b[l]
      BY <1>4, <2>2, <3>1
    <3> HIDE DEF l
    <3>3. b[l] = s[k + l]
      BY <1>4, <3>1
    <3> QED
      BY <1>6, <2>2, <3>1, <3>2, <3>3
  <2> QED
    BY <2>1, <2>2
<1>9. a \o b = c
  BY <1>5, <1>7, <1>8, SeqEqual
<1> QED
  BY <1>3, <1>9 DEF a, b, c

\* Without an element a sequence is one shorter and its elements are as different.
LEMMA LeftIsDifferent ==
    ASSUME NEW s \in Seq(Values), NEW k \in 1 .. Len(s),
           \A j, m \in 1 .. Len(s) : s[j] = s[m] => j = m
    PROVE  LET l == Left(s, k, Len(s)) IN
           /\ l \in Seq(Values) /\ Len(l) = Len(s) - 1
           /\ \A j, m \in 1 .. Len(l) : l[j] = l[m] => j = m
<1> DEFINE l == Left(s, k, Len(s))
<1>1. l = [j \in 1 .. Len(s) - 1 |-> IF j < k THEN s[j] ELSE s[j + 1]]
  BY DEF Left
<1>2. l \in Seq(Values)
  <2>1. Len(s) \in 1 .. Len(s)
    OBVIOUS
  <2> QED
    BY <2>1, LeftGrows
<1>3. Len(l) = Len(s) - 1
  BY <1>1, <1>2
<1> HIDE DEF l
<1>4. ASSUME NEW j \in 1 .. Len(l), NEW m \in 1 .. Len(l), l[j] = l[m] PROVE j = m
  <2> DEFINE a == IF j < k THEN j ELSE j + 1
             b == IF m < k THEN m ELSE m + 1
  <2>1. a \in 1 .. Len(s) /\ b \in 1 .. Len(s) /\ (a = b => j = m)
    BY <1>3
  <2>2. l[j] = s[a] /\ l[m] = s[b]
    BY <1>1, <1>3
  <2> QED
    BY <1>4, <2>1, <2>2
<1> QED
  BY <1>2, <1>3, <1>4 DEF l

\* Guard starts in its invariant.
LEMMA InitGuardInv == D!Init => GuardInv
<1> SUFFICES ASSUME D!Init PROVE GuardInv
  OBVIOUS
<1>1. MaxOpen \in Nat
  BY LibraryAssumption DEF D!GuardAssumption
<1>2. <<>> \in Seq(Values)
  OBVIOUS
<1>3. GuardTypeOK
  BY <1>2 DEF D!Init, GuardTypeOK
<1>4. \A t \in Types : open[t] = <<>> /\ records[t] = <<>> /\ node[t] = FALSE
  BY DEF D!Init
<1>5. OpenAreDifferent /\ D!GuardExact
  BY <1>1, <1>4 DEF OpenAreDifferent, D!GuardExact
<1> QED
  BY <1>3, <1>5 DEF GuardInv

\* What is begun was not open, and is the latest then.
LEMMA GuardBegin ==
    ASSUME Equal = FALSE, GuardInv, NEW t \in Types, NEW v \in Values, D!Begin(t, v)
    PROVE  GuardInv'
<1> DEFINE s == open[t]
           new == Append(s, v)
<1>1. GuardTypeOK /\ s \in Seq(Values) /\ Len(s) < MaxOpen /\ MaxOpen \in Nat
  BY LibraryAssumption DEF D!GuardAssumption, D!Begin, GuardInv, GuardTypeOK
<1>2. \A j \in 1 .. Len(s) : s[j] # v
  BY DEF D!Begin, D!Holds
<1>3. /\ new \in Seq(Values) /\ Len(new) = Len(s) + 1 /\ new[Len(s) + 1] = v /\ new # <<>>
      /\ \A j \in 1 .. Len(s) : new[j] = s[j]
  BY <1>1
<1>4. \A j, k \in 1 .. Len(s) : s[j] = s[k] => j = k
  BY DEF GuardInv, OpenAreDifferent
<1>5. \A j, k \in 1 .. Len(s) + 1 : new[j] = new[k] => j = k
  <2> SUFFICES ASSUME NEW j \in 1 .. Len(s) + 1, NEW k \in 1 .. Len(s) + 1, new[j] = new[k] PROVE j = k
    OBVIOUS
  <2> HIDE DEF new, s
  <2>1. j \in 1 .. Len(s) \/ j = Len(s) + 1
    BY <1>1
  <2>2. k \in 1 .. Len(s) \/ k = Len(s) + 1
    BY <1>1
  <2> QED
    BY <1>2, <1>3, <1>4, <2>1, <2>2
<1>6. /\ records[t] = s /\ (node[t] <=> s # <<>>) /\ (node[t] => num_record[t] = Len(s))
      /\ (~node[t] => Len(s) = 0)
  BY DEF GuardInv, D!GuardExact
<1>7. /\ node' = [node EXCEPT ![t] = TRUE]
      /\ num_record' = [num_record EXCEPT ![t] = Len(s) + 1]
      /\ records' = [records EXCEPT ![t] = new]
      /\ open' = [open EXCEPT ![t] = new]
  <2>1. (IF node[t] THEN num_record[t] ELSE 0) + 1 = Len(s) + 1
    BY <1>6
  <2>2. Append(IF node[t] THEN records[t] ELSE <<>>, v) = new
    BY <1>6
  <2> HIDE DEF new, s
  <2> QED
    BY <2>1, <2>2 DEF D!Begin, new, s
<1> HIDE DEF new, s
<1>8. GuardTypeOK'
  BY <1>1, <1>3, <1>7 DEF GuardTypeOK
<1>9. \A u \in Types :
         /\ u = t => node'[u] = TRUE /\ num_record'[u] = Len(s) + 1 /\ records'[u] = new /\ open'[u] = new
         /\ u # t => /\ node'[u] = node[u] /\ num_record'[u] = num_record[u]
                     /\ records'[u] = records[u] /\ open'[u] = open[u]
  BY <1>1, <1>7 DEF GuardTypeOK
<1>10. OpenAreDifferent'
  BY <1>1, <1>3, <1>5, <1>9 DEF GuardInv, OpenAreDifferent
<1>11. D!GuardExact'
  BY <1>3, <1>9 DEF GuardInv, D!GuardExact
<1> QED
  BY <1>8, <1>10, <1>11 DEF GuardInv

\* What is ended was open once, and is nowhere then.
LEMMA GuardEnd ==
    ASSUME Equal = FALSE, GuardInv, NEW t \in Types, NEW v \in Values, D!End(t, v)
    PROVE  GuardInv'
<1> DEFINE s == open[t]
<1>0. GuardTypeOK /\ s \in Seq(Values) /\ Len(s) <= MaxOpen /\ MaxOpen \in Nat /\ Word \in Nat /\ MaxOpen < Word
  BY LibraryAssumption DEF D!GuardAssumption, GuardInv, GuardTypeOK, OpenAreDifferent
<1>1. /\ records[t] = s /\ (node[t] <=> s # <<>>) /\ (node[t] => num_record[t] = Len(s))
  BY DEF GuardInv, D!GuardExact
<1>2. \A j, k \in 1 .. Len(s) : s[j] = s[k] => j = k
  BY DEF GuardInv, OpenAreDifferent
<1>3. CASE ~D!Found(t, v)
  BY <1>3 DEF D!End, GuardInv, GuardTypeOK, OpenAreDifferent, D!GuardExact
<1>4. CASE D!Found(t, v)
  <2>1. PICK k \in 1 .. Len(s) : s[k] = v
    BY <1>1, <1>4 DEF D!Found, D!Holds
  <2> DEFINE new == Left(s, k, Len(s))
  <2>2. \A j \in 1 .. Len(s) : j # k => s[j] # v
    BY <1>2, <2>1
  <2>3. /\ new \in Seq(Values) /\ Len(new) = Len(s) - 1
        /\ \A j, m \in 1 .. Len(new) : new[j] = new[m] => j = m
    <3> HIDE DEF s
    <3> QED
      BY <1>0, <1>2, LeftIsDifferent
  <2>4. D!Without(records[t], v) = new /\ D!Closed(open[t], v) = new
    BY <1>0, <1>1, <2>1, <2>2, RemovesOne, RemovesFirst
  <2>5. num_record[t] = Len(s) /\ Len(s) \in 1 .. MaxOpen
    BY <1>0, <1>1, <1>4, <2>1 DEF D!Found
  <2>6. (num_record[t] + Word - 1) % Word = Len(s) - 1
    <3> DEFINE l == Len(s) - 1
    <3>1. l \in 0 .. Word - 1 /\ Word \in Nat /\ Word > l /\ num_record[t] + Word - 1 = Word + l
      BY <1>0, <2>5
    <3> HIDE DEF l
    <3>2. (Word + l) % Word = l
      BY <3>1
    <3> QED
      BY <3>1, <3>2 DEF l
  <2>7. new = <<>> <=> Len(s) - 1 = 0
    BY <2>3, EmptySeq
  <2> HIDE DEF s, new
  <2>8. /\ num_record' = [num_record EXCEPT ![t] = Len(s) - 1]
        /\ node' = [node EXCEPT ![t] = Len(s) - 1 # 0]
        /\ records' = [records EXCEPT ![t] = new]
        /\ open' = [open EXCEPT ![t] = new]
    BY <1>4, <2>4, <2>6, <2>7 DEF D!End
  <2>9. GuardTypeOK'
    BY <1>0, <2>3, <2>5, <2>8 DEF GuardTypeOK
  <2>10. \A u \in Types :
         /\ u = t => /\ node'[u] = (Len(s) - 1 # 0) /\ num_record'[u] = Len(s) - 1
                     /\ records'[u] = new /\ open'[u] = new
         /\ u # t => /\ node'[u] = node[u] /\ num_record'[u] = num_record[u]
                     /\ records'[u] = records[u] /\ open'[u] = open[u]
    BY <1>0, <2>8 DEF GuardTypeOK
  <2>11. OpenAreDifferent'
    <3>1. Len(new) <= MaxOpen
      BY <1>0, <2>3, <2>5
    <3>2. /\ Len(open'[t]) <= MaxOpen
          /\ \A j, m \in 1 .. Len(open'[t]) : open'[t][j] = open'[t][m] => j = m
      BY <2>3, <2>10, <3>1
    <3>3. ASSUME NEW u \in Types, u # t
          PROVE  /\ Len(open'[u]) <= MaxOpen
                 /\ \A j, m \in 1 .. Len(open'[u]) : open'[u][j] = open'[u][m] => j = m
      BY <2>10, <3>3 DEF GuardInv, OpenAreDifferent
    <3> QED
      BY <3>2, <3>3 DEF OpenAreDifferent
  <2>12. D!GuardExact'
    <3>1. /\ records'[t] = open'[t] /\ (node'[t] <=> open'[t] # <<>>)
          /\ (node'[t] => num_record'[t] = Len(open'[t]))
      BY <2>3, <2>7, <2>10
    <3>2. ASSUME NEW u \in Types, u # t
          PROVE  /\ records'[u] = open'[u] /\ (node'[u] <=> open'[u] # <<>>)
                 /\ (node'[u] => num_record'[u] = Len(open'[u]))
      <4>1. /\ records[u] = open[u] /\ (node[u] <=> open[u] # <<>>)
            /\ (node[u] => num_record[u] = Len(open[u]))
        BY DEF GuardInv, D!GuardExact
      <4>2. /\ node'[u] = node[u] /\ num_record'[u] = num_record[u]
            /\ records'[u] = records[u] /\ open'[u] = open[u]
        BY <2>10, <3>2
      <4> QED
        BY <4>1, <4>2
    <3> QED
      BY <3>1, <3>2 DEF D!GuardExact
  <2> QED
    BY <2>9, <2>11, <2>12 DEF GuardInv
<1> QED
  BY <1>3, <1>4

\* Every step keeps it, unless equal objects are removed together.
LEMMA NextGuardInv == Equal = FALSE /\ GuardInv /\ [Next]_vars => GuardInv'
<1> SUFFICES ASSUME Equal = FALSE, GuardInv, [Next]_vars PROVE GuardInv'
  OBVIOUS
<1>1. CASE UNCHANGED guardVars
  BY <1>1 DEF guardVars, GuardInv, GuardTypeOK, OpenAreDifferent, D!GuardExact
<1>2. CASE D!Next
  BY <1>2, GuardBegin, GuardEnd DEF D!Next
<1> QED
  BY <1>1, <1>2, StepsOfParts

\* What type guards remember (guard.c) is what is open, and a type of which
\* nothing is open has no node, as long as no two equal variables of a type
\* are guarded at a time.
THEOREM GuardsAreExact == Equal = FALSE /\ Spec => []GuardExact
<1> SUFFICES ASSUME Equal = FALSE PROVE Spec => []GuardExact
  OBVIOUS
<1>1. Init => GuardInv
  BY StartOfParts, InitGuardInv
<1>2. GuardInv /\ [Next]_vars => GuardInv'
  BY NextGuardInv
<1>3. GuardInv => GuardExact
  BY DEF GuardInv, GuardExact
<1> QED
  BY <1>1, <1>2, <1>3, PTL DEF Spec

-----------------------------------------------------------------------------
(***************************************************************************)
(* Directories.  What exists lies in a directory and is never taken away,  *)
(* so a maker that was told its last directory is there has all of them;   *)
(* a name that it went past exists, be it a file, and then it fails at the *)
(* next one.                                                               *)
(***************************************************************************)
FileNames == UNION {{p[k] : k \in DOMAIN p} : p \in Paths}

\* The prefix of p of length n.
Upper(p, n) == SubSeq(p, 1, n)

\* What a path can be.
Kinds == {"none", "directory", "file"}

\* What is there hangs together.
TreeIsWhole ==
    /\ file \in [Paths -> Kinds]
    /\ file[<<>>] = "directory"
    /\ \A p \in Paths : p # <<>> /\ file[p] # "none" => file[K!Parent(p)] = "directory"

\* The types of what one caller of mys_ensure_parent holds.
MakerTypeOK(m) ==
    /\ wanted[m] \in Paths
    /\ depth[m] \in 0 .. Len(wanted[m])
    /\ at[m] \in {"stat", "mkdir", "made", "failed"}

\* The maker hindered on its way: this does not change any more.
Hindered(m) ==
    \E n \in 0 .. Len(wanted[m]) :
        LET p == Upper(wanted[m], n)
        IN file[p] = "file" \/ (p \in Denied /\ file[p] # "directory")

\* A directory is at a path, or a stranger's file in its place.
Comes(what, p) == what = "directory" \/ (p \in Strangers /\ what = "file")
Arrived(m) == Comes(file[wanted[m]], wanted[m])

\* What a maker went past exists.  What it found missing is missing, or there is
\* a directory or a stranger's file now.
MakerInv(m) ==
    /\ MakerTypeOK(m)
    /\ \A n \in 0 .. depth[m] - 1 : file[Upper(wanted[m], n)] # "none"
    /\ at[m] = "mkdir" /\ file[K!Prefix(m)] = "file" => K!Prefix(m) \in Strangers
    /\ at[m] = "made" => Arrived(m)
    /\ at[m] = "failed" => Hindered(m)

\* The inductive invariant of Directories.
DirInv ==
    /\ TreeIsWhole
    /\ wanted \in [Makers -> Paths] /\ depth \in [Makers -> Nat]
    /\ at \in [Makers -> {"stat", "mkdir", "made", "failed"}]
    /\ \A m \in Makers : MakerInv(m)

\* Paths are closed under taking the beginning of one.
LEMMA PathsAreSeqs == \A p \in Paths : p \in Seq(FileNames)
<1> SUFFICES ASSUME NEW p \in Paths PROVE p \in Seq(FileNames)
  OBVIOUS
<1>1. p \in Seq({p[k] : k \in DOMAIN p})
  BY LibraryAssumption DEF K!DirectoriesAssumption
<1>2. {p[k] : k \in DOMAIN p} \subseteq FileNames
  BY DEF FileNames
<1> QED
  BY <1>1, <1>2

\* What the prefix of a path is.
LEMMA UpperProperties ==
    ASSUME NEW p \in Paths, NEW n \in 0 .. Len(p)
    PROVE  /\ Upper(p, n) \in Seq(FileNames) /\ Len(Upper(p, n)) = n
           /\ n = 0 => Upper(p, n) = <<>>
           /\ n # 0 => Upper(p, n) # <<>> /\ K!Parent(Upper(p, n)) = Upper(p, n - 1)
           /\ Upper(p, Len(p)) = p
<1>1. p \in Seq(FileNames) /\ Len(p) \in Nat /\ n \in Nat
  BY PathsAreSeqs
<1>2. Upper(p, n) \in Seq(FileNames) /\ Len(Upper(p, n)) = n /\ \A k \in 1 .. n : Upper(p, n)[k] = p[k]
  BY <1>1 DEF Upper
<1>3. n = 0 => Upper(p, n) = <<>>
  BY <1>2, EmptySeq
<1>4. ASSUME n # 0 PROVE Upper(p, n) # <<>> /\ K!Parent(Upper(p, n)) = Upper(p, n - 1)
  <2> DEFINE a == Upper(p, n)
             b == K!Parent(a)
             c == Upper(p, n - 1)
  <2>1. b = SubSeq(a, 1, n - 1)
    BY <1>2 DEF K!Parent
  <2>2. a \in Seq(FileNames) /\ Len(a) = n /\ \A k \in 1 .. n : a[k] = p[k]
    BY <1>2
  <2>3. c \in Seq(FileNames) /\ Len(c) = n - 1 /\ \A k \in 1 .. n - 1 : c[k] = p[k]
    BY <1>1, <1>4 DEF Upper
  <2> HIDE DEF a, c
  <2>4. b \in Seq(FileNames) /\ Len(b) = n - 1 /\ \A k \in 1 .. n - 1 : b[k] = a[k]
    BY <1>1, <1>4, <2>1, <2>2
  <2> HIDE DEF b
  <2>5. b = c
    BY <2>2, <2>3, <2>4, SeqEqual
  <2>6. a # <<>>
    BY <1>4, <2>2
  <2> QED
    BY <2>5, <2>6 DEF a, b, c
<1>5. Upper(p, Len(p)) = p
  <2> DEFINE a == Upper(p, Len(p))
  <2>1. a \in Seq(FileNames) /\ Len(a) = Len(p) /\ \A k \in 1 .. Len(p) : a[k] = p[k]
    BY <1>1 DEF Upper
  <2> HIDE DEF a
  <2>2. a = p
    BY <1>1, <2>1, SeqEqual
  <2> QED
    BY <2>2 DEF a
<1> QED
  BY <1>2, <1>3, <1>4, <1>5

\* The parent of a path is a path.
LEMMA UpperIsPath ==
    ASSUME NEW p \in Paths, NEW n \in 0 .. Len(p)
    PROVE  Upper(p, n) \in Paths
<1> DEFINE good == {k \in Nat : k <= Len(p) => Upper(p, Len(p) - k) \in Paths}
<1>0. Len(p) \in Nat /\ p \in Seq(FileNames)
  BY PathsAreSeqs
<1>1. 0 \in good
  <2>1. Upper(p, Len(p)) = p
    BY UpperProperties
  <2>2. Len(p) - 0 = Len(p)
    BY <1>0
  <2> QED
    BY <2>1, <2>2
<1>2. ASSUME NEW k \in Nat, k \in good PROVE k + 1 \in good
  <2> SUFFICES ASSUME k + 1 <= Len(p) PROVE Upper(p, Len(p) - (k + 1)) \in Paths
    OBVIOUS
  <2> DEFINE l == Len(p) - k
  <2>1. l \in 0 .. Len(p) /\ l # 0 /\ l - 1 = Len(p) - (k + 1) /\ k <= Len(p)
    BY <1>0, SMTT(30)
  <2>2. Upper(p, l) \in Paths
    BY <1>2, <2>1
  <2> HIDE DEF l
  <2>3. Upper(p, l) # <<>> /\ K!Parent(Upper(p, l)) = Upper(p, l - 1)
    BY <2>1, UpperProperties
  <2>4. K!Parent(Upper(p, l)) \in Paths
    BY <2>2, <2>3, LibraryAssumption DEF K!DirectoriesAssumption
  <2> QED
    BY <2>1, <2>3, <2>4
<1> HIDE DEF good
<1>3. Len(p) - n \in good
  <2>1. Len(p) - n \in Nat
    BY <1>0
  <2> QED
    BY <1>1, <1>2, <2>1, SetInduction
<1>4. Len(p) - (Len(p) - n) = n /\ Len(p) - n <= Len(p)
  BY <1>0
<1> QED
  BY <1>3, <1>4 DEF good

\* Above what exists, there are directories.
LEMMA DirectoriesAbove ==
    ASSUME TreeIsWhole, NEW p \in Paths, file[p] # "none", NEW n \in 0 .. Len(p)
    PROVE  file[Upper(p, n)] # "none" /\ (n # Len(p) => file[Upper(p, n)] = "directory")
<1> DEFINE good == {k \in Nat : k <= Len(p) => file[Upper(p, Len(p) - k)] # "none"}
<1>0. Len(p) \in Nat /\ p \in Seq(FileNames)
  BY PathsAreSeqs
<1>1. 0 \in good
  <2>1. Upper(p, Len(p)) = p
    BY UpperProperties
  <2>2. Len(p) - 0 = Len(p)
    BY <1>0
  <2> QED
    BY <2>1, <2>2
<1>2. ASSUME NEW k \in Nat, k \in good PROVE k + 1 \in good
  <2> SUFFICES ASSUME k + 1 <= Len(p) PROVE file[Upper(p, Len(p) - (k + 1))] # "none"
    OBVIOUS
  <2> DEFINE l == Len(p) - k
  <2>1. l \in 0 .. Len(p) /\ l # 0 /\ l - 1 = Len(p) - (k + 1) /\ k <= Len(p)
    BY <1>0, SMTT(30)
  <2>2. file[Upper(p, l)] # "none"
    BY <1>2, <2>1
  <2> HIDE DEF l
  <2>3. Upper(p, l) \in Paths /\ Upper(p, l) # <<>> /\ K!Parent(Upper(p, l)) = Upper(p, l - 1)
    BY <2>1, UpperIsPath, UpperProperties
  <2>4. file[K!Parent(Upper(p, l))] = "directory"
    BY <2>2, <2>3 DEF TreeIsWhole
  <2> QED
    BY <2>1, <2>3, <2>4
<1> HIDE DEF good
<1>3. ASSUME NEW l \in 0 .. Len(p) PROVE file[Upper(p, l)] # "none"
  <2>1. Len(p) - l \in Nat /\ Len(p) - (Len(p) - l) = l /\ Len(p) - l <= Len(p)
    BY <1>0, SMTT(30)
  <2>2. Len(p) - l \in good
    BY <1>1, <1>2, <2>1, SetInduction
  <2> QED
    BY <2>1, <2>2 DEF good
<1>4. ASSUME n # Len(p) PROVE file[Upper(p, n)] = "directory"
  <2> DEFINE l == n + 1
  <2>1. l \in 0 .. Len(p) /\ l # 0 /\ l - 1 = n
    BY <1>0, <1>4
  <2> HIDE DEF l
  <2>2. file[Upper(p, l)] # "none" /\ Upper(p, l) \in Paths
    BY <1>3, <2>1, UpperIsPath
  <2>3. Upper(p, l) # <<>> /\ K!Parent(Upper(p, l)) = Upper(p, n)
    BY <2>1, UpperProperties
  <2> QED
    BY <2>2, <2>3 DEF TreeIsWhole
<1> QED
  BY <1>3, <1>4

\* What is there stays, nobody makes a denied directory, and a file that comes
\* is a stranger's.
FileGrows ==
    /\ file' \in [Paths -> Kinds]
    /\ \A p \in Paths :
         /\ file[p] # "none" => file'[p] = file[p]
         /\ p \in Denied /\ file'[p] = "directory" => file[p] = "directory"
         /\ file'[p] = "file" /\ file[p] # "file" => p \in Strangers

\* The file system stays whole when a path gets a kind under a directory.
LEMMA TreeGrows ==
    ASSUME TreeIsWhole, NEW q \in Paths, NEW kind, file[q] = "none", K!Below(q),
           file' = [file EXCEPT ![q] = kind],
           \/ kind = "directory" /\ q \notin Denied
           \/ kind = "file" /\ q \in Strangers
    PROVE  TreeIsWhole' /\ FileGrows
<1>1. file' \in [Paths -> Kinds]
  BY DEF TreeIsWhole, Kinds
<1>2. \A p \in Paths : file'[p] = IF p = q THEN kind ELSE file[p]
  BY DEF TreeIsWhole
<1>3. q # <<>> /\ file[K!Parent(q)] = "directory"
  BY DEF K!Below
<1>4. FileGrows
  BY <1>1, <1>2 DEF FileGrows
<1>5. <<>> \in Paths /\ \A p \in Paths : p # <<>> => K!Parent(p) \in Paths
  BY LibraryAssumption DEF K!DirectoriesAssumption
<1>6. file'[<<>>] = "directory"
  BY <1>2, <1>3, <1>5 DEF TreeIsWhole
<1>7. ASSUME NEW p \in Paths, p # <<>>, file'[p] # "none" PROVE file'[K!Parent(p)] = "directory"
  <2>1. file[K!Parent(p)] = "directory"
    BY <1>2, <1>3, <1>7 DEF TreeIsWhole
  <2>2. K!Parent(p) \in Paths
    BY <1>5, <1>7
  <2> QED
    BY <1>2, <2>1, <2>2
<1> QED
  BY <1>1, <1>4, <1>6, <1>7 DEF TreeIsWhole

\* It stays whole when nothing is made.
LEMMA SameTree == TreeIsWhole /\ UNCHANGED file => TreeIsWhole' /\ FileGrows
BY DEF TreeIsWhole, FileGrows

\* Being hindered, or past a name, is not undone by others.
LEMMA HinderedStays ==
    ASSUME NEW m, MakerTypeOK(m), Hindered(m), FileGrows, TreeIsWhole, wanted'[m] = wanted[m]
    PROVE  Hindered(m)'
<1>1. wanted[m] \in Paths
  BY DEF MakerTypeOK
<1>2. PICK n \in 0 .. Len(wanted[m]) :
          \/ file[Upper(wanted[m], n)] = "file"
          \/ Upper(wanted[m], n) \in Denied /\ file[Upper(wanted[m], n)] # "directory"
  BY DEF Hindered
<1> DEFINE p == Upper(wanted[m], n)
<1>3. p \in Paths
  BY <1>1, UpperIsPath
<1>4. Upper(wanted[m], n)' = p
  BY DEF Upper
<1>5. file'[p] = "file" \/ (p \in Denied /\ file'[p] # "directory")
  <2> HIDE DEF p
  <2>1. CASE file[p] = "file"
    BY <1>3, <2>1 DEF FileGrows
  <2>2. CASE p \in Denied /\ file[p] # "directory"
    BY <1>3, <2>2 DEF FileGrows
  <2> QED
    BY <1>2, <2>1, <2>2 DEF p
<1> QED
  BY <1>4, <1>5 DEF Hindered

\* What a caller knows stays true while others make directories.
LEMMA MakerStays ==
    ASSUME NEW m, MakerInv(m), TreeIsWhole, FileGrows,
           wanted'[m] = wanted[m], depth'[m] = depth[m], at'[m] = at[m]
    PROVE  MakerInv(m)'
<1>1. MakerTypeOK(m) /\ MakerTypeOK(m)' /\ wanted[m] \in Paths /\ depth[m] \in 0 .. Len(wanted[m]) /\ Len(wanted[m]) \in Nat
  BY PathsAreSeqs DEF MakerInv, MakerTypeOK
<1>2. \A n : Upper(wanted[m], n)' = Upper(wanted[m], n)
  BY DEF Upper
<1>3. ASSUME NEW n \in 0 .. depth[m] - 1 PROVE file'[Upper(wanted[m], n)] # "none"
  <2>1. n \in 0 .. Len(wanted[m])
    BY <1>1
  <2>2. Upper(wanted[m], n) \in Paths
    BY <1>1, <2>1, UpperIsPath
  <2>3. file[Upper(wanted[m], n)] # "none"
    BY <1>3 DEF MakerInv
  <2> QED
    BY <2>2, <2>3 DEF FileGrows
<1>4. K!Prefix(m) \in Paths /\ K!Prefix(m)' = K!Prefix(m)
  <2>1. K!Prefix(m) = Upper(wanted[m], depth[m])
    BY DEF K!Prefix, Upper
  <2>2. K!Prefix(m)' = K!Prefix(m)
    BY DEF K!Prefix
  <2> QED
    BY <1>1, <2>1, <2>2, UpperIsPath
<1>5. at[m] = "mkdir" /\ file'[K!Prefix(m)] = "file" => K!Prefix(m) \in Strangers
  BY <1>4 DEF MakerInv, FileGrows
<1>6. at[m] = "made" => Arrived(m)'
  <2> SUFFICES ASSUME Arrived(m) PROVE Arrived(m)'
    BY DEF MakerInv
  <2>1. file[wanted[m]] # "none"
    BY DEF Arrived, Comes
  <2>2. file'[wanted[m]] = file[wanted[m]]
    BY <1>1, <2>1 DEF FileGrows
  <2> QED
    BY <2>2 DEF Arrived, Comes
<1>7. at[m] = "failed" => Hindered(m)'
  BY <1>1, HinderedStays DEF MakerInv
<1>8. \A n \in 0 .. depth'[m] - 1 : file'[Upper(wanted'[m], n)] # "none"
  BY <1>3
<1>9. at'[m] = "mkdir" /\ file'[K!Prefix(m)'] = "file" => K!Prefix(m)' \in Strangers
  BY <1>4, <1>5
<1> QED
  BY <1>1, <1>6, <1>7, <1>8, <1>9 DEF MakerInv

\* A maker goes on when the name it is at exists.
LEMMA MakerSucceeds ==
    ASSUME DirInv, NEW m \in Makers, K!Succeed(m), FileGrows, UNCHANGED wanted,
           file'[K!Prefix(m)] # "none",
           depth[m] = Len(wanted[m]) => Comes(file'[K!Prefix(m)], K!Prefix(m))
    PROVE  /\ MakerInv(m)'
           /\ \A u \in Makers : u # m => depth'[u] = depth[u] /\ at'[u] = at[u]
           /\ depth' \in [Makers -> Nat] /\ at' \in [Makers -> {"stat", "mkdir", "made", "failed"}]
<1>0. /\ MakerInv(m) /\ wanted[m] \in Paths
      /\ depth[m] \in 0 .. Len(wanted[m]) /\ Len(wanted[m]) \in Nat
      /\ depth \in [Makers -> Nat] /\ at \in [Makers -> {"stat", "mkdir", "made", "failed"}]
      /\ TreeIsWhole
  BY PathsAreSeqs DEF DirInv, MakerInv, MakerTypeOK
<1>1. K!Prefix(m) = Upper(wanted[m], depth[m])
  BY DEF K!Prefix, Upper
<1>2. \A n \in 0 .. depth[m] : file'[Upper(wanted[m], n)] # "none"
  <2> SUFFICES ASSUME NEW n \in 0 .. depth[m], n # depth[m] PROVE file'[Upper(wanted[m], n)] # "none"
    BY <1>1
  <2>1. n \in 0 .. depth[m] - 1 /\ n \in 0 .. Len(wanted[m])
    BY <1>0
  <2>2. file[Upper(wanted[m], n)] # "none"
    BY <1>0, <2>1 DEF MakerInv
  <2>3. Upper(wanted[m], n) \in Paths
    BY <1>0, <2>1, UpperIsPath
  <2> QED
    BY <2>2, <2>3 DEF FileGrows
<1>3. CASE depth[m] = Len(wanted[m])
  <2>1. at' = [at EXCEPT ![m] = "made"] /\ depth' = depth
    BY <1>3 DEF K!Succeed
  <2>2. at'[m] = "made" /\ \A u \in Makers : u # m => at'[u] = at[u]
    BY <1>0, <2>1
  <2>3. Arrived(m)'
    <3>1. K!Prefix(m) = wanted[m]
      BY <1>0, <1>1, <1>3, UpperProperties
    <3> QED
      BY <1>3, <3>1 DEF Arrived
  <2>4. MakerTypeOK(m)'
    BY <1>0, <2>1, <2>2 DEF MakerTypeOK
  <2>5. MakerInv(m)'
    BY <1>0, <1>2, <2>1, <2>2, <2>3, <2>4 DEF MakerInv
  <2> QED
    BY <1>0, <2>1, <2>2, <2>5
<1>4. CASE depth[m] # Len(wanted[m])
  <2>1. at' = [at EXCEPT ![m] = "stat"] /\ depth' = [depth EXCEPT ![m] = depth[m] + 1]
    BY <1>4 DEF K!Succeed
  <2>2. /\ at'[m] = "stat" /\ depth'[m] = depth[m] + 1
        /\ \A u \in Makers : u # m => at'[u] = at[u] /\ depth'[u] = depth[u]
    BY <1>0, <2>1
  <2>3. MakerTypeOK(m)'
    BY <1>0, <1>4, <2>2 DEF MakerTypeOK
  <2>4. \A n \in 0 .. depth'[m] - 1 : file'[Upper(wanted[m], n)] # "none"
    BY <1>0, <1>2, <2>2
  <2>5. MakerInv(m)'
    BY <1>0, <2>2, <2>3, <2>4 DEF MakerInv
  <2>6. depth' \in [Makers -> Nat] /\ at' \in [Makers -> {"stat", "mkdir", "made", "failed"}]
    BY <1>0, <2>1
  <2> QED
    BY <2>2, <2>5, <2>6
<1> QED
  BY <1>3, <1>4

\* A maker fails that is hindered.
LEMMA MakerFails ==
    ASSUME DirInv, NEW m \in Makers, K!Fail(m), UNCHANGED <<file, wanted>>, Hindered(m)
    PROVE  DirInv'
<1>0. /\ MakerInv(m) /\ TreeIsWhole /\ MakerTypeOK(m)
      /\ at \in [Makers -> {"stat", "mkdir", "made", "failed"}]
  BY DEF DirInv, MakerInv
<1>1. TreeIsWhole' /\ FileGrows
  BY <1>0, SameTree
<1>2. /\ at'[m] = "failed" /\ depth' = depth /\ \A u \in Makers : u # m => at'[u] = at[u]
      /\ at' \in [Makers -> {"stat", "mkdir", "made", "failed"}]
  BY <1>0 DEF K!Fail
<1>3. Hindered(m)'
  BY <1>0, <1>1, HinderedStays
<1>4. MakerInv(m)'
  BY <1>0, <1>2, <1>3 DEF MakerInv, MakerTypeOK
<1>5. \A u \in Makers : u # m => MakerInv(u)'
  BY <1>0, <1>1, <1>2, MakerStays DEF DirInv
<1> QED
  BY <1>1, <1>2, <1>4, <1>5 DEF DirInv

\* One step each: the invariant is kept.
LEMMA DirStat == ASSUME DirInv, NEW m \in Makers, K!Stat(m) PROVE DirInv'
<1>0. /\ MakerInv(m) /\ TreeIsWhole /\ MakerTypeOK(m) /\ UNCHANGED <<file, wanted>> /\ at[m] = "stat"
      /\ at \in [Makers -> {"stat", "mkdir", "made", "failed"}]
      /\ wanted[m] \in Paths /\ depth[m] \in 0 .. Len(wanted[m])
  BY DEF DirInv, MakerInv, MakerTypeOK, K!Stat
<1>1. TreeIsWhole' /\ FileGrows
  BY <1>0, SameTree
<1>2. K!Prefix(m) = Upper(wanted[m], depth[m])
  BY DEF K!Prefix, Upper
<1>3. CASE file[K!Prefix(m)] = "none" /\ at' = [at EXCEPT ![m] = "mkdir"] /\ UNCHANGED depth
  <2>1. /\ at'[m] = "mkdir" /\ \A u \in Makers : u # m => at'[u] = at[u]
        /\ at' \in [Makers -> {"stat", "mkdir", "made", "failed"}]
    BY <1>0, <1>3
  <2>2. K!Prefix(m)' = K!Prefix(m)
    BY <1>0, <1>3 DEF K!Prefix
  <2>3. MakerInv(m)'
    <3>1. MakerTypeOK(m)'
      BY <1>0, <1>3, <2>1 DEF MakerTypeOK
    <3>2. \A n \in 0 .. depth[m] - 1 : file[Upper(wanted[m], n)] # "none"
      BY <1>0 DEF MakerInv
    <3> QED
      BY <1>0, <1>3, <2>1, <2>2, <3>1, <3>2 DEF MakerInv
  <2>4. \A u \in Makers : u # m => MakerInv(u)'
    BY <1>0, <1>1, <1>3, <2>1, MakerStays DEF DirInv
  <2> QED
    BY <1>0, <1>1, <1>3, <2>1, <2>3, <2>4 DEF DirInv
<1>4. CASE file[K!Prefix(m)] = "directory" /\ K!Succeed(m)
  <2>1. file'[K!Prefix(m)] = "directory"
    BY <1>0, <1>4
  <2>2. /\ MakerInv(m)'
        /\ \A u \in Makers : u # m => depth'[u] = depth[u] /\ at'[u] = at[u]
        /\ depth' \in [Makers -> Nat] /\ at' \in [Makers -> {"stat", "mkdir", "made", "failed"}]
    BY <1>0, <1>1, <1>4, <2>1, MakerSucceeds DEF Comes
  <2>3. \A u \in Makers : u # m => MakerInv(u)'
    BY <1>0, <1>1, <2>2, MakerStays DEF DirInv
  <2> QED
    BY <1>0, <1>1, <2>2, <2>3 DEF DirInv
<1>5. CASE file[K!Prefix(m)] = "file" /\ K!Fail(m)
  <2>1. Hindered(m)
    BY <1>0, <1>2, <1>5 DEF Hindered
  <2> QED
    BY <1>0, <1>5, <2>1, MakerFails
<1> QED
  BY <1>3, <1>4, <1>5 DEF K!Stat

\* mkdir makes the directory, or finds that somebody else has.
LEMMA DirMkdir == ASSUME DirInv, NEW m \in Makers, K!Mkdir(m) PROVE DirInv'
<1>0. /\ MakerInv(m) /\ TreeIsWhole /\ MakerTypeOK(m) /\ UNCHANGED wanted /\ at[m] = "mkdir"
      /\ wanted[m] \in Paths /\ depth[m] \in 0 .. Len(wanted[m])
      /\ Len(wanted[m]) \in Nat
  BY PathsAreSeqs DEF DirInv, MakerInv, MakerTypeOK, K!Mkdir
<1>1. K!Prefix(m) = Upper(wanted[m], depth[m]) /\ K!Prefix(m) \in Paths
  <2>1. K!Prefix(m) = Upper(wanted[m], depth[m])
    BY DEF K!Prefix, Upper
  <2> QED
    BY <1>0, <2>1, UpperIsPath
<1>2. depth[m] = Len(wanted[m]) => K!Prefix(m) = wanted[m]
  BY <1>0, <1>1, UpperProperties
<1>3. ASSUME TreeIsWhole', FileGrows, K!Succeed(m), file'[K!Prefix(m)] # "none",
             depth[m] = Len(wanted[m]) => Comes(file'[K!Prefix(m)], K!Prefix(m))
      PROVE  DirInv'
  <2>1. /\ MakerInv(m)'
        /\ \A u \in Makers : u # m => depth'[u] = depth[u] /\ at'[u] = at[u]
        /\ depth' \in [Makers -> Nat] /\ at' \in [Makers -> {"stat", "mkdir", "made", "failed"}]
    BY <1>0, <1>3, MakerSucceeds
  <2>2. \A u \in Makers : u # m => MakerInv(u)'
    BY <1>0, <1>3, <2>1, MakerStays DEF DirInv
  <2> QED
    BY <1>0, <1>3, <2>1, <2>2 DEF DirInv
<1>4. CASE file[K!Prefix(m)] # "none"
  <2>1. K!Succeed(m) /\ UNCHANGED file
    BY <1>4 DEF K!Mkdir
  <2>2. TreeIsWhole' /\ FileGrows
    BY <1>0, <2>1, SameTree
  <2>3. Comes(file[K!Prefix(m)], K!Prefix(m))
    <3>1. file[K!Prefix(m)] \in Kinds
      BY <1>0, <1>1 DEF TreeIsWhole
    <3>2. file[K!Prefix(m)] = "file" => K!Prefix(m) \in Strangers
      BY <1>0 DEF MakerInv
    <3> QED
      BY <1>4, <3>1, <3>2 DEF Kinds, Comes
  <2> QED
    BY <1>3, <1>4, <2>1, <2>2, <2>3
<1>5. CASE file[K!Prefix(m)] = "none" /\ K!Below(K!Prefix(m)) /\ K!Prefix(m) \notin Denied
  <2>1. K!Succeed(m) /\ file' = [file EXCEPT ![K!Prefix(m)] = "directory"]
    BY <1>5 DEF K!Mkdir
  <2>2. TreeIsWhole' /\ FileGrows
    BY <1>0, <1>1, <1>5, <2>1, TreeGrows
  <2>3. file'[K!Prefix(m)] = "directory"
    BY <1>0, <1>1, <2>1 DEF TreeIsWhole
  <2>4. file'[K!Prefix(m)] # "none" /\ Comes(file'[K!Prefix(m)], K!Prefix(m))
    BY <2>3 DEF Comes
  <2> QED
    BY <1>3, <2>1, <2>2, <2>4
<1>6. CASE file[K!Prefix(m)] = "none" /\ ~(K!Below(K!Prefix(m)) /\ K!Prefix(m) \notin Denied)
  <2>1. K!Fail(m) /\ UNCHANGED file
    BY <1>6 DEF K!Mkdir
  <2>2. CASE K!Prefix(m) \in Denied
    <3>1. Hindered(m)
      BY <1>0, <1>1, <1>6, <2>2 DEF Hindered
    <3> QED
      BY <1>0, <2>1, <3>1, MakerFails
  <2>3. CASE ~K!Below(K!Prefix(m))
    <3>1. depth[m] # 0
      <4>1. depth[m] = 0 => K!Prefix(m) = <<>>
        BY <1>0, <1>1, UpperProperties
      <4> QED
        BY <1>0, <1>6, <4>1 DEF TreeIsWhole
    <3> DEFINE n == depth[m] - 1
    <3>2. n \in 0 .. depth[m] - 1 /\ n \in 0 .. Len(wanted[m])
      BY <1>0, <3>1
    <3>3. K!Prefix(m) # <<>> /\ K!Parent(K!Prefix(m)) = Upper(wanted[m], n)
      BY <1>0, <1>1, <3>1, UpperProperties
    <3>4. file[Upper(wanted[m], n)] # "directory"
      BY <2>3, <3>3 DEF K!Below
    <3>5. file[Upper(wanted[m], n)] # "none"
      BY <1>0, <3>2 DEF MakerInv
    <3>6. file[Upper(wanted[m], n)] \in Kinds
      BY <1>0, <3>2, UpperIsPath DEF TreeIsWhole
    <3>7. file[Upper(wanted[m], n)] = "file"
      BY <3>4, <3>5, <3>6 DEF Kinds
    <3>8. Hindered(m)
      BY <3>2, <3>7 DEF Hindered
    <3> QED
      BY <1>0, <2>1, <3>8, MakerFails
  <2> QED
    BY <1>6, <2>2, <2>3
<1> QED
  BY <1>4, <1>5, <1>6

\* Another program puts a file.
LEMMA DirPutFile == ASSUME DirInv, NEW p \in Strangers, K!PutFile(p) PROVE DirInv'
<1>0. TreeIsWhole /\ p \in Paths
  BY LibraryAssumption DEF DirInv, K!DirectoriesAssumption
<1>1. /\ file[p] = "none" /\ K!Below(p) /\ file' = [file EXCEPT ![p] = "file"]
      /\ UNCHANGED <<wanted, depth, at>>
  BY DEF K!PutFile
<1>2. TreeIsWhole' /\ FileGrows
  BY <1>0, <1>1, TreeGrows
<1>3. \A u \in Makers : MakerInv(u)'
  BY <1>0, <1>1, <1>2, MakerStays DEF DirInv
<1> QED
  BY <1>1, <1>2, <1>3 DEF DirInv

\* Nobody has made anything, and who wants only the root looks at that.
LEMMA InitDirInv == K!Init => DirInv
<1> SUFFICES ASSUME K!Init PROVE DirInv
  OBVIOUS
<1>0. <<>> \in Paths /\ \A p \in Paths : p # <<>> => K!Parent(p) \in Paths
  BY LibraryAssumption DEF K!DirectoriesAssumption
<1>1. TreeIsWhole
  BY DEF K!Init, TreeIsWhole, Kinds, K!Below
<1>2. \A m \in Makers : wanted[m] \in Paths
  BY <1>0 DEF K!Init, K!Target
<1>3. wanted \in [Makers -> Paths]
  BY <1>2 DEF K!Init
<1>4. /\ depth \in [Makers -> Nat] /\ at \in [Makers -> {"stat", "mkdir", "made", "failed"}]
      /\ \A m \in Makers : at[m] = "stat" /\ depth[m] = IF wanted[m] = <<>> THEN 0 ELSE 1
  BY DEF K!Init
<1>5. ASSUME NEW m \in Makers PROVE MakerInv(m)
  <2>1. wanted[m] \in Seq(FileNames) /\ Len(wanted[m]) \in Nat /\ (wanted[m] # <<>> => Len(wanted[m]) # 0)
    BY <1>2, PathsAreSeqs, EmptySeq
  <2>2. MakerTypeOK(m)
    BY <1>2, <1>4, <2>1 DEF MakerTypeOK
  <2>3. ASSUME NEW n \in 0 .. depth[m] - 1 PROVE file[Upper(wanted[m], n)] # "none"
    <3>1. n = 0 /\ n \in 0 .. Len(wanted[m])
      BY <1>4, <2>1
    <3>2. Upper(wanted[m], n) = <<>>
      BY <1>2, <3>1, UpperProperties
    <3> QED
      BY <1>1, <3>2 DEF TreeIsWhole
  <2> QED
    BY <1>4, <2>2, <2>3 DEF MakerInv
<1> QED
  BY <1>1, <1>3, <1>4, <1>5 DEF DirInv

\* Every step of Library keeps it.
LEMMA NextDirInv == (part = "directories" => DirInv) /\ [Next]_vars => (part = "directories" => DirInv)'
<1> SUFFICES ASSUME DirInv, [Next]_vars, part = "directories" PROVE DirInv'
  BY StepsOfParts
<1>1. CASE UNCHANGED pathVars
  <2>1. UNCHANGED <<file, wanted, depth, at>>
    BY <1>1 DEF pathVars
  <2>2. TreeIsWhole' /\ FileGrows /\ TreeIsWhole
    BY <2>1, SameTree DEF DirInv
  <2>3. \A u \in Makers : MakerInv(u)'
    BY <2>1, <2>2, MakerStays DEF DirInv
  <2> QED
    BY <2>1, <2>2, <2>3 DEF DirInv
<1>2. CASE K!Next
  BY <1>2, DirStat, DirMkdir, DirPutFile DEF K!Next
<1> QED
  BY <1>1, <1>2, StepsOfParts

\* Who is told by mys_ensure_dir or mys_ensure_parent (os.c) that a directory is
\* there has all above it, and has the directory itself or, for EEXIST is taken
\* for success, a file that another program put there.  Who is told that it is
\* not was hindered by a file or a right, never by another process that makes
\* the same directories.
THEOREM DirectoriesAreMade == Spec => []DirectoriesExact
<1>1. Init => (part = "directories" => DirInv)
  BY StartOfParts, InitDirInv
<1>2. (part = "directories" => DirInv) /\ [Next]_vars => (part = "directories" => DirInv)'
  BY NextDirInv
<1>3. (part = "directories" => DirInv) => DirectoriesExact
  <2> SUFFICES ASSUME part = "directories", DirInv, NEW m \in Makers
               PROVE  LET way == {SubSeq(wanted[m], 1, n) : n \in 0 .. Len(wanted[m])}
                      IN /\ at[m] = "made" =>
                                \A p \in way :
                                    file[p] = "directory" \/ (p = wanted[m] /\ p \in Strangers /\ file[p] = "file")
                         /\ at[m] = "failed" =>
                                \E p \in way : file[p] = "file" \/ (p \in Denied /\ file[p] # "directory")
    BY DEF DirectoriesExact, K!DirectoriesExact
  <2>1. \A n : Upper(wanted[m], n) = SubSeq(wanted[m], 1, n)
    BY DEF Upper
  <2>2. MakerInv(m) /\ TreeIsWhole /\ wanted[m] \in Paths
    BY DEF DirInv, MakerInv, MakerTypeOK
  <2>3. ASSUME at[m] = "made", NEW n \in 0 .. Len(wanted[m]), NEW p, p = Upper(wanted[m], n)
        PROVE  file[p] = "directory" \/ (p = wanted[m] /\ p \in Strangers /\ file[p] = "file")
    <3>1. Comes(file[wanted[m]], wanted[m])
      BY <2>2, <2>3 DEF MakerInv, Arrived
    <3>2. CASE n = Len(wanted[m])
      <4>1. p = wanted[m]
        BY <2>2, <2>3, <3>2, UpperProperties
      <4> QED
        BY <3>1, <4>1 DEF Comes
    <3>3. CASE n # Len(wanted[m])
      <4>1. file[wanted[m]] # "none"
        BY <3>1 DEF Comes
      <4> QED
        BY <2>2, <2>3, <3>3, <4>1, DirectoriesAbove
    <3> QED
      BY <3>2, <3>3
  <2>4. at[m] = "failed" => Hindered(m)
    BY <2>2 DEF MakerInv
  <2> QED
    BY <2>1, <2>3, <2>4 DEF Hindered
<1> QED
  BY <1>1, <1>2, <1>3, PTL DEF Spec

-----------------------------------------------------------------------------
(***************************************************************************)
(* Communicator groups.  The id of a rank's group is the number of groups  *)
(* with a smaller color; a group has exactly one rank whose local rank is  *)
(* 0, so that these ranks count the groups.  The pass over the sorted rows *)
(* hands out this id, and after each row the tables are right for the      *)
(* ranks of the rows so far.                                               *)
(***************************************************************************)
\* What the pass reads: the colors, what MPI_Comm_split and qsort give.
GroupInput ==
    /\ NumRanks \in Nat \ {0} /\ me \in G!Ranks
    /\ color \in [G!Ranks -> Nat] /\ local \in [G!Ranks -> Nat]
    /\ rows \in [1 .. NumRanks -> G!Ranks]
    /\ \A r \in G!Ranks : \E m \in 1 .. NumRanks : rows[m] = r
    /\ G!Sorted(rows)
    /\ \A r \in G!Ranks : local[r] < Cardinality(G!Peers(r))
    /\ group_num = Cardinality({r \in G!Ranks : local[r] = 0})

\* Groups made from hosts, and from NUMA nodes of hosts that are alike, have a
\* color for each.
PlacesAreColors ==
    (by = "node" \/ (by = "numa" /\ G!HostsAreAlike)) => \A r, s \in G!Ranks :
        color[r] = color[s] <=> host[r] = host[s] /\ numa[r] = numa[s]

\* The groups with a smaller color, by their ranks 0, and the id they give.
LowerGroups(c, l, r) == {s \in G!Ranks : l[s] = 0 /\ c[s] < c[r]}
IdOf(c, l, r) == Cardinality(LowerGroups(c, l, r))

\* The ranks of the first n rows.
Rowed(row, n) == {row[m] : m \in 1 .. n}
Done == Rowed(rows, i - 1)

\* An entry of a table that names the one member of a set, if it has one.
NamesOne(v, sub) == v \in sub \/ (v = -1 /\ sub = {})

\* Of the ranks in done: those that rank a lists under n and under g, and those
\* that are in group g.
Brothers(c, l, a, done, n) == {r \in done : c[r] = c[a] /\ l[r] = n}
Neighbors(c, l, a, done, g) == {r \in done : IdOf(c, l, r) = g /\ l[r] = l[a]}
Members(c, l, done, g) == {r \in done : IdOf(c, l, r) = g}

\* The inductive invariant of the pass.
PassInv ==
    /\ i \in 1 .. NumRanks + 1
    /\ IF i = 1 THEN group_index = -1 /\ last_color = -1
                ELSE group_index = IdOf(color, local, rows[i - 1]) /\ last_color = color[rows[i - 1]]
    /\ group_id = IF me \in Done THEN IdOf(color, local, me) ELSE -1
    /\ _group_ids = [r \in G!Ranks |-> IF r \in Done THEN IdOf(color, local, r) ELSE -1]
    /\ _local_ranks = [r \in G!Ranks |-> IF r \in Done THEN local[r] ELSE -1]
    /\ DOMAIN _brothers = 0 .. Cardinality(G!Peers(me)) - 1
    /\ \A n \in DOMAIN _brothers : NamesOne(_brothers[n], Brothers(color, local, me, Done, n))
    /\ DOMAIN _neighbors = 0 .. group_num - 1
    /\ \A g \in DOMAIN _neighbors : NamesOne(_neighbors[g], Neighbors(color, local, me, Done, g))
    /\ DOMAIN _group_sizes = 0 .. group_num - 1
    /\ \A g \in DOMAIN _group_sizes : _group_sizes[g] = Cardinality(Members(color, local, Done, g))

GroupInv == GroupInput /\ PlacesAreColors /\ PassInv

\* Sets of ranks are finite.
LEMMA RanksAreFinite ==
    ASSUME NumRanks \in Nat
    PROVE  /\ \A sub \in SUBSET G!Ranks : IsFiniteSet(sub) /\ Cardinality(sub) \in Nat
           /\ \A big \in SUBSET G!Ranks : \A sub \in SUBSET big : Cardinality(sub) <= Cardinality(big)
           /\ \A big \in SUBSET G!Ranks : \A sub \in SUBSET big : sub # big => Cardinality(sub) < Cardinality(big)
<1>1. IsFiniteSet(G!Ranks)
  BY FS_Interval DEF G!Ranks
<1>2. ASSUME NEW sub \in SUBSET G!Ranks PROVE IsFiniteSet(sub) /\ Cardinality(sub) \in Nat
  BY <1>1, FS_Subset, FS_CardinalityType
<1>3. ASSUME NEW big \in SUBSET G!Ranks, NEW sub \in SUBSET big
      PROVE  /\ Cardinality(sub) <= Cardinality(big)
             /\ sub # big => Cardinality(sub) < Cardinality(big)
  <2>1. IsFiniteSet(big) /\ Cardinality(big) \in Nat /\ Cardinality(sub) \in Nat
    BY <1>2, <1>3
  <2>2. Cardinality(sub) <= Cardinality(big) /\ (Cardinality(big) = Cardinality(sub) => big = sub)
    BY <1>3, <2>1, FS_Subset
  <2> QED
    BY <2>1, <2>2
<1> QED
  BY <1>2, <1>3

\* A rank has one row, and ranks of one color have different local ranks.
LEMMA RowsAreDifferent ==
    ASSUME GroupInput
    PROVE  /\ \A m, n \in 1 .. NumRanks : rows[m] = rows[n] => m = n
           /\ \A r, s \in G!Ranks : color[r] = color[s] /\ local[r] = local[s] => r = s
           /\ \A m, n \in 1 .. NumRanks : m <= n => color[rows[m]] <= color[rows[n]]
<1>1. /\ color \in [G!Ranks -> Nat] /\ local \in [G!Ranks -> Nat] /\ rows \in [1 .. NumRanks -> G!Ranks]
      /\ NumRanks \in Nat /\ \A r \in G!Ranks : \E m \in 1 .. NumRanks : rows[m] = r
  BY DEF GroupInput
<1>2. ASSUME NEW m \in 1 .. NumRanks, NEW n \in 1 .. NumRanks, m < n
      PROVE  \/ color[rows[m]] < color[rows[n]]
             \/ color[rows[m]] = color[rows[n]] /\ local[rows[m]] < local[rows[n]]
  BY <1>1, <1>2 DEF GroupInput, G!Sorted
<1>3. ASSUME NEW m \in 1 .. NumRanks PROVE color[rows[m]] \in Nat /\ local[rows[m]] \in Nat
  BY <1>1
<1>4. ASSUME NEW m \in 1 .. NumRanks, NEW n \in 1 .. NumRanks,
             color[rows[m]] = color[rows[n]], local[rows[m]] = local[rows[n]]
      PROVE  m = n
  BY <1>1, <1>2, <1>3, <1>4
<1>5. ASSUME NEW m \in 1 .. NumRanks, NEW n \in 1 .. NumRanks, m <= n
      PROVE  color[rows[m]] <= color[rows[n]]
  <2>1. CASE m = n
    BY <1>3, <2>1
  <2>2. CASE m # n
    <3>1. color[rows[m]] \in Nat /\ color[rows[n]] \in Nat
      BY <1>3
    <3>2. m < n
      BY <1>1, <1>5, <2>2
    <3>3. color[rows[m]] < color[rows[n]] \/ color[rows[m]] = color[rows[n]]
      BY <1>2, <3>2
    <3> QED
      BY <3>1, <3>3
  <2> QED
    BY <2>1, <2>2
<1>6. ASSUME NEW r \in G!Ranks, NEW s \in G!Ranks, color[r] = color[s], local[r] = local[s]
      PROVE  r = s
  <2>1. PICK m \in 1 .. NumRanks : rows[m] = r
    BY <1>1
  <2>2. PICK n \in 1 .. NumRanks : rows[n] = s
    BY <1>1
  <2> QED
    BY <1>4, <1>6, <2>1, <2>2
<1> QED
  BY <1>4, <1>5, <1>6

\* Local ranks of a group have no gap.
LEMMA LocalsFill ==
    ASSUME GroupInput, NEW r \in G!Ranks
    PROVE  /\ Cardinality(G!Peers(r)) \in Nat \ {0}
           /\ \A s \in G!Peers(r) : local[s] \in 0 .. Cardinality(G!Peers(r)) - 1
           /\ \A n \in 0 .. Cardinality(G!Peers(r)) - 1 : \E s \in G!Peers(r) : local[s] = n
<1> DEFINE group == G!Peers(r)
           c == Cardinality(group)
           f == [s \in group |-> local[s]]
<1>1. /\ NumRanks \in Nat /\ local \in [G!Ranks -> Nat]
      /\ \A s \in G!Ranks : local[s] < Cardinality(G!Peers(s))
  BY DEF GroupInput
<1>2. group \subseteq G!Ranks /\ r \in group /\ \A s \in group : color[s] = color[r] /\ G!Peers(s) = group
  BY DEF G!Peers
<1>3. IsFiniteSet(group) /\ c \in Nat
  BY <1>1, <1>2, RanksAreFinite
<1>4. c # 0
  BY <1>2, <1>3, FS_EmptySet
<1>5. ASSUME NEW s \in group PROVE local[s] \in 0 .. c - 1
  <2>1. local[s] \in Nat /\ local[s] < Cardinality(G!Peers(s)) /\ G!Peers(s) = group
    BY <1>1, <1>2
  <2> HIDE DEF group
  <2> QED
    BY <1>3, <2>1
<1> HIDE DEF group, c
<1>6. f \in [group -> 0 .. c - 1]
  BY <1>5
<1>7. \A x, y \in group : f[x] = f[y] => x = y
  <2>1. \A x, y \in group : x \in G!Ranks /\ y \in G!Ranks /\ color[x] = color[y]
    BY <1>2
  <2> QED
    BY <2>1, RowsAreDifferent
<1>8. f \in Injection(group, 0 .. c - 1)
  <2> HIDE DEF f
  <2> QED
    BY <1>6, <1>7 DEF Injection, IsInjective
<1>9. IsFiniteSet(0 .. c - 1) /\ Cardinality(0 .. c - 1) = c
  <2>1. 0 \in Int /\ c - 1 \in Int
    BY <1>3
  <2>2. IsFiniteSet(0 .. c - 1) /\ Cardinality(0 .. c - 1) = IF 0 > c - 1 THEN 0 ELSE c - 1 - 0 + 1
    BY <2>1, FS_Interval
  <2> QED
    BY <1>3, <1>4, <2>2
<1>10. f \in Surjection(group, 0 .. c - 1)
  <2>1. Cardinality(group) = Cardinality(0 .. c - 1)
    BY <1>9 DEF c
  <2> HIDE DEF f
  <2> QED
    BY <1>8, <1>9, <2>1, FS_Injection
<1>11. \A n \in 0 .. c - 1 : \E s \in group : local[s] = n
  BY <1>10 DEF Surjection
<1> QED
  BY <1>3, <1>4, <1>5, <1>11 DEF c, group

\* Ids are those of the groups, and follow the order of the colors.
LEMMA IdsFollow ==
    ASSUME GroupInput
    PROVE  /\ group_num \in Nat
           /\ \A r \in G!Ranks : IdOf(color, local, r) \in 0 .. group_num - 1
           /\ \A r, s \in G!Ranks : color[r] = color[s] => IdOf(color, local, r) = IdOf(color, local, s)
           /\ \A r, s \in G!Ranks : color[r] < color[s] => IdOf(color, local, r) < IdOf(color, local, s)
           /\ \A r, s \in G!Ranks : IdOf(color, local, r) = IdOf(color, local, s) => color[r] = color[s]
<1> DEFINE firsts == {s \in G!Ranks : local[s] = 0}
<1>1. /\ NumRanks \in Nat /\ color \in [G!Ranks -> Nat] /\ group_num = Cardinality(firsts)
  BY DEF GroupInput
<1>2. firsts \in SUBSET G!Ranks /\ group_num \in Nat
  BY <1>1, RanksAreFinite
<1>3. ASSUME NEW r \in G!Ranks
      PROVE  \E s \in G!Ranks : local[s] = 0 /\ color[s] = color[r]
  <2>1. 0 \in 0 .. Cardinality(G!Peers(r)) - 1
    BY LocalsFill
  <2>2. PICK s \in G!Peers(r) : local[s] = 0
    BY <2>1, LocalsFill
  <2> QED
    BY <2>2 DEF G!Peers
<1>4. ASSUME NEW r \in G!Ranks PROVE IdOf(color, local, r) \in Nat /\ LowerGroups(color, local, r) \in SUBSET firsts
  <2>1. LowerGroups(color, local, r) \in SUBSET firsts /\ LowerGroups(color, local, r) \in SUBSET G!Ranks
    BY DEF LowerGroups
  <2> QED
    BY <1>1, <2>1, RanksAreFinite DEF IdOf
<1>5. ASSUME NEW r \in G!Ranks PROVE IdOf(color, local, r) < group_num
  <2>1. PICK z \in G!Ranks : local[z] = 0 /\ color[z] = color[r]
    BY <1>3
  <2>2. z \in firsts /\ z \notin LowerGroups(color, local, r)
    BY <1>1, <2>1 DEF LowerGroups
  <2>3. LowerGroups(color, local, r) # firsts
    BY <2>2
  <2> HIDE DEF firsts
  <2>4. Cardinality(LowerGroups(color, local, r)) < Cardinality(firsts)
    BY <1>1, <1>2, <1>4, <2>3, RanksAreFinite
  <2> QED
    BY <1>1, <2>4 DEF IdOf
<1>6. ASSUME NEW r \in G!Ranks, NEW s \in G!Ranks, color[r] = color[s] PROVE IdOf(color, local, r) = IdOf(color, local, s)
  BY <1>6 DEF IdOf, LowerGroups
<1>7. ASSUME NEW r \in G!Ranks, NEW s \in G!Ranks, color[r] < color[s] PROVE IdOf(color, local, r) < IdOf(color, local, s)
  <2>1. color[r] \in Nat /\ color[s] \in Nat /\ \A x \in G!Ranks : color[x] \in Nat
    BY <1>1
  <2>2. PICK z \in G!Ranks : local[z] = 0 /\ color[z] = color[r]
    BY <1>3
  <2>3. z \in LowerGroups(color, local, s) /\ z \notin LowerGroups(color, local, r)
    BY <1>7, <2>1, <2>2 DEF LowerGroups
  <2>4. LowerGroups(color, local, r) \in SUBSET LowerGroups(color, local, s)
    BY <1>7, <2>1 DEF LowerGroups
  <2>5. LowerGroups(color, local, s) \in SUBSET G!Ranks /\ LowerGroups(color, local, r) # LowerGroups(color, local, s)
    BY <2>3 DEF LowerGroups
  <2> QED
    BY <1>1, <2>4, <2>5, RanksAreFinite DEF IdOf
<1>8. ASSUME NEW r \in G!Ranks, NEW s \in G!Ranks, IdOf(color, local, r) = IdOf(color, local, s) PROVE color[r] = color[s]
  <2>1. color[r] \in Nat /\ color[s] \in Nat /\ IdOf(color, local, r) \in Nat /\ IdOf(color, local, s) \in Nat
    BY <1>1, <1>4
  <2>2. ~(color[r] < color[s])
    BY <1>7, <1>8, <2>1
  <2>3. ~(color[s] < color[r])
    BY <1>7, <1>8, <2>1
  <2> QED
    BY <2>1, <2>2, <2>3
<1>9. ASSUME NEW r \in G!Ranks PROVE IdOf(color, local, r) \in 0 .. group_num - 1
  BY <1>2, <1>4, <1>5
<1> QED
  BY <1>2, <1>6, <1>7, <1>8, <1>9

\* Every number below the number of groups is an id.
LEMMA IdsFill ==
    ASSUME GroupInput
    PROVE  \A g \in 0 .. group_num - 1 : \E r \in G!Ranks : IdOf(color, local, r) = g
<1> DEFINE firsts == {s \in G!Ranks : local[s] = 0}
           f == [s \in firsts |-> IdOf(color, local, s)]
           ids == 0 .. group_num - 1
<1>1. NumRanks \in Nat /\ group_num = Cardinality(firsts) /\ firsts \in SUBSET G!Ranks
  BY DEF GroupInput
<1>2. f \in [firsts -> ids]
  BY IdsFollow
<1>3. \A x, y \in firsts : f[x] = f[y] => x = y
  <2>1. ASSUME NEW x \in firsts, NEW y \in firsts, IdOf(color, local, x) = IdOf(color, local, y) PROVE x = y
    <3>1. color[x] = color[y] /\ local[x] = local[y]
      BY <2>1, IdsFollow
    <3> QED
      BY <3>1, RowsAreDifferent
  <2> QED
    BY <2>1
<1>4. IsFiniteSet(ids) /\ Cardinality(ids) = group_num
  <2>1. group_num \in Nat /\ 0 \in Int /\ group_num - 1 \in Int
    BY IdsFollow
  <2>2. IsFiniteSet(ids) /\ Cardinality(ids) = IF 0 > group_num - 1 THEN 0 ELSE group_num - 1 - 0 + 1
    BY <2>1, FS_Interval
  <2> QED
    BY <2>1, <2>2
<1> HIDE DEF firsts, ids
<1>5. f \in Injection(firsts, ids)
  <2> HIDE DEF f
  <2> QED
    BY <1>2, <1>3 DEF Injection, IsInjective
<1>6. f \in Surjection(firsts, ids)
  <2> HIDE DEF f
  <2> QED
    BY <1>1, <1>4, <1>5, FS_Injection
<1>7. \A g \in ids : \E s \in firsts : IdOf(color, local, s) = g
  BY <1>6 DEF Surjection
<1> QED
  BY <1>7 DEF firsts, ids

\* The first row is of group 0.
LEMMA FirstId ==
    ASSUME GroupInput
    PROVE  IdOf(color, local, rows[1]) = 0
<1>1. /\ NumRanks \in Nat \ {0} /\ color \in [G!Ranks -> Nat] /\ rows \in [1 .. NumRanks -> G!Ranks]
      /\ \A r \in G!Ranks : \E m \in 1 .. NumRanks : rows[m] = r
  BY DEF GroupInput
<1>2. ASSUME NEW s \in LowerGroups(color, local, rows[1]) PROVE FALSE
  <2>1. s \in G!Ranks /\ color[s] < color[rows[1]]
    BY DEF LowerGroups
  <2>2. PICK m \in 1 .. NumRanks : rows[m] = s
    BY <1>1, <2>1
  <2>3. 1 \in 1 .. NumRanks /\ 1 <= m
    BY <1>1
  <2>4. color[rows[1]] <= color[rows[m]]
    BY <2>3, RowsAreDifferent
  <2>5. color[rows[1]] \in Nat /\ color[s] \in Nat
    BY <1>1, <2>1, <2>3
  <2> QED
    BY <2>1, <2>2, <2>4, <2>5
<1>3. LowerGroups(color, local, rows[1]) = {}
  BY <1>2
<1> QED
  BY <1>3, FS_EmptySet DEF IdOf

\* From one row to the next the id grows by one when the color changes.
LEMMA NextId ==
    ASSUME GroupInput, NEW m \in 2 .. NumRanks
    PROVE  IdOf(color, local, rows[m]) = IF color[rows[m]] # color[rows[m - 1]] THEN IdOf(color, local, rows[m - 1]) + 1
                                                                ELSE IdOf(color, local, rows[m - 1])
<1> DEFINE p == m - 1
           r == rows[m]
           q == rows[p]
           low == LowerGroups(color, local, q)
<1>1. /\ NumRanks \in Nat /\ color \in [G!Ranks -> Nat] /\ rows \in [1 .. NumRanks -> G!Ranks]
      /\ \A x \in G!Ranks : \E n \in 1 .. NumRanks : rows[n] = x
  BY DEF GroupInput
<1>2. m \in 1 .. NumRanks /\ p \in 1 .. NumRanks /\ p <= m /\ \A n \in 1 .. NumRanks : n <= p \/ m <= n
  BY <1>1
<1>3. r \in G!Ranks /\ q \in G!Ranks /\ \A x \in G!Ranks : color[x] \in Nat
  BY <1>1, <1>2
<1>4. color[q] <= color[r]
  BY <1>2, RowsAreDifferent
<1>5. CASE color[r] = color[q]
  <2>1. IdOf(color, local, r) = IdOf(color, local, q)
    BY <1>3, <1>5, IdsFollow
  <2> QED
    BY <1>5, <2>1
<1>6. CASE color[r] # color[q]
  <2>1. PICK z \in G!Peers(q) : local[z] = 0
    <3>1. 0 \in 0 .. Cardinality(G!Peers(q)) - 1
      BY <1>3, LocalsFill
    <3> QED
      BY <1>3, <3>1, LocalsFill
  <2>2. z \in G!Ranks /\ color[z] = color[q]
    BY DEF G!Peers
  <2>3. z \notin low
    BY <1>3, <2>2 DEF LowerGroups
  <2> HIDE DEF r, q, p
  <2>4. ASSUME NEW x \in LowerGroups(color, local, r) PROVE x \in low \cup {z}
    <3>1. x \in G!Ranks /\ local[x] = 0 /\ color[x] < color[r]
      BY DEF LowerGroups
    <3>2. PICK n \in 1 .. NumRanks : rows[n] = x
      BY <1>1, <3>1
    <3>3. n <= p
      <4>1. ASSUME m <= n PROVE FALSE
        <5>1. color[r] <= color[x]
          BY <1>2, <3>2, <4>1, RowsAreDifferent DEF r
        <5> QED
          BY <1>3, <3>1, <5>1
      <4> QED
        BY <1>2, <4>1
    <3>4. color[x] <= color[q]
      BY <1>2, <3>2, <3>3, RowsAreDifferent DEF q
    <3>5. CASE color[x] = color[q]
      <4>1. x = z
        BY <2>1, <2>2, <3>1, <3>5, RowsAreDifferent
      <4> QED
        BY <4>1
    <3>6. CASE color[x] # color[q]
      BY <1>3, <3>1, <3>4, <3>6 DEF LowerGroups
    <3> QED
      BY <3>5, <3>6
  <2>5. ASSUME NEW x \in low \cup {z} PROVE x \in LowerGroups(color, local, r)
    <3>1. CASE x = z
      BY <1>3, <1>4, <1>6, <2>1, <2>2, <3>1 DEF LowerGroups
    <3>2. CASE x \in low
      BY <1>3, <1>4, <3>2 DEF LowerGroups
    <3> QED
      BY <3>1, <3>2
  <2>6. LowerGroups(color, local, r) = low \cup {z}
    BY <2>4, <2>5
  <2>7. IsFiniteSet(low)
    <3>1. low \in SUBSET G!Ranks
      BY DEF LowerGroups
    <3> QED
      BY <1>1, <3>1, RanksAreFinite
  <2> HIDE DEF low
  <2>8. Cardinality(low \cup {z}) = Cardinality(low) + 1
    BY <2>3, <2>7, FS_AddElement
  <2>9. IdOf(color, local, r) = IdOf(color, local, q) + 1
    BY <2>6, <2>8 DEF IdOf, low
  <2> QED
    BY <1>6, <2>9 DEF r, q, p
<1> QED
  BY <1>5, <1>6

\* The instance counts as FiniteSets does.
LEMMA GroupCardinality == \A sub : G!Cardinality(sub) = Cardinality(sub)
BY DEF G!Cardinality, Cardinality

\* What mys_commgroup_create starts from, for any colors and any keys.
LEMMA CreateGives ==
    ASSUME G!CommGroupAssumption, color \in [G!Ranks -> Nat], NEW key \in [G!Ranks -> Int], G!Create(key)
    PROVE  GroupInput /\ PassInv
<1>0. /\ local \in [G!Ranks -> G!Ranks] /\ G!Split(key)
      /\ rows \in [1 .. NumRanks -> G!Ranks]
      /\ \A r \in G!Ranks : \E m \in 1 .. NumRanks : rows[m] = r
      /\ G!Sorted(rows)
      /\ group_num = Cardinality({r \in G!Ranks : local[r] = 0})
      /\ i = 1 /\ group_index = -1 /\ last_color = -1
  BY GroupCardinality DEF G!Create
<1>1. /\ NumRanks \in Nat \ {0} /\ me \in G!Ranks /\ local \in [G!Ranks -> Nat]
      /\ rows \in [1 .. NumRanks -> G!Ranks]
  <2>1. G!Ranks \subseteq Nat
    BY DEF G!Ranks
  <2> QED
    BY <2>1 DEF G!Create, G!CommGroupAssumption
<1>2. ASSUME NEW r \in G!Ranks PROVE local[r] < Cardinality(G!Peers(r))
  <2> DEFINE before == {s \in G!Peers(r) : G!Before(key, s, r)}
  <2>1. local[r] = Cardinality(before)
    BY <1>0, GroupCardinality DEF G!Split
  <2>2. G!Peers(r) \in SUBSET G!Ranks /\ before \in SUBSET G!Peers(r) /\ r \in G!Peers(r)
    BY DEF G!Peers
  <2>3. r \notin before
    <3>1. key[r] \in Int /\ r \in Int
      BY DEF G!Ranks
    <3> QED
      BY <3>1 DEF G!Before
  <2>4. before # G!Peers(r)
    BY <2>2, <2>3
  <2> HIDE DEF before
  <2>5. Cardinality(before) < Cardinality(G!Peers(r))
    BY <1>1, <2>2, <2>4, RanksAreFinite
  <2> QED
    BY <2>1, <2>5
<1>3. GroupInput
  BY <1>0, <1>1, <1>2 DEF GroupInput
<1>4. i = 1 /\ Done = {}
  BY <1>0 DEF Done, Rowed
<1>5. /\ i \in 1 .. NumRanks + 1
      /\ group_index = -1 /\ last_color = -1 /\ group_id = -1
  BY <1>1, <1>4 DEF G!Create
<1>6. /\ _group_ids = [r \in G!Ranks |-> IF r \in Done THEN IdOf(color, local, r) ELSE -1]
      /\ _local_ranks = [r \in G!Ranks |-> IF r \in Done THEN local[r] ELSE -1]
  BY <1>4 DEF G!Create
<1>7. /\ DOMAIN _brothers = 0 .. Cardinality(G!Peers(me)) - 1
      /\ \A n \in DOMAIN _brothers : NamesOne(_brothers[n], Brothers(color, local, me, Done, n))
  <2>1. _brothers = [n \in 0 .. Cardinality(G!Peers(me)) - 1 |-> -1]
    BY GroupCardinality DEF G!Create
  <2>2. \A n : Brothers(color, local, me, Done, n) = {}
    BY <1>4 DEF Brothers
  <2> QED
    BY <2>1, <2>2 DEF NamesOne
<1>8. /\ DOMAIN _neighbors = 0 .. group_num - 1
      /\ \A g \in DOMAIN _neighbors : NamesOne(_neighbors[g], Neighbors(color, local, me, Done, g))
  <2>1. _neighbors = [g \in 0 .. group_num - 1 |-> -1]
    BY DEF G!Create
  <2>2. \A g : Neighbors(color, local, me, Done, g) = {}
    BY <1>4 DEF Neighbors
  <2> QED
    BY <2>1, <2>2 DEF NamesOne
<1>9. /\ DOMAIN _group_sizes = 0 .. group_num - 1
      /\ \A g \in DOMAIN _group_sizes : _group_sizes[g] = Cardinality(Members(color, local, Done, g))
  <2>1. \A g : Members(color, local, Done, g) = {}
    BY <1>4 DEF Members
  <2> QED
    BY <2>1, FS_EmptySet DEF G!Create
<1>10. PassInv
  BY <1>4, <1>5, <1>6, <1>7, <1>8, <1>9 DEF PassInv
<1> QED
  BY <1>3, <1>10

\* A host's place among the names tells the hosts apart.
LEMMA NodesAreHosts ==
    ASSUME NumRanks \in Nat, host \in [G!Ranks -> Int]
    PROVE  /\ \A r \in G!Ranks : G!Node(r) \in Nat
           /\ \A r, s \in G!Ranks : G!Node(r) = G!Node(s) <=> host[r] = host[s]
<1> DEFINE all == {host[s] : s \in G!Ranks}
           low(x) == {h \in all : h < x}
<1>1. IsFiniteSet(all)
  <2> DEFINE f == [s \in G!Ranks |-> host[s]]
  <2>1. f \in Surjection(G!Ranks, all)
    <3>1. f \in [G!Ranks -> all] /\ \A h \in all : \E s \in G!Ranks : f[s] = h
      OBVIOUS
    <3> HIDE DEF f, all
    <3> QED
      BY <3>1 DEF Surjection
  <2>2. IsFiniteSet(G!Ranks)
    BY RanksAreFinite
  <2> HIDE DEF f, all
  <2> QED
    BY <2>1, <2>2, FS_Surjection
<1>2. \A h \in all : h \in Int
  OBVIOUS
<1>3. \A r \in G!Ranks : host[r] \in all /\ G!Node(r) = Cardinality(low(host[r]))
  <2> SUFFICES ASSUME NEW r \in G!Ranks
               PROVE  host[r] \in all /\ G!Node(r) = Cardinality(low(host[r]))
    OBVIOUS
  <2>1. low(host[r]) = {h \in {host[s] : s \in G!Ranks} : h < host[r]}
    OBVIOUS
  <2> QED
    BY <2>1, GroupCardinality DEF G!Node
<1> HIDE DEF all
<1>4. ASSUME NEW x PROVE Cardinality(low(x)) \in Nat /\ IsFiniteSet(low(x))
  <2>1. low(x) \in SUBSET all
    OBVIOUS
  <2> HIDE DEF low
  <2> QED
    BY <1>1, <2>1, FS_Subset, FS_CardinalityType
<1>5. ASSUME NEW x \in all, NEW y \in all, x < y PROVE Cardinality(low(x)) < Cardinality(low(y))
  <2>1. low(x) \in SUBSET low(y)
    BY <1>2, <1>5
  <2>2. x \in low(y) /\ x \notin low(x)
    BY <1>2, <1>5
  <2> HIDE DEF low
  <2>3. low(x) # low(y)
    BY <2>2
  <2>4. Cardinality(low(x)) <= Cardinality(low(y)) /\ Cardinality(low(x)) # Cardinality(low(y))
    BY <1>4, <2>1, <2>3, FS_Subset
  <2> QED
    BY <1>4, <2>4
<1> HIDE DEF low
<1>6. ASSUME NEW x \in all, NEW y \in all, Cardinality(low(x)) = Cardinality(low(y)) PROVE x = y
  <2>1. x \in Int /\ y \in Int /\ Cardinality(low(x)) \in Nat /\ Cardinality(low(y)) \in Nat
    BY <1>2, <1>4
  <2>2. ~(x < y)
    BY <1>5, <1>6, <2>1
  <2>3. ~(y < x)
    BY <1>5, <1>6, <2>1
  <2> QED
    BY <2>1, <2>2, <2>3
<1>7. ASSUME NEW r \in G!Ranks, NEW s \in G!Ranks PROVE G!Node(r) = G!Node(s) <=> host[r] = host[s]
  BY <1>3, <1>6
<1> QED
  BY <1>3, <1>4, <1>7

\* Every host has a first rank, another for every other host.
LEMMA FirstRanksAreHosts ==
    ASSUME NumRanks \in Nat, NEW r \in G!Ranks
    PROVE  G!FirstOn(host[r]) \in G!Ranks /\ host[G!FirstOn(host[r])] = host[r]
<1> DEFINE on == {s \in G!Ranks : host[s] = host[r]}
<1>1. on \in SUBSET Nat /\ on # {}
  BY SMTT(30) DEF G!Ranks
<1>2. PICK x \in on : \A y \in on : x <= y
  <2> HIDE DEF on
  <2> QED
    BY <1>1, Least
<1>3. x \in G!Ranks /\ host[x] = host[r] /\ \A s \in G!Ranks : host[s] = host[r] => x <= s
  BY <1>2
<1>4. \E s \in G!Ranks : host[s] = host[r] /\ \A t \in G!Ranks : host[t] = host[r] => s <= t
  BY <1>3
<1> QED
  BY <1>4 DEF G!FirstOn

\* A number and a remainder are told apart by their sum.
LEMMA QuotientIsUnique ==
    ASSUME NEW w \in Nat, NEW a \in Nat, NEW b \in Nat, NEW x \in 0 .. w - 1, NEW y \in 0 .. w - 1,
           a * w + x = b * w + y
    PROVE  a = b /\ x = y
<1>1. ASSUME NEW c \in Nat, NEW d \in Nat, c < d PROVE c * w + w <= d * w
  <2> DEFINE k == d - c - 1
  <2>1. k \in Nat /\ d = c + 1 + k
    BY <1>1
  <2> HIDE DEF k
  <2>2. d * w = c * w + w + k * w
    BY <2>1
  <2>3. k * w \in Nat /\ c * w \in Nat
    BY <2>1
  <2> QED
    BY <2>2, <2>3
<1>2. a * w \in Nat /\ b * w \in Nat
  OBVIOUS
<1> DEFINE m == a * w
           n == b * w
<1>3. ~(a < b)
  <2>1. ASSUME a < b PROVE m + w <= n
    BY <1>1, <2>1
  <2> HIDE DEF m, n
  <2>2. m \in Nat /\ n \in Nat /\ m + x = n + y
    BY <1>2 DEF m, n
  <2> QED
    BY <2>1, <2>2
<1>4. ~(b < a)
  <2>1. ASSUME b < a PROVE n + w <= m
    BY <1>1, <2>1
  <2> HIDE DEF m, n
  <2>2. m \in Nat /\ n \in Nat /\ m + x = n + y
    BY <1>2 DEF m, n
  <2> QED
    BY <2>1, <2>2
<1>5. a = b
  BY <1>3, <1>4
<1>6. m = n
  BY <1>5
<1> HIDE DEF m, n
<1>7. m \in Nat /\ m + x = m + y
  BY <1>2, <1>6 DEF m, n
<1> QED
  BY <1>5, <1>7

\* Each of the three routines gives colors for the places that it is about.
LEMMA InitGroupInv ==
    ASSUME G!CommGroupAssumption, G!Init
    PROVE  GroupInv
<1>1. /\ NumRanks \in Nat \ {0} /\ Colors \subseteq Nat /\ Keys \subseteq Int /\ Hosts \subseteq Int
      /\ Numas \subseteq Nat /\ NumaNums \subseteq Nat \ {0}
  BY DEF G!CommGroupAssumption
<1>2. CASE G!CreateByColor
  <2>1. PICK key \in [G!Ranks -> Keys] : G!Create(key)
    BY <1>2 DEF G!CreateByColor
  <2>2. key \in [G!Ranks -> Int] /\ color \in [G!Ranks -> Nat] /\ by = "color"
    BY <1>1, <1>2 DEF G!CreateByColor
  <2> QED
    BY <2>1, <2>2, CreateGives DEF GroupInv, PlacesAreColors
<1>3. CASE G!CreateNode
  <2> DEFINE key == [r \in G!Ranks |-> r]
  <2>1. /\ host \in [G!Ranks -> Int] /\ numa = [r \in G!Ranks |-> 0]
        /\ color = [r \in G!Ranks |-> G!Node(r)] /\ G!Create(key)
    BY <1>1, <1>3 DEF G!CreateNode
  <2>2. key \in [G!Ranks -> Int]
    BY DEF G!Ranks
  <2>3. color \in [G!Ranks -> Nat]
    BY <1>1, <2>1, NodesAreHosts
  <2> HIDE DEF key
  <2>4. GroupInput /\ PassInv
    BY <2>1, <2>2, <2>3, CreateGives
  <2>5. PlacesAreColors
    BY <1>1, <2>1, NodesAreHosts DEF PlacesAreColors
  <2> QED
    BY <2>4, <2>5 DEF GroupInv
<1>4. CASE G!CreateNuma
  <2>1. PICK num \in [Hosts -> NumaNums], cpu \in [G!Ranks -> Keys] :
            /\ host \in [G!Ranks -> Hosts] /\ numa \in [G!Ranks -> Numas] /\ by = "numa"
            /\ numa_num = [r \in G!Ranks |-> num[host[r]]]
            /\ color = [r \in G!Ranks |-> G!FirstOn(host[r]) * numa_num[r] + numa[r]]
            /\ G!Create(cpu)
    BY <1>4 DEF G!CreateNuma
  <2>2. cpu \in [G!Ranks -> Int]
    BY <1>1
  <2> DEFINE first(r) == G!FirstOn(host[r])
  <2>3. ASSUME NEW r \in G!Ranks
        PROVE  /\ first(r) \in Nat /\ host[first(r)] = host[r] /\ numa[r] \in Nat /\ numa_num[r] \in Nat
               /\ color[r] = first(r) * numa_num[r] + numa[r]
    <3>1. numa[r] \in Nat /\ numa_num[r] \in Nat
      BY <1>1, <2>1
    <3>2. first(r) \in Nat /\ host[first(r)] = host[r]
      BY <1>1, FirstRanksAreHosts DEF G!Ranks
    <3> QED
      BY <2>1, <3>1, <3>2
  <2>4. \A r, s \in G!Ranks : host[r] = host[s] => first(r) = first(s)
    OBVIOUS
  <2> HIDE DEF first
  <2>5. color \in [G!Ranks -> Nat]
    <3>1. ASSUME NEW r \in G!Ranks PROVE color[r] \in Nat
      BY <2>3
    <3>2. color = [r \in G!Ranks |-> color[r]]
      BY <2>1
    <3> QED
      BY <3>1, <3>2
  <2>6. GroupInput /\ PassInv
    BY <2>1, <2>2, <2>5, CreateGives
  <2>7. ASSUME G!HostsAreAlike, NEW r \in G!Ranks, NEW s \in G!Ranks
        PROVE  color[r] = color[s] <=> host[r] = host[s] /\ numa[r] = numa[s]
    <3> DEFINE w == numa_num[r]
    <3>1. w \in Nat /\ numa_num[s] = w /\ numa[r] \in 0 .. w - 1 /\ numa[s] \in 0 .. w - 1
      BY <2>3, <2>7 DEF G!HostsAreAlike
    <3>2. color[r] = first(r) * w + numa[r] /\ color[s] = first(s) * w + numa[s]
      BY <2>3, <3>1
    <3> HIDE DEF w
    <3>3. ASSUME color[r] = color[s] PROVE host[r] = host[s] /\ numa[r] = numa[s]
      <4>1. first(r) \in Nat /\ first(s) \in Nat /\ first(r) * w + numa[r] = first(s) * w + numa[s]
        BY <2>3, <3>2, <3>3
      <4>2. first(r) = first(s) /\ numa[r] = numa[s]
        BY <3>1, <4>1, QuotientIsUnique
      <4> QED
        BY <2>3, <4>2
    <3>4. ASSUME host[r] = host[s], numa[r] = numa[s] PROVE color[r] = color[s]
      BY <2>4, <3>2, <3>4
    <3> QED
      BY <3>3, <3>4
  <2> QED
    BY <2>1, <2>6, <2>7 DEF GroupInv, PlacesAreColors
<1> QED
  BY <1>2, <1>3, <1>4 DEF G!Init

\* An assignment inside the bounds of an array.
LEMMA WrittenIs ==
    ASSUME NEW array, NEW dom, DOMAIN array = dom, NEW x \in dom, NEW v
    PROVE  /\ G!Written(array, x, v) = [y \in dom |-> IF y = x THEN v ELSE array[y]]
           /\ G!Query(array, x) = array[x]
<1>1. DOMAIN array \cup {x} = dom
  OBVIOUS
<1> QED
  BY <1>1 DEF G!Written, G!Query

\* It keeps a table whose entries name the members of the sets f[y], when the
\* new entry is a member of h[x] and the other sets stay.
LEMMA WrittenNames ==
    ASSUME NEW array, NEW dom, DOMAIN array = dom, NEW f, NEW h,
           \A y \in dom : NamesOne(array[y], f[y]),
           NEW x \in dom, NEW v, v \in h[x], \A y \in dom : y # x => h[y] = f[y]
    PROVE  /\ DOMAIN G!Written(array, x, v) = dom
           /\ \A y \in dom : NamesOne(G!Written(array, x, v)[y], h[y])
<1> DEFINE new == G!Written(array, x, v)
<1>1. new = [y \in dom |-> IF y = x THEN v ELSE array[y]]
  BY WrittenIs
<1> HIDE DEF new
<1>2. ASSUME NEW y \in dom PROVE NamesOne(new[y], h[y])
  BY <1>1 DEF NamesOne
<1>3. DOMAIN new = dom
  BY <1>1
<1> QED
  BY <1>2, <1>3 DEF new

\* What a row leaves alone.
LEMMA VisitKeepsInput ==
    ASSUME GroupInv, G!Visit
    PROVE  /\ GroupInput' /\ PlacesAreColors'
           /\ UNCHANGED <<me, color, local, rows, group_num>>
           /\ Cardinality(G!Peers(me))' = Cardinality(G!Peers(me))
<1>1. UNCHANGED <<by, me, host, numa, numa_num, color, local, rows, group_num>>
  BY DEF G!Visit, G!asked, G!place
<1>2. \A r : G!Peers(r)' = G!Peers(r)
  BY <1>1 DEF G!Peers
<1>3. G!Sorted(rows)' <=> G!Sorted(rows)
  BY <1>1 DEF G!Sorted
<1>4. {r \in G!Ranks : local'[r] = 0} = {r \in G!Ranks : local[r] = 0}
  BY <1>1
<1>5. GroupInput'
  BY <1>1, <1>2, <1>3, <1>4 DEF GroupInv, GroupInput
<1>6. PlacesAreColors'
  BY <1>1 DEF GroupInv, PlacesAreColors, G!HostsAreAlike
<1>7. G!Peers(me)' = G!Peers(me)
  BY <1>1 DEF G!Peers
<1> QED
  BY <1>1, <1>5, <1>6, <1>7

\* A row gets the id of its group, and the tables are then right for it too.
LEMMA VisitGroupInv ==
    ASSUME GroupInv, G!Visit
    PROVE  GroupInv'
<1> DEFINE r == rows[i]
           g == IdOf(color, local, r)
           old == Done
           new == Rowed(rows, i)
<1>1. /\ GroupInput /\ PassInv /\ GroupInput' /\ PlacesAreColors'
      /\ UNCHANGED <<me, color, local, rows, group_num>>
      /\ Cardinality(G!Peers(me))' = Cardinality(G!Peers(me))
  BY VisitKeepsInput DEF GroupInv
<1>2. /\ NumRanks \in Nat \ {0} /\ i \in 1 .. NumRanks /\ i' = i + 1 /\ i' - 1 = i
      /\ i' \in 1 .. NumRanks + 1 /\ i' # 1
  BY <1>1 DEF GroupInput, PassInv, G!Visit
<1>3. /\ r \in G!Ranks /\ me \in G!Ranks /\ color[r] \in Nat /\ local[r] \in Nat
      /\ \A m \in 1 .. NumRanks : rows[m] \in G!Ranks
  BY <1>1, <1>2 DEF GroupInput
<1>4. Done' = new /\ new = old \cup {r} /\ r \notin old /\ old \in SUBSET G!Ranks
  <2>1. Done' = new
    BY <1>1, <1>2 DEF Done, Rowed
  <2>2. \A m : m \in 1 .. i <=> m \in 1 .. i - 1 \/ m = i
    BY <1>2
  <2>3. new = old \cup {r}
    BY <2>2 DEF Done, Rowed
  <2>4. \A m \in 1 .. i - 1 : m \in 1 .. NumRanks /\ m # i
    BY <1>2
  <2>5. r \notin old
    BY <1>1, <1>2, <2>4, RowsAreDifferent DEF Done, Rowed
  <2>6. old \in SUBSET G!Ranks
    BY <1>3, <2>4 DEF Done, Rowed
  <2> QED
    BY <2>1, <2>3, <2>5, <2>6
<1>5. G!GroupOf(r) = g
  <2>1. CASE i = 1
    <3>1. group_index = -1 /\ last_color = -1
      BY <1>1, <2>1 DEF PassInv
    <3>2. color[r] # last_color /\ g = 0
      BY <1>1, <1>3, <2>1, <3>1, FirstId
    <3> HIDE DEF r, g
    <3> QED
      BY <3>1, <3>2 DEF G!GroupOf
  <2>2. CASE i # 1
    <3>1. group_index = IdOf(color, local, rows[i - 1]) /\ last_color = color[rows[i - 1]]
      BY <1>1, <2>2 DEF PassInv
    <3>2. i \in 2 .. NumRanks
      BY <1>2, <2>2
    <3>3. g = IF color[r] # color[rows[i - 1]] THEN IdOf(color, local, rows[i - 1]) + 1
                                               ELSE IdOf(color, local, rows[i - 1])
      BY <1>1, <3>2, NextId
    <3> HIDE DEF r, g
    <3> QED
      BY <3>1, <3>3 DEF G!GroupOf
  <2> QED
    BY <2>1, <2>2
<1>6. g \in 0 .. group_num - 1
  BY <1>1, <1>3, IdsFollow
<1>7. /\ group_index' = g /\ last_color' = color[r]
      /\ group_id' = IF r = me THEN g ELSE group_id
      /\ _neighbors' = IF local[r] = local[me] THEN G!Written(_neighbors, g, r) ELSE _neighbors
      /\ _group_ids' = G!Written(_group_ids, r, g)
      /\ _local_ranks' = G!Written(_local_ranks, r, local[r])
      /\ _group_sizes' = G!Written(_group_sizes, g, G!Query(_group_sizes, g) + 1)
      /\ _brothers' = IF color[r] = color[me] THEN G!Written(_brothers, local[r], r) ELSE _brothers
  BY <1>5 DEF G!Visit
<1> HIDE DEF g, old, new
<1>8. group_index' = IdOf(color, local, rows[i' - 1]) /\ last_color' = color[rows[i' - 1]]
  BY <1>2, <1>7 DEF g
<1>9. group_id' = IF me \in new THEN IdOf(color, local, me) ELSE -1
  <2>1. group_id = IF me \in old THEN IdOf(color, local, me) ELSE -1
    BY <1>1 DEF PassInv, old
  <2> HIDE DEF r
  <2> QED
    BY <1>4, <1>7, <2>1 DEF g
<1>10. _group_ids' = [x \in G!Ranks |-> IF x \in new THEN IdOf(color, local, x) ELSE -1]
  <2>1. _group_ids = [x \in G!Ranks |-> IF x \in old THEN IdOf(color, local, x) ELSE -1]
    BY <1>1 DEF PassInv, old
  <2>2. _group_ids' = [x \in G!Ranks |-> IF x = r THEN g ELSE _group_ids[x]]
    BY <1>3, <1>7, <2>1, WrittenIs
  <2> HIDE DEF r
  <2>3. ASSUME NEW x \in G!Ranks
        PROVE  (IF x = r THEN g ELSE _group_ids[x]) = IF x \in new THEN IdOf(color, local, x) ELSE -1
    BY <1>4, <2>1 DEF g
  <2> QED
    BY <2>2, <2>3
<1>11. _local_ranks' = [x \in G!Ranks |-> IF x \in new THEN local[x] ELSE -1]
  <2>1. _local_ranks = [x \in G!Ranks |-> IF x \in old THEN local[x] ELSE -1]
    BY <1>1 DEF PassInv, old
  <2>2. _local_ranks' = [x \in G!Ranks |-> IF x = r THEN local[r] ELSE _local_ranks[x]]
    BY <1>3, <1>7, <2>1, WrittenIs
  <2> HIDE DEF r
  <2>3. ASSUME NEW x \in G!Ranks
        PROVE  (IF x = r THEN local[r] ELSE _local_ranks[x]) = IF x \in new THEN local[x] ELSE -1
    BY <1>4, <2>1
  <2> QED
    BY <2>2, <2>3
<1>12. /\ DOMAIN _brothers' = 0 .. Cardinality(G!Peers(me)) - 1
       /\ \A n \in DOMAIN _brothers' : NamesOne(_brothers'[n], Brothers(color, local, me, new, n))
  <2> DEFINE dom == 0 .. Cardinality(G!Peers(me)) - 1
             f == [n \in dom |-> Brothers(color, local, me, old, n)]
             h == [n \in dom |-> Brothers(color, local, me, new, n)]
  <2>1. DOMAIN _brothers = dom /\ \A n \in dom : NamesOne(_brothers[n], f[n])
    BY <1>1 DEF PassInv, old
  <2> HIDE DEF r
  <2>2. CASE color[r] = color[me]
    <3>1. local[r] \in dom
      <4>1. r \in G!Peers(me)
        BY <1>3, <2>2 DEF G!Peers
      <4> QED
        BY <1>1, <1>3, <4>1, LocalsFill
    <3>2. r \in h[local[r]]
      BY <1>4, <2>2, <3>1 DEF Brothers
    <3>3. \A n \in dom : n # local[r] => h[n] = f[n]
      BY <1>4 DEF Brothers
    <3> HIDE DEF dom, f, h
    <3>4. _brothers' = G!Written(_brothers, local[r], r)
      BY <1>7, <2>2
    <3>5. DOMAIN _brothers' = dom /\ \A n \in dom : NamesOne(_brothers'[n], h[n])
      BY <2>1, <3>1, <3>2, <3>3, <3>4, WrittenNames
    <3> QED
      BY <3>5 DEF h, dom
  <2>3. CASE color[r] # color[me]
    <3>1. \A n \in dom : h[n] = f[n]
      BY <1>4, <2>3 DEF Brothers
    <3>2. _brothers' = _brothers
      BY <1>7, <2>3
    <3> QED
      BY <2>1, <3>1, <3>2
  <2> QED
    BY <2>2, <2>3
<1>13. /\ DOMAIN _neighbors' = 0 .. group_num - 1
       /\ \A n \in DOMAIN _neighbors' : NamesOne(_neighbors'[n], Neighbors(color, local, me, new, n))
  <2> DEFINE dom == 0 .. group_num - 1
             f == [n \in dom |-> Neighbors(color, local, me, old, n)]
             h == [n \in dom |-> Neighbors(color, local, me, new, n)]
  <2>1. DOMAIN _neighbors = dom /\ \A n \in dom : NamesOne(_neighbors[n], f[n])
    BY <1>1 DEF PassInv, old
  <2> HIDE DEF r
  <2>2. CASE local[r] = local[me]
    <3>2. r \in h[g]
      BY <1>4, <1>6, <2>2 DEF Neighbors, g
    <3>3. \A n \in dom : n # g => h[n] = f[n]
      BY <1>4 DEF Neighbors, g
    <3>4. g \in dom
      BY <1>6
    <3> HIDE DEF dom, f, h
    <3>5. _neighbors' = G!Written(_neighbors, g, r)
      BY <1>7, <2>2
    <3>6. DOMAIN _neighbors' = dom /\ \A n \in dom : NamesOne(_neighbors'[n], h[n])
      BY <2>1, <3>2, <3>3, <3>4, <3>5, WrittenNames
    <3> QED
      BY <3>6 DEF h, dom
  <2>3. CASE local[r] # local[me]
    <3>1. \A n \in dom : h[n] = f[n]
      BY <1>4, <2>3 DEF Neighbors
    <3>2. _neighbors' = _neighbors
      BY <1>7, <2>3
    <3> QED
      BY <2>1, <3>1, <3>2
  <2> QED
    BY <2>2, <2>3
<1>14. /\ DOMAIN _group_sizes' = 0 .. group_num - 1
       /\ \A n \in DOMAIN _group_sizes' : _group_sizes'[n] = Cardinality(Members(color, local, new, n))
  <2> DEFINE dom == 0 .. group_num - 1
  <2>1. DOMAIN _group_sizes = dom /\ \A n \in dom : _group_sizes[n] = Cardinality(Members(color, local, old, n))
    BY <1>1 DEF PassInv, old
  <2>2. g \in dom
    BY <1>6
  <2> HIDE DEF dom, r
  <2>3. _group_sizes' = [n \in dom |-> IF n = g THEN _group_sizes[g] + 1 ELSE _group_sizes[n]]
    BY <1>7, <2>1, <2>2, WrittenIs
  <2>4. ASSUME NEW n \in dom, n # g PROVE Members(color, local, new, n) = Members(color, local, old, n)
    BY <1>4, <2>4 DEF Members, g
  <2>5. Cardinality(Members(color, local, new, g)) = Cardinality(Members(color, local, old, g)) + 1
    <3> DEFINE ms == Members(color, local, old, g)
    <3>1. Members(color, local, new, g) = ms \cup {r} /\ r \notin ms /\ ms \in SUBSET G!Ranks
      BY <1>4 DEF Members, g
    <3>2. IsFiniteSet(ms)
      BY <1>2, <3>1, RanksAreFinite
    <3> HIDE DEF ms
    <3>3. Cardinality(ms \cup {r}) = Cardinality(ms) + 1
      BY <3>1, <3>2, FS_AddElement
    <3> QED
      BY <3>1, <3>3 DEF ms
  <2>6. \A n \in dom : _group_sizes'[n] = Cardinality(Members(color, local, new, n))
    BY <2>1, <2>2, <2>3, <2>4, <2>5
  <2>7. DOMAIN _group_sizes' = dom
    BY <2>3
  <2> QED
    BY <2>6, <2>7 DEF dom
<1>15. PassInv'
  BY <1>1, <1>2, <1>4, <1>8, <1>9, <1>10, <1>11, <1>12, <1>13, <1>14 DEF PassInv
<1> QED
  BY <1>1, <1>15 DEF GroupInv

\* The arrays that the pass fills in have the sizes they were made with.
LEMMA GroupsInside == GroupInv => G!NothingOutside
<1> SUFFICES ASSUME GroupInv PROVE G!NothingOutside
  OBVIOUS
<1>1. DOMAIN _brothers = 0 .. G!Cardinality(G!Peers(me)) - 1
  BY GroupCardinality DEF GroupInv, PassInv
<1> QED
  BY <1>1 DEF G!NothingOutside, GroupInv, PassInv

\* After the last row the ids are those of all ranks.
LEMMA IdsAtTheEnd ==
    ASSUME GroupInv, i > NumRanks
    PROVE  /\ Done = G!Ranks
           /\ \A r \in G!Ranks : G!Group(r) = IdOf(color, local, r) /\ G!Local(r) = local[r]
           /\ group_id = IdOf(color, local, me) /\ me \in G!Ranks
<1>1. /\ NumRanks \in Nat /\ me \in G!Ranks /\ i \in 1 .. NumRanks + 1
      /\ rows \in [1 .. NumRanks -> G!Ranks]
      /\ \A r \in G!Ranks : \E m \in 1 .. NumRanks : rows[m] = r
  BY DEF GroupInv, GroupInput, PassInv
<1>2. i - 1 = NumRanks
  BY <1>1
<1>3. Done = G!Ranks
  BY <1>1, <1>2 DEF Done, Rowed
<1>4. /\ group_id = IF me \in Done THEN IdOf(color, local, me) ELSE -1
      /\ _group_ids = [r \in G!Ranks |-> IF r \in Done THEN IdOf(color, local, r) ELSE -1]
      /\ _local_ranks = [r \in G!Ranks |-> IF r \in Done THEN local[r] ELSE -1]
  BY DEF GroupInv, PassInv
<1>5. ASSUME NEW r \in G!Ranks PROVE G!Group(r) = IdOf(color, local, r) /\ G!Local(r) = local[r]
  BY <1>3, <1>4 DEF G!Group, G!Local, G!Query
<1> QED
  BY <1>1, <1>3, <1>4, <1>5

\* Ids follow the colors, without a gap.
LEMMA IdsAreExact == GroupInv /\ i > NumRanks => G!IdsFollowColors
<1> SUFFICES ASSUME GroupInv, i > NumRanks PROVE G!IdsFollowColors
  OBVIOUS
<1>1. /\ \A r \in G!Ranks : G!Group(r) = IdOf(color, local, r)
      /\ group_id = IdOf(color, local, me) /\ me \in G!Ranks
  BY IdsAtTheEnd
<1>2. GroupInput /\ color \in [G!Ranks -> Nat]
  BY DEF GroupInv, GroupInput
<1>3. ASSUME NEW r \in G!Ranks, NEW s \in G!Ranks
      PROVE  IdOf(color, local, r) < IdOf(color, local, s) <=> color[r] < color[s]
  <2>1. /\ color[r] \in Nat /\ color[s] \in Nat /\ group_num \in Nat
        /\ IdOf(color, local, r) \in 0 .. group_num - 1 /\ IdOf(color, local, s) \in 0 .. group_num - 1
    BY <1>2, IdsFollow
  <2>2. color[r] < color[s] => IdOf(color, local, r) < IdOf(color, local, s)
    BY <1>2, IdsFollow
  <2>3. color[r] = color[s] => IdOf(color, local, r) = IdOf(color, local, s)
    BY <1>2, IdsFollow
  <2>4. color[s] < color[r] => IdOf(color, local, s) < IdOf(color, local, r)
    BY <1>2, IdsFollow
  <2> QED
    BY <2>1, <2>2, <2>3, <2>4
<1>4. {G!Group(r) : r \in G!Ranks} = 0 .. group_num - 1
  <2>1. \A r \in G!Ranks : G!Group(r) \in 0 .. group_num - 1
    BY <1>1, <1>2, IdsFollow
  <2>2. \A x \in 0 .. group_num - 1 : \E r \in G!Ranks : G!Group(r) = x
    BY <1>1, <1>2, IdsFill
  <2> QED
    BY <2>1, <2>2
<1>5. \A r, s \in G!Ranks : G!Group(r) < G!Group(s) <=> color[r] < color[s]
  BY <1>1, <1>3
<1>6. group_id = G!Group(me)
  BY <1>1
<1> QED
  BY <1>4, <1>5, <1>6 DEF G!IdsFollowColors

\* The members of a group are as many as their local ranks say.
LEMMA MembersArePeers ==
    ASSUME GroupInput, NEW r \in G!Ranks
    PROVE  Members(color, local, G!Ranks, IdOf(color, local, r)) = G!Peers(r)
<1>1. ASSUME NEW s \in G!Ranks
      PROVE  IdOf(color, local, s) = IdOf(color, local, r) <=> color[s] = color[r]
  BY IdsFollow
<1> QED
  BY <1>1 DEF Members, G!Peers

\* The tables answer from the other end what the ids and local ranks say.
LEMMA TablesAreExact == GroupInv /\ i > NumRanks => G!TablesAreInverse
<1> SUFFICES ASSUME GroupInv, i > NumRanks PROVE G!TablesAreInverse
  OBVIOUS
<1>1. /\ \A r \in G!Ranks : G!Group(r) = IdOf(color, local, r) /\ G!Local(r) = local[r]
      /\ group_id = IdOf(color, local, me) /\ me \in G!Ranks /\ Done = G!Ranks
  BY IdsAtTheEnd
<1>2. /\ GroupInput /\ PassInv /\ NumRanks \in Nat /\ color \in [G!Ranks -> Nat]
      /\ local \in [G!Ranks -> Nat]
  BY DEF GroupInv, GroupInput
<1>3. /\ DOMAIN _brothers = 0 .. Cardinality(G!Peers(me)) - 1
      /\ \A n \in DOMAIN _brothers : NamesOne(_brothers[n], Brothers(color, local, me, G!Ranks, n))
      /\ DOMAIN _neighbors = 0 .. group_num - 1
      /\ \A g \in DOMAIN _neighbors : NamesOne(_neighbors[g], Neighbors(color, local, me, G!Ranks, g))
      /\ DOMAIN _group_sizes = 0 .. group_num - 1
      /\ \A g \in DOMAIN _group_sizes : _group_sizes[g] = Cardinality(Members(color, local, G!Ranks, g))
  BY <1>1, <1>2 DEF PassInv
<1>4. -1 \notin G!Ranks
  BY DEF G!Ranks
<1>5. ASSUME NEW r \in G!Ranks, G!Group(r) = group_id
      PROVE  G!Query(_brothers, G!Local(r)) = r
  <2>1. color[r] = color[me]
    BY <1>1, <1>2, <1>5, IdsFollow
  <2>2. r \in G!Peers(me)
    BY <2>1 DEF G!Peers
  <2>3. local[r] \in 0 .. Cardinality(G!Peers(me)) - 1
    BY <1>1, <1>2, <2>2, LocalsFill
  <2>4. r \in Brothers(color, local, me, G!Ranks, local[r])
    BY <2>1 DEF Brothers
  <2>5. _brothers[local[r]] \in Brothers(color, local, me, G!Ranks, local[r])
    BY <1>3, <2>3, <2>4 DEF NamesOne
  <2>6. _brothers[local[r]] = r
    BY <1>2, <2>1, <2>5, RowsAreDifferent DEF Brothers
  <2>7. G!Query(_brothers, local[r]) = r
    BY <1>3, <2>3, <2>6 DEF G!Query
  <2> QED
    BY <1>1, <2>7
<1>6. ASSUME NEW n \in -1 .. NumRanks, G!Query(_brothers, n) # -1
      PROVE  G!Group(G!Query(_brothers, n)) = group_id /\ G!Local(G!Query(_brothers, n)) = n
  <2>1. n \in DOMAIN _brothers /\ G!Query(_brothers, n) = _brothers[n]
    BY <1>6 DEF G!Query
  <2>2. _brothers[n] \in Brothers(color, local, me, G!Ranks, n)
    BY <1>3, <1>6, <2>1 DEF NamesOne
  <2> DEFINE r == _brothers[n]
  <2>3. r \in G!Ranks /\ color[r] = color[me] /\ local[r] = n
    BY <2>2 DEF Brothers
  <2> HIDE DEF r
  <2>4. G!Group(r) = group_id /\ G!Local(r) = n
    BY <1>1, <1>2, <2>3, IdsFollow
  <2> QED
    BY <2>1, <2>4 DEF r
<1>7. ASSUME NEW g \in -1 .. NumRanks, G!Query(_neighbors, g) # -1
      PROVE  G!Group(G!Query(_neighbors, g)) = g /\ G!Local(G!Query(_neighbors, g)) = G!Local(me)
  <2>1. g \in DOMAIN _neighbors /\ G!Query(_neighbors, g) = _neighbors[g]
    BY <1>7 DEF G!Query
  <2>2. _neighbors[g] \in Neighbors(color, local, me, G!Ranks, g)
    BY <1>3, <1>7, <2>1 DEF NamesOne
  <2> DEFINE r == _neighbors[g]
  <2>3. r \in G!Ranks /\ IdOf(color, local, r) = g /\ local[r] = local[me]
    BY <2>2 DEF Neighbors
  <2> HIDE DEF r
  <2>4. G!Group(r) = g /\ G!Local(r) = G!Local(me)
    BY <1>1, <2>3
  <2> QED
    BY <2>1, <2>4 DEF r
<1>8. ASSUME NEW g \in 0 .. group_num - 1
      PROVE  /\ G!Query(_group_sizes, g) = Cardinality({r \in G!Ranks : G!Group(r) = g})
             /\ G!Query(_neighbors, g) = -1 <=> G!Local(me) >= G!Query(_group_sizes, g)
  <2> DEFINE sz == G!Query(_group_sizes, g)
             nb == G!Query(_neighbors, g)
  <2>1. sz = Cardinality(Members(color, local, G!Ranks, g)) /\ nb = _neighbors[g]
    BY <1>3 DEF G!Query
  <2>2. Members(color, local, G!Ranks, g) = {r \in G!Ranks : G!Group(r) = g}
    BY <1>1 DEF Members
  <2>3. PICK a \in G!Ranks : IdOf(color, local, a) = g
    BY <1>2, IdsFill
  <2>4. Members(color, local, G!Ranks, g) = G!Peers(a)
    BY <1>2, <2>3, MembersArePeers
  <2>5. /\ sz \in Nat
        /\ \A s \in G!Peers(a) : local[s] \in 0 .. sz - 1
        /\ \A n \in 0 .. sz - 1 : \E s \in G!Peers(a) : local[s] = n
    BY <1>2, <2>1, <2>4, LocalsFill
  <2>6. local[me] \in Nat
    BY <1>1, <1>2
  <2>7. \A s : s \in G!Peers(a) <=> s \in G!Ranks /\ IdOf(color, local, s) = g
    BY <2>4 DEF Members
  <2>8. NamesOne(nb, Neighbors(color, local, me, G!Ranks, g))
    BY <1>3, <2>1
  <2> HIDE DEF sz, nb
  <2>9. ASSUME nb = -1 PROVE local[me] >= sz
    <3>1. Neighbors(color, local, me, G!Ranks, g) = {}
      BY <1>4, <2>8, <2>9 DEF NamesOne, Neighbors
    <3>2. \A s \in G!Peers(a) : local[s] # local[me]
      BY <2>7, <3>1 DEF Neighbors
    <3>3. local[me] \notin 0 .. sz - 1
      BY <2>5, <3>2
    <3> QED
      BY <2>5, <2>6, <3>3
  <2>10. ASSUME local[me] >= sz PROVE nb = -1
    <3>1. \A s \in G!Peers(a) : local[s] # local[me]
      BY <2>5, <2>6, <2>10
    <3>2. Neighbors(color, local, me, G!Ranks, g) = {}
      BY <2>7, <3>1 DEF Neighbors
    <3> QED
      BY <2>8, <3>2 DEF NamesOne
  <2>11. G!Local(me) = local[me]
    BY <1>1
  <2>12. sz = Cardinality({r \in G!Ranks : G!Group(r) = g}) /\ (nb = -1 <=> G!Local(me) >= sz)
    BY <2>1, <2>2, <2>9, <2>10, <2>11
  <2> QED
    BY <2>12 DEF sz, nb
<1>9. ASSUME NEW g \in 0 .. group_num - 1
      PROVE  /\ G!Query(_group_sizes, g) = G!Cardinality({r \in G!Ranks : G!Group(r) = g})
             /\ G!Query(_neighbors, g) = -1 <=> G!Local(me) >= G!Query(_group_sizes, g)
  BY <1>8, GroupCardinality
<1> QED
  BY <1>5, <1>6, <1>7, <1>9 DEF G!TablesAreInverse

\* The invariant says what the run checks.
LEMMA GroupsAreExact == GroupInv => G!GroupsExact
<1> SUFFICES ASSUME GroupInv PROVE G!GroupsExact
  OBVIOUS
<1>1. ASSUME i > NumRanks, by = "node" \/ (by = "numa" /\ G!HostsAreAlike), NEW r \in G!Ranks, NEW s \in G!Ranks
      PROVE  G!Group(r) = G!Group(s) <=> host[r] = host[s] /\ numa[r] = numa[s]
  <2>1. color[r] = color[s] <=> host[r] = host[s] /\ numa[r] = numa[s]
    BY <1>1 DEF GroupInv, PlacesAreColors
  <2>2. G!Group(r) = IdOf(color, local, r) /\ G!Group(s) = IdOf(color, local, s)
    BY <1>1, IdsAtTheEnd
  <2>3. IdOf(color, local, r) = IdOf(color, local, s) <=> color[r] = color[s]
    BY IdsFollow DEF GroupInv
  <2> QED
    BY <2>1, <2>2, <2>3
<1> QED
  BY <1>1, GroupsInside, IdsAreExact, TablesAreExact DEF G!GroupsExact

\* A step of another part leaves the groups as they are.
LEMMA OtherPartsKeepGroups ==
    ASSUME GroupInv, UNCHANGED groupVars
    PROVE  GroupInv'
<1>1. UNCHANGED <<by, me, host, numa, numa_num, color, local, rows, i, group_index, last_color, group_id,
                  group_num, _group_ids, _local_ranks, _brothers, _neighbors, _group_sizes>>
  BY DEF groupVars
<1>2. \A r : G!Peers(r)' = G!Peers(r)
  BY <1>1 DEF G!Peers
<1>3. G!Sorted(rows)' <=> G!Sorted(rows)
  BY <1>1 DEF G!Sorted
<1>4. {r \in G!Ranks : local'[r] = 0} = {r \in G!Ranks : local[r] = 0}
  BY <1>1
<1>5. GroupInput'
  BY <1>1, <1>2, <1>3, <1>4 DEF GroupInv, GroupInput
<1>6. PlacesAreColors'
  BY <1>1 DEF GroupInv, PlacesAreColors, G!HostsAreAlike
<1>7. G!Peers(me)' = G!Peers(me) /\ Done' = Done
  BY <1>1 DEF G!Peers, Done
<1>8. PassInv'
  BY <1>1, <1>7 DEF GroupInv, PassInv
<1> QED
  BY <1>5, <1>6, <1>8 DEF GroupInv

\* For any number of ranks, any colors and keys, hosts and NUMA nodes: when the
\* pass of mys_commgroup_create is over, group ids follow the colors without a
\* gap, the five tables of a rank are inverse to each other, and no element
\* outside of an array was written.  The groups made from hosts are those of
\* ranks that run together, and so are those made from NUMA nodes, if all hosts
\* have equally many nodes, counted from 0 (HostsAreAlike).
THEOREM GroupsOfColorsAreExact == Spec => []GroupsExact
<1> DEFINE Inv == part = "groups" => GroupInv
<1>1. Init => Inv
  BY StartOfParts, LibraryAssumption, InitGroupInv
<1>2. Inv /\ [Next]_vars => Inv'
  BY StepsOfParts, VisitGroupInv, OtherPartsKeepGroups
<1>3. Inv => GroupsExact
  BY GroupsAreExact DEF GroupsExact
<1> QED
  BY <1>1, <1>2, <1>3, PTL DEF Spec

-----------------------------------------------------------------------------
(***************************************************************************)
(* The arena.  Its counters of bytes are sums over the heap, so the        *)
(* invariant says which.  The hash mirrors what was allocated in debug     *)
(* mode, and its counter is the number of those pointers, of which there   *)
(* are fewer than a word has values, so it never wraps.                    *)
(***************************************************************************)

\* Counters modulo m that stay below m.
LEMMA NoWrap ==
    ASSUME NEW m \in Nat, NEW x \in Nat, x < m
    PROVE  x % m = x /\ (x + m) % m = x
<1>1. ASSUME NEW y \in Int, NEW q \in Int, NEW r \in 0 .. m - 1, y = m * q + r
      PROVE  r = y % m
  BY <1>1
<1>2. x = m * 0 + x /\ x + m = m * 1 + x /\ x \in 0 .. m - 1 /\ x \in Int /\ x + m \in Int
  OBVIOUS
<1> QED
  BY <1>1, <1>2

\* There is one sum.
LEMMA SumIsUnique ==
    ASSUME NEW dom, IsFiniteSet(dom), NEW f \in [dom -> Nat],
           NEW v, SumIs(v, f, dom), NEW w, SumIs(w, f, dom)
    PROVE  v = w
<1>1. v \in Nat /\ w \in Nat
  BY SumOfNats
<1>2. \A x \in dom : f[x] <= f[x]
  OBVIOUS
<1>3. v <= w /\ w <= v
  BY <1>2, SumIsMonotone
<1> QED
  BY <1>1, <1>3

\* The addresses that the hash can have records of.
Addresses == Ptrs \cup {NULL}

\* The numbers of records.
Lens(t) == [p \in Addresses |-> Len(t[p])]

\* What is assumed of the constants of Arena.
LEMMA ArenaConstants ==
    /\ IsFiniteSet(Ptrs) /\ IsFiniteSet(Addresses) /\ NULL \notin Ptrs
    /\ Sizes \subseteq Nat /\ MaxTotal \in Nat
    /\ Word \in Nat /\ Cardinality(Ptrs) < Word
<1>1. A!ArenaAssumption
  BY LibraryAssumption
<1>2. IsFiniteSet(Ptrs)
  BY <1>1 DEF A!ArenaAssumption, A!IsFiniteSet, IsFiniteSet
<1>3. IsFiniteSet(Addresses)
  BY <1>2, FS_AddElement DEF Addresses
<1>4. Cardinality(Ptrs) < Word
  BY <1>1 DEF A!ArenaAssumption, A!Cardinality, Cardinality
<1> QED
  BY <1>1, <1>2, <1>3, <1>4 DEF A!ArenaAssumption

\* The model's sums are sums.
LEMMA HeldIsSum == SumIs(MapThenSumSet(LAMBDA p : heap[p], Ptrs), [p \in Ptrs |-> heap[p]], Ptrs)
<1> DEFINE val(p) == heap[p]
<1>1. SumIsOf(MapThenSumSet(val, Ptrs), val, Ptrs)
  <2> HIDE DEF val
  <2> QED
    BY ArenaConstants, SumIsFold
<1> QED
  BY <1>1 DEF SumIsOf

\* Held is a sum over the pointers.
LEMMA ArenaHeldIsSum ==
    SumIs(A!MapThenSumSet(LAMBDA p : heap[p], Ptrs), [p \in Ptrs |-> heap[p]], Ptrs)
BY HeldIsSum DEF A!MapThenSumSet, A!MapThenFoldSet, MapThenSumSet, MapThenFoldSet

\* So is NumRecords.
LEMMA NumRecordsIsSum ==
    ASSUME DOMAIN _debug_trace = Addresses
    PROVE  SumIs(A!NumRecords, Lens(_debug_trace), Addresses)
<1> DEFINE val(p) == Len(_debug_trace[p])
<1>1. SumIsOf(MapThenSumSet(val, Addresses), val, Addresses)
  <2> HIDE DEF val
  <2> QED
    BY ArenaConstants, SumIsFold
<1>2. A!NumRecords = MapThenSumSet(val, Addresses)
  BY DEF A!NumRecords, A!MapThenSumSet, A!MapThenFoldSet, MapThenSumSet, MapThenFoldSet
<1> QED
  BY <1>1, <1>2 DEF SumIsOf, Lens

-----------------------------------------------------------------------------
\* The counters of bytes.  What is not held has no bytes.
BytesInv ==
    /\ arena_alive \in Nat /\ freed \in Nat /\ total \in Nat /\ peak \in Nat
    /\ recorded \in Nat /\ lost \in Nat
    /\ heap \in [Ptrs -> Nat]
    /\ held \in SUBSET Ptrs /\ \A p \in Ptrs \ held : heap[p] = 0
    /\ \E v \in Nat : SumIs(v, heap, Ptrs) /\ arena_alive = v + recorded + lost
    /\ total = arena_alive + freed
    /\ arena_alive <= peak /\ peak <= total /\ total <= MaxTotal

\* Arena starts in its invariant.
LEMMA InitBytesInv == A!Init => BytesInv
<1> SUFFICES ASSUME A!Init PROVE BytesInv
  OBVIOUS
<1>1. heap \in [Ptrs -> Nat] /\ \A p \in Ptrs : heap[p] = 0
  BY DEF A!Init
<1>2. SumIs(0, heap, Ptrs)
  BY <1>1, ArenaConstants, SumOfZeros
<1> QED
  BY <1>1, <1>2, ArenaConstants DEF A!Init, BytesInv

\* The heap and what is held of it, after a step.
HeapFits == /\ heap' \in [Ptrs -> Nat]
            /\ held' \in SUBSET Ptrs /\ \A p \in Ptrs \ held' : heap'[p] = 0

\* What AllocRecord and FreeRecord do, when the heap changes with them.
LEMMA BytesAllocated ==
    ASSUME BytesInv, NEW v \in Nat, NEW old \in Nat, NEW s \in Nat, NEW more \in Nat,
           old <= arena_alive, A!AllocRecord(arena_alive - old, freed + old, s),
           total + s <= MaxTotal, recorded' = more, lost' = lost,
           HeapFits, SumIs(v, heap', Ptrs), arena_alive - old + s = v + more + lost
    PROVE  BytesInv'
<1>1. /\ arena_alive' = arena_alive - old + s /\ freed' = freed + old /\ total' = total + s
      /\ peak' = IF peak < arena_alive - old + s THEN arena_alive - old + s ELSE peak
  BY DEF A!AllocRecord
<1>2. arena_alive \in Nat /\ freed \in Nat /\ total \in Nat /\ peak \in Nat /\ lost \in Nat
      /\ total = arena_alive + freed /\ arena_alive <= peak /\ peak <= total
  BY DEF BytesInv
<1>3. arena_alive' \in Nat /\ freed' \in Nat /\ total' \in Nat /\ peak' \in Nat
      /\ total' = arena_alive' + freed' /\ arena_alive' <= peak' /\ peak' <= total'
  BY <1>1, <1>2
<1>4. arena_alive' = v + recorded' + lost' /\ recorded' \in Nat /\ lost' \in Nat /\ total' <= MaxTotal
  BY <1>1, <1>2
<1> QED
  BY <1>3, <1>4 DEF BytesInv, HeapFits

\* What an arena counts when a pointer is released.
LEMMA BytesFreed ==
    ASSUME BytesInv, NEW v \in Nat, NEW s \in Nat, NEW more \in Nat, s <= arena_alive,
           A!FreeRecord(s), recorded' = more, lost' = lost,
           HeapFits, SumIs(v, heap', Ptrs), arena_alive - s = v + more + lost
    PROVE  BytesInv'
<1>1. arena_alive' = arena_alive - s /\ freed' = freed + s /\ total' = total /\ peak' = peak
  BY DEF A!FreeRecord
<1>2. arena_alive \in Nat /\ freed \in Nat /\ total \in Nat /\ peak \in Nat /\ lost \in Nat
      /\ total = arena_alive + freed /\ arena_alive <= peak /\ peak <= total /\ total <= MaxTotal
  BY DEF BytesInv
<1>3. arena_alive' \in Nat /\ freed' \in Nat /\ total' \in Nat /\ peak' \in Nat
      /\ total' = arena_alive' + freed' /\ arena_alive' <= peak' /\ peak' <= total'
      /\ total' <= MaxTotal
  BY <1>1, <1>2
<1>4. arena_alive' = v + recorded' + lost' /\ recorded' \in Nat /\ lost' \in Nat
  BY <1>1, <1>2
<1> QED
  BY <1>3, <1>4 DEF BytesInv, HeapFits

\* The heap when memory moves from p (or NULL) to q, and its sum.
OldSize(h, p) == IF p = NULL THEN 0 ELSE h[p]
\* The heap after realloc has moved p to q with s bytes.
Moved(h, p, q, s) == [x \in Ptrs |-> IF x = q THEN s ELSE IF x = p THEN 0 ELSE h[x]]

\* The sums after such a move.
LEMMA HeapMoves ==
    ASSUME NEW h \in [Ptrs -> Nat], NEW v \in Nat, SumIs(v, h, Ptrs),
           NEW p \in Addresses, NEW q \in Ptrs, q = p \/ h[q] = 0, NEW s \in Nat
    PROVE  /\ OldSize(h, p) \in Nat /\ OldSize(h, p) <= v
           /\ Moved(h, p, q, s) \in [Ptrs -> Nat]
           /\ SumIs(v - OldSize(h, p) + s, Moved(h, p, q, s), Ptrs)
<1> DEFINE old == OldSize(h, p)
           k == Moved(h, p, q, s)
<1> USE DEF OldSize, Moved
<1>0. NULL \notin Ptrs /\ IsFiniteSet(Ptrs)
  BY ArenaConstants
<1>1. CASE p = NULL
  <2>1. k = [h EXCEPT ![q] = s] /\ h[q] = 0 /\ old = 0
    BY <1>0, <1>1
  <2>2. SumIs(v - h[q] + s, k, Ptrs) /\ k \in [Ptrs -> Nat]
    BY <1>0, <2>1, SumFollows
  <2> QED
    BY <2>1, <2>2
<1>2. CASE p # NULL
  <2> DEFINE g == [h EXCEPT ![p] = 0]
  <2>0. p \in Ptrs /\ old = h[p] /\ old \in Nat
    BY <1>2 DEF Addresses
  <2>1. SumIs(v - h[p] + 0, g, Ptrs) /\ g \in [Ptrs -> Nat] /\ h[p] <= v
    <3> HIDE DEF g
    <3>1. 0 \in Nat
      OBVIOUS
    <3> QED
      BY <1>0, <2>0, <3>1, SumFollows DEF g
  <2>2. k = [g EXCEPT ![q] = s] /\ g[q] = 0
    BY <2>0
  <2> HIDE DEF g
  <2>3. v - h[p] + 0 = v - old /\ v - old \in Nat /\ old <= v
    BY <2>0, <2>1
  <2>4. SumIs(v - old, g, Ptrs)
    BY <2>1, <2>3
  <2>5. SumIs(v - old - g[q] + s, k, Ptrs) /\ k \in [Ptrs -> Nat]
    <3> DEFINE w == v - old
    <3>1. SumIs(w, g, Ptrs)
      BY <2>4
    <3> HIDE DEF w
    <3>2. /\ SumIs(w - g[q] + s, [g EXCEPT ![q] = s], Ptrs)
          /\ [g EXCEPT ![q] = s] \in [Ptrs -> Nat]
      BY <1>0, <2>1, <3>1, SumFollows
    <3> QED
      BY <2>2, <3>2 DEF w
  <2>6. v - old - g[q] + s = v - old + s
    BY <2>2, <2>3
  <2> QED
    BY <2>0, <2>3, <2>5, <2>6
<1> QED
  BY <1>1, <1>2

\* Who holds which memory after that.
LEMMA HoldsFits ==
    ASSUME BytesInv, NEW p \in Addresses, NEW q \in Addresses, NEW s \in Nat,
           q = NULL => s = 0, A!Holds(p, q, s)
    PROVE  HeapFits /\ heap' = Moved(heap, p, q, s)
<1>1. /\ held' = (held \ {p}) \cup ({q} \ {NULL})
      /\ heap' = [x \in Ptrs |-> IF x = q THEN s ELSE IF x = p THEN 0 ELSE heap[x]]
  BY DEF A!Holds
<1>2. heap \in [Ptrs -> Nat] /\ held \in SUBSET Ptrs /\ \A x \in Ptrs \ held : heap[x] = 0
  BY DEF BytesInv
<1>3. heap' \in [Ptrs -> Nat] /\ held' \in SUBSET Ptrs
  BY <1>1, <1>2 DEF Addresses
<1>4. ASSUME NEW x \in Ptrs \ held' PROVE heap'[x] = 0
  <2>1. x # q
    BY <1>1, <1>4, ArenaConstants
  <2>2. x = p \/ x \notin held
    BY <1>1, <1>4
  <2> QED
    BY <1>1, <1>2, <2>1, <2>2
<1> QED
  BY <1>1, <1>3, <1>4 DEF HeapFits, Moved

\* One step each: the counts stay the sums.
LEMMA BytesAllocate ==
    ASSUME BytesInv, NEW p \in Ptrs, NEW s \in Sizes, A!Allocate(p, s) PROVE BytesInv'
<1>1. /\ p \notin held /\ total + s <= MaxTotal /\ A!Holds(NULL, p, s)
      /\ A!AllocRecord(arena_alive, freed, s) /\ recorded' = recorded /\ lost' = lost
  BY DEF A!Allocate
<1>2. heap \in [Ptrs -> Nat] /\ recorded \in Nat /\ arena_alive \in Nat /\ freed \in Nat /\ lost \in Nat
      /\ heap[p] = 0
  BY <1>1 DEF BytesInv
<1>3. PICK v \in Nat : SumIs(v, heap, Ptrs) /\ arena_alive = v + recorded + lost
  BY DEF BytesInv
<1>4. s \in Nat /\ NULL \in Addresses /\ p \in Addresses /\ p # NULL
  BY ArenaConstants DEF Addresses
<1>5. HeapFits /\ SumIs(v - OldSize(heap, NULL) + s, heap', Ptrs)
  BY <1>1, <1>2, <1>3, <1>4, HoldsFits, HeapMoves
<1>6. OldSize(heap, NULL) = 0
  BY DEF OldSize
<1>7. v - OldSize(heap, NULL) + s = v + s /\ v + s \in Nat /\ arena_alive - 0 = arena_alive
      /\ freed + 0 = freed /\ arena_alive - 0 + s = v + s + recorded + lost /\ 0 <= arena_alive /\ 0 \in Nat
  BY <1>2, <1>3, <1>4, <1>6
<1>8. SumIs(v + s, heap', Ptrs)
  BY <1>5, <1>7
<1> QED
  BY <1>1, <1>2, <1>4, <1>5, <1>7, <1>8, BytesAllocated

\* The heap when p is freed.
LEMMA HeapLoses ==
    ASSUME NEW h \in [Ptrs -> Nat], NEW v \in Nat, SumIs(v, h, Ptrs), NEW p \in Ptrs
    PROVE  /\ h[p] \in Nat /\ h[p] <= v
           /\ SumIs(v - h[p], Moved(h, p, NULL, 0), Ptrs)
<1>1. Moved(h, p, NULL, 0) = [h EXCEPT ![p] = 0]
  BY ArenaConstants DEF Moved
<1>2. 0 \in Nat /\ h[p] \in Nat
  OBVIOUS
<1>3. SumIs(v - h[p] + 0, [h EXCEPT ![p] = 0], Ptrs) /\ h[p] <= v
  BY <1>2, ArenaConstants, SumFollows
<1>4. v - h[p] + 0 = v - h[p]
  BY <1>2
<1> QED
  BY <1>1, <1>2, <1>3, <1>4

\* mys_free2.
LEMMA BytesFree ==
    ASSUME BytesInv, NEW p \in Ptrs, A!Free(p) PROVE BytesInv'
<1>1. /\ heap \in [Ptrs -> Nat] /\ recorded \in Nat /\ arena_alive \in Nat /\ lost \in Nat
      /\ p \in Addresses /\ NULL \in Addresses /\ 0 \in Nat
  BY DEF BytesInv, Addresses
<1>2. CASE A!Abort
  BY <1>2 DEF A!Abort, A!bytes, A!client, BytesInv
<1>3. CASE ~ A!Abort
  <2>1. A!Holds(p, NULL, 0) /\ A!FreeRecord(heap[p]) /\ recorded' = recorded /\ lost' = lost
    BY <1>3 DEF A!Free
  <2>2. PICK v \in Nat : SumIs(v, heap, Ptrs) /\ arena_alive = v + recorded + lost
    BY DEF BytesInv
  <2>3. HeapFits /\ heap' = Moved(heap, p, NULL, 0)
    BY <1>1, <2>1, HoldsFits
  <2> DEFINE s == heap[p]
  <2>4. s \in Nat /\ s <= v /\ SumIs(v - s, heap', Ptrs) /\ A!FreeRecord(s)
    BY <1>1, <2>1, <2>2, <2>3, HeapLoses
  <2> HIDE DEF s
  <2>5. v - s \in Nat /\ arena_alive - s = v - s + recorded + lost /\ s <= arena_alive
    BY <1>1, <2>2, <2>4
  <2> QED
    BY <1>1, <2>1, <2>3, <2>4, <2>5, BytesFreed
<1> QED
  BY <1>2, <1>3

\* realloc keeps the counts.
LEMMA BytesReallocate ==
    ASSUME BytesInv, NEW p \in Addresses, NEW q \in Addresses, NEW s \in Sizes, A!Reallocate(p, q, s)
    PROVE  BytesInv'
<1> DEFINE old == OldSize(heap, p)
<1>0. /\ heap \in [Ptrs -> Nat] /\ recorded \in Nat /\ arena_alive \in Nat /\ lost \in Nat
      /\ NULL \in Addresses /\ 0 \in Nat /\ s \in Nat
  BY ArenaConstants DEF BytesInv, Addresses
<1>4. PICK v \in Nat : SumIs(v, heap, Ptrs) /\ arena_alive = v + recorded + lost
  BY DEF BytesInv
<1>1. CASE UNCHANGED <<A!bytes, held, heap, recorded, lost>>
  BY <1>1 DEF A!bytes, BytesInv
<1>2. CASE /\ p # NULL /\ A!Holds(p, NULL, 0) /\ lost' = lost + old
           /\ UNCHANGED <<A!bytes, recorded>>
  <2>1. p \in Ptrs /\ old = heap[p]
    BY <1>2 DEF OldSize, Addresses
  <2>2. HeapFits /\ heap' = Moved(heap, p, NULL, 0)
    BY <1>0, <1>2, HoldsFits
  <2>3. old \in Nat /\ old <= v /\ SumIs(v - old, heap', Ptrs)
    BY <1>0, <1>4, <2>1, <2>2, HeapLoses
  <2> HIDE DEF old
  <2>4. v - old \in Nat /\ lost' \in Nat /\ arena_alive = (v - old) + recorded + lost'
    BY <1>0, <1>2, <1>4, <2>3
  <2> QED
    BY <1>2, <2>2, <2>3, <2>4 DEF A!bytes, BytesInv, HeapFits
<1>3. CASE /\ q # NULL /\ (q = p \/ q \notin held) /\ total + s <= MaxTotal
           /\ A!AllocRecord(arena_alive - old, freed + old, s)
           /\ A!Holds(p, q, s) /\ recorded' = recorded /\ lost' = lost
  <2>1. q \in Ptrs /\ (q = p \/ heap[q] = 0)
    BY <1>3 DEF Addresses, BytesInv
  <2>2. HeapFits /\ heap' = Moved(heap, p, q, s)
    BY <1>0, <1>3, HoldsFits
  <2>5. old \in Nat /\ old <= v /\ SumIs(v - old + s, heap', Ptrs)
    BY <1>0, <1>4, <2>1, <2>2, HeapMoves
  <2> HIDE DEF old
  <2>6. v - old + s \in Nat /\ arena_alive - old + s = v - old + s + recorded + lost /\ old <= arena_alive
    BY <1>0, <1>4, <2>5
  <2> QED
    BY <1>0, <1>3, <2>2, <2>5, <2>6, BytesAllocated
<1> QED
  BY <1>1, <1>2, <1>3 DEF A!Reallocate, A!Abort, A!client, OldSize

\* So does a new record of the trace.
LEMMA BytesRecordAlloc ==
    ASSUME BytesInv, NEW s \in Sizes, A!RecordAlloc(s) PROVE BytesInv'
<1>1. /\ total + s <= MaxTotal /\ A!AllocRecord(arena_alive, freed, s)
      /\ recorded' = recorded + s /\ heap' = heap /\ held' = held /\ lost' = lost
  BY DEF A!RecordAlloc
<1>2. heap \in [Ptrs -> Nat] /\ recorded \in Nat /\ arena_alive \in Nat /\ freed \in Nat /\ s \in Nat
      /\ lost \in Nat /\ HeapFits
  BY <1>1, ArenaConstants DEF BytesInv, HeapFits
<1>3. PICK v \in Nat : SumIs(v, heap, Ptrs) /\ arena_alive = v + recorded + lost
  BY DEF BytesInv
<1>4. /\ recorded + s \in Nat /\ arena_alive - 0 = arena_alive /\ freed + 0 = freed
      /\ arena_alive - 0 + s = v + (recorded + s) + lost /\ 0 <= arena_alive /\ 0 \in Nat
  BY <1>2, <1>3
<1> QED
  BY <1>1, <1>2, <1>3, <1>4, BytesAllocated

\* So does the end of a record.
LEMMA BytesRecordFree ==
    ASSUME BytesInv, NEW s \in Sizes, A!RecordFree(s) PROVE BytesInv'
<1>1. s <= recorded /\ A!FreeRecord(s) /\ recorded' = recorded - s /\ heap' = heap /\ held' = held
      /\ lost' = lost
  BY DEF A!RecordFree
<1>2. heap \in [Ptrs -> Nat] /\ recorded \in Nat /\ arena_alive \in Nat /\ s \in Nat /\ lost \in Nat /\ HeapFits
  BY <1>1, ArenaConstants DEF BytesInv, HeapFits
<1>3. PICK v \in Nat : SumIs(v, heap, Ptrs) /\ arena_alive = v + recorded + lost
  BY DEF BytesInv
<1>4. recorded - s \in Nat /\ arena_alive - s = v + (recorded - s) + lost /\ s <= arena_alive
  BY <1>1, <1>2, <1>3
<1> QED
  BY <1>1, <1>2, <1>3, <1>4, BytesFreed

\* Every step of Library keeps the counts.
LEMMA NextBytesInv == BytesInv /\ [Next]_vars => BytesInv'
<1> SUFFICES ASSUME BytesInv, [Next]_vars PROVE BytesInv'
  OBVIOUS
<1>1. CASE UNCHANGED arenaVars
  BY <1>1 DEF arenaVars, BytesInv
<1>2. CASE A!Next
  <2>1. ASSUME UNCHANGED <<A!bytes, A!client>> PROVE BytesInv'
    BY <2>1 DEF A!bytes, A!client, BytesInv
  <2>2. CASE \E val \in BOOLEAN : A!SetDebug(val)
    BY <2>1, <2>2 DEF A!SetDebug
  <2>3. CASE A!PrintLeaked
    BY <2>1, <2>3 DEF A!PrintLeaked, A!Abort, A!vars
  <2>4. CASE A!Destroy
    BY <2>1, <2>4 DEF A!Destroy
  <2> QED
    BY <1>2, <2>2, <2>3, <2>4, BytesAllocate, BytesFree, BytesReallocate, BytesRecordAlloc,
       BytesRecordFree DEF A!Next, Addresses
<1> QED
  BY <1>1, <1>2, StepsOfParts

\* The invariant says what the run checks.
LEMMA BytesAreHeld == BytesInv => A!AliveIsHeld
<1> SUFFICES ASSUME BytesInv PROVE A!AliveIsHeld
  OBVIOUS
<1>1. heap \in [Ptrs -> Nat] /\ recorded \in Nat
  BY DEF BytesInv
<1>2. PICK v \in Nat : SumIs(v, heap, Ptrs) /\ arena_alive = v + recorded + lost
  BY DEF BytesInv
<1>3. [p \in Ptrs |-> heap[p]] = heap
  BY <1>1
<1>4. A!MapThenSumSet(LAMBDA p : heap[p], Ptrs) = v
  BY <1>1, <1>2, <1>3, ArenaHeldIsSum, ArenaConstants, SumIsUnique
<1>5. total = arena_alive + freed /\ peak \in arena_alive .. total
  BY DEF BytesInv
<1> QED
  BY <1>2, <1>4, <1>5 DEF A!AliveIsHeld

\* The counters of an arena (memory.c) say to the byte what its client holds
\* (and what a realloc to size 0 has freed behind its back), through
\* reallocations that move, grow in place, shrink or fail, and however debug
\* mode is switched.
THEOREM ArenaCountsBytes == Spec => []A!AliveIsHeld
<1>1. Init => BytesInv
  BY StartOfParts, InitBytesInv
<1> QED
  BY <1>1, NextBytesInv, BytesAreHeld, PTL DEF Spec

-----------------------------------------------------------------------------
\* The records.  The hash t holds one record for each pointer of sub, with the
\* size that h says.
Mirrors(t, h, sub) ==
    /\ t \in [Addresses -> Seq(Nat)]
    /\ t[NULL] = <<>>
    /\ \A p \in Ptrs : t[p] = IF p \in sub THEN <<h[p]>> ELSE <<>>

\* The invariant of the debug mode, of clients that keep the rules.
RecordsInv ==
    /\ _enable_debug \in BOOLEAN /\ arena_phase # "aborted"
    /\ tracked \in SUBSET held
    /\ arena_phase = "live" =>
        /\ Mirrors(_debug_trace, heap, tracked)
        /\ _alive_count = Cardinality(tracked)

\* A record is added.
LEMMA MirrorInsert ==
    ASSUME NEW sub \in SUBSET Ptrs, NEW h, NEW k, NEW t, Mirrors(t, h, sub),
           NEW p \in Ptrs \ sub, NEW s \in Nat, k[p] = s, \A x \in sub : k[x] = h[x]
    PROVE  Mirrors([t EXCEPT ![p] = <<s>> \o @], k, sub \cup {p})
<1>1. t \in [Addresses -> Seq(Nat)] /\ t[NULL] = <<>> /\ t[p] = <<>> /\ p \in Addresses /\ p # NULL
  BY ArenaConstants DEF Mirrors, Addresses
<1>2. <<s>> \o <<>> = <<s>> /\ <<s>> \in Seq(Nat)
  OBVIOUS
<1> DEFINE new == [t EXCEPT ![p] = <<s>> \o @]
<1>3. new = [t EXCEPT ![p] = <<s>>]
  BY <1>1, <1>2
<1> HIDE DEF new
<1>4. new \in [Addresses -> Seq(Nat)] /\ new[NULL] = <<>>
  BY <1>1, <1>2, <1>3
<1>5. ASSUME NEW x \in Ptrs PROVE new[x] = IF x \in sub \cup {p} THEN <<k[x]>> ELSE <<>>
  <2>1. CASE x = p
    BY <1>1, <1>3, <2>1
  <2>2. CASE x # p
    <3>1. new[x] = t[x] /\ t[x] = IF x \in sub THEN <<h[x]>> ELSE <<>>
      BY <1>1, <1>3, <2>2 DEF Mirrors, Addresses
    <3> QED
      BY <2>2, <3>1
  <2> QED
    BY <2>1, <2>2
<1>6. Mirrors(new, k, sub \cup {p})
  BY <1>4, <1>5 DEF Mirrors
<1> QED
  BY <1>6 DEF new

\* A record is taken out.
LEMMA MirrorDelete ==
    ASSUME NEW sub \in SUBSET Ptrs, NEW h \in [Ptrs -> Nat], NEW k, NEW t, Mirrors(t, h, sub),
           NEW p \in sub, \A x \in sub \ {p} : k[x] = h[x]
    PROVE  Mirrors([t EXCEPT ![p] = IF @ = <<>> THEN @ ELSE Tail(@)], k, sub \ {p})
<1>1. t \in [Addresses -> Seq(Nat)] /\ t[NULL] = <<>> /\ t[p] = <<h[p]>> /\ p \in Addresses /\ p # NULL
  BY ArenaConstants DEF Mirrors, Addresses
<1>2. Tail(<<h[p]>>) = <<>> /\ <<>> \in Seq(Nat) /\ <<h[p]>> # <<>>
  OBVIOUS
<1> DEFINE new == [t EXCEPT ![p] = IF @ = <<>> THEN @ ELSE Tail(@)]
<1>3. new = [t EXCEPT ![p] = <<>>]
  BY <1>1, <1>2
<1> HIDE DEF new
<1>4. new \in [Addresses -> Seq(Nat)] /\ new[NULL] = <<>>
  BY <1>1, <1>2, <1>3
<1>5. ASSUME NEW x \in Ptrs PROVE new[x] = IF x \in sub \ {p} THEN <<k[x]>> ELSE <<>>
  <2>1. CASE x = p
    BY <1>1, <1>3, <2>1
  <2>2. CASE x # p
    <3>1. new[x] = t[x] /\ t[x] = IF x \in sub THEN <<h[x]>> ELSE <<>>
      BY <1>1, <1>3, <2>2 DEF Mirrors, Addresses
    <3> QED
      BY <2>2, <3>1
  <2> QED
    BY <2>1, <2>2
<1>6. Mirrors(new, k, sub \ {p})
  BY <1>4, <1>5 DEF Mirrors
<1> QED
  BY <1>6 DEF new

\* The counter of the records follows their set, and does not wrap.
LEMMA CountInsert ==
    ASSUME NEW sub \in SUBSET Ptrs, NEW p \in Ptrs \ sub
    PROVE  (Cardinality(sub) + 1) % Word = Cardinality(sub \cup {p})
<1> DEFINE n == Cardinality(sub \cup {p})
<1>1. IsFiniteSet(sub) /\ IsFiniteSet(sub \cup {p})
  BY ArenaConstants, FS_Subset
<1>2. n = Cardinality(sub) + 1 /\ n \in Nat
  BY <1>1, FS_AddElement, FS_CardinalityType
<1>3. n <= Cardinality(Ptrs) /\ Cardinality(Ptrs) \in Nat
  <2>1. sub \cup {p} \subseteq Ptrs
    OBVIOUS
  <2> QED
    BY <2>1, ArenaConstants, FS_Subset, FS_CardinalityType
<1> HIDE DEF n
<1>4. n < Word /\ Word \in Nat
  BY <1>2, <1>3, ArenaConstants
<1>5. n % Word = n
  BY <1>2, <1>4, NoWrap
<1> QED
  BY <1>2, <1>5 DEF n

\* The same when one is taken out.
LEMMA CountDelete ==
    ASSUME NEW sub \in SUBSET Ptrs, NEW p \in sub
    PROVE  (Cardinality(sub) + Word - 1) % Word = Cardinality(sub \ {p})
<1> DEFINE n == Cardinality(sub \ {p})
           m == Cardinality(sub)
<1>1. IsFiniteSet(sub) /\ IsFiniteSet(sub \ {p})
  BY ArenaConstants, FS_Subset
<1>2. n = m - 1 /\ n \in Nat /\ m \in Nat
  BY <1>1, FS_RemoveElement, FS_CardinalityType
<1>3. m <= Cardinality(Ptrs) /\ Cardinality(Ptrs) \in Nat
  BY ArenaConstants, FS_Subset, FS_CardinalityType
<1> HIDE DEF n, m
<1>4. n < Word /\ Word \in Nat /\ m + Word - 1 = n + Word
  BY <1>2, <1>3, ArenaConstants
<1>5. (n + Word) % Word = n
  BY <1>2, <1>4, NoWrap
<1> QED
  BY <1>4, <1>5 DEF n, m

\* What a state of the debug mode becomes.
Dbg(a, f, n, t) == [alive |-> a, freed |-> f, total |-> n, trace |-> t]

\* DEBUG_INSERT and DEBUG_DELETE, field by field.
LEMMA InsertedIs ==
    ASSUME NEW a, NEW f, NEW n, NEW t, NEW p, NEW s
    PROVE  A!Inserted(Dbg(a, f, n, t), p, s)
               = Dbg((a + 1) % Word, f, (n + 1) % Word, [t EXCEPT ![p] = <<s>> \o @])
<1> DEFINE d == Dbg(a, f, n, t)
           up == (n + 1) % Word
           m == (a + 1) % Word
           new == [t EXCEPT ![p] = <<s>> \o @]
           one == [d EXCEPT !.total = up]
           two == [one EXCEPT !.alive = m]
<1>1. d.total = n /\ d.alive = a /\ d.trace = t
  BY DEF Dbg
<1>2. A!Inserted(d, p, s) = [d EXCEPT !.total = up, !.alive = m, !.trace = new]
  BY <1>1 DEF A!Inserted
<1> HIDE DEF up, m, new
<1>3. one = Dbg(a, f, up, t)
  BY DEF Dbg
<1> HIDE DEF one
<1>4. two = Dbg(m, f, up, t)
  BY <1>3 DEF Dbg
<1> HIDE DEF two, d
<1>5. [two EXCEPT !.trace = new] = Dbg(m, f, up, new)
  BY <1>4 DEF Dbg
<1>6. [d EXCEPT !.total = up, !.alive = m, !.trace = new] = [two EXCEPT !.trace = new]
  BY DEF one, two
<1> QED
  BY <1>2, <1>5, <1>6 DEF d, up, m, new

\* The same for DEBUG_DELETE.
LEMMA DeletedIs ==
    ASSUME NEW a, NEW f, NEW n, NEW t, NEW p
    PROVE  A!Deleted(Dbg(a, f, n, t), p)
               = Dbg((a + Word - 1) % Word, (f + 1) % Word, n,
                     [t EXCEPT ![p] = IF @ = <<>> THEN @ ELSE Tail(@)])
<1> DEFINE d == Dbg(a, f, n, t)
           up == (f + 1) % Word
           m == (a + Word - 1) % Word
           new == [t EXCEPT ![p] = IF @ = <<>> THEN @ ELSE Tail(@)]
           one == [d EXCEPT !.alive = m]
           two == [one EXCEPT !.freed = up]
<1>1. d.freed = f /\ d.alive = a /\ d.trace = t
  BY DEF Dbg
<1>2. A!Deleted(d, p) = [d EXCEPT !.alive = m, !.freed = up, !.trace = new]
  BY <1>1 DEF A!Deleted
<1> HIDE DEF up, m, new
<1>3. one = Dbg(m, f, n, t)
  BY DEF Dbg
<1> HIDE DEF one
<1>4. two = Dbg(m, up, n, t)
  BY <1>3 DEF Dbg
<1> HIDE DEF two, d
<1>5. [two EXCEPT !.trace = new] = Dbg(m, up, n, new)
  BY <1>4 DEF Dbg
<1>6. [d EXCEPT !.alive = m, !.freed = up, !.trace = new] = [two EXCEPT !.trace = new]
  BY DEF one, two
<1> QED
  BY <1>2, <1>5, <1>6 DEF d, up, m, new

\* What is set is the counter and the hash.
LEMMA StateIsSet ==
    ASSUME NEW a, NEW f, NEW n, NEW t, A!SetDebugState(Dbg(a, f, n, t))
    PROVE  _alive_count' = a /\ _debug_trace' = t
BY DEF A!SetDebugState, Dbg

\* The state that the actions start from.
LEMMA DebugStateIs == A!DebugState = Dbg(_alive_count, _freed_count, _total_count, _debug_trace)
BY DEF A!DebugState, Dbg

\* What an action that adds a record leaves.
LEMMA InsertSets ==
    ASSUME NEW p, NEW s, A!SetDebugState(A!Inserted(A!DebugState, p, s))
    PROVE  /\ _alive_count' = (_alive_count + 1) % Word
           /\ _debug_trace' = [_debug_trace EXCEPT ![p] = <<s>> \o @]
<1> DEFINE m == (_alive_count + 1) % Word
           up == (_total_count + 1) % Word
           new == [_debug_trace EXCEPT ![p] = <<s>> \o @]
<1>1. A!Inserted(Dbg(_alive_count, _freed_count, _total_count, _debug_trace), p, s)
          = Dbg(m, _freed_count, up, new)
  BY InsertedIs
<1> HIDE DEF m, up, new
<1>2. A!SetDebugState(Dbg(m, _freed_count, up, new))
  BY <1>1, DebugStateIs
<1> QED
  BY <1>2, StateIsSet DEF m, new

\* What an action that takes one out leaves.
LEMMA DeleteSets ==
    ASSUME NEW p, A!SetDebugState(A!Deleted(A!DebugState, p))
    PROVE  /\ _alive_count' = (_alive_count + Word - 1) % Word
           /\ _debug_trace' = [_debug_trace EXCEPT ![p] = IF @ = <<>> THEN @ ELSE Tail(@)]
<1> DEFINE m == (_alive_count + Word - 1) % Word
           up == (_freed_count + 1) % Word
           new == [_debug_trace EXCEPT ![p] = IF @ = <<>> THEN @ ELSE Tail(@)]
<1>1. A!Deleted(Dbg(_alive_count, _freed_count, _total_count, _debug_trace), p)
          = Dbg(m, up, _total_count, new)
  BY DeletedIs
<1> HIDE DEF m, up, new
<1>2. A!SetDebugState(Dbg(m, up, _total_count, new))
  BY <1>1, DebugStateIs
<1> QED
  BY <1>2, StateIsSet DEF m, new

\* What one that does both leaves.
LEMMA MoveSets ==
    ASSUME NEW p, NEW q, NEW s, A!SetDebugState(A!Inserted(A!Deleted(A!DebugState, p), q, s))
    PROVE  /\ _alive_count' = (((_alive_count + Word - 1) % Word) + 1) % Word
           /\ _debug_trace' = [[_debug_trace EXCEPT ![p] = IF @ = <<>> THEN @ ELSE Tail(@)]
                                 EXCEPT ![q] = <<s>> \o @]
<1> DEFINE fewer == (_alive_count + Word - 1) % Word
           less == [_debug_trace EXCEPT ![p] = IF @ = <<>> THEN @ ELSE Tail(@)]
           off == (_freed_count + 1) % Word
           m == (fewer + 1) % Word
           up == (_total_count + 1) % Word
           new == [less EXCEPT ![q] = <<s>> \o @]
<1>1. A!Deleted(Dbg(_alive_count, _freed_count, _total_count, _debug_trace), p)
          = Dbg(fewer, off, _total_count, less)
  BY DeletedIs
<1> HIDE DEF off, fewer, less
<1>2. A!Inserted(Dbg(fewer, off, _total_count, less), q, s) = Dbg(m, off, up, new)
  BY InsertedIs
<1> HIDE DEF m, up, new
<1>3. A!SetDebugState(Dbg(m, off, up, new))
  BY <1>1, <1>2, DebugStateIs
<1>4. _alive_count' = m /\ _debug_trace' = new
  BY <1>3, StateIsSet
<1> QED
  BY <1>4 DEF m, new, fewer, less

\* The module as it is created has no records.
LEMMA InitRecordsInv == A!Init => RecordsInv
<1> SUFFICES ASSUME A!Init PROVE RecordsInv
  OBVIOUS
<1>1. /\ _enable_debug = FALSE /\ _alive_count = 0 /\ tracked = {} /\ arena_phase = "live"
      /\ _debug_trace = [p \in Addresses |-> <<>>]
  BY DEF A!Init, Addresses
<1>2. Mirrors(_debug_trace, heap, {})
  BY <1>1 DEF Mirrors, Addresses
<1>3. Cardinality({}) = 0
  BY FS_EmptySet
<1> QED
  BY <1>1, <1>2, <1>3 DEF RecordsInv

\* The steps of a live arena, with what the invariant says of it.
RecordsStart ==
    /\ _enable_debug \in BOOLEAN /\ arena_phase = "live" /\ Broken = {}
    /\ held \in SUBSET Ptrs /\ NULL \notin held
    /\ tracked \in SUBSET held /\ tracked \in SUBSET Ptrs /\ NULL \notin tracked
    /\ heap \in [Ptrs -> Nat]
    /\ Mirrors(_debug_trace, heap, tracked) /\ _alive_count = Cardinality(tracked)

\* It says all of that.
LEMMA RecordsStarts ==
    ASSUME Broken = {}, BytesInv, RecordsInv, arena_phase = "live" PROVE RecordsStart
BY ArenaConstants DEF RecordsInv, RecordsStart, BytesInv

\* An allocation.
LEMMA RecordsAllocate ==
    ASSUME RecordsStart, NEW p \in Ptrs, NEW s \in Sizes, A!Allocate(p, s) PROVE RecordsInv'
<1>1. /\ p \notin held /\ p # NULL /\ s \in Nat /\ arena_phase' = "live" /\ _enable_debug' = _enable_debug
      /\ p \notin tracked
  BY ArenaConstants DEF A!Allocate, RecordsStart
<1>2. /\ held' = held \cup {p} /\ heap'[p] = s /\ \A x \in tracked : heap'[x] = heap[x]
      /\ tracked' = IF _enable_debug THEN tracked \cup {p} ELSE tracked
  <2>1. A!Holds(NULL, p, s)
    BY DEF A!Allocate
  <2>2. /\ held' = (held \ {NULL}) \cup ({p} \ {NULL})
        /\ tracked' = (tracked \ {NULL}) \cup (IF _enable_debug THEN {p} \ {NULL} ELSE {})
        /\ heap' = [x \in Ptrs |-> IF x = p THEN s ELSE IF x = NULL THEN 0 ELSE heap[x]]
    BY <2>1 DEF A!Holds
  <2>3. heap'[p] = s /\ \A x \in tracked : heap'[x] = heap[x]
    BY <1>1, <2>2 DEF RecordsStart
  <2>4. NULL \notin tracked /\ {p} \ {NULL} = {p} /\ tracked \ {NULL} = tracked
    BY <1>1 DEF RecordsStart
  <2>5. held \ {NULL} = held
    BY DEF RecordsStart
  <2> QED
    BY <2>2, <2>3, <2>4, <2>5
<1>3. tracked' \in SUBSET held'
  BY <1>2 DEF RecordsStart
<1>4. CASE _enable_debug
  <2>1. A!SetDebugState(A!Inserted(A!DebugState, p, s))
    BY <1>4 DEF A!Allocate
  <2>2. /\ _alive_count' = (_alive_count + 1) % Word
        /\ _debug_trace' = [_debug_trace EXCEPT ![p] = <<s>> \o @]
    BY <2>1, InsertSets
  <2>3. Mirrors(_debug_trace', heap', tracked \cup {p})
    BY <1>1, <1>2, <2>2, MirrorInsert DEF RecordsStart
  <2>4. _alive_count' = Cardinality(tracked \cup {p})
    BY <1>1, <2>2, CountInsert DEF RecordsStart
  <2> QED
    BY <1>1, <1>2, <1>3, <1>4, <2>3, <2>4 DEF RecordsInv, RecordsStart
<1>5. CASE ~ _enable_debug
  <2>1. _debug_trace' = _debug_trace /\ _alive_count' = _alive_count /\ tracked' = tracked
    BY <1>2, <1>5 DEF A!Allocate, A!debug
  <2>2. Mirrors(_debug_trace', heap', tracked)
    BY <1>2, <2>1 DEF RecordsStart, Mirrors
  <2> QED
    BY <1>1, <1>2, <1>3, <2>1, <2>2 DEF RecordsInv, RecordsStart
<1> QED
  BY <1>4, <1>5

\* The record of a pointer that is given back has the size that is given.
LEMMA SizeIsRight ==
    ASSUME RecordsStart, NEW p \in tracked PROVE ~ A!SizeRefused(p, heap[p])
<1>1. _debug_trace[p] = <<heap[p]>>
  BY DEF RecordsStart, Mirrors
<1>2. \A x : Head(<<x>>) = x
  OBVIOUS
<1> QED
  BY <1>1, <1>2 DEF A!SizeRefused

\* A pointer is given back.
LEMMA RecordsFree ==
    ASSUME RecordsStart, NEW p \in Ptrs, A!Free(p) PROVE RecordsInv'
<1>1. /\ p \in held /\ p # NULL /\ (p \in tracked) = _enable_debug
  BY ArenaConstants DEF A!Free, A!MayGive, RecordsStart
<1>2. ~ (_enable_debug /\ A!SizeRefused(p, heap[p]))
  BY <1>1, SizeIsRight
<1>3. /\ A!Holds(p, NULL, 0) /\ arena_phase' = "live" /\ _enable_debug' = _enable_debug
      /\ IF _enable_debug THEN A!SetDebugState(A!Deleted(A!DebugState, p)) ELSE UNCHANGED A!debug
  BY <1>2 DEF A!Free, RecordsStart
<1>4. /\ held' = held \ {p} /\ tracked' = tracked \ {p} /\ \A x \in tracked \ {p} : heap'[x] = heap[x]
  BY <1>3 DEF A!Holds, RecordsStart
<1>5. tracked' \in SUBSET held'
  BY <1>4 DEF RecordsStart
<1>6. CASE _enable_debug
  <2> A!SetDebugState(A!Deleted(A!DebugState, p))
    BY <1>3, <1>6
  <2>1. /\ _alive_count' = (_alive_count + Word - 1) % Word
        /\ _debug_trace' = [_debug_trace EXCEPT ![p] = IF @ = <<>> THEN @ ELSE Tail(@)]
    BY DeleteSets
  <2>2. Mirrors(_debug_trace', heap', tracked \ {p})
    BY <1>1, <1>4, <1>6, <2>1, MirrorDelete DEF RecordsStart
  <2>3. _alive_count' = Cardinality(tracked \ {p})
    BY <1>1, <1>6, <2>1, CountDelete DEF RecordsStart
  <2> QED
    BY <1>3, <1>4, <1>5, <2>2, <2>3 DEF RecordsInv, RecordsStart
<1>7. CASE ~ _enable_debug
  <2>1. _debug_trace' = _debug_trace /\ _alive_count' = _alive_count
    BY <1>3, <1>7 DEF A!debug
  <2>2. tracked' = tracked /\ \A x \in tracked : heap'[x] = heap[x]
    BY <1>1, <1>4, <1>7
  <2>3. Mirrors(_debug_trace', heap', tracked)
    BY <2>1, <2>2 DEF RecordsStart, Mirrors
  <2> QED
    BY <1>3, <1>5, <2>1, <2>2, <2>3 DEF RecordsInv, RecordsStart
<1> QED
  BY <1>6, <1>7

\* What a reallocation does to the memory when the rules are kept: it moves, or
\* stays because there is none.
LEMMA ReallocateMoves ==
    ASSUME RecordsStart, NEW p \in Addresses, NEW q \in Addresses, NEW s \in Sizes, A!Reallocate(p, q, s)
    PROVE  /\ p # NULL => p \in held /\ (p \in tracked) = _enable_debug
           /\ p = NULL => ~ _enable_debug
           /\ arena_phase' = "live" /\ _enable_debug' = _enable_debug
           /\ \/ /\ q = NULL /\ UNCHANGED <<held, heap, tracked>>
                 /\ _enable_debug =>
                        A!SetDebugState(A!Inserted(A!Deleted(A!DebugState, p), p, heap[p]))
              \/ /\ q \in Ptrs /\ (q = p \/ q \notin held) /\ A!Holds(p, q, s)
                 /\ _enable_debug =>
                        A!SetDebugState(A!Inserted(A!Deleted(A!DebugState, p), q, s))
           /\ ~ _enable_debug => UNCHANGED A!debug
<1>1. /\ p # NULL => p \in held /\ (p \in tracked) = _enable_debug /\ s # 0
      /\ p = NULL => ~ _enable_debug
  BY DEF A!Reallocate, A!MayAsk, A!MayGive, RecordsStart
<1>2. ~ (_enable_debug /\ A!SizeRefused(p, IF p = NULL THEN 0 ELSE heap[p]))
  BY <1>1, SizeIsRight
<1>3. q # NULL => q \in Ptrs
  BY DEF Addresses
<1>4. /\ arena_phase' = "live" /\ _enable_debug' = _enable_debug
      /\ ~ _enable_debug => UNCHANGED A!debug
  BY <1>2 DEF A!Reallocate, RecordsStart
<1>5. \/ /\ q = NULL /\ UNCHANGED <<held, heap, tracked>>
         /\ _enable_debug =>
                A!SetDebugState(A!Inserted(A!Deleted(A!DebugState, p), p, heap[p]))
      \/ /\ q # NULL /\ (q = p \/ q \notin held) /\ A!Holds(p, q, s)
         /\ _enable_debug => A!SetDebugState(A!Inserted(A!Deleted(A!DebugState, p), q, s))
  BY <1>1, <1>2 DEF A!Reallocate
<1> QED
  BY <1>1, <1>3, <1>4, <1>5

\* A reallocation in debug mode: the record of p goes, that of q comes.
LEMMA RecordMoves ==
    ASSUME RecordsStart, NEW p \in tracked, NEW q \in Ptrs, q = p \/ q \notin tracked,
           NEW s \in Nat, NEW k, k[q] = s, \A x \in tracked \ {p} : x # q => k[x] = heap[x],
           A!SetDebugState(A!Inserted(A!Deleted(A!DebugState, p), q, s))
    PROVE  /\ Mirrors(_debug_trace', k, (tracked \ {p}) \cup {q})
           /\ _alive_count' = Cardinality((tracked \ {p}) \cup {q})
<1> DEFINE less == [_debug_trace EXCEPT ![p] = IF @ = <<>> THEN @ ELSE Tail(@)]
           rest == tracked \ {p}
           fewer == (_alive_count + Word - 1) % Word
<1>1. _alive_count' = (fewer + 1) % Word /\ _debug_trace' = [less EXCEPT ![q] = <<s>> \o @]
  BY MoveSets
<1>2. Mirrors(less, heap, rest) /\ fewer = Cardinality(rest)
  BY MirrorDelete, CountDelete DEF RecordsStart
<1>3. rest \in SUBSET Ptrs /\ q \in Ptrs \ rest /\ \A x \in rest : k[x] = heap[x]
  BY DEF RecordsStart
<1> HIDE DEF less, fewer, rest
<1>4. Mirrors(_debug_trace', k, rest \cup {q})
  BY <1>1, <1>2, <1>3, MirrorInsert
<1>5. _alive_count' = Cardinality(rest \cup {q})
  BY <1>1, <1>2, <1>3, CountInsert
<1> QED
  BY <1>4, <1>5 DEF rest

\* realloc keeps the records, also when it fails.
LEMMA RecordsReallocate ==
    ASSUME RecordsStart, NEW p \in Addresses, NEW q \in Addresses, NEW s \in Sizes, A!Reallocate(p, q, s)
    PROVE  RecordsInv'
<1>1. /\ p # NULL => p \in held /\ (p \in tracked) = _enable_debug
      /\ p = NULL => ~ _enable_debug
      /\ arena_phase' = "live" /\ _enable_debug' = _enable_debug
      /\ ~ _enable_debug => UNCHANGED A!debug
  BY ReallocateMoves
<1>2. s \in Nat /\ _enable_debug \in BOOLEAN /\ heap \in [Ptrs -> Nat] /\ tracked \in SUBSET held
      /\ tracked \in SUBSET Ptrs /\ NULL \notin tracked
  BY ArenaConstants DEF RecordsStart
<1>3. CASE /\ q = NULL /\ UNCHANGED <<held, heap, tracked>>
           /\ _enable_debug => A!SetDebugState(A!Inserted(A!Deleted(A!DebugState, p), p, heap[p]))
  <2>1. CASE _enable_debug
    <3>1. p \in tracked /\ p \in Ptrs /\ heap[p] \in Nat /\ (tracked \ {p}) \cup {p} = tracked
      BY <1>1, <1>2, <2>1
    <3>2. A!SetDebugState(A!Inserted(A!Deleted(A!DebugState, p), p, heap[p]))
      BY <1>3, <2>1
    <3>3. Mirrors(_debug_trace', heap, tracked) /\ _alive_count' = Cardinality(tracked)
      <4>1. /\ Mirrors(_debug_trace', heap, (tracked \ {p}) \cup {p})
            /\ _alive_count' = Cardinality((tracked \ {p}) \cup {p})
        BY <3>1, <3>2, RecordMoves
      <4> QED
        BY <3>1, <4>1
    <3> QED
      BY <1>1, <1>2, <1>3, <3>3 DEF RecordsInv
  <2>2. CASE ~ _enable_debug
    BY <1>1, <1>2, <1>3, <2>2 DEF RecordsInv, RecordsStart, A!debug
  <2> QED
    BY <2>1, <2>2
<1>4. CASE /\ q \in Ptrs /\ (q = p \/ q \notin held) /\ A!Holds(p, q, s)
           /\ _enable_debug => A!SetDebugState(A!Inserted(A!Deleted(A!DebugState, p), q, s))
  <2>1. /\ held' = (held \ {p}) \cup {q} /\ q # NULL
        /\ tracked' = (tracked \ {p}) \cup (IF _enable_debug THEN {q} ELSE {})
        /\ heap'[q] = s /\ \A x \in tracked \ {p} : x # q => heap'[x] = heap[x]
    BY <1>2, <1>4, ArenaConstants DEF A!Holds
  <2>2. tracked' \in SUBSET held'
    BY <1>2, <2>1
  <2>3. CASE _enable_debug
    <3>1. p \in tracked /\ (q = p \/ q \notin tracked) /\ tracked' = (tracked \ {p}) \cup {q}
      BY <1>1, <1>2, <1>4, <2>1, <2>3
    <3>2. A!SetDebugState(A!Inserted(A!Deleted(A!DebugState, p), q, s))
      BY <1>4, <2>3
    <3>3. /\ Mirrors(_debug_trace', heap', (tracked \ {p}) \cup {q})
          /\ _alive_count' = Cardinality((tracked \ {p}) \cup {q})
      BY <1>2, <1>4, <2>1, <3>1, <3>2, RecordMoves
    <3> QED
      BY <1>1, <1>2, <2>2, <3>1, <3>3 DEF RecordsInv
  <2>4. CASE ~ _enable_debug
    <3>1. p \notin tracked /\ q \notin tracked
      BY <1>1, <1>2, <1>4, <2>4
    <3>2. tracked' = tracked /\ \A x \in tracked : heap'[x] = heap[x]
      BY <2>1, <2>4, <3>1
    <3>3. _debug_trace' = _debug_trace /\ _alive_count' = _alive_count
      BY <1>1, <2>4 DEF A!debug
    <3>4. Mirrors(_debug_trace', heap', tracked)
      BY <3>2, <3>3 DEF RecordsStart, Mirrors
    <3> QED
      BY <1>1, <1>2, <2>2, <3>2, <3>3, <3>4 DEF RecordsInv, RecordsStart
  <2> QED
    BY <1>2, <2>3, <2>4
<1> QED
  BY <1>3, <1>4, ReallocateMoves

\* The sum of the lengths of the records is their number.
LEMMA SumOfOnes ==
    ASSUME NEW dom, IsFiniteSet(dom), NEW ones \in SUBSET dom, NEW f \in [dom -> Nat],
           \A x \in dom : f[x] = IF x \in ones THEN 1 ELSE 0
    PROVE  SumIs(Cardinality(ones), f, dom)
<1>1. PICK v \in Nat : SumIs(v, f, dom)
  BY SumExists
<1>2. PICK h : /\ v = h[dom]
               /\ \A sub \in SUBSET dom :
                    h[sub] = IF sub = {} THEN 0 ELSE f[Pick(sub)] + h[sub \ {Pick(sub)}]
  BY <1>1 DEF SumIs, SumsUp
<1> DEFINE good == {sub \in SUBSET dom : h[sub] = Cardinality(sub \cap ones)}
<1>3. ASSUME NEW sub \in SUBSET dom, \A x \in sub : sub \ {x} \in good PROVE sub \in good
  <2>1. CASE sub = {}
    <3>1. sub \cap ones = {} /\ Cardinality({}) = 0
      BY <2>1, FS_EmptySet
    <3> QED
      BY <1>2, <2>1, <3>1
  <2>2. CASE sub # {}
    <3> DEFINE p == Pick(sub)
               rest == sub \ {p}
    <3>1. p \in sub
      BY <2>2 DEF Pick
    <3>2. h[sub] = f[p] + h[rest]
      BY <1>2, <2>2
    <3>3. h[rest] = Cardinality(rest \cap ones) /\ p \notin rest
      BY <1>3, <3>1
    <3>4. IsFiniteSet(rest \cap ones) /\ Cardinality(rest \cap ones) \in Nat
      BY FS_Subset, FS_CardinalityType
    <3>5. sub \cap ones = IF p \in ones THEN (rest \cap ones) \cup {p} ELSE rest \cap ones
      BY <3>1
    <3> HIDE DEF p, rest
    <3>6. Cardinality(sub \cap ones) = f[p] + Cardinality(rest \cap ones)
      <4>1. CASE p \in ones
        <5>1. Cardinality((rest \cap ones) \cup {p}) = Cardinality(rest \cap ones) + 1
          BY <3>3, <3>4, FS_AddElement
        <5>2. f[p] = 1 /\ Cardinality(sub \cap ones) = Cardinality((rest \cap ones) \cup {p})
          BY <3>1, <3>5, <4>1
        <5> QED
          BY <3>4, <5>1, <5>2
      <4>2. CASE p \notin ones
        <5>1. f[p] = 0 /\ Cardinality(sub \cap ones) = Cardinality(rest \cap ones)
          BY <3>1, <3>5, <4>2
        <5> QED
          BY <3>4, <5>1
      <4> QED
        BY <4>1, <4>2
    <3> QED
      BY <3>2, <3>3, <3>6
  <2> QED
    BY <2>1, <2>2
<1> HIDE DEF good
<1>4. dom \in good
  BY <1>3, SubsetInduction
<1>5. dom \cap ones = ones
  OBVIOUS
<1> QED
  BY <1>1, <1>2, <1>4, <1>5 DEF good

\* The model's number of records is that of the pointers that have one.
LEMMA RecordsAreCounted ==
    ASSUME NEW sub \in SUBSET Ptrs, NEW h \in [Ptrs -> Nat], Mirrors(_debug_trace, h, sub)
    PROVE  A!NumRecords = Cardinality(sub)
<1>1. DOMAIN _debug_trace = Addresses /\ sub \in SUBSET Addresses
  BY DEF Mirrors, Addresses
<1>2. \A p \in Addresses : Len(_debug_trace[p]) = IF p \in sub THEN 1 ELSE 0
  <2>1. Len(<<>>) = 0 /\ \A x : Len(<<x>>) = 1
    OBVIOUS
  <2>2. NULL \notin sub
    BY ArenaConstants
  <2>3. _debug_trace[NULL] = <<>> /\ \A p \in Ptrs : _debug_trace[p] = IF p \in sub THEN <<h[p]>> ELSE <<>>
    BY DEF Mirrors
  <2>4. ASSUME NEW p \in Addresses PROVE Len(_debug_trace[p]) = IF p \in sub THEN 1 ELSE 0
    BY <2>1, <2>2, <2>3 DEF Addresses
  <2> QED
    BY <2>4
<1>3. /\ Lens(_debug_trace) \in [Addresses -> Nat]
      /\ \A p \in Addresses : Lens(_debug_trace)[p] = IF p \in sub THEN 1 ELSE 0
  BY <1>2 DEF Lens
<1>4. SumIs(Cardinality(sub), Lens(_debug_trace), Addresses)
  BY <1>1, <1>3, ArenaConstants, SumOfOnes
<1>5. SumIs(A!NumRecords, Lens(_debug_trace), Addresses)
  BY <1>1, NumRecordsIsSum
<1> QED
  BY <1>3, <1>4, <1>5, ArenaConstants, SumIsUnique

\* Every step of Library keeps the records.
LEMMA NextRecordsInv ==
    ASSUME Broken = {}, BytesInv, RecordsInv, [Next]_vars PROVE RecordsInv'
<1>1. CASE UNCHANGED arenaVars
  BY <1>1 DEF arenaVars, RecordsInv, Mirrors
<1>2. CASE A!Next
  <2>1. ASSUME UNCHANGED <<arena_phase, _enable_debug, _alive_count, _debug_trace, held, heap, tracked>>
        PROVE  RecordsInv'
    BY <2>1 DEF RecordsInv, Mirrors
  <2>2. CASE \E s \in Sizes : A!RecordAlloc(s) \/ A!RecordFree(s)
    BY <2>1, <2>2 DEF A!RecordAlloc, A!RecordFree, A!debug
  <2>3. CASE A!PrintLeaked
    <3>1. RecordsStart
      BY <2>3, RecordsStarts DEF A!PrintLeaked
    <3>2. _alive_count = A!NumRecords
      BY <3>1, RecordsAreCounted DEF RecordsStart
    <3> QED
      BY <2>1, <2>3, <3>2 DEF A!PrintLeaked, A!vars, A!debug, A!client
  <2>4. CASE A!Destroy
    BY <2>4 DEF A!Destroy, A!client, RecordsInv
  <2>5. CASE \E val \in BOOLEAN : A!SetDebug(val)
    BY <2>5 DEF A!SetDebug, A!client, A!debug, RecordsInv, Mirrors
  <2>6. CASE \E p \in Ptrs, s \in Sizes : A!Allocate(p, s)
    <3>1. RecordsStart
      BY <2>6, RecordsStarts DEF A!Allocate
    <3> QED
      BY <2>6, <3>1, RecordsAllocate
  <2>7. CASE \E p \in Ptrs : A!Free(p)
    <3>1. RecordsStart
      BY <2>7, RecordsStarts DEF A!Free
    <3> QED
      BY <2>7, <3>1, RecordsFree
  <2>8. CASE \E p, q \in Addresses, s \in Sizes : A!Reallocate(p, q, s)
    <3>1. RecordsStart
      BY <2>8, RecordsStarts DEF A!Reallocate
    <3> QED
      BY <2>8, <3>1, RecordsReallocate
  <2> QED
    BY <1>2, <2>2, <2>3, <2>4, <2>5, <2>6, <2>7, <2>8 DEF A!Next, Addresses
<1> QED
  BY <1>1, <1>2, StepsOfParts

\* The invariant says what the run checks.
LEMMA RecordsAreExact == BytesInv /\ RecordsInv => A!TraceIsExact
<1> SUFFICES ASSUME BytesInv, RecordsInv, arena_phase = "live"
             PROVE  /\ \A p \in Ptrs : _debug_trace[p] = IF p \in tracked THEN <<heap[p]>> ELSE <<>>
                    /\ _alive_count = A!NumRecords
  BY DEF A!TraceIsExact, RecordsInv
<1>1. heap \in [Ptrs -> Nat] /\ tracked \in SUBSET Ptrs
  BY DEF BytesInv, RecordsInv
<1>2. Mirrors(_debug_trace, heap, tracked) /\ _alive_count = Cardinality(tracked)
  BY DEF RecordsInv
<1> QED
  BY <1>1, <1>2, RecordsAreCounted DEF Mirrors

\* For a client that keeps the rules, whenever it switches debug mode on or
\* off: the hash has one record per pointer allocated in debug mode, of its
\* size, its counter counts them, so print_leaked (memory.c) lists what is
\* leaked, and no call aborts.
THEOREM ArenaIsExact == Broken = {} /\ Spec => []ArenaExact
<1> SUFFICES ASSUME Broken = {} PROVE Spec => []ArenaExact
  OBVIOUS
<1>1. Init => BytesInv /\ RecordsInv
  BY StartOfParts, InitBytesInv, InitRecordsInv
<1>2. BytesInv /\ RecordsInv /\ [Next]_vars => BytesInv' /\ RecordsInv'
  BY NextBytesInv, NextRecordsInv
<1>3. BytesInv /\ RecordsInv => ArenaExact
  BY BytesAreHeld, RecordsAreExact DEF ArenaExact
<1> QED
  BY <1>1, <1>2, <1>3, PTL DEF Spec

-----------------------------------------------------------------------------
(***************************************************************************)
(* The trace as a log.  Joined(s, k) joins the first k of the sequences s, *)
(* so that what the log holds and where the reader is are both Joined of   *)
(* the blocks' events.                                                     *)
(***************************************************************************)
\* All sequences of s, one after another.
All(s) == T!Joined(s, Len(s))

\* h holds what is joined for every k up to n.
Joining(h, s, n) == h = [k \in 0 .. n |-> IF k = 0 THEN <<>> ELSE h[k - 1] \o s[k]]

\* There is such a function.
LEMMA JoiningExists ==
    ASSUME NEW s, NEW n \in Nat
    PROVE  \E h : Joining(h, s, n)
<1> DEFINE good == {k \in Nat : \E h : Joining(h, s, k)}
<1>1. 0 \in good
  <2> DEFINE h == [k \in 0 .. 0 |-> <<>>]
  <2>1. Joining(h, s, 0)
    BY DEF Joining
  <2> QED
    BY <2>1
<1>2. ASSUME NEW k \in Nat, k \in good PROVE k + 1 \in good
  <2>1. PICK h : Joining(h, s, k)
    BY <1>2
  <2> DEFINE g == [m \in 0 .. k + 1 |-> IF m = k + 1 THEN h[k] \o s[k + 1] ELSE h[m]]
  <2>2. ASSUME NEW m \in 0 .. k + 1 PROVE g[m] = IF m = 0 THEN <<>> ELSE g[m - 1] \o s[m]
    <3>1. CASE m = k + 1
      <4>1. g[m - 1] = h[k] /\ m # 0 /\ g[m] = h[k] \o s[m]
        BY <3>1
      <4> QED
        BY <4>1
    <3>2. CASE m # k + 1
      <4>1. m \in 0 .. k /\ g[m] = h[m] /\ (m # 0 => m - 1 \in 0 .. k + 1 /\ m - 1 # k + 1 /\ g[m - 1] = h[m - 1])
        BY <3>2
      <4>2. h[m] = IF m = 0 THEN <<>> ELSE h[m - 1] \o s[m]
        BY <2>1, <4>1 DEF Joining
      <4> HIDE DEF g
      <4> QED
        BY <4>1, <4>2
    <3> QED
      BY <3>1, <3>2
  <2>3. g = [m \in 0 .. k + 1 |-> IF m = 0 THEN <<>> ELSE g[m - 1] \o s[m]]
    <3>1. g = [m \in 0 .. k + 1 |-> g[m]]
      OBVIOUS
    <3> HIDE DEF g
    <3> QED
      BY <2>2, <3>1
  <2>4. Joining(g, s, k + 1)
    BY <2>3, ZenonT(30) DEF Joining
  <2> HIDE DEF g
  <2> QED
    BY <2>4
<1> HIDE DEF good
<1>3. n \in good
  BY <1>1, <1>2, SetInduction
<1> QED
  BY <1>3 DEF good

\* Joined is what it is defined to be.
LEMMA JoinedIs ==
    ASSUME NEW s, NEW n \in Nat, NEW h, Joining(h, s, n), NEW m \in 0 .. n
    PROVE  T!Joined(s, m) = h[m]
<1> DEFINE f == CHOOSE f : f = [k \in 0 .. m |-> IF k = 0 THEN <<>> ELSE f[k - 1] \o s[k]]
<1>1. T!Joined(s, m) = f[m]
  BY DEF T!Joined
<1>2. Joining(f, s, m)
  <2>1. \E g : Joining(g, s, m)
    BY JoiningExists
  <2> QED
    BY <2>1, ZenonT(30) DEF Joining
<1> HIDE DEF f
<1>3. \A k \in 0 .. m : f[k] = IF k = 0 THEN <<>> ELSE f[k - 1] \o s[k]
  BY <1>2 DEF Joining
<1>4. \A k \in 0 .. n : h[k] = IF k = 0 THEN <<>> ELSE h[k - 1] \o s[k]
  BY DEF Joining
<1> DEFINE good == {k \in Nat : k \in 0 .. m => f[k] = h[k]}
<1>5. 0 \in good
  BY <1>3, <1>4
<1>6. ASSUME NEW k \in Nat, k \in good PROVE k + 1 \in good
  <2> SUFFICES ASSUME k + 1 \in 0 .. m PROVE f[k + 1] = h[k + 1]
    OBVIOUS
  <2> DEFINE x == k + 1
  <2>1. k \in 0 .. m /\ x \in 0 .. m /\ x \in 0 .. n /\ x # 0 /\ x - 1 = k
    OBVIOUS
  <2> HIDE DEF x
  <2>2. f[x] = f[k] \o s[x]
    BY <1>3, <2>1
  <2>3. h[x] = h[k] \o s[x]
    BY <1>4, <2>1
  <2>4. f[k] = h[k]
    BY <1>6, <2>1
  <2> QED
    BY <2>2, <2>3, <2>4 DEF x
<1> HIDE DEF good
<1>7. m \in good
  BY <1>5, <1>6, SetInduction
<1> QED
  BY <1>1, <1>7 DEF good

\* Joined says it step by step.
Joins(s, elems) ==
    /\ T!Joined(s, 0) = <<>>
    /\ \A k \in 1 .. Len(s), m \in 0 .. Len(s) : m = k - 1 => T!Joined(s, k) = T!Joined(s, m) \o s[k]
    /\ \A k \in 0 .. Len(s) : T!Joined(s, k) \in Seq(elems)

\* It does.
LEMMA JoinedSteps ==
    ASSUME NEW elems, NEW s \in Seq(Seq(elems))
    PROVE  Joins(s, elems)
<1>0. Len(s) \in Nat
  OBVIOUS
<1>1. PICK h : Joining(h, s, Len(s))
  BY <1>0, JoiningExists
<1>2. \A k \in 0 .. Len(s) : T!Joined(s, k) = h[k]
  BY <1>1, JoinedIs
<1>3. \A k \in 0 .. Len(s) : h[k] = IF k = 0 THEN <<>> ELSE h[k - 1] \o s[k]
  BY <1>1 DEF Joining
<1>4. T!Joined(s, 0) = <<>>
  BY <1>0, <1>2, <1>3
<1>5. ASSUME NEW k \in 1 .. Len(s), NEW m \in 0 .. Len(s), m = k - 1 PROVE T!Joined(s, k) = T!Joined(s, m) \o s[k]
  <2>1. k \in 0 .. Len(s) /\ k # 0
    BY <1>0
  <2> QED
    BY <1>2, <1>3, <1>5, <2>1
<1> DEFINE good == {k \in Nat : k \in 0 .. Len(s) => T!Joined(s, k) \in Seq(elems)}
<1>6. 0 \in good
  <2>1. <<>> \in Seq(elems)
    OBVIOUS
  <2> QED
    BY <1>4, <2>1
<1>7. ASSUME NEW k \in Nat, k \in good PROVE k + 1 \in good
  <2> SUFFICES ASSUME k + 1 \in 0 .. Len(s) PROVE T!Joined(s, k + 1) \in Seq(elems)
    OBVIOUS
  <2> DEFINE m == k + 1
             here == T!Joined(s, k)
             more == T!Joined(s, m)
             part1 == s[m]
  <2>1. m \in 1 .. Len(s) /\ k = m - 1 /\ k \in 0 .. Len(s)
    BY <1>0
  <2> HIDE DEF m
  <2>2. more = here \o part1
    BY <1>5, <2>1
  <2>3. here \in Seq(elems)
    BY <1>7, <2>1
  <2>4. part1 \in Seq(elems)
    BY <2>1
  <2> HIDE DEF here, more, part1
  <2>5. more \in Seq(elems)
    BY <2>2, <2>3, <2>4
  <2> QED
    BY <2>5 DEF more, m
<1> HIDE DEF good
<1>8. Nat \subseteq good
  BY <1>6, <1>7, SetInduction
<1>9. \A k \in 0 .. Len(s) : T!Joined(s, k) \in Seq(elems)
  BY <1>0, <1>8 DEF good
<1> QED
  BY <1>4, <1>5, <1>9 DEF Joins

\* Nothing is joined from nothing.
LEMMA JoinedNothing == All(<<>>) = <<>>
<1>1. <<>> \in Seq(Seq({})) /\ Len(<<>>) = 0
  OBVIOUS
<1>2. Joins(<<>>, {})
  BY <1>1, JoinedSteps
<1> QED
  BY <1>1, <1>2 DEF Joins, All

\* What is joined depends on no more than the parts that are joined.
LEMMA JoinedSame ==
    ASSUME NEW r, NEW s, NEW n \in Nat, \A k \in 1 .. n : r[k] = s[k]
    PROVE  T!Joined(r, n) = T!Joined(s, n)
<1>1. PICK h : Joining(h, s, n)
  BY JoiningExists
<1>2. Joining(h, r, n)
  <2>1. h = [k \in 0 .. n |-> IF k = 0 THEN <<>> ELSE h[k - 1] \o r[k]]
    BY <1>1 DEF Joining
  <2> QED
    BY <2>1 DEF Joining
<1>3. n \in 0 .. n
  OBVIOUS
<1> QED
  BY <1>1, <1>2, <1>3, JoinedIs

\* What is joined stays where it is when more is joined.
LEMMA JoinedGrows ==
    ASSUME NEW elems, NEW s \in Seq(Seq(elems)), NEW k \in 0 .. Len(s)
    PROVE  /\ Len(T!Joined(s, k)) <= Len(T!Joined(s, Len(s)))
           /\ \A j \in 1 .. Len(T!Joined(s, k)) : T!Joined(s, Len(s))[j] = T!Joined(s, k)[j]
<1>0. Len(s) \in Nat /\ k \in Nat /\ k <= Len(s)
  OBVIOUS
<1> DEFINE Good(m) == /\ Len(T!Joined(s, k)) <= Len(T!Joined(s, m))
                      /\ \A j \in 1 .. Len(T!Joined(s, k)) : T!Joined(s, m)[j] = T!Joined(s, k)[j]
           good == {m \in Nat : m \in k .. Len(s) => Good(m)}
<1>1. ASSUME NEW m \in Nat, m \in good PROVE m + 1 \in good
  <2> SUFFICES ASSUME m + 1 \in k .. Len(s) PROVE Good(m + 1)
    OBVIOUS
  <2>1. CASE m + 1 = k
    <3>1. T!Joined(s, k) \in Seq(elems)
      BY JoinedSteps DEF Joins
    <3> QED
      BY <2>1, <3>1
  <2>2. CASE m + 1 # k
    <3> DEFINE n == m + 1
    <3>1. m \in k .. Len(s) /\ n \in 1 .. Len(s) /\ n \in 0 .. Len(s) /\ m = n - 1 /\ m \in 0 .. Len(s)
      BY <1>0, <2>2
    <3>2. Good(m)
      BY <1>1, <3>1
    <3> HIDE DEF n
    <3> DEFINE more == T!Joined(s, n)
               here == T!Joined(s, m)
               old == T!Joined(s, k)
    <3>3. more = here \o s[n] /\ here \in Seq(elems) /\ s[n] \in Seq(elems) /\ old \in Seq(elems)
      <4>1. Joins(s, elems)
        BY JoinedSteps
      <4>2. more = here \o s[n]
        BY <3>1, <4>1 DEF Joins
      <4>3. here \in Seq(elems) /\ old \in Seq(elems)
        BY <3>1, <4>1 DEF Joins
      <4> QED
        BY <3>1, <4>2, <4>3
    <3>4. Len(old) <= Len(here) /\ \A j \in 1 .. Len(old) : here[j] = old[j]
      BY <3>2
    <3> HIDE DEF more, here, old
    <3>5. Len(old) <= Len(more) /\ \A j \in 1 .. Len(old) : more[j] = old[j]
      BY <3>3, <3>4
    <3> QED
      BY <3>5 DEF more, old, n
  <2> QED
    BY <2>1, <2>2
<1>2. 0 \in good
  <2> SUFFICES ASSUME 0 \in k .. Len(s) PROVE Good(0)
    OBVIOUS
  <2>1. k = 0
    BY <1>0
  <2>2. T!Joined(s, 0) = <<>>
    BY JoinedSteps DEF Joins
  <2> QED
    BY <2>1, <2>2
<1> HIDE DEF good
<1>3. Len(s) \in good
  BY <1>0, <1>1, <1>2, SetInduction
<1> QED
  BY <1>0, <1>3 DEF good

\* The place of the jth element of the bth part.
LEMMA JoinedAt ==
    ASSUME NEW elems, NEW s \in Seq(Seq(elems)), NEW b \in 1 .. Len(s), NEW j \in 1 .. Len(s[b])
    PROVE  LET place == Len(T!Joined(s, b - 1)) + j
           IN  place \in 1 .. Len(All(s)) /\ All(s)[place] = s[b][j]
<1> DEFINE m == b - 1
           old == T!Joined(s, m)
           here == T!Joined(s, b)
           all == All(s)
<1>1. b \in 0 .. Len(s) /\ m \in 0 .. Len(s) /\ m = b - 1 /\ s[b] \in Seq(elems)
  OBVIOUS
<1> HIDE DEF m
<1>2. /\ here = old \o s[b] /\ old \in Seq(elems) /\ here \in Seq(elems)
      /\ all = T!Joined(s, Len(s)) /\ all \in Seq(elems)
  <2>1. Joins(s, elems)
    BY JoinedSteps
  <2>2. here = old \o s[b]
    BY <1>1, <2>1 DEF Joins
  <2>3. Len(s) \in 0 .. Len(s)
    OBVIOUS
  <2> QED
    BY <1>1, <2>1, <2>2, <2>3 DEF Joins, All
<1>3. Len(here) <= Len(all) /\ \A x \in 1 .. Len(here) : all[x] = here[x]
  BY <1>1, <1>2, JoinedGrows
<1> HIDE DEF old, here, all
<1>4. /\ Len(old) \in Nat /\ Len(here) = Len(old) + Len(s[b]) /\ Len(s[b]) \in Nat /\ Len(all) \in Nat
      /\ here[Len(old) + j] = s[b][j]
  <2> DEFINE p1 == s[b]
  <2>1. p1 \in Seq(elems) /\ here = old \o p1 /\ old \in Seq(elems) /\ all \in Seq(elems) /\ j \in 1 .. Len(p1)
    BY <1>1, <1>2
  <2> HIDE DEF p1
  <2>2. Len(old) \in Nat /\ Len(p1) \in Nat /\ Len(all) \in Nat
    BY <2>1
  <2>3. Len(here) = Len(old) + Len(p1)
    BY <2>1
  <2>4. here[Len(old) + j] = p1[j]
    <3>1. Len(old) + j \in 1 .. Len(old) + Len(p1) /\ ~(Len(old) + j <= Len(old))
          /\ Len(old) + j - Len(old) = j
      BY <2>1, <2>2
    <3>2. \A x \in 1 .. Len(old) + Len(p1) :
            (old \o p1)[x] = IF x <= Len(old) THEN old[x] ELSE p1[x - Len(old)]
      BY <2>1, ConcatProperties
    <3> QED
      BY <2>1, <3>1, <3>2
  <2> QED
    BY <2>2, <2>3, <2>4 DEF p1
<1>5. Len(old) + j \in 1 .. Len(here) /\ Len(old) + j \in 1 .. Len(all)
  BY <1>3, <1>4
<1> QED
  BY <1>3, <1>4, <1>5 DEF old, all, m

\* y is x with e behind it.
Extends(y, x, e) == y = Append(x, e)

\* What is added behind a part is added behind the whole.
LEMMA ConcatAppend ==
    ASSUME NEW elems, NEW u1 \in Seq(elems), NEW u2 \in Seq(elems), NEW e \in elems
    PROVE  Extends(u1 \o Append(u2, e), u1 \o u2, e)
<1>1. u1 \o Append(u2, e) = Append(u1 \o u2, e)
  OBVIOUS
<1> QED
  BY <1>1 DEF Extends

\* The parts r are the parts s with an element added to the last, and perhaps an
\* empty part behind it.
LongerBy(r, s, n, e, elems) ==
    /\ s \in Seq(Seq(elems)) /\ r \in Seq(Seq(elems)) /\ e \in elems
    /\ n \in Nat /\ n # 0 /\ Len(s) = n
    /\ \A b \in 1 .. n : b # n => r[b] = s[b]
    /\ r[n] = Append(s[n], e)
    /\ Len(r) = n \/ (Len(r) = n + 1 /\ r[n + 1] = <<>>)

\* The element is then added to the whole.
LEMMA JoinedAppended ==
    ASSUME NEW elems, NEW s, NEW r, NEW n, NEW e, LongerBy(r, s, n, e, elems)
    PROVE  /\ All(r) = Append(All(s), e)
           /\ \A k \in 0 .. n : k # n => T!Joined(r, k) = T!Joined(s, k)
<1>0. /\ s \in Seq(Seq(elems)) /\ r \in Seq(Seq(elems)) /\ e \in elems
      /\ n \in Nat /\ n # 0 /\ Len(s) = n
      /\ \A b \in 1 .. n : b # n => r[b] = s[b]
      /\ r[n] = Append(s[n], e)
      /\ Len(r) = n \/ (Len(r) = n + 1 /\ r[n + 1] = <<>>)
  BY DEF LongerBy
<1>1. ASSUME NEW k \in 0 .. n, k # n PROVE T!Joined(r, k) = T!Joined(s, k)
  <2>1. \A b \in 1 .. k : b \in 1 .. n /\ b # n
    BY <1>0, <1>1
  <2>2. k \in Nat
    BY <1>0, <1>1
  <2>3. \A b \in 1 .. k : r[b] = s[b]
    BY <1>0, <2>1
  <2> QED
    BY <2>2, <2>3, JoinedSame
<1> DEFINE m == n - 1
           old == T!Joined(s, m)
           more == T!Joined(r, n)
<1>2. Joins(s, elems) /\ Joins(r, elems)
  BY <1>0, JoinedSteps
<1>3. m \in 0 .. Len(s) /\ m \in 0 .. Len(r) /\ m \in 0 .. n /\ m # n /\ m = n - 1
      /\ n \in 1 .. Len(s) /\ n \in 1 .. Len(r) /\ n \in 0 .. Len(s) /\ n \in 0 .. Len(r)
  BY <1>0
<1> HIDE DEF m
<1>4. All(s) = old \o s[n] /\ old \in Seq(elems) /\ s[n] \in Seq(elems)
  <2>1. All(s) = T!Joined(s, n)
    BY <1>0 DEF All
  <2>2. T!Joined(s, n) = old \o s[n]
    BY <1>2, <1>3 DEF Joins
  <2>3. old \in Seq(elems)
    BY <1>2, <1>3 DEF Joins
  <2>4. s[n] \in Seq(elems)
    BY <1>0, <1>3
  <2> QED
    BY <2>1, <2>2, <2>3, <2>4
<1>5. T!Joined(r, m) = old
  BY <1>1, <1>3
<1>6. more = old \o r[n] /\ more \in Seq(elems)
  BY <1>2, <1>3, <1>5 DEF Joins
<1>7. r[n] = Append(s[n], e)
  BY <1>0
<1>8. more = Append(All(s), e)
  <2> DEFINE x == All(s)
             p1 == s[n]
             p2 == r[n]
  <2>1. /\ old \in Seq(elems) /\ p1 \in Seq(elems) /\ x = old \o p1
        /\ more = old \o p2 /\ p2 = Append(p1, e)
    BY <1>0, <1>4, <1>6, <1>7
  <2> HIDE DEF x, p1, p2, old, more
  <2>2. more = old \o Append(p1, e)
    BY <2>1
  <2>3. Extends(old \o Append(p1, e), old \o p1, e)
    BY <1>0, <2>1, ConcatAppend
  <2> QED
    BY <2>1, <2>2, <2>3 DEF Extends, x
<1>9. All(r) = more
  <2>1. CASE Len(r) = n
    BY <2>1 DEF All
  <2>2. CASE Len(r) = n + 1 /\ r[n + 1] = <<>>
    <3> DEFINE k == n + 1
    <3>1. k \in 1 .. Len(r) /\ n = k - 1 /\ r[k] = <<>> /\ k = Len(r)
      BY <1>0, <2>2
    <3> HIDE DEF k, more
    <3>2. All(r) = T!Joined(r, n) \o r[k]
      BY <1>2, <1>3, <3>1 DEF Joins, All
    <3>3. All(r) = more \o r[k]
      BY <3>2 DEF more
    <3>4. more \o <<>> = more
      BY <1>6
    <3> QED
      BY <3>1, <3>3, <3>4
  <2> QED
    BY <1>0, <2>1, <2>2
<1> QED
  BY <1>1, <1>8, <1>9

-----------------------------------------------------------------------------
\* The events of each block.
PiecesOf(bs) == [b \in DOMAIN bs |-> bs[b].events]

\* They are sequences of events.
LEMMA PiecesAre ==
    ASSUME NEW bs \in Seq(TraceBlock)
    PROVE  /\ PiecesOf(bs) \in Seq(Seq(Events)) /\ Len(PiecesOf(bs)) = Len(bs)
           /\ \A b \in 1 .. Len(bs) : PiecesOf(bs)[b] = bs[b].events
           /\ \A b \in 1 .. Len(bs) : bs[b].events \in Seq(Events)
<1>1. ASSUME NEW b \in 1 .. Len(bs) PROVE bs[b].events \in Seq(Events)
  <2>1. bs[b] \in TraceBlock
    OBVIOUS
  <2> QED
    BY <2>1 DEF TraceBlock
<1>2. PiecesOf(bs) = [b \in 1 .. Len(bs) |-> bs[b].events]
  BY DEF PiecesOf
<1> QED
  BY <1>1, <1>2

\* No block but the last is empty: a block is opened when one is filled.
OnlyLastEmpty == \A b \in 1 .. Len(blocks) : b # Len(blocks) => Len(blocks[b].events) > 0

\* The invariant of Trace with what the refinement needs besides.
LogInv == TraceInv /\ OnlyLastEmpty

\* The blocks after an event is written.
LEMMA AppendedBlocks ==
    ASSUME T!TraceAssumption, TraceInv, NEW e \in Events, T!AppendEvent(e), NEW n, n = Len(blocks)
    PROVE  /\ n \in Nat /\ n # 0 /\ blocks' \in Seq(TraceBlock)
           /\ \A b \in 1 .. n : b # n => blocks'[b].events = blocks[b].events
           /\ blocks'[n].events = Append(blocks[n].events, e)
           /\ Len(blocks') = n \/ (Len(blocks') = n + 1 /\ blocks'[n + 1].events = <<>>)
<1> DEFINE w == T!WithEvent(e)
           new == [blocks[n] EXCEPT !.events = Append(@, e)]
<1>1. blocks \in Seq(TraceBlock) /\ T!HasRoom /\ n \in Nat /\ n # 0 /\ blocks[n] \in TraceBlock
  BY DEF TraceInv, TraceTypeOK, T!AppendEvent, T!HasRoom
<1>2. new.events = Append(blocks[n].events, e)
  BY <1>1 DEF TraceBlock
<1>3. w = [blocks EXCEPT ![n] = new]
  BY DEF T!WithEvent
<1> HIDE DEF new
<1>4. /\ Len(w) = n /\ w[n] = new /\ \A b \in 1 .. n : b # n => w[b] = blocks[b]
  BY <1>1, <1>3
<1>5. w \in Seq(TraceBlock)
  BY <1>1, WithEventKeeps
<1>6. blocks' \in Seq(TraceBlock)
  BY TraceAppendEvent DEF TraceInv, TraceTypeOK
<1> HIDE DEF w
<1>7. \/ blocks' = w
      \/ blocks' = Append(w, [capacity |-> T!NextCapacity(w), events |-> <<>>])
  BY DEF T!AppendEvent, T!Expand, w
<1>8. CASE blocks' = w
  BY <1>1, <1>2, <1>4, <1>6, <1>8
<1>9. CASE blocks' = Append(w, [capacity |-> T!NextCapacity(w), events |-> <<>>])
  <2> DEFINE more == [capacity |-> T!NextCapacity(w), events |-> <<>>]
  <2>1. more.events = <<>> /\ blocks' = Append(w, more)
    BY <1>9
  <2> HIDE DEF more
  <2>2. Len(blocks') = n + 1 /\ blocks'[n + 1] = more /\ \A b \in 1 .. n : blocks'[b] = w[b]
    BY <1>1, <1>4, <1>5, <2>1
  <2>3. blocks'[n] = new
    BY <1>1, <1>4, <2>2
  <2> QED
    BY <1>1, <1>2, <1>4, <1>6, <2>1, <2>2, <2>3
<1> QED
  BY <1>7, <1>8, <1>9

\* Every step of Library keeps it.
LEMMA NextLogInv == LogInv /\ [Next]_vars => LogInv'
<1> SUFFICES ASSUME LogInv, [Next]_vars PROVE LogInv'
  OBVIOUS
<1>0. TraceInv' /\ T!TraceAssumption /\ TraceInv /\ OnlyLastEmpty
  BY NextTraceInv, LibraryAssumption DEF LogInv
<1> SUFFICES OnlyLastEmpty'
  BY <1>0 DEF LogInv
<1>1. CASE UNCHANGED blocks
  BY <1>0, <1>1 DEF OnlyLastEmpty
<1>2. ASSUME NEW e \in Events, T!AppendEvent(e) PROVE OnlyLastEmpty'
  <2> DEFINE n == Len(blocks)
  <2>1. /\ n \in Nat /\ n # 0 /\ blocks \in Seq(TraceBlock) /\ blocks[n].events \in Seq(Events)
        /\ \A b \in 1 .. n : b # n => blocks'[b].events = blocks[b].events
        /\ blocks'[n].events = Append(blocks[n].events, e)
        /\ Len(blocks') = n \/ Len(blocks') = n + 1
    <3>1. blocks \in Seq(TraceBlock)
      BY <1>0 DEF TraceInv, TraceTypeOK
    <3>2. /\ n \in Nat /\ n # 0
          /\ \A b \in 1 .. n : b # n => blocks'[b].events = blocks[b].events
          /\ blocks'[n].events = Append(blocks[n].events, e)
          /\ Len(blocks') = n \/ Len(blocks') = n + 1
      BY <1>0, <1>2, AppendedBlocks
    <3>3. n \in 1 .. Len(blocks)
      BY <3>2
    <3>4. blocks[n].events \in Seq(Events)
      <4> HIDE DEF n
      <4> QED
        BY <3>1, <3>3, PiecesAre
    <3> QED
      BY <3>1, <3>2, <3>4
  <2>2. Len(blocks'[n].events) > 0
    BY <1>2, <2>1
  <2> HIDE DEF n
  <2>3. ASSUME NEW b \in 1 .. Len(blocks'), b # Len(blocks') PROVE Len(blocks'[b].events) > 0
    <3>1. b \in 1 .. n
      BY <2>1, <2>3
    <3>2. CASE b = n
      BY <2>2, <3>2
    <3>3. CASE b # n
      BY <1>0, <2>1, <3>1, <3>3 DEF OnlyLastEmpty, n
    <3> QED
      BY <3>2, <3>3
  <2> QED
    BY <2>3 DEF OnlyLastEmpty
<1>3. CASE T!Create
  <2>1. blocks' = <<>> \/ Len(blocks') = 1
    BY <1>3 DEF T!Create, T!Expand
  <2>2. \A b \in 1 .. Len(blocks') : b = Len(blocks')
    <3>1. Len(<<>>) = 0
      OBVIOUS
    <3>2. Len(blocks') = 0 \/ Len(blocks') = 1
      BY <2>1, <3>1
    <3>3. CASE Len(blocks') = 0
      BY <3>3
    <3>4. CASE Len(blocks') = 1
      BY <3>4
    <3> QED
      BY <3>2, <3>3, <3>4
  <2> QED
    BY <2>2 DEF OnlyLastEmpty
<1>4. CASE T!Destroy
  BY <1>4 DEF T!Destroy, OnlyLastEmpty
<1>5. CASE T!Next
  <2>1. CASE T!AppendOutside
    BY <1>1, <2>1 DEF T!AppendOutside
  <2>2. CASE T!StartIter
    BY <1>1, <2>2 DEF T!StartIter
  <2>3. CASE T!NextIter
    BY <1>1, <2>3 DEF T!NextIter
  <2>4. CASE T!InterruptIter
    BY <1>1, <2>4 DEF T!InterruptIter
  <2> QED
    BY <1>2, <1>3, <1>4, <1>5, <2>1, <2>2, <2>3, <2>4 DEF T!Next
<1>6. CASE UNCHANGED traceVars
  BY <1>1, <1>6 DEF traceVars
<1> QED
  BY <1>5, <1>6, StepsOfParts

-----------------------------------------------------------------------------
\* What EventLog sees of the trace.
LogOf == IF T!Gone THEN <<>> ELSE T!Log
\* The position of the iterator in the log, as the refinement maps it.
PosOf == IF T!Gone THEN 0 ELSE T!Position
\* The event it shows.
SeenOf == IF T!Gone \/ e1 = <<>> THEN Nothing ELSE blocks[e1[1]].events[e1[2] + 1]

\* The same through the events of its blocks.
LEMMA ViewOf ==
    TraceTypeOK => /\ T!Log = All(PiecesOf(blocks))
                   /\ e1 = <<>> => T!Position = 0
                   /\ \A b \in 1 .. Len(blocks), j, k \in Nat :
                        k = b - 1 /\ e1 = <<b, j>> =>
                            T!Position = Len(T!Joined(PiecesOf(blocks), k)) + j + 1
<1> SUFFICES ASSUME TraceTypeOK
             PROVE  /\ T!Log = All(PiecesOf(blocks))
                    /\ e1 = <<>> => T!Position = 0
                    /\ \A b \in 1 .. Len(blocks), j, k \in Nat :
                        k = b - 1 /\ e1 = <<b, j>> =>
                            T!Position = Len(T!Joined(PiecesOf(blocks), k)) + j + 1
  OBVIOUS
<1>1. T!Log = All(PiecesOf(blocks))
  <2>1. blocks \in Seq(TraceBlock)
    BY DEF TraceTypeOK
  <2>2. Len(PiecesOf(blocks)) = Len(blocks)
    BY <2>1, PiecesAre
  <2> QED
    BY <2>2 DEF T!Log, T!parts, All, PiecesOf
<1>2. e1 = <<>> => T!Position = 0
  BY DEF T!Position
<1>3. ASSUME NEW b \in 1 .. Len(blocks), NEW j \in Nat, NEW k \in Nat, k = b - 1, e1 = <<b, j>>
      PROVE  T!Position = Len(T!Joined(PiecesOf(blocks), k)) + j + 1
  <2>1. e1 # <<>> /\ e1[1] = b /\ e1[2] = j
    BY <1>3
  <2>2. T!Position = Len(T!Joined(PiecesOf(blocks), e1[1] - 1)) + e1[2] + 1
    BY <2>1 DEF T!Position, T!parts, PiecesOf
  <2> QED
    BY <1>3, <2>1, <2>2
<1> QED
  BY <1>1, <1>2, <1>3

\* What the log of the trace is, before and after a step.
LEMMA LogIs ==
    /\ TraceTypeOK => T!Log = All(PiecesOf(blocks))
    /\ TraceTypeOK' => T!Log' = All(PiecesOf(blocks'))
<1>1. TraceTypeOK => T!Log = All(PiecesOf(blocks))
  BY ViewOf
<1>2. ASSUME TraceTypeOK' PROVE T!Log' = All(PiecesOf(blocks'))
  <2>1. Len(PiecesOf(blocks')) = Len(blocks')
    BY <1>2, PiecesAre DEF TraceTypeOK
  <2> QED
    BY <2>1 DEF T!Log, T!parts, All, PiecesOf
<1> QED
  BY <1>1, <1>2

\* Where the iterator is, the log has the event.
LEMMA PlaceInLog ==
    ASSUME NEW bs \in Seq(TraceBlock), NEW b \in 1 .. Len(bs), NEW j \in Nat, j < Len(bs[b].events),
           NEW k \in Nat, k = b - 1, NEW pos, pos = Len(T!Joined(PiecesOf(bs), k)) + j + 1
    PROVE  /\ pos \in DOMAIN All(PiecesOf(bs)) /\ All(PiecesOf(bs))[pos] = bs[b].events[j + 1]
           /\ pos \in Nat /\ pos # 0
<1> DEFINE s == PiecesOf(bs)
           n == j + 1
           all == All(s)
<1>1. s \in Seq(Seq(Events)) /\ Len(s) = Len(bs) /\ s[b] = bs[b].events /\ s[b] \in Seq(Events)
  BY PiecesAre
<1> HIDE DEF s
<1>2. b \in 1 .. Len(s) /\ n \in 1 .. Len(s[b]) /\ b - 1 = k
  <2>1. Len(s[b]) \in Nat /\ j < Len(s[b])
    BY <1>1
  <2>2. n \in 1 .. Len(s[b])
    BY <2>1
  <2>3. b \in 1 .. Len(s)
    BY <1>1
  <2> QED
    BY <2>2, <2>3
<1>3. pos = Len(T!Joined(s, b - 1)) + n
  <2>1. k \in 0 .. Len(s)
    BY <1>1, <1>2
  <2>2. T!Joined(s, k) \in Seq(Events)
    BY <1>1, <2>1, JoinedSteps DEF Joins
  <2>3. Len(T!Joined(s, k)) \in Nat
    BY <2>2
  <2>4. pos = Len(T!Joined(s, k)) + j + 1
    BY DEF s
  <2> HIDE DEF n
  <2>5. T!Joined(s, b - 1) = T!Joined(s, k)
    BY <1>2
  <2> QED
    BY <2>3, <2>4, <2>5 DEF n
<1> HIDE DEF n
<1>4. pos \in 1 .. Len(all) /\ all[pos] = s[b][n]
  <2> DEFINE place == Len(T!Joined(s, b - 1)) + n
  <2>1. place \in 1 .. Len(All(s)) /\ All(s)[place] = s[b][n]
    <3>1. s \in Seq(Seq(Events)) /\ b \in 1 .. Len(s) /\ n \in 1 .. Len(s[b])
      BY <1>1, <1>2
    <3> QED
      BY <3>1, JoinedAt
  <2> QED
    BY <1>3, <2>1
<1>5. all \in Seq(Events)
  <2>1. Joins(s, Events) /\ Len(s) \in 0 .. Len(s)
    BY <1>1, JoinedSteps
  <2> QED
    BY <2>1 DEF Joins, All
<1> QED
  BY <1>1, <1>4, <1>5 DEF s, n

\* The steps of the trace are those of the log.
LEMMA LogStart == T!Init => T!Abstract!Init
<1> SUFFICES ASSUME T!Init PROVE T!Abstract!Init
  OBVIOUS
<1>1. trace_phase = "none" /\ blocks = <<>> /\ e1 = <<>>
  BY DEF T!Init
<1>2. T!Log = <<>>
  <2>1. PiecesOf(blocks) = <<>>
    BY <1>1 DEF PiecesOf
  <2>2. TraceTypeOK
    BY InitTraceInv DEF TraceInv
  <2>3. All(<<>>) = <<>>
    BY JoinedNothing
  <2> QED
    BY <2>1, <2>2, <2>3, ViewOf
<1>3. T!Position = 0 /\ T!State = "none"
  BY <1>1 DEF T!Position, T!State
<1> QED
  BY <1>1, <1>2, <1>3 DEF T!Abstract!Init

\* The actions of EventLog on what it sees.
LEMMA LogActions ==
    /\ T!State = "none" /\ T!State' = "live" /\ UNCHANGED <<LogOf, PosOf, SeenOf>> => T!Abstract!Next
    /\ \A e \in Events : T!State = "live" /\ LogOf' = Append(LogOf, e)
            /\ UNCHANGED <<T!State, PosOf, SeenOf>> => T!Abstract!Next
    /\ T!State = "live" /\ PosOf = 0 /\ 1 \in DOMAIN LogOf /\ PosOf' = 1 /\ SeenOf' = LogOf[1]
            /\ UNCHANGED <<T!State, LogOf>> => T!Abstract!Next
    /\ T!State = "live" /\ PosOf # 0 /\ PosOf' = PosOf + 1 /\ PosOf' \in DOMAIN LogOf
            /\ SeenOf' = LogOf[PosOf'] /\ UNCHANGED <<T!State, LogOf>> => T!Abstract!Next
    /\ T!State = "live" /\ PosOf # 0 /\ PosOf' = 0 /\ SeenOf' = Nothing
            /\ UNCHANGED <<T!State, LogOf>> => T!Abstract!Next
    /\ T!State = "live" /\ (T!State' = "gone" \/ T!State' = "lost") /\ LogOf' = <<>> /\ PosOf' = 0
            /\ SeenOf' = Nothing => T!Abstract!Next
    /\ UNCHANGED <<T!State, LogOf, PosOf, SeenOf>> => UNCHANGED T!Abstract!vars
<1> USE DEF LogOf, PosOf, SeenOf, T!Gone
<1>1. T!State = "none" /\ T!State' = "live" /\ UNCHANGED <<LogOf, PosOf, SeenOf>> => T!Abstract!Next
  BY DEF T!Abstract!Next, T!Abstract!Create
<1>2. ASSUME NEW e \in Events, T!State = "live", LogOf' = Append(LogOf, e), UNCHANGED <<T!State, PosOf, SeenOf>>
      PROVE  T!Abstract!Next
  <2>1. T!Abstract!LogEvent(e)
    BY <1>2 DEF T!Abstract!LogEvent
  <2> QED
    BY <2>1 DEF T!Abstract!Next
<1>3. T!State = "live" /\ PosOf = 0 /\ 1 \in DOMAIN LogOf /\ PosOf' = 1 /\ SeenOf' = LogOf[1]
        /\ UNCHANGED <<T!State, LogOf>> => T!Abstract!Next
  BY DEF T!Abstract!Next, T!Abstract!Start, T!Abstract!ReadAt
<1>4. T!State = "live" /\ PosOf # 0 /\ PosOf' = PosOf + 1 /\ PosOf' \in DOMAIN LogOf
        /\ SeenOf' = LogOf[PosOf'] /\ UNCHANGED <<T!State, LogOf>> => T!Abstract!Next
  BY DEF T!Abstract!Next, T!Abstract!Read, T!Abstract!ReadAt
<1>5. T!State = "live" /\ PosOf # 0 /\ PosOf' = 0 /\ SeenOf' = Nothing
        /\ UNCHANGED <<T!State, LogOf>> => T!Abstract!Next
  BY DEF T!Abstract!Next, T!Abstract!Interrupt, T!Abstract!Stop
<1>6. T!State = "live" /\ (T!State' = "gone" \/ T!State' = "lost") /\ LogOf' = <<>> /\ PosOf' = 0
        /\ SeenOf' = Nothing => T!Abstract!Next
  BY DEF T!Abstract!Next, T!Abstract!End, T!Abstract!Stop
<1>7. UNCHANGED <<T!State, LogOf, PosOf, SeenOf>> => UNCHANGED T!Abstract!vars
  BY DEF T!Abstract!vars
<1> QED
  BY <1>1, <1>2, <1>3, <1>4, <1>5, <1>6, <1>7

\* One step each: a step of Trace is a step of the event log or a stutter.
LEMMA LogCreate == TraceTypeOK /\ TraceTypeOK' /\ TraceInv /\ T!Create => T!Abstract!Next
<1> SUFFICES ASSUME TraceTypeOK, TraceTypeOK', TraceInv, T!Create PROVE T!Abstract!Next
  OBVIOUS
<1>1. trace_phase = "none" /\ trace_phase' = "live" /\ e1 = <<>> /\ e1' = <<>> /\ blocks = <<>>
  BY DEF T!Create, T!iterator, TraceInv, OneIterator, RoomIsKept
<1>2. All(PiecesOf(blocks)) = <<>>
  <2>1. PiecesOf(blocks) = <<>>
    BY <1>1 DEF PiecesOf
  <2> QED
    BY <2>1, JoinedNothing
<1>3. All(PiecesOf(blocks')) = <<>>
  <2>1. CASE blocks' = <<>>
    <3>1. PiecesOf(blocks') = <<>>
      BY <2>1 DEF PiecesOf
    <3> QED
      BY <3>1, JoinedNothing
  <2>2. CASE blocks' # <<>>
    <3> DEFINE s == PiecesOf(blocks')
    <3>1. blocks' \in Seq(TraceBlock) /\ Len(blocks') = 1 /\ blocks'[1].events = <<>>
      BY <2>2 DEF TraceTypeOK, T!Create, T!Expand
    <3>2. s \in Seq(Seq(Events)) /\ Len(s) = 1 /\ s[1] = <<>>
      BY <3>1, PiecesAre
    <3> HIDE DEF s
    <3>3. All(s) = T!Joined(s, 0) \o s[1] /\ T!Joined(s, 0) = <<>>
      <4>1. Joins(s, Events) /\ 1 \in 1 .. Len(s) /\ 0 \in 0 .. Len(s) /\ 0 = 1 - 1
        BY <3>2, JoinedSteps
      <4> QED
        BY <3>2, <4>1 DEF Joins, All
    <3>4. <<>> \o <<>> = <<>>
      OBVIOUS
    <3> QED
      BY <3>2, <3>3, <3>4 DEF s
  <2> QED
    BY <2>1, <2>2
<1>4. LogOf = <<>> /\ LogOf' = <<>> /\ PosOf = 0 /\ PosOf' = 0 /\ SeenOf = Nothing /\ SeenOf' = Nothing
  <2>1. LogOf = All(PiecesOf(blocks)) /\ LogOf' = All(PiecesOf(blocks'))
    BY <1>1, LogIs DEF LogOf, T!Gone
  <2> QED
    BY <1>1, <1>2, <1>3, <2>1 DEF PosOf, SeenOf, T!Gone, T!Position
<1>5. T!State = "none" /\ T!State' = "live"
  BY <1>1 DEF T!State
<1> QED
  BY <1>4, <1>5, LogActions

\* The event goes behind all the others.
LEMMA LogAppend ==
    ASSUME T!TraceAssumption, TraceInv, TraceInv', NEW e \in Events, T!AppendEvent(e)
    PROVE  T!Abstract!Next
<1> DEFINE n == Len(blocks)
           s == PiecesOf(blocks)
           r == PiecesOf(blocks')
<1>1. /\ n \in Nat /\ n # 0 /\ blocks' \in Seq(TraceBlock) /\ blocks \in Seq(TraceBlock)
      /\ \A b \in 1 .. n : b # n => blocks'[b].events = blocks[b].events
      /\ blocks'[n].events = Append(blocks[n].events, e)
      /\ Len(blocks') = n \/ (Len(blocks') = n + 1 /\ blocks'[n + 1].events = <<>>)
  BY AppendedBlocks DEF TraceInv, TraceTypeOK
<1>2. /\ trace_phase = "live" /\ UNCHANGED <<trace_phase, e1, e1_iter_last_block, e1_iter_last_index, being_iter>>
      /\ TraceTypeOK /\ TraceTypeOK'
  BY DEF T!AppendEvent, T!iterator, TraceInv
<1>3. /\ s \in Seq(Seq(Events)) /\ r \in Seq(Seq(Events)) /\ Len(s) = n /\ Len(r) = Len(blocks')
      /\ \A b \in 1 .. n : s[b] = blocks[b].events
      /\ \A b \in 1 .. Len(blocks') : r[b] = blocks'[b].events
  BY <1>1, PiecesAre
<1> HIDE DEF n, s, r
<1>4. /\ \A b \in 1 .. n : b # n => r[b] = s[b]
      /\ r[n] = Append(s[n], e)
      /\ Len(r) = n \/ (Len(r) = n + 1 /\ r[n + 1] = <<>>)
  <2>1. \A b \in 1 .. n : b \in 1 .. Len(blocks')
    BY <1>1
  <2>2. n \in 1 .. n
    BY <1>1
  <2>3. ASSUME Len(blocks') = n + 1 PROVE n + 1 \in 1 .. Len(blocks')
    BY <1>1, <2>3
  <2> QED
    BY <1>1, <1>3, <2>1, <2>2, <2>3
<1>5. /\ All(r) = Append(All(s), e)
      /\ \A k \in 0 .. n : k # n => T!Joined(r, k) = T!Joined(s, k)
  <2>1. LongerBy(r, s, n, e, Events)
    BY <1>1, <1>3, <1>4 DEF LongerBy
  <2> QED
    BY <2>1, JoinedAppended
<1>6. LogOf' = Append(LogOf, e)
  <2>1. LogOf = All(s)
    BY <1>2, ViewOf DEF LogOf, T!Gone, s
  <2>2. LogOf' = All(r)
    BY <1>2, LogIs DEF LogOf, T!Gone, r
  <2> QED
    BY <1>5, <2>1, <2>2
<1>7. UNCHANGED T!State
  BY <1>2 DEF T!State
<1>8. CASE e1 = <<>>
  <2>1. UNCHANGED <<PosOf, SeenOf>>
    BY <1>2, <1>8 DEF PosOf, SeenOf, T!Gone, T!Position
  <2> QED
    BY <1>2, <1>6, <1>7, <2>1, LogActions DEF T!State
<1>9. CASE e1 # <<>>
  <2> DEFINE b == e1_iter_last_block
             j == e1_iter_last_index
             k == b - 1
  <2>1. e1 = <<b, j>> /\ b \in 1 .. n /\ j \in 0 .. Len(blocks[b].events) - 1
    BY <1>2, <1>9 DEF TraceInv, OneIterator, IteratorPointsAtEvent, n
  <2>2. /\ Len(blocks[b].events) \in Nat /\ Len(blocks'[b].events) \in Nat /\ b \in 1 .. Len(blocks')
        /\ blocks[b].events \in Seq(Events)
    <3>1. b \in 1 .. Len(blocks) /\ b \in 1 .. Len(blocks')
      BY <1>1, <2>1 DEF n
    <3>2. blocks[b].events \in Seq(Events) /\ blocks'[b].events \in Seq(Events)
      BY <1>1, <3>1, PiecesAre
    <3> QED
      BY <3>1, <3>2
  <2>3. k \in Nat /\ k \in 0 .. n /\ k # n /\ k = b - 1 /\ j \in Nat
    BY <1>1, <2>1, <2>2
  <2> HIDE DEF k
  <2>4. PosOf = Len(T!Joined(s, k)) + j + 1
    <3>1. T!Position = Len(T!Joined(s, k)) + j + 1
      BY <1>2, <2>1, <2>3, ViewOf DEF n, s
    <3> QED
      BY <1>2, <3>1 DEF PosOf, T!Gone
  <2>5. PosOf' = Len(T!Joined(r, k)) + j + 1
    <3>1. e1' # <<>> /\ e1'[1] = b /\ e1'[2] = j
      BY <1>2, <2>1
    <3>2. T!Position' = Len(T!Joined(r, e1'[1] - 1)) + e1'[2] + 1
      BY <3>1 DEF T!Position, T!parts, PiecesOf, r
    <3>3. e1'[1] - 1 = k
      BY <2>3, <3>1
    <3> QED
      BY <1>2, <3>1, <3>2, <3>3 DEF PosOf, T!Gone
  <2>6. UNCHANGED PosOf
    BY <1>5, <2>3, <2>4, <2>5
  <2>7. UNCHANGED SeenOf
    <3>1. blocks'[b].events[j + 1] = blocks[b].events[j + 1]
      <4>1. CASE b = n
        <5>1. j + 1 \in 1 .. Len(blocks[b].events)
          BY <2>1, <2>2
        <5>2. blocks'[b].events = Append(blocks[b].events, e)
          BY <1>1, <4>1
        <5> QED
          BY <2>2, <5>1, <5>2
      <4>2. CASE b # n
        BY <1>1, <2>1, <4>2
      <4> QED
        BY <4>1, <4>2
    <3>2. e1 # <<>> /\ e1[1] = b /\ e1[2] = j /\ e1' = e1 /\ trace_phase' = trace_phase
      BY <1>2, <2>1
    <3> QED
      BY <3>1, <3>2 DEF SeenOf, T!Gone
  <2>8. T!State = "live"
    BY <1>2 DEF T!State
  <2> QED
    BY <1>6, <1>7, <2>6, <2>7, <2>8, LogActions
<1> QED
  BY <1>8, <1>9

\* A crash or the end of the trace.
LEMMA LogEnds == TraceInv /\ (T!AppendOutside \/ T!Destroy) => T!Abstract!Next
<1> SUFFICES ASSUME TraceInv, T!AppendOutside \/ T!Destroy PROVE T!Abstract!Next
  OBVIOUS
<1>1. CASE T!AppendOutside
  <2>1. trace_phase = "live" /\ trace_phase' = "crashed"
    BY <1>1 DEF T!AppendOutside
  <2>2. LogOf' = <<>> /\ PosOf' = 0 /\ SeenOf' = Nothing
    BY <2>1 DEF LogOf, PosOf, SeenOf, T!Gone
  <2>3. T!State = "live" /\ T!State' = "lost"
    BY <2>1 DEF T!State
  <2> QED
    BY <2>2, <2>3, LogActions
<1>2. CASE T!Destroy
  <2>1. trace_phase = "live" /\ trace_phase' = "destroyed"
    BY <1>2 DEF T!Destroy
  <2>2. LogOf' = <<>>
    BY <2>1 DEF LogOf, T!Gone
  <2>3. PosOf' = 0 /\ SeenOf' = Nothing
    BY <2>1 DEF PosOf, SeenOf, T!Gone
  <2>4. T!State = "live" /\ T!State' = "gone"
    BY <2>1 DEF T!State
  <2> QED
    BY <2>2, <2>3, <2>4, LogActions
<1> QED
  BY <1>1, <1>2

\* The iterator starts at the first event.
LEMMA LogStartIter == TraceInv /\ TraceInv' /\ T!StartIter => T!Abstract!Next
<1> SUFFICES ASSUME TraceInv, TraceInv', T!StartIter PROVE T!Abstract!Next
  OBVIOUS
<1> DEFINE s == PiecesOf(blocks)
<1>1. /\ trace_phase = "live" /\ UNCHANGED <<trace_phase, blocks>>
      /\ e1 = <<>> /\ e1' = <<1, 0>> /\ blocks \in Seq(TraceBlock) /\ TraceTypeOK
  BY DEF T!StartIter, TraceInv, OneIterator, TraceTypeOK
<1>2. 1 \in 1 .. Len(blocks) /\ Len(blocks[1].events) # 0
  BY <1>1 DEF T!StartIter, T!size
<1>3. 0 < Len(blocks[1].events)
  <2>1. blocks[1].events \in Seq(Events)
    BY <1>1, <1>2, PiecesAre
  <2> QED
    BY <1>2, <2>1
<1>4. T!Joined(s, 0) = <<>>
  <2>1. s \in Seq(Seq(Events))
    BY <1>1, PiecesAre
  <2> QED
    BY <2>1, JoinedSteps DEF Joins
<1>5. 1 \in DOMAIN All(s) /\ All(s)[1] = blocks[1].events[1]
  <2>1. 1 = Len(T!Joined(s, 0)) + 0 + 1 /\ 0 = 1 - 1
    <3>1. Len(<<>>) = 0
      OBVIOUS
    <3> QED
      BY <1>4, <3>1
  <2>2. 1 \in DOMAIN All(s) /\ All(s)[1] = blocks[1].events[0 + 1]
    <3>1. 0 \in Nat
      OBVIOUS
    <3> QED
      BY <1>1, <1>2, <1>3, <2>1, <3>1, PlaceInLog
  <2>3. 0 + 1 = 1
    OBVIOUS
  <2> QED
    BY <2>2, <2>3
<1>6. LogOf = All(s) /\ UNCHANGED LogOf
  BY <1>1, ViewOf DEF LogOf, T!Gone, T!Log, T!parts
<1>7. PosOf = 0 /\ PosOf' = 1
  <2>1. PosOf = 0
    BY <1>1 DEF PosOf, T!Gone, T!Position
  <2>2. PosOf' = Len(T!Joined(s, 1 - 1)) + 0 + 1
    BY <1>1 DEF PosOf, T!Gone, T!Position, T!parts, PiecesOf, s
  <2>3. 1 - 1 = 0
    OBVIOUS
  <2>4. T!Joined(s, 0) = <<>> /\ Len(<<>>) = 0
    BY <1>1, <1>2, PiecesAre, JoinedSteps DEF Joins
  <2> QED
    BY <2>1, <2>2, <2>3, <2>4
<1>8. SeenOf' = blocks[1].events[1]
  <2>1. e1' # <<>> /\ e1'[1] = 1 /\ e1'[2] = 0 /\ 0 + 1 = 1
    BY <1>1
  <2> QED
    BY <1>1, <2>1 DEF SeenOf, T!Gone
<1>9. T!State = "live" /\ UNCHANGED T!State
  BY <1>1 DEF T!State
<1> QED
  BY <1>5, <1>6, <1>7, <1>8, <1>9, LogActions

\* The iterator ends.
LEMMA LogEndIter ==
    ASSUME TraceInv, trace_phase = "live", e1 # <<>>, T!EndIter, UNCHANGED <<trace_phase, blocks>>
    PROVE  T!Abstract!Next
<1> DEFINE b == e1_iter_last_block
           j == e1_iter_last_index
           k == b - 1
           pos == Len(T!Joined(PiecesOf(blocks), k)) + j + 1
<1>1. /\ TraceTypeOK /\ blocks \in Seq(TraceBlock)
      /\ e1 = <<b, j>> /\ b \in 1 .. Len(blocks) /\ j \in 0 .. Len(blocks[b].events) - 1
  BY DEF TraceInv, OneIterator, IteratorPointsAtEvent, TraceTypeOK
<1>2. k \in Nat /\ k = b - 1 /\ j \in Nat /\ j < Len(blocks[b].events)
  <2>1. blocks[b].events \in Seq(Events)
    BY <1>1, PiecesAre
  <2> QED
    BY <1>1, <2>1
<1> HIDE DEF k
<1>3. PosOf = pos
  <2>1. T!Position = pos
    BY <1>1, <1>2, ViewOf
  <2> QED
    BY <2>1 DEF PosOf, T!Gone
<1>4. pos # 0
  BY <1>1, <1>2, PlaceInLog
<1>5. e1' = <<>>
  BY DEF T!EndIter
<1>6. PosOf' = 0 /\ SeenOf' = Nothing
  BY <1>5 DEF PosOf, SeenOf, T!Gone, T!Position
<1>7. T!State = "live" /\ UNCHANGED <<T!State, LogOf>>
  BY DEF T!State, LogOf, T!Gone, T!Log, T!parts
<1> HIDE DEF pos
<1> QED
  BY <1>3, <1>4, <1>6, <1>7, LogActions

\* The iterator moves to the place that follows.
LEMMA LogMoveTo ==
    ASSUME TraceInv, trace_phase = "live", e1 # <<>>, UNCHANGED <<trace_phase, blocks>>,
           NEW c \in 1 .. Len(blocks), NEW y \in Nat, y < Len(blocks[c].events), T!MoveTo(c, y),
           \/ c = e1_iter_last_block /\ y = e1_iter_last_index + 1
           \/ /\ c = e1_iter_last_block + 1 /\ y = 0
              /\ e1_iter_last_index + 1 = Len(blocks[e1_iter_last_block].events)
    PROVE  T!Abstract!Next
<1> DEFINE s == PiecesOf(blocks)
           b == e1_iter_last_block
           j == e1_iter_last_index
           k == b - 1
           m == c - 1
           pos == Len(T!Joined(s, k)) + j + 1
           next == Len(T!Joined(s, m)) + y + 1
<1>1. /\ TraceTypeOK /\ blocks \in Seq(TraceBlock)
      /\ e1 = <<b, j>> /\ b \in 1 .. Len(blocks) /\ j \in 0 .. Len(blocks[b].events) - 1
      /\ s \in Seq(Seq(Events)) /\ Len(s) = Len(blocks) /\ s[b] = blocks[b].events
      /\ blocks[b].events \in Seq(Events)
  BY PiecesAre DEF TraceInv, OneIterator, IteratorPointsAtEvent, TraceTypeOK
<1>2. /\ k \in Nat /\ k = b - 1 /\ j \in Nat /\ j < Len(blocks[b].events)
      /\ m \in Nat /\ m = c - 1
  <2>1. Len(blocks[b].events) \in Nat
    BY <1>1
  <2>2. j \in Nat /\ j < Len(blocks[b].events)
    BY <1>1, <2>1
  <2>3. k \in Nat /\ m \in Nat
    BY <1>1
  <2> QED
    BY <2>2, <2>3
<1>3. k \in 0 .. Len(s) /\ m \in 0 .. Len(s) /\ b \in 1 .. Len(s) /\ b \in 0 .. Len(s)
  BY <1>1, <1>2
<1> HIDE DEF k, m, s
<1>4. PosOf = pos
  <2>1. T!Position = pos
    BY <1>1, <1>2, ViewOf DEF s
  <2> QED
    BY <2>1 DEF PosOf, T!Gone
<1>5. pos # 0 /\ pos \in Nat
  <2>1. pos = Len(T!Joined(PiecesOf(blocks), k)) + j + 1
    BY DEF s
  <2>2. blocks \in Seq(TraceBlock) /\ b \in 1 .. Len(blocks) /\ j \in Nat /\ j < Len(blocks[b].events)
        /\ k \in Nat /\ k = b - 1
    BY <1>1, <1>2
  <2> HIDE DEF pos, b, j
  <2> QED
    BY <2>1, <2>2, PlaceInLog
<1>6. next \in DOMAIN All(s) /\ All(s)[next] = blocks[c].events[y + 1]
  <2>1. next = Len(T!Joined(PiecesOf(blocks), m)) + y + 1
    BY DEF s
  <2>2. blocks \in Seq(TraceBlock) /\ c \in 1 .. Len(blocks) /\ y \in Nat /\ y < Len(blocks[c].events)
        /\ m \in Nat /\ m = c - 1
    BY <1>1, <1>2
  <2> HIDE DEF next, b, j
  <2>3. /\ next \in DOMAIN All(PiecesOf(blocks))
        /\ All(PiecesOf(blocks))[next] = blocks[c].events[y + 1]
    BY <2>1, <2>2, PlaceInLog
  <2> QED
    BY <2>3 DEF s
<1>7. next = pos + 1
  <2>1. Joins(s, Events)
    BY <1>1, JoinedSteps
  <2>2. T!Joined(s, k) \in Seq(Events)
    BY <1>3, <2>1 DEF Joins
  <2>3. CASE c = b /\ y = j + 1
    <3>1. m = k
      BY <1>2, <2>3
    <3> QED
      BY <1>2, <2>2, <2>3, <3>1
  <2>4. CASE c = b + 1 /\ y = 0 /\ j + 1 = Len(blocks[b].events)
    <3>1. m = b
      BY <1>1, <1>2, <2>4
    <3>2. T!Joined(s, b) = T!Joined(s, k) \o s[b]
      BY <1>2, <1>3, <2>1 DEF Joins
    <3> DEFINE x1 == Len(T!Joined(s, k))
               x2 == Len(T!Joined(s, m))
               x3 == Len(s[b])
    <3>3. x2 = x1 + x3
      BY <1>1, <2>2, <3>1, <3>2
    <3>4. x1 \in Nat /\ x3 \in Nat
      <4>1. s[b] \in Seq(Events)
        BY <1>1
      <4>2. \A q \in Seq(Events) : Len(q) \in Nat
        OBVIOUS
      <4> QED
        BY <2>2, <4>1, <4>2
    <3>5. x3 = j + 1
      BY <1>1, <2>4
    <3>6. next = x2 + y + 1 /\ pos = x1 + j + 1
      OBVIOUS
    <3>7. y = 0 /\ j \in Nat
      BY <1>2, <2>4
    <3> HIDE DEF x1, x2, x3, next, pos, j
    <3> QED
      BY <3>3, <3>4, <3>5, <3>6, <3>7
  <2> QED
    BY <2>3, <2>4
<1>8. e1' = <<c, y>> /\ e1' # <<>> /\ e1'[1] = c /\ e1'[2] = y
  BY DEF T!MoveTo
<1>9. PosOf' = next
  <2>1. PosOf' = Len(T!Joined(s, e1'[1] - 1)) + y + 1
    BY <1>8 DEF PosOf, T!Gone, T!Position, T!parts, PiecesOf, s
  <2>2. e1'[1] - 1 = m
    BY <1>2, <1>8
  <2> QED
    BY <2>1, <2>2
<1>10. SeenOf' = blocks[c].events[y + 1]
  BY <1>8 DEF SeenOf, T!Gone
<1>11. LogOf = All(s) /\ UNCHANGED LogOf
  BY <1>1, ViewOf DEF LogOf, T!Gone, T!Log, T!parts, s
<1>12. T!State = "live" /\ UNCHANGED T!State
  BY DEF T!State
<1> HIDE DEF next, pos
<1> QED
  BY <1>4, <1>5, <1>6, <1>7, <1>9, <1>10, <1>11, <1>12, LogActions

\* Where an iteration goes: on in its block, or to the first event of the next
\* one, or it ends, in the last block that has events.
LEMMA LogSteps ==
    ASSUME TraceInv, OnlyLastEmpty, T!NextIter
    PROVE  LET b == e1_iter_last_block
               j == e1_iter_last_index
               n == Len(blocks)
           IN  /\ b \in 1 .. n /\ j \in Nat /\ Len(blocks[b].events) \in Nat
               /\ j < Len(blocks[b].events)
               /\ \/ j + 1 < Len(blocks[b].events) /\ T!MoveTo(b, j + 1)
                  \/ /\ b + 1 \in 1 .. n /\ 0 < Len(blocks[b + 1].events)
                     /\ j + 1 = Len(blocks[b].events) /\ T!MoveTo(b + 1, 0)
                  \/ /\ j + 1 = Len(blocks[b].events) /\ T!EndIter
                     /\ b = n \/ (b + 1 = n /\ blocks[n].events = <<>>)
<1> DEFINE b == e1_iter_last_block
           j == e1_iter_last_index
           n == Len(blocks)
           x1 == Len(blocks[b].events)
           x2 == Len(blocks[b + 1].events)
<1>1. /\ blocks \in Seq(TraceBlock) /\ n \in Nat /\ b \in 1 .. n /\ j \in 0 .. x1 - 1
      /\ e1 # <<>> /\ trace_phase = "live"
  BY DEF TraceInv, TraceTypeOK, OneIterator, IteratorPointsAtEvent, T!NextIter
<1>2. \A y \in 1 .. n : blocks[y].events \in Seq(Events) /\ Len(blocks[y].events) \in Nat
  <2>1. \A y \in 1 .. n : blocks[y].events \in Seq(Events)
    BY <1>1, PiecesAre
  <2> QED
    BY <2>1
<1>3. x1 \in Nat /\ j \in Nat /\ j < x1
  BY <1>1, <1>2
<1>4. T!size(b) = x1
  BY <1>1 DEF T!size
<1>5. \/ j + 1 < T!size(b) /\ T!MoveTo(b, j + 1)
      \/ j + 1 >= T!size(b) /\ T!size(b + 1) > 0 /\ T!MoveTo(b + 1, 0)
      \/ j + 1 >= T!size(b) /\ T!size(b + 1) = 0 /\ T!EndIter
  BY DEF T!NextIter
<1>6. CASE b + 1 \in 1 .. n
  <2>1. T!size(b + 1) = x2 /\ x2 \in Nat
    BY <1>1, <1>2, <1>6 DEF T!size
  <2>2. ASSUME x2 = 0 PROVE b + 1 = n /\ blocks[n].events = <<>>
    <3>1. b + 1 = n
      BY <1>6, <2>2 DEF OnlyLastEmpty
    <3> QED
      BY <1>2, <1>6, <2>2, <3>1
  <2> HIDE DEF b, j, n, x1, x2
  <2> QED
    BY <1>1, <1>3, <1>4, <1>5, <1>6, <2>1, <2>2 DEF x1, x2, b, j, n
<1>7. CASE b + 1 \notin 1 .. n
  <2>1. b = n
    BY <1>1, <1>7
  <2>2. T!size(b + 1) = 0
    BY <1>1, <1>7 DEF T!size
  <2>3. \/ j + 1 < x1 /\ T!MoveTo(b, j + 1)
        \/ j + 1 = x1 /\ T!EndIter
    BY <1>3, <1>4, <1>5, <2>2
  <2> QED
    BY <1>1, <1>3, <2>1, <2>3
<1> QED
  BY <1>6, <1>7

\* It moves to the next event, or to the end behind the last one.
LEMMA LogNextIter ==
    ASSUME TraceInv, OnlyLastEmpty, T!NextIter
    PROVE  T!Abstract!Next
<1> DEFINE b == e1_iter_last_block
           j == e1_iter_last_index
           n == Len(blocks)
<1>1. trace_phase = "live" /\ e1 # <<>> /\ UNCHANGED <<trace_phase, blocks>>
  BY DEF T!NextIter
<1>2. /\ b \in 1 .. n /\ j \in Nat /\ Len(blocks[b].events) \in Nat
      /\ \/ j + 1 < Len(blocks[b].events) /\ T!MoveTo(b, j + 1)
         \/ /\ b + 1 \in 1 .. n /\ 0 < Len(blocks[b + 1].events)
            /\ j + 1 = Len(blocks[b].events) /\ T!MoveTo(b + 1, 0)
         \/ T!EndIter
  BY LogSteps
<1>3. CASE j + 1 < Len(blocks[b].events) /\ T!MoveTo(b, j + 1)
  <2> DEFINE y == j + 1
  <2>1. y \in Nat /\ y < Len(blocks[b].events) /\ T!MoveTo(b, y) /\ y = e1_iter_last_index + 1
        /\ b = e1_iter_last_block
    BY <1>2, <1>3
  <2> HIDE DEF y, b
  <2> QED
    BY <1>1, <1>2, <2>1, LogMoveTo
<1>4. CASE /\ b + 1 \in 1 .. n /\ 0 < Len(blocks[b + 1].events)
           /\ j + 1 = Len(blocks[b].events) /\ T!MoveTo(b + 1, 0)
  <2> DEFINE c == b + 1
  <2>1. /\ c \in 1 .. Len(blocks) /\ 0 \in Nat /\ 0 < Len(blocks[c].events) /\ T!MoveTo(c, 0)
        /\ c = e1_iter_last_block + 1
        /\ e1_iter_last_index + 1 = Len(blocks[e1_iter_last_block].events)
    BY <1>4
  <2> HIDE DEF c
  <2> QED
    BY <1>1, <2>1, LogMoveTo
<1>5. CASE T!EndIter
  BY <1>1, <1>5, LogEndIter
<1> QED
  BY <1>2, <1>3, <1>4, <1>5

\* An iteration that ends by itself was at the last event.
LEMMA LogReadToEnd ==
    ASSUME TraceInv, OnlyLastEmpty, T!NextIter, e1' = <<>>
    PROVE  T!Position = Len(T!Log)
<1> DEFINE b == e1_iter_last_block
           j == e1_iter_last_index
           n == Len(blocks)
           s == PiecesOf(blocks)
           k == b - 1
           x1 == Len(T!Joined(s, k))
           x2 == Len(s[b])
<1>1. ~T!MoveTo(b, j + 1) /\ ~T!MoveTo(b + 1, 0)
  BY DEF T!MoveTo
<1>2. /\ b \in 1 .. n /\ j \in Nat
      /\ j + 1 = Len(blocks[b].events)
      /\ b = n \/ (b + 1 = n /\ blocks[n].events = <<>>)
  BY <1>1, LogSteps
<1>3. /\ TraceTypeOK /\ blocks \in Seq(TraceBlock) /\ n \in Nat
      /\ s \in Seq(Seq(Events)) /\ Len(s) = n /\ s[b] = blocks[b].events /\ s[n] = blocks[n].events
      /\ s[b] \in Seq(Events)
  <2>1. TraceTypeOK /\ blocks \in Seq(TraceBlock) /\ n \in Nat /\ n \in 1 .. n
    BY <1>2 DEF TraceInv, TraceTypeOK
  <2> QED
    BY <1>2, <2>1, PiecesAre
<1>4. e1 = <<b, j>> /\ k = b - 1 /\ k \in Nat /\ k \in 0 .. Len(s) /\ b \in 1 .. Len(s)
      /\ b \in 0 .. Len(s)
  BY <1>2, <1>3 DEF TraceInv, OneIterator, IteratorPointsAtEvent, T!NextIter
<1>5. T!Log = All(s)
  BY <1>3, ViewOf
<1> HIDE DEF k
<1>6. T!Position = x1 + j + 1
  BY <1>2, <1>3, <1>4, ViewOf
<1> HIDE DEF s
<1>7. Joins(s, Events)
  BY <1>3, JoinedSteps
<1>8. T!Joined(s, b) = T!Joined(s, k) \o s[b] /\ T!Joined(s, k) \in Seq(Events) /\ T!Joined(s, b) \in Seq(Events)
  BY <1>4, <1>7 DEF Joins
<1>9. All(s) = T!Joined(s, b)
  <2>1. All(s) = T!Joined(s, n)
    BY <1>3 DEF All
  <2>2. CASE b = n
    BY <2>1, <2>2
  <2>3. CASE b + 1 = n /\ blocks[n].events = <<>>
    <3>1. T!Joined(s, n) = T!Joined(s, b) \o s[n]
      <4>1. n \in 1 .. Len(s) /\ b \in 0 .. Len(s) /\ b = n - 1
        BY <1>2, <1>3, <2>3
      <4> HIDE DEF n, b
      <4> QED
        BY <4>1, <1>7 DEF Joins
    <3>2. T!Joined(s, b) \o <<>> = T!Joined(s, b)
      BY <1>8
    <3> QED
      BY <1>3, <2>1, <2>3, <3>1, <3>2
  <2> QED
    BY <1>2, <2>2, <2>3
<1>10. Len(T!Joined(s, b)) = x1 + x2 /\ x1 \in Nat /\ x2 \in Nat
  BY <1>3, <1>8
<1>11. x2 = j + 1
  BY <1>2, <1>3
<1> HIDE DEF x1, x2, j
<1> QED
  BY <1>2, <1>5, <1>6, <1>9, <1>10, <1>11

\* A signal between two statements changes no event.
LEMMA LogInterrupt ==
    ASSUME TraceInv, T!InterruptIter
    PROVE  T!Abstract!Next
<1>1. trace_phase = "live" /\ e1 # <<>> /\ UNCHANGED <<trace_phase, blocks>> /\ T!EndIter
  BY DEF T!InterruptIter
<1> QED
  BY <1>1, LogEndIter

-----------------------------------------------------------------------------
\* Each step of the trace, or of another part, is one of the log or leaves it.
LEMMA LogNext == LogInv /\ [Next]_vars => [T!Abstract!Next]_T!Abstract!vars
<1> SUFFICES ASSUME LogInv, [Next]_vars PROVE T!Abstract!Next \/ UNCHANGED T!Abstract!vars
  OBVIOUS
<1>1. TraceInv /\ OnlyLastEmpty /\ TraceInv' /\ TraceTypeOK /\ TraceTypeOK'
  BY NextTraceInv DEF LogInv, TraceInv
<1>2. CASE T!Next
  <2>1. CASE T!Create
    BY <1>1, <2>1, LogCreate
  <2>2. ASSUME NEW e \in Events, T!AppendEvent(e) PROVE T!Abstract!Next
    BY <1>1, <2>2, LogAppend, LibraryAssumption
  <2>3. CASE T!AppendOutside
    BY <1>1, <2>3, LogEnds
  <2>4. CASE T!StartIter
    BY <1>1, <2>4, LogStartIter
  <2>5. CASE T!NextIter
    BY <1>1, <2>5, LogNextIter
  <2>6. CASE T!InterruptIter
    BY <1>1, <2>6, LogInterrupt
  <2>7. CASE T!Destroy
    BY <1>1, <2>7, LogEnds
  <2> QED
    BY <1>2, <2>1, <2>2, <2>3, <2>4, <2>5, <2>6, <2>7 DEF T!Next
<1>3. CASE UNCHANGED traceVars
  <2>1. UNCHANGED <<trace_phase, blocks, e1>>
    BY <1>3 DEF traceVars
  <2>2. UNCHANGED <<T!State, LogOf, PosOf, SeenOf>>
    BY <2>1 DEF T!State, LogOf, PosOf, SeenOf, T!Gone, T!Log, T!parts, T!Position
  <2> QED
    BY <2>2, LogActions
<1> QED
  BY <1>2, <1>3, StepsOfParts

\* A reader that goes on reads every event.
LEMMA LogReads ==
    LogInv /\ [Next]_vars => [T!NextIter /\ e1' = <<>> => T!Position = Len(T!Log)]_T!vars
<1>1. LogInv /\ T!NextIter /\ e1' = <<>> => T!Position = Len(T!Log)
  BY LogReadToEnd DEF LogInv
<1> QED
  BY <1>1

\* A trace is a log that is read in order and to its end, wherever its blocks
\* begin and whatever is logged while it is read: mys_trace_next_iter skips,
\* repeats and loses no event.
THEOREM TraceIsEventLog == Spec => ImplementsEventLog
<1>1. Init => LogInv
  <2>1. Init => TraceInv
    BY InitTraceInv DEF Init
  <2>2. Init => blocks = <<>>
    BY DEF Init, T!Init
  <2>3. blocks = <<>> => OnlyLastEmpty
    BY DEF OnlyLastEmpty
  <2> QED
    BY <2>1, <2>2, <2>3 DEF LogInv
<1>2. LogInv /\ [Next]_vars => LogInv'
  BY NextLogInv
<1>3. Init => T!Abstract!Init
  BY LogStart DEF Init
<1>4. LogInv /\ [Next]_vars => [T!Abstract!Next]_T!Abstract!vars
  BY LogNext
<1>5. LogInv /\ [Next]_vars => [T!NextIter /\ e1' = <<>> => T!Position = Len(T!Log)]_T!vars
  BY LogReads
<1> QED
  BY <1>1, <1>2, <1>3, <1>4, <1>5, PTL
     DEF Spec, ImplementsEventLog, T!ImplementsEventLog, T!Abstract!Spec, T!ReadsToTheEnd

-----------------------------------------------------------------------------
(***************************************************************************)
(* Strings, of callers that do not append a string to itself when it has   *)
(* to grow.  The buffer is as large as the capacity says, what the text    *)
(* holds was written, the zero behind it too, and the account of the arena *)
(* is what the string has.                                                 *)
(***************************************************************************)
StringTypeOK ==
    /\ size \in Nat /\ capacity \in Nat /\ alive \in Nat
    /\ S!exists => /\ alive = StructSize + capacity
                   /\ size < capacity
                   /\ buf \in [1 .. capacity -> Char \cup {Garbage}]
    /\ ~S!exists => size = 0 /\ capacity = 0 /\ buf = <<>>

\* The text is inside the buffer and ends with a zero.
TextIsWritten ==
    S!exists => /\ \A k \in 1 .. size : buf[k] \in Char
                /\ buf[size + 1] = 0

\* The inductive invariant of Strings.
StringInv == StringTypeOK /\ TextIsWritten

\* Doubling ends, and it ends with enough.
Doubling(h, n, need) ==
    h = [k \in 0 .. need |-> IF k = 0 THEN n ELSE IF h[k - 1] < need THEN 2 * h[k - 1] ELSE h[k - 1]]

\* h doubles n until there is room for need.
DoublingTo(h, n, need, last) ==
    h = [k \in 0 .. last |-> IF k = 0 THEN n ELSE IF h[k - 1] < need THEN 2 * h[k - 1] ELSE h[k - 1]]

\* There is such a function.
LEMMA DoublingExists ==
    ASSUME NEW n, NEW need \in Nat
    PROVE  \E h : Doubling(h, n, need)
<1> DEFINE good == {k \in Nat : \E h : DoublingTo(h, n, need, k)}
<1>1. 0 \in good
  <2> DEFINE h == [k \in 0 .. 0 |-> n]
  <2>1. DoublingTo(h, n, need, 0)
    BY DEF DoublingTo
  <2> QED
    BY <2>1
<1>2. ASSUME NEW k \in Nat, k \in good PROVE k + 1 \in good
  <2>1. PICK h : DoublingTo(h, n, need, k)
    BY <1>2
  <2> DEFINE more == IF h[k] < need THEN 2 * h[k] ELSE h[k]
             g == [m \in 0 .. k + 1 |-> IF m = k + 1 THEN more ELSE h[m]]
  <2>2. ASSUME NEW m \in 0 .. k + 1
        PROVE  g[m] = IF m = 0 THEN n ELSE IF g[m - 1] < need THEN 2 * g[m - 1] ELSE g[m - 1]
    <3>1. CASE m = k + 1
      <4>1. g[m - 1] = h[k] /\ m # 0 /\ g[m] = more
        BY <3>1
      <4> HIDE DEF g
      <4> QED
        BY <4>1
    <3>2. CASE m # k + 1
      <4>1. m \in 0 .. k /\ g[m] = h[m] /\ (m # 0 => m - 1 \in 0 .. k + 1 /\ m - 1 # k + 1 /\ g[m - 1] = h[m - 1])
        BY <3>2
      <4>2. h[m] = IF m = 0 THEN n ELSE IF h[m - 1] < need THEN 2 * h[m - 1] ELSE h[m - 1]
        BY <2>1, <4>1 DEF DoublingTo
      <4> HIDE DEF g
      <4> QED
        BY <4>1, <4>2
    <3> QED
      BY <3>1, <3>2
  <2>3. g = [m \in 0 .. k + 1 |-> g[m]]
    OBVIOUS
  <2> HIDE DEF g
  <2>4. DoublingTo(g, n, need, k + 1)
    BY <2>2, <2>3 DEF DoublingTo
  <2> QED
    BY <2>4
<1> HIDE DEF good
<1>3. need \in good
  BY <1>1, <1>2, SetInduction
<1> QED
  BY <1>3 DEF good, Doubling, DoublingTo

\* Reach is what it comes to, and that is room enough.
LEMMA ReachIs ==
    ASSUME NEW n \in Nat \ {0}, NEW need \in Nat
    PROVE  S!Reach(n, need) \in Nat /\ S!Reach(n, need) >= need /\ S!Reach(n, need) >= n
<1> DEFINE Makes(h) == h = [k \in 0 .. need |->
                              IF k = 0 THEN n ELSE IF h[k - 1] < need THEN 2 * h[k - 1] ELSE h[k - 1]]
           room == CHOOSE h : Makes(h)
<1>1. S!Reach(n, need) = room[need]
  BY DEF S!Reach
<1>2. Makes(room)
  <2>1. PICK h : Doubling(h, n, need)
    BY DoublingExists
  <2>2. Makes(h)
    BY <2>1 DEF Doubling
  <2> HIDE DEF Makes
  <2> QED
    BY <2>2
<1> HIDE DEF room
<1>3. \A k \in 0 .. need : room[k] = IF k = 0 THEN n ELSE IF room[k - 1] < need THEN 2 * room[k - 1] ELSE room[k - 1]
  BY <1>2
<1> DEFINE good == {k \in Nat : k \in 0 .. need =>
                       room[k] \in Nat /\ room[k] >= n /\ (room[k] >= need \/ room[k] >= k + 1)}
<1>4. 0 \in good
  <2>1. room[0] = n
    BY <1>3
  <2> QED
    BY <2>1
<1>5. ASSUME NEW k \in Nat, k \in good PROVE k + 1 \in good
  <2> DEFINE m == k + 1
             a == room[k]
             b == room[m]
  <2> SUFFICES ASSUME m \in 0 .. need
               PROVE  b \in Nat /\ b >= n /\ (b >= need \/ b >= m + 1)
    OBVIOUS
  <2>1. m # 0 /\ m - 1 = k /\ k \in 0 .. need
    OBVIOUS
  <2>2. b = IF a < need THEN 2 * a ELSE a
    BY <1>3, <2>1
  <2>3. a \in Nat /\ a >= n /\ (a >= need \/ a >= m)
    BY <1>5, <2>1
  <2> HIDE DEF a, b, m
  <2>4. m \in Nat
    BY DEF m
  <2>5. CASE a < need
    BY <2>2, <2>3, <2>4, <2>5
  <2>6. CASE ~(a < need)
    BY <2>2, <2>3, <2>6
  <2> QED
    BY <2>5, <2>6
<1> HIDE DEF good
<1>6. need \in good
  BY <1>4, <1>5, SetInduction
<1> DEFINE r == room[need]
<1>7. r \in Nat /\ r >= n /\ (r >= need \/ r >= need + 1)
  BY <1>6 DEF good
<1>8. r >= need
  BY <1>7
<1> QED
  BY <1>1, <1>7, <1>8

\* What is stored in memory that is large enough.
LEMMA PutIs ==
    ASSUME NEW c \in Nat, NEW b, DOMAIN b = 1 .. c, NEW n \in Nat, NEW l \in Nat,
           NEW s, DOMAIN s = 1 .. l, n + l <= c
    PROVE  /\ DOMAIN S!Put(b, n, s) = 1 .. c
           /\ \A k \in 1 .. c : S!Put(b, n, s)[k] = IF k > n /\ k <= n + l THEN s[k - n] ELSE b[k]
           /\ S!Put(b, n, s) = [k \in 1 .. c |-> S!Put(b, n, s)[k]]
<1>1. 1 .. c \cup {n + j : j \in 1 .. l} = 1 .. c
  OBVIOUS
<1>2. S!Put(b, n, s) = [k \in 1 .. c |-> IF k - n \in 1 .. l THEN s[k - n] ELSE b[k]]
  BY <1>1 DEF S!Put
<1>3. \A k \in 1 .. c : k - n \in 1 .. l <=> k > n /\ k <= n + l
  OBVIOUS
<1> QED
  BY <1>2, <1>3

\* The text, when there is a string.
TextOf == [k \in 1 .. size |-> buf[k]]

\* What the string shows, character by character.
LEMMA ContentIs ==
    ASSUME S!StringsAssumption, StringInv
    PROVE  /\ S!exists => /\ S!Content = TextOf /\ TextOf \in [1 .. size -> Char]
                          /\ TextOf \in Seq(Char) /\ Len(TextOf) = size
           /\ ~S!exists => S!Content = <<>>
<1>1. CASE S!exists
  <2>1. /\ size \in Nat /\ capacity \in Nat /\ size < capacity /\ buf[size + 1] = 0
        /\ DOMAIN buf = 1 .. capacity /\ \A k \in 1 .. size : buf[k] \in Char
    BY <1>1 DEF StringInv, StringTypeOK, TextIsWritten
  <2>2. S!Content = SubSeq(buf, 1, size)
    BY <1>1, <2>1 DEF S!Content
  <2>3. SubSeq(buf, 1, size) \in Seq(Char) /\ Len(SubSeq(buf, 1, size)) = size
        /\ \A k \in 1 .. size : SubSeq(buf, 1, size)[k] = buf[k]
    <3> DEFINE sub == SubSeq(buf, 1, size)
    <3>1. /\ sub \in Seq(Char) /\ Len(sub) = IF 1 <= size THEN size - 1 + 1 ELSE 0
          /\ \A k \in 1 .. size - 1 + 1 : sub[k] = buf[1 + k - 1]
      BY <2>1, SubSeqProperties
    <3> HIDE DEF sub
    <3>2. size - 1 + 1 = size /\ (~(1 <= size) => size = 0) /\ \A k \in 1 .. size : 1 + k - 1 = k
      BY <2>1
    <3> QED
      BY <3>1, <3>2 DEF sub
  <2>4. TextOf \in Seq(Char) /\ Len(TextOf) = size /\ TextOf \in [1 .. size -> Char]
    BY <2>1 DEF TextOf
  <2>5. \A k \in 1 .. size : TextOf[k] = buf[k]
    BY DEF TextOf
  <2>6. SubSeq(buf, 1, size) = TextOf
    <3> DEFINE sub == SubSeq(buf, 1, size)
    <3>1. sub \in Seq(Char) /\ Len(sub) = Len(TextOf) /\ \A k \in 1 .. Len(sub) : sub[k] = TextOf[k]
      BY <2>3, <2>4, <2>5
    <3> HIDE DEF sub
    <3>2. sub = TextOf
      BY <2>4, <3>1, SeqEqual
    <3> QED
      BY <3>2 DEF sub
  <2> QED
    BY <1>1, <2>2, <2>4, <2>6
<1>2. CASE ~S!exists
  BY <1>2 DEF S!Content
<1> QED
  BY <1>1, <1>2

\* Storing l characters at the end keeps the text that is there.
LEMMA StoreKeeps ==
    ASSUME S!StringsAssumption, StringInv, S!exists, NEW l \in Nat, NEW s \in [1 .. l -> Char],
           NEW required \in Nat, required >= l + 1, S!StoreAtEnd(s, required)
    PROVE  /\ StringInv' /\ S!exists' /\ S!Content' = S!Content \o s
<1> DEFINE room == S!Grown(required)
           old == S!Moved(required)
           end == Append(s, 0)
           n == size + l
<1>1. /\ size \in Nat /\ capacity \in Nat /\ size < capacity /\ buf[size + 1] = 0
      /\ buf \in [1 .. capacity -> Char \cup {Garbage}]
      /\ DOMAIN buf = 1 .. capacity /\ \A k \in 1 .. size : buf[k] \in Char
      /\ alive = StructSize + capacity /\ StructSize \in Nat \ {0} /\ 0 \in Char
  BY DEF StringInv, StringTypeOK, TextIsWritten, S!StringsAssumption
<1>2. room \in Nat /\ room >= size + required /\ room >= capacity
  <2>1. capacity \in Nat \ {0} /\ size + required \in Nat
    BY <1>1
  <2> QED
    BY <2>1, ReachIs DEF S!Grown
<1>3. capacity' = room /\ alive' = alive + (room - capacity) /\ buf' = S!Put(old, size, end) /\ size' = size + Len(s)
  BY DEF S!StoreAtEnd, S!Reallocate
<1>4. /\ Len(s) = l /\ DOMAIN end = 1 .. l + 1 /\ end[l + 1] = 0 /\ \A k \in 1 .. l : end[k] = s[k]
      /\ s \in Seq(Char)
  <2>1. s \in Seq(Char) /\ Len(s) = l
    OBVIOUS
  <2> QED
    BY <1>1, <2>1
<1> HIDE DEF room, end
<1>5. /\ DOMAIN old = 1 .. room /\ \A k \in 1 .. capacity : old[k] = buf[k]
      /\ \A k \in 1 .. room : old[k] \in Char \cup {Garbage}
  <2> DEFINE fresh == S!Fresh(room)
  <2>1. DOMAIN fresh = 1 .. room /\ \A k \in 1 .. room : fresh[k] = Garbage
    BY DEF S!Fresh
  <2>2. old = S!Put(fresh, 0, buf)
    BY DEF S!Moved, room
  <2> HIDE DEF fresh, old
  <2>4. /\ DOMAIN old = 1 .. room
        /\ \A k \in 1 .. room : old[k] = IF k > 0 /\ k <= 0 + capacity THEN buf[k - 0] ELSE fresh[k]
    <3> DEFINE none == 0
    <3>1. none + capacity <= room /\ none \in Nat /\ old = S!Put(fresh, none, buf)
      BY <1>1, <1>2, <2>2
    <3> HIDE DEF none
    <3> DEFINE new == S!Put(fresh, none, buf)
    <3>2. /\ DOMAIN new = 1 .. room
          /\ \A k \in 1 .. room : new[k] = IF k > none /\ k <= none + capacity THEN buf[k - none] ELSE fresh[k]
      <4>1. DOMAIN buf = 1 .. capacity /\ capacity \in Nat /\ room \in Nat /\ DOMAIN fresh = 1 .. room
        BY <1>1, <1>2, <2>1
      <4> QED
        BY <3>1, <4>1, PutIs
    <3> HIDE DEF new
    <3>3. old = new
      BY <3>1 DEF new
    <3> QED
      BY <3>2, <3>3 DEF none
  <2>5. ASSUME NEW k \in 1 .. room PROVE old[k] \in Char \cup {Garbage} /\ (k <= capacity => old[k] = buf[k])
    <3>1. k > 0 /\ k - 0 = k /\ (k <= 0 + capacity <=> k <= capacity) /\ (k <= capacity => k \in 1 .. capacity)
      BY <1>1, <1>2
    <3>2. old[k] = IF k <= capacity THEN buf[k] ELSE Garbage
      BY <2>1, <2>4, <3>1
    <3> QED
      BY <1>1, <3>1, <3>2
  <2>6. \A k \in 1 .. capacity : k \in 1 .. room /\ k <= capacity
    BY <1>1, <1>2
  <2> QED
    BY <2>4, <2>5, <2>6
<1> HIDE DEF old
<1>6. /\ n \in Nat /\ n < room /\ size + (l + 1) <= room /\ size <= n /\ l + 1 \in Nat /\ n + 1 \in 1 .. room
  BY <1>1, <1>2
<1>7. /\ DOMAIN buf' = 1 .. room
      /\ \A k \in 1 .. room : buf'[k] = IF k > size /\ k <= size + (l + 1) THEN end[k - size] ELSE old[k]
      /\ buf' = [k \in 1 .. room |-> buf'[k]]
  <2> DEFINE new == S!Put(old, size, end)
             j == l + 1
  <2>1. /\ DOMAIN end = 1 .. j /\ j \in Nat /\ size + j <= room
    BY <1>4, <1>6
  <2> HIDE DEF j
  <2>2. /\ DOMAIN new = 1 .. room
        /\ \A k \in 1 .. room : new[k] = IF k > size /\ k <= size + j THEN end[k - size] ELSE old[k]
        /\ new = [k \in 1 .. room |-> new[k]]
    <3>1. /\ room \in Nat /\ DOMAIN old = 1 .. room /\ size \in Nat /\ DOMAIN end = 1 .. j
          /\ j \in Nat /\ size + j <= room
      BY <1>1, <1>2, <1>5, <2>1
    <3> HIDE DEF new
    <3>2. new = S!Put(old, size, end)
      BY DEF new
    <3> QED
      BY <3>1, <3>2, PutIs
  <2>3. buf' = new
    BY <1>3
  <2> HIDE DEF new
  <2> QED
    BY <2>2, <2>3 DEF j
<1> HIDE DEF n
<1>8. ASSUME NEW k \in 1 .. size PROVE buf'[k] = buf[k]
  <2>1. k \in 1 .. room /\ ~(k > size) /\ k \in 1 .. capacity
    BY <1>1, <1>2
  <2> QED
    BY <1>5, <1>7, <2>1
<1>9. ASSUME NEW k \in 1 .. l PROVE buf'[size + k] = s[k]
  <2> DEFINE j == size + k
  <2>1. j \in 1 .. room /\ j > size /\ j <= size + (l + 1) /\ j - size = k
    BY <1>1, <1>2
  <2> HIDE DEF j
  <2>2. buf'[j] = end[k]
    BY <1>7, <2>1
  <2> QED
    BY <1>4, <2>2 DEF j
<1>10. buf'[n + 1] = 0
  <2>1. n + 1 > size /\ n + 1 <= size + (l + 1) /\ n + 1 - size = l + 1
    BY <1>1, <1>6 DEF n
  <2> DEFINE j == n + 1
  <2>2. j \in 1 .. room /\ j > size /\ j <= size + (l + 1) /\ j - size = l + 1
    <3> HIDE DEF n
    <3> QED
      BY <1>1, <1>6, <2>1
  <2> HIDE DEF j
  <2>3. buf'[j] = end[l + 1]
    BY <1>7, <2>2
  <2> QED
    BY <1>4, <2>3 DEF j
<1>11. ASSUME NEW k \in 1 .. room PROVE buf'[k] \in Char \cup {Garbage}
  <2>1. CASE k > size /\ k <= size + (l + 1)
    <3> DEFINE j == k - size
    <3>1. j \in 1 .. l + 1 /\ (j # l + 1 => j \in 1 .. l)
      BY <1>1, <2>1
    <3>2. end[j] \in Char
      BY <1>1, <1>4, <3>1
    <3> QED
      BY <1>7, <2>1, <3>2
  <2>2. CASE ~(k > size /\ k <= size + (l + 1))
    BY <1>5, <1>7, <2>2
  <2> QED
    BY <2>1, <2>2
<1>12. size' = n /\ capacity' = room /\ alive' = StructSize + room
  BY <1>1, <1>2, <1>3, <1>4 DEF n
<1>13. alive' # 0 /\ alive' \in Nat
  BY <1>1, <1>2, <1>12
<1>14. buf' \in [1 .. room -> Char \cup {Garbage}]
  BY <1>7, <1>11
<1>15. S!exists'
  BY <1>13 DEF S!exists
<1>16. StringTypeOK'
  BY <1>2, <1>6, <1>12, <1>13, <1>14, <1>15 DEF StringTypeOK
<1>17. ASSUME NEW k \in 1 .. n PROVE buf'[k] = IF k <= size THEN buf[k] ELSE s[k - size]
  <2>1. CASE k <= size
    <3>1. k \in 1 .. size
      BY <1>1, <2>1
    <3> QED
      BY <1>8, <2>1, <3>1
  <2>2. CASE ~(k <= size)
    <3> DEFINE j == k - size
    <3>1. j \in 1 .. l /\ size + j = k
      BY <1>1, <2>2 DEF n
    <3> HIDE DEF j
    <3>2. buf'[k] = s[j]
      BY <1>9, <3>1
    <3> QED
      BY <2>2, <3>2 DEF j
  <2> QED
    BY <2>1, <2>2
<1>18. \A k \in 1 .. n : buf'[k] \in Char
  <2> SUFFICES ASSUME NEW k \in 1 .. n PROVE buf'[k] \in Char
    OBVIOUS
  <2>1. k <= size => k \in 1 .. size
    BY <1>1
  <2>2. ~(k <= size) => k - size \in 1 .. l
    BY <1>1 DEF n
  <2> QED
    BY <1>1, <1>17, <2>1, <2>2
<1>19. StringInv'
  BY <1>10, <1>12, <1>16, <1>18 DEF StringInv, TextIsWritten
<1>20. S!Content' = S!Content \o s
  <2> DEFINE new == TextOf'
             text == TextOf
  <2>1. S!Content = text /\ text \in Seq(Char) /\ Len(text) = size /\ \A k \in 1 .. size : text[k] = buf[k]
    BY ContentIs DEF TextOf
  <2>2. S!Content' = new /\ new = [k \in 1 .. n |-> buf'[k]]
    <3>1. SubSeq(buf', 1, n) = [k \in 1 .. n |-> buf'[k]]
      <4> DEFINE sub == SubSeq(buf', 1, n)
                 all == [k \in 1 .. n |-> buf'[k]]
      <4>1. /\ sub \in Seq(Char) /\ Len(sub) = IF 1 <= n THEN n - 1 + 1 ELSE 0
            /\ \A k \in 1 .. n - 1 + 1 : sub[k] = buf'[1 + k - 1]
        BY <1>6, <1>18, SubSeqProperties
      <4>2. all \in Seq(Char) /\ Len(all) = n /\ \A k \in 1 .. n : all[k] = buf'[k]
        BY <1>6, <1>18
      <4> HIDE DEF sub, all
      <4>3. n - 1 + 1 = n /\ (~(1 <= n) => n = 0) /\ \A k \in 1 .. n : 1 + k - 1 = k
        BY <1>6
      <4>a. Len(sub) = n
        BY <4>1, <4>3
      <4>b. \A k \in 1 .. n : sub[k] = buf'[k]
        BY <4>1, <4>3
      <4>4. Len(sub) = Len(all) /\ \A k \in 1 .. Len(sub) : sub[k] = all[k]
        BY <4>2, <4>a, <4>b
      <4>5. sub = all
        BY <4>1, <4>2, <4>4, SeqEqual
      <4> QED
        BY <4>5 DEF sub, all
    <3>2. S!Content' = SubSeq(buf', 1, n)
      <4>1. DOMAIN buf' = 1 .. capacity' /\ size' < capacity' /\ buf'[size' + 1] = 0
        BY <1>6, <1>7, <1>10, <1>12
      <4> QED
        BY <1>12, <1>15, <4>1 DEF S!Content
    <3> QED
      BY <1>12, <3>1, <3>2 DEF TextOf
  <2> HIDE DEF new, text
  <2>3. Follows(text \o s, text, s, size, l, Char)
    BY <1>4, <2>1, ConcatFollows
  <2>4. new \in Seq(Char) /\ Len(new) = n /\ \A k \in 1 .. n : new[k] = buf'[k]
    BY <1>6, <1>18, <2>2
  <2> DEFINE both == text \o s
  <2>5. both \in Seq(Char) /\ Len(both) = n
    BY <2>3 DEF Follows, n
  <2>6. ASSUME NEW k \in 1 .. n PROVE both[k] = new[k]
    <3>1. CASE k <= size
      <4>1. k \in 1 .. size
        BY <1>1, <3>1
      <4> HIDE DEF both
      <4>2. both[k] = text[k]
        BY <2>3, <4>1 DEF Follows, both
      <4> QED
        BY <1>17, <2>1, <2>4, <3>1, <4>1, <4>2
    <3>2. CASE ~(k <= size)
      <4> DEFINE j == k - size
      <4>1. j \in 1 .. l /\ size + j = k
        BY <1>1, <3>2 DEF n
      <4> HIDE DEF j, both
      <4>2. both[size + j] = s[j]
        BY <2>3, <4>1 DEF Follows, both
      <4>3. new[k] = s[j]
        BY <1>17, <2>4, <3>2 DEF j
      <4> QED
        BY <4>1, <4>2, <4>3
    <3> QED
      BY <3>1, <3>2
  <2> HIDE DEF both
  <2>7. both = new
    BY <2>4, <2>5, <2>6, SeqEqual
  <2> QED
    BY <2>1, <2>2, <2>7 DEF both
<1> QED
  BY <1>15, <1>19, <1>20

-----------------------------------------------------------------------------
\* The steps of the promise on what it sees.
LEMMA PromiseActions ==
    /\ ~S!exists /\ S!exists' /\ (\E n \in 0 .. MaxLen : S!Content' \in [1 .. n -> Char]) => S!Promise!Next
    /\ \A n \in 1 .. MaxLen : \A other \in [1 .. n -> Char] :
          S!exists /\ S!exists' /\ S!Content' = S!Content \o other => S!Promise!Next
    /\ \A n \in 1 .. MaxLen :
          S!exists /\ S!exists' /\ S!Content' = S!Content \o [k \in 1 .. n |-> 0] => S!Promise!Next
    /\ \A n \in 0 .. Len(S!Content) :
          S!exists /\ S!exists' /\ S!Content' = SubSeq(S!Content, 1, n) => S!Promise!Next
    /\ S!exists /\ ~S!exists' /\ S!Content' = <<>> => S!Promise!Next
<1> DEFINE ex == S!exists
           text == S!Content
<1>0. ex \in BOOLEAN /\ ex' \in BOOLEAN
  BY DEF S!exists
<1>1. ~ex /\ ex' /\ (\E n \in 0 .. MaxLen : text' \in [1 .. n -> Char]) => S!Promise!Create
  BY <1>0 DEF S!Promise!Create
<1>2. ASSUME NEW n \in 1 .. MaxLen, NEW other \in [1 .. n -> Char], ex, ex', text' = text \o other
      PROVE  S!Promise!Extend
  <2>1. UNCHANGED ex
    BY <1>0, <1>2
  <2> QED
    BY <1>2, <2>1 DEF S!Promise!Extend
<1>3. ASSUME NEW n \in 1 .. MaxLen, ex, ex', text' = text \o [k \in 1 .. n |-> 0]
      PROVE  S!Promise!Fill
  <2>1. UNCHANGED ex
    BY <1>0, <1>3
  <2> QED
    BY <1>3, <2>1 DEF S!Promise!Fill
<1>4. ASSUME NEW n \in 0 .. Len(text), ex, ex', text' = SubSeq(text, 1, n)
      PROVE  S!Promise!Cut
  <2>1. UNCHANGED ex
    BY <1>0, <1>4
  <2> QED
    BY <1>4, <2>1 DEF S!Promise!Cut
<1>5. ex /\ ~ex' /\ text' = <<>> => S!Promise!Destroy
  BY <1>0 DEF S!Promise!Destroy
<1> QED
  BY <1>1, <1>2, <1>3, <1>4, <1>5 DEF S!Promise!Next

\* A step of the promise, or none.
Promised == S!Promise!Next \/ UNCHANGED <<S!exists, S!Content>>

\* One step each: the invariant is kept and the promise makes a step or none.
LEMMA StepCreate ==
    ASSUME S!StringsAssumption, StringInv, S!Create
    PROVE  StringInv' /\ Promised
<1> SUFFICES ASSUME NEW s \in S!Texts(MaxLen),
                    LET room == S!Reach(InitCapacity, Len(s) + 1)
                    IN /\ capacity' = room /\ size' = Len(s)
                       /\ alive' = StructSize + room
                       /\ buf' = S!Put(S!Fresh(room), 0, Append(s, 0))
             PROVE  StringInv' /\ Promised
  BY DEF S!Create
<1>1. PICK l \in 0 .. MaxLen : s \in [1 .. l -> Char]
  BY DEF S!Texts
<1> DEFINE room == S!Reach(InitCapacity, Len(s) + 1)
           fresh == S!Fresh(room)
           end == Append(s, 0)
<1>2. /\ l \in Nat /\ s \in Seq(Char) /\ Len(s) = l /\ 0 \in Char /\ DOMAIN end = 1 .. l + 1 /\ end[l + 1] = 0
      /\ \A k \in 1 .. l : end[k] = s[k]
      /\ StructSize \in Nat \ {0}
  <2>1. l \in Nat /\ 0 \in Char /\ StructSize \in Nat \ {0}
    BY DEF S!StringsAssumption
  <2>2. s \in Seq(Char) /\ Len(s) = l
    BY <1>1, <2>1
  <2> QED
    BY <2>1, <2>2
<1>3. room \in Nat /\ room >= l + 1
  <2>1. InitCapacity \in Nat \ {0} /\ Len(s) + 1 \in Nat /\ Len(s) = l
    BY <1>2 DEF S!StringsAssumption
  <2> QED
    BY <2>1, ReachIs
<1>4. DOMAIN fresh = 1 .. room /\ \A k \in 1 .. room : fresh[k] = Garbage
  BY DEF S!Fresh
<1> HIDE DEF room, fresh, end
<1>5. /\ capacity' = room /\ size' = l /\ alive' = StructSize + room
      /\ buf' = S!Put(fresh, 0, end)
  BY <1>2 DEF room, fresh, end
<1>6. /\ DOMAIN buf' = 1 .. room
      /\ \A k \in 1 .. room : buf'[k] = IF k <= l + 1 THEN end[k] ELSE Garbage
      /\ buf' = [k \in 1 .. room |-> buf'[k]]
  <2> DEFINE none == 0
             j == l + 1
             new == S!Put(fresh, none, end)
  <2>1. none \in Nat /\ j \in Nat /\ none + j <= room /\ DOMAIN end = 1 .. j /\ buf' = new
    BY <1>2, <1>3, <1>5
  <2> HIDE DEF none, j
  <2>2. /\ DOMAIN new = 1 .. room
        /\ \A k \in 1 .. room : new[k] = IF k > none /\ k <= none + j THEN end[k - none] ELSE fresh[k]
        /\ new = [k \in 1 .. room |-> new[k]]
    BY <1>3, <1>4, <2>1, PutIs
  <2> HIDE DEF new
  <2>3. \A k \in 1 .. room : k > none /\ k - none = k /\ (k <= none + j <=> k <= l + 1)
    BY <1>2, <1>3 DEF none, j
  <2> QED
    BY <1>4, <2>1, <2>2, <2>3
<1>7. alive' # 0 /\ alive' \in Nat /\ l < room
  BY <1>2, <1>3, <1>5
<1>8. S!exists'
  BY <1>7 DEF S!exists
<1>9. \A k \in 1 .. l : buf'[k] = s[k] /\ buf'[k] \in Char
  <2> SUFFICES ASSUME NEW k \in 1 .. l PROVE buf'[k] = s[k] /\ buf'[k] \in Char
    OBVIOUS
  <2>1. k \in 1 .. room /\ k <= l + 1
    BY <1>2, <1>3
  <2> QED
    BY <1>1, <1>2, <1>6, <2>1
<1>10. buf'[l + 1] = 0
  <2> DEFINE j == l + 1
  <2>1. j \in 1 .. room /\ j <= l + 1
    BY <1>2, <1>3
  <2> HIDE DEF j
  <2>2. buf'[j] = end[j]
    BY <1>6, <2>1
  <2> QED
    BY <1>2, <2>2 DEF j
<1>11. buf' \in [1 .. room -> Char \cup {Garbage}]
  <2>1. ASSUME NEW k \in 1 .. room PROVE buf'[k] \in Char \cup {Garbage}
    <3>1. CASE k <= l
      <4>1. k \in 1 .. l
        BY <1>2, <3>1
      <4> QED
        BY <1>9, <4>1
    <3>2. CASE k = l + 1
      BY <1>2, <1>10, <3>2
    <3>3. CASE ~(k <= l + 1)
      BY <1>6, <3>3
    <3> QED
      BY <1>2, <3>1, <3>2, <3>3
  <2> QED
    BY <1>6, <2>1
<1>12. StringInv'
  <2>1. StringTypeOK'
    BY <1>2, <1>3, <1>5, <1>7, <1>8, <1>11 DEF StringTypeOK
  <2>2. TextIsWritten'
    BY <1>5, <1>9, <1>10 DEF TextIsWritten
  <2> QED
    BY <2>1, <2>2 DEF StringInv
<1>13. S!Content' \in [1 .. l -> Char]
  <2>1. (S!exists => S!Content = TextOf /\ TextOf \in [1 .. size -> Char])'
    BY <1>12, ContentIs, PTL
  <2> QED
    BY <1>5, <1>8, <2>1
<1>14. ~S!exists
  BY DEF S!Create
<1> QED
  BY <1>8, <1>12, <1>13, <1>14, PromiseActions DEF Promised

\* A store that fits the buffer, or that has made it larger.
LEMMA StepStore ==
    ASSUME S!StringsAssumption, StringInv, S!exists, NEW l \in Nat, l <= MaxLen, NEW s \in [1 .. l -> Char],
           NEW required \in Nat, required >= l + 1, S!StoreAtEnd(s, required)
    PROVE  StringInv' /\ Promised
<1>1. StringInv' /\ S!exists' /\ S!Content' = S!Content \o s
  BY StoreKeeps
<1>2. CASE l = 0
  <2>1. s = <<>>
    BY <1>2
  <2>2. S!Content \in Seq(Char)
    BY ContentIs
  <2>3. S!Content' = S!Content
    BY <1>1, <2>1, <2>2
  <2>4. S!exists' = S!exists
    BY <1>1 DEF S!exists
  <2> QED
    BY <1>1, <2>3, <2>4 DEF Promised
<1>3. CASE l # 0
  <2>1. l \in 1 .. MaxLen
    BY <1>3 DEF S!StringsAssumption
  <2> QED
    BY <1>1, <2>1, PromiseActions DEF Promised
<1> QED
  BY <1>2, <1>3

\* A call that fails leaves the string as it was.
LEMMA StepFails ==
    ASSUME StringInv, UNCHANGED stringVars
    PROVE  StringInv' /\ Promised
BY DEF stringVars, StringInv, StringTypeOK, TextIsWritten, Promised, S!exists, S!Content

\* Appending n characters.
LEMMA StepAppendN ==
    ASSUME S!StringsAssumption, StringInv, S!AppendN
    PROVE  StringInv' /\ Promised
<1>1. S!exists /\ size \in Nat /\ MaxLen \in Nat
  BY DEF S!AppendN, StringInv, StringTypeOK, S!StringsAssumption
<1>2. PICK s \in S!Texts(MaxLen - size) : S!StoreAtEnd(s, Len(s) + 1) \/ S!Fails(Len(s) + 1)
  BY DEF S!AppendN
<1>3. PICK l \in 0 .. MaxLen - size : s \in [1 .. l -> Char]
  BY DEF S!Texts
<1>4. CASE S!StoreAtEnd(s, Len(s) + 1)
  <2> DEFINE required == Len(s) + 1
  <2>1. l \in Nat /\ l <= MaxLen
    BY <1>1
  <2>2. Len(s) = l
    BY <1>3, <2>1
  <2>3. required \in Nat /\ required >= l + 1
    BY <2>1, <2>2
  <2> HIDE DEF required
  <2>4. S!StoreAtEnd(s, required)
    BY <1>4 DEF required
  <2> QED
    BY <1>1, <1>3, <2>1, <2>3, <2>4, StepStore
<1>5. CASE S!Fails(Len(s) + 1)
  <2>1. UNCHANGED stringVars
    BY <1>5 DEF S!Fails, S!vars, stringVars
  <2> QED
    BY <2>1, StepFails
<1> QED
  BY <1>2, <1>4, <1>5

\* Appending the string to itself, after what the caller has given up.
LEMMA StepAppendSelf ==
    ASSUME S!StringsAssumption, StringInv, SelfAppend = FALSE, S!AppendSelf
    PROVE  StringInv' /\ Promised
<1> DEFINE s == SubSeq(buf, 1, size)
           required == size + 1
<1>1. S!exists /\ size \in Nat /\ 2 * size <= MaxLen /\ S!StoreAtEnd(s, required)
  BY DEF S!AppendSelf, StringInv, StringTypeOK
<1>2. s \in [1 .. size -> Char]
  <2>1. S!Content = TextOf /\ TextOf \in [1 .. size -> Char]
    BY <1>1, ContentIs
  <2>2. S!Content = s
    <3>1. DOMAIN buf = 1 .. capacity /\ size < capacity /\ buf[size + 1] = 0
      BY <1>1 DEF StringInv, StringTypeOK, TextIsWritten
    <3> QED
      BY <1>1, <3>1 DEF S!Content
  <2> HIDE DEF s
  <2> QED
    BY <2>1, <2>2
<1>3. required \in Nat /\ required >= size + 1 /\ size <= MaxLen
  <2>1. MaxLen \in Nat
    BY DEF S!StringsAssumption
  <2> QED
    BY <1>1, <2>1
<1> HIDE DEF s, required
<1> QED
  BY <1>1, <1>2, <1>3, StepStore

\* Cutting the text.
LEMMA StepShrink ==
    ASSUME S!StringsAssumption, StringInv, S!Shrink
    PROVE  StringInv' /\ Promised
<1>1. PICK len \in 0 .. size - 1 : /\ S!exists
                                   /\ size' = len /\ buf' = [buf EXCEPT ![len + 1] = 0]
                                   /\ UNCHANGED <<capacity, alive>>
  BY DEF S!Shrink
<1>2. /\ size \in Nat /\ capacity \in Nat /\ alive \in Nat /\ alive = StructSize + capacity /\ size < capacity
      /\ buf \in [1 .. capacity -> Char \cup {Garbage}] /\ \A k \in 1 .. size : buf[k] \in Char
      /\ 0 \in Char
  BY <1>1 DEF StringInv, StringTypeOK, TextIsWritten, S!StringsAssumption
<1>3. len \in Nat /\ len < size /\ len + 1 \in 1 .. capacity /\ len < capacity
  BY <1>2
<1>4. /\ buf' \in [1 .. capacity -> Char \cup {Garbage}] /\ buf'[len + 1] = 0
      /\ \A k \in 1 .. len : buf'[k] = buf[k]
  <2> DEFINE j == len + 1
             new == [buf EXCEPT ![j] = 0]
  <2>1. j \in 1 .. capacity /\ buf' = new /\ \A k \in 1 .. len : k # j /\ k \in 1 .. capacity
    BY <1>1, <1>2, <1>3
  <2> HIDE DEF j
  <2>2. new \in [1 .. capacity -> Char \cup {Garbage}] /\ new[j] = 0 /\ \A k \in 1 .. len : new[k] = buf[k]
    BY <1>2, <2>1
  <2> QED
    BY <2>1, <2>2 DEF j
<1>5. S!exists'
  BY <1>1 DEF S!exists
<1>6. StringInv'
  <2>1. StringTypeOK'
    BY <1>1, <1>2, <1>3, <1>4, <1>5 DEF StringTypeOK
  <2>2. \A k \in 1 .. len : k \in 1 .. size
    BY <1>2, <1>3
  <2>3. TextIsWritten'
    BY <1>1, <1>2, <1>4, <2>2 DEF TextIsWritten
  <2> QED
    BY <2>1, <2>3 DEF StringInv
<1>7. S!Content' = SubSeq(S!Content, 1, len)
  <2>1. S!Content = TextOf /\ TextOf \in Seq(Char) /\ Len(TextOf) = size
    BY <1>1, ContentIs
  <2>2. (S!exists => /\ S!Content = TextOf /\ TextOf \in Seq(Char) /\ Len(TextOf) = size)'
    BY <1>6, ContentIs, PTL
  <2> DEFINE new == S!Content'
             text == S!Content
             sub == SubSeq(text, 1, len)
  <2>3. new \in Seq(Char) /\ Len(new) = len /\ \A k \in 1 .. len : new[k] = buf'[k]
    BY <1>1, <1>5, <2>2 DEF TextOf
  <2>4. text \in Seq(Char) /\ Len(text) = size /\ \A k \in 1 .. size : text[k] = buf[k]
    BY <2>1 DEF TextOf
  <2> HIDE DEF new, text
  <2>5. sub \in Seq(Char) /\ Len(sub) = len /\ \A k \in 1 .. len : sub[k] = text[k]
    <3>1. \A k \in 1 .. len : text[k] \in Char
      BY <1>2, <1>3, <2>4
    <3>2. /\ sub \in Seq(Char) /\ Len(sub) = IF 1 <= len THEN len - 1 + 1 ELSE 0
          /\ \A k \in 1 .. len - 1 + 1 : sub[k] = text[1 + k - 1]
      BY <1>3, <3>1, SubSeqProperties
    <3> HIDE DEF sub
    <3>3. len - 1 + 1 = len /\ (~(1 <= len) => len = 0) /\ \A k \in 1 .. len : 1 + k - 1 = k
      BY <1>3
    <3>4. Len(sub) = len
      BY <3>2, <3>3
    <3>5. \A k \in 1 .. len : sub[k] = text[k]
      BY <3>2, <3>3
    <3> QED
      BY <3>2, <3>4, <3>5
  <2> HIDE DEF sub
  <2>6. \A k \in 1 .. len : new[k] = sub[k]
    <3>1. \A k \in 1 .. len : k \in 1 .. size
      BY <1>2, <1>3
    <3> QED
      BY <1>4, <2>3, <2>4, <2>5, <3>1
  <2>7. new = sub
    BY <2>3, <2>5, <2>6, SeqEqual
  <2> QED
    BY <2>7 DEF new, sub, text
<1>8. len \in 0 .. Len(S!Content)
  <2>1. Len(S!Content) = size
    BY <1>1, ContentIs
  <2> QED
    BY <1>2, <1>3, <2>1
<1> QED
  BY <1>1, <1>5, <1>6, <1>7, <1>8, PromiseActions DEF Promised

\* Filling it up with zeros.
LEMMA StepExtend ==
    ASSUME S!StringsAssumption, StringInv, S!Extend
    PROVE  StringInv' /\ Promised
<1>1. PICK len \in size + 1 .. MaxLen :
           /\ S!exists
           /\ S!StoreAtEnd([k \in 1 .. len - size |-> 0], len + 1) \/ S!Fails(len + 1)
  BY DEF S!Extend
<1>2. size \in Nat /\ MaxLen \in Nat /\ 0 \in Char
  BY DEF StringInv, StringTypeOK, S!StringsAssumption
<1>3. CASE S!StoreAtEnd([k \in 1 .. len - size |-> 0], len + 1)
  <2> DEFINE l == len - size
             s == [k \in 1 .. l |-> 0]
             required == len + 1
  <2>1. l \in Nat /\ l <= MaxLen /\ required \in Nat /\ required >= l + 1
    BY <1>2
  <2> HIDE DEF l, required
  <2>2. s \in [1 .. l -> Char]
    BY <1>2
  <2>3. S!StoreAtEnd(s, required)
    BY <1>3 DEF l, required
  <2> HIDE DEF s
  <2> QED
    BY <1>1, <2>1, <2>2, <2>3, StepStore
<1>4. CASE S!Fails(len + 1)
  <2>1. UNCHANGED stringVars
    BY <1>4 DEF S!Fails, S!vars, stringVars
  <2> QED
    BY <2>1, StepFails
<1> QED
  BY <1>1, <1>3, <1>4

\* The end of the string.
LEMMA StepDestroy ==
    ASSUME S!StringsAssumption, StringInv, S!Destroy
    PROVE  StringInv' /\ Promised
<1>1. /\ S!exists /\ size' = 0 /\ capacity' = 0 /\ buf' = <<>> /\ alive' = alive - capacity - StructSize
      /\ alive = StructSize + capacity /\ capacity \in Nat /\ StructSize \in Nat
  BY DEF S!Destroy, StringInv, StringTypeOK, S!StringsAssumption
<1>2. alive' = 0
  BY <1>1
<1>3. ~S!exists'
  BY <1>2 DEF S!exists
<1>4. StringInv'
  BY <1>1, <1>2, <1>3 DEF StringInv, StringTypeOK, TextIsWritten
<1>5. S!Content' = <<>>
  BY <1>3 DEF S!Content
<1> QED
  BY <1>1, <1>3, <1>4, <1>5, PromiseActions DEF Promised

\* Every step of Library keeps the invariant and the promise.
LEMMA NextStringInv ==
    SelfAppend = FALSE /\ StringInv /\ [Next]_vars => StringInv' /\ Promised
<1> SUFFICES ASSUME SelfAppend = FALSE, StringInv, [Next]_vars PROVE StringInv' /\ Promised
  OBVIOUS
<1>1. S!StringsAssumption
  BY LibraryAssumption
<1>2. CASE S!CreateFails
  <2>1. UNCHANGED stringVars
    BY <1>2 DEF S!CreateFails, S!vars, stringVars
  <2> QED
    BY <2>1, StepFails
<1>3. CASE UNCHANGED stringVars
  BY <1>3, StepFails
<1> QED
  BY <1>1, <1>2, <1>3, StepCreate, StepAppendN, StepAppendSelf, StepShrink, StepExtend, StepDestroy,
     StepsOfParts DEF S!Next

\* As long as no string is appended to itself while it has to grow, a string
\* does what StringSpec promises, with any text and any failure of realloc.
THEOREM StringsKeepPromise == SelfAppend = FALSE /\ Spec => ImplementsString
<1>1. Init => StringInv /\ S!Promise!Init
  <2> SUFFICES ASSUME Init PROVE StringInv /\ S!Promise!Init
    OBVIOUS
  <2>1. size = 0 /\ capacity = 0 /\ buf = <<>> /\ alive = 0
    BY DEF Init, S!Init
  <2>2. ~S!exists /\ S!exists = FALSE
    BY <2>1 DEF S!exists
  <2>3. StringInv
    BY <2>1, <2>2 DEF StringInv, StringTypeOK, TextIsWritten
  <2>4. S!Content = <<>>
    BY <2>2 DEF S!Content
  <2> QED
    BY <2>2, <2>3, <2>4 DEF S!Promise!Init
<1>2. SelfAppend = FALSE /\ StringInv /\ [Next]_vars => StringInv'
  BY NextStringInv
<1>3. SelfAppend = FALSE /\ StringInv /\ [Next]_vars => [S!Promise!Next]_<<S!exists, S!Content>>
  BY NextStringInv DEF Promised
<1>4. CASE SelfAppend = FALSE
  BY <1>1, <1>2, <1>3, <1>4, PTL DEF Spec, ImplementsString, S!ImplementsString, S!Promise!Spec
<1> QED
  BY <1>4

-----------------------------------------------------------------------------
(***************************************************************************)
(* The SHA-256 stream.  IsContext(c, m) says that c is what the code has   *)
(* of the message m: full blocks in state, the rest in data, the length of *)
(* the full blocks in bitlen.  Taking a byte keeps it, so by induction     *)
(* along the bytes an update does; and the digest that is dumped from such *)
(* a context is that of the padded message.                                *)
(***************************************************************************)

\* The last byte's weight and those of the bytes before it are not 0.
Powers(h, n) == h = [k \in 0 .. n |-> IF k = 0 THEN 1 ELSE 256 * h[k - 1]]

\* The powers of 256 are defined by recursion.
LEMMA PowersExist ==
    ASSUME NEW n \in Nat
    PROVE  \E h : Powers(h, n)
<1> DEFINE good == {k \in Nat : \E h : Powers(h, k)}
<1>1. 0 \in good
  <2> DEFINE h == [k \in 0 .. 0 |-> 1]
  <2>1. Powers(h, 0)
    BY DEF Powers
  <2> QED
    BY <2>1
<1>2. ASSUME NEW k \in Nat, k \in good PROVE k + 1 \in good
  <2>1. PICK h : Powers(h, k)
    BY <1>2
  <2> DEFINE g == [m \in 0 .. k + 1 |-> IF m = k + 1 THEN 256 * h[k] ELSE h[m]]
  <2>2. ASSUME NEW m \in 0 .. k + 1 PROVE g[m] = IF m = 0 THEN 1 ELSE 256 * g[m - 1]
    <3>1. CASE m = k + 1
      <4>1. g[m - 1] = h[k] /\ m # 0 /\ g[m] = 256 * h[k]
        BY <3>1
      <4> HIDE DEF g
      <4> QED
        BY <4>1
    <3>2. CASE m # k + 1
      <4>1. m \in 0 .. k /\ g[m] = h[m] /\ (m # 0 => m - 1 \in 0 .. k + 1 /\ m - 1 # k + 1 /\ g[m - 1] = h[m - 1])
        BY <3>2
      <4>2. h[m] = IF m = 0 THEN 1 ELSE 256 * h[m - 1]
        BY <2>1, <4>1 DEF Powers
      <4> HIDE DEF g
      <4> QED
        BY <4>1, <4>2
    <3> QED
      BY <3>1, <3>2
  <2>3. g = [m \in 0 .. k + 1 |-> g[m]]
    OBVIOUS
  <2> HIDE DEF g
  <2>4. Powers(g, k + 1)
    BY <2>2, <2>3 DEF Powers
  <2> QED
    BY <2>4
<1> HIDE DEF good
<1>3. n \in good
  BY <1>1, <1>2, SetInduction
<1> QED
  BY <1>3 DEF good

\* They are positive.
LEMMA PowerPositive == H!Sha256Assumption => H!Power256[LengthBytes] \in Nat \ {0}
<1> SUFFICES ASSUME H!Sha256Assumption PROVE H!Power256[LengthBytes] \in Nat \ {0}
  OBVIOUS
<1> DEFINE h == H!Power256
           n == LengthBytes
<1>1. n \in Nat
  BY DEF H!Sha256Assumption
<1>2. Powers(h, n)
  <2>1. \E g : g = [k \in 0 .. n |-> IF k = 0 THEN 1 ELSE 256 * g[k - 1]]
    BY <1>1, PowersExist DEF Powers
  <2> QED
    BY <2>1 DEF H!Power256, Powers
<1> DEFINE good == {k \in Nat : k \in 0 .. n => h[k] \in Nat \ {0}}
<1> HIDE DEF h
<1>3. \A k \in 0 .. n : h[k] = IF k = 0 THEN 1 ELSE 256 * h[k - 1]
  BY <1>2 DEF Powers
<1>4. 0 \in good
  BY <1>1, <1>3
<1>5. ASSUME NEW k \in Nat, k \in good PROVE k + 1 \in good
  <2> SUFFICES ASSUME k + 1 \in 0 .. n PROVE h[k + 1] \in Nat \ {0}
    OBVIOUS
  <2>1. h[k] \in Nat \ {0}
    BY <1>1, <1>5
  <2>2. h[k + 1] = 256 * h[k]
    <3>1. k + 1 # 0 /\ k + 1 - 1 = k
      OBVIOUS
    <3> QED
      BY <1>3, <3>1
  <2> QED
    BY <2>1, <2>2
<1> HIDE DEF good
<1>6. n \in good
  BY <1>1, <1>4, <1>5, SetInduction
<1> QED
  BY <1>1, <1>6 DEF good, h

\* A remainder can be taken before an addition.
LEMMA RemainderOfSum ==
    ASSUME NEW w \in Nat \ {0}, NEW x \in Nat, NEW y \in Nat
    PROVE  ((x % w) + y) % w = (x + y) % w
<1>1. PICK q1 \in Nat, r1 \in 0 .. w - 1 : x = w * q1 + r1 /\ x % w = r1
  BY Remainder
<1> DEFINE z == r1 + y
<1>2. z \in Nat
  OBVIOUS
<1> HIDE DEF z
<1>3. PICK q2 \in Nat, r2 \in 0 .. w - 1 : z = w * q2 + r2 /\ z % w = r2
  BY <1>2, Remainder
<1> DEFINE q == q1 + q2
           s == x + y
<1>4. s = w * q + r2
  <2>1. w * (q1 + q2) = w * q1 + w * q2
    OBVIOUS
  <2> QED
    BY <1>1, <1>3, <2>1 DEF z
<1>5. s \in Nat /\ q \in Nat
  OBVIOUS
<1> HIDE DEF s, q
<1>6. s % w = r2
  BY <1>4, <1>5, RemainderIs
<1> QED
  BY <1>1, <1>3, <1>6, Zenon DEF z, s

\* So bitlen, kept in a word, is the length of the message in a word.
LEMMA WordOfSum ==
    ASSUME H!Sha256Assumption, NEW x \in Nat, NEW y \in Nat
    PROVE  H!WordOf(H!WordOf(x) + y) = H!WordOf(x + y)
BY PowerPositive, RemainderOfSum DEF H!WordOf

\* A word is a number.
LEMMA WordIsNat ==
    ASSUME H!Sha256Assumption, NEW x \in Nat
    PROVE  H!WordOf(x) \in Nat
<1>1. PICK q \in Nat, rest \in 0 .. H!Power256[LengthBytes] - 1 : x % H!Power256[LengthBytes] = rest
  BY PowerPositive, Remainder
<1>2. rest \in Nat
  BY PowerPositive
<1> QED
  BY <1>1, <1>2 DEF H!WordOf

\* The word of zero.
LEMMA WordOfZero == H!Sha256Assumption => H!WordOf(0) = 0
<1> SUFFICES ASSUME H!Sha256Assumption PROVE H!WordOf(0) = 0
  OBVIOUS
<1> DEFINE w == H!Power256[LengthBytes]
<1>1. w \in Nat \ {0}
  BY PowerPositive
<1> HIDE DEF w
<1>2. 0 = w * 0 + 0 /\ 0 \in 0 .. w - 1
  BY <1>1
<1>3. 0 % w = 0
  BY <1>1, <1>2, RemainderIs
<1> QED
  BY <1>3 DEF H!WordOf, w

\* Places in the message.
LEMMA InBlocks ==
    ASSUME NEW w \in Nat, NEW n \in Nat, NEW q \in 0 .. n - 1, NEW k \in 1 .. w
    PROVE  w * q + k \in 1 .. w * n
<1>1. q + 1 <= n
  OBVIOUS
<1>2. w * (q + 1) <= w * n
  BY <1>1
<1>3. w * (q + 1) = w * q + w /\ w * q \in Nat
  OBVIOUS
<1> QED
  BY <1>2, <1>3

-----------------------------------------------------------------------------
\* What the buffer of a context holds: bytes, and what a fresh one has in it.
DigestBytes == Dirt \cup Bytes
\* A block.
Full == [1 .. Block -> DigestBytes]
\* The contexts of mys_sha256.
Contexts == [data : Full, datalen : 0 .. Block - 1, bitlen : Nat, state : Seq(Full)]

\* c is the context after the message m: whole blocks of m in state, the rest in data.
IsContext(c, m) ==
    /\ c \in Contexts
    /\ m \in Seq(Bytes)
    /\ Len(m) = Block * Len(c.state) + c.datalen
    /\ \A b \in 1 .. Len(c.state), q \in Nat, k \in 1 .. Block :
          q = b - 1 => c.state[b][k] = m[Block * q + k]
    /\ \A k \in 1 .. c.datalen : c.data[k] = m[Block * Len(c.state) + k]
    /\ c.bitlen = H!WordOf(8 * (Block * Len(c.state)))

\* One byte more keeps it.
LEMMA TakeKeeps ==
    ASSUME H!Sha256Assumption, NEW c, NEW m, IsContext(c, m), NEW byte \in Bytes
    PROVE  IsContext(H!Take(c, byte), Append(m, byte))
<1> DEFINE n == Len(c.state)
           l == c.datalen
           w == Block * n
           d == [c.data EXCEPT ![l + 1] = byte]
           longer == Append(m, byte)
<1>0. Block \in Nat /\ Block # 0 /\ byte \in DigestBytes
  BY DEF H!Sha256Assumption, DigestBytes
<1>1. /\ c \in Contexts /\ c.state \in Seq(Full) /\ c.data \in Full /\ l \in 0 .. Block - 1
      /\ c.bitlen \in Nat /\ n \in Nat /\ m \in Seq(Bytes)
  BY DEF IsContext, Contexts
<1>2. w \in Nat /\ Len(m) = w + l /\ Len(m) \in Nat
  BY <1>0, <1>1 DEF IsContext
<1>3. /\ longer \in Seq(Bytes) /\ Len(longer) = w + l + 1 /\ longer[w + l + 1] = byte
      /\ \A x \in 1 .. w + l : longer[x] = m[x]
  <2> HIDE DEF w, l
  <2> QED
    BY <1>1, <1>2
<1>4. l + 1 \in 1 .. Block /\ d \in Full /\ \A k \in 1 .. Block : d[k] = IF k = l + 1 THEN byte ELSE c.data[k]
  <2>1. l + 1 \in 1 .. Block
    BY <1>0, <1>1
  <2>2. d \in Full /\ \A k \in 1 .. Block : d[k] = IF k = l + 1 THEN byte ELSE c.data[k]
    BY <1>0, <1>1, <2>1 DEF Full
  <2> QED
    BY <2>1, <2>2
<1>5. \A b \in 1 .. n, q \in Nat, k \in 1 .. Block : q = b - 1 => c.state[b][k] = longer[Block * q + k]
  <2> SUFFICES ASSUME NEW b \in 1 .. n, NEW q \in Nat, NEW k \in 1 .. Block, q = b - 1
               PROVE  c.state[b][k] = longer[Block * q + k]
    OBVIOUS
  <2>1. q \in 0 .. n - 1
    BY <1>1
  <2>2. Block * q + k \in 1 .. w
    BY <1>0, <1>1, <2>1, InBlocks
  <2>3. Block * q + k \in 1 .. w + l
    BY <1>1, <1>2, <2>2
  <2> QED
    BY <1>3, <2>3 DEF IsContext
<1>6. \A k \in 1 .. l + 1 : d[k] = longer[w + k]
  <2> SUFFICES ASSUME NEW k \in 1 .. l + 1 PROVE d[k] = longer[w + k]
    OBVIOUS
  <2>1. k \in 1 .. Block
    BY <1>0, <1>1
  <2>2. CASE k = l + 1
    <3>1. w + k = w + l + 1
      BY <1>1, <1>2, <2>2
    <3> QED
      BY <1>3, <1>4, <2>1, <2>2, <3>1
  <2>3. CASE k # l + 1
    <3>1. k \in 1 .. l /\ w + k \in 1 .. w + l
      <4> HIDE DEF w, l
      <4> QED
        BY <1>1, <1>2, <2>3
    <3>2. c.data[k] = m[w + k]
      BY <3>1 DEF IsContext
    <3> QED
      BY <1>3, <1>4, <2>1, <2>3, <3>1, <3>2
  <2> QED
    BY <2>2, <2>3
<1> HIDE DEF d, longer
<1>7. CASE l + 1 = Block
  <2> DEFINE more == Append(c.state, d)
             length == H!WordOf(c.bitlen + 8 * Block)
             new == [data |-> d, datalen |-> 0, bitlen |-> length, state |-> more]
  <2>1. H!Take(c, byte) = new
    BY <1>7 DEF H!Take, d
  <2>2. more \in Seq(Full) /\ Len(more) = n + 1 /\ more[n + 1] = d /\ \A b \in 1 .. n : more[b] = c.state[b]
    BY <1>1, <1>4
  <2>3. length = H!WordOf(8 * (Block * (n + 1)))
    <3>1. c.bitlen = H!WordOf(8 * w)
      BY DEF IsContext
    <3>2. 8 * w \in Nat /\ 8 * Block \in Nat
      BY <1>0, <1>2
    <3>3. H!WordOf(H!WordOf(8 * w) + 8 * Block) = H!WordOf(8 * w + 8 * Block)
      BY <3>2, WordOfSum
    <3>4. Block * (n + 1) = w + Block
      BY <1>0, <1>1, Times
    <3> HIDE DEF w
    <3>5. 8 * w + 8 * Block = 8 * (Block * (n + 1))
      BY <1>0, <1>2, <3>4
    <3> QED
      BY <3>1, <3>3, <3>5
  <2>4. length \in Nat
    <3>1. Block * (n + 1) \in Nat
      BY <1>0, <1>1
    <3>2. 8 * (Block * (n + 1)) \in Nat
      BY <3>1
    <3> QED
      BY <2>3, <3>2, WordIsNat
  <2>5. Block * (n + 1) = w + l + 1 /\ Block * (n + 1) = w + Block
    <3>1. Block * (n + 1) = w + Block
      BY <1>0, <1>1, Times
    <3> HIDE DEF w, l
    <3> QED
      BY <1>0, <1>1, <1>2, <1>7, <3>1
  <2>6. \A b \in 1 .. n + 1, q \in Nat, k \in 1 .. Block : q = b - 1 => more[b][k] = longer[Block * q + k]
    <3> SUFFICES ASSUME NEW b \in 1 .. n + 1, NEW q \in Nat, NEW k \in 1 .. Block, q = b - 1
                 PROVE  more[b][k] = longer[Block * q + k]
      OBVIOUS
    <3>1. CASE b = n + 1
      <4>1. q = n
        BY <1>1, <3>1
      <4>2. more[b] = d
        BY <2>2, <3>1
      <4>3. d[k] = longer[w + k]
        BY <1>6, <1>7
      <4> QED
        BY <4>1, <4>2, <4>3
    <3>2. CASE b # n + 1
      <4>1. b \in 1 .. n
        BY <1>1, <3>2
      <4> QED
        BY <1>5, <2>2, <4>1
    <3> QED
      BY <3>1, <3>2
  <2> HIDE DEF more, length, w, l
  <2>7. new \in Contexts /\ new.state = more /\ new.datalen = 0 /\ new.bitlen = length /\ new.data = d
    <3>1. 0 \in 0 .. Block - 1
      BY <1>0
    <3> QED
      BY <1>4, <2>2, <2>4, <3>1 DEF Contexts
  <2>8. Len(longer) = Block * (n + 1) + 0
    BY <1>2, <1>3, <2>5, <1>1, <1>0
  <2> HIDE DEF new, n
  <2>9. IsContext(new, longer)
    <3>1. Len(new.state) = n + 1
      BY <2>2, <2>7
    <3>2. \A k \in 1 .. 0 : d[k] = longer[Block * (n + 1) + k]
      OBVIOUS
    <3> QED
      BY <1>3, <2>3, <2>6, <2>7, <2>8, <3>1, <3>2 DEF IsContext
  <2> QED
    BY <2>1, <2>9 DEF longer
<1>8. CASE l + 1 # Block
  <2> DEFINE c1 == [c EXCEPT !.data = d]
             new == [c1 EXCEPT !.datalen = @ + 1]
  <2>1. H!Take(c, byte) = new
    BY <1>8 DEF H!Take, d
  <2>2. c1 \in Contexts /\ c1.data = d /\ c1.datalen = l /\ c1.bitlen = c.bitlen /\ c1.state = c.state
    BY <1>1, <1>4 DEF Contexts
  <2> HIDE DEF c1
  <2>3. l + 1 \in 0 .. Block - 1
    BY <1>0, <1>1, <1>8
  <2>4. new \in Contexts /\ new.data = d /\ new.datalen = l + 1 /\ new.bitlen = c.bitlen /\ new.state = c.state
    <3> HIDE DEF l
    <3> QED
      BY <2>2, <2>3 DEF Contexts
  <2> HIDE DEF new
  <2>5. Len(longer) = Block * n + (l + 1)
    BY <1>1, <1>2, <1>3
  <2>6. c.bitlen = H!WordOf(8 * (Block * n))
    BY DEF IsContext
  <2>7. IsContext(new, longer)
    <3>1. Len(new.state) = n
      BY <2>4
    <3> HIDE DEF n, l
    <3>2. \A b \in 1 .. n, q \in Nat, k \in 1 .. Block : q = b - 1 => new.state[b][k] = longer[Block * q + k]
      BY <1>5, <2>4
    <3>3. \A k \in 1 .. l + 1 : new.data[k] = longer[Block * n + k]
      BY <1>6, <2>4
    <3> QED
      BY <1>3, <2>4, <2>5, <2>6, <3>1, <3>2, <3>3 DEF IsContext
  <2> QED
    BY <2>1, <2>7 DEF longer
<1> QED
  BY <1>7, <1>8

\* The first k elements of s.
Prefix(s, k) == [b \in 1 .. k |-> s[b]]

\* The first k bytes of an update.
LEMMA PieceGrows ==
    ASSUME NEW n \in Nat, NEW bytes \in [1 .. n -> Bytes], NEW m \in Seq(Bytes), NEW k \in Nat, k + 1 \in 1 .. n
    PROVE  m \o Prefix(bytes, k + 1) = Append(m \o Prefix(bytes, k), bytes[k + 1])
<1> DEFINE j == k + 1
           u == Prefix(bytes, k)
           v == Prefix(bytes, j)
           e == bytes[j]
<1>1. j \in 1 .. n /\ j = k + 1 /\ e \in Bytes
  OBVIOUS
<1>2. u \in Seq(Bytes) /\ v = Append(u, e)
  <2>1. \A y \in 1 .. j : bytes[y] \in Bytes
    BY <1>1
  <2>2. u = [y \in 1 .. k |-> bytes[y]] /\ v = [y \in 1 .. j |-> bytes[y]]
    BY DEF Prefix
  <2> HIDE DEF j, u, v
  <2>3. u \in Seq(Bytes) /\ v \in Seq(Bytes) /\ Len(u) = k /\ Len(v) = j
    BY <1>1, <2>1, <2>2
  <2>4. \A y \in 1 .. j : v[y] = IF y = j THEN e ELSE u[y]
    BY <1>1, <2>2
  <2> HIDE DEF e
  <2>5. Append(u, e) \in Seq(Bytes) /\ Len(Append(u, e)) = Len(v)
    BY <1>1, <2>3
  <2>6. \A y \in 1 .. Len(v) : v[y] = Append(u, e)[y]
    BY <1>1, <2>3, <2>4
  <2> QED
    BY <2>3, <2>5, <2>6, SeqEqual
<1> HIDE DEF u, v, e
<1>3. Extends(m \o Append(u, e), m \o u, e)
  BY <1>1, <1>2, ConcatAppend
<1>4. m \o v = Append(m \o u, e)
  BY <1>2, <1>3 DEF Extends
<1> QED
  BY <1>4 DEF u, v, e, j

\* The context after the loop of mys_sha256_update.
Fed(bytes) ==
    LET after[n \in 0 .. Len(bytes)] == IF n = 0 THEN H!Context ELSE H!Take(after[n - 1], bytes[n])
    IN after[Len(bytes)]

\* An update, which takes the bytes one by one, keeps it too.
LEMMA UpdateKeeps ==
    ASSUME H!Sha256Assumption, NEW n \in Nat, NEW bytes \in [1 .. n -> Bytes], IsContext(H!Context, message)
    PROVE  IsContext(Fed(bytes), message \o bytes)
<1> DEFINE op(c, byte) == H!Take(c, byte)
           base == H!Context
           Whole(k) == message \o Prefix(bytes, k)
<1> DEFINE Def(g) == [k \in 0 .. n |-> IF k = 0 THEN base ELSE op(g[k - 1], bytes[k])]
           h == CHOOSE g : g = Def(g)
<1>1. DOMAIN bytes = 1 .. n /\ Len(bytes) = n /\ message \in Seq(Bytes)
  BY DEF IsContext
<1>2. IsLeftFold(FoldLeft(op, base, bytes), op, base, bytes, n)
  <2> HIDE DEF op, base
  <2> QED
    BY <1>1, FoldLeftIsFunction
<1>3. \E g : g = Def(g)
  BY <1>2 DEF IsLeftFold
<1>4. h = Def(h)
  BY <1>3
<1>12. Fed(bytes) = h[n]
  BY <1>1 DEF Fed
<1> HIDE DEF h
<1> HIDE DEF base
<1> DEFINE good == {k \in Nat : k <= n => IsContext(h[k], Whole(k))}
<1>5. h[0] = base /\ \A k \in 0 .. n : k # 0 => h[k] = H!Take(h[k - 1], bytes[k])
  <2>1. 0 \in 0 .. n
    OBVIOUS
  <2>2. h[0] = base /\ \A k \in 0 .. n : k # 0 => h[k] = op(h[k - 1], bytes[k])
    <3> HIDE DEF op
    <3> QED
      BY <1>4, <2>1
  <2> QED
    BY <2>2
<1>6. 0 \in good
  <2>1. Prefix(bytes, 0) = <<>>
    BY DEF Prefix
  <2>2. message \o <<>> = message
    BY <1>1
  <2>3. IsContext(h[0], Whole(0))
    BY <1>5, <2>1, <2>2 DEF base
  <2> QED
    BY <2>3
<1>7. ASSUME NEW k \in Nat, k \in good PROVE k + 1 \in good
  <2> SUFFICES ASSUME k + 1 <= n PROVE IsContext(h[k + 1], Whole(k + 1))
    OBVIOUS
  <2> DEFINE j == k + 1
             x == h[k]
             m == Whole(k)
             byte == bytes[j]
  <2>1. j \in 0 .. n /\ j # 0 /\ j - 1 = k /\ k <= n /\ byte \in Bytes /\ k + 1 \in 1 .. n
    OBVIOUS
  <2>2. h[j] = H!Take(x, byte)
    BY <1>5, <2>1
  <2>3. IsContext(x, m)
    BY <1>7, <2>1
  <2>4. Whole(j) = Append(m, byte)
    BY <1>1, <2>1, PieceGrows
  <2> HIDE DEF x, m, byte, Whole, j
  <2>5. IsContext(H!Take(x, byte), Append(m, byte))
    BY <2>1, <2>3, TakeKeeps
  <2> QED
    BY <2>2, <2>4, <2>5 DEF j
<1> HIDE DEF good
<1>8. n \in good
  BY <1>6, <1>7, SetInduction
<1>9. IsContext(h[n], Whole(n))
  BY <1>8 DEF good
<1>10. Prefix(bytes, n) = bytes
  BY DEF Prefix
<1>11. IsContext(h[n], message \o bytes)
  BY <1>9, <1>10
<1> HIDE DEF op, Whole
<1> QED
  BY <1>11, <1>12, Zenon DEF base

-----------------------------------------------------------------------------
\* What the padding of a message is made of.
TextBytes == DigestBytes \cup {128, 0} \cup {H!LengthField(x)[k] : x \in Nat, k \in 1 .. LengthBytes}
\* A block of padded text.
TextBlocks == [1 .. Block -> TextBytes]
\* How many zeros pad the message m.
Zeros(m) == (Block - ((Len(m) + 1 + LengthBytes) % Block)) % Block

\* The text t is the message m, one bit, zeros, and the length of m.
IsPadded(t, m) ==
    LET u == Len(m)
        z == Zeros(m)
    IN  /\ t \in Seq(TextBytes)
        /\ Len(t) = u + 1 + z + LengthBytes
        /\ \A k \in 1 .. u : t[k] = m[k]
        /\ t[u + 1] = 128
        /\ \A k \in 1 .. z : t[u + 1 + k] = 0
        /\ \A k \in 1 .. LengthBytes : t[u + 1 + z + k] = H!LengthField(H!WordOf(8 * u))[k]

\* With them the padded message is a whole number of blocks.
LEMMA PaddingIs ==
    ASSUME H!Sha256Assumption, NEW m \in Seq(Bytes), Zeros(m) \in Nat
    PROVE  IsPadded(H!Padding(m), m)
<1> DEFINE u == Len(m)
           z == Zeros(m)
           x == H!WordOf(8 * u)
           bit == <<128>>
           zs == [k \in 1 .. z |-> 0]
           ls == H!LengthField(x)
           t1 == m \o bit
           t2 == t1 \o zs
           t3 == t2 \o ls
<1>1. u \in Nat /\ LengthBytes \in Nat /\ x \in Nat
  <2>1. u \in Nat
    OBVIOUS
  <2>2. 8 * u \in Nat
    BY <2>1
  <2> QED
    BY <2>1, <2>2, WordIsNat DEF H!Sha256Assumption
<1>2. H!Padding(m) = t3
  BY DEF H!Padding, Zeros
<1>3. m \in Seq(TextBytes) /\ bit \in Seq(TextBytes) /\ Len(bit) = 1 /\ bit[1] = 128
  <2>1. 128 \in TextBytes /\ Bytes \subseteq TextBytes
    BY DEF TextBytes, DigestBytes
  <2> QED
    BY <2>1
<1>4. zs \in Seq(TextBytes) /\ Len(zs) = z /\ \A k \in 1 .. z : zs[k] = 0
  <2>1. 0 \in TextBytes
    BY DEF TextBytes
  <2> HIDE DEF z
  <2> QED
    BY <2>1 DEF z
<1>5. ls \in Seq(TextBytes) /\ Len(ls) = LengthBytes
  <2>1. \A k \in 1 .. LengthBytes : ls[k] \in TextBytes
    BY <1>1 DEF TextBytes
  <2>2. DOMAIN ls = 1 .. LengthBytes /\ ls = [k \in 1 .. LengthBytes |-> ls[k]]
    BY DEF H!LengthField
  <2> HIDE DEF ls
  <2> QED
    BY <1>1, <2>1, <2>2
<1> HIDE DEF bit, zs, ls, z, x
<1>6. /\ t1 \in Seq(TextBytes) /\ Len(t1) = u + 1 /\ t1[u + 1] = 128
      /\ \A k \in 1 .. u : t1[k] = m[k]
  <2>1. /\ t1 \in Seq(TextBytes) /\ Len(t1) = u + 1
        /\ \A k \in 1 .. u + 1 : t1[k] = IF k <= u THEN m[k] ELSE bit[k - u]
    BY <1>3, ConcatProperties
  <2> HIDE DEF t1
  <2>2. u + 1 \in 1 .. u + 1 /\ ~(u + 1 <= u) /\ u + 1 - u = 1
    BY <1>1
  <2>3. t1[u + 1] = bit[1]
    BY <2>1, <2>2
  <2>4. \A k \in 1 .. u : k \in 1 .. u + 1 /\ k <= u
    BY <1>1
  <2> QED
    BY <1>3, <2>1, <2>3, <2>4
<1> HIDE DEF t1, u
<1>7. /\ t2 \in Seq(TextBytes) /\ Len(t2) = u + 1 + z
      /\ \A k \in 1 .. u + 1 : t2[k] = t1[k]
      /\ \A k \in 1 .. z : t2[u + 1 + k] = 0
  <2>1. Follows(t2, t1, zs, u + 1, z, TextBytes)
    BY <1>4, <1>6, ConcatFollows
  <2> HIDE DEF t2
  <2> QED
    BY <1>4, <2>1 DEF Follows
<1> HIDE DEF t2
<1>8. /\ t3 \in Seq(TextBytes) /\ Len(t3) = u + 1 + z + LengthBytes
      /\ \A k \in 1 .. u + 1 + z : t3[k] = t2[k]
      /\ \A k \in 1 .. LengthBytes : t3[u + 1 + z + k] = ls[k]
  <2>1. Follows(t3, t2, ls, u + 1 + z, LengthBytes, TextBytes)
    BY <1>5, <1>7, ConcatFollows
  <2> HIDE DEF t3
  <2> QED
    BY <2>1 DEF Follows
<1> HIDE DEF t3
<1>9. z \in Nat
  BY DEF z
<1>10. \A k \in 1 .. u : t3[k] = m[k]
  <2>1. \A k \in 1 .. u : k \in 1 .. u + 1 /\ k \in 1 .. u + 1 + z
    BY <1>1, <1>9
  <2> QED
    BY <1>6, <1>7, <1>8, <2>1
<1>11. t3[u + 1] = 128
  <2>1. u + 1 \in 1 .. u + 1 /\ u + 1 \in 1 .. u + 1 + z
    BY <1>1, <1>9
  <2> QED
    BY <1>6, <1>7, <1>8, <2>1
<1>12. \A k \in 1 .. z : t3[u + 1 + k] = 0
  <2>1. \A k \in 1 .. z : u + 1 + k \in 1 .. u + 1 + z
    BY <1>1, <1>9
  <2> QED
    BY <1>7, <1>8, <2>1
<1>13. IsPadded(t3, m)
  BY <1>8, <1>10, <1>11, <1>12 DEF IsPadded, u, z, ls, x
<1> QED
  BY <1>2, <1>13

\* How many zeros there are: the text ends in the block where the message does
\* or, when the length does not fit there, in the next one.
LEMMA ZerosAre ==
    ASSUME H!Sha256Assumption, NEW m, NEW n \in Nat, NEW l \in 0 .. Block - 1, Len(m) = Block * n + l
    PROVE  Zeros(m) = IF l + LengthBytes < Block THEN Block - (l + 1 + LengthBytes)
                      ELSE 2 * Block - (l + 1 + LengthBytes)
<1> DEFINE w == Block * n
           used == Len(m) + 1 + LengthBytes
           l1 == l + 1 + LengthBytes
           rest == used % Block
           more == n + 1
<1>1. Block \in Nat \ {0} /\ LengthBytes \in Nat \ {0} /\ LengthBytes < Block
  BY DEF H!Sha256Assumption
<1>2. w \in Nat /\ Block * (n + 1) = w + Block
  BY <1>1, Times
<1>3. used = w + l1 /\ l1 \in Nat /\ used \in Nat
  <2> HIDE DEF w
  <2> QED
    BY <1>1, <1>2 DEF w
<1>4. CASE l1 < Block
  <2>1. l1 \in 0 .. Block - 1
    <3> HIDE DEF l1
    <3> QED
      BY <1>1, <1>3, <1>4
  <2>2. rest = l1
    <3> HIDE DEF used, l1
    <3> QED
      BY <1>1, <1>3, <2>1, RemainderIs
  <2> DEFINE y == Block - l1
  <2>3. y \in 0 .. Block - 1 /\ y = Block * 0 + y /\ y \in Nat /\ 0 \in Nat
    BY <1>1, <1>3, <1>4
  <2> HIDE DEF y
  <2>4. y % Block = y
    BY <1>1, <2>3, RemainderIs
  <2>5. Zeros(m) = y
    BY <2>2, <2>4 DEF Zeros, y
  <2>6. l + LengthBytes < Block
    BY <1>1, <1>4
  <2> QED
    BY <2>5, <2>6 DEF y
<1>5. CASE l1 = Block
  <2>1. used = Block * more + 0 /\ 0 \in 0 .. Block - 1 /\ more \in Nat
    <3> HIDE DEF w, l1, used
    <3> QED
      BY <1>1, <1>2, <1>3, <1>5
  <2>2. rest = 0
    <3> HIDE DEF used, more
    <3> QED
      BY <1>1, <1>3, <2>1, RemainderIs
  <2>3. Block = Block * 1 + 0 /\ 1 \in Nat /\ Block \in Nat
    BY <1>1
  <2>4. Block % Block = 0
    BY <1>1, <2>1, <2>3, RemainderIs
  <2>5. Block - 0 = Block
    BY <1>1
  <2>6. Zeros(m) = 0
    BY <2>2, <2>4, <2>5 DEF Zeros
  <2>7. l + LengthBytes < Block /\ Block - l1 = 0
    BY <1>1, <1>5
  <2> QED
    BY <2>6, <2>7
<1>6. CASE l1 > Block
  <2> DEFINE r1 == l1 - Block
             y == Block - r1
  <2>1. used = Block * more + r1 /\ r1 \in 0 .. Block - 1 /\ more \in Nat
    <3>1. r1 \in 0 .. Block - 1
      BY <1>1, <1>6
    <3> HIDE DEF w, l1, used
    <3>2. used = w + Block + r1
      BY <1>1, <1>2, <1>3
    <3> QED
      BY <1>2, <3>1, <3>2
  <2>2. rest = r1
    <3> HIDE DEF used, more, r1
    <3> QED
      BY <1>1, <1>3, <2>1, RemainderIs
  <2>3. y \in 0 .. Block - 1 /\ y = Block * 0 + y /\ y \in Nat /\ 0 \in Nat
    BY <1>1, <1>3, <1>6
  <2>4. y = 2 * Block - (l + 1 + LengthBytes)
    BY <1>1
  <2>5. ~(l + LengthBytes < Block)
    BY <1>1, <1>6
  <2> HIDE DEF y
  <2>6. y % Block = y
    BY <1>1, <2>3, RemainderIs
  <2>7. Zeros(m) = y
    BY <2>2, <2>6 DEF Zeros, y
  <2> QED
    BY <2>4, <2>5, <2>7
<1>7. l1 < Block \/ l1 = Block \/ l1 > Block
  BY <1>1, <1>3
<1> QED
  BY <1>4, <1>5, <1>6, <1>7

-----------------------------------------------------------------------------
\* The blocks of a text that ends with a block.
LEMMA BlocksAre ==
    ASSUME H!Sha256Assumption, NEW t \in Seq(TextBytes), NEW n \in Nat, Len(t) = Block * n
    PROVE  /\ H!BlocksOf(t) \in Seq(TextBlocks) /\ Len(H!BlocksOf(t)) = n
           /\ \A b \in 1 .. n, q \in Nat, k \in 1 .. Block : q = b - 1 => H!BlocksOf(t)[b][k] = t[Block * q + k]
<1> DEFINE bs == H!BlocksOf(t)
<1>1. Block \in Nat \ {0} /\ 0 \in 0 .. Block - 1
  BY DEF H!Sha256Assumption
<1>2. Len(t) \div Block = n
  <2> DEFINE u == Len(t)
  <2>1. u = Block * n + 0 /\ u \in Nat
    BY <1>1
  <2> HIDE DEF u
  <2>2. u \div Block = n
    BY <1>1, <2>1, RemainderIs
  <2> QED
    BY <2>2 DEF u
<1>3. bs = [b \in 1 .. n |-> SubSeq(t, (b - 1) * Block + 1, b * Block)]
  BY <1>2 DEF H!BlocksOf
<1>4. ASSUME NEW b \in 1 .. n, NEW q \in Nat, q = b - 1
      PROVE  bs[b] \in TextBlocks /\ \A k \in 1 .. Block : bs[b][k] = t[Block * q + k]
  <2> DEFINE w == Block * q
             x == (b - 1) * Block + 1
             y == b * Block
             here == SubSeq(t, x, y)
  <2>1. w \in Nat /\ x = w + 1 /\ y = w + Block
    <3>1. w \in Nat /\ Block * (q + 1) = w + Block
      BY <1>1, Times
    <3>2. b = q + 1 /\ b - 1 = q
      BY <1>4
    <3>3. y = Block * (q + 1) /\ x = Block * q + 1
      BY <1>1, <3>2
    <3> QED
      BY <3>1, <3>3
  <2>2. \A k \in 1 .. Block : w + k \in 1 .. Len(t)
    <3>1. q \in 0 .. n - 1
      BY <1>4
    <3> QED
      BY <1>1, <3>1, InBlocks
  <2>3. bs[b] = here
    BY <1>3
  <2> HIDE DEF w, x, y
  <2>4. \A k \in x .. y : t[k] \in TextBytes
    <3>1. \A k \in x .. y : k - w \in 1 .. Block /\ w + (k - w) = k
      BY <1>1, <2>1
    <3>2. \A k \in x .. y : k \in 1 .. Len(t)
      BY <2>2, <3>1
    <3> QED
      BY <3>2
  <2>5. /\ here \in Seq(TextBytes) /\ Len(here) = IF x <= y THEN y - x + 1 ELSE 0
        /\ \A k \in 1 .. y - x + 1 : here[k] = t[x + k - 1]
    BY <1>1, <2>1, <2>4, SubSeqProperties
  <2> HIDE DEF here
  <2>6. y - x + 1 = Block /\ Len(here) = Block /\ \A k \in 1 .. Block : x + k - 1 = w + k
    BY <1>1, <2>1, <2>5
  <2>7. here \in [1 .. Block -> TextBytes]
    BY <2>5, <2>6
  <2>8. \A k \in 1 .. Block : here[k] = t[w + k]
    BY <2>5, <2>6
  <2> QED
    BY <2>3, <2>7, <2>8 DEF TextBlocks, w
<1>5. bs \in Seq(TextBlocks) /\ Len(bs) = n
  <2>1. \A b \in 1 .. n : bs[b] \in TextBlocks
    <3> SUFFICES ASSUME NEW b \in 1 .. n PROVE bs[b] \in TextBlocks
      OBVIOUS
    <3> DEFINE q == b - 1
    <3>1. q \in Nat /\ q = b - 1
      OBVIOUS
    <3> HIDE DEF q, bs
    <3> QED
      BY <1>4, <3>1
  <2>2. bs = [b \in 1 .. n |-> bs[b]]
    BY <1>3
  <2> HIDE DEF bs
  <2> QED
    BY <2>1, <2>2
<1> HIDE DEF bs
<1>6. ASSUME NEW b \in 1 .. n, NEW q \in Nat, NEW k \in 1 .. Block, q = b - 1
      PROVE  bs[b][k] = t[Block * q + k]
  BY <1>4, <1>6
<1> QED
  BY <1>5, <1>6 DEF bs

\* Two blocks with the same bytes are the same.
LEMMA SameBlock ==
    ASSUME NEW x \in TextBlocks, NEW y \in TextBlocks, \A k \in 1 .. Block : x[k] = y[k]
    PROVE  x = y
<1>1. x = [k \in 1 .. Block |-> x[k]] /\ y = [k \in 1 .. Block |-> y[k]]
  BY DEF TextBlocks
<1> QED
  BY <1>1

\* A list of blocks is that of a text when it has the same bytes.
LEMMA SameBlocks ==
    ASSUME H!Sha256Assumption, NEW t \in Seq(TextBytes), NEW n \in Nat, Len(t) = Block * n,
           NEW bs \in Seq(TextBlocks), Len(bs) = n,
           \A b \in 1 .. n, q \in Nat, k \in 1 .. Block : q = b - 1 => bs[b][k] = t[Block * q + k]
    PROVE  bs = H!BlocksOf(t)
<1> DEFINE as == H!BlocksOf(t)
<1>1. /\ as \in Seq(TextBlocks) /\ Len(as) = n
      /\ \A b \in 1 .. n, q \in Nat, k \in 1 .. Block : q = b - 1 => as[b][k] = t[Block * q + k]
  BY BlocksAre
<1> HIDE DEF as
<1>2. ASSUME NEW b \in 1 .. n PROVE bs[b] = as[b]
  <2> DEFINE q == b - 1
             x == bs[b]
             y == as[b]
  <2>1. q \in Nat /\ q = b - 1
    OBVIOUS
  <2> HIDE DEF q
  <2>2. \A k \in 1 .. Block : x[k] = t[Block * q + k]
    BY <2>1
  <2>3. \A k \in 1 .. Block : y[k] = t[Block * q + k]
    BY <1>1, <2>1
  <2>4. x \in TextBlocks
    BY ElementOfSeq
  <2>5. y \in TextBlocks
    BY <1>1, ElementOfSeq
  <2> HIDE DEF x, y
  <2>6. \A k \in 1 .. Block : x[k] = y[k]
    BY <2>2, <2>3
  <2>7. x = y
    BY <2>4, <2>5, <2>6, SameBlock
  <2> QED
    BY <2>7 DEF x, y
<1>3. bs = as
  BY <1>1, <1>2, SeqEqual
<1> QED
  BY <1>3 DEF as

\* The blocks that mys_sha256_dump_bin compresses are those of the padded
\* message.
LEMMA DumpIs ==
    ASSUME H!Sha256Assumption, IsContext(H!Context, message), H!Dump
    PROVE  digest'.of = message /\ digest'.blocks = H!BlocksOf(H!Padding(message))
<1> DEFINE n == Len(state)
           l == datalen
           w == Block * n
           u == Len(message)
           z == Zeros(message)
           t == H!Padding(message)
           pad == H!Padded(l)
           ls == H!LengthField(H!WordOf(8 * u))
           edge == Block - LengthBytes
           end == H!WithLength(pad)
           only == H!WithLength(H!Blank)
<1>0. Block \in Nat \ {0} /\ LengthBytes \in Nat \ {0} /\ LengthBytes < Block /\ edge \in 1 .. Block - 1
  BY DEF H!Sha256Assumption
<1>1. /\ state \in Seq(Full) /\ data \in Full /\ l \in 0 .. Block - 1 /\ n \in Nat /\ message \in Seq(Bytes)
      /\ u = w + l /\ bitlen = H!WordOf(8 * w)
      /\ \A b \in 1 .. n, q \in Nat, k \in 1 .. Block : q = b - 1 => state[b][k] = message[Block * q + k]
      /\ \A k \in 1 .. l : data[k] = message[w + k]
  <2>1. /\ H!Context.data = data /\ H!Context.datalen = datalen /\ H!Context.bitlen = bitlen
        /\ H!Context.state = state
    BY DEF H!Context
  <2>2. H!Context \in Contexts
    BY DEF IsContext
  <2>3. state \in Seq(Full) /\ data \in Full /\ l \in 0 .. Block - 1
    BY <2>1, <2>2 DEF Contexts
  <2> QED
    BY <2>1, <2>3 DEF IsContext
<1>2. w \in Nat /\ u \in Nat
  BY <1>0, <1>1, Times
<1>3. z = (IF l + LengthBytes < Block THEN Block - (l + 1 + LengthBytes) ELSE 2 * Block - (l + 1 + LengthBytes))
      /\ z \in Nat
  <2>1. z = IF l + LengthBytes < Block THEN Block - (l + 1 + LengthBytes) ELSE 2 * Block - (l + 1 + LengthBytes)
    BY <1>1, ZerosAre
  <2>2. z \in Nat
    <3> HIDE DEF z, l
    <3>1. CASE l + LengthBytes < Block
      <4>1. z = Block - (l + 1 + LengthBytes)
        BY <2>1, <3>1
      <4> QED
        BY <1>0, <1>1, <3>1, <4>1
    <3>2. CASE ~(l + LengthBytes < Block)
      <4>1. z = 2 * Block - (l + 1 + LengthBytes)
        BY <2>1, <3>2
      <4> QED
        BY <1>0, <1>1, <3>2, <4>1
    <3> QED
      BY <3>1, <3>2
  <2> QED
    BY <2>1, <2>2
<1>4. IsPadded(t, message)
  BY <1>1, <1>3, PaddingIs
<1> HIDE DEF t, z, w, l, u, n
<1>5. /\ t \in Seq(TextBytes) /\ Len(t) = u + 1 + z + LengthBytes
      /\ \A k \in 1 .. u : t[k] = message[k]
      /\ t[u + 1] = 128
      /\ \A k \in 1 .. z : t[u + 1 + k] = 0
      /\ \A k \in 1 .. LengthBytes : t[u + 1 + z + k] = ls[k]
  BY <1>4 DEF IsPadded, u, z
<1>6. \A b \in 1 .. n, q \in Nat, k \in 1 .. Block : q = b - 1 => state[b][k] = t[Block * q + k]
  <2> SUFFICES ASSUME NEW b \in 1 .. n, NEW q \in Nat, NEW k \in 1 .. Block, q = b - 1
               PROVE  state[b][k] = t[Block * q + k]
    OBVIOUS
  <2>1. q \in 0 .. n - 1
    BY <1>1
  <2>2. Block * q + k \in 1 .. w
    BY <1>0, <1>1, <2>1, InBlocks DEF w
  <2>3. Block * q + k \in 1 .. u
    BY <1>1, <1>2, <2>2
  <2> DEFINE place == Block * q + k
  <2>4. state[b][k] = message[place]
    BY <1>1
  <2> HIDE DEF place
  <2>5. t[place] = message[place]
    BY <1>5, <2>3 DEF place
  <2> QED
    BY <2>4, <2>5 DEF place
<1>7. H!WordOf(bitlen + 8 * datalen) = H!WordOf(8 * u)
  <2>1. 8 * w \in Nat /\ 8 * l \in Nat /\ 8 * w + 8 * l = 8 * u
    BY <1>0, <1>1, <1>2
  <2> QED
    BY <1>1, <2>1, WordOfSum DEF l
<1>8. \A d : H!WithLength(d) = [k \in 1 .. Block |-> IF k <= edge THEN d[k] ELSE ls[k - edge]]
  BY <1>7 DEF H!WithLength
<1>9. ls \in [1 .. LengthBytes -> TextBytes]
  <2>1. H!WordOf(8 * u) \in Nat
    <3>1. 8 * u \in Nat
      BY <1>2
    <3> QED
      BY <3>1, WordIsNat
  <2>2. ls = [k \in 1 .. LengthBytes |-> ls[k]]
    BY DEF H!LengthField
  <2>3. \A k \in 1 .. LengthBytes : ls[k] \in TextBytes
    BY <2>1 DEF TextBytes
  <2> HIDE DEF ls
  <2> QED
    BY <2>2, <2>3
<1> HIDE DEF ls
<1>10. pad = [k \in 1 .. Block |-> IF k <= l THEN data[k] ELSE IF k = l + 1 THEN 128 ELSE 0]
  BY DEF H!Padded
<1>11. pad \in TextBlocks /\ H!Blank \in TextBlocks /\ \A k \in 1 .. Block : H!Blank[k] = 0
  <2>1. 128 \in TextBytes /\ 0 \in TextBytes /\ \A k \in 1 .. Block : data[k] \in TextBytes
    BY <1>1 DEF TextBytes, Full
  <2> HIDE DEF pad
  <2>2. pad \in TextBlocks
    BY <1>10, <2>1 DEF TextBlocks
  <2> QED
    BY <2>1, <2>2 DEF TextBlocks, H!Blank
<1> HIDE DEF edge, end, only, pad
<1>12. ASSUME NEW d \in TextBlocks PROVE H!WithLength(d) \in TextBlocks
  <2>1. \A k \in 1 .. Block : ~(k <= edge) => k - edge \in 1 .. LengthBytes
    BY <1>0 DEF edge
  <2>2. \A k \in 1 .. Block : (IF k <= edge THEN d[k] ELSE ls[k - edge]) \in TextBytes
    BY <1>9, <2>1 DEF TextBlocks
  <2> QED
    BY <1>8, <2>2 DEF TextBlocks
<1>13. end \in TextBlocks /\ only \in TextBlocks
  BY <1>11, <1>12 DEF end, only
<1>14. state \in Seq(TextBlocks)
  <2>1. Full \subseteq TextBlocks
    BY DEF Full, TextBlocks, TextBytes
  <2> QED
    BY <1>1, <2>1
\* The block that holds the end of the message.
<1>15. ASSUME NEW k \in 1 .. Block, k <= l + 1 + z PROVE pad[k] = t[w + k]
  <2>1. CASE k <= l
    <3>1. k \in 1 .. l /\ w + k \in 1 .. u
      BY <1>1, <1>2, <2>1
    <3> QED
      BY <1>1, <1>5, <1>10, <2>1, <3>1
  <2>2. CASE k = l + 1
    <3>1. w + k = u + 1 /\ ~(k <= l)
      BY <1>1, <1>2, <2>2
    <3> QED
      BY <1>5, <1>10, <2>2, <3>1
  <2>3. CASE k > l + 1
    <3> DEFINE y == k - (l + 1)
    <3>1. y \in 1 .. z /\ w + k = u + 1 + y /\ ~(k <= l) /\ k # l + 1
      BY <1>1, <1>2, <1>3, <1>15, <2>3
    <3> HIDE DEF y
    <3> QED
      BY <1>5, <1>10, <3>1
  <2>4. k \in Int /\ l \in Int
    BY <1>1
  <2>5. k <= l \/ k = l + 1 \/ k > l + 1
    BY <2>4
  <2> QED
    BY <2>1, <2>2, <2>3, <2>5
<1>16. digest'.of = message
  BY DEF H!Dump
<1>17. CASE l < edge
  <2> DEFINE bs == Append(state, end)
             m == n + 1
  <2>1. digest'.blocks = bs
    BY <1>17 DEF H!Dump, edge, end, pad, l
  <2>2. l + LengthBytes < Block /\ z = Block - (l + 1 + LengthBytes) /\ l + 1 + z = edge
    <3>1. l + LengthBytes < Block
      BY <1>0, <1>1, <1>17 DEF edge
    <3>2. z = Block - (l + 1 + LengthBytes)
      BY <1>3, <3>1
    <3>3. edge = Block - LengthBytes
      BY DEF edge
    <3>4. l \in Int /\ Block \in Int /\ LengthBytes \in Int
      BY <1>0, <1>1
    <3> HIDE DEF edge, l, z
    <3>5. l + 1 + z = edge
      BY <3>2, <3>3, <3>4
    <3> QED
      BY <3>1, <3>2, <3>5
  <2>3. m \in Nat /\ Len(t) = Block * m
    <3>1. Block * (n + 1) = w + Block
      BY <1>0, <1>1, Times DEF w
    <3> QED
      BY <1>0, <1>1, <1>2, <1>3, <1>5, <2>2, <3>1
  <2>4. bs \in Seq(TextBlocks) /\ Len(bs) = m /\ bs[m] = end /\ \A b \in 1 .. n : bs[b] = state[b]
    <3>1. Len(state) = n
      BY DEF n
    <3> QED
      BY <1>1, <1>13, <1>14, <3>1
  <2>5. ASSUME NEW k \in 1 .. Block PROVE end[k] = t[w + k]
    <3>1. end = [y \in 1 .. Block |-> IF y <= edge THEN pad[y] ELSE ls[y - edge]]
      BY <1>8 DEF end
    <3>2. CASE k <= edge
      BY <1>15, <2>2, <3>1, <3>2
    <3>3. CASE ~(k <= edge)
      <4> DEFINE y == k - edge
      <4>1. y \in 1 .. LengthBytes
        BY <1>0, <3>3 DEF edge
      <4>2. w + k = u + 1 + z + y
        BY <1>0, <1>1, <1>2, <1>3, <2>2
      <4>3. end[k] = ls[y]
        BY <3>1, <3>3
      <4> HIDE DEF y
      <4> QED
        BY <1>5, <4>1, <4>2, <4>3
    <3> QED
      BY <3>2, <3>3
  <2>6. ASSUME NEW b \in 1 .. m, NEW q \in Nat, NEW k \in 1 .. Block, q = b - 1
        PROVE  bs[b][k] = t[Block * q + k]
    <3>1. CASE b = m
      <4>1. q = n /\ Block * q = w
        BY <1>1, <2>6, <3>1 DEF w
      <4> HIDE DEF m, bs
      <4> QED
        BY <2>4, <2>5, <3>1, <4>1
    <3>2. CASE b # m
      <4>1. b \in 1 .. n
        BY <1>1, <3>2
      <4> HIDE DEF m, bs
      <4> QED
        BY <1>6, <2>4, <2>6, <4>1
    <3> QED
      BY <3>1, <3>2
  <2> HIDE DEF bs, m
  <2>7. bs = H!BlocksOf(t)
    BY <1>5, <2>3, <2>4, <2>6, SameBlocks
  <2> QED
    BY <1>16, <2>1, <2>7 DEF t
<1>18. CASE ~(l < edge)
  <2> DEFINE bs == state \o <<pad, only>>
             m == n + 2
             v == Block * (n + 1)
  <2>1. digest'.blocks = bs
    BY <1>18 DEF H!Dump, edge, only, pad, l
  <2>2. ~(l + LengthBytes < Block) /\ z = 2 * Block - (l + 1 + LengthBytes) /\ l + 1 + z = Block + edge
    <3>1. ~(l + LengthBytes < Block)
      BY <1>0, <1>1, <1>18 DEF edge
    <3>2. z = 2 * Block - (l + 1 + LengthBytes)
      BY <1>3, <3>1
    <3>3. edge = Block - LengthBytes
      BY DEF edge
    <3>4. l \in Int /\ Block \in Int /\ LengthBytes \in Int
      BY <1>0, <1>1
    <3> HIDE DEF edge, l, z
    <3>5. l + 1 + z = Block + edge
      BY <3>2, <3>3, <3>4
    <3> QED
      BY <3>1, <3>2, <3>5
  <2>3. v = w + Block /\ v \in Nat /\ Block * m = w + Block + Block
    <3>1. v = w + Block
      BY <1>0, <1>1, Times DEF w
    <3>2. Block * (n + 1 + 1) = v + Block /\ n + 1 + 1 = m
      <4>1. n + 1 \in Nat
        BY <1>1
      <4>2. Block * (n + 1 + 1) = v + Block
        BY <1>0, <4>1, Times
      <4> QED
        BY <1>1, <4>2
    <3> HIDE DEF v
    <3> QED
      BY <1>0, <1>2, <3>1, <3>2
  <2>4. m \in Nat /\ Len(t) = Block * m
    <3>1. m \in Nat
      BY <1>1
    <3> HIDE DEF m
    <3> QED
      BY <1>0, <1>1, <1>2, <1>3, <1>5, <2>2, <2>3, <3>1
  <2>5. /\ bs \in Seq(TextBlocks) /\ Len(bs) = m /\ bs[n + 1] = pad /\ bs[n + 2] = only
        /\ \A b \in 1 .. n : bs[b] = state[b]
    <3> DEFINE two == <<pad, only>>
    <3>1. Len(state) = n
      BY DEF n
    <3>2. two \in Seq(TextBlocks) /\ Len(two) = 2 /\ two[1] = pad /\ two[2] = only
      BY <1>11, <1>13
    <3> HIDE DEF two
    <3>3. Follows(state \o two, state, two, n, 2, TextBlocks)
      BY <1>14, <3>1, <3>2, ConcatFollows
    <3>4. Follows(bs, state, two, n, 2, TextBlocks)
      BY <3>3 DEF two
    <3> HIDE DEF bs
    <3>5. bs[n + 1] = two[1] /\ bs[n + 2] = two[2]
      BY <3>4 DEF Follows
    <3> QED
      BY <3>2, <3>4, <3>5 DEF Follows
  <2>6. ASSUME NEW k \in 1 .. Block PROVE pad[k] = t[w + k]
    <3>1. k <= l + 1 + z
      BY <1>0, <2>2
    <3> QED
      BY <1>15, <3>1
  <2>7. ASSUME NEW k \in 1 .. Block PROVE only[k] = t[v + k]
    <3>1. only = [y \in 1 .. Block |-> IF y <= edge THEN H!Blank[y] ELSE ls[y - edge]]
      BY <1>8 DEF only
    <3>2. CASE k <= edge
      <4> DEFINE y == Block + k - (l + 1)
      <4>1. y \in 1 .. z /\ v + k = u + 1 + y
        <5> HIDE DEF v
        <5> QED
          BY <1>0, <1>1, <1>2, <1>3, <2>2, <2>3, <3>2
      <4>2. only[k] = 0
        BY <1>11, <3>1, <3>2
      <4> HIDE DEF y, v
      <4> QED
        BY <1>5, <4>1, <4>2
    <3>3. CASE ~(k <= edge)
      <4> DEFINE y == k - edge
      <4>1. y \in 1 .. LengthBytes
        BY <1>0, <3>3 DEF edge
      <4>2. v + k = u + 1 + z + y
        <5> HIDE DEF v
        <5> QED
          BY <1>0, <1>1, <1>2, <1>3, <2>2, <2>3
      <4>3. only[k] = ls[y]
        BY <3>1, <3>3
      <4> HIDE DEF y, v
      <4> QED
        BY <1>5, <4>1, <4>2, <4>3
    <3> QED
      BY <3>2, <3>3
  <2>8. ASSUME NEW b \in 1 .. m, NEW q \in Nat, NEW k \in 1 .. Block, q = b - 1
        PROVE  bs[b][k] = t[Block * q + k]
    <3>1. CASE b = n + 1
      <4>1. q = n /\ Block * q = w
        BY <1>1, <2>8, <3>1 DEF w
      <4> HIDE DEF m, bs
      <4> QED
        BY <2>5, <2>6, <3>1, <4>1
    <3>2. CASE b = n + 2
      <4>1. q = n + 1
        BY <1>1, <2>8, <3>2
      <4>2. Block * q = v
        BY <4>1
      <4> HIDE DEF m, bs, v
      <4> QED
        BY <2>5, <2>7, <3>2, <4>2
    <3>3. CASE b # n + 1 /\ b # n + 2
      <4>1. b \in 1 .. n
        BY <1>1, <3>3
      <4> HIDE DEF m, bs
      <4> QED
        BY <1>6, <2>5, <2>8, <4>1
    <3> QED
      BY <3>1, <3>2, <3>3
  <2> HIDE DEF bs, m
  <2>9. bs = H!BlocksOf(t)
    BY <1>5, <2>4, <2>5, <2>8, SameBlocks
  <2> QED
    BY <1>16, <2>1, <2>9 DEF t
<1> QED
  BY <1>17, <1>18

-----------------------------------------------------------------------------
\* The inductive invariant of Sha256.
DigestInv == IsContext(H!Context, message) /\ H!DigestIsOfMessage

\* However a message is cut into pieces, whatever digests were taken before and
\* whatever was in the buffer: the digest that mys_sha256_dump_bin gives is
\* that of the whole message, padded as SHA-256 says.
THEOREM DigestsAreOfMessages == Spec => []DigestIsOfMessage
<1>1. Init => DigestInv
  <2> SUFFICES ASSUME Init PROVE DigestInv
    OBVIOUS
  <2>1. /\ data \in [1 .. Block -> Dirt] /\ datalen = 0 /\ bitlen = 0 /\ state = <<>>
        /\ message = <<>> /\ digest.blocks = <<>>
    BY DEF Init, H!Init
  <2>2. H!Sha256Assumption /\ Block \in Nat /\ Block # 0
    BY LibraryAssumption DEF H!Sha256Assumption
  <2>3. <<>> \in Seq(Full) /\ <<>> \in Seq(Bytes) /\ Len(<<>>) = 0
    OBVIOUS
  <2>4. H!Context \in Contexts
    <3>1. data \in Full
      BY <2>1 DEF Full, DigestBytes
    <3> QED
      BY <2>1, <2>2, <2>3, <3>1 DEF Contexts, H!Context
  <2>5. Block * 0 = 0 /\ 8 * (Block * 0) = 0
    BY <2>2
  <2>6. IsContext(H!Context, message)
    <3>1. H!Context.datalen = 0 /\ H!Context.bitlen = 0 /\ H!Context.state = <<>>
      BY <2>1 DEF H!Context
    <3>2. 0 = Block * 0 + 0 /\ 1 .. 0 = {}
      BY <2>5
    <3>3. 0 = H!WordOf(8 * (Block * 0))
      BY <2>2, <2>5, WordOfZero
    <3> QED
      BY <2>1, <2>3, <2>4, <3>1, <3>2, <3>3 DEF IsContext
  <2> QED
    BY <2>1, <2>6 DEF DigestInv, H!DigestIsOfMessage
<1>2. DigestInv /\ [Next]_vars => DigestInv'
  <2> SUFFICES ASSUME DigestInv, [Next]_vars PROVE DigestInv'
    OBVIOUS
  <2>0. H!Sha256Assumption /\ IsContext(H!Context, message)
    BY LibraryAssumption DEF DigestInv
  <2>1. ASSUME NEW n \in 1 .. MaxPiece, NEW bytes \in [1 .. n -> Bytes], H!Update(bytes) PROVE DigestInv'
    <3> DEFINE c == Fed(bytes)
    <3>1. n \in Nat
      BY <2>0 DEF H!Sha256Assumption
    <3>2. IsContext(c, message \o bytes)
      BY <2>0, <3>1, UpdateKeeps
    <3>3. /\ data' = c.data /\ datalen' = c.datalen /\ bitlen' = c.bitlen /\ state' = c.state
          /\ message' = message \o bytes /\ UNCHANGED digest
      BY <2>1 DEF H!Update, Fed
    <3> HIDE DEF c
    <3>4. c \in Contexts
      BY <3>2 DEF IsContext
    <3>5. H!Context' = c
      BY <3>3, <3>4 DEF H!Context, Contexts
    <3>6. IsContext(H!Context', message')
      BY <3>2, <3>3, <3>5
    <3>7. IsContext(H!Context, message)'
      BY <3>6 DEF IsContext, Contexts, Full, DigestBytes, H!WordOf
    <3> QED
      BY <3>3, <3>7 DEF DigestInv, H!DigestIsOfMessage
  <2>2. CASE H!Dump
    <3>1. digest'.of = message /\ digest'.blocks = H!BlocksOf(H!Padding(message))
      BY <2>0, <2>2, DumpIs
    <3>2. UNCHANGED <<data, datalen, bitlen, state, message>>
      BY <2>2 DEF H!Dump, H!ctx
    <3>3. IsContext(H!Context, message)'
      BY <2>0, <3>2 DEF IsContext, H!Context
    <3> QED
      BY <3>1, <3>3 DEF DigestInv, H!DigestIsOfMessage
  <2>3. CASE UNCHANGED digestVars
    <3>1. IsContext(H!Context, message)'
      BY <2>0, <2>3 DEF digestVars, IsContext, H!Context
    <3> QED
      BY <2>3, <3>1 DEF digestVars, DigestInv, H!DigestIsOfMessage
  <2> QED
    BY <2>1, <2>2, <2>3, StepsOfParts DEF H!Next
<1> QED
  BY <1>1, <1>2, PTL DEF Spec, DigestInv, DigestIsOfMessage

-----------------------------------------------------------------------------
\* The remainder of a division by w is below w, and what is below w is its own.
LEMMA RemaindersBelow ==
    ASSUME NEW w \in Nat \ {0}
    PROVE  /\ \A v \in Nat : v % w \in 0 .. w - 1
           /\ \A v \in 0 .. w - 1 : v % w = v
<1>1. ASSUME NEW v \in Nat PROVE v % w \in 0 .. w - 1
  BY Remainder
<1>2. ASSUME NEW v \in 0 .. w - 1 PROVE v % w = v
  <2>1. v = w * 0 + v
    OBVIOUS
  <2> QED
    BY <2>1, RemainderIs
<1> QED
  BY <1>1, <1>2

\* For any width of a word (mys_rand_u64 and the narrower ones, rand.c): each
\* number from mi up to ma, without ma, can come and no other.
THEOREM UnsignedRange ==
    ASSUME R!RandAssumption, NEW mi \in R!Words, NEW ma \in R!Words
    PROVE  R!RangeU64(mi, ma)
<1>0. Word \in Nat \ {0} /\ mi \in Nat /\ ma \in Nat /\ R!Words \subseteq Nat
  BY DEF R!RandAssumption, R!Words
<1>1. CASE ma <= mi
  <2>1. \A v : R!U64(mi, ma, v) = mi
    BY <1>1 DEF R!U64
  <2>2. 0 \in R!Words
    BY <1>0 DEF R!Words
  <2> QED
    BY <1>1, <2>1, <2>2 DEF R!RangeU64
<1>2. CASE ~(ma <= mi) /\ mi = 0 /\ ma = Word - 1
  <2>1. \A v : R!U64(mi, ma, v) = v
    BY <1>2, Zenon DEF R!U64
  <2> QED
    BY <1>2, <2>1, ZenonT(30) DEF R!RangeU64
<1>3. CASE ~(ma <= mi) /\ ~(mi = 0 /\ ma = Word - 1)
  <2> DEFINE w == ma - mi
  <2>1. w \in Nat \ {0} /\ w < Word
    BY <1>0, <1>3 DEF R!Words
  <2>2. \A v : R!U64(mi, ma, v) = mi + (v % w)
    BY <1>3, Zenon DEF R!U64
  <2> HIDE DEF w
  <2>3. ASSUME NEW v \in R!Words PROVE R!U64(mi, ma, v) \in mi .. ma - 1
    <3>1. v % w \in 0 .. w - 1
      BY <1>0, <2>1, RemaindersBelow
    <3> QED
      BY <1>0, <2>2, <3>1 DEF w
  <2>4. ASSUME NEW y \in mi .. ma - 1 PROVE \E v \in R!Words : y = R!U64(mi, ma, v)
    <3> DEFINE v == y - mi
    <3>1. v \in 0 .. w - 1 /\ v \in R!Words /\ y = mi + v
      BY <1>0, <2>1 DEF w, R!Words
    <3> HIDE DEF v
    <3>2. v % w = v
      BY <2>1, <3>1, RemaindersBelow
    <3> QED
      BY <2>2, <3>1, <3>2
  <2>5. {R!U64(mi, ma, v) : v \in R!Words} = mi .. ma - 1
    BY <2>3, <2>4
  <2> QED
    BY <1>3, <2>5, ZenonT(30) DEF R!RangeU64
<1> QED
  BY <1>1, <1>2, <1>3

\* A signed number that was made unsigned and is made signed again.
LEMMA SignedAgain ==
    ASSUME R!RandAssumption, NEW y \in R!MinSigned .. R!MaxSigned
    PROVE  R!ToSigned(y % Word) = y
<1>1. PICK half \in Nat : Word = 2 * half /\ Word \div 2 = half /\ half # 0
  <2>1. PICK q \in Nat, rest \in 0 .. 1 : Word = 2 * q + rest /\ Word % 2 = rest /\ Word \div 2 = q
    BY Remainder DEF R!RandAssumption
  <2> QED
    BY <2>1 DEF R!RandAssumption
<1>2. Word \in Nat \ {0} /\ R!MaxSigned = half - 1 /\ y \in Int /\ -half <= y /\ y < half
  BY <1>1 DEF R!RandAssumption, R!MinSigned, R!MaxSigned
<1>3. CASE y >= 0
  <2>0. y \in 0 .. Word - 1
    BY <1>1, <1>2, <1>3
  <2>1. y % Word = y
    BY <1>2, <2>0, RemaindersBelow
  <2> QED
    BY <1>2, <1>3, <2>1 DEF R!ToSigned
<1>4. CASE y < 0
  <2>1. y = Word * (-1) + (y + Word) /\ y + Word \in 0 .. Word - 1
    BY <1>1, <1>2, <1>4
  <2> DEFINE rest == y + Word
             back == -1
  <2>2. back \in Int /\ rest \in 0 .. Word - 1 /\ y = Word * back + rest
    BY <2>1
  <2> HIDE DEF rest, back
  <2>3. y % Word = rest
    BY <1>2, <2>2, QuotientIs
  <2> QED
    BY <1>1, <1>2, <1>4, <2>3 DEF R!ToSigned, rest
<1> QED
  BY <1>2, <1>3, <1>4

\* For any width of a word (mys_rand_i64, rand.c): the same for signed numbers,
\* although the difference of the bounds may wrap around.
THEOREM SignedRange ==
    ASSUME R!RandAssumption, NEW mi \in R!MinSigned .. R!MaxSigned, NEW ma \in R!MinSigned .. R!MaxSigned
    PROVE  R!RangeI64(mi, ma)
<1>1. PICK half \in Nat : Word = 2 * half /\ Word \div 2 = half /\ half # 0
  <2>1. PICK q \in Nat, rest \in 0 .. 1 : Word = 2 * q + rest /\ Word % 2 = rest /\ Word \div 2 = q
    BY Remainder DEF R!RandAssumption
  <2> QED
    BY <2>1 DEF R!RandAssumption
<1>2. /\ Word \in Nat \ {0} /\ R!MinSigned = -half /\ R!MaxSigned = half - 1 /\ R!Words = 0 .. Word - 1
      /\ mi \in Int /\ ma \in Int /\ -half <= mi /\ mi < half /\ -half <= ma /\ ma < half
  BY <1>1 DEF R!RandAssumption, R!MinSigned, R!MaxSigned, R!Words
<1>3. CASE ma <= mi
  <2>1. \A v : R!I64(mi, ma, v) = mi
    BY <1>3 DEF R!I64
  <2>2. 0 \in R!Words
    BY <1>2
  <2> QED
    BY <1>3, <2>1, <2>2 DEF R!RangeI64
<1>4. CASE ~(ma <= mi) /\ mi = R!MinSigned /\ ma = R!MaxSigned
  <2>1. \A v : R!I64(mi, ma, v) = R!ToSigned(v)
    BY <1>4, Zenon DEF R!I64
  <2>2. ASSUME NEW v \in R!Words PROVE R!ToSigned(v) \in R!MinSigned .. R!MaxSigned
    BY <1>1, <1>2 DEF R!ToSigned
  <2>3. ASSUME NEW y \in R!MinSigned .. R!MaxSigned PROVE \E v \in R!Words : y = R!ToSigned(v)
    <3>1. y \in Int /\ -half <= y /\ y < half
      BY <1>2
    <3>2. CASE y >= 0
      <4>1. y \in R!Words /\ R!ToSigned(y) = y
        BY <1>1, <1>2, <3>1, <3>2 DEF R!ToSigned
      <4> QED
        BY <4>1
    <3>3. CASE y < 0
      <4> DEFINE v == y + Word
      <4>1. v \in R!Words /\ v > R!MaxSigned /\ v - Word = y
        BY <1>1, <1>2, <3>1, <3>3
      <4> HIDE DEF v
      <4>2. R!ToSigned(v) = y
        BY <4>1 DEF R!ToSigned
      <4> QED
        BY <4>1, <4>2
    <3> QED
      BY <3>1, <3>2, <3>3
  <2>4. {R!I64(mi, ma, v) : v \in R!Words} = R!MinSigned .. R!MaxSigned
    BY <2>1, <2>2, <2>3
  <2> QED
    BY <1>4, <2>4, Zenon DEF R!RangeI64
<1>5. CASE ~(ma <= mi) /\ ~(mi = R!MinSigned /\ ma = R!MaxSigned)
  <2> DEFINE w == ma - mi
  <2>1. w \in Nat \ {0} /\ w < Word
    BY <1>1, <1>2, <1>5
  <2>2. \A v : R!I64(mi, ma, v) = R!ToSigned((mi + (v % (w % Word))) % Word)
    BY <1>5, Zenon DEF R!I64
  <2> HIDE DEF w
  <2>3. w % Word = w
    <3>1. w \in 0 .. Word - 1
      BY <1>2, <2>1
    <3> QED
      BY <1>2, <3>1, RemaindersBelow
  <2>4. ASSUME NEW y \in mi .. ma - 1 PROVE R!ToSigned(y % Word) = y
    <3>1. y \in R!MinSigned .. R!MaxSigned
      BY <1>2
    <3> QED
      BY <3>1, SignedAgain
  <2>5. ASSUME NEW v \in R!Words PROVE R!I64(mi, ma, v) \in mi .. ma - 1
    <3>1. v % w \in 0 .. w - 1
      BY <1>2, <2>1, RemaindersBelow
    <3> DEFINE y == mi + (v % w)
    <3>2. y \in mi .. ma - 1
      BY <1>2, <3>1 DEF w
    <3>3. R!I64(mi, ma, v) = R!ToSigned(y % Word)
      BY <2>2, <2>3
    <3> HIDE DEF y
    <3> QED
      BY <2>4, <3>2, <3>3
  <2>6. ASSUME NEW y \in mi .. ma - 1 PROVE \E v \in R!Words : y = R!I64(mi, ma, v)
    <3> DEFINE v == y - mi
    <3>1. v \in 0 .. w - 1 /\ v \in R!Words /\ y = mi + v
      BY <1>2, <2>1 DEF w
    <3> HIDE DEF v
    <3>2. v % w = v
      BY <2>1, <3>1, RemaindersBelow
    <3>3. R!I64(mi, ma, v) = R!ToSigned(y % Word)
      BY <2>2, <2>3, <3>1, <3>2
    <3> QED
      BY <2>4, <3>1, <3>3
  <2>7. {R!I64(mi, ma, v) : v \in R!Words} = mi .. ma - 1
    BY <2>5, <2>6
  <2> QED
    BY <1>5, <2>7, Zenon DEF R!RangeI64
<1> QED
  BY <1>3, <1>4, <1>5

\* The index that mys_rand_str takes (rand.c) is inside of the choices, if
\* there are any.
THEOREM IndexRange ==
    ASSUME R!RandAssumption, NEW n \in 1 .. Word - 1
    PROVE  R!IndexInside(n)
<1>0. Word \in Nat \ {0} /\ n \in Nat \ {0} /\ n - 1 \in 0 .. Word - 1 /\ 0 \in R!Words /\ n - 1 \in R!Words
  BY DEF R!RandAssumption, R!Words
<1>1. (n - 1) % Word = n - 1
  BY <1>0, RemaindersBelow
<1>2. \A v : R!StrIndex(n, v) = R!U64(0, n - 1, v)
  BY <1>1 DEF R!StrIndex
<1>3. R!RangeU64(0, n - 1)
  BY <1>0, UnsignedRange
<1>4. CASE n = 1
  <2>1. {R!U64(0, n - 1, v) : v \in R!Words} = {0}
    BY <1>3, <1>4 DEF R!RangeU64
  <2> QED
    BY <1>2, <1>4, <2>1 DEF R!IndexInside
<1>5. CASE n # 1
  <2>1. ~(n - 1 <= 0) /\ ~(n - 1 = Word - 1) /\ (n - 1) - 1 = n - 2
    BY <1>0, <1>5
  <2>2. {R!U64(0, n - 1, v) : v \in R!Words} = 0 .. n - 2
    BY <1>3, <2>1 DEF R!RangeU64
  <2>3. \A v \in R!Words : R!StrIndex(n, v) \in 0 .. n - 2
    BY <1>2, <2>2
  <2>4. \A x \in 0 .. n - 2 : x \in 0 .. n - 1
    BY <1>0
  <2> QED
    BY <2>3, <2>4 DEF R!IndexInside
<1> QED
  BY <1>4, <1>5

-----------------------------------------------------------------------------
\* A call of a function is one of those Library makes.
JobInv ==
    \/ job = Idle
    \/ \E n \in 0 .. MaxElements + 3, m \in 1 .. MaxParts + 1, b \in {0, 2} :
          job = [of |-> "naive", begin |-> b, end |-> b + n, npart |-> m]
    \/ \E w \in Texts(0 .. MaxWeight, MaxElements), tol \in Tolerances, t \in 1 .. Tests, m \in 1 .. MaxParts :
          job = [of |-> "rcb", weights |-> w, tolerance |-> tol, tests |-> t, npart |-> m]
    \/ \E src \in Texts(Bytes, MaxSource) \ {<<>>} : job = [of |-> "base64", src |-> src]
    \/ \E s \in Texts(Alphabet, MaxText), names \in Names : job = [of |-> "format", names |-> names, expr |-> s]
    \/ job = [of |-> "rand"]
    \/ \E values \in Texts(Data, MaxData) \ {<<>>} : job = [of |-> "boxplot", values |-> values]

\* A text is a sequence of its characters.
LEMMA TextsAreSeqs ==
    ASSUME NEW chars, NEW n \in Nat, NEW s \in Texts(chars, n)
    PROVE  s \in Seq(chars)
<1>1. PICK k \in 0 .. n : s \in [1 .. k -> chars]
  BY DEF Texts
<1>2. k \in Nat
  OBVIOUS
<1> QED
  BY <1>1, <1>2, SeqDef

\* Any such call gives what its module states.
LEMMA JobsAreExact ==
    ASSUME JobInv
    PROVE  FunctionsExact
<1>0. FunctionsAssumption /\ R!RandAssumption
  BY LibraryAssumption
<1>1. CASE job = Idle
  BY <1>1 DEF Idle, FunctionsExact
<1>2. CASE \E n \in 0 .. MaxElements + 3, m \in 1 .. MaxParts + 1, b \in {0, 2} :
              job = [of |-> "naive", begin |-> b, end |-> b + n, npart |-> m]
  <2>1. PICK n \in 0 .. MaxElements + 3, m \in 1 .. MaxParts + 1, b \in {0, 2} :
              job = [of |-> "naive", begin |-> b, end |-> b + n, npart |-> m]
    BY <1>2
  <2>2. b \in Int /\ b + n \in Int /\ b <= b + n /\ m \in Nat \ {0}
    BY <1>0 DEF FunctionsAssumption
  <2> DEFINE e == b + n
  <2> HIDE DEF e
  <2>3. NaivePartitions(b, e, m)
    BY <2>2, NaivePartsFit DEF e
  <2>4. job = [of |-> "naive", begin |-> b, end |-> e, npart |-> m]
    BY <2>1 DEF e
  <2> QED
    BY <2>3, <2>4 DEF FunctionsExact
<1>3. CASE \E w \in Texts(0 .. MaxWeight, MaxElements), tol \in Tolerances, t \in 1 .. Tests, m \in 1 .. MaxParts :
              job = [of |-> "rcb", weights |-> w, tolerance |-> tol, tests |-> t, npart |-> m]
  <2>1. PICK w \in Texts(0 .. MaxWeight, MaxElements), tol \in Tolerances, t \in 1 .. Tests, m \in 1 .. MaxParts :
              job = [of |-> "rcb", weights |-> w, tolerance |-> tol, tests |-> t, npart |-> m]
    BY <1>3
  <2>2. w \in Seq(0 .. MaxWeight)
    BY <1>0, TextsAreSeqs DEF FunctionsAssumption
  <2>3. 0 .. MaxWeight \subseteq Nat
    OBVIOUS
  <2>4. w \in Seq(Nat)
    BY <2>2, <2>3, SeqMonotonic
  <2>5. t \in Nat \ {0} /\ m \in Nat \ {0}
    BY <1>0 DEF FunctionsAssumption
  <2>6. RcbPartitions(w, tol, t, m)
    BY <2>4, <2>5, RcbPartsFit
  <2> QED
    BY <2>1, <2>6 DEF FunctionsExact
<1>4. CASE \E src \in Texts(Bytes, MaxSource) \ {<<>>} : job = [of |-> "base64", src |-> src]
  <2>1. PICK src \in Texts(Bytes, MaxSource) : job = [of |-> "base64", src |-> src]
    BY <1>4
  <2>2. src \in Seq(Bytes)
    BY <1>0, TextsAreSeqs DEF FunctionsAssumption
  <2>3. src \in Seq(0 .. 255)
    <3> DEFINE bytes == 0 .. 255
    <3>1. Bytes \subseteq bytes
      BY <1>0 DEF FunctionsAssumption
    <3> HIDE DEF bytes
    <3>2. src \in Seq(bytes)
      BY <2>2, <3>1, SeqMonotonic
    <3> QED
      BY <3>2 DEF bytes
  <2>4. ASSUME NEW n \in 0 .. EncodeLen(Len(src)), NEW m \in 0 .. Len(src) + 3 PROVE RoundTrip(src, n, m)
    <3>1. n \in Nat /\ m \in Nat
      OBVIOUS
    <3> QED
      BY <2>3, <3>1, EncodingComesBack
  <2> QED
    BY <2>1, <2>4 DEF FunctionsExact
<1>5. CASE \E s \in Texts(Alphabet, MaxText), names \in Names :
              job = [of |-> "format", names |-> names, expr |-> s]
  <2>1. PICK s \in Texts(Alphabet, MaxText), names \in Names :
              job = [of |-> "format", names |-> names, expr |-> s]
    BY <1>5
  <2>2. s \in Seq(Alphabet)
    BY <1>0, TextsAreSeqs DEF FunctionsAssumption
  <2>3. names \in Seq(Seq(Alphabet))
    BY <1>0 DEF FunctionsAssumption
  <2>4. FormatExact(names, s)
    BY <2>2, <2>3, FormatsMean
  <2> QED
    BY <2>1, <2>4 DEF FunctionsExact
<1>6. CASE job = [of |-> "rand"]
  <2>1. \A mi, ma \in R!Words : R!RangeU64(mi, ma)
    BY <1>0, UnsignedRange
  <2>2. \A mi, ma \in R!MinSigned .. R!MaxSigned : R!RangeI64(mi, ma)
    BY <1>0, SignedRange
  <2>3. \A n \in 1 .. Word - 1 : R!IndexInside(n)
    BY <1>0, IndexRange
  <2> QED
    BY <1>6, <2>1, <2>2, <2>3 DEF FunctionsExact
<1>7. CASE \E values \in Texts(Data, MaxData) \ {<<>>} : job = [of |-> "boxplot", values |-> values]
  <2>1. PICK values \in Texts(Data, MaxData) \ {<<>>} : job = [of |-> "boxplot", values |-> values]
    BY <1>7
  <2>2. values \in Seq(Data) /\ values # <<>>
    BY <1>0, TextsAreSeqs DEF FunctionsAssumption
  <2>3. values \in Seq(Int)
    BY <1>0, <2>2, SeqMonotonic DEF FunctionsAssumption
  <2>4. BoxplotExact(values)
    BY <2>2, <2>3, BoxplotsAccountForAll
  <2> QED
    BY <2>1, <2>4 DEF FunctionsExact
<1> QED
  BY <1>1, <1>2, <1>3, <1>4, <1>5, <1>6, <1>7 DEF JobInv

\* For any values of the constants, every function that is called gives what
\* its module states: parts that follow each other, bytes that come back, the
\* meaning of a format whose names and specs fit into the code's buffers, random
\* numbers and indexes in their range, and a box plot that accounts for all
\* values (linalg.c, base64.c, format.c, rand.c, statistic.c).
THEOREM FunctionsStayExact == Spec => []FunctionsExact
<1>1. Init => JobInv
  BY DEF Init, JobInv
<1>2. JobInv /\ [Next]_vars => JobInv'
  <2> SUFFICES ASSUME JobInv, [Next]_vars PROVE JobInv'
    OBVIOUS
  <2>1. CASE RunFunctions
    BY <2>1 DEF RunFunctions, Call, CallNaive, CallRcb, CallBase64, CallFormat, CallRand, CallBoxplot, JobInv
  <2>2. CASE UNCHANGED job
    BY <2>2 DEF JobInv
  <2>3. RunFunctions \/ UNCHANGED job
    BY DEF Next, vars, RunArena, RunTrace, RunGroups, RunStrings, RunGuards, RunDigests, RunDirectories
  <2> QED
    BY <2>1, <2>2, <2>3
<1>3. JobInv => FunctionsExact
  BY JobsAreExact
<1> QED
  BY <1>1, <1>2, <1>3, PTL DEF Spec
=============================================================================
