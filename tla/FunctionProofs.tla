--------------------------- MODULE FunctionProofs ----------------------------
(***************************************************************************)
(* Proofs about the functions of Partition, Base64, Format and Boxplot,    *)
(* for arguments of any size, and the lemmas about induction, folds and    *)
(* division that they and the proofs of the library's parts rest on.       *)
(*                                                                         *)
(* A function that is defined by recursion is the one that satisfies its   *)
(* equation, if the equation asks for smaller arguments only               *)
(* (RecursionDefines); a fold is the last value of such a function         *)
(* (FoldLeftIsFunction).  What holds of it is then shown by induction.     *)
(***************************************************************************)
EXTENDS Integers, Sequences, Partition, Base64, Format, Boxplot, SequencesExt, SequenceTheorems,
        FiniteSetTheorems, WellFoundedInduction, NaturalsInduction, TLAPS

-----------------------------------------------------------------------------
\* Induction over the natural numbers, for a property that is a set.
LEMMA LessIsWellFounded ==
    \E rel : IsWellFoundedOn(rel, Nat) /\ \A x, y \in Nat : <<y, x>> \in rel <=> y < x
<1>1. \A x, y \in Nat : <<y, x>> \in OpToRel(<, Nat) <=> y < x
  BY DEF OpToRel
<1>2. QED
  BY <1>1, NatLessThanWellFounded, Zenon

\* A set of natural numbers that is not empty has a least member.
LEMMA Least ==
    ASSUME NEW sub \in SUBSET Nat, sub # {}
    PROVE  \E x \in sub : \A y \in sub : x <= y
<1>1. PICK rel : IsWellFoundedOn(rel, Nat) /\ \A x, y \in Nat : <<y, x>> \in rel <=> y < x
  BY LessIsWellFounded
<1>2. PICK x \in sub : \A y \in sub : ~ (<<y, x>> \in rel)
  BY <1>1, WFMin
<1>3. ASSUME NEW y \in sub PROVE x <= y
  <2>1. x \in Nat /\ y \in Nat
    OBVIOUS
  <2>2. ~ (y < x)
    BY <1>1, <1>2, <2>1
  <2>3. QED
    BY <2>1, <2>2
<1>4. QED
  BY <1>3

\* Induction: a set with 0 and with n + 1 for each n in it holds every number.
LEMMA SetInduction ==
    ASSUME NEW dom, 0 \in dom, \A n \in Nat : n \in dom => n + 1 \in dom
    PROVE  Nat \subseteq dom
<1> DEFINE sub == Nat \ dom
<1> SUFFICES ASSUME sub # {} PROVE FALSE
  OBVIOUS
<1>1. sub \in SUBSET Nat
  OBVIOUS
<1> HIDE DEF sub
<1>2. PICK x \in sub : \A y \in sub : x <= y
  BY <1>1, Least
<1> USE DEF sub
<1>3. x \in Nat /\ x # 0
  OBVIOUS
<1>4. x - 1 \in Nat /\ ~(x <= x - 1)
  BY <1>3
<1>5. x - 1 \in dom
  BY <1>2, <1>4
<1>6. x - 1 + 1 = x
  BY <1>3
<1>7. QED
  BY <1>4, <1>5, <1>6

\* choose picks a member of every non-empty subset of dom.
Chooses(choose(_), dom) == \A sub \in SUBSET dom : sub # {} => choose(sub) \in sub

\* value is the fold of op over f on dom: the last entry of a function that folds every subset.
IsFold(value, op(_, _), base, f(_), choose(_), dom) ==
    \E g : /\ value = g[dom]
           /\ g = [sub \in SUBSET dom |->
                     IF sub = {} THEN base ELSE op(f(choose(sub)), g[sub \ {choose(sub)}])]

\* MapThenFoldSet, whose definition is recursive, is such a fold on a finite set.
LEMMA FoldIsFunction ==
    ASSUME NEW op(_, _), NEW base, NEW f(_), NEW choose(_), NEW dom, IsFiniteSet(dom), Chooses(choose, dom)
    PROVE  IsFold(MapThenFoldSet(op, base, f, choose, dom), op, base, f, choose, dom)
<1> DEFINE Def(h, s) == IF s = {} THEN base ELSE op(f(choose(s)), h[s \ {choose(s)}])
           all == SUBSET dom
           rel == StrictSubsetOrdering(dom)
           g == CHOOSE h : h = [s \in all |-> Def(h, s)]
<1>1. IsWellFoundedOn(rel, all)
  BY FS_FiniteSubsetsOfFinite, FS_StrictSubsetOrderingWellFounded
<1>2. WFDefOn(rel, all, Def)
  <2> SUFFICES ASSUME NEW h, NEW k, NEW s \in all,
                      \A y \in SetLessThan(s, rel, all) : h[y] = k[y]
               PROVE  Def(h, s) = Def(k, s)
    BY DEF WFDefOn
  <2>1. CASE s = {}
    BY <2>1
  <2>2. CASE s # {}
    <3>1. choose(s) \in s
      BY <2>2 DEF Chooses
    <3>2. s \ {choose(s)} \in SetLessThan(s, rel, all)
      BY <3>1 DEF SetLessThan, StrictSubsetOrdering
    <3>3. h[s \ {choose(s)}] = k[s \ {choose(s)}]
      BY <3>2
    <3> QED
      BY <2>2, <3>3
  <2> QED
    BY <2>1, <2>2
<1>3. OpDefinesFcn(g, all, Def)
  BY DEF OpDefinesFcn
<1>4. MapThenFoldSet(op, base, f, choose, dom) = g[dom]
  BY DEF MapThenFoldSet
<1> HIDE DEF g
<1>5. WFInductiveDefines(g, all, Def)
  <2> HIDE DEF rel, all, Def
  <2> QED BY <1>1, <1>2, <1>3, WFInductiveDef
<1>6. g = [s \in all |-> Def(g, s)]
  BY <1>5 DEF WFInductiveDefines
<1> QED
  BY <1>4, <1>6 DEF IsFold

\* The largest number of an interval from 1.
LEMMA MaxOfInterval == ASSUME NEW n \in Nat, n # 0 PROVE Max(1 .. n) = n
<1>1. \A x \in 1 .. n : (\A y \in 1 .. n : x >= y) <=> x = n
  OBVIOUS
<1> QED
  BY <1>1 DEF Max

\* A non-empty set of numbers up to n has its maximum in it.
LEMMA MaxInSet == ASSUME NEW n \in Nat, NEW sub \in SUBSET (1 .. n), sub # {} PROVE Max(sub) \in sub
<1> SUFFICES \E x \in sub : \A y \in sub : x >= y
  BY DEF Max
<1> DEFINE ups == {k \in 0 .. n : \A y \in sub : y <= k}
<1>1. ups \subseteq Nat /\ n \in ups
  OBVIOUS
<1>2. PICK k \in ups : \A y \in ups : k <= y
  BY <1>1, Least
<1>3. CASE k \in sub
  BY <1>2, <1>3
<1>4. CASE k \notin sub
  <2>1. \A y \in sub : y <= k /\ y # k
    BY <1>2, <1>4
  <2>0. PICK y \in sub : TRUE
    OBVIOUS
  <2>2. k \in Nat /\ k # 0
    <3>1. y \in 1 .. n /\ y <= k /\ k \in 0 .. n
      BY <2>0, <2>1
    <3> QED
      BY <3>1
  <2>3. k - 1 \in ups
    BY <2>1, <2>2
  <2> QED
    BY <1>2, <2>2, <2>3
<1> QED
  BY <1>3, <1>4

\* value is the fold of op along the n elements of s, from the left.
IsLeftFold(value, op(_, _), base, s, n) ==
    \E h : /\ value = h[n]
           /\ h = [k \in 0 .. n |-> IF k = 0 THEN base ELSE op(h[k - 1], s[k])]

\* FoldLeft is such a fold.
LEMMA FoldLeftIsFunction ==
    ASSUME NEW op(_, _), NEW base, NEW s, NEW n \in Nat, DOMAIN s = 1 .. n
    PROVE  IsLeftFold(FoldLeft(op, base, s), op, base, s, n)
<1> DEFINE rev(x, y) == op(y, x)
           elem(k) == s[k]
           big(sub) == Max(sub)
<1>1. IsFiniteSet(1 .. n)
  BY FS_Interval
<1>2. Chooses(big, 1 .. n)
  BY MaxInSet DEF Chooses
<1>3. FoldLeft(op, base, s) = MapThenFoldSet(rev, base, elem, big, 1 .. n)
  BY DEF FoldLeft
<1>4. IsFold(MapThenFoldSet(rev, base, elem, big, 1 .. n), rev, base, elem, big, 1 .. n)
  <2> HIDE DEF rev, elem, big
  <2> QED
    BY <1>1, <1>2, FoldIsFunction
<1>5. PICK g : /\ MapThenFoldSet(rev, base, elem, big, 1 .. n) = g[1 .. n]
               /\ g = [sub \in SUBSET (1 .. n) |->
                        IF sub = {} THEN base ELSE rev(elem(big(sub)), g[sub \ {big(sub)}])]
  BY <1>4 DEF IsFold
<1> DEFINE h == [k \in 0 .. n |-> g[1 .. k]]
<1>6. ASSUME NEW k \in 0 .. n PROVE h[k] = IF k = 0 THEN base ELSE op(h[k - 1], s[k])
  <2>1. CASE k = 0
    <3>1. 1 .. k = {}
      BY <2>1
    <3> QED
      BY <1>5, <2>1, <3>1
  <2>2. CASE k # 0
    <3>0. k \in Nat /\ k # 0
      BY <2>2
    <3>a. big(1 .. k) = k
      BY <3>0, MaxOfInterval
    <3>b. k \in 1 .. k /\ \A x \in 1 .. k : x \in 1 .. n
      BY <3>0
    <3>1. 1 .. k # {} /\ 1 .. k \in SUBSET (1 .. n) /\ big(1 .. k) = k
      <4> HIDE DEF big
      <4> QED
        BY <3>a, <3>b
    <3>2. (1 .. k) \ {k} = 1 .. (k - 1)
      BY <2>2
    <3>3. g[1 .. k] = rev(elem(big(1 .. k)), g[(1 .. k) \ {big(1 .. k)}])
      BY <1>5, <3>1
    <3>4. g[1 .. k] = op(g[1 .. (k - 1)], s[k])
      BY <3>1, <3>2, <3>3
    <3>5. h[k - 1] = g[1 .. (k - 1)]
      BY <2>2
    <3> QED
      BY <2>2, <3>4, <3>5
  <2> QED
    BY <2>1, <2>2
<1>7. h = [k \in 0 .. n |-> IF k = 0 THEN base ELSE op(h[k - 1], s[k])]
  BY <1>6
<1>8. FoldLeft(op, base, s) = g[1 .. n]
  BY <1>3, <1>5
<1>9. g[1 .. n] = h[n]
  OBVIOUS
<1> QED
  BY <1>7, <1>8, <1>9 DEF IsLeftFold

\* Division with remainder.
LEMMA Times ==
    ASSUME NEW w \in Nat, NEW n \in Nat
    PROVE  w * n \in Nat /\ w * (n + 1) = w * n + w
OBVIOUS

\* Division with remainder, by induction.
LEMMA RemainderExists ==
    ASSUME NEW w \in Nat \ {0}, NEW x \in Nat
    PROVE  \E q \in Nat, rest \in 0 .. w - 1 : x = w * q + rest
<1> DEFINE good == {y \in Nat : \E q \in Nat, rest \in 0 .. w - 1 : y = w * q + rest}
<1>1. 0 \in good
  <2>1. 0 = w * 0 + 0 /\ 0 \in 0 .. w - 1
    OBVIOUS
  <2> QED
    BY <2>1
<1>2. ASSUME NEW y \in Nat, y \in good PROVE y + 1 \in good
  <2>1. PICK q \in Nat, rest \in 0 .. w - 1 : y = w * q + rest
    BY <1>2
  <2>2. CASE rest + 1 < w
    <3>1. y + 1 = w * q + (rest + 1) /\ rest + 1 \in 0 .. w - 1
      BY <2>1, <2>2
    <3> QED
      BY <3>1
  <2>3. CASE rest + 1 >= w
    <3>1. rest + 1 = w
      BY <2>3
    <3>2. w * (q + 1) = w * q + w /\ w * q \in Nat
      BY Times
    <3> DEFINE more == q + 1
    <3>3. y + 1 = w * more + 0 /\ 0 \in 0 .. w - 1 /\ more \in Nat
      BY <2>1, <3>1, <3>2
    <3> HIDE DEF more
    <3> QED
      BY <3>3
  <2> QED
    BY <2>2, <2>3
<1> HIDE DEF good
<1>3. x \in good
  BY <1>1, <1>2, SetInduction
<1> QED
  BY <1>3 DEF good

\* There is one remainder.
LEMMA RemainderIs ==
    ASSUME NEW w \in Nat \ {0}, NEW x \in Nat, NEW q \in Nat, NEW rest \in 0 .. w - 1, x = w * q + rest
    PROVE  x % w = rest /\ x \div w = q
OBVIOUS

\* It is what % and \\div return.
LEMMA Remainder ==
    ASSUME NEW w \in Nat \ {0}, NEW x \in Nat
    PROVE  \E q \in Nat, rest \in 0 .. w - 1 : x = w * q + rest /\ x % w = rest /\ x \div w = q
BY RemainderExists, RemainderIs

-----------------------------------------------------------------------------
\* A division of integers.
LEMMA QuotientIs ==
    ASSUME NEW w \in Nat \ {0}, NEW x \in Int, NEW q \in Int, NEW rest \in 0 .. w - 1, x = w * q + rest
    PROVE  x % w = rest /\ x \div w = q
OBVIOUS

\* Where the parts of an interval begin: n parts of q, the first rest ones with one more.
LEMMA NaiveIs ==
    ASSUME NEW b \in Int, NEW e \in Int, b <= e, NEW n \in Nat \ {0}, NEW q \in Nat, NEW rest \in 0 .. n - 1,
           e - b = n * q + rest, NEW k \in 0 .. n - 1, NEW x \in Nat, x = k * q
    PROVE  Naive(b, e, n, k) = IF k < rest THEN << b + (x + k), b + (x + k) + q + 1 >>
                                           ELSE << b + rest + x, b + rest + x + q >>
<1> DEFINE d == e - b
<1>1. d \in Nat
  OBVIOUS
<1> HIDE DEF d
<1>2. d = n * q + rest
  BY DEF d
<1>3. d % n = rest /\ d \div n = q
  BY <1>1, <1>2, RemainderIs
<1>4. k * (q + 1) = x + k
  <2>1. k * (q + 1) = k * q + k
    BY Times
  <2> QED
    BY <2>1
<1>5. Naive(b, e, n, k) = IF k < rest THEN << b + k * (q + 1), b + k * (q + 1) + q + 1 >>
                                      ELSE << b + rest + k * q, b + rest + k * q + q >>
  BY <1>3, Zenon DEF Naive, d
<1> QED
  BY <1>4, <1>5

\* For any interval and any number of parts (mys_partition_naive, linalg.c):
\* the parts follow each other over all of it, and no part is more than one
\* longer than another.
THEOREM NaivePartsFit ==
    ASSUME NEW b \in Int, NEW e \in Int, b <= e, NEW n \in Nat \ {0}
    PROVE  NaivePartitions(b, e, n)
<1> DEFINE d == e - b
<1>1. d \in Nat
  OBVIOUS
<1> HIDE DEF d
<1>2. PICK q \in Nat, rest \in 0 .. n - 1 : d = n * q + rest
  BY <1>1, Remainder
<1> DEFINE P(k) == Naive(b, e, n, k)
           x(k) == k * q
<1>3. ASSUME NEW k \in 0 .. n - 1
      PROVE  /\ x(k) \in Nat
             /\ P(k) = IF k < rest THEN << b + (x(k) + k), b + (x(k) + k) + q + 1 >>
                                   ELSE << b + rest + x(k), b + rest + x(k) + q >>
  <2>1. k \in Nat /\ k * q \in Nat /\ e - b = n * q + rest
    BY <1>2, Times DEF d
  <2> QED
    BY <2>1, NaiveIs
<1>4. \A k \in 0 .. n - 1 : k + 1 \in 0 .. n - 1 => x(k + 1) = x(k) + q
  <2> SUFFICES ASSUME NEW k \in 0 .. n - 1 PROVE (k + 1) * q = k * q + q
    OBVIOUS
  <2>1. q * (k + 1) = q * k + q
    BY Times
  <2> QED
    BY <2>1
<1>5. x(0) = 0 /\ x(n - 1) + q = d - rest
  <2>1. 0 * q = 0
    OBVIOUS
  <2>2. q * ((n - 1) + 1) = q * (n - 1) + q
    BY Times
  <2>3. (n - 1) + 1 = n
    OBVIOUS
  <2>4. q * n = (n - 1) * q + q
    BY <2>2, <2>3
  <2>5. q * n = n * q
    OBVIOUS
  <2>6. n * q \in Nat /\ (n - 1) * q \in Nat
    BY Times
  <2> QED
    BY <1>2, <2>1, <2>4, <2>5, <2>6
<1> HIDE DEF P, x
<1>6. P(0)[1] = b
  BY <1>3, <1>5
<1>7. P(n - 1)[2] = e
  <2>1. n - 1 \in 0 .. n - 1 /\ ~(n - 1 < rest)
    OBVIOUS
  <2>2. P(n - 1) = << b + rest + x(n - 1), b + rest + x(n - 1) + q >> /\ x(n - 1) \in Nat
    BY <1>3, <2>1
  <2> QED
    BY <1>1, <1>5, <2>2 DEF d
<1>8. ASSUME NEW k \in 0 .. n - 2 PROVE P(k)[2] = P(k + 1)[1]
  <2>1. k \in 0 .. n - 1 /\ k + 1 \in 0 .. n - 1
    OBVIOUS
  <2> QED
    BY <1>3, <1>4, <2>1
<1>9. ASSUME NEW k \in 0 .. n - 1
      PROVE  /\ P(k)[2] - P(k)[1] \in {q, q + 1}
             /\ P(n - 1)[2] - P(n - 1)[1] = q
  <2>1. n - 1 \in 0 .. n - 1 /\ ~(n - 1 < rest)
    OBVIOUS
  <2>2. P(n - 1) = << b + rest + x(n - 1), b + rest + x(n - 1) + q >> /\ x(n - 1) \in Nat
    BY <1>3, <2>1
  <2>3. x(k) \in Nat
    BY <1>3
  <2>4. CASE k < rest
    <3>1. P(k) = << b + (x(k) + k), b + (x(k) + k) + q + 1 >>
      BY <1>3, <2>4
    <3> QED
      BY <2>2, <2>3, <3>1
  <2>5. CASE ~(k < rest)
    <3>1. P(k) = << b + rest + x(k), b + rest + x(k) + q >>
      BY <1>3, <2>5
    <3> QED
      BY <2>2, <2>3, <3>1
  <2> QED
    BY <2>4, <2>5
<1>10. ASSUME NEW k \in 0 .. n - 1
       PROVE  /\ P(k)[2] - P(k)[1] >= 0
              /\ P(k)[2] - P(k)[1] \in P(n - 1)[2] - P(n - 1)[1] .. P(n - 1)[2] - P(n - 1)[1] + 1
  BY <1>9
<1> QED
  BY <1>6, <1>7, <1>8, <1>10, Zenon DEF NaivePartitions, P

-----------------------------------------------------------------------------
\* f is the function on dom that satisfies the equation f[x] = Def(f, x).
Defined(f, Def(_, _), dom) == f = CHOOSE g : g = [x \in dom |-> Def(g, x)]

\* f satisfies it.
Recurses(f, Def(_, _), dom) == f = [x \in dom |-> Def(f, x)]

\* Def uses the function at members of dom of a smaller size only.
Descends(Def(_, _), dom, measure) ==
    /\ \A x \in dom : measure[x] \in Nat
    /\ \A g, h : \A x \in dom :
          (\A y \in dom : measure[y] < measure[x] => g[y] = h[y]) => Def(g, x) = Def(h, x)

\* Then there is such a function.
LEMMA RecursionDefines ==
    ASSUME NEW Def(_, _), NEW dom, NEW measure, NEW f, Descends(Def, dom, measure), Defined(f, Def, dom)
    PROVE  Recurses(f, Def, dom)
<1> DEFINE rel == {xy \in dom \X dom : measure[xy[1]] < measure[xy[2]]}
<1>1. \A x \in dom : measure[x] \in Nat
  BY DEF Descends
<1>2. ASSUME NEW sub, sub \subseteq dom, sub # {} PROVE \E x \in sub : \A y \in sub : ~ (<<y, x>> \in rel)
  <2> DEFINE sizes == {measure[x] : x \in sub}
  <2>1. sizes \in SUBSET Nat /\ sizes # {}
    BY <1>1, <1>2
  <2>2. PICK n \in sizes : \A k \in sizes : n <= k
    BY <2>1, Least
  <2>3. PICK x \in sub : n = measure[x]
    BY <2>2
  <2>4. \A y \in sub : measure[x] <= measure[y]
    BY <2>2, <2>3
  <2>5. ASSUME NEW y \in sub PROVE ~ (measure[y] < measure[x])
    <3>1. measure[x] \in Nat /\ measure[y] \in Nat
      BY <1>1, <1>2
    <3> QED
      BY <2>4, <3>1
  <2> QED
    BY <2>5
<1>3. IsWellFoundedOn(rel, dom)
  BY <1>2, MinWF
<1>4. WFDefOn(rel, dom, Def)
  <2> SUFFICES ASSUME NEW g, NEW h, NEW x \in dom, \A y \in SetLessThan(x, rel, dom) : g[y] = h[y]
               PROVE  Def(g, x) = Def(h, x)
    BY DEF WFDefOn
  <2>1. ASSUME NEW y \in dom, measure[y] < measure[x] PROVE g[y] = h[y]
    BY <2>1 DEF SetLessThan
  <2> QED
    BY <2>1 DEF Descends
<1>5. OpDefinesFcn(f, dom, Def)
  BY DEF OpDefinesFcn, Defined
<1> HIDE DEF rel
<1>6. WFInductiveDefines(f, dom, Def)
  BY <1>3, <1>4, <1>5, WFInductiveDef
<1> QED
  BY <1>6 DEF WFInductiveDefines, Recurses

-----------------------------------------------------------------------------
\* A cut is inside of the interval that is cut: that by weight,
LEMMA FirstCutInside ==
    ASSUME NEW w, NEW tol, NEW b \in Nat, NEW e \in Nat, b <= e
    PROVE  FirstCut(w, b, e, tol).at \in b .. e
<1> DEFINE found == {m \in b .. e - 1 : 2 * tol[2] * Weight(w, b, m + 1) >= tol[1] * Weight(w, b, e)}
<1>1. FirstCut(w, b, e, tol).at = IF found = {} THEN e ELSE Min(found)
  BY DEF FirstCut
<1>2. found \subseteq b .. e - 1 /\ found \in SUBSET Nat
  OBVIOUS
<1> HIDE DEF found
<1>3. CASE found = {}
  BY <1>1, <1>3
<1>4. CASE found # {}
  <2>1. PICK m \in found : \A k \in found : m <= k
    BY <1>2, <1>4, Least
  <2>2. Min(found) \in found
    BY <2>1 DEF Min
  <2>3. Min(found) \in b .. e - 1 /\ FirstCut(w, b, e, tol).at = Min(found)
    BY <1>1, <1>2, <1>4, <2>2
  <2>4. FirstCut(w, b, e, tol).at \in b .. e - 1
    BY <2>3
  <2> QED
    BY <2>4
<1> QED
  BY <1>3, <1>4

\* those that are tested,
LEMMA TestCutInside ==
    ASSUME NEW b \in Nat, NEW e \in Nat, b <= e, NEW k \in Nat
    PROVE  b + (e - b) \div (k + 1) \in b .. e
<1> DEFINE x == e - b
           d == k + 1
<1>1. x \in Nat /\ d \in Nat \ {0}
  OBVIOUS
<1> HIDE DEF x, d
<1>2. PICK q \in Nat, rest \in 0 .. d - 1 : x = d * q + rest /\ x \div d = q
  BY <1>1, Remainder
<1>3. q <= x
  <2>1. d * q = k * q + q
    <3>1. q * (k + 1) = q * k + q
      BY Times
    <3> QED
      BY <3>1 DEF d
  <2>2. k * q \in Nat
    BY Times
  <2> QED
    BY <1>2, <2>1, <2>2
<1>4. b + x \div d \in b .. e
  BY <1>2, <1>3 DEF x
<1> QED
  BY <1>4 DEF x, d

\* and therefore that which is taken.
LEMMA CutInside ==
    ASSUME NEW w, NEW tol, NEW tests \in Nat \ {0}, NEW b \in Nat, NEW e \in Nat, b <= e
    PROVE  Cut(w, b, e, tol, tests) \in b .. e
<1> DEFINE n == tests - 1
           s == [k \in 1 .. tests - 1 |-> k]
           away(c) == Distance(Weight(w, b, e), 2 * c.sum)
           test(k) == LET m == b + (e - b) \div (k + 1) IN [at |-> m, sum |-> Weight(w, b, m)]
           better(best, k) == IF away(test(k)) < away(best) THEN test(k) ELSE best
           first == FirstCut(w, b, e, tol)
<1>1. Cut(w, b, e, tol, tests) = FoldLeft(better, first, s).at
  BY DEF Cut
<1>2. n \in Nat /\ DOMAIN s = 1 .. n
  OBVIOUS
<1>3. first.at \in b .. e
  BY FirstCutInside
<1>4. ASSUME NEW k \in Nat PROVE test(k).at \in b .. e
  BY TestCutInside
<1>5. ASSUME NEW best, best.at \in b .. e, NEW k \in Nat PROVE better(best, k).at \in b .. e
  <2> HIDE DEF away, test
  <2> QED
    BY <1>4, <1>5
<1>6. \A k \in 1 .. n : s[k] \in Nat
  OBVIOUS
<1> HIDE DEF better, n, s, first
<1>7. IsLeftFold(FoldLeft(better, first, s), better, first, s, n)
  BY <1>2, FoldLeftIsFunction
<1>8. PICK h : /\ FoldLeft(better, first, s) = h[n]
               /\ h = [k \in 0 .. n |-> IF k = 0 THEN first ELSE better(h[k - 1], s[k])]
  BY <1>7 DEF IsLeftFold
<1> DEFINE good == {k \in Nat : k \in 0 .. n => h[k].at \in b .. e}
<1>9. 0 \in good
  BY <1>2, <1>3, <1>8
<1>10. ASSUME NEW k \in Nat, k \in good PROVE k + 1 \in good
  <2> SUFFICES ASSUME k + 1 \in 0 .. n PROVE h[k + 1].at \in b .. e
    OBVIOUS
  <2>1. k \in 0 .. n /\ k + 1 \in 1 .. n /\ k + 1 # 0 /\ (k + 1) - 1 = k
    BY <1>2
  <2>2. h[k].at \in b .. e /\ s[k + 1] \in Nat
    BY <1>6, <1>10, <2>1
  <2>3. h[k + 1] = better(h[k], s[k + 1])
    BY <1>8, <2>1
  <2> QED
    BY <1>5, <2>2, <2>3
<1> HIDE DEF good
<1>11. n \in good
  BY <1>2, <1>9, <1>10, SetInduction
<1>12. h[n].at \in b .. e
  BY <1>2, <1>11 DEF good
<1> QED
  BY <1>1, <1>8, <1>12

\* A call of mys_partition_rcb.
RcbCall(b, e, n, p) == [begin |-> b, end |-> e, npart |-> n, ipart |-> p]

\* f has the result of each of them.
RcbResults(f, w, tol, tests, npart) ==
    \A call \in RcbCalls(w, npart) :
        LET c == Cut(w, call.begin, call.end, tol, tests)
            half == call.npart \div 2
        IN f[call] = IF call.npart = 1 THEN << call.begin, call.end >>
                     ELSE IF call.ipart < half THEN f[RcbCall(call.begin, c, half, call.ipart)]
                     ELSE f[RcbCall(c, call.end, call.npart - half, call.ipart - half)]

\* The calls that a call makes are calls, for fewer parts.
LEMMA RcbCallsMake ==
    ASSUME NEW w \in Seq(Nat), NEW tol, NEW tests \in Nat \ {0}, NEW npart \in Nat \ {0},
           NEW call \in RcbCalls(w, npart), call.npart # 1
    PROVE  LET c == Cut(w, call.begin, call.end, tol, tests)
               half == call.npart \div 2
           IN /\ half \in 1 .. call.npart - 1 /\ c \in call.begin .. call.end
              /\ call.ipart < half => RcbCall(call.begin, c, half, call.ipart) \in RcbCalls(w, npart)
              /\ ~(call.ipart < half) => RcbCall(c, call.end, call.npart - half, call.ipart - half) \in RcbCalls(w, npart)
<1> DEFINE c == Cut(w, call.begin, call.end, tol, tests)
           half == call.npart \div 2
<1>1. /\ call.begin \in 0 .. Len(w) /\ call.end \in 0 .. Len(w) /\ call.begin <= call.end
      /\ call.npart \in 1 .. npart /\ call.ipart \in 0 .. npart - 1 /\ call.ipart < call.npart
      /\ Len(w) \in Nat
  BY DEF RcbCalls
<1>2. c \in call.begin .. call.end
  BY <1>1, CutInside
<1>3. half \in 1 .. call.npart - 1
  BY <1>1
<1> HIDE DEF c, half
<1>4. call.ipart < half => RcbCall(call.begin, c, half, call.ipart) \in RcbCalls(w, npart)
  BY <1>1, <1>2, <1>3 DEF RcbCalls, RcbCall
<1>5. ~(call.ipart < half) => RcbCall(c, call.end, call.npart - half, call.ipart - half) \in RcbCalls(w, npart)
  BY <1>1, <1>2, <1>3 DEF RcbCalls, RcbCall
<1> QED
  BY <1>2, <1>3, <1>4, <1>5 DEF c, half

\* So the recursion ends.
LEMMA RcbEnds ==
    ASSUME NEW w \in Seq(Nat), NEW tol, NEW tests \in Nat \ {0}, NEW npart \in Nat \ {0}
    PROVE  \E f : /\ RcbResults(f, w, tol, tests, npart)
                  /\ \A p : Rcb(w, tol, tests, npart, p) = f[RcbCall(0, Len(w), npart, p)]
<1> DEFINE dom == RcbCalls(w, npart)
           cut(call) == Cut(w, call.begin, call.end, tol, tests)
           half(call) == call.npart \div 2
           Def(g, call) ==
               IF call.npart = 1 THEN << call.begin, call.end >>
               ELSE IF call.ipart < half(call) THEN g[RcbCall(call.begin, cut(call), half(call), call.ipart)]
               ELSE g[RcbCall(cut(call), call.end, call.npart - half(call), call.ipart - half(call))]
           parts == [call \in dom |-> call.npart]
           f == CHOOSE g : g = [call \in dom |-> Def(g, call)]
<1>1. \A p : Rcb(w, tol, tests, npart, p) = f[RcbCall(0, Len(w), npart, p)]
  BY Zenon DEF Rcb, RcbCall
<1>2. Defined(f, Def, dom)
  BY Zenon DEF Defined
<1>3. Descends(Def, dom, parts)
  <2>1. \A call \in dom : parts[call] \in Nat
    BY DEF RcbCalls
  <2>2. ASSUME NEW g, NEW h, NEW call \in dom, \A y \in dom : parts[y] < parts[call] => g[y] = h[y]
        PROVE  Def(g, call) = Def(h, call)
    <3>1. CASE call.npart = 1
      BY <3>1
    <3>2. CASE call.npart # 1
      <4>1. /\ half(call) \in 1 .. call.npart - 1 /\ call.npart \in Nat
            /\ call.ipart < half(call) => RcbCall(call.begin, cut(call), half(call), call.ipart) \in dom
            /\ ~(call.ipart < half(call))
                 => RcbCall(cut(call), call.end, call.npart - half(call), call.ipart - half(call)) \in dom
        BY <2>1, <3>2, RcbCallsMake
      <4> HIDE DEF half, cut, dom
      <4>2. /\ RcbCall(call.begin, cut(call), half(call), call.ipart).npart < call.npart
            /\ RcbCall(cut(call), call.end, call.npart - half(call), call.ipart - half(call)).npart < call.npart
        BY <4>1 DEF RcbCall
      <4> HIDE DEF Def
      <4>3. CASE call.ipart < half(call)
        <5> DEFINE y == RcbCall(call.begin, cut(call), half(call), call.ipart)
        <5>1. y \in dom /\ parts[y] < parts[call]
          BY <4>1, <4>2, <4>3
        <5>2. g[y] = h[y]
          BY <2>2, <5>1
        <5> QED
          BY <3>2, <4>3, <5>2 DEF Def
      <4>4. CASE ~(call.ipart < half(call))
        <5> DEFINE y == RcbCall(cut(call), call.end, call.npart - half(call), call.ipart - half(call))
        <5>1. y \in dom /\ parts[y] < parts[call]
          BY <4>1, <4>2, <4>4
        <5>2. g[y] = h[y]
          BY <2>2, <5>1
        <5> QED
          BY <3>2, <4>4, <5>2 DEF Def
      <4> QED
        BY <4>3, <4>4
    <3> QED
      BY <3>1, <3>2
  <2> HIDE DEF Def, dom, parts
  <2> QED
    BY <2>1, <2>2 DEF Descends
<1> HIDE DEF f, Def, dom, parts
<1>4. Recurses(f, Def, dom)
  BY <1>2, <1>3, RecursionDefines, SMTT(30)
<1>5. RcbResults(f, w, tol, tests, npart)
  BY <1>4 DEF Recurses, RcbResults, Def, dom
<1> QED
  BY <1>1, <1>5

\* The parts of a call follow each other over its interval.
RcbFits(f, b, e, n) ==
    /\ f[RcbCall(b, e, n, 0)][1] = b
    /\ f[RcbCall(b, e, n, n - 1)][2] = e
    /\ \A p \in 0 .. n - 1 : f[RcbCall(b, e, n, p)][1] <= f[RcbCall(b, e, n, p)][2]
    /\ \A p \in 0 .. n - 2 : f[RcbCall(b, e, n, p)][2] = f[RcbCall(b, e, n, p + 1)][1]

\* So do those of one that makes two calls whose parts do.
LEMMA RcbJoins ==
    ASSUME NEW f, NEW b, NEW e, NEW c, NEW n \in Nat, NEW half \in 1 .. n - 1,
           RcbFits(f, b, c, half), RcbFits(f, c, e, n - half),
           \A p \in 0 .. n - 1 : f[RcbCall(b, e, n, p)] = IF p < half THEN f[RcbCall(b, c, half, p)]
                                                         ELSE f[RcbCall(c, e, n - half, p - half)]
    PROVE  RcbFits(f, b, e, n)
<1> DEFINE P(p) == f[RcbCall(b, e, n, p)]
           L(p) == f[RcbCall(b, c, half, p)]
           U(p) == f[RcbCall(c, e, n - half, p)]
<1>1. \A p \in 0 .. n - 1 : P(p) = IF p < half THEN L(p) ELSE U(p - half)
  OBVIOUS
<1>2. /\ L(0)[1] = b /\ L(half - 1)[2] = c
      /\ \A p \in 0 .. half - 1 : L(p)[1] <= L(p)[2]
      /\ \A p \in 0 .. half - 2 : L(p)[2] = L(p + 1)[1]
  BY Zenon DEF RcbFits
<1>3. /\ U(0)[1] = c /\ U(n - half - 1)[2] = e
      /\ \A p \in 0 .. n - half - 1 : U(p)[1] <= U(p)[2]
      /\ \A p \in 0 .. n - half - 2 : U(p)[2] = U(p + 1)[1]
  BY Zenon DEF RcbFits
<1> HIDE DEF P, L, U
<1>4. P(0)[1] = b
  BY <1>1, <1>2
<1>5. P(n - 1)[2] = e
  <2>1. n - 1 \in 0 .. n - 1 /\ ~(n - 1 < half) /\ (n - 1) - half = n - half - 1
    OBVIOUS
  <2> QED
    BY <1>1, <1>3, <2>1
<1>6. ASSUME NEW p \in 0 .. n - 1 PROVE P(p)[1] <= P(p)[2]
  <2>1. CASE p < half
    <3>1. p \in 0 .. half - 1
      BY <2>1
    <3> QED
      BY <1>1, <1>2, <2>1, <3>1
  <2>2. CASE ~(p < half)
    <3>1. p - half \in 0 .. n - half - 1
      BY <2>2
    <3> QED
      BY <1>1, <1>3, <2>2, <3>1
  <2> QED
    BY <2>1, <2>2
<1>7. ASSUME NEW p \in 0 .. n - 2 PROVE P(p)[2] = P(p + 1)[1]
  <2>0. p \in 0 .. n - 1 /\ p + 1 \in 0 .. n - 1
    OBVIOUS
  <2>1. CASE p + 1 < half
    <3>1. p \in 0 .. half - 2 /\ p < half
      BY <2>1
    <3> QED
      BY <1>1, <1>2, <2>0, <2>1, <3>1
  <2>2. CASE p + 1 = half
    <3>1. p = half - 1 /\ p < half /\ ~(p + 1 < half) /\ (p + 1) - half = 0
      BY <2>2
    <3> QED
      BY <1>1, <1>2, <1>3, <2>0, <3>1
  <2>3. CASE p + 1 > half
    <3>1. p - half \in 0 .. n - half - 2 /\ ~(p < half) /\ ~(p + 1 < half) /\ (p + 1) - half = (p - half) + 1
      BY <2>3
    <3> QED
      BY <1>1, <1>3, <2>0, <3>1
  <2> QED
    BY <2>1, <2>2, <2>3
<1> QED
  BY <1>4, <1>5, <1>6, <1>7, Zenon DEF RcbFits, P

\* By induction over the number of parts all calls do.
LEMMA RcbAllFit ==
    ASSUME NEW w \in Seq(Nat), NEW tol, NEW tests \in Nat \ {0}, NEW npart \in Nat \ {0},
           NEW f, RcbResults(f, w, tol, tests, npart)
    PROVE  \A n \in 1 .. npart : \A b \in 0 .. Len(w), e \in 0 .. Len(w) : b <= e => RcbFits(f, b, e, n)
<1> DEFINE all(n) == \A b \in 0 .. Len(w), e \in 0 .. Len(w) : b <= e => RcbFits(f, b, e, n)
           good == {k \in Nat : \A n \in 1 .. npart : n <= k => all(n)}
<1>0. Len(w) \in Nat
  OBVIOUS
<1>1. 0 \in good
  OBVIOUS
<1>2. ASSUME NEW k \in Nat, k \in good PROVE k + 1 \in good
  <2> SUFFICES ASSUME k + 1 \in 1 .. npart,
                      NEW b \in 0 .. Len(w), NEW e \in 0 .. Len(w), b <= e
               PROVE  RcbFits(f, b, e, k + 1)
    <3>1. \A n \in 1 .. npart : n <= k + 1 => n <= k \/ n = k + 1
      OBVIOUS
    <3> QED
      BY <1>2, <3>1
  <2> DEFINE n == k + 1
             c == Cut(w, b, e, tol, tests)
             half == n \div 2
  <2>0. n \in 1 .. npart /\ n \in Nat
    OBVIOUS
  <2>1. ASSUME NEW p \in 0 .. n - 1
        PROVE  /\ RcbCall(b, e, n, p) \in RcbCalls(w, npart)
               /\ f[RcbCall(b, e, n, p)] =
                    IF n = 1 THEN << b, e >>
                    ELSE IF p < half THEN f[RcbCall(b, c, half, p)]
                    ELSE f[RcbCall(c, e, n - half, p - half)]
    <3> HIDE DEF n
    <3>1. RcbCall(b, e, n, p) \in RcbCalls(w, npart)
      BY <1>0, <2>0 DEF RcbCalls, RcbCall
    <3>2. /\ RcbCall(b, e, n, p).begin = b /\ RcbCall(b, e, n, p).end = e
          /\ RcbCall(b, e, n, p).npart = n /\ RcbCall(b, e, n, p).ipart = p
      BY DEF RcbCall
    <3> QED
      BY <3>1, <3>2, Zenon DEF RcbResults
  <2>2. CASE n = 1
    <3>1. f[RcbCall(b, e, n, 0)] = << b, e >>
      BY <2>1, <2>2
    <3>2. n - 1 = 0 /\ 0 .. n - 1 = {0} /\ 0 .. n - 2 = {}
      BY <2>2
    <3> HIDE DEF n
    <3>3. RcbFits(f, b, e, n)
      BY <3>1, <3>2 DEF RcbFits
    <3> QED
      BY <3>3 DEF n
  <2>3. CASE n # 1
    <3>1. half \in 1 .. n - 1 /\ half \in 1 .. npart /\ n - half \in 1 .. npart /\ half <= k /\ n - half <= k
      BY <2>0, <2>3
    <3>2. c \in b .. e /\ c \in 0 .. Len(w) /\ b <= c /\ c <= e
      BY <1>0, CutInside
    <3>3. RcbFits(f, b, c, half) /\ RcbFits(f, c, e, n - half)
      <4> HIDE DEF n, c, half
      <4> QED
        BY <1>2, <3>1, <3>2
    <3>4. \A p \in 0 .. n - 1 : f[RcbCall(b, e, n, p)] = IF p < half THEN f[RcbCall(b, c, half, p)]
                                                         ELSE f[RcbCall(c, e, n - half, p - half)]
      BY <2>1, <2>3
    <3> HIDE DEF n, c, half
    <3>5. RcbFits(f, b, e, n)
      BY <2>0, <3>1, <3>3, <3>4, RcbJoins
    <3> QED
      BY <3>5 DEF n
  <2> QED
    BY <2>2, <2>3
<1> HIDE DEF good
<1>3. npart \in good
  BY <1>1, <1>2, SetInduction
<1> QED
  BY <1>3 DEF good

\* For any weights, tolerance, number of tests and of parts
\* (mys_partition_rcb, linalg.c): the parts follow each other over all elements,
\* though some can be empty.
THEOREM RcbPartsFit ==
    ASSUME NEW w \in Seq(Nat), NEW tol, NEW tests \in Nat \ {0}, NEW npart \in Nat \ {0}
    PROVE  RcbPartitions(w, tol, tests, npart)
<1>1. PICK f : /\ RcbResults(f, w, tol, tests, npart)
               /\ \A p : Rcb(w, tol, tests, npart, p) = f[RcbCall(0, Len(w), npart, p)]
  BY RcbEnds
<1>2. RcbFits(f, 0, Len(w), npart)
  <2>1. Len(w) \in Nat /\ 0 \in 0 .. Len(w) /\ Len(w) \in 0 .. Len(w) /\ 0 <= Len(w) /\ npart \in 1 .. npart
    OBVIOUS
  <2> QED
    BY <1>1, <2>1, RcbAllFit
<1> DEFINE part == [k \in 0 .. npart - 1 |-> Rcb(w, tol, tests, npart, k)]
<1>3. \A k \in 0 .. npart - 1 : part[k] = f[RcbCall(0, Len(w), npart, k)]
  BY <1>1
<1>4. /\ 0 \in 0 .. npart - 1 /\ npart - 1 \in 0 .. npart - 1
      /\ \A k \in 0 .. npart - 2 : k \in 0 .. npart - 1 /\ k + 1 \in 0 .. npart - 1
  OBVIOUS
<1>5. RcbPartitions(w, tol, tests, npart) <=>
          /\ part[0][1] = 0
          /\ part[npart - 1][2] = Len(w)
          /\ \A k \in 0 .. npart - 1 : part[k][1] <= part[k][2]
          /\ \A k \in 0 .. npart - 2 : part[k][2] = part[k + 1][1]
  BY Zenon DEF RcbPartitions
<1> HIDE DEF part
<1> QED
  BY <1>2, <1>3, <1>4, <1>5 DEF RcbFits

-----------------------------------------------------------------------------
\* The bytes of a source, and zeros behind it.
ByteAt(src, k) == IF k < Len(src) THEN src[k + 1] ELSE 0

\* The characters mys_base64_encode makes of them.
CharAt(src, c) ==
    LET k == 3 * (c \div 4)
    IN CASE c % 4 = 0 -> ByteAt(src, k) \div 4
         [] c % 4 = 1 -> (ByteAt(src, k) % 4) * 16 + ByteAt(src, k + 1) \div 16
         [] c % 4 = 2 -> IF k + 1 < Len(src) THEN (ByteAt(src, k + 1) % 16) * 4 + ByteAt(src, k + 2) \div 64 ELSE Pad
         [] OTHER -> IF k + 2 < Len(src) THEN ByteAt(src, k + 2) % 64 ELSE Pad

\* The first t of them.
Chars(src, t) == [c \in 1 .. t |-> CharAt(src, c - 1)]

\* How many characters n bytes give, and how many of them are digits.
NumChars(n) == ((n + 2) \div 3) * 4
NumDigits(n) == 4 * (n \div 3) + (IF n % 3 = 0 THEN 0 ELSE (n % 3) + 1)

\* How many of the first t of them are digits.
DigitsIn(n, t) == IF t < NumDigits(n) THEN t ELSE NumDigits(n)

\* How many bytes d digits give.
NumWhole(d) == IF d = 0 THEN 0 ELSE (d - 1) \div 4
NumBytes(d) == LET left == d - 4 * NumWhole(d)
               IN 3 * NumWhole(d) + (IF left > 1 THEN left - 1 ELSE 0)

\* A number is so many groups and a rest.
LEMMA InGroups ==
    ASSUME NEW c \in Nat
    PROVE  /\ \E g \in Nat, r \in 0 .. 3 : c = 4 * g + r
           /\ \E g \in Nat, r \in 0 .. 2 : c = 3 * g + r /\ c % 3 = r /\ c \div 3 = g
<1>1. c = 4 * (c \div 4) + (c % 4) /\ c \div 4 \in Nat /\ c % 4 \in 0 .. 3
  OBVIOUS
<1>2. c = 3 * (c \div 3) + (c % 3) /\ c \div 3 \in Nat /\ c % 3 \in 0 .. 2
  OBVIOUS
<1>3. \E g \in Nat, r \in 0 .. 3 : c = 4 * g + r
  BY <1>1
<1>4. \E g \in Nat, r \in 0 .. 2 : c = 3 * g + r /\ c % 3 = r /\ c \div 3 = g
  BY <1>2
<1> QED
  BY <1>3, <1>4

\* The bytes of a source are bytes.
LEMMA BytesAt ==
    ASSUME NEW src \in Seq(0 .. 255), NEW k \in Nat
    PROVE  ByteAt(src, k) \in 0 .. 255 /\ (k < Len(src) => ByteAt(src, k) = src[k + 1])
<1>1. Len(src) \in Nat /\ \A j \in 1 .. Len(src) : src[j] \in 0 .. 255
  BY LenProperties, ElementOfSeq, ZenonT(30)
<1>2. CASE k < Len(src)
  <2>1. k + 1 \in 1 .. Len(src)
    BY <1>1, <1>2
  <2>2. ByteAt(src, k) = src[k + 1]
    BY <1>2 DEF ByteAt
  <2>3. src[k + 1] \in 0 .. 255
    BY <1>1, <2>1
  <2> QED
    BY <2>2, <2>3
<1>3. CASE ~(k < Len(src))
  <2>1. ByteAt(src, k) = 0
    BY <1>3 DEF ByteAt
  <2> QED
    BY <1>3, <2>1
<1> QED
  BY <1>2, <1>3

\* These are numbers, and fit each other.
LEMMA NumbersOfChars ==
    ASSUME NEW n \in Nat
    PROVE  /\ NumChars(n) \in Nat /\ NumDigits(n) \in 0 .. NumChars(n)
           /\ EncodeLen(n) = NumChars(n) + 1
           /\ NumBytes(NumDigits(n)) = n
           /\ ((NumDigits(n) + 3) \div 4) * 3 >= n
<1>1. PICK q \in Nat, rest \in 0 .. 2 : n = 3 * q + rest /\ n % 3 = rest /\ n \div 3 = q
  BY Remainder
<1>2. CASE rest = 0
  BY <1>1, <1>2 DEF NumChars, NumDigits, NumBytes, NumWhole, EncodeLen
<1>3. CASE rest = 1
  BY <1>1, <1>3 DEF NumChars, NumDigits, NumBytes, NumWhole, EncodeLen
<1>4. CASE rest = 2
  BY <1>1, <1>4 DEF NumChars, NumDigits, NumBytes, NumWhole, EncodeLen
<1> QED
  BY <1>2, <1>3, <1>4

\* d digits that are there give no more than the source, and for each of their
\* bytes the digits it comes from are there.
LEMMA BytesOfDigits ==
    ASSUME NEW n \in Nat, NEW d \in 0 .. NumDigits(n)
    PROVE  /\ NumBytes(d) \in 0 .. n /\ NumWhole(d) \in Nat /\ NumDigits(n) \in Nat
           /\ \A b \in 0 .. NumBytes(d) - 1 : 4 * (b \div 3) + (b % 3) + 2 \in 1 .. d
<1>1. PICK q \in Nat, rest \in 0 .. 2 : n = 3 * q + rest /\ n % 3 = rest /\ n \div 3 = q
  BY Remainder
<1>2. NumDigits(n) = 4 * q + (IF rest = 0 THEN 0 ELSE rest + 1) /\ NumDigits(n) \in Nat
  BY <1>1 DEF NumDigits
<1>3. CASE d = 0
  BY <1>2, <1>3 DEF NumBytes, NumWhole
<1>4. CASE d # 0
  <2>1. PICK u \in Nat, left \in 1 .. 4 : d = 4 * u + left /\ NumWhole(d) = u
    <3>1. d - 1 \in Nat
      BY <1>2, <1>4
    <3> DEFINE x == d - 1
    <3> HIDE DEF x
    <3>2. PICK u \in Nat, r \in 0 .. 3 : x = 4 * u + r /\ x \div 4 = u
      BY <3>1, Remainder DEF x
    <3>3. d = 4 * u + (r + 1) /\ r + 1 \in 1 .. 4
      BY <3>1, <3>2 DEF x
    <3> QED
      BY <1>4, <3>2, <3>3 DEF NumWhole, x
  <2>2. NumBytes(d) = 3 * u + left - 1
    <3>1. d - 4 * u = left /\ (IF left > 1 THEN left - 1 ELSE 0) = left - 1
      BY <2>1
    <3>2. NumBytes(d) = 3 * u + (IF left > 1 THEN left - 1 ELSE 0)
      BY <2>1, <3>1 DEF NumBytes
    <3> QED
      BY <2>1, <3>1, <3>2
  <2>3. NumBytes(d) \in 0 .. n
    BY <1>1, <1>2, <2>1, <2>2
  <2>4. ASSUME NEW b \in 0 .. NumBytes(d) - 1 PROVE 4 * (b \div 3) + (b % 3) + 2 \in 1 .. d
    <3>1. b \in Nat
      BY <2>3
    <3>2. PICK v \in Nat, r \in 0 .. 2 : b = 3 * v + r /\ b % 3 = r /\ b \div 3 = v
      BY <3>1, Remainder
    <3> QED
      BY <2>1, <2>2, <3>2
  <2> QED
    BY <1>2, <2>1, <2>3, <2>4
<1> QED
  BY <1>3, <1>4

\* What a character is, by its place in a group of four.
LEMMA CharsOfGroup ==
    ASSUME NEW src, NEW g \in Nat
    PROVE  /\ CharAt(src, 4 * g) = ByteAt(src, 3 * g) \div 4
           /\ CharAt(src, 4 * g + 1) = (ByteAt(src, 3 * g) % 4) * 16 + ByteAt(src, 3 * g + 1) \div 16
           /\ CharAt(src, 4 * g + 2) =
                IF 3 * g + 1 < Len(src)
                THEN (ByteAt(src, 3 * g + 1) % 16) * 4 + ByteAt(src, 3 * g + 2) \div 64 ELSE Pad
           /\ CharAt(src, 4 * g + 3) = IF 3 * g + 2 < Len(src) THEN ByteAt(src, 3 * g + 2) % 64 ELSE Pad
<1>1. ASSUME NEW r \in 0 .. 3 PROVE (4 * g + r) % 4 = r /\ (4 * g + r) \div 4 = g
  OBVIOUS
<1>2. (4 * g) % 4 = 0 /\ (4 * g) \div 4 = g
  OBVIOUS
<1>3. /\ (4 * g + 1) % 4 = 1 /\ (4 * g + 1) \div 4 = g
      /\ (4 * g + 2) % 4 = 2 /\ (4 * g + 2) \div 4 = g
      /\ (4 * g + 3) % 4 = 3 /\ (4 * g + 3) \div 4 = g
  BY <1>1
<1>4. 0 # 1 /\ 0 # 2 /\ 1 # 2 /\ 1 # 0 /\ 2 # 0 /\ 2 # 1 /\ 3 # 0 /\ 3 # 1 /\ 3 # 2
  OBVIOUS
<1>5. CharAt(src, 4 * g) = ByteAt(src, 3 * g) \div 4
  BY <1>2 DEF CharAt
<1>6. CharAt(src, 4 * g + 1) = (ByteAt(src, 3 * g) % 4) * 16 + ByteAt(src, 3 * g + 1) \div 16
  BY <1>3, <1>4 DEF CharAt
<1>7. CharAt(src, 4 * g + 2) =
        IF 3 * g + 1 < Len(src) THEN (ByteAt(src, 3 * g + 1) % 16) * 4 + ByteAt(src, 3 * g + 2) \div 64 ELSE Pad
  BY <1>3, <1>4 DEF CharAt
<1>8. CharAt(src, 4 * g + 3) = IF 3 * g + 2 < Len(src) THEN ByteAt(src, 3 * g + 2) % 64 ELSE Pad
  BY <1>3, <1>4 DEF CharAt
<1> QED
  BY <1>5, <1>6, <1>7, <1>8

\* The digits are the first characters.
LEMMA CharsAreDigits ==
    ASSUME NEW src \in Seq(0 .. 255), NEW c \in 0 .. NumChars(Len(src)) - 1
    PROVE  /\ CharAt(src, c) \in 0 .. 64
           /\ CharAt(src, c) > 63 <=> c >= NumDigits(Len(src))
<1>1. PICK n \in Nat : n = Len(src)
  OBVIOUS
<1>2. PICK q \in Nat, rest \in 0 .. 2 : n = 3 * q + rest /\ n % 3 = rest /\ n \div 3 = q
  BY Remainder, SMTT(30)
<1>3. NumDigits(n) = 4 * q + (IF rest = 0 THEN 0 ELSE rest + 1) /\ NumChars(n) = 4 * q + (IF rest = 0 THEN 0 ELSE 4)
  <2>1. (n + 2) \div 3 = IF rest = 0 THEN q ELSE q + 1
    BY <1>2
  <2> QED
    BY <1>2, <2>1 DEF NumDigits, NumChars
<1>4. c \in Nat /\ c < NumChars(n)
  BY <1>1, <1>3
<1>5. PICK g \in Nat, r \in 0 .. 3 : c = 4 * g + r
  BY <1>4, InGroups
<1>6. 3 * g \in Nat /\ 3 * g + 1 \in Nat /\ 3 * g + 2 \in Nat
  OBVIOUS
<1>7. PICK x \in 0 .. 255, y \in 0 .. 255, z \in 0 .. 255 :
         x = ByteAt(src, 3 * g) /\ y = ByteAt(src, 3 * g + 1) /\ z = ByteAt(src, 3 * g + 2)
  BY <1>6, BytesAt, ZenonT(30)
<1>8. x \div 4 \in 0 .. 63 /\ (x % 4) * 16 + y \div 16 \in 0 .. 63 /\ (y % 16) * 4 + z \div 64 \in 0 .. 63 /\ z % 64 \in 0 .. 63
  OBVIOUS
<1>9. /\ CharAt(src, 4 * g) = x \div 4
      /\ CharAt(src, 4 * g + 1) = (x % 4) * 16 + y \div 16
      /\ CharAt(src, 4 * g + 2) = IF 3 * g + 1 < n THEN (y % 16) * 4 + z \div 64 ELSE Pad
      /\ CharAt(src, 4 * g + 3) = IF 3 * g + 2 < n THEN z % 64 ELSE Pad
  BY <1>1, <1>7, CharsOfGroup, ZenonT(30)
<1>10. Pad = 64
  BY DEF Pad
<1>15. \A v \in 0 .. 63 : v \in 0 .. 64 /\ ~(v > 63)
  OBVIOUS
<1>11. CASE r = 0
  <2>1. c = 4 * g /\ ~(c >= NumDigits(n))
    <3>1. c = 4 * g
      BY <1>5, <1>11
    <3>2. CASE rest = 0
      BY <1>3, <1>4, <3>1, <3>2
    <3>3. CASE rest # 0
      BY <1>3, <1>4, <3>1, <3>3
    <3> QED
      BY <3>1, <3>2, <3>3
  <2>2. CharAt(src, c) = x \div 4
    BY <1>9, <2>1
  <2>3. CharAt(src, c) \in 0 .. 63
    BY <1>8, <2>2
  <2>4. CharAt(src, c) \in 0 .. 64 /\ ~(CharAt(src, c) > 63)
    BY <1>15, <2>3, Zenon
  <2> QED
    BY <1>1, <2>1, <2>4, Zenon
<1>12. CASE r = 1
  <2>1. c = 4 * g + 1 /\ ~(c >= NumDigits(n))
    <3>1. c = 4 * g + 1
      BY <1>5, <1>12
    <3>2. CASE rest = 0
      BY <1>3, <1>4, <3>1, <3>2
    <3>3. CASE rest # 0
      BY <1>3, <1>4, <3>1, <3>3
    <3> QED
      BY <3>1, <3>2, <3>3
  <2>2. CharAt(src, c) = (x % 4) * 16 + y \div 16
    BY <1>9, <2>1
  <2>3. CharAt(src, c) \in 0 .. 63
    BY <1>8, <2>2
  <2>4. CharAt(src, c) \in 0 .. 64 /\ ~(CharAt(src, c) > 63)
    BY <1>15, <2>3, Zenon
  <2> QED
    BY <1>1, <2>1, <2>4, Zenon
<1>13. CASE r = 2
  <2>1. c = 4 * g + 2 /\ (c >= NumDigits(n) <=> ~(3 * g + 1 < n))
    BY <1>2, <1>3, <1>4, <1>5, <1>13
  <2>2. CharAt(src, c) = IF 3 * g + 1 < n THEN (y % 16) * 4 + z \div 64 ELSE Pad
    BY <1>9, <2>1
  <2>3. CASE 3 * g + 1 < n
    <3>1. CharAt(src, c) \in 0 .. 63
      BY <1>8, <2>2, <2>3
    <3>2. CharAt(src, c) \in 0 .. 64 /\ ~(CharAt(src, c) > 63)
      BY <1>15, <3>1, Zenon
    <3> QED
      BY <1>1, <2>1, <2>3, <3>2, Zenon
  <2>4. CASE ~(3 * g + 1 < n)
    BY <1>1, <1>10, <2>1, <2>2, <2>4
  <2> QED
    BY <2>3, <2>4
<1>14. CASE r = 3
  <2>1. c = 4 * g + 3 /\ (c >= NumDigits(n) <=> ~(3 * g + 2 < n))
    BY <1>2, <1>3, <1>4, <1>5, <1>14
  <2>2. CharAt(src, c) = IF 3 * g + 2 < n THEN z % 64 ELSE Pad
    BY <1>9, <2>1
  <2>3. CASE 3 * g + 2 < n
    <3>1. CharAt(src, c) \in 0 .. 63
      BY <1>8, <2>2, <2>3
    <3>2. CharAt(src, c) \in 0 .. 64 /\ ~(CharAt(src, c) > 63)
      BY <1>15, <3>1, Zenon
    <3> QED
      BY <1>1, <2>1, <2>3, <3>2, Zenon
  <2>4. CASE ~(3 * g + 2 < n)
    BY <1>1, <1>10, <2>1, <2>2, <2>4
  <2> QED
    BY <2>3, <2>4
<1> QED
  BY <1>11, <1>12, <1>13, <1>14

\* A text is the first characters that fit.
LEMMA EncodeIs ==
    ASSUME NEW src \in Seq(0 .. 255), NEW n \in Nat
    PROVE  \E t \in 0 .. NumChars(Len(src)) :
              /\ Encode(src, n) = Chars(src, t)
              /\ n > 0 => t < n
              /\ n = EncodeLen(Len(src)) => t = NumChars(Len(src))
<1> DEFINE all == [c \in 1 .. EncodeLen(Len(src)) - 1 |-> CharAt(src, c - 1)]
           max == NumChars(Len(src))
<1>1. max \in Nat /\ EncodeLen(Len(src)) = max + 1
  <2>1. Len(src) \in Nat
    OBVIOUS
  <2> QED
    BY <2>1, NumbersOfChars
<1>2. Encode(src, n) = IF n = 0 THEN <<>> ELSE Fitting(all, n)
  BY DEF Encode, CharAt, ByteAt
<1>3. all = Chars(src, max)
  BY <1>1 DEF Chars
<1> HIDE DEF all, max
<1>4. CASE n = 0
  <2>1. Chars(src, 0) = <<>>
    BY DEF Chars
  <2>2. 0 \in 0 .. max /\ (n > 0 => 0 < n) /\ n # max + 1
    BY <1>1, <1>4
  <2> QED
    BY <1>1, <1>2, <1>4, <2>1, <2>2 DEF max
<1>5. CASE n # 0
  <2> DEFINE t == IF n - 1 < max THEN n - 1 ELSE max
  <2>1. t \in 0 .. max /\ t \in Nat /\ t < n /\ (n = max + 1 => t = max)
    BY <1>1, <1>5
  <2>2. Len(all) = max
    BY <1>1, <1>3 DEF Chars
  <2>3. Fitting(all, n) = SubSeq(all, 1, t)
    BY <2>2 DEF Fitting
  <2> HIDE DEF t
  <2>4. SubSeq(all, 1, t) = Chars(src, t)
    <3>1. SubSeq(all, 1, t) = [c \in 1 .. t |-> all[c]]
      BY <2>1
    <3>2. \A c \in 1 .. t : c \in 1 .. max
      BY <1>1, <2>1
    <3> QED
      BY <1>3, <3>1, <3>2 DEF Chars
  <2> QED
    BY <1>1, <1>2, <1>5, <2>1, <2>3, <2>4 DEF max
<1> QED
  BY <1>4, <1>5

\* Its digits are those before the first Pad.
LEMMA DigitsAre ==
    ASSUME NEW src \in Seq(0 .. 255), NEW t \in 0 .. NumChars(Len(src))
    PROVE  /\ DigitsIn(Len(src), t) \in 0 .. NumDigits(Len(src))
           /\ Digits(Chars(src, t)) = Chars(src, DigitsIn(Len(src), t))
<1> DEFINE text == Chars(src, t)
           ends == {k \in 1 .. Len(text) : text[k] > 63}
           max == NumDigits(Len(src))
<1>0. DigitsIn(Len(src), t) = IF t < max THEN t ELSE max
  BY DEF DigitsIn
<1>1. Len(src) \in Nat /\ max \in Nat /\ NumChars(Len(src)) \in Nat /\ t \in Nat
  <2>1. Len(src) \in Nat
    OBVIOUS
  <2> QED
    BY <2>1, NumbersOfChars
<1>2. Len(text) = t /\ \A k \in 1 .. t : text[k] = CharAt(src, k - 1)
  BY <1>1 DEF Chars
<1>3. ASSUME NEW k \in 1 .. t PROVE text[k] > 63 <=> k > max
  <2>1. k - 1 \in 0 .. NumChars(Len(src)) - 1
    BY <1>1
  <2>2. CharAt(src, k - 1) > 63 <=> k - 1 >= max
    BY <2>1, CharsAreDigits
  <2> QED
    BY <1>1, <1>2, <2>2
<1>4. Digits(text) = IF ends = {} THEN text
                     ELSE SubSeq(text, 1, (CHOOSE k \in ends : \A j \in ends : k <= j) - 1)
  BY DEF Digits
<1>5. ends = {k \in 1 .. t : k > max}
  BY <1>2, <1>3
<1> HIDE DEF text, ends, max
<1>6. CASE t < max
  <2>1. ends = {}
    BY <1>1, <1>5, <1>6
  <2> QED
    BY <1>0, <1>1, <1>4, <1>6, <2>1 DEF text, max
<1>7. CASE ~(t < max)
  <2>1. CASE t = max
    <3>1. ends = {}
      BY <1>1, <1>5, <2>1
    <3> QED
      BY <1>0, <1>1, <1>4, <2>1, <3>1 DEF text, max
  <2>2. CASE t # max
    <3>1. max + 1 \in ends /\ \A k \in ends : max + 1 <= k /\ k \in Nat
      BY <1>1, <1>5, <1>7, <2>2
    <3>2. (CHOOSE k \in ends : \A j \in ends : k <= j) = max + 1
      BY <1>1, <3>1
    <3>3. (max + 1) - 1 = max /\ ends # {}
      BY <1>1, <3>1
    <3>4. Digits(text) = SubSeq(text, 1, max)
      BY <1>4, <3>2, <3>3
    <3>5. SubSeq(text, 1, max) = [c \in 1 .. max |-> text[c]]
      BY <1>1
    <3>6. \A c \in 1 .. max : c \in 1 .. t
      BY <1>1, <1>7
    <3>7. SubSeq(text, 1, max) = Chars(src, max)
      BY <1>2, <3>5, <3>6 DEF Chars
    <3> QED
      BY <1>0, <1>1, <1>7, <3>4, <3>7 DEF text, max
  <2> QED
    BY <2>1, <2>2
<1> QED
  BY <1>6, <1>7

\* A byte comes back from the two digits it is in.
LEMMA ByteComesBack ==
    ASSUME NEW src \in Seq(0 .. 255), NEW d \in 0 .. NumDigits(Len(src)), NEW b \in 0 .. NumBytes(d) - 1
    PROVE  LET s == Chars(src, d)
               k == 4 * (b \div 3) + 1
           IN src[b + 1] = CASE b % 3 = 0 -> (s[k] * 4 + s[k + 1] \div 16) % 256
                             [] b % 3 = 1 -> (s[k + 1] * 16 + s[k + 2] \div 4) % 256
                             [] OTHER     -> (s[k + 2] * 64 + s[k + 3]) % 256
<1> DEFINE s == Chars(src, d)
<1>0. Len(src) \in Nat
  OBVIOUS
<1>1. /\ NumBytes(d) \in 0 .. Len(src) /\ NumDigits(Len(src)) \in Nat
      /\ 4 * (b \div 3) + (b % 3) + 2 \in 1 .. d
  BY <1>0, BytesOfDigits
<1>2. b \in Nat /\ d \in Nat /\ b < Len(src)
  BY <1>0, <1>1
<1>3. PICK g \in Nat, r \in 0 .. 2 : b = 3 * g + r /\ b % 3 = r /\ b \div 3 = g
  BY <1>2, InGroups
<1>4. \A k \in 1 .. d : s[k] = CharAt(src, k - 1)
  BY DEF Chars
<1>5. 3 * g \in Nat /\ 3 * g + 1 \in Nat /\ 3 * g + 2 \in Nat /\ ByteAt(src, b) = src[b + 1]
  <2>1. ByteAt(src, b) = src[b + 1]
    BY <1>2, BytesAt
  <2> QED
    BY <2>1
<1>6. PICK x \in 0 .. 255, y \in 0 .. 255, z \in 0 .. 255 :
         x = ByteAt(src, 3 * g) /\ y = ByteAt(src, 3 * g + 1) /\ z = ByteAt(src, 3 * g + 2)
  BY <1>5, BytesAt, ZenonT(30)
<1>7. /\ CharAt(src, 4 * g) = x \div 4
      /\ CharAt(src, 4 * g + 1) = (x % 4) * 16 + y \div 16
      /\ CharAt(src, 4 * g + 2) = IF 3 * g + 1 < Len(src) THEN (y % 16) * 4 + z \div 64 ELSE Pad
      /\ CharAt(src, 4 * g + 3) = IF 3 * g + 2 < Len(src) THEN z % 64 ELSE Pad
  BY <1>6, CharsOfGroup, ZenonT(30)
<1> DEFINE k == 4 * g + 1
<1>8. \A p \in 0 .. 3 : k + p <= d => k + p \in 1 .. d /\ (k + p) - 1 = 4 * g + p
  BY <1>2
<1>9. k + r + 1 <= d
  BY <1>1, <1>3
<1> HIDE DEF s
<1>10. CASE r = 0
  <2>1. k \in 1 .. d /\ k - 1 = 4 * g /\ k + 1 \in 1 .. d /\ (k + 1) - 1 = 4 * g + 1
    BY <1>2, <1>9, <1>10
  <2>2. s[k] = x \div 4 /\ s[k + 1] = (x % 4) * 16 + y \div 16
    BY <1>4, <1>7, <2>1
  <2>3. ((x \div 4) * 4 + ((x % 4) * 16 + y \div 16) \div 16) % 256 = x
    OBVIOUS
  <2>4. src[b + 1] = x
    <3>1. b = 3 * g
      BY <1>3, <1>10
    <3> QED
      BY <1>5, <1>6, <3>1
  <2> QED
    <3>1. (s[k] * 4 + s[k + 1] \div 16) % 256 = x
      BY <2>2, <2>3
    <3>2. b % 3 = 0 /\ b % 3 # 1 /\ b \div 3 = g
      BY <1>3, <1>10
    <3> QED
      BY <2>4, <3>1, <3>2, Zenon DEF s
<1>11. CASE r = 1
  <2>1. k + 1 \in 1 .. d /\ (k + 1) - 1 = 4 * g + 1 /\ k + 2 \in 1 .. d /\ (k + 2) - 1 = 4 * g + 2
    BY <1>2, <1>9, <1>11
  <2>2. s[k + 1] = (x % 4) * 16 + y \div 16 /\ s[k + 2] = (y % 16) * 4 + z \div 64
    BY <1>2, <1>3, <1>4, <1>7, <1>11, <2>1
  <2>3. (((x % 4) * 16 + y \div 16) * 16 + ((y % 16) * 4 + z \div 64) \div 4) % 256 = y
    OBVIOUS
  <2>4. src[b + 1] = y
    <3>1. b = 3 * g + 1
      BY <1>3, <1>11
    <3> QED
      BY <1>5, <1>6, <3>1
  <2>5. 1 # 0
    OBVIOUS
  <2> QED
    BY <1>3, <1>11, <2>2, <2>3, <2>4, <2>5, ZenonT(30) DEF s
<1>12. CASE r = 2
  <2>1. k + 2 \in 1 .. d /\ (k + 2) - 1 = 4 * g + 2 /\ k + 3 \in 1 .. d /\ (k + 3) - 1 = 4 * g + 3
    BY <1>2, <1>9, <1>12
  <2>2. s[k + 2] = (y % 16) * 4 + z \div 64 /\ s[k + 3] = z % 64
    <3>1. 3 * g + 1 < Len(src) /\ 3 * g + 2 < Len(src)
      BY <1>0, <1>2, <1>3, <1>12, SMTT(30)
    <3> QED
      BY <1>4, <1>7, <2>1, <3>1
  <2>3. (((y % 16) * 4 + z \div 64) * 64 + (z % 64)) % 256 = z
    OBVIOUS
  <2>4. src[b + 1] = z
    <3>1. b = 3 * g + 2
      BY <1>3, <1>12
    <3> QED
      BY <1>5, <1>6, <3>1
  <2>5. 2 # 0 /\ 2 # 1
    OBVIOUS
  <2> QED
    <3>1. (s[k + 2] * 64 + s[k + 3]) % 256 = z
      BY <2>2, <2>3
    <3>2. b % 3 # 0 /\ b % 3 # 1 /\ b \div 3 = g
      BY <1>3, <1>12, <2>5
    <3> QED
      BY <2>4, <3>1, <3>2, Zenon DEF s
<1> QED
  BY <1>10, <1>11, <1>12

\* What is decoded is the beginning of the source that the digits hold.
LEMMA DecodeIs ==
    ASSUME NEW src \in Seq(0 .. 255), NEW t \in 0 .. NumChars(Len(src)), NEW m \in Nat
    PROVE  \E len \in 0 .. Len(src) :
              /\ Decode(Chars(src, t), m) = SubSeq(src, 1, len)
              /\ m > NumBytes(DigitsIn(Len(src), t)) => len = NumBytes(DigitsIn(Len(src), t))
<1> DEFINE d == DigitsIn(Len(src), t)
           s == Chars(src, d)
<1>0. Len(src) \in Nat
  OBVIOUS
<1>1. d \in 0 .. NumDigits(Len(src)) /\ Digits(Chars(src, t)) = s
  BY DigitsAre
<1> HIDE DEF d
<1>2. NumBytes(d) \in 0 .. Len(src) /\ NumWhole(d) \in Nat /\ NumDigits(Len(src)) \in Nat
  BY <1>0, <1>1, BytesOfDigits
<1>3. d \in Nat /\ Len(s) = d /\ (s = <<>> <=> d = 0)
  <2>1. d \in Nat
    BY <1>1, <1>2
  <2> QED
    BY <2>1, SMTT(30) DEF Chars
<1> DEFINE byte(b) == LET k == 4 * (b \div 3) + 1
                      IN CASE b % 3 = 0 -> (s[k] * 4 + s[k + 1] \div 16) % 256
                           [] b % 3 = 1 -> (s[k + 1] * 16 + s[k + 2] \div 4) % 256
                           [] OTHER     -> (s[k + 2] * 64 + s[k + 3]) % 256
           max == NumBytes(d)
           bytes == [b \in 1 .. max |-> byte(b - 1)]
<1>4. Decode(Chars(src, t), m) = IF m = 0 THEN <<>> ELSE Fitting(bytes, m)
  <2> DEFINE whole == IF s = <<>> THEN 0 ELSE (Len(s) - 1) \div 4
             left == Len(s) - 4 * whole
  <2>1. whole = NumWhole(d)
    BY <1>3 DEF NumWhole
  <2>2. 3 * whole + (IF left > 1 THEN left - 1 ELSE 0) = max
    BY <1>3, <2>1 DEF NumBytes
  <2>3. Decode(Chars(src, t), m) =
          IF m = 0 THEN <<>>
          ELSE Fitting([b \in 1 .. 3 * whole + (IF left > 1 THEN left - 1 ELSE 0) |-> byte(b - 1)], m)
    BY <1>1 DEF Decode
  <2> HIDE DEF whole, left, byte, max, s
  <2> QED
    BY <2>2, <2>3
<1>5. ASSUME NEW b \in 1 .. max PROVE byte(b - 1) = src[b]
  <2> DEFINE a == b - 1
  <2>1. a \in 0 .. NumBytes(d) - 1 /\ a + 1 = b
    BY <1>2
  <2> HIDE DEF a
  <2>2. src[a + 1] = byte(a)
    BY <1>1, <2>1, ByteComesBack, ZenonT(30)
  <2> QED
    BY <2>1, <2>2, Zenon DEF a
<1>6. bytes = SubSeq(src, 1, max)
  <2>1. SubSeq(src, 1, max) = [b \in 1 .. max |-> src[b]]
    BY <1>0, <1>2
  <2> HIDE DEF byte, max
  <2> QED
    BY <1>5, <2>1
<1> HIDE DEF bytes, max
<1>7. max \in Nat /\ max <= Len(src)
  BY <1>0, <1>2 DEF max
<1>8. CASE m = 0
  <2>1. SubSeq(src, 1, 0) = <<>> /\ 0 \in 0 .. Len(src) /\ ~(m > max)
    BY <1>0, <1>7, <1>8
  <2> QED
    BY <1>4, <1>8, <2>1 DEF max, d
<1>9. CASE m # 0
  <2> DEFINE len == IF m - 1 < max THEN m - 1 ELSE max
  <2>1. len \in 0 .. Len(src) /\ len \in 0 .. max /\ (m > max => len = max)
    BY <1>0, <1>7, <1>9
  <2>2. Len(bytes) = max
    BY <1>0, <1>6, <1>7
  <2>3. Fitting(bytes, m) = SubSeq(bytes, 1, len)
    BY <2>2 DEF Fitting
  <2> HIDE DEF len
  <2>4. SubSeq(bytes, 1, len) = SubSeq(src, 1, len)
    <3>1. SubSeq(src, 1, max) = [b \in 1 .. max |-> src[b]]
      BY <1>0, <1>7
    <3>2. len \in Nat /\ \A b \in 1 .. len : b \in 1 .. max
      BY <1>7, <2>1
    <3>3. SubSeq(src, 1, len) = [b \in 1 .. len |-> src[b]]
      BY <1>0, <2>1
    <3>4. SubSeq(bytes, 1, len) = [b \in 1 .. len |-> bytes[b]]
      BY <2>2, <3>2
    <3> QED
      BY <1>6, <3>1, <3>2, <3>3, <3>4
  <2> QED
    BY <1>4, <1>9, <2>1, <2>3, <2>4 DEF max, d
<1> QED
  BY <1>8, <1>9

\* For any bytes and buffers of any size (mys_base64_encode and _decode,
\* base64.c): nothing is written behind a buffer, what comes back is a beginning
\* of the source, and it is all of it with buffers of the lengths the library
\* computes, the encoded one without a byte to spare.
THEOREM EncodingComesBack ==
    ASSUME NEW src \in Seq(0 .. 255), NEW n \in Nat, NEW m \in Nat
    PROVE  RoundTrip(src, n, m)
<1>0. Len(src) \in Nat
  OBVIOUS
<1>1. /\ NumChars(Len(src)) \in Nat /\ NumDigits(Len(src)) \in 0 .. NumChars(Len(src))
      /\ EncodeLen(Len(src)) = NumChars(Len(src)) + 1 /\ NumBytes(NumDigits(Len(src))) = Len(src)
      /\ ((NumDigits(Len(src)) + 3) \div 4) * 3 >= Len(src)
  BY <1>0, NumbersOfChars
<1>2. \A t \in Nat : Len(Chars(src, t)) = t
  BY DEF Chars
<1>3. PICK t \in 0 .. NumChars(Len(src)) : Encode(src, n) = Chars(src, t) /\ (n > 0 => t < n)
  BY EncodeIs
<1>4. n > 0 => Len(Encode(src, n)) < n
  <2>1. t \in Nat
    BY <1>1
  <2> QED
    BY <1>2, <1>3, <2>1
<1>5. \E len \in 0 .. Len(src) : Decode(Encode(src, n), m) = SubSeq(src, 1, len)
  BY <1>3, DecodeIs, ZenonT(30)
<1>6. \A len \in 0 .. Len(src) : Len(SubSeq(src, 1, len)) = len
  BY <1>0
<1>7. Decode(Encode(src, n), m) = SubSeq(src, 1, Len(Decode(Encode(src, n), m)))
  BY <1>5, <1>6
<1> DEFINE all == Encode(src, EncodeLen(Len(src)))
           max == NumChars(Len(src))
<1>8. all = Chars(src, max)
  <2>1. EncodeLen(Len(src)) \in Nat
    BY <1>1
  <2> QED
    BY <2>1, EncodeIs
<1>9. Len(all) + 1 = EncodeLen(Len(src))
  BY <1>1, <1>2, <1>8
<1>10. Decode(all, DecodeLen(all)) = src
  <2> DEFINE digits == NumDigits(Len(src))
  <2>1. max \in 0 .. max /\ max \in Nat /\ digits \in Nat /\ ~(max < digits)
    BY <1>1
  <2>2. Digits(all) = Chars(src, digits)
    BY <1>8, <2>1, DigitsAre DEF DigitsIn
  <2>3. DecodeLen(all) = ((digits + 3) \div 4) * 3 + 1
    BY <1>2, <2>1, <2>2 DEF DecodeLen
  <2> HIDE DEF digits
  <2>4. DecodeLen(all) \in Nat /\ DecodeLen(all) > Len(src)
    <3>1. ((digits + 3) \div 4) * 3 \in Int /\ ((digits + 3) \div 4) * 3 >= Len(src)
      BY <1>1, <2>1 DEF digits
    <3> QED
      BY <1>0, <2>3, <3>1
  <2> HIDE DEF all
  <2>5. Decode(all, DecodeLen(all)) = SubSeq(src, 1, Len(src))
    <3>1. max \in 0 .. NumChars(Len(src)) /\ DigitsIn(Len(src), max) = digits
      BY <2>1 DEF DigitsIn, digits
    <3>2. PICK len \in 0 .. Len(src) :
             /\ Decode(Chars(src, max), DecodeLen(all)) = SubSeq(src, 1, len)
             /\ DecodeLen(all) > NumBytes(DigitsIn(Len(src), max)) => len = NumBytes(DigitsIn(Len(src), max))
      BY <2>4, <3>1, DecodeIs, Zenon
    <3>3. NumBytes(digits) = Len(src)
      BY <1>1 DEF digits
    <3> HIDE DEF digits, max
    <3> QED
      BY <1>8, <2>4, <3>1, <3>2, <3>3
  <2>6. SubSeq(src, 1, Len(src)) = src
    OBVIOUS
  <2> QED
    BY <2>5, <2>6
<1> HIDE DEF all
<1> QED
  BY <1>4, <1>7, <1>9, <1>10 DEF RoundTrip, all

-----------------------------------------------------------------------------
\* Numbers at finitely many places: one of them is the least.
LEMMA LeastAt ==
    ASSUME NEW n \in Nat, NEW v \in [1 .. n -> Int], NEW sub \in SUBSET (1 .. n), sub # {}
    PROVE  \E j \in sub : \A k \in sub : v[j] <= v[k]
<1> DEFINE Good(s) == s # {} => \E j \in s : \A k \in s : v[j] <= v[k]
           dom == {m \in Nat : \A s \in SUBSET (1 .. n) : (\A k \in s : k <= m) => Good(s)}
<1>1. 0 \in dom
  <2> SUFFICES ASSUME NEW s \in SUBSET (1 .. n), \A k \in s : k <= 0 PROVE s = {}
    OBVIOUS
  <2> QED
    OBVIOUS
<1>2. ASSUME NEW m \in Nat, m \in dom PROVE m + 1 \in dom
  <2> SUFFICES ASSUME NEW s \in SUBSET (1 .. n), \A k \in s : k <= m + 1, s # {}
               PROVE  \E j \in s : \A k \in s : v[j] <= v[k]
    OBVIOUS
  <2>1. CASE m + 1 \notin s
    <3>1. \A k \in s : k <= m
      BY <2>1
    <3> QED
      BY <1>2, <3>1
  <2>2. CASE m + 1 \in s
    <3> DEFINE less == s \ {m + 1}
    <3>1. less \in SUBSET (1 .. n) /\ \A k \in less : k <= m
      OBVIOUS
    <3>2. CASE less = {}
      <4>1. \A k \in s : k = m + 1
        BY <3>2
      <4>2. v[m + 1] \in Int
        BY <2>2
      <4> QED
        BY <2>2, <4>1, <4>2
    <3>3. CASE less # {}
      <4>1. PICK j \in less : \A k \in less : v[j] <= v[k]
        BY <1>2, <3>1, <3>3
      <4>2. v[j] \in Int /\ v[m + 1] \in Int /\ \A k \in s : v[k] \in Int /\ (k \in less \/ k = m + 1)
        BY <2>2
      <4>3. CASE v[j] <= v[m + 1]
        BY <4>1, <4>2, <4>3
      <4>4. CASE ~(v[j] <= v[m + 1])
        <5>1. ASSUME NEW k \in s PROVE v[m + 1] <= v[k]
          BY <4>1, <4>2, <4>4
        <5> QED
          BY <2>2, <5>1
      <4> QED
        BY <4>3, <4>4
    <3> QED
      BY <3>2, <3>3
  <2> QED
    BY <2>1, <2>2
<1> HIDE DEF dom
<1>3. n \in dom
  BY <1>1, <1>2, SetInduction
<1> USE DEF dom
<1>4. \A k \in sub : k <= n
  OBVIOUS
<1> QED
  BY <1>3, <1>4

\* Counting places.
LEMMA PlacesCounted ==
    ASSUME NEW n \in Nat, NEW s \in SUBSET (1 .. n)
    PROVE  IsFiniteSet(s) /\ Cardinality(s) \in 0 .. n
<1>1. IsFiniteSet(1 .. n) /\ Cardinality(1 .. n) = n
  BY FS_Interval
<1>2. IsFiniteSet(s) /\ Cardinality(s) <= n
  BY <1>1, FS_Subset
<1> QED
  BY <1>2, FS_CardinalityType

\* A set in 1 .. n has at least as many members as a subset, and removing it
\* leaves the difference.
LEMMA PlacesWithin ==
    ASSUME NEW n \in Nat, NEW s \in SUBSET (1 .. n), NEW sub \in SUBSET s
    PROVE  Cardinality(sub) <= Cardinality(s) /\ Cardinality(s \ sub) = Cardinality(s) - Cardinality(sub)
<1>1. IsFiniteSet(s) /\ IsFiniteSet(sub)
  <2>1. sub \in SUBSET (1 .. n)
    OBVIOUS
  <2> QED
    BY <2>1, PlacesCounted
<1>2. Cardinality(sub) <= Cardinality(s)
  BY <1>1, FS_Subset
<1>3. Cardinality(s \ sub) = Cardinality(s) - Cardinality(s \cap sub) /\ s \cap sub = sub
  BY <1>1, FS_Difference
<1> QED
  BY <1>2, <1>3

\* Places that are the first ones, or the last ones.
LEMMA FirstPlaces ==
    ASSUME NEW n \in Nat, NEW s \in SUBSET (1 .. n), \A k \in s, j \in 1 .. n : j <= k => j \in s
    PROVE  s = 1 .. Cardinality(s) /\ Cardinality(s) \in 0 .. n
<1> SUFFICES \E k \in 0 .. n : s = 1 .. k
  <2>1. ASSUME NEW k \in 0 .. n PROVE Cardinality(1 .. k) = k
    BY FS_Interval
  <2> QED
    BY <2>1
<1> DEFINE rest == (1 .. n) \ s
<1>1. CASE rest = {}
  <2>1. \A k \in 1 .. n : k \in s
    BY <1>1
  <2>2. s = 1 .. n
    BY <2>1
  <2>3. n \in 0 .. n
    OBVIOUS
  <2> QED
    BY <2>2, <2>3
<1>2. CASE rest # {}
  <2>1. rest \in SUBSET Nat
    OBVIOUS
  <2>2. PICK x \in rest : \A y \in rest : x <= y
    <3> HIDE DEF rest
    <3> QED
      BY <1>2, <2>1, Least
  <2>3. x - 1 \in 0 .. n
    OBVIOUS
  <2>4. ASSUME NEW k \in 1 .. n PROVE k \in s <=> k <= x - 1
    <3>1. k \in s => ~(x <= k)
      OBVIOUS
    <3>2. k \notin s => x <= k
      BY <2>2
    <3> QED
      BY <3>1, <3>2
  <2>5. s = 1 .. x - 1
    <3> HIDE DEF rest
    <3>1. PICK y \in Nat : y = x - 1 /\ y <= n
      BY <2>3
    <3>2. \A k \in 1 .. n : k \in s <=> k \in 1 .. y
      BY <2>4, <3>1
    <3>3. \A k \in 1 .. y : k \in 1 .. n
      BY <3>1
    <3>4. s = 1 .. y
      BY <3>2, <3>3
    <3> QED
      BY <3>1, <3>4
  <2> QED
    BY <2>3, <2>5
<1> QED
  BY <1>1, <1>2

\* A set that contains every later place is the last places.
LEMMA LastPlaces ==
    ASSUME NEW n \in Nat, NEW s \in SUBSET (1 .. n), \A k \in s, j \in 1 .. n : k <= j => j \in s
    PROVE  s = n - Cardinality(s) + 1 .. n /\ Cardinality(s) \in 0 .. n
<1> SUFFICES \E k \in 0 .. n : s = n - k + 1 .. n
  <2>1. ASSUME NEW k \in 0 .. n PROVE Cardinality(n - k + 1 .. n) = k
    <3>1. n - k + 1 \in Int /\ n \in Int
      OBVIOUS
    <3>2. Cardinality(n - k + 1 .. n) = IF n - k + 1 > n THEN 0 ELSE n - (n - k + 1) + 1
      BY <3>1, FS_Interval
    <3> QED
      BY <3>2
  <2> QED
    BY <2>1
<1>1. CASE s = {}
  <2>1. s = n - 0 + 1 .. n /\ 0 \in 0 .. n
    BY <1>1
  <2> QED
    BY <2>1
<1>2. CASE s # {}
  <2>1. s \in SUBSET Nat
    OBVIOUS
  <2>2. PICK x \in s : \A y \in s : x <= y
    BY <1>2, <2>1, Least
  <2> DEFINE k == n - x + 1
  <2>3. k \in 0 .. n /\ n - k + 1 = x
    OBVIOUS
  <2>4. s = x .. n
    <3>1. x \in 1 .. n
      OBVIOUS
    <3>2. \A y \in s : y \in x .. n
      BY <2>2, <3>1
    <3>3. \A y \in x .. n : y \in 1 .. n /\ x <= y
      BY <3>1
    <3>4. \A y \in x .. n : y \in s
      BY <3>3
    <3> QED
      BY <3>2, <3>4
  <2> HIDE DEF k
  <2> QED
    BY <2>3, <2>4
<1> QED
  BY <1>1, <1>2

-----------------------------------------------------------------------------
\* The counts of a sequence of numbers.
LEMMA CountsAre ==
    ASSUME NEW values \in Seq(Int), NEW x \in Int
    PROVE  /\ DOMAIN values = 1 .. Len(values) /\ Len(values) \in Nat
           /\ Below(values, x) = Cardinality({i \in 1 .. Len(values) : values[i] < x})
           /\ UpTo(values, x) = Cardinality({i \in 1 .. Len(values) : values[i] <= x})
           /\ Count(values, x) = Cardinality({i \in 1 .. Len(values) : values[i] = x})
<1>1. DOMAIN values = 1 .. Len(values) /\ Len(values) \in Nat
  BY LenProperties
<1> QED
  BY <1>1 DEF Below, UpTo, Count, Quantify

\* How the counts of a sequence are related.
LEMMA CountsFit ==
    ASSUME NEW values \in Seq(Int), NEW x \in Int
    PROVE  /\ Below(values, x) \in 0 .. Len(values) /\ UpTo(values, x) \in 0 .. Len(values)
           /\ Below(values, x) <= UpTo(values, x)
           /\ Count(values, x) = UpTo(values, x) - Below(values, x)
           /\ \A y \in Int : x < y => UpTo(values, x) <= Below(values, y)
           /\ Quantify(DOMAIN values, LAMBDA i : values[i] >= x) = Len(values) - Below(values, x)
<1> DEFINE n == Len(values)
           below == {i \in 1 .. n : values[i] < x}
           upto == {i \in 1 .. n : values[i] <= x}
<1>0. n \in Nat /\ DOMAIN values = 1 .. n /\ \A i \in 1 .. n : values[i] \in Int
  BY LenProperties, ElementOfSeq
<1>1. Below(values, x) = Cardinality(below) /\ UpTo(values, x) = Cardinality(upto)
  BY CountsAre
<1>2. Count(values, x) = Cardinality({i \in 1 .. n : values[i] = x})
  BY CountsAre
<1>3. {i \in 1 .. n : values[i] = x} = upto \ below /\ below \in SUBSET upto /\ upto \in SUBSET (1 .. n)
  BY <1>0
<1>4. ASSUME NEW y \in Int, x < y PROVE UpTo(values, x) <= Below(values, y)
  <2> DEFINE less == {i \in 1 .. n : values[i] < y}
  <2>1. Below(values, y) = Cardinality(less)
    BY CountsAre
  <2>2. upto \in SUBSET less /\ less \in SUBSET (1 .. n)
    BY <1>0, <1>4
  <2> HIDE DEF less, upto, n
  <2> QED
    BY <1>0, <1>1, <2>1, <2>2, PlacesWithin
<1>5. Quantify(DOMAIN values, LAMBDA i : values[i] >= x) = Cardinality((1 .. n) \ below)
  <2>1. {i \in 1 .. n : values[i] >= x} = (1 .. n) \ below
    BY <1>0
  <2> QED
    BY <1>0, <2>1 DEF Quantify
<1>6. (1 .. n) \in SUBSET (1 .. n) /\ below \in SUBSET (1 .. n) /\ Cardinality(1 .. n) = n
  <2>1. Cardinality(1 .. n) = n
    <3> HIDE DEF n
    <3> QED
      BY <1>0, FS_Interval
  <2> QED
    BY <2>1
<1> HIDE DEF n, below, upto
<1>7. Cardinality((1 .. n) \ below) = n - Cardinality(below)
  BY <1>0, <1>6, PlacesWithin
<1>8. /\ Cardinality(below) <= Cardinality(upto)
      /\ Cardinality(upto \ below) = Cardinality(upto) - Cardinality(below)
  BY <1>0, <1>3, PlacesWithin
<1>9. Cardinality(below) \in 0 .. n /\ Cardinality(upto) \in 0 .. n
  BY <1>0, <1>3, <1>6, PlacesCounted
<1> QED
  BY <1>1, <1>2, <1>3, <1>4, <1>5, <1>7, <1>8, <1>9 DEF n

\* Every place of the sorted values has its value.
LEMMA SortedIs ==
    ASSUME NEW values \in Seq(Int)
    PROVE  /\ Sorted(values) \in [1 .. Len(values) -> Int]
           /\ \A i \in 1 .. Len(values) :
                 /\ Sorted(values)[i] \in ToSet(values)
                 /\ Below(values, Sorted(values)[i]) < i
                 /\ i <= UpTo(values, Sorted(values)[i])
<1> DEFINE n == Len(values)
<1>1. n \in Nat /\ DOMAIN values = 1 .. n /\ values \in [1 .. n -> Int]
  BY LenProperties
<1>2. ToSet(values) = {values[i] : i \in 1 .. n} /\ ToSet(values) \subseteq Int
  BY <1>1 DEF ToSet
<1>3. ASSUME NEW i \in 1 .. n
      PROVE  \E x \in ToSet(values) : Below(values, x) < i /\ i <= UpTo(values, x)
  <2> DEFINE many == {j \in 1 .. n : i <= UpTo(values, values[j])}
  <2>1. many # {}
    <3> DEFINE minus == [j \in 1 .. n |-> 0 - values[j]]
    <3>1. minus \in [1 .. n -> Int] /\ 1 .. n \in SUBSET (1 .. n) /\ 1 .. n # {}
      BY <1>1
    <3>2. \E j \in 1 .. n : \A k \in 1 .. n : minus[j] <= minus[k]
      <4> HIDE DEF minus, n
      <4> QED
        BY <1>1, <3>1, LeastAt
    <3>3. PICK j \in 1 .. n : \A k \in 1 .. n : values[k] <= values[j]
      BY <1>1, <3>2, SMTT(30)
    <3>4. values[j] \in Int /\ {k \in 1 .. n : values[k] <= values[j]} = 1 .. n
      BY <1>1, <3>3
    <3>5. UpTo(values, values[j]) = n
      <4>1. UpTo(values, values[j]) = Cardinality(1 .. n)
        BY <3>4, CountsAre
      <4> HIDE DEF n
      <4> QED
        BY <1>1, <4>1, FS_Interval
    <3> QED
      BY <3>5
  <2>2. many \in SUBSET (1 .. n)
    OBVIOUS
  <2>3. PICK j \in many : \A k \in many : values[j] <= values[k]
    <3> HIDE DEF many, n
    <3> QED
      BY <1>1, <2>1, <2>2, LeastAt
  <2>4. j \in 1 .. n /\ i <= UpTo(values, values[j]) /\ values[j] \in Int /\ values[j] \in ToSet(values)
    BY <1>1, <1>2
  <2>5. Below(values, values[j]) < i
    <3> SUFFICES ASSUME ~(Below(values, values[j]) < i) PROVE FALSE
      OBVIOUS
    <3> DEFINE less == {k \in 1 .. n : values[k] < values[j]}
    <3>1. Below(values, values[j]) = Cardinality(less) /\ Below(values, values[j]) \in 0 .. n
      BY <2>4, CountsAre, CountsFit
    <3>2. less # {}
      <4> SUFFICES ASSUME less = {} PROVE FALSE
        OBVIOUS
      <4>1. Cardinality({}) = 0
        BY FS_EmptySet
      <4>2. Below(values, values[j]) = 0
        BY <3>1, <4>1
      <4>3. i \in Nat /\ 0 < i
        BY <1>1
      <4> QED
        BY <4>2, <4>3
    <3> DEFINE minus == [k \in 1 .. n |-> 0 - values[k]]
    <3>3. minus \in [1 .. n -> Int] /\ less \in SUBSET (1 .. n)
      BY <1>1
    <3>4. PICK k \in less : \A l \in less : minus[k] <= minus[l]
      <4> HIDE DEF minus, less, n
      <4> QED
        BY <1>1, <3>2, <3>3, LeastAt
    <3>5. k \in 1 .. n /\ values[k] \in Int /\ values[k] < values[j]
      BY <1>1
    <3>6. \A l \in 1 .. n : values[l] < values[j] <=> values[l] <= values[k]
      BY <1>1, <2>4, <3>4, <3>5
    <3>7. less = {l \in 1 .. n : values[l] <= values[k]}
      BY <3>6
    <3>8. UpTo(values, values[k]) = Below(values, values[j])
      BY <3>1, <3>5, <3>7, CountsAre
    <3>9. k \in many
      <4>1. i <= Below(values, values[j])
        BY <3>1
      <4> QED
        BY <3>5, <3>8, <4>1
    <3>10. values[j] <= values[k]
      BY <2>3, <3>9
    <3> QED
      BY <2>4, <3>5, <3>10
  <2> QED
    BY <2>4, <2>5
<1> DEFINE Fits(i, x) == Below(values, x) < i /\ i <= UpTo(values, x)
<1>4. Sorted(values) = [i \in 1 .. n |-> CHOOSE x \in ToSet(values) : Fits(i, x)]
  BY <1>1 DEF Sorted
<1>5. ASSUME NEW i \in 1 .. n PROVE Sorted(values)[i] \in ToSet(values) /\ Fits(i, Sorted(values)[i])
  <2>1. \E x \in ToSet(values) : Fits(i, x)
    BY <1>3
  <2> HIDE DEF Fits, n
  <2> QED
    BY <1>4, <2>1
<1>6. Sorted(values) \in [1 .. n -> Int]
  <2> HIDE DEF Fits, n
  <2> QED
    BY <1>2, <1>4, <1>5
<1> QED
  BY <1>5, <1>6

\* They are in order, and each takes its places.
LEMMA SortedRises ==
    ASSUME NEW values \in Seq(Int), NEW i \in 1 .. Len(values), NEW j \in 1 .. Len(values), i <= j
    PROVE  Sorted(values)[i] <= Sorted(values)[j]
<1> DEFINE x == Sorted(values)[i]
           y == Sorted(values)[j]
<1>1. /\ x \in Int /\ y \in Int
      /\ Below(values, x) < i /\ j <= UpTo(values, y)
  BY SortedIs
<1> HIDE DEF x, y
<1>2. Len(values) \in Nat /\ Below(values, x) \in 0 .. Len(values) /\ UpTo(values, y) \in 0 .. Len(values)
  BY <1>1, CountsFit, LenProperties
<1>3. y < x => UpTo(values, y) <= Below(values, x)
  BY <1>1, CountsFit
<1>4. ~(y < x)
  BY <1>1, <1>2, <1>3
<1> QED
  BY <1>1, <1>4 DEF x, y

\* So a value is at the places behind those that are less, as often as it is there.
LEMMA PlacesOf ==
    ASSUME NEW values \in Seq(Int), NEW i \in 1 .. Len(values), NEW x \in Int
    PROVE  Sorted(values)[i] = x <=> i \in Below(values, x) + 1 .. UpTo(values, x)
<1> DEFINE y == Sorted(values)[i]
<1>1. y \in Int /\ Below(values, y) < i /\ i <= UpTo(values, y)
  BY SortedIs
<1> HIDE DEF y
<1>2. /\ Len(values) \in Nat
      /\ Below(values, x) \in 0 .. Len(values) /\ UpTo(values, x) \in 0 .. Len(values)
      /\ Below(values, y) \in 0 .. Len(values) /\ UpTo(values, y) \in 0 .. Len(values)
  BY <1>1, CountsFit, LenProperties
<1>3. (x < y => UpTo(values, x) <= Below(values, y)) /\ (y < x => UpTo(values, y) <= Below(values, x))
  BY <1>1, CountsFit
<1>4. CASE y = x
  BY <1>1, <1>2, <1>4 DEF y
<1>5. CASE y < x
  <2>1. y # x /\ i <= Below(values, x)
    BY <1>1, <1>2, <1>3, <1>5
  <2> QED
    BY <1>2, <2>1 DEF y
<1>6. CASE x < y
  <2>1. y # x /\ UpTo(values, x) < i
    BY <1>1, <1>2, <1>3, <1>6
  <2> QED
    BY <1>2, <2>1 DEF y
<1> QED
  BY <1>1, <1>4, <1>5, <1>6

\* A quartile is between two values that follow each other.
IsQuartileAt(n, arr, k, a, q) ==
    /\ k * (n - 1) = 4 * a + q /\ At(n, k).arg = a
    /\ Quartile(arr, k) = 4 * arr[a + 1] + (arr[a + 2] - arr[a + 1]) * q
    /\ Quartile(arr, k) \in Int /\ arr[a + 1] \in Int /\ arr[a + 2] \in Int
    /\ 4 * arr[a + 1] <= Quartile(arr, k) /\ Quartile(arr, k) <= 4 * arr[a + 2]
    /\ q = 0 => Quartile(arr, k) = 4 * arr[a + 1]

\* Each quartile of a rising array of two values or more is at such a place.
LEMMA QuartileAt ==
    ASSUME NEW n \in Nat, n > 1, NEW arr \in [1 .. n -> Int], \A i, j \in 1 .. n : i <= j => arr[i] <= arr[j],
           NEW k \in 1 .. 3
    PROVE  \E a \in 0 .. n - 2, q \in 0 .. 3 : IsQuartileAt(n, arr, k, a, q)
<1> DEFINE t == k * (n - 1)
<1>1. t \in Nat /\ t <= 3 * (n - 1)
  <2>1. k = 1 \/ k = 2 \/ k = 3
    OBVIOUS
  <2> QED
    BY <2>1
<1>2. Len(arr) = n
  <2>1. arr \in Seq(Int)
    BY SeqDef
  <2> QED
    BY <2>1, LenProperties
<1>3. Quartile(arr, k) = 4 * arr[(t \div 4) + 1] + (arr[(t \div 4) + 2] - arr[(t \div 4) + 1]) * (t % 4)
      /\ At(n, k).arg = t \div 4
  BY <1>2 DEF Quartile, At
<1> HIDE DEF t
<1> DEFINE a == t \div 4
           q == t % 4
<1>4. a \in 0 .. n - 2 /\ q \in 0 .. 3 /\ t = 4 * a + q
  BY <1>1
<1> HIDE DEF a, q
<1>5. a + 1 \in 1 .. n /\ a + 2 \in 1 .. n /\ a + 1 <= a + 2
  BY <1>4
<1> DEFINE x == arr[a + 1]
           y == arr[a + 2]
<1>6. x \in Int /\ y \in Int /\ x <= y
  BY <1>5
<1>7. Quartile(arr, k) = 4 * x + (y - x) * q
  BY <1>3 DEF a, q
<1> HIDE DEF x, y
<1>8. /\ 4 * x + (y - x) * q \in Int /\ 4 * x <= 4 * x + (y - x) * q /\ 4 * x + (y - x) * q <= 4 * y
      /\ q = 0 => 4 * x + (y - x) * q = 4 * x
  <2>1. q = 0 \/ q = 1 \/ q = 2 \/ q = 3
    BY <1>4
  <2> QED
    BY <1>6, <2>1
<1> QED
  BY <1>3, <1>4, <1>6, <1>7, <1>8 DEF t, a, x, y, IsQuartileAt

\* They are in order.
LEMMA QuartilesRise ==
    ASSUME NEW n \in Nat, n > 1, NEW arr \in [1 .. n -> Int], \A i, j \in 1 .. n : i <= j => arr[i] <= arr[j],
           NEW k \in 1 .. 2
    PROVE  Quartile(arr, k) <= Quartile(arr, k + 1)
<1>1. k \in 1 .. 3 /\ k + 1 \in 1 .. 3
  OBVIOUS
<1>8. PICK a \in 0 .. n - 2, q \in 0 .. 3 : IsQuartileAt(n, arr, k, a, q)
  BY <1>1, QuartileAt, Zenon
<1>9. PICK b \in 0 .. n - 2, p \in 0 .. 3 : IsQuartileAt(n, arr, k + 1, b, p)
  BY <1>1, QuartileAt, Zenon
<1>2. /\ k * (n - 1) = 4 * a + q
      /\ Quartile(arr, k) = 4 * arr[a + 1] + (arr[a + 2] - arr[a + 1]) * q
      /\ Quartile(arr, k) \in Int /\ arr[a + 1] \in Int /\ arr[a + 2] \in Int
      /\ Quartile(arr, k) <= 4 * arr[a + 2]
  BY <1>8, Zenon DEF IsQuartileAt
<1>3. /\ (k + 1) * (n - 1) = 4 * b + p
      /\ Quartile(arr, k + 1) = 4 * arr[b + 1] + (arr[b + 2] - arr[b + 1]) * p
      /\ Quartile(arr, k + 1) \in Int /\ arr[b + 1] \in Int
      /\ 4 * arr[b + 1] <= Quartile(arr, k + 1)
  BY <1>9, Zenon DEF IsQuartileAt
<1>4. 4 * a + q <= 4 * b + p
  <2>1. k = 1 \/ k = 2
    OBVIOUS
  <2> QED
    BY <1>2, <1>3, <2>1
<1>5. CASE a = b
  <2>1. q <= p
    BY <1>4, <1>5
  <2> DEFINE x == arr[a + 1]
             y == arr[a + 2]
  <2>2. x \in Int /\ y \in Int /\ x <= y
    <3>1. a + 1 \in 1 .. n /\ a + 2 \in 1 .. n /\ a + 1 <= a + 2
      OBVIOUS
    <3> QED
      BY <1>2, <3>1
  <2>3. Quartile(arr, k) = 4 * x + (y - x) * q /\ Quartile(arr, k + 1) = 4 * x + (y - x) * p
    BY <1>2, <1>3, <1>5
  <2> HIDE DEF x, y
  <2>4. 4 * x + (y - x) * q <= 4 * x + (y - x) * p
    <3>1. q \in {0, 1, 2, 3} /\ p \in {0, 1, 2, 3}
      OBVIOUS
    <3> QED
      BY <2>1, <2>2, <3>1
  <2> QED
    BY <2>3, <2>4
<1>6. CASE a # b
  <2>1. a + 2 \in 1 .. n /\ b + 1 \in 1 .. n /\ a + 2 <= b + 1
    BY <1>4, <1>6
  <2>2. arr[a + 2] <= arr[b + 1]
    BY <2>1
  <2> DEFINE x == arr[a + 2]
             y == arr[b + 1]
             low == Quartile(arr, k)
             high == Quartile(arr, k + 1)
  <2>3. x \in Int /\ y \in Int /\ low \in Int /\ high \in Int /\ x <= y /\ low <= 4 * x /\ 4 * y <= high
    BY <1>2, <1>3, <2>2
  <2> HIDE DEF x, y, low, high
  <2>4. low <= high
    BY <2>3
  <2> QED
    BY <2>4 DEF low, high
<1> QED
  BY <1>5, <1>6

\* The largest of some numbers is the one that no other exceeds.
LEMMA MaxIs ==
    ASSUME NEW s \in SUBSET Int, NEW x \in s, \A y \in s : y <= x
    PROVE  Max(s) = x
<1>1. \A z \in s : (\A y \in s : z >= y) <=> z = x
  OBVIOUS
<1> QED
  BY <1>1 DEF Max

\* A whisker is not inside of its quartile, and beyond it are the values beyond
\* the limit.
LEMMA LowerWhisker ==
    ASSUME NEW n \in Nat, NEW arr \in [1 .. n -> Int], NEW q \in Int, NEW lo \in Int, lo <= 2 * q,
           NEW places \in SUBSET (1 .. n)
    PROVE  /\ Whisker(arr, q, lo, places, -1) \in Int
           /\ Whisker(arr, q, lo, places, -1) <= q
           /\ \A i \in places : 4 * arr[i] < Whisker(arr, q, lo, places, -1) <=> 8 * arr[i] < lo
<1> DEFINE reached == {i \in places : (-1) * 8 * arr[i] <= (-1) * lo}
           all == {(-1) * q} \cup {(-1) * 4 * arr[i] : i \in reached}
           w == Whisker(arr, q, lo, places, -1)
<1>1. w = (-1) * Max(all)
  BY DEF Whisker
<1>2. \A i \in 1 .. n : arr[i] \in Int
  OBVIOUS
<1>3. \A i \in places : i \in reached <=> ~(8 * arr[i] < lo)
  BY <1>2
<1>4. all \in SUBSET Int
  BY <1>2
<1>5. \E x \in all : \A y \in all : y <= x
  <2>1. CASE reached = {}
    <3>1. (-1) * q \in all /\ (-1) * q \in Int
      OBVIOUS
    <3>2. \A y \in all : y = (-1) * q
      BY <2>1
    <3>3. \A y \in all : y <= (-1) * q
      BY <3>1, <3>2
    <3> HIDE DEF all
    <3> QED
      BY <3>1, <3>3
  <2>2. CASE reached # {}
    <3>1. reached \in SUBSET (1 .. n)
      OBVIOUS
    <3>2. PICK j \in reached : \A k \in reached : arr[j] <= arr[k]
      <4> HIDE DEF reached
      <4> QED
        BY <2>2, <3>1, LeastAt
    <3>3. arr[j] \in Int /\ \A k \in reached : arr[k] \in Int
      BY <1>2
    <3>4. (-1) * 4 * arr[j] \in all /\ (-1) * q \in all
      OBVIOUS
    <3>5. CASE 4 * arr[j] <= q
      <4>1. \A y \in all : y <= (-1) * 4 * arr[j]
        BY <3>2, <3>3, <3>5, SMTT(30)
      <4> QED
        BY <3>4, <4>1
    <3>6. CASE ~(4 * arr[j] <= q)
      <4>1. \A y \in all : y <= (-1) * q
        BY <3>2, <3>3, <3>6, SMTT(30)
      <4> QED
        BY <3>4, <4>1
    <3> QED
      BY <3>5, <3>6
  <2> QED
    BY <2>1, <2>2
<1>6. PICK x \in all : \A y \in all : y <= x
  BY <1>5
<1>7. w = (-1) * x /\ x \in Int
  <2>1. Max(all) = x
    <3> HIDE DEF all
    <3> QED
      BY <1>4, <1>6, MaxIs
  <2> QED
    BY <1>1, <1>4, <2>1
<1> HIDE DEF w
<1>8. w \in Int /\ w <= q
  <2>1. (-1) * q <= x
    BY <1>6
  <2> QED
    BY <1>7, <2>1
<1>9. ASSUME NEW i \in places PROVE 4 * arr[i] < w <=> 8 * arr[i] < lo
  <2>1. arr[i] \in Int
    BY <1>2
  <2>2. CASE i \in reached
    <3>1. (-1) * 4 * arr[i] <= x
      BY <1>6, <2>2
    <3>2. ~(4 * arr[i] < w)
      BY <1>7, <2>1, <3>1
    <3> QED
      BY <1>3, <2>2, <3>2
  <2>3. CASE i \notin reached
    <3>1. 8 * arr[i] < lo
      BY <1>3, <2>3
    <3>2. CASE x = (-1) * q
      BY <1>7, <2>1, <3>1, <3>2
    <3>3. CASE x # (-1) * q
      <4>1. PICK j \in reached : x = (-1) * 4 * arr[j]
        BY <3>3
      <4>2. arr[j] \in Int /\ ~(8 * arr[j] < lo)
        BY <1>2, <1>3
      <4> DEFINE y == arr[j]
                 z == arr[i]
      <4>3. w = (-1) * x /\ x = (-1) * 4 * y /\ y \in Int /\ z \in Int /\ 8 * z < lo /\ ~(8 * y < lo)
        BY <1>7, <2>1, <3>1, <4>1, <4>2
      <4> HIDE DEF y, z
      <4>4. 4 * z < w
        BY <4>3
      <4> QED
        BY <3>1, <4>4 DEF z
    <3> QED
      BY <3>2, <3>3
  <2> QED
    BY <2>2, <2>3
<1> QED
  BY <1>8, <1>9 DEF w

\* The whisker above quartile q, with its limit hi, is not below q, and the
\* places above it are those above the limit.
LEMMA UpperWhisker ==
    ASSUME NEW n \in Nat, NEW arr \in [1 .. n -> Int], NEW q \in Int, NEW hi \in Int, 2 * q <= hi,
           NEW places \in SUBSET (1 .. n)
    PROVE  /\ Whisker(arr, q, hi, places, 1) \in Int
           /\ q <= Whisker(arr, q, hi, places, 1)
           /\ \A i \in places : 4 * arr[i] > Whisker(arr, q, hi, places, 1) <=> 8 * arr[i] > hi
<1> DEFINE reached == {i \in places : 1 * 8 * arr[i] <= 1 * hi}
           all == {1 * q} \cup {1 * 4 * arr[i] : i \in reached}
           w == Whisker(arr, q, hi, places, 1)
           minus == [i \in 1 .. n |-> 0 - arr[i]]
<1>1. w = 1 * Max(all)
  BY DEF Whisker
<1>2. \A i \in 1 .. n : arr[i] \in Int
  OBVIOUS
<1>3. \A i \in places : i \in reached <=> ~(8 * arr[i] > hi)
  BY <1>2
<1>4. all \in SUBSET Int
  BY <1>2
<1>5. \E x \in all : \A y \in all : y <= x
  <2>1. CASE reached = {}
    <3>1. 1 * q \in all /\ 1 * q \in Int
      OBVIOUS
    <3>2. \A y \in all : y = 1 * q
      BY <2>1
    <3>3. \A y \in all : y <= 1 * q
      BY <3>1, <3>2
    <3> HIDE DEF all
    <3> QED
      BY <3>1, <3>3
  <2>2. CASE reached # {}
    <3>1. reached \in SUBSET (1 .. n) /\ minus \in [1 .. n -> Int]
      <4>1. \A i \in 1 .. n : 0 - arr[i] \in Int
        BY <1>2
      <4>2. reached \in SUBSET (1 .. n)
        OBVIOUS
      <4> QED
        BY <4>1, <4>2
    <3>2. PICK j \in reached : \A k \in reached : minus[j] <= minus[k]
      <4> HIDE DEF reached, minus
      <4> QED
        BY <2>2, <3>1, LeastAt
    <3>3. arr[j] \in Int /\ \A k \in reached : arr[k] \in Int /\ arr[k] <= arr[j]
      <4>1. j \in 1 .. n /\ \A k \in reached : k \in 1 .. n
        OBVIOUS
      <4>2. \A k \in reached : 0 - arr[j] <= 0 - arr[k]
        <5> HIDE DEF reached
        <5> QED
          BY <3>2, <4>1
      <4> QED
        BY <1>2, <4>1, <4>2
    <3>4. 1 * 4 * arr[j] \in all /\ 1 * q \in all
      OBVIOUS
    <3>5. CASE q <= 4 * arr[j]
      <4>1. \A y \in all : y <= 1 * 4 * arr[j]
        BY <3>3, <3>5, SMTT(30)
      <4> QED
        BY <3>4, <4>1
    <3>6. CASE ~(q <= 4 * arr[j])
      <4>1. \A y \in all : y <= 1 * q
        BY <3>3, <3>6, SMTT(30)
      <4> QED
        BY <3>4, <4>1
    <3> QED
      BY <3>5, <3>6
  <2> QED
    BY <2>1, <2>2
<1>6. PICK x \in all : \A y \in all : y <= x
  BY <1>5
<1>7. w = x /\ x \in Int
  <2>1. Max(all) = x
    <3> HIDE DEF all
    <3> QED
      BY <1>4, <1>6, MaxIs
  <2> QED
    BY <1>1, <1>4, <2>1
<1> HIDE DEF w
<1>8. w \in Int /\ q <= w
  <2>1. 1 * q <= x
    BY <1>6
  <2> QED
    BY <1>7, <2>1
<1>9. ASSUME NEW i \in places PROVE 4 * arr[i] > w <=> 8 * arr[i] > hi
  <2>1. arr[i] \in Int
    BY <1>2
  <2>2. CASE i \in reached
    <3>1. 1 * 4 * arr[i] <= x
      BY <1>6, <2>2
    <3>2. ~(4 * arr[i] > w)
      BY <1>7, <2>1, <3>1
    <3> QED
      BY <1>3, <2>2, <3>2
  <2>3. CASE i \notin reached
    <3>1. 8 * arr[i] > hi
      BY <1>3, <2>3
    <3>2. CASE x = 1 * q
      BY <1>7, <2>1, <3>1, <3>2
    <3>3. CASE x # 1 * q
      <4>1. PICK j \in reached : x = 1 * 4 * arr[j]
        BY <3>3
      <4>2. arr[j] \in Int /\ ~(8 * arr[j] > hi)
        BY <1>2, <1>3
      <4> QED
        BY <1>7, <2>1, <3>1, <4>1, <4>2
    <3> QED
      BY <3>2, <3>3
  <2> QED
    BY <2>2, <2>3
<1> QED
  BY <1>8, <1>9 DEF w

\* Two pieces of a sequence.
Pieces(arr, n, nb, nt) == SubSeq(arr, 1, nb) \o SubSeq(arr, n - nt + 1, n)

ArePieces(both, arr, n, nb, nt) ==
    /\ both \in Seq(Int) /\ Len(both) = nb + nt
    /\ \A j \in 1 .. nb + nt : both[j] = arr[IF j <= nb THEN j ELSE j + (n - nt - nb)]

\* The fliers are the first nb places and the last nt.
LEMMA BothPiecesAre ==
    ASSUME NEW n \in Nat, NEW arr \in [1 .. n -> Int], NEW nb \in Nat, NEW nt \in Nat, nb + nt <= n
    PROVE  ArePieces(Pieces(arr, n, nb, nt), arr, n, nb, nt)
<1> DEFINE both == Pieces(arr, n, nb, nt)
           low == SubSeq(arr, 1, nb)
           high == SubSeq(arr, n - nt + 1, n)
<1>1. arr \in Seq(Int) /\ Len(arr) = n /\ \A j \in 1 .. n : arr[j] \in Int
  <2>1. arr \in Seq(Int)
    BY SeqDef
  <2> QED
    BY <2>1, LenProperties
<1>2. low \in Seq(Int) /\ Len(low) = nb /\ \A j \in 1 .. nb : low[j] = arr[j]
  <2>1. nb \in 0 .. n
    OBVIOUS
  <2>2. low = [j \in 1 .. nb |-> arr[j]]
    BY <1>1, <2>1
  <2>3. \A j \in 1 .. nb : arr[j] \in Int
    <3>1. \A j \in 1 .. nb : j \in 1 .. n
      OBVIOUS
    <3> QED
      BY <1>1, <3>1
  <2> HIDE DEF low
  <2>4. low \in [1 .. nb -> Int]
    BY <2>2, <2>3
  <2>5. low \in Seq(Int)
    BY <2>4, SeqDef
  <2> QED
    BY <2>2, <2>4, <2>5, LenProperties
<1>3. high \in Seq(Int) /\ Len(high) = nt /\ \A j \in 1 .. nt : high[j] = arr[j + (n - nt)]
  <2>1. n - nt + 1 \in 1 .. n + 1 /\ n - (n - nt + 1) + 1 = nt
    OBVIOUS
  <2>2. high = [j \in 1 .. nt |-> arr[j + (n - nt)]]
    <3>1. high = [j \in 1 .. n - (n - nt + 1) + 1 |-> arr[(n - nt + 1) + j - 1]]
      BY <1>1, <2>1
    <3>2. \A j \in 1 .. nt : (n - nt + 1) + j - 1 = j + (n - nt)
      OBVIOUS
    <3> HIDE DEF high
    <3> QED
      BY <2>1, <3>1, <3>2
  <2>3. \A j \in 1 .. nt : arr[j + (n - nt)] \in Int
    <3>1. \A j \in 1 .. nt : j + (n - nt) \in 1 .. n
      OBVIOUS
    <3> QED
      BY <1>1, <3>1
  <2> HIDE DEF high
  <2>4. high \in [1 .. nt -> Int]
    BY <2>2, <2>3
  <2>5. high \in Seq(Int)
    BY <2>4, SeqDef
  <2> QED
    BY <2>2, <2>4, <2>5, LenProperties
<1>4. both = low \o high
  BY DEF Pieces
<1> HIDE DEF low, high, both
<1>5. /\ low \o high \in Seq(Int) /\ Len(low \o high) = Len(low) + Len(high)
      /\ \A j \in 1 .. Len(low) + Len(high) : (low \o high)[j] = IF j <= Len(low) THEN low[j] ELSE high[j - Len(low)]
  BY <1>2, <1>3, ConcatProperties, Zenon
<1>6. ASSUME NEW j \in 1 .. nb + nt PROVE both[j] = arr[IF j <= nb THEN j ELSE j + (n - nt - nb)]
  <2>1. both[j] = IF j <= nb THEN low[j] ELSE high[j - nb]
    BY <1>2, <1>3, <1>4, <1>5
  <2>2. CASE j <= nb
    <3>1. j \in 1 .. nb
      BY <2>2
    <3> QED
      BY <1>2, <2>1, <2>2, <3>1
  <2>3. CASE ~(j <= nb)
    <3>1. j - nb \in 1 .. nt /\ (j - nb) + (n - nt) = j + (n - nt - nb)
      BY <2>3
    <3> QED
      BY <1>3, <2>1, <2>3, <3>1
  <2> QED
    BY <2>2, <2>3
<1> QED
  BY <1>2, <1>3, <1>4, <1>5, <1>6 DEF ArePieces, both

\* How many numbers an interval has.
LEMMA IntervalSize ==
    ASSUME NEW a \in Int, NEW b \in Int, a <= b
    PROVE  Cardinality(a + 1 .. b) = b - a
<1>1. a + 1 \in Int
  OBVIOUS
<1>2. Cardinality(a + 1 .. b) = IF a + 1 > b THEN 0 ELSE b - (a + 1) + 1
  BY <1>1, FS_Interval
<1> QED
  BY <1>2

\* The first nb and the last nt values are those beyond lo and hi.
Beyond(values, lo, hi, nb, nt) ==
    \A i \in 1 .. Len(values) :
        /\ 4 * Sorted(values)[i] < lo <=> i <= nb
        /\ 4 * Sorted(values)[i] > hi <=> i > Len(values) - nt

\* All that are beyond are fliers, as often as they are there, and no others are.
Accounts(values, fliers, lo, hi) ==
    /\ \A x \in ToSet(values) :
          Count(fliers, x) = IF lo <= 4 * x /\ 4 * x <= hi THEN 0 ELSE Count(values, x)
    /\ ToSet(fliers) \subseteq ToSet(values)

\* Values at the ends of the sorted ones are accounted for by a copy of these ends.
LEMMA AccountsForAll ==
    ASSUME NEW values \in Seq(Int), NEW lo \in Int, NEW hi \in Int, lo <= hi,
           NEW nb \in Nat, NEW nt \in Nat, nb + nt <= Len(values), Beyond(values, lo, hi, nb, nt)
    PROVE  Accounts(values, Pieces(Sorted(values), Len(values), nb, nt), lo, hi)
<1> DEFINE n == Len(values)
           arr == Sorted(values)
           fliers == Pieces(arr, n, nb, nt)
<1>0. n \in Nat /\ n = Len(values) /\ arr = Sorted(values) /\ nb + nt <= n
  BY LenProperties
<1>9. ASSUME NEW i \in 1 .. n PROVE (4 * arr[i] < lo <=> i <= nb) /\ (4 * arr[i] > hi <=> i > n - nt)
  BY Zenon DEF Beyond
<1>1. arr \in [1 .. n -> Int] /\ \A i \in 1 .. n : arr[i] \in ToSet(values)
  BY SortedIs
<1> HIDE DEF arr, n
<1>10. fliers = Pieces(arr, n, nb, nt)
  OBVIOUS
<1> HIDE DEF fliers
<1>11. /\ fliers \in Seq(Int) /\ Len(fliers) = nb + nt
       /\ \A j \in 1 .. nb + nt : fliers[j] = arr[IF j <= nb THEN j ELSE j + (n - nt - nb)]
  <2>1. ArePieces(Pieces(arr, n, nb, nt), arr, n, nb, nt)
    BY <1>0, <1>1, BothPiecesAre
  <2> QED
    BY <1>10, <2>1, Zenon DEF ArePieces
<1> DEFINE s == n - nt - nb
           from(j) == IF j <= nb THEN j ELSE j + s
<1>2. s \in Nat /\ s + nb = n - nt
  BY <1>0
<1>3. ASSUME NEW j \in 1 .. nb + nt
      PROVE  /\ from(j) \in 1 .. n
             /\ j <= nb => from(j) = j
             /\ ~(j <= nb) => from(j) = j + s /\ from(j) > n - nt
  BY <1>0, <1>2, SMTT(30)
<1>4. fliers \in Seq(Int) /\ Len(fliers) = nb + nt /\ \A j \in 1 .. nb + nt : fliers[j] = arr[from(j)]
  BY <1>11, Zenon DEF from, s
<1>8. \A v, w \in Int : /\ 4 * v < lo /\ lo <= 4 * w => v # w
                        /\ 4 * v > hi /\ 4 * w <= hi => v # w
                        /\ 4 * v < lo /\ 4 * w > hi => v # w
                        /\ 4 * v > hi /\ 4 * w < lo => v # w
  OBVIOUS
<1> HIDE DEF from, s
<1>5. ToSet(fliers) \subseteq ToSet(values)
  <2>1. DOMAIN fliers = 1 .. nb + nt
    BY <1>4, LenProperties
  <2>2. \A j \in 1 .. nb + nt : fliers[j] \in ToSet(values)
    BY <1>1, <1>3, <1>4
  <2>3. ToSet(fliers) = {fliers[j] : j \in DOMAIN fliers}
    BY DEF ToSet
  <2> QED
    BY <2>1, <2>2, <2>3
<1>6. ASSUME NEW j \in 1 .. nb + nt
      PROVE  /\ fliers[j] \in Int
             /\ j <= nb => fliers[j] = arr[j] /\ 4 * fliers[j] < lo
             /\ ~(j <= nb) => fliers[j] = arr[j + s] /\ 4 * fliers[j] > hi
  <2>1. from(j) \in 1 .. n /\ fliers[j] = arr[from(j)]
    BY <1>3, <1>4
  <2>2. fliers[j] \in Int
    BY <1>1, <2>1
  <2>3. CASE j <= nb
    BY <1>3, <1>9, <2>1, <2>2, <2>3
  <2>4. CASE ~(j <= nb)
    <3>1. from(j) = j + s /\ from(j) > n - nt
      BY <1>3, <2>4
    <3>2. 4 * arr[from(j)] > hi
      BY <1>9, <2>1, <3>1
    <3> QED
      BY <2>1, <2>2, <2>4, <3>1, <3>2
  <2> QED
    BY <2>3, <2>4
<1>7. ASSUME NEW x \in ToSet(values)
      PROVE  Count(fliers, x) = IF lo <= 4 * x /\ 4 * x <= hi THEN 0 ELSE Count(values, x)
  <2>1. x \in Int
    BY ElementOfSeq, LenProperties DEF ToSet
  <2> DEFINE below == Below(values, x)
             upto == UpTo(values, x)
             there == {j \in 1 .. nb + nt : fliers[j] = x}
  <2>2. below \in 0 .. n /\ upto \in 0 .. n /\ below <= upto /\ Count(values, x) = upto - below
    BY <1>0, <2>1, CountsFit
  <2>3. Count(fliers, x) = Cardinality(there)
    <3>1. Count(fliers, x) = Cardinality({i \in 1 .. Len(fliers) : fliers[i] = x})
      BY <1>4, <2>1, CountsAre
    <3> QED
      BY <1>4, <3>1
  <2>4. \A i \in 1 .. n : arr[i] \in Int /\ (arr[i] = x <=> i \in below + 1 .. upto)
    BY <1>0, <1>1, <2>1, PlacesOf
  <2> HIDE DEF below, upto
  <2>5. CASE lo <= 4 * x /\ 4 * x <= hi
    <3>1. ASSUME NEW j \in 1 .. nb + nt PROVE fliers[j] # x
      <4>1. CASE j <= nb
        <5>1. 4 * fliers[j] < lo /\ fliers[j] \in Int
          BY <1>6, <4>1
        <5> QED
          BY <1>8, <2>1, <2>5, <5>1, Zenon
      <4>2. CASE ~(j <= nb)
        <5>1. 4 * fliers[j] > hi /\ fliers[j] \in Int
          BY <1>6, <4>2
        <5> QED
          BY <1>8, <2>1, <2>5, <5>1, Zenon
      <4> QED
        BY <4>1, <4>2
    <3>2. there = {}
      BY <3>1
    <3> QED
      BY <2>3, <2>5, <3>2, FS_EmptySet
  <2>6. CASE 4 * x < lo
    <3>1. ASSUME NEW j \in 1 .. nb + nt PROVE fliers[j] = x <=> j \in below + 1 .. upto
      <4>0. j \in Nat /\ j \in 1 .. n
        BY <1>0
      <4>1. CASE j <= nb
        <5>1. fliers[j] = arr[j]
          BY <1>6, <4>1
        <5> QED
          BY <2>4, <4>0, <5>1
      <4>2. CASE ~(j <= nb)
        <5>1. 4 * fliers[j] > hi /\ fliers[j] \in Int
          BY <1>6, <4>2
        <5>2. fliers[j] # x
          BY <1>8, <2>1, <2>6, <5>1, Zenon
        <5>3. arr[j] # x
          <6>1. ~(4 * arr[j] < lo)
            BY <1>9, <4>0, <4>2
          <6> QED
            BY <2>1, <2>6, <6>1
        <5> QED
          BY <2>4, <4>0, <5>2, <5>3
      <4> QED
        BY <4>1, <4>2
    <3>2. ASSUME NEW j \in below + 1 .. upto PROVE j \in 1 .. nb + nt
      <4>1. j \in 1 .. n
        BY <1>0, <2>2
      <4>2. 4 * arr[j] < lo
        BY <2>4, <2>6, <4>1
      <4>3. j <= nb
        BY <1>9, <4>1, <4>2
      <4> QED
        BY <4>1, <4>3
    <3>3. there = below + 1 .. upto
      BY <3>1, <3>2
    <3>4. Cardinality(below + 1 .. upto) = upto - below
      <4>1. below \in Int /\ upto \in Int /\ below <= upto
        BY <2>2
      <4> QED
        BY <4>1, IntervalSize
    <3>5. ~(lo <= 4 * x)
      BY <2>1, <2>6
    <3> QED
      BY <2>2, <2>3, <3>3, <3>4, <3>5
  <2>7. CASE 4 * x > hi
    <3> DEFINE a == below - s
               b == upto - s
    <3>0. a \in Int /\ b \in Int /\ a <= b /\ b - a = upto - below
      BY <1>2, <2>2
    <3>a. ASSUME NEW j \in Int PROVE j \in a + 1 .. b <=> j + s \in below + 1 .. upto
      BY <1>2, <2>2
    <3> HIDE DEF a, b
    <3>1. ASSUME NEW j \in 1 .. nb + nt PROVE fliers[j] = x <=> j \in a + 1 .. b
      <4>0. j \in Int /\ j + s \in 1 .. n
        BY <1>0, <1>2
      <4>1. CASE j <= nb
        <5>1. 4 * fliers[j] < lo /\ fliers[j] \in Int
          BY <1>6, <4>1
        <5>2. fliers[j] # x
          BY <1>8, <2>1, <2>7, <5>1, Zenon
        <5>3. arr[j + s] # x
          <6>1. ~(j + s > n - nt)
            BY <1>0, <1>2, <4>1
          <6>2. ~(4 * arr[j + s] > hi)
            BY <1>9, <4>0, <6>1
          <6> QED
            BY <2>1, <2>7, <6>2
        <5> QED
          BY <2>4, <3>a, <4>0, <5>2, <5>3
      <4>2. CASE ~(j <= nb)
        <5>1. fliers[j] = arr[j + s]
          BY <1>6, <4>2
        <5> QED
          BY <2>4, <3>a, <4>0, <5>1
      <4> QED
        BY <4>1, <4>2
    <3>2. ASSUME NEW j \in a + 1 .. b PROVE j \in 1 .. nb + nt
      <4>0. j \in Int
        BY <3>0
      <4>1. j + s \in below + 1 .. upto /\ j + s \in 1 .. n
        <5>1. j + s \in below + 1 .. upto
          BY <3>a, <4>0
        <5>2. j + s \in Int
          BY <1>2, <4>0
        <5> DEFINE k == j + s
        <5>3. k \in Int /\ k \in below + 1 .. upto
          BY <5>1, <5>2
        <5> HIDE DEF k
        <5>4. k \in 1 .. n
          BY <1>0, <2>2, <5>3
        <5> QED
          BY <5>1, <5>4 DEF k
      <4>2. 4 * arr[j + s] > hi
        BY <2>4, <2>7, <4>1
      <4>3. j + s > n - nt
        BY <1>9, <4>1, <4>2
      <4> QED
        BY <1>0, <1>2, <4>0, <4>1, <4>3
    <3>3. there = a + 1 .. b
      BY <3>1, <3>2
    <3>4. Cardinality(a + 1 .. b) = upto - below
      BY <3>0, IntervalSize
    <3>5. ~(4 * x <= hi)
      BY <2>1, <2>7
    <3> QED
      BY <2>2, <2>3, <3>3, <3>4, <3>5
  <2> QED
    BY <2>1, <2>5, <2>6, <2>7
<1> QED
  BY <1>5, <1>7, Zenon DEF Accounts, fliers, arr, n

\* A number between a value of the first half and one of the second has half of
\* the values on each side.
HalvesAt(values, med) ==
    /\ 2 * Quantify(DOMAIN values, LAMBDA i : 4 * values[i] <= med) >= Len(values)
    /\ 2 * Quantify(DOMAIN values, LAMBDA i : 4 * values[i] >= med) >= Len(values)

\* A number between two places that have half of the array at their side has it too.
LEMMA HalvesAre ==
    ASSUME NEW values \in Seq(Int), NEW n \in Nat, n = Len(values), NEW arr, arr = Sorted(values),
           NEW med \in Int, NEW a \in 1 .. n, NEW c \in 1 .. n,
           4 * arr[a] <= med, med <= 4 * arr[c], 2 * a >= n, 2 * (n - c + 1) >= n
    PROVE  HalvesAt(values, med)
<1> DEFINE low == {i \in 1 .. n : 4 * values[i] <= med}
           high == {i \in 1 .. n : 4 * values[i] >= med}
           x == arr[a]
           y == arr[c]
<1>1. DOMAIN values = 1 .. n /\ \A i \in 1 .. n : values[i] \in Int
  BY LenProperties, ElementOfSeq
<1>2. x \in Int /\ y \in Int /\ a <= UpTo(values, x) /\ Below(values, y) < c
  BY SortedIs
<1>3. low \in SUBSET (1 .. n) /\ high \in SUBSET (1 .. n)
  OBVIOUS
<1>4. Cardinality(low) >= a
  <2> DEFINE upto == {i \in 1 .. n : values[i] <= x}
  <2>1. upto \in SUBSET low
    BY <1>1, <1>2, SMTT(30)
  <2>2. Cardinality(upto) = UpTo(values, x) /\ UpTo(values, x) \in 0 .. n
    BY <1>2, CountsAre, CountsFit
  <2>3. Cardinality(upto) <= Cardinality(low) /\ Cardinality(low) \in 0 .. n
    <3> HIDE DEF upto, low
    <3> QED
      BY <1>3, <2>1, PlacesWithin, PlacesCounted
  <2> HIDE DEF x, low, upto
  <2> QED
    BY <1>2, <2>2, <2>3
<1>5. Cardinality(high) >= n - c + 1
  <2> DEFINE from == {i \in 1 .. n : values[i] >= y}
  <2>1. from \in SUBSET high
    BY <1>1, <1>2, SMTT(30)
  <2>2. Quantify(DOMAIN values, LAMBDA i : values[i] >= y) = n - Below(values, y) /\ Below(values, y) \in 0 .. n
    BY <1>2, CountsFit
  <2>3. Quantify(DOMAIN values, LAMBDA i : values[i] >= y) = Cardinality(from)
    BY <1>1 DEF Quantify
  <2>4. Cardinality(from) <= Cardinality(high) /\ Cardinality(high) \in 0 .. n
    <3> HIDE DEF from, high
    <3> QED
      BY <1>3, <2>1, PlacesWithin, PlacesCounted
  <2>5. Cardinality(from) = n - Below(values, y)
    BY <2>2, <2>3
  <2> HIDE DEF y, high, from
  <2> QED
    BY <1>2, <2>2, <2>4, <2>5, SMTT(30)
<1>6. Cardinality(low) \in 0 .. n /\ Cardinality(high) \in 0 .. n
  <2> HIDE DEF low, high
  <2> QED
    BY <1>3, PlacesCounted
<1>7. /\ Quantify(DOMAIN values, LAMBDA i : 4 * values[i] <= med) = Cardinality(low)
      /\ Quantify(DOMAIN values, LAMBDA i : 4 * values[i] >= med) = Cardinality(high)
  BY <1>1 DEF Quantify
<1>8. 2 * Cardinality(low) >= n /\ 2 * Cardinality(high) >= n
  <2> HIDE DEF low, high
  <2> QED
    BY <1>4, <1>5, <1>6, SMTT(30)
<1> QED
  BY <1>7, <1>8 DEF HalvesAt

\* For any values (mys_boxplot_create, statistic.c): the quartiles are in order
\* inside of the whiskers, half of the values are on each side of the median,
\* and every value is between the whiskers or a flier, as often as it is there.
THEOREM BoxplotsAccountForAll ==
    ASSUME NEW values \in Seq(Int), values # <<>>
    PROVE  BoxplotExact(values)
<1> DEFINE n == Len(values)
           arr == Sorted(values)
           b == Create(values)
<1>1. n \in Nat /\ n > 0
  BY LenProperties, EmptySeq
<1>2. arr \in [1 .. n -> Int] /\ \A i, j \in 1 .. n : i <= j => arr[i] <= arr[j]
  BY SortedIs, SortedRises
<1>3. Len(arr) = n /\ arr \in Seq(Int)
  <2> HIDE DEF arr, n
  <2>1. arr \in Seq(Int)
    BY <1>1, <1>2, SeqDef
  <2> QED
    BY <1>1, <1>2, <2>1, LenProperties
<1> DEFINE q1 == Quartile(arr, 1)
           q2 == Quartile(arr, 2)
           q3 == Quartile(arr, 3)
           loval == 2 * q1 - 3 * (q3 - q1)
           hival == 2 * q3 + 3 * (q3 - q1)
           bottom == 1 .. At(n, 1).arg + 1
           top == At(n, 3).arg + 1 .. n
           nb == Quantify(bottom, LAMBDA i : 8 * arr[i] < loval)
           nt == Quantify(top, LAMBDA i : 8 * arr[i] > hival)
           one == [q1 |-> 4 * arr[1], med |-> 4 * arr[1], q3 |-> 4 * arr[1],
                   whislo |-> 4 * arr[1], whishi |-> 4 * arr[1], fliers |-> <<>>]
           narrow == [q1 |-> q1, med |-> q2, q3 |-> q3,
                      whislo |-> 4 * arr[1], whishi |-> 4 * arr[n], fliers |-> <<>>]
           wide == [q1 |-> q1, med |-> q2, q3 |-> q3,
                    whislo |-> Whisker(arr, q1, loval, bottom, -1),
                    whishi |-> Whisker(arr, q3, hival, top, 1),
                    fliers |-> SubSeq(arr, 1, nb) \o SubSeq(arr, n - nt + 1, n)]
<1>4. b = CASE n = 1 -> one
            [] n > 1 /\ Narrow(q1, q3) -> narrow
            [] OTHER -> wide
  BY <1>3 DEF Create
\* What it takes to be exact.
<1> DEFINE InOrder == b.whislo <= b.q1 /\ b.q1 <= b.med /\ b.med <= b.q3 /\ b.q3 <= b.whishi
           Halves == HalvesAt(values, b.med)
           Accounted == Accounts(values, b.fliers, b.whislo, b.whishi)
<1> SUFFICES InOrder /\ Halves /\ Accounted
  BY Zenon DEF BoxplotExact, HalvesAt, Accounts
<1> HIDE DEF b, arr, n, q1, q2, q3, loval, hival, bottom, top, nb, nt
<1>5. n = Len(values) /\ arr = Sorted(values) /\ \A i \in 1 .. n : arr[i] \in Int
  <2>1. \A i \in 1 .. n : arr[i] \in Int
    BY <1>2
  <2> QED
    BY <2>1, Zenon DEF n, arr
\* Nothing is beyond the least and the greatest value.
<1>6. ASSUME b.whislo = 4 * arr[1], b.whishi = 4 * arr[n], b.fliers = <<>> PROVE Accounted
  <2> DEFINE lo == 4 * arr[1]
             hi == 4 * arr[n]
  <2>1. 1 \in 1 .. n /\ n \in 1 .. n
    BY <1>1
  <2>2. lo \in Int /\ hi \in Int /\ lo <= hi
    BY <1>1, <1>2, <1>5, <2>1, SMTT(30)
  <2>3. Beyond(values, lo, hi, 0, 0)
    <3>1. ASSUME NEW i \in 1 .. n PROVE (4 * arr[i] < lo <=> i <= 0) /\ (4 * arr[i] > hi <=> i > n - 0)
      <4>1. 1 <= i /\ i <= n /\ i \in Nat
        BY <1>1
      <4>2. arr[1] <= arr[i] /\ arr[i] <= arr[n] /\ arr[1] \in Int /\ arr[n] \in Int /\ arr[i] \in Int
        BY <1>2, <1>5, <2>1, <4>1
      <4>3. ~(4 * arr[i] < lo) /\ ~(4 * arr[i] > hi)
        BY <4>2
      <4> QED
        BY <1>1, <4>1, <4>3
    <3> HIDE DEF lo, hi
    <3> QED
      BY <3>1, Zenon DEF Beyond, n, arr
  <2>4. Pieces(arr, n, 0, 0) = <<>>
    <3>1. SubSeq(arr, 1, 0) = <<>> /\ SubSeq(arr, n - 0 + 1, n) = <<>>
      BY <1>1, <1>3
    <3>2. <<>> \o <<>> = <<>>
      BY ConcatEmptySeq
    <3> QED
      BY <3>1, <3>2, Zenon DEF Pieces
  <2>5. 0 \in Nat /\ 0 + 0 <= n
    BY <1>1
  <2> HIDE DEF lo, hi
  <2>6. Accounts(values, Pieces(Sorted(values), Len(values), 0, 0), lo, hi)
    BY <1>5, <2>2, <2>3, <2>5, AccountsForAll, Zenon
  <2> QED
    BY <1>5, <1>6, <2>4, <2>6, Zenon DEF lo, hi
<1>7. CASE n = 1
  <2>1. b = one
    BY <1>4, <1>7
  <2> DEFINE x == 4 * arr[1]
  <2>2. b.whislo = x /\ b.q1 = x /\ b.med = x /\ b.q3 = x /\ b.whishi = x /\ b.fliers = <<>>
    BY <2>1
  <2>3. 1 \in 1 .. n /\ x \in Int /\ x <= x /\ 2 * 1 >= n /\ 2 * (n - 1 + 1) >= n
    BY <1>5, <1>7
  <2>4. InOrder
    BY <2>2, <2>3
  <2>5. HalvesAt(values, x)
    BY <1>1, <1>5, <2>3, HalvesAre, Zenon
  <2>6. Halves
    BY <2>2, <2>5, Zenon
  <2>7. Accounted
    BY <1>6, <1>7, <2>2, Zenon
  <2> QED
    BY <2>4, <2>6, <2>7
<1>8. CASE n # 1
  <2>0. n > 1 /\ n \in Nat
    BY <1>1, <1>8
  <2>a. 1 \in 1 .. 3 /\ 2 \in 1 .. 3 /\ 3 \in 1 .. 3
    OBVIOUS
  <2>b. PICK a1 \in 0 .. n - 2, r1 \in 0 .. 3 : IsQuartileAt(n, arr, 1, a1, r1)
    BY <1>2, <2>0, <2>a, QuartileAt, Zenon
  <2>c. PICK a2 \in 0 .. n - 2, r2 \in 0 .. 3 : IsQuartileAt(n, arr, 2, a2, r2)
    BY <1>2, <2>0, <2>a, QuartileAt, Zenon
  <2>d. PICK a3 \in 0 .. n - 2, r3 \in 0 .. 3 : IsQuartileAt(n, arr, 3, a3, r3)
    BY <1>2, <2>0, <2>a, QuartileAt, Zenon
  <2>1. /\ At(n, 1).arg = a1 /\ q1 \in Int /\ arr[a1 + 1] \in Int /\ arr[a1 + 2] \in Int
        /\ 4 * arr[a1 + 1] <= q1 /\ q1 <= 4 * arr[a1 + 2]
    BY <2>b, Zenon DEF IsQuartileAt, q1
  <2>2. /\ 2 * (n - 1) = 4 * a2 + r2 /\ q2 \in Int /\ arr[a2 + 1] \in Int /\ arr[a2 + 2] \in Int
        /\ 4 * arr[a2 + 1] <= q2 /\ q2 <= 4 * arr[a2 + 2] /\ (r2 = 0 => q2 = 4 * arr[a2 + 1])
    BY <2>c, Zenon DEF IsQuartileAt, q2
  <2>3. /\ At(n, 3).arg = a3 /\ q3 \in Int /\ arr[a3 + 1] \in Int /\ arr[a3 + 2] \in Int
        /\ 4 * arr[a3 + 1] <= q3 /\ q3 <= 4 * arr[a3 + 2]
    BY <2>d, Zenon DEF IsQuartileAt, q3
  <2>4. q1 <= q2 /\ q2 <= q3
    <3>1. Quartile(arr, 1) <= Quartile(arr, 1 + 1) /\ Quartile(arr, 2) <= Quartile(arr, 2 + 1)
      <4>1. 1 \in 1 .. 2 /\ 2 \in 1 .. 2
        OBVIOUS
      <4> QED
        BY <1>2, <2>0, <4>1, QuartilesRise
    <3>2. 1 + 1 = 2 /\ 2 + 1 = 3
      OBVIOUS
    <3> QED
      BY <3>1, <3>2 DEF q1, q2, q3
  <2>5. b.q1 = q1 /\ b.med = q2 /\ b.q3 = q3
    <3>1. b = narrow \/ b = wide
      BY <1>4, <1>8
    <3> QED
      BY <3>1
  <2>6. Halves
    <3>1. PICK c \in 1 .. n : q2 <= 4 * arr[c] /\ 2 * (n - c + 1) >= n
      <4>1. CASE r2 = 0
        <5>1. a2 + 1 \in 1 .. n /\ 2 * (n - (a2 + 1) + 1) >= n
          BY <2>0, <2>2, <4>1
        <5>2. q2 <= 4 * arr[a2 + 1]
          BY <2>2, <4>1
        <5> QED
          BY <5>1, <5>2
      <4>2. CASE r2 # 0
        <5>1. a2 + 2 \in 1 .. n /\ 2 * (n - (a2 + 2) + 1) >= n
          BY <2>0, <2>2, <4>2
        <5> QED
          BY <2>2, <5>1
      <4> QED
        BY <4>1, <4>2
    <3>2. a2 + 1 \in 1 .. n /\ 2 * (a2 + 1) >= n
      BY <2>0, <2>2
    <3>3. HalvesAt(values, q2)
      BY <1>5, <2>0, <2>2, <3>1, <3>2, HalvesAre, Zenon
    <3> QED
      BY <2>5, <3>3, Zenon
  <2>7. CASE Narrow(q1, q3)
    <3>1. b = narrow
      BY <1>4, <1>8, <2>0, <2>7
    <3>2. b.whislo = 4 * arr[1] /\ b.whishi = 4 * arr[n] /\ b.fliers = <<>>
      BY <3>1
    <3>3. Accounted
      BY <1>6, <3>2, Zenon
    <3>4. 4 * arr[1] <= q1 /\ q3 <= 4 * arr[n]
      <4>1. 1 \in 1 .. n /\ n \in 1 .. n /\ a1 + 1 \in 1 .. n /\ a3 + 2 \in 1 .. n /\ 1 <= a1 + 1 /\ a3 + 2 <= n
        BY <2>0
      <4>2. arr[1] <= arr[a1 + 1] /\ arr[a3 + 2] <= arr[n] /\ arr[1] \in Int /\ arr[n] \in Int
        BY <1>2, <1>5, <4>1
      <4>3. 4 * arr[1] <= q1
        BY <2>1, <4>2, SMTT(30)
      <4>4. q3 <= 4 * arr[n]
        BY <2>3, <4>2, SMTT(30)
      <4> QED
        BY <4>3, <4>4
    <3>5. InOrder
      BY <2>4, <2>5, <3>2, <3>4
    <3> QED
      BY <2>6, <3>3, <3>5
  <2>8. CASE ~Narrow(q1, q3)
    <3>1. b = wide
      BY <1>4, <1>8, <2>8
    <3> DEFINE lo == Whisker(arr, q1, loval, bottom, -1)
               hi == Whisker(arr, q3, hival, top, 1)
    <3>2. b.whislo = lo /\ b.whishi = hi /\ b.fliers = SubSeq(arr, 1, nb) \o SubSeq(arr, n - nt + 1, n)
      BY <3>1
    <3>3. /\ loval \in Int /\ loval <= 2 * q1 /\ hival \in Int /\ 2 * q3 <= hival
          /\ bottom \in SUBSET (1 .. n) /\ top \in SUBSET (1 .. n)
      <4>1. q1 \in Int /\ q3 \in Int /\ q1 <= q3
        BY <2>1, <2>2, <2>3, <2>4
      <4>2. bottom = 1 .. a1 + 1 /\ top = a3 + 1 .. n
        BY <2>1, <2>3 DEF bottom, top
      <4>3. bottom \in SUBSET (1 .. n) /\ top \in SUBSET (1 .. n)
        BY <2>0, <4>2
      <4> QED
        BY <4>1, <4>3 DEF loval, hival
    <3>4. lo \in Int /\ lo <= q1 /\ \A i \in bottom : 4 * arr[i] < lo <=> 8 * arr[i] < loval
      BY <1>2, <2>0, <2>1, <3>3, LowerWhisker
    <3>5. hi \in Int /\ q3 <= hi /\ \A i \in top : 4 * arr[i] > hi <=> 8 * arr[i] > hival
      BY <1>2, <2>0, <2>3, <3>3, UpperWhisker
    <3> HIDE DEF lo, hi
    <3> DEFINE low == {i \in bottom : 8 * arr[i] < loval}
               high == {i \in top : 8 * arr[i] > hival}
    <3>6. low = 1 .. nb /\ nb \in 0 .. n
      <4>1. nb = Cardinality(low)
        BY DEF nb, Quantify
      <4>2. low \in SUBSET (1 .. n)
        BY <3>3
      <4>3. ASSUME NEW k \in low, NEW j \in 1 .. n, j <= k PROVE j \in low
        <5>1. k \in 1 .. n /\ k \in 1 .. a1 + 1 /\ 8 * arr[k] < loval
          BY <2>1, <3>3 DEF bottom
        <5>2. arr[j] <= arr[k] /\ arr[j] \in Int /\ arr[k] \in Int
          BY <1>2, <1>5, <4>3, <5>1
        <5>3. j \in 1 .. a1 + 1
          BY <4>3, <5>1
        <5>4. 8 * arr[j] < loval
          BY <3>3, <5>1, <5>2, SMTT(30)
        <5> QED
          BY <2>1, <5>3, <5>4 DEF bottom
      <4> HIDE DEF low
      <4> QED
        BY <2>0, <4>1, <4>2, <4>3, FirstPlaces
    <3>7. high = n - nt + 1 .. n /\ nt \in 0 .. n
      <4>1. nt = Cardinality(high)
        BY DEF nt, Quantify
      <4>2. high \in SUBSET (1 .. n)
        BY <3>3
      <4>3. ASSUME NEW k \in high, NEW j \in 1 .. n, k <= j PROVE j \in high
        <5>1. k \in 1 .. n /\ k \in a3 + 1 .. n /\ 8 * arr[k] > hival
          BY <2>3, <3>3 DEF top
        <5>2. arr[k] <= arr[j] /\ arr[j] \in Int /\ arr[k] \in Int
          BY <1>2, <1>5, <4>3, <5>1
        <5>3. j \in a3 + 1 .. n
          BY <4>3, <5>1
        <5>4. 8 * arr[j] > hival
          BY <3>3, <5>1, <5>2, SMTT(30)
        <5> QED
          BY <2>3, <5>3, <5>4 DEF top
      <4> HIDE DEF high
      <4> QED
        BY <2>0, <4>1, <4>2, <4>3, LastPlaces
    <3>8. ASSUME NEW i \in 1 .. n PROVE 4 * arr[i] < lo <=> i <= nb
      <4>1. i \in Nat /\ arr[i] \in Int /\ (i \in low <=> i <= nb)
        BY <1>5, <2>0, <3>6, SMTT(30)
      <4>2. CASE i <= a1 + 1
        <5>1. i \in bottom
          BY <2>1, <4>1, <4>2 DEF bottom
        <5> QED
          BY <3>4, <4>1, <5>1
      <4>3. CASE ~(i <= a1 + 1)
        <5>1. i \notin low
          <6>1. i \notin bottom
            BY <2>1, <4>1, <4>3 DEF bottom
          <6> QED
            BY <6>1
        <5>2. a1 + 2 \in 1 .. n /\ a1 + 2 <= i
          BY <2>0, <4>1, <4>3
        <5>3. arr[a1 + 2] <= arr[i]
          BY <1>2, <5>2
        <5>4. ~(4 * arr[i] < lo)
          BY <2>1, <3>4, <4>1, <5>3, SMTT(30)
        <5> QED
          BY <4>1, <5>1, <5>4
      <4> QED
        BY <4>2, <4>3
    <3>9. ASSUME NEW i \in 1 .. n PROVE 4 * arr[i] > hi <=> i > n - nt
      <4>1. i \in Nat /\ arr[i] \in Int /\ (i \in high <=> i > n - nt)
        BY <1>5, <2>0, <3>7
      <4>2. CASE i > a3
        <5>1. i \in top
          BY <2>3, <4>1, <4>2 DEF top
        <5> QED
          BY <3>5, <4>1, <5>1
      <4>3. CASE ~(i > a3)
        <5>1. i \notin high
          <6>1. i \notin top
            BY <2>3, <4>1, <4>3 DEF top
          <6> QED
            BY <6>1
        <5>2. a3 + 1 \in 1 .. n /\ i <= a3 + 1
          BY <2>0, <4>1, <4>3
        <5>3. arr[i] <= arr[a3 + 1]
          BY <1>2, <5>2
        <5>4. ~(4 * arr[i] > hi)
          BY <2>3, <3>5, <4>1, <5>3, SMTT(30)
        <5> QED
          BY <4>1, <5>1, <5>4
      <4> QED
        BY <4>2, <4>3
    <3>10. lo <= hi
      BY <2>1, <2>2, <2>3, <2>4, <3>4, <3>5
    <3>11. nb \in Nat /\ nt \in Nat /\ nb + nt <= n
      <4>1. nb \in Nat /\ nt \in Nat /\ nb <= n /\ nt <= n
        BY <2>0, <3>6, <3>7
      <4> SUFFICES ASSUME nb + nt > n PROVE FALSE
        BY <2>0, <4>1
      <4>2. nb \in 1 .. n /\ nb <= nb /\ nb > n - nt
        BY <2>0, <4>1
      <4>3. 4 * arr[nb] < lo /\ 4 * arr[nb] > hi /\ arr[nb] \in Int
        BY <1>5, <3>8, <3>9, <4>2
      <4> QED
        BY <3>4, <3>5, <3>10, <4>3
    <3>12. Accounts(values, Pieces(Sorted(values), Len(values), nb, nt), lo, hi)
      <4>1. Beyond(values, lo, hi, nb, nt)
        BY <3>8, <3>9, Zenon DEF Beyond, n, arr
      <4> QED
        BY <1>5, <3>4, <3>5, <3>10, <3>11, <4>1, AccountsForAll, Zenon
    <3>13. Accounted
      <4>1. b.fliers = Pieces(Sorted(values), Len(values), nb, nt)
        BY <1>5, <3>2, Zenon DEF Pieces
      <4> QED
        BY <3>2, <3>12, <4>1, Zenon
    <3>14. InOrder
      BY <2>4, <2>5, <3>2, <3>4, <3>5
    <3> QED
      BY <2>6, <3>13, <3>14
  <2> QED
    BY <2>7, <2>8
<1> QED
  BY <1>7, <1>8

-----------------------------------------------------------------------------
\* What a run prints, and what that is made of.
Printed(run) == IF run.pass = 0 THEN run.spec ELSE <<run>>
RunsOf(chars) == [pass : Nat, spec : Seq(chars)]
ItemsOf(chars) == chars \cup RunsOf(chars)

\* What a run leaves is a sequence of items.
LEMMA PrintedIs ==
    ASSUME NEW chars, NEW run \in RunsOf(chars)
    PROVE  Printed(run) \in Seq(ItemsOf(chars))
<1>1. run.spec \in Seq(chars) /\ chars \subseteq ItemsOf(chars) /\ run \in ItemsOf(chars)
  BY DEF RunsOf, ItemsOf
<1>2. run.spec \in Seq(ItemsOf(chars))
  BY <1>1, SeqMonotonic
<1>3. <<run>> \in Seq(ItemsOf(chars))
  BY <1>1
<1> QED
  BY <1>2, <1>3 DEF Printed

\* What is printed is what each run prints, one after the other.
LEMMA ApplyJoins ==
    ASSUME NEW runs, NEW n \in Nat, DOMAIN runs = 1 .. n
    PROVE  \E h : /\ Apply(runs) = h[n] /\ h[0] = <<>>
                  /\ \A k \in 1 .. n : h[k] = h[k - 1] \o Printed(runs[k])
<1> DEFINE join(out, run) == out \o Printed(run)
           value == FoldLeft(join, <<>>, runs)
<1>1. Apply(runs) = value
  BY DEF Apply, Printed
<1>2. IsLeftFold(value, join, <<>>, runs, n)
  <2> HIDE DEF join
  <2> QED
    BY FoldLeftIsFunction
<1> HIDE DEF value
<1>4. PICK h : /\ Apply(runs) = h[n]
               /\ h = [k \in 0 .. n |-> IF k = 0 THEN <<>> ELSE h[k - 1] \o Printed(runs[k])]
  BY <1>1, <1>2 DEF IsLeftFold
<1>5. 0 \in 0 .. n /\ \A k \in 1 .. n : k \in 0 .. n /\ k # 0
  OBVIOUS
<1>6. h[0] = <<>> /\ \A k \in 1 .. n : h[k] = h[k - 1] \o Printed(runs[k])
  BY <1>4, <1>5
<1> QED
  BY <1>4, <1>6

\* Runs are applied one after the other.
LEMMA ApplyFirst ==
    ASSUME NEW chars, NEW run \in RunsOf(chars), NEW runs \in Seq(RunsOf(chars))
    PROVE  /\ Apply(runs) \in Seq(ItemsOf(chars))
           /\ Apply(<<run>> \o runs) = Printed(run) \o Apply(runs)
<1> DEFINE items == Seq(ItemsOf(chars))
           n == Len(runs)
           all == <<run>> \o runs
           first == Printed(run)
<1>1. n \in Nat /\ DOMAIN runs = 1 .. n /\ \A k \in 1 .. n : runs[k] \in RunsOf(chars)
  BY LenProperties, ElementOfSeq
<1>2. /\ all \in Seq(RunsOf(chars)) /\ Len(all) = n + 1 /\ DOMAIN all = 1 .. n + 1
      /\ all[1] = run /\ \A k \in 1 .. n : all[k + 1] = runs[k]
  <2>1. <<run>> \in Seq(RunsOf(chars)) /\ Len(<<run>>) = 1 /\ <<run>>[1] = run
    OBVIOUS
  <2>2. /\ all \in Seq(RunsOf(chars)) /\ Len(all) = 1 + n
        /\ \A i \in 1 .. 1 + n : all[i] = IF i <= 1 THEN <<run>>[i] ELSE runs[i - 1]
    BY <2>1, ConcatProperties, Zenon
  <2>3. DOMAIN all = 1 .. Len(all)
    BY <2>2, LenProperties
  <2> HIDE DEF all, n
  <2>4. 1 + n = n + 1 /\ 1 \in 1 .. 1 + n
    BY <1>1
  <2>5. all[1] = run
    BY <2>1, <2>2, <2>4
  <2>6. ASSUME NEW k \in 1 .. n PROVE all[k + 1] = runs[k]
    <3>1. k + 1 \in 1 .. 1 + n /\ ~(k + 1 <= 1) /\ (k + 1) - 1 = k
      BY <1>1
    <3>2. all[k + 1] = runs[(k + 1) - 1]
      BY <2>2, <3>1
    <3> QED
      BY <3>1, <3>2
  <2> QED
    BY <2>2, <2>3, <2>4, <2>5, <2>6
<1> HIDE DEF n, all
<1>3. PICK g : Apply(runs) = g[n] /\ g[0] = <<>> /\ \A k \in 1 .. n : g[k] = g[k - 1] \o Printed(runs[k])
  BY <1>1, ApplyJoins
<1>4. PICK h : Apply(all) = h[n + 1] /\ h[0] = <<>> /\ \A k \in 1 .. n + 1 : h[k] = h[k - 1] \o Printed(all[k])
  <2>1. n + 1 \in Nat
    BY <1>1
  <2> QED
    BY <1>2, <2>1, ApplyJoins
<1>5. first \in items /\ <<>> \in items
  BY PrintedIs, EmptySeq
<1> HIDE DEF items, first
<1> DEFINE good == {k \in Nat : k <= n => g[k] \in items /\ h[k + 1] = first \o g[k]}
<1>6. 0 \in good
  <2>1. 0 + 1 = 1 /\ 1 - 1 = 0 /\ 1 \in 1 .. n + 1
    BY <1>1, SMTT(30)
  <2>2. h[1] = h[0] \o Printed(all[1])
    BY <1>4, <2>1
  <2>3. h[1] = <<>> \o first
    BY <1>2, <1>4, <2>2 DEF first
  <2>4. <<>> \o first = first /\ first \o <<>> = first
    BY <1>5, ConcatEmptySeq DEF items
  <2>5. h[0 + 1] = first \o g[0]
    BY <1>3, <2>1, <2>3, <2>4
  <2> QED
    BY <1>3, <1>5, <2>5
<1>7. ASSUME NEW k \in Nat, k \in good PROVE k + 1 \in good
  <2> SUFFICES ASSUME k + 1 <= n PROVE g[k + 1] \in items /\ h[k + 1 + 1] = first \o g[k + 1]
    OBVIOUS
  <2>1. k + 1 \in 1 .. n /\ (k + 1) - 1 = k /\ k <= n /\ k + 1 + 1 \in 1 .. n + 1 /\ (k + 1 + 1) - 1 = k + 1
    BY <1>1
  <2> DEFINE next == Printed(runs[k + 1])
  <2>2. next \in items
    BY <1>1, <2>1, PrintedIs DEF items
  <2>3. g[k] \in items /\ h[k + 1] = first \o g[k]
    BY <1>7, <2>1
  <2>4. g[k + 1] = g[k] \o next
    BY <1>3, <2>1
  <2>5. all[k + 1 + 1] = runs[k + 1]
    BY <1>2, <2>1
  <2>6. h[k + 1 + 1] = h[k + 1] \o next
    BY <1>4, <2>1, <2>5
  <2> HIDE DEF next
  <2>7. g[k] \o next \in items
    BY <2>2, <2>3, ConcatProperties DEF items
  <2>8. (first \o g[k]) \o next = first \o (g[k] \o next)
    <3>1. first \in Seq(ItemsOf(chars)) /\ g[k] \in Seq(ItemsOf(chars)) /\ next \in Seq(ItemsOf(chars))
      BY <1>5, <2>2, <2>3 DEF items
    <3> DEFINE middle == g[k]
               any == ItemsOf(chars)
    <3>3. first \in Seq(any) /\ middle \in Seq(any) /\ next \in Seq(any)
      BY <3>1
    <3> HIDE DEF middle, any
    <3>4. (first \o middle) \o next = first \o (middle \o next)
      BY <3>3, ConcatAssociative, SMTT(30)
    <3> QED
      BY <3>4 DEF middle
  <2> QED
    BY <2>3, <2>4, <2>6, <2>7, <2>8, Zenon
<1> HIDE DEF good
<1>8. n \in good
  BY <1>1, <1>6, <1>7, SetInduction
<1>9. g[n] \in items /\ h[n + 1] = first \o g[n]
  BY <1>1, <1>8 DEF good
<1> QED
  BY <1>3, <1>4, <1>9 DEF items, all, first

\* Nothing prints nothing.
LEMMA ApplyNothing == Apply(<<>>) = <<>>
<1>1. DOMAIN <<>> = 1 .. 0 /\ 0 \in Nat
  OBVIOUS
<1> QED
  BY <1>1, ApplyJoins

-----------------------------------------------------------------------------
\* x is the first of some places from p on, or 0.
FirstFrom(places, p, x) ==
    \/ x = 0 /\ \A k \in places : k < p
    \/ x \in places /\ p <= x /\ \A k \in places : p <= k => x <= k

\* A brace at a is closed at b, and no brace is between them.
IsPair(lefts, rights, a, b) ==
    a \in lefts /\ b \in rights /\ a < b /\ \A k \in lefts \cup rights : ~ (a < k /\ k < b)

\* No pair is open behind p.
IsClear(lefts, rights, p) == \A a, b : IsPair(lefts, rights, a, b) => ~ (a < p /\ p <= b)

\* None of the n places from p on is in a pair.
IsOutside(lefts, rights, p, n) ==
    \A a, b : IsPair(lefts, rights, a, b) => ~ (p <= b /\ a < p + n)

\* What LiteralLen makes of the braces it finds.
LengthFor(m, p, left, right, next) ==
    IF left = 0 THEN m - p + 1
    ELSE IF left > p THEN left - p
    ELSE IF right = 0 THEN m - p + 1
    ELSE IF next # 0 /\ next < right THEN next - left
    ELSE 0

\* What is copied is outside of the pairs, and what is not starts one.
CutsAt(m, lefts, rights, p, n, right) ==
    /\ n \in Nat /\ p + n <= m + 1
    /\ n > 0 /\ IsClear(lefts, rights, p) => IsOutside(lefts, rights, p, n) /\ IsClear(lefts, rights, p + n)
    /\ n = 0 => IsPair(lefts, rights, p, right)

\* The first place from p on is 0 if there is none, and no later than any.
LEMMA FirstShape ==
    ASSUME NEW m \in Nat, NEW places \in SUBSET (1 .. m), NEW p \in Nat \ {0}, NEW x, FirstFrom(places, p, x)
    PROVE  /\ x \in Nat /\ (x = 0 \/ (x \in places /\ p <= x /\ x <= m))
           /\ \A k \in places : p <= k => x # 0 /\ x <= k
<1>1. CASE x = 0 /\ \A k \in places : k < p
  <2>1. ASSUME NEW k \in places PROVE ~ (p <= k)
    <3>1. k \in Nat /\ k < p
      BY <1>1
    <3> QED
      BY <3>1
  <2> QED
    BY <1>1, <2>1
<1>2. CASE x \in places /\ p <= x /\ \A k \in places : p <= k => x <= k
  <2>1. x \in Nat /\ x <= m /\ x # 0
    BY <1>2
  <2> QED
    BY <1>2, <2>1
<1> QED
  BY <1>1, <1>2 DEF FirstFrom

\* Whatever braces there are, LengthFor cuts the text in the right place.
LEMMA BracesCut ==
    ASSUME NEW m \in Nat, NEW lefts \in SUBSET (1 .. m), NEW rights \in SUBSET (1 .. m),
           lefts \cap rights = {}, NEW p \in 1 .. m,
           NEW left, NEW right, NEW next, NEW n, n = LengthFor(m, p, left, right, next),
           FirstFrom(lefts, p, left), FirstFrom(rights, p, right), FirstFrom(lefts, p + 1, next)
    PROVE  CutsAt(m, lefts, rights, p, n, right)
<1>1. p \in Nat /\ 1 <= p /\ p <= m
  OBVIOUS
<1>2. ASSUME NEW k \in lefts \cup rights PROVE k \in Nat /\ 1 <= k /\ k <= m
  OBVIOUS
<1>3. /\ left \in Nat /\ (left = 0 \/ (left \in lefts /\ p <= left /\ left <= m))
      /\ \A k \in lefts : p <= k => left # 0 /\ left <= k
  BY <1>1, FirstShape
<1>4. /\ right \in Nat /\ (right = 0 \/ (right \in rights /\ p <= right /\ right <= m))
      /\ \A k \in rights : p <= k => right # 0 /\ right <= k
  BY <1>1, FirstShape
<1>5. /\ next \in Nat /\ (next = 0 \/ (next \in lefts /\ p < next /\ next <= m))
      /\ \A k \in lefts : p < k => next # 0 /\ next <= k
  <2>1. p + 1 \in Nat \ {0}
    BY <1>1
  <2>2. /\ next \in Nat /\ (next = 0 \/ (next \in lefts /\ p + 1 <= next /\ next <= m))
        /\ \A k \in lefts : p + 1 <= k => next # 0 /\ next <= k
    BY <2>1, FirstShape
  <2> QED
    BY <1>1, <1>2, <2>2
<1>6. ASSUME NEW a, NEW b, IsPair(lefts, rights, a, b)
      PROVE  /\ a \in Nat /\ b \in Nat /\ a < b /\ b <= m /\ a \in lefts /\ b \in rights
             /\ \A k \in lefts \cup rights : ~ (a < k /\ k < b)
  BY <1>2, <1>6 DEF IsPair
<1>7. CASE n > 0
  <2>1. n \in Nat /\ p + n <= m + 1
    BY <1>1, <1>3, <1>4, <1>5, <1>7 DEF LengthFor
  <2>2. ASSUME IsClear(lefts, rights, p), NEW a, NEW b, IsPair(lefts, rights, a, b)
        PROVE  ~ (p <= b /\ a < p + n) /\ ~ (a < p + n /\ p + n <= b)
    <3>1. /\ a \in Nat /\ b \in Nat /\ a < b /\ b <= m /\ a \in lefts /\ b \in rights
          /\ \A k \in lefts \cup rights : ~ (a < k /\ k < b)
      BY <1>6, <2>2
    <3>2. ~ (a < p /\ p <= b)
      BY <2>2 DEF IsClear
    <3>3. p <= a => left # 0 /\ left <= a
      BY <1>3, <3>1
    <3>4. p <= b => right # 0 /\ right <= b
      BY <1>4, <3>1
    <3>5. p < a => next # 0 /\ next <= a
      BY <1>5, <3>1
    <3>6. next # 0 => ~ (a < next /\ next < b)
      BY <1>5, <3>1
    <3>7. ~ (p <= a /\ a < p + n)
      <4> SUFFICES ASSUME p <= a, a < p + n PROVE FALSE
        OBVIOUS
      <4>1. left # 0 /\ left <= a /\ p <= b /\ right # 0 /\ right <= b
        BY <1>1, <1>3, <1>4, <3>1, <3>3, <3>4
      <4>2. CASE left > p
        <5>1. n = left - p
          BY <4>1, <4>2 DEF LengthFor
        <5> QED
          BY <1>1, <1>3, <3>1, <4>1, <5>1
      <4>3. CASE ~ (left > p)
        <5>1. left = p /\ next # 0 /\ next < right /\ n = next - p
          BY <1>1, <1>3, <1>7, <4>1, <4>3 DEF LengthFor
        <5>2. a < next
          BY <1>1, <1>5, <2>1, <3>1, <5>1
        <5>3. a < next /\ next < b
          BY <1>4, <1>5, <3>1, <4>1, <5>1, <5>2
        <5> QED
          BY <3>6, <5>1, <5>3
      <4> QED
        BY <4>2, <4>3
    <3> QED
      BY <1>1, <2>1, <3>1, <3>2, <3>7
  <2>3. IsClear(lefts, rights, p) => IsOutside(lefts, rights, p, n) /\ IsClear(lefts, rights, p + n)
    BY <2>2 DEF IsClear, IsOutside
  <2>4. n # 0
    BY <1>7, <2>1
  <2> QED
    BY <2>1, <2>3, <2>4 DEF CutsAt
<1>8. CASE ~ (n > 0)
  <2>1. left = p /\ right # 0 /\ n = 0 /\ ~ (next # 0 /\ next < right)
    BY <1>1, <1>3, <1>4, <1>5, <1>8 DEF LengthFor
  <2>2. left \in lefts /\ right \in rights /\ p < right
    <3>1. left \in lefts /\ right \in rights /\ p <= right
      BY <1>1, <1>3, <1>4, <2>1
    <3>2. left # right
      BY <3>1
    <3> QED
      BY <1>1, <1>4, <2>1, <3>1, <3>2
  <2>3. ASSUME NEW k \in lefts \cup rights, p < k PROVE ~ (k < right)
    <3>1. k \in Nat
      BY <1>2
    <3>2. CASE k \in rights
      BY <1>1, <1>4, <2>3, <3>1, <3>2
    <3>3. CASE k \in lefts
      BY <1>1, <1>4, <1>5, <2>1, <2>3, <3>1, <3>3
    <3> QED
      BY <2>3, <3>2, <3>3
  <2>4. IsPair(lefts, rights, p, right)
    BY <2>1, <2>2, <2>3 DEF IsPair
  <2>5. n \in Nat /\ p + n <= m + 1 /\ ~ (n > 0)
    BY <1>1, <1>8, <2>1
  <2> QED
    BY <2>4, <2>5 DEF CutsAt
<1>9. n > 0 \/ ~ (n > 0)
  OBVIOUS
<1> QED
  BY <1>7, <1>8, <1>9

\* Behind a pair none is open, if none was before it.
LEMMA PairEnds ==
    ASSUME NEW m \in Nat, NEW lefts \in SUBSET (1 .. m), NEW rights \in SUBSET (1 .. m),
           lefts \cap rights = {}, NEW p, NEW right, IsPair(lefts, rights, p, right), IsClear(lefts, rights, p)
    PROVE  IsClear(lefts, rights, right + 1)
<1>1. p \in Nat /\ right \in Nat /\ p < right /\ p \in lefts /\ right \in rights
  BY DEF IsPair
<1>2. SUFFICES ASSUME NEW a, NEW b, IsPair(lefts, rights, a, b), a < right + 1, right + 1 <= b PROVE FALSE
  BY DEF IsClear
<1>3. a \in Nat /\ b \in Nat /\ a \in lefts /\ b \in rights
  BY <1>2 DEF IsPair
<1>4. a # right
  BY <1>1, <1>3
<1>5. a < right /\ right < b
  BY <1>1, <1>2, <1>3, <1>4
<1>6. ~ (a < right /\ right < b)
  BY <1>1, <1>2 DEF IsPair
<1> QED
  BY <1>5, <1>6

ClosesAt(m, p, b, x) == x = b /\ p \in Nat /\ b \in Nat /\ 1 <= p /\ p < b /\ b <= m

\* A pair is closed at the first place where one can be.
LEMMA PairIsFirst ==
    ASSUME NEW m \in Nat, NEW lefts \in SUBSET (1 .. m), NEW rights \in SUBSET (1 .. m),
           lefts \cap rights = {}, NEW p, NEW b, NEW x, IsPair(lefts, rights, p, b), FirstFrom(rights, p, x)
    PROVE  ClosesAt(m, p, b, x)
<1>1. p \in lefts /\ b \in rights /\ p < b /\ \A k \in rights : ~ (p < k /\ k < b)
  BY DEF IsPair
<1>2. p \in Nat /\ b \in Nat /\ 1 <= p /\ b <= m
  BY <1>1
<1>3. p \in Nat \ {0}
  BY <1>2
<1>4. x \in Nat /\ (x = 0 \/ (x \in rights /\ p <= x)) /\ \A k \in rights : p <= k => x # 0 /\ x <= k
  BY <1>3, FirstShape
<1>5. x # 0 /\ x <= b
  BY <1>1, <1>2, <1>4
<1>6. x \in rights /\ p <= x
  BY <1>4, <1>5
<1>7. x # p
  BY <1>1, <1>6
<1>8. p < x /\ ~ (p < x /\ x < b)
  BY <1>1, <1>2, <1>4, <1>6, <1>7
<1> QED
  BY <1>1, <1>2, <1>4, <1>5, <1>8 DEF ClosesAt

-----------------------------------------------------------------------------
\* The places of a character, which Find looks through.
Places(s, c) == {k \in 1 .. Len(s) : s[k] = c}

\* strchr finds the first place of a character.
LEMMA FindIsFirst ==
    ASSUME NEW s, Len(s) \in Nat, NEW p \in Nat \ {0}, NEW c
    PROVE  FirstFrom(Places(s, c), p, Find(s, p, c))
<1> DEFINE places == Places(s, c)
           there == {k \in p .. Len(s) : s[k] = c}
           x == CHOOSE k \in there : \A j \in there : k <= j
<1>1. \A k : k \in there <=> k \in places /\ p <= k
  BY DEF Places
<1>2. Find(s, p, c) = IF there = {} THEN 0 ELSE x
  BY DEF Find
<1>3. places \in SUBSET Nat /\ there \in SUBSET Nat
  BY DEF Places
<1> HIDE DEF places, there
<1>4. CASE there = {}
  <2>1. ASSUME NEW k \in places PROVE k < p
    <3>1. ~ (p <= k) /\ k \in Nat
      BY <1>1, <1>3, <1>4
    <3> QED
      BY <3>1
  <2> QED
    BY <1>2, <1>4, <2>1 DEF FirstFrom, places
<1>5. CASE there # {}
  <2>1. x \in there /\ \A j \in there : x <= j
    BY <1>3, <1>5, Least
  <2> HIDE DEF x
  <2>2. x \in places /\ p <= x /\ \A k \in places : p <= k => x <= k
    BY <1>1, <2>1
  <2>3. Find(s, p, c) = x
    BY <1>2, <1>5
  <2> QED
    BY <2>2, <2>3 DEF FirstFrom, places
<1> QED
  BY <1>4, <1>5

IsCall(s, a, b) == IsPair(Places(s, "{"), Places(s, "}"), a, b)

\* The two braces are two characters.
LEMMA PlacesOfBraces ==
    ASSUME NEW s
    PROVE  /\ Places(s, "{") \in SUBSET (1 .. Len(s)) /\ Places(s, "}") \in SUBSET (1 .. Len(s))
           /\ Places(s, "{") \cap Places(s, "}") = {}
<1>1. "{" # "}"
  OBVIOUS
<1> QED
  BY <1>1 DEF Places

\* What is copied, and what is a call.
LEMMA LiteralCuts ==
    ASSUME NEW s, Len(s) \in Nat, NEW p \in 1 .. Len(s)
    PROVE  CutsAt(Len(s), Places(s, "{"), Places(s, "}"), p, LiteralLen(s, p), Find(s, p, "}"))
<1> DEFINE m == Len(s)
           left == Find(s, p, "{")
           right == Find(s, p, "}")
           next == Find(s, p + 1, "{")
           n == LiteralLen(s, p)
<1>1. p \in Nat \ {0} /\ p + 1 \in Nat \ {0} /\ m \in Nat
  OBVIOUS
<1>2. /\ FirstFrom(Places(s, "{"), p, left) /\ FirstFrom(Places(s, "}"), p, right)
      /\ FirstFrom(Places(s, "{"), p + 1, next)
  BY <1>1, FindIsFirst
<1>3. n = LengthFor(m, p, left, right, next)
  BY DEF LiteralLen, LengthFor
<1> HIDE DEF m, left, right, next, n
<1>4. p \in 1 .. m /\ Places(s, "{") \in SUBSET (1 .. m) /\ Places(s, "}") \in SUBSET (1 .. m)
  BY PlacesOfBraces DEF m
<1>5. CutsAt(m, Places(s, "{"), Places(s, "}"), p, n, right)
  BY <1>1, <1>2, <1>3, <1>4, PlacesOfBraces, BracesCut
<1> QED
  BY <1>5 DEF m, n, right

\* The calls of the reference are those pairs of braces.
LEMMA CallsArePairs ==
    ASSUME NEW s, Len(s) \in Nat
    PROVE  /\ \A c \in Calls(s) : IsCall(s, c[1], c[2])
           /\ \A a, b : IsCall(s, a, b) => a \in Nat /\ b \in Nat /\ \E c \in Calls(s) : c[1] = a /\ c[2] = b
<1> DEFINE lefts == Places(s, "{")
           rights == Places(s, "}")
           n == Len(s)
<1>1. \A k : k \in lefts <=> k \in 1 .. n /\ s[k] = "{"
  BY DEF Places
<1>2. \A k : k \in rights <=> k \in 1 .. n /\ s[k] = "}"
  BY DEF Places
<1>3. \A c : c \in Calls(s) <=> /\ c \in (1 .. n) \X (1 .. n)
                                /\ c[1] < c[2] /\ s[c[1]] = "{" /\ s[c[2]] = "}"
                                /\ \A k \in c[1] + 1 .. c[2] - 1 : s[k] # "{" /\ s[k] # "}"
  BY DEF Calls
<1>0. n \in Nat
  OBVIOUS
<1> HIDE DEF lefts, rights, n
<1>4. ASSUME NEW c \in Calls(s) PROVE IsCall(s, c[1], c[2])
  <2> DEFINE a == c[1]
             b == c[2]
  <2>1. /\ a \in 1 .. n /\ b \in 1 .. n /\ a < b /\ s[a] = "{" /\ s[b] = "}"
        /\ \A k \in a + 1 .. b - 1 : s[k] # "{" /\ s[k] # "}"
    <3>1. c \in (1 .. n) \X (1 .. n) /\ c[1] < c[2] /\ s[c[1]] = "{" /\ s[c[2]] = "}"
      BY <1>3, <1>4
    <3>2. \A k \in c[1] + 1 .. c[2] - 1 : s[k] # "{" /\ s[k] # "}"
      BY <1>3, <1>4, Zenon
    <3>3. a \in 1 .. n /\ b \in 1 .. n
      BY <3>1
    <3> QED
      BY <3>1, <3>2, <3>3
  <2> HIDE DEF a, b
  <2>2. a \in lefts /\ b \in rights
    BY <1>1, <1>2, <2>1
  <2>3. ASSUME NEW k \in lefts \cup rights PROVE ~ (a < k /\ k < b)
    <3>1. k \in 1 .. n /\ (s[k] = "{" \/ s[k] = "}")
      BY <1>1, <1>2, <2>3
    <3>2. k \notin a + 1 .. b - 1
      BY <2>1, <3>1
    <3>3. a \in Nat /\ b \in Nat /\ k \in Nat
      <4>1. a \in 1 .. n /\ b \in 1 .. n /\ k \in 1 .. n
        BY <2>1, <3>1
      <4> QED
        BY <1>0, <4>1
    <3> QED
      BY <3>2, <3>3
  <2>4. IsPair(lefts, rights, a, b)
    BY <2>1, <2>2, <2>3 DEF IsPair
  <2> QED
    BY <2>4 DEF IsCall, lefts, rights, a, b
<1>5. ASSUME NEW a, NEW b, IsCall(s, a, b)
      PROVE  a \in Nat /\ b \in Nat /\ \E c \in Calls(s) : c[1] = a /\ c[2] = b
  <2>1. a \in lefts /\ b \in rights /\ a < b /\ \A k \in lefts \cup rights : ~ (a < k /\ k < b)
    BY <1>5 DEF IsCall, IsPair, lefts, rights
  <2>2. a \in 1 .. n /\ b \in 1 .. n /\ s[a] = "{" /\ s[b] = "}"
    BY <1>1, <1>2, <2>1
  <2>6. a \in Nat /\ b \in Nat /\ b <= n /\ 1 <= a
    <3>1. a \in 1 .. n /\ b \in 1 .. n
      BY <2>2
    <3> QED
      BY <1>0, <3>1
  <2>3. ASSUME NEW k \in a + 1 .. b - 1 PROVE s[k] # "{" /\ s[k] # "}"
    <3>1. k \in 1 .. n /\ a < k /\ k < b
      BY <1>0, <2>3, <2>6
    <3>2. k \notin lefts /\ k \notin rights
      BY <2>1, <3>1
    <3> QED
      BY <1>1, <1>2, <3>1, <3>2
  <2> DEFINE c == <<a, b>>
  <2>4. c \in (1 .. n) \X (1 .. n) /\ c[1] = a /\ c[2] = b
    BY <2>2
  <2> HIDE DEF c
  <2>5. c \in Calls(s)
    BY <1>3, <2>1, <2>2, <2>3, <2>4
  <2> QED
    BY <2>4, <2>5, <2>6
<1> QED
  BY <1>4, <1>5

\* What the expression means at a place.
ItemAt(passes, s, k) ==
    IF \E c \in Calls(s) : c[1] = k
    THEN LET pass == PassOf(passes, PassAt(s, k).name)
         IN IF pass = 0 THEN <<>> ELSE <<[pass |-> pass, spec |-> PassAt(s, k).spec]>>
    ELSE IF \E c \in Calls(s) : k \in c[1] .. c[2] THEN <<>>
    ELSE <<s[k]>>

\* The run of a call.
CallRun(passes, s, k) == [pass |-> PassOf(passes, PassAt(s, k).name), spec |-> PassAt(s, k).spec]

\* A place outside of all calls stands for its character.
LEMMA ItemOfText ==
    ASSUME NEW passes, NEW s, Len(s) \in Nat, NEW k \in Nat, \A a, b : IsCall(s, a, b) => ~ (a <= k /\ k <= b)
    PROVE  ItemAt(passes, s, k) = <<s[k]>>
<1>1. ASSUME NEW c \in Calls(s) PROVE c[1] # k /\ k \notin c[1] .. c[2]
  <2> DEFINE a == c[1]
             b == c[2]
  <2>1. IsCall(s, a, b)
    BY CallsArePairs
  <2> HIDE DEF a, b
  <2>2. a \in Nat /\ b \in Nat /\ a < b /\ ~ (a <= k /\ k <= b)
    BY <2>1, CallsArePairs DEF IsCall, IsPair
  <2>3. a # k /\ k \notin a .. b
    BY <2>2
  <2> QED
    BY <2>3 DEF a, b
<1> QED
  BY <1>1 DEF ItemAt

\* The brace that opens a call stands for the call, if its pass is registered.
LEMMA ItemOfCall ==
    ASSUME NEW passes, NEW s, Len(s) \in Nat, NEW k, NEW b, IsCall(s, k, b)
    PROVE  ItemAt(passes, s, k) =
              IF PassOf(passes, PassAt(s, k).name) = 0 THEN <<>> ELSE <<CallRun(passes, s, k)>>
<1>1. \E c \in Calls(s) : c[1] = k
  BY CallsArePairs
<1> QED
  BY <1>1 DEF ItemAt, CallRun

\* The other places of a call stand for nothing.
LEMMA ItemInCall ==
    ASSUME NEW passes, NEW s, Len(s) \in Nat, NEW k \in Nat, NEW a, NEW b, IsCall(s, a, b), a < k, k <= b
    PROVE  ItemAt(passes, s, k) = <<>>
<1>1. a \in Nat /\ b \in Nat
  BY CallsArePairs
<1>2. \E c \in Calls(s) : k \in c[1] .. c[2]
  <2>1. PICK c \in Calls(s) : c[1] = a /\ c[2] = b
    BY CallsArePairs
  <2>2. k \in a .. b
    BY <1>1
  <2> QED
    BY <2>1, <2>2
<1>3. ASSUME NEW c \in Calls(s), c[1] = k PROVE FALSE
  <2>1. IsCall(s, k, c[2])
    BY <1>3, CallsArePairs
  <2>2. k \in Places(s, "{") /\ b \in Places(s, "}")
    BY <2>1 DEF IsCall, IsPair
  <2>3. k # b
    BY <2>2, PlacesOfBraces
  <2>4. a < k /\ k < b
    BY <1>1, <2>3
  <2> QED
    BY <2>2, <2>4 DEF IsCall, IsPair
<1> QED
  BY <1>2, <1>3 DEF ItemAt

-----------------------------------------------------------------------------
\* The pass of a name, and the call at a place.
LEMMA PassIs ==
    ASSUME NEW any, NEW passes \in Seq(any), NEW name
    PROVE  PassOf(passes, name) \in Nat
<1> DEFINE same == {k \in DOMAIN passes : passes[k] = name}
<1>1. same \in SUBSET Nat
  <2>1. DOMAIN passes = 1 .. Len(passes) /\ Len(passes) \in Nat
    BY LenProperties
  <2> QED
    BY <2>1
<1>2. PassOf(passes, name) = IF same = {} THEN 0 ELSE CHOOSE k \in same : \A j \in same : k <= j
  BY DEF PassOf
<1> HIDE DEF same
<1>3. CASE same = {}
  BY <1>2, <1>3
<1>4. CASE same # {}
  <2>1. \E k \in same : \A j \in same : k <= j
    BY <1>1, <1>4, Least
  <2>2. (CHOOSE k \in same : \A j \in same : k <= j) \in same
    BY <2>1
  <2> QED
    BY <1>1, <1>2, <1>4, <2>2
<1> QED
  BY <1>3, <1>4

\* The compiler finds the end of a call, and makes a run of it.
LEMMA CallIs ==
    ASSUME NEW chars, NEW s \in Seq(chars), NEW p, NEW b, IsCall(s, p, b),
           NEW any, NEW passes \in Seq(any)
    PROVE  Find(s, p, "}") = b /\ PassAt(s, p).next = b + 1 /\ CallRun(passes, s, p) \in RunsOf(chars)
<1> DEFINE m == Len(s)
           colon == Find(s, p, ":")
           cut == IF colon # 0 /\ colon < b THEN colon ELSE b
           spec == SubSeq(s, cut + 1, b - 1)
<1>2. m \in Nat /\ \A k \in 1 .. m : s[k] \in chars
  BY LenProperties, ElementOfSeq
<1>0. /\ Places(s, "{") \in SUBSET (1 .. m) /\ Places(s, "}") \in SUBSET (1 .. m)
      /\ Places(s, ":") \in SUBSET (1 .. m)
      /\ IsPair(Places(s, "{"), Places(s, "}"), p, b)
  BY PlacesOfBraces DEF IsCall, Places
<1>3. p \in Nat \ {0}
  <2>1. p \in 1 .. m
    BY <1>0 DEF IsPair
  <2> HIDE DEF m
  <2> QED
    BY <1>2, <2>1
<1>7. FirstFrom(Places(s, "}"), p, Find(s, p, "}")) /\ FirstFrom(Places(s, ":"), p, colon)
  BY <1>2, <1>3, FindIsFirst
<1> DEFINE right == Find(s, p, "}")
           lefts == Places(s, "{")
           rights == Places(s, "}")
           colons == Places(s, ":")
<1>8. right = b /\ b \in Nat /\ p < b /\ b <= m
  <2>1. /\ lefts \in SUBSET (1 .. m) /\ rights \in SUBSET (1 .. m) /\ IsPair(lefts, rights, p, b)
        /\ lefts \cap rights = {} /\ FirstFrom(rights, p, right)
    BY <1>0, <1>7, PlacesOfBraces
  <2> HIDE DEF m, lefts, rights, right
  <2>2. m \in Nat
    BY <1>2
  <2>3. ClosesAt(m, p, b, right)
    BY <2>1, <2>2, PairIsFirst
  <2> QED
    BY <2>3 DEF ClosesAt
<1>9. b \in Nat /\ p < b /\ b <= m
  BY <1>8
<1>1. PassAt(s, p).next = b + 1 /\ PassAt(s, p).spec = spec
  BY <1>8 DEF PassAt
<1>4. cut \in Nat /\ 1 <= cut /\ cut <= b
  <2>4. colons \in SUBSET (1 .. m) /\ FirstFrom(colons, p, colon)
    BY <1>0, <1>7
  <2> HIDE DEF colon, m, colons, right
  <2>1. colon \in Nat
    BY <1>2, <1>3, <2>4, FirstShape
  <2>2. CASE colon # 0 /\ colon < b
    <3>1. cut = colon
      BY <2>2
    <3> HIDE DEF cut
    <3> QED
      BY <1>9, <2>1, <2>2, <3>1
  <2>3. CASE ~ (colon # 0 /\ colon < b)
    <3>1. cut = b
      BY <2>3
    <3> HIDE DEF cut
    <3> QED
      BY <1>3, <1>9, <3>1
  <2> QED
    BY <2>2, <2>3
<1> HIDE DEF cut, m, right
<1>5. spec \in Seq(chars)
  <2>1. ASSUME NEW k \in cut + 1 .. b - 1 PROVE s[k] \in chars
    <3>1. k \in 1 .. m
      BY <1>2, <1>4, <1>9
    <3> QED
      BY <1>2, <3>1
  <2>2. cut + 1 \in Int /\ b - 1 \in Int
    BY <1>4, <1>9
  <2> QED
    BY <2>1, <2>2, SubSeqProperties
<1> HIDE DEF spec
<1>6. PassOf(passes, PassAt(s, p).name) \in Nat
  BY PassIs
<1> QED
  BY <1>1, <1>5, <1>6, <1>8 DEF CallRun, RunsOf, right

\* A literal run prints the part of the text that it was copied from.
LEMMA CopyIs ==
    ASSUME NEW chars, NEW s \in Seq(chars), NEW p \in Nat, NEW n \in Nat, p > 0, p + n <= Len(s) + 1
    PROVE  Copy(s, p, n) \in RunsOf(chars) /\ Printed(Copy(s, p, n)) = SubSeq(s, p, p + n - 1)
<1>1. Len(s) \in Nat /\ \A k \in 1 .. Len(s) : s[k] \in chars
  BY LenProperties, ElementOfSeq
<1>2. \A k \in p .. p + n - 1 : s[k] \in chars
  <2> SUFFICES ASSUME NEW k \in p .. p + n - 1 PROVE k \in 1 .. Len(s)
    BY <1>1
  <2> QED
    BY <1>1
<1>3. SubSeq(s, p, p + n - 1) \in Seq(chars)
  <2>1. p \in Int /\ p + n - 1 \in Int
    OBVIOUS
  <2> QED
    BY <1>2, <2>1, SubSeqProperties
<1> QED
  BY <1>3 DEF Copy, RunsOf, Printed

\* What is known of the part of the meaning up to each place.
IsMeaning(h, passes, s, chars) ==
    /\ h[0] = <<>>
    /\ \A k \in 1 .. Len(s) : h[k] = h[k - 1] \o ItemAt(passes, s, k)
    /\ \A k \in 0 .. Len(s) : h[k] \in Seq(ItemsOf(chars))

\* What a place stands for is a sequence of items.
LEMMA ItemIsItem ==
    ASSUME NEW chars, NEW s \in Seq(chars), NEW any, NEW passes \in Seq(any), NEW k \in 1 .. Len(s)
    PROVE  ItemAt(passes, s, k) \in Seq(ItemsOf(chars))
<1>1. Len(s) \in Nat /\ s[k] \in chars
  BY LenProperties, ElementOfSeq
<1>2. <<>> \in Seq(ItemsOf(chars)) /\ <<s[k]>> \in Seq(ItemsOf(chars))
  BY <1>1, EmptySeq DEF ItemsOf
<1>3. CASE \E c \in Calls(s) : c[1] = k
  <2>1. PICK c \in Calls(s) : c[1] = k
    BY <1>3
  <2> DEFINE b == c[2]
  <2>2. IsCall(s, k, b)
    BY <1>1, <2>1, CallsArePairs
  <2> HIDE DEF b
  <2>4. CallRun(passes, s, k) \in RunsOf(chars)
    BY <2>2, CallIs
  <2>5. <<CallRun(passes, s, k)>> \in Seq(ItemsOf(chars))
    BY <2>4 DEF ItemsOf
  <2> QED
    BY <1>1, <1>2, <2>2, <2>5, ItemOfCall
<1>4. CASE ~ (\E c \in Calls(s) : c[1] = k)
  BY <1>2, <1>4 DEF ItemAt
<1> QED
  BY <1>3, <1>4

-----------------------------------------------------------------------------
\* The meaning of an expression, item by item.
LEMMA MeaningJoins ==
    ASSUME NEW chars, NEW s \in Seq(chars), NEW any, NEW passes \in Seq(any)
    PROVE  \E h : Meaning(passes, s) = h[Len(s)] /\ IsMeaning(h, passes, s, chars)
<1> DEFINE n == Len(s)
           places == [k \in 1 .. n |-> k]
           join(out, k) == out \o ItemAt(passes, s, k)
           value == FoldLeft(join, <<>>, places)
           any2 == Seq(ItemsOf(chars))
<1>1. Meaning(passes, s) = value
  BY DEF Meaning, ItemAt
<1>2. n \in Nat
  BY LenProperties
<1>3. IsLeftFold(value, join, <<>>, places, n)
  <2>1. DOMAIN places = 1 .. n
    OBVIOUS
  <2> HIDE DEF join, places, n
  <2> QED
    BY <1>2, <2>1, FoldLeftIsFunction
<1> HIDE DEF value
<1>4. PICK h : /\ Meaning(passes, s) = h[n]
               /\ h = [k \in 0 .. n |-> IF k = 0 THEN <<>> ELSE h[k - 1] \o ItemAt(passes, s, places[k])]
  BY <1>1, <1>3 DEF IsLeftFold
<1> HIDE DEF n
<1>5. 0 \in 0 .. n /\ \A k \in 1 .. n : k \in 0 .. n /\ k # 0
  BY <1>2
<1>6. h[0] = <<>>
  BY <1>4, <1>5
<1>7. ASSUME NEW k \in 1 .. n PROVE h[k] = h[k - 1] \o ItemAt(passes, s, k)
  <2>1. places[k] = k
    OBVIOUS
  <2> HIDE DEF places
  <2>2. h[k] = h[k - 1] \o ItemAt(passes, s, places[k])
    BY <1>4, <1>5
  <2> QED
    BY <2>1, <2>2
<1> DEFINE good == {k \in Nat : k <= n => h[k] \in any2}
<1>8. 0 \in good
  BY <1>6, EmptySeq
<1>9. ASSUME NEW k \in Nat, k \in good PROVE k + 1 \in good
  <2> SUFFICES ASSUME k + 1 <= n PROVE h[k + 1] \in any2
    OBVIOUS
  <2>1. k + 1 \in 1 .. n /\ (k + 1) - 1 = k /\ k <= n
    BY <1>2
  <2> DEFINE next == ItemAt(passes, s, k + 1)
  <2>2. next \in any2
    BY <2>1, ItemIsItem DEF n
  <2>3. h[k] \in any2
    BY <1>9, <2>1
  <2>4. h[k + 1] = h[k] \o next
    BY <1>7, <2>1
  <2> HIDE DEF next
  <2>5. h[k] \o next \in any2
    BY <2>2, <2>3, ConcatProperties
  <2> QED
    BY <2>4, <2>5
<1> HIDE DEF any2, good
<1>10. Nat \subseteq good
  BY <1>8, <1>9, SetInduction
<1>11. ASSUME NEW k \in 0 .. n PROVE h[k] \in any2
  <2>1. k \in Nat /\ k <= n
    BY <1>2
  <2> QED
    BY <1>10, <2>1 DEF good
<1>12. IsMeaning(h, passes, s, chars)
  BY <1>6, <1>7, <1>11 DEF IsMeaning, any2, n
<1> QED
  BY <1>4, <1>12 DEF n

\* No call is at the n places from p on.
IsText(s, p, n) == IsOutside(Places(s, "{"), Places(s, "}"), p, n)

MeansText(h, s, p, n) == h[p + n - 1] = h[p - 1] \o SubSeq(s, p, p + n - 1)
MeansCall(h, passes, s, p, b) ==
    h[b] = h[p - 1] \o IF PassOf(passes, PassAt(s, p).name) = 0 THEN <<>> ELSE <<CallRun(passes, s, p)>>

\* A text outside of the calls means itself,
LEMMA TextMeans ==
    ASSUME NEW chars, NEW s \in Seq(chars), NEW any, NEW passes \in Seq(any),
           NEW h, IsMeaning(h, passes, s, chars),
           NEW p \in Nat, NEW n \in Nat, p > 0, p + n <= Len(s) + 1,
           IsText(s, p, n)
    PROVE  MeansText(h, s, p, n)
<1> DEFINE m == Len(s)
           items == ItemsOf(chars)
           sub(k) == SubSeq(s, p, p + k - 1)
           first == h[p - 1]
<1>1. m \in Nat /\ \A k \in 1 .. m : s[k] \in chars /\ s[k] \in items
  BY LenProperties, ElementOfSeq DEF ItemsOf
<1>2. /\ \A k \in 1 .. m : h[k] = h[k - 1] \o ItemAt(passes, s, k)
      /\ \A k \in 0 .. m : h[k] \in Seq(items)
  BY DEF IsMeaning
<1>3. ASSUME NEW k \in Nat, p <= k, k < p + n PROVE ItemAt(passes, s, k) = <<s[k]>>
  <2>1. ASSUME NEW a, NEW b, IsCall(s, a, b) PROVE ~ (a <= k /\ k <= b)
    <3>1. a \in Nat /\ b \in Nat
      BY <1>1, <2>1, CallsArePairs
    <3>2. ~ (p <= b /\ a < p + n)
      BY <2>1 DEF IsCall, IsText, IsOutside
    <3> QED
      BY <1>3, <3>1, <3>2
  <2> QED
    BY <1>1, <2>1, ItemOfText
<1>4. ASSUME NEW k \in Nat, k <= n
      PROVE  /\ sub(k) \in Seq(items) /\ Len(sub(k)) = k
             /\ \A j \in 1 .. k : sub(k)[j] = s[p + j - 1]
  <2>1. p \in Int /\ p + k - 1 \in Int
    OBVIOUS
  <2>2. \A j \in p .. p + k - 1 : s[j] \in items
    <3> SUFFICES ASSUME NEW j \in p .. p + k - 1 PROVE j \in 1 .. m
      BY <1>1
    <3> HIDE DEF m
    <3>1. p + n <= m + 1
      BY DEF m
    <3> QED
      BY <1>1, <1>4, <3>1
  <2> DEFINE e == p + k - 1
  <2>3. /\ SubSeq(s, p, e) \in Seq(items) /\ Len(SubSeq(s, p, e)) = IF p <= e THEN e - p + 1 ELSE 0
        /\ \A j \in 1 .. e - p + 1 : SubSeq(s, p, e)[j] = s[p + j - 1]
    <3> HIDE DEF e, items
    <3>1. e \in Int /\ \A j \in p .. e : s[j] \in items
      BY <2>1, <2>2 DEF e
    <3> QED
      BY <2>1, <3>1, SubSeqProperties
  <2>4. e - p + 1 = k /\ (p <= e <=> k > 0)
    OBVIOUS
  <2>5. Len(SubSeq(s, p, e)) = k
    <3> DEFINE x == Len(SubSeq(s, p, e))
    <3>1. x = IF p <= e THEN e - p + 1 ELSE 0
      BY <2>3
    <3> HIDE DEF x, e
    <3>2. x = k
      BY <2>4, <3>1
    <3> QED
      BY <3>2 DEF x
  <2>6. \A j \in 1 .. k : SubSeq(s, p, e)[j] = s[p + j - 1]
    BY <2>3, <2>4
  <2> QED
    BY <2>3, <2>5, <2>6
<1> HIDE DEF sub, items
<1>5. ASSUME NEW k \in Nat, k + 1 <= n PROVE sub(k + 1) = sub(k) \o <<s[p + k]>>
  <2> DEFINE x == sub(k + 1)
             y == sub(k)
             z == <<s[p + k]>>
  <2>1. k + 1 \in Nat /\ k <= n /\ p + k \in Nat /\ 1 <= p + k /\ p + k < p + n
    BY <1>5
  <2>2. s[p + k] \in items
    <3>1. p + k \in 1 .. m
      BY <1>1, <2>1 DEF m
    <3> QED
      BY <1>1, <3>1
  <2>3. /\ x \in Seq(items) /\ Len(x) = k + 1 /\ \A j \in 1 .. k + 1 : x[j] = s[p + j - 1]
    BY <1>4, <1>5, <2>1
  <2>4. y \in Seq(items) /\ Len(y) = k /\ \A j \in 1 .. k : y[j] = s[p + j - 1]
    BY <1>4, <2>1
  <2>5. z \in Seq(items) /\ Len(z) = 1 /\ z[1] = s[p + k]
    BY <2>2
  <2> HIDE DEF x, y, z
  <2>6. /\ y \o z \in Seq(items) /\ Len(y \o z) = k + 1
        /\ \A j \in 1 .. k + 1 : (y \o z)[j] = IF j <= k THEN y[j] ELSE z[j - k]
    <3>1. /\ y \o z \in Seq(items) /\ Len(y \o z) = Len(y) + Len(z)
          /\ \A j \in 1 .. Len(y) + Len(z) : (y \o z)[j] = IF j <= Len(y) THEN y[j] ELSE z[j - Len(y)]
      <4>1. y \in Seq(items) /\ z \in Seq(items)
        BY <2>4, <2>5
      <4> QED
        BY <4>1, ConcatProperties, Zenon
    <3>2. Len(y) = k /\ Len(z) = 1
      BY <2>4, <2>5
    <3> QED
      BY <3>1, <3>2
  <2>7. ASSUME NEW j \in 1 .. k + 1 PROVE x[j] = (y \o z)[j]
    <3>1. CASE j <= k
      <4>1. j \in 1 .. k
        BY <3>1
      <4> QED
        BY <2>3, <2>4, <2>6, <3>1, <4>1
    <3>2. CASE ~ (j <= k)
      <4>1. j - k = 1 /\ p + j - 1 = p + k
        BY <3>2
      <4>2. (y \o z)[j] = z[j - k]
        BY <2>6, <3>2
      <4> QED
        BY <2>3, <2>5, <4>1, <4>2
    <3> QED
      BY <3>1, <3>2
  <2>8. x = y \o z
    <3>1. Len(x) = Len(y \o z) /\ \A j \in 1 .. Len(x) : x[j] = (y \o z)[j]
      BY <2>3, <2>6, <2>7
    <3> QED
      BY <2>3, <2>6, <3>1, SeqEqual
  <2> QED
    BY <2>8 DEF x, y, z
<1> DEFINE upto(k) == h[p + k - 1]
           good == {k \in Nat : k <= n => upto(k) = first \o sub(k)}
<1>6. p - 1 \in 0 .. m /\ first \in Seq(items)
  <2>1. p - 1 \in 0 .. m
    BY <1>1
  <2> QED
    BY <1>2, <2>1
<1>7. 0 \in good
  <2>4. upto(0) = first
    <3>1. p + 0 - 1 = p - 1
      OBVIOUS
    <3> QED
      BY <3>1
  <2>1. sub(0) = <<>>
    <3>1. sub(0) \in Seq(items) /\ Len(sub(0)) = 0
      BY <1>4
    <3> QED
      BY <3>1, EmptySeq
  <2>2. first \o <<>> = first
    BY <1>6, ConcatEmptySeq
  <2> HIDE DEF upto, first
  <2> QED
    BY <2>1, <2>2, <2>4
<1>8. ASSUME NEW k \in Nat, k \in good PROVE k + 1 \in good
  <2> HIDE DEF upto, first
  <2> SUFFICES ASSUME k + 1 <= n PROVE upto(k + 1) = first \o sub(k + 1)
    OBVIOUS
  <2>1. /\ p + (k + 1) - 1 = p + k /\ p + k \in Nat /\ p <= p + k /\ p + k < p + n
        /\ (p + k) - 1 = p + k - 1 /\ k <= n
    OBVIOUS
  <2>2. p + k \in 1 .. m
    BY <1>1, <2>1
  <2>3. h[p + k] = h[p + k - 1] \o ItemAt(passes, s, p + k)
    BY <1>2, <2>1, <2>2
  <2>4. ItemAt(passes, s, p + k) = <<s[p + k]>>
    BY <1>3, <2>1
  <2>5. upto(k) = first \o sub(k)
    BY <1>8, <2>1
  <2>10. upto(k) = h[p + k - 1] /\ upto(k + 1) = h[p + k]
    BY <2>1 DEF upto
  <2> DEFINE y == sub(k)
             z == <<s[p + k]>>
  <2>11. s[p + k] \in items
    BY <1>1, <2>2
  <2>6. y \in Seq(items) /\ z \in Seq(items)
    BY <1>4, <2>1, <2>11
  <2> HIDE DEF y, z, first
  <2>7. (first \o y) \o z = first \o (y \o z)
    BY <1>6, <2>6, ConcatAssociative, SMTT(30)
  <2>8. sub(k + 1) = y \o z
    BY <1>5 DEF y, z
  <2>9. h[p + k] = (first \o y) \o z
    BY <2>3, <2>4, <2>5, <2>10 DEF y, z
  <2> QED
    BY <2>7, <2>8, <2>9, <2>10
<1> HIDE DEF good, upto, first, sub
<1>9. n \in good
  BY <1>7, <1>8, SetInduction
<1>10. upto(n) = first \o sub(n)
  <2>1. n <= n
    OBVIOUS
  <2> QED
    BY <1>9, <2>1 DEF good
<1> QED
  BY <1>10 DEF MeansText, upto, sub, first

\* and a call means its run, or nothing if its pass is not registered.
LEMMA CallMeans ==
    ASSUME NEW chars, NEW s \in Seq(chars), NEW any, NEW passes \in Seq(any),
           NEW h, IsMeaning(h, passes, s, chars), NEW p, NEW b, IsCall(s, p, b)
    PROVE  MeansCall(h, passes, s, p, b)
<1> DEFINE m == Len(s)
           items == Seq(ItemsOf(chars))
<1>1. m \in Nat /\ p \in Nat /\ b \in Nat /\ 1 <= p /\ p < b /\ b <= m
  <2>1. m \in Nat
    BY LenProperties
  <2>2. p \in 1 .. m /\ b \in 1 .. m /\ p < b
    BY PlacesOfBraces DEF IsCall, IsPair
  <2> HIDE DEF m
  <2> QED
    BY <2>1, <2>2
<1>2. /\ \A k \in 1 .. m : h[k] = h[k - 1] \o ItemAt(passes, s, k)
      /\ \A k \in 0 .. m : h[k] \in items
  BY DEF IsMeaning
<1>3. \A k \in Nat : p < k /\ k <= b => ItemAt(passes, s, k) = <<>>
  BY <1>1, ItemInCall
<1> HIDE DEF m
<1> DEFINE good == {k \in Nat : p + k <= b => h[p + k] = h[p]}
<1>4. 0 \in good
  BY <1>1
<1>5. ASSUME NEW k \in Nat, k \in good PROVE k + 1 \in good
  <2> SUFFICES ASSUME p + (k + 1) <= b PROVE h[p + (k + 1)] = h[p]
    OBVIOUS
  <2> DEFINE x == p + (k + 1)
             y == p + k
  <2>1. x \in Nat /\ x \in 1 .. m /\ p < x /\ x <= b /\ x - 1 = y /\ y \in 0 .. m /\ y <= b
    BY <1>1
  <2>2. h[y] = h[p]
    BY <1>5, <2>1
  <2> HIDE DEF x, y, items
  <2>3. h[x] = h[y] \o <<>>
    BY <1>2, <1>3, <2>1
  <2>4. h[y] \o <<>> = h[y]
    BY <1>2, <2>1, ConcatEmptySeq DEF items
  <2> QED
    BY <2>2, <2>3, <2>4 DEF x
<1> HIDE DEF good
<1>6. Nat \subseteq good
  BY <1>4, <1>5, SetInduction
<1>7. h[b] = h[p]
  <2>1. b - p \in Nat /\ p + (b - p) = b
    BY <1>1
  <2>2. b - p \in good
    BY <1>6, <2>1
  <2> QED
    BY <1>1, <2>1, <2>2 DEF good
<1>8. p \in 1 .. m
  BY <1>1
<1>9. h[p] = h[p - 1] \o ItemAt(passes, s, p)
  BY <1>2, <1>8
<1>10. ItemAt(passes, s, p) = IF PassOf(passes, PassAt(s, p).name) = 0 THEN <<>> ELSE <<CallRun(passes, s, p)>>
  BY <1>1, ItemOfCall DEF m
<1> QED
  BY <1>7, <1>9, <1>10 DEF MeansCall

-----------------------------------------------------------------------------
\* Where compilation goes on from a place: behind a text, or behind a call.
GoesOn(s, p) ==
    /\ LiteralLen(s, p) \in Nat
    /\ LiteralLen(s, p) > 0 => p + LiteralLen(s, p) \in p + 1 .. Len(s) + 1
    /\ ~ (LiteralLen(s, p) > 0) => /\ PassAt(s, p).next \in p + 1 .. Len(s) + 1
                                   /\ IsCall(s, p, PassAt(s, p).next - 1)

\* The loop of the compiler goes on from each place to a later one.
LEMMA CompileGoesOn ==
    ASSUME NEW chars, NEW s \in Seq(chars), NEW p \in 1 .. Len(s)
    PROVE  GoesOn(s, p)
<1> DEFINE m == Len(s)
           n == LiteralLen(s, p)
           right == Find(s, p, "}")
           next == PassAt(s, p).next
<1>1. m \in Nat
  BY LenProperties
<1>2. CutsAt(m, Places(s, "{"), Places(s, "}"), p, n, right)
  BY <1>1, LiteralCuts
<1>3. n \in Nat /\ p + n <= m + 1 /\ (n = 0 => IsCall(s, p, right))
  BY <1>2 DEF CutsAt, IsCall
<1>4. p \in 1 .. m
  OBVIOUS
<1> HIDE DEF m, n, right
<1>7. n \in Nat /\ p + n <= m + 1
  BY <1>3
<1>5. n > 0 => p + n \in p + 1 .. m + 1
  BY <1>1, <1>4, <1>7
<1>6. ASSUME ~ (n > 0) PROVE next \in p + 1 .. m + 1 /\ IsCall(s, p, next - 1)
  <2>5. n = 0
    BY <1>6, <1>7
  <2>1. IsCall(s, p, right)
    BY <1>3, <2>5
  <2>2. right \in 1 .. m /\ p < right
    BY <2>1, PlacesOfBraces DEF IsCall, IsPair, m
  <2>3. next = right + 1
    BY DEF PassAt, right
  <2> HIDE DEF next, right
  <2>4. next \in p + 1 .. m + 1 /\ next - 1 = right
    BY <1>1, <1>4, <2>2, <2>3
  <2> QED
    BY <2>1, <2>4
<1> QED
  BY <1>3, <1>5, <1>6 DEF GoesOn, m, n, next

\* The equation that Compile solves.
CompileStep(passes, s, f, p) ==
    IF p > Len(s) THEN <<>>
    ELSE IF LiteralLen(s, p) > 0 THEN <<Copy(s, p, LiteralLen(s, p))>> \o f[p + LiteralLen(s, p)]
    ELSE IF PassOf(passes, PassAt(s, p).name) # 0 THEN <<CallRun(passes, s, p)>> \o f[PassAt(s, p).next]
    ELSE f[PassAt(s, p).next]

\* So it ends, and what it gives satisfies the equation of the loop.
LEMMA CompileEnds ==
    ASSUME NEW chars, NEW s \in Seq(chars), NEW passes
    PROVE  \E f : /\ Compile(passes, s) = f[1]
                  /\ \A p \in 1 .. Len(s) + 1 : f[p] = CompileStep(passes, s, f, p)
<1> DEFINE m == Len(s)
           dom == 1 .. m + 1
           Def(g, p) == CompileStep(passes, s, g, p)
           left == [p \in dom |-> m + 1 - p]
           f == CHOOSE g : g = [p \in dom |-> Def(g, p)]
<1>1. Compile(passes, s) = f[1]
  BY Zenon DEF Compile, CompileStep, CallRun
<1>2. Defined(f, Def, dom)
  BY Zenon DEF Defined
<1>3. m \in Nat
  BY LenProperties
<1>4. Descends(Def, dom, left)
  <2>1. \A p \in dom : left[p] \in Nat
    <3> HIDE DEF m
    <3> QED
      BY <1>3
  <2>2. ASSUME NEW g, NEW h, NEW p \in dom, \A q \in dom : left[q] < left[p] => g[q] = h[q]
        PROVE  Def(g, p) = Def(h, p)
    <3>1. ASSUME NEW q \in p + 1 .. m + 1 PROVE g[q] = h[q]
      <4> HIDE DEF m
      <4>1. q \in dom
        BY <1>3
      <4>2. left[q] < left[p]
        BY <1>3, <4>1
      <4> QED
        BY <2>2, <4>1, <4>2
    <3>2. CASE p > m
      BY <3>2 DEF CompileStep
    <3>3. CASE ~ (p > m)
      <4>1. p \in 1 .. m
        <5> HIDE DEF m
        <5> QED
          BY <1>3, <3>3
      <4>2. GoesOn(s, p)
        BY <4>1, CompileGoesOn
      <4>3. CASE LiteralLen(s, p) > 0
        <5>1. g[p + LiteralLen(s, p)] = h[p + LiteralLen(s, p)]
          BY <3>1, <4>2, <4>3 DEF GoesOn
        <5> QED
          BY <3>3, <4>3, <5>1 DEF CompileStep
      <4>4. CASE ~ (LiteralLen(s, p) > 0)
        <5>1. g[PassAt(s, p).next] = h[PassAt(s, p).next]
          BY <3>1, <4>2, <4>4 DEF GoesOn
        <5> QED
          BY <3>3, <4>4, <5>1 DEF CompileStep
      <4> QED
        BY <4>3, <4>4
    <3> QED
      BY <3>2, <3>3
  <2> HIDE DEF Def, dom, left
  <2> QED
    BY <2>1, <2>2 DEF Descends
<1> HIDE DEF f, Def, dom, left
<1>5. Recurses(f, Def, dom)
  BY <1>2, <1>4, RecursionDefines
<1>6. \A p \in dom : f[p] = Def(f, p)
  BY <1>5 DEF Recurses
<1> QED
  BY <1>1, <1>6 DEF Def, dom

\* From every place on, what is compiled gives what is meant.
IsFree(s, p) == IsClear(Places(s, "{"), Places(s, "}"), p)
MeansFrom(h, f, s, chars, p) ==
    IsFree(s, p) =>
        f[p] \in Seq(RunsOf(chars)) /\ h[Len(s)] = h[p - 1] \o Apply(f[p])

RunJoins(chars, run, runs, first) ==
    /\ <<run>> \o runs \in Seq(RunsOf(chars))
    /\ first \o Apply(<<run>> \o runs) = (first \o Printed(run)) \o Apply(runs)

\* A run in front of others prints what it prints in front of what they print.
LEMMA RunThenRest ==
    ASSUME NEW chars, NEW run \in RunsOf(chars), NEW runs \in Seq(RunsOf(chars)), NEW first \in Seq(ItemsOf(chars))
    PROVE  RunJoins(chars, run, runs, first)
<1> DEFINE items == ItemsOf(chars)
           x == Printed(run)
           y == Apply(runs)
<1>1. <<run>> \o runs \in Seq(RunsOf(chars))
  <2>1. <<run>> \in Seq(RunsOf(chars))
    OBVIOUS
  <2> QED
    BY <2>1, ConcatProperties
<1>2. x \in Seq(items) /\ y \in Seq(items) /\ first \in Seq(items)
  BY PrintedIs, ApplyFirst
<1>3. Apply(<<run>> \o runs) = x \o y
  BY ApplyFirst
<1> HIDE DEF items, x, y
<1>4. (first \o x) \o y = first \o (x \o y)
  BY <1>2, ConcatAssociative
<1> QED
  BY <1>1, <1>3, <1>4 DEF RunJoins, x, y

\* If the compiler is right from every later place on, it is from place p on.
LEMMA MeansOn ==
    ASSUME NEW chars, NEW s \in Seq(chars), NEW any, NEW passes \in Seq(any),
           NEW h, IsMeaning(h, passes, s, chars),
           NEW f, NEW p \in 1 .. Len(s), f[p] = CompileStep(passes, s, f, p),
           \A q \in p + 1 .. Len(s) + 1 : MeansFrom(h, f, s, chars, q)
    PROVE  MeansFrom(h, f, s, chars, p)
<1> SUFFICES ASSUME IsFree(s, p)
             PROVE  f[p] \in Seq(RunsOf(chars)) /\ h[Len(s)] = h[p - 1] \o Apply(f[p])
  BY DEF MeansFrom
<1> DEFINE m == Len(s)
           n == LiteralLen(s, p)
           next == PassAt(s, p).next
           pass == PassOf(passes, PassAt(s, p).name)
           runs == Seq(RunsOf(chars))
           items == ItemsOf(chars)
           lefts == Places(s, "{")
           rights == Places(s, "}")
<1>1. m \in Nat /\ p \in 1 .. m
  BY LenProperties
<1>2. n \in Nat /\ GoesOn(s, p) /\ ~ (p > m)
  <2>1. GoesOn(s, p)
    BY CompileGoesOn
  <2>2. n \in Nat
    BY <2>1 DEF GoesOn
  <2> HIDE DEF m
  <2> QED
    BY <1>1, <2>1, <2>2
<1>3. h[p - 1] \in Seq(items)
  <2>1. p - 1 \in 0 .. m
    <3> HIDE DEF m
    <3> QED
      BY <1>1
  <2> QED
    BY <2>1 DEF IsMeaning
<1>4. CASE n > 0
  <2> DEFINE q == p + n
             run == Copy(s, p, n)
  <2>1. q \in p + 1 .. m + 1 /\ q <= m + 1 /\ p \in Nat /\ p > 0 /\ q - 1 = p + n - 1
    <3>1. q \in p + 1 .. m + 1
      BY <1>2, <1>4 DEF GoesOn
    <3> HIDE DEF n, m
    <3> QED
      BY <1>1, <1>2, <3>1
  <2>2. IsText(s, p, n) /\ IsFree(s, q)
    <3>1. CutsAt(m, lefts, rights, p, n, Find(s, p, "}"))
      BY <1>1, LiteralCuts
    <3> QED
      BY <1>4, <3>1 DEF CutsAt, IsText, IsFree
  <2>3. f[p] = <<run>> \o f[q]
    BY <1>2, <1>4 DEF CompileStep
  <2>4. run \in RunsOf(chars) /\ Printed(run) = SubSeq(s, p, p + n - 1)
    BY <1>2, <2>1, CopyIs
  <2>5. h[p + n - 1] = h[p - 1] \o Printed(run)
    <3>1. h[p + n - 1] = h[p - 1] \o SubSeq(s, p, p + n - 1)
      <4>1. n \in Nat /\ p \in Nat /\ p > 0 /\ p + n <= Len(s) + 1 /\ IsText(s, p, n)
        BY <1>2, <2>1, <2>2
      <4> HIDE DEF n
      <4>2. MeansText(h, s, p, n)
        BY <4>1, TextMeans
      <4> QED
        BY <4>2 DEF MeansText
    <3> QED
      BY <2>4, <3>1
  <2>6. f[q] \in runs /\ h[m] = h[q - 1] \o Apply(f[q])
    BY <2>1, <2>2 DEF MeansFrom
  <2>7. h[q - 1] = h[p - 1] \o Printed(run)
    BY <2>1, <2>5
  <2>8. /\ <<run>> \o f[q] \in runs
        /\ h[p - 1] \o Apply(<<run>> \o f[q]) = (h[p - 1] \o Printed(run)) \o Apply(f[q])
    <3> DEFINE first == h[p - 1]
               rest == f[q]
    <3>1. first \in Seq(ItemsOf(chars)) /\ run \in RunsOf(chars) /\ rest \in Seq(RunsOf(chars))
      BY <1>3, <2>4, <2>6
    <3> HIDE DEF first, run, rest
    <3>2. RunJoins(chars, run, rest, first)
      BY <3>1, RunThenRest
    <3> QED
      BY <3>2 DEF RunJoins, first, rest
  <2> QED
    BY <2>3, <2>6, <2>7, <2>8
<1>5. CASE ~ (n > 0)
  <2> DEFINE b == next - 1
             run == CallRun(passes, s, p)
  <2>1. next \in p + 1 .. m + 1 /\ IsCall(s, p, b)
    BY <1>2, <1>5 DEF GoesOn
  <2>2. b + 1 = next
    <3> HIDE DEF next, m
    <3> QED
      BY <1>1, <2>1
  <2>3. IsFree(s, next)
    <3>1. /\ lefts \in SUBSET (1 .. m) /\ rights \in SUBSET (1 .. m) /\ lefts \cap rights = {}
          /\ IsPair(lefts, rights, p, b) /\ IsClear(lefts, rights, p)
      BY <2>1, PlacesOfBraces DEF IsCall, IsFree
    <3> HIDE DEF lefts, rights, b, m
    <3>2. IsClear(lefts, rights, b + 1)
      BY <1>1, <3>1, PairEnds
    <3> QED
      BY <2>2, <3>2 DEF IsFree, lefts, rights
  <2>4. f[next] \in runs /\ h[m] = h[next - 1] \o Apply(f[next])
    BY <2>1, <2>3 DEF MeansFrom
  <2>5. h[b] = h[p - 1] \o IF pass = 0 THEN <<>> ELSE <<run>>
    <3>1. IsCall(s, p, b)
      BY <2>1
    <3> HIDE DEF b
    <3>2. MeansCall(h, passes, s, p, b)
      BY <3>1, CallMeans
    <3> QED
      BY <3>2 DEF MeansCall
  <2>6. run \in RunsOf(chars) /\ run.pass = pass
    BY <2>1, CallIs DEF CallRun
  <2>7. CASE pass = 0
    <3>1. f[p] = f[next]
      BY <1>2, <1>5, <2>7 DEF CompileStep
    <3>2. h[b] = h[p - 1]
      BY <1>3, <2>5, <2>7, ConcatEmptySeq
    <3> QED
      BY <2>4, <3>1, <3>2
  <2>8. CASE pass # 0
    <3>1. f[p] = <<run>> \o f[next]
      BY <1>2, <1>5, <2>8 DEF CompileStep
    <3>2. Printed(run) = <<run>>
      BY <2>6, <2>8 DEF Printed
    <3>3. h[b] = h[p - 1] \o Printed(run)
      BY <2>5, <2>8, <3>2
    <3>4. /\ <<run>> \o f[next] \in runs
          /\ h[p - 1] \o Apply(<<run>> \o f[next]) = (h[p - 1] \o Printed(run)) \o Apply(f[next])
      <4> DEFINE first == h[p - 1]
                 rest == f[next]
      <4>1. first \in Seq(ItemsOf(chars)) /\ run \in RunsOf(chars) /\ rest \in Seq(RunsOf(chars))
        BY <1>3, <2>4, <2>6
      <4> HIDE DEF first, run, rest
      <4>2. RunJoins(chars, run, rest, first)
        BY <4>1, RunThenRest
      <4> QED
        BY <4>2 DEF RunJoins, first, rest
    <3> QED
      BY <2>4, <3>1, <3>3, <3>4
  <2> QED
    BY <2>7, <2>8
<1> QED
  BY <1>4, <1>5

\* The runs that Compile makes of an expression, applied, give its meaning, for
\* every text and all passes: no brace that does not match ends the walk or is
\* lost, whatever stands next to it.
LEMMA CompiledMeans ==
    ASSUME NEW chars, NEW s \in Seq(chars), NEW any, NEW passes \in Seq(any)
    PROVE  Apply(Compile(passes, s)) = Meaning(passes, s)
<1> DEFINE m == Len(s)
           items == ItemsOf(chars)
<1>1. m \in Nat
  BY LenProperties
<1>2. PICK h : Meaning(passes, s) = h[m] /\ IsMeaning(h, passes, s, chars)
  BY MeaningJoins
<1>3. PICK f : Compile(passes, s) = f[1] /\ \A p \in 1 .. m + 1 : f[p] = CompileStep(passes, s, f, p)
  BY CompileEnds
<1> DEFINE means(p) == MeansFrom(h, f, s, chars, p)
           good == {k \in Nat : \A p \in 1 .. m + 1 : m + 1 - p <= k => means(p)}
<1>4. means(m + 1)
  <2>1. m + 1 \in 1 .. m + 1 /\ m + 1 > m /\ (m + 1) - 1 = m /\ m \in 0 .. m
    <3> HIDE DEF m
    <3> QED
      BY <1>1
  <2>2. f[m + 1] = <<>>
    BY <1>3, <2>1 DEF CompileStep
  <2>3. Apply(<<>>) = <<>>
    BY ApplyNothing
  <2>4. h[m] \in Seq(items)
    BY <1>2, <2>1 DEF IsMeaning
  <2>5. h[m] \o <<>> = h[m]
    BY <2>4, ConcatEmptySeq
  <2>6. <<>> \in Seq(RunsOf(chars))
    BY EmptySeq
  <2>7. f[m + 1] \in Seq(RunsOf(chars)) /\ h[m] = h[m + 1 - 1] \o Apply(f[m + 1])
    <3>1. m + 1 - 1 = m
      <4> HIDE DEF m
      <4> QED
        BY <1>1
    <3>2. f[m + 1] \in Seq(RunsOf(chars))
      BY <2>2, <2>6
    <3>3. Apply(f[m + 1]) = <<>>
      BY <2>2, <2>3
    <3>4. h[m + 1 - 1] = h[m]
      BY <3>1
    <3> QED
      BY <2>5, <3>2, <3>3, <3>4, Zenon
  <2> QED
    BY <2>7 DEF MeansFrom
<1>5. ASSUME NEW p \in 1 .. m, \A q \in p + 1 .. m + 1 : means(q) PROVE means(p)
  <2>1. p \in 1 .. m + 1
    <3> HIDE DEF m
    <3> QED
      BY <1>1
  <2> QED
    BY <1>2, <1>3, <1>5, <2>1, MeansOn
<1> HIDE DEF m, means
<1>6. 0 \in good
  <2>1. ASSUME NEW p \in 1 .. m + 1, m + 1 - p <= 0 PROVE means(p)
    <3>1. p = m + 1
      BY <1>1, <2>1
    <3> QED
      BY <1>4, <3>1
  <2> QED
    BY <2>1
<1>7. ASSUME NEW k \in Nat, k \in good PROVE k + 1 \in good
  <2>1. ASSUME NEW p \in 1 .. m + 1, m + 1 - p <= k + 1 PROVE means(p)
    <3>1. ASSUME NEW q \in p + 1 .. m + 1 PROVE means(q)
      <4>1. q \in 1 .. m + 1 /\ m + 1 - q <= k
        BY <1>1, <2>1
      <4> QED
        BY <1>7, <4>1
    <3>2. p = m + 1 \/ p \in 1 .. m
      BY <1>1
    <3> QED
      BY <1>4, <1>5, <3>1, <3>2
  <2> QED
    BY <2>1
<1> HIDE DEF good
<1>8. m \in good
  BY <1>1, <1>6, <1>7, SetInduction
<1>9. means(1)
  <2>1. 1 \in 1 .. m + 1 /\ m + 1 - 1 <= m
    BY <1>1
  <2> QED
    BY <1>8, <2>1 DEF good
<1>10. IsFree(s, 1)
  <2> SUFFICES ASSUME NEW a, NEW b, IsCall(s, a, b) PROVE ~ (a < 1 /\ 1 <= b)
    BY DEF IsFree, IsClear, IsCall
  <2>1. a \in 1 .. m
    BY PlacesOfBraces DEF IsCall, IsPair, m
  <2> QED
    BY <1>1, <2>1
<1>11. f[1] \in Seq(RunsOf(chars)) /\ h[m] = h[1 - 1] \o Apply(f[1])
  BY <1>9, <1>10 DEF means, MeansFrom, m
<1>12. h[1 - 1] = <<>>
  BY <1>2 DEF IsMeaning
<1>13. Apply(f[1]) \in Seq(items)
  <2>1. f[1] \in Seq(RunsOf(chars))
    BY <1>11
  <2>2. PICK run : run \in RunsOf(chars)
    <3>1. [pass |-> 0, spec |-> <<>>] \in RunsOf(chars)
      BY EmptySeq DEF RunsOf
    <3> QED
      BY <3>1
  <2> QED
    BY <2>1, <2>2, ApplyFirst
<1>14. <<>> \o Apply(f[1]) = Apply(f[1])
  BY <1>13, ConcatEmptySeq
<1> QED
  BY <1>2, <1>3, <1>11, <1>12, <1>14

-----------------------------------------------------------------------------
\* Of every text whose names and specs fit into the code's buffers, and all
\* passes that are registered (mys_fmter_compile and mys_fmtex_apply, format.c):
\* what is printed and which passes are called, and in which order, is what
\* Meaning says, also where braces do not match.
THEOREM FormatsMean ==
    ASSUME NEW chars, NEW any, NEW s \in Seq(chars), NEW names \in Seq(any)
    PROVE  FormatExact(names, s)
<1> DEFINE m == IF Len(names) < MaxPasses THEN Len(names) ELSE MaxPasses
<1>1. Len(names) \in Nat /\ \A k \in 1 .. Len(names) : names[k] \in any
  BY LenProperties, ElementOfSeq
<1>2. m \in Nat /\ m <= Len(names)
  BY <1>1 DEF MaxPasses
<1> HIDE DEF m
<1>3. SubSeq(names, 1, m) \in Seq(any)
  <2>1. \A k \in 1 .. m : names[k] \in any
    BY <1>1, <1>2
  <2>2. 1 \in Int /\ m \in Int
    BY <1>2
  <2> QED
    BY <2>1, <2>2, SubSeqProperties
<1>4. Registered(names) \in Seq(any)
  BY <1>3 DEF Registered, m
<1> QED
  BY <1>4, CompiledMeans DEF FormatExact
=============================================================================
