------------------------------ MODULE Partition -----------------------------
(***************************************************************************)
(* The two partitions of an interval in src/include/mys/impl/linalg.c.  A  *)
(* part is the pair of its first index and the one behind its last.        *)
(* Weights are natural numbers and a tolerance is a fraction <<n, d>>, so  *)
(* that the comparisons of the code's doubles are exact.                   *)
(***************************************************************************)
EXTENDS Integers, Sequences, SequencesExt, FiniteSetsExt

\* mys_partition_naive, for gbegin <= gend and 0 <= ipart < npart.
Naive(gbegin, gend, npart, ipart) ==
    LET size == (gend - gbegin) \div npart
        rest == (gend - gbegin) % npart
    IN IF ipart < rest
       THEN << gbegin + ipart * (size + 1), gbegin + ipart * (size + 1) + size + 1 >>
       ELSE << gbegin + rest + ipart * size, gbegin + rest + ipart * size + size >>

\* The parts follow each other from gbegin to gend, and no part is more than
\* one longer than another.
NaivePartitions(gbegin, gend, npart) ==
    LET part(k) == Naive(gbegin, gend, npart, k)
        size(k) == part(k)[2] - part(k)[1]
    IN /\ part(0)[1] = gbegin
       /\ part(npart - 1)[2] = gend
       /\ \A k \in 0 .. npart - 2 : part(k)[2] = part(k + 1)[1]
       /\ \A k \in 0 .. npart - 1 : /\ size(k) >= 0
                                    /\ size(k) \in size(npart - 1) .. size(npart - 1) + 1

-----------------------------------------------------------------------------
\* The weight of w from b up to e, without e.
Weight(w, b, e) == FoldLeft(LAMBDA sum, x : sum + x, 0, SubSeq(w, b + 1, e))

Distance(x, y) == IF x < y THEN y - x ELSE x - y

\* The cut where the sum reaches half of the weight times the tolerance, and
\* the sum itself: that of the elements before the cut and the one at it.
FirstCut(w, b, e, tol) ==
    LET reaches(m) == 2 * tol[2] * Weight(w, b, m + 1) >= tol[1] * Weight(w, b, e)
        found == {m \in b .. e - 1 : reaches(m)}
    IN IF found = {} THEN [at |-> e, sum |-> Weight(w, b, e)]
       ELSE [at |-> Min(found), sum |-> Weight(w, b, Min(found) + 1)]

\* The same or, of several test cuts, the one nearest to half of the weight.
Cut(w, b, e, tol, tests) ==
    LET away(c) == Distance(Weight(w, b, e), 2 * c.sum)
        test(k) == LET m == b + (e - b) \div (k + 1) IN [at |-> m, sum |-> Weight(w, b, m)]
        better(best, k) == IF away(test(k)) < away(best) THEN test(k) ELSE best
    IN FoldLeft(better, FirstCut(w, b, e, tol), [k \in 1 .. tests - 1 |-> k]).at

\* The calls of mys_partition_rcb for the elements of w and npart parts.
RcbCalls(w, npart) ==
    {call \in [begin : 0 .. Len(w), end : 0 .. Len(w), npart : 1 .. npart, ipart : 0 .. npart - 1] :
        call.begin <= call.end /\ call.ipart < call.npart}

\* mys_partition_rcb of all elements of w into npart parts: the part ipart.
Rcb(w, tol, tests, npart, ipart) ==
    LET rcb[call \in RcbCalls(w, npart)] ==
            LET c == Cut(w, call.begin, call.end, tol, tests)
                half == call.npart \div 2
            IN IF call.npart = 1 THEN << call.begin, call.end >>
               ELSE IF call.ipart < half
                    THEN rcb[[begin |-> call.begin, end |-> c, npart |-> half, ipart |-> call.ipart]]
               ELSE rcb[[begin |-> c, end |-> call.end, npart |-> call.npart - half, ipart |-> call.ipart - half]]
    IN rcb[[begin |-> 0, end |-> Len(w), npart |-> npart, ipart |-> ipart]]

\* The parts follow each other from 0 to the number of elements.
RcbPartitions(w, tol, tests, npart) ==
    LET part == [k \in 0 .. npart - 1 |-> Rcb(w, tol, tests, npart, k)]
    IN /\ part[0][1] = 0
       /\ part[npart - 1][2] = Len(w)
       /\ \A k \in 0 .. npart - 1 : part[k][1] <= part[k][2]
       /\ \A k \in 0 .. npart - 2 : part[k][2] = part[k + 1][1]

\* linalg.c:60 says of the test cuts "find the best midpoint that minimizes
\* imbalance": no test cut splits the weight more evenly than the one taken.
BestCutIsTaken(w, tol, tests) ==
    LET off(m) == Distance(Weight(w, 0, m), Weight(w, m, Len(w)))
    IN \A k \in 1 .. tests - 1 :
           off(Cut(w, 0, Len(w), tol, tests)) <= off(Len(w) \div (k + 1))
=============================================================================
