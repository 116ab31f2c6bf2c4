------------------------------- MODULE Boxplot ------------------------------
(***************************************************************************)
(* The numbers of a box plot, mys_boxplot_create in                        *)
(* src/include/mys/impl/statistic.c.  The values are integers; a quartile  *)
(* lies a number of quarters between two of them, so quartiles are kept as *)
(* four times what they are, and the limits of the whiskers as eight times.*)
(* All comparisons of the code's doubles are exact then, and its tolerance *)
(* of 1e-9 times the larger quartile is less than any difference.          *)
(***************************************************************************)
EXTENDS Integers, Sequences, SequencesExt, FiniteSetsExt

Absolute(x) == IF x < 0 THEN -x ELSE x

\* How many of the values are less than x, and how many are not more.
Below(values, x) == Quantify(DOMAIN values, LAMBDA i : values[i] < x)
UpTo(values, x) == Quantify(DOMAIN values, LAMBDA i : values[i] <= x)

\* mys_sort_f64 (the first element is arr[1]): a value is behind all that are
\* less, and takes as many places as it is there.
Sorted(values) ==
    [i \in DOMAIN values |->
        CHOOSE x \in ToSet(values) : Below(values, x) < i /\ i <= UpTo(values, x)]

\* Where the k-th quartile of n sorted values is: its index and its quarters.
At(n, k) == [arg |-> (k * (n - 1)) \div 4, quarters |-> (k * (n - 1)) % 4]

\* Four times the quartile, between arr[arg] and the element behind it.
Quartile(arr, k) ==
    LET at == At(Len(arr), k)
        x == arr[at.arg + 1]
    IN 4 * x + (arr[at.arg + 2] - x) * at.quarters

\* The quartiles are equal, for the code: less apart than nothing, if both are 0.
Narrow(q1, q3) == q1 = q3 /\ Max({Absolute(q1), Absolute(q3)}) > 0

\* The value farthest from the quartile q that is not beyond the limit, of those
\* at the given places; side is -1 for the lower whisker and 1 for the upper one.
Whisker(arr, q, limit, places, side) ==
    LET reached == {i \in places : side * 8 * arr[i] <= side * limit}
    IN side * Max({side * q} \cup {side * 4 * arr[i] : i \in reached})

\* mys_boxplot_create of at least one value.
Create(values) ==
    LET arr == Sorted(values)
        n == Len(arr)
        q1 == Quartile(arr, 1)
        q3 == Quartile(arr, 3)
        loval == 2 * q1 - 3 * (q3 - q1)
        hival == 2 * q3 + 3 * (q3 - q1)
        bottom == 1 .. At(n, 1).arg + 1
        top == At(n, 3).arg + 1 .. n
        nb == Quantify(bottom, LAMBDA i : 8 * arr[i] < loval)
        nt == Quantify(top, LAMBDA i : 8 * arr[i] > hival)
    IN CASE n = 1 ->
              [q1 |-> 4 * arr[1], med |-> 4 * arr[1], q3 |-> 4 * arr[1],
               whislo |-> 4 * arr[1], whishi |-> 4 * arr[1], fliers |-> <<>>]
         [] n > 1 /\ Narrow(q1, q3) ->
              [q1 |-> q1, med |-> Quartile(arr, 2), q3 |-> q3,
               whislo |-> 4 * arr[1], whishi |-> 4 * arr[n], fliers |-> <<>>]
         [] OTHER ->
              [q1 |-> q1, med |-> Quartile(arr, 2), q3 |-> q3,
               whislo |-> Whisker(arr, q1, loval, bottom, -1),
               whishi |-> Whisker(arr, q3, hival, top, 1),
               fliers |-> SubSeq(arr, 1, nb) \o SubSeq(arr, n - nt + 1, n)]

-----------------------------------------------------------------------------
Count(s, x) == Quantify(DOMAIN s, LAMBDA i : s[i] = x)

\* The quartiles are in order inside the whiskers, at least half of the values
\* is on each side of the median, and every value is either between the
\* whiskers or a flier, as often as it is there: the two loops that look only
\* at the outer quarters, and the copy of the fliers from the ends of the
\* sorted array, miss none and take none that is not one.
BoxplotExact(values) ==
    LET b == Create(values)
    IN /\ b.whislo <= b.q1 /\ b.q1 <= b.med /\ b.med <= b.q3 /\ b.q3 <= b.whishi
       /\ 2 * Quantify(DOMAIN values, LAMBDA i : 4 * values[i] <= b.med) >= Len(values)
       /\ 2 * Quantify(DOMAIN values, LAMBDA i : 4 * values[i] >= b.med) >= Len(values)
       /\ \A x \in ToSet(values) :
              Count(b.fliers, x) = IF b.whislo <= 4 * x /\ 4 * x <= b.whishi THEN 0
                                   ELSE Count(values, x)
       /\ ToSet(b.fliers) \subseteq ToSet(values)

\* statistic.h:158 says "when the data are distributed such that the 25th and
\* 75th percentiles are equal, whis is set to (0, 100) such that the whisker
\* ends are at the minimum and maximum of the data".
Autorange(values) ==
    LET b == Create(values)
    IN b.q1 = b.q3 => b.whislo = 4 * Min(ToSet(values)) /\ b.whishi = 4 * Max(ToSet(values))
=============================================================================
