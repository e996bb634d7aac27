----------------------------- MODULE SeriesMath -----------------------------
(* What the engines take from pandas and numpy: sums, order statistics and the
   rounding of a ratio, over sequences of integers.  Fractions stay exact: an
   operator returns a numerator over a denominator its comment names. *)
EXTENDS Integers, SequencesExt, FiniteSetsExt, Functions

CONSTANT Missing  \* a null reading

ASSUME MissingAssumption == Missing \notin Int

SumOf(s) == SumFunction(s)
SumOver(S, f(_)) == SumFunction([x \in S |-> f(x)])
SquareSum(s) == SumFunction([i \in DOMAIN s |-> s[i] * s[i]])

\* A finite set of integers in ascending order; the elements of a sequence at some places.
InOrder(T) == [n \in 1 .. Cardinality(T) |-> CHOOSE t \in T : Cardinality({u \in T : u < t}) = n - 1]
Picked(s, places) == LET o == InOrder(places) IN [n \in DOMAIN o |-> s[o[n]]]

\* round(a / b): half away from zero, for a >= 0 and b > 0.
RoundDiv(a, b) == (2 * a + b) \div (2 * b)

\* The elements in ascending order: the n-th is the one that fewer than n are below and
\* no fewer than n are not above.
Sorted(s) ==
  LET Below(v) == Cardinality({i \in DOMAIN s : s[i] < v})
      UpTo(v) == Cardinality({i \in DOMAIN s : s[i] <= v})
  IN  [n \in DOMAIN s |-> CHOOSE v \in ToSet(s) : Below(v) < n /\ n <= UpTo(v)]

\* d times the quantile k/d, interpolated linearly between its neighbours.
Quantile(s, k, d) ==
  LET t == Sorted(s)
      pos == k * (Len(s) - 1)
      i == pos \div d + 1
      r == pos % d
  IN  (d - r) * t[i] + r * t[IF i < Len(t) THEN i + 1 ELSE i]

\* The sample variance is Spread(s) / (Len(s) * (Len(s) - 1)).
Spread(s) == Len(s) * SquareSum(s) - SumOf(s) * SumOf(s)

\* The lengths of the maximal runs of equal neighbours, one for each element.
RunLength(s, i) ==
  LET same(j) == \A k \in Min({i, j}) .. Max({i, j}) : s[k] = s[i]
  IN  Cardinality({j \in DOMAIN s : same(j)})

Differences(s) == [i \in 1 .. Len(s) - 1 |-> s[i + 1] - s[i]]

Absolute(x) == IF x < 0 THEN -x ELSE x
==============================================================================
