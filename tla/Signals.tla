------------------------------- MODULE Signals -------------------------------
(* What the quality gate, the statistics, the operating-envelope and the
   reliability engine say of one sensor's column: a sequence of integers and
   Missing.  Percentages and scores are integers: a score counts tenths, a trust
   ten-thousandths.  The rounding of intermediate percentages is left out. *)
EXTENDS SeriesMath

CONSTANTS
  FaultPoints,    \* readings needed before a value may be a fault code
  FaultRepeats,   \* least repetitions of a fault code
  FlatRun,        \* equal neighbours that count as a flat line
  DriftPoints,    \* readings needed to compare the halves of a history
  EnvelopePoints, \* _MIN_POINTS of the envelope: readings needed for a mode band
  Bins,           \* bins of the envelope's histogram
  GapHours        \* a longer interval between two rows is a gap

ASSUME SignalsAssumption ==
  /\ {FaultPoints, FaultRepeats, FlatRun, DriftPoints, EnvelopePoints, GapHours} \subseteq Nat
  /\ Bins \in Nat \ {0}

None == {}

Valid(col) == Picked(col, {i \in DOMAIN col : col[i] # Missing})
Count(s, Test(_)) == Cardinality({i \in DOMAIN s : Test(s[i])})

-----------------------------------------------------------------------------
(* engines/quality: physical validity, fault codes, the rows' times. *)

NonNegativeTypes == {"pressure", "current", "flow"}
PercentTypes == {"load", "purity"}

Repeats(s, v) == Count(s, LAMBDA x : x = v)

\* The most frequent values; pandas may name any of them first.
Modes(s) == {v \in ToSet(s) : \A w \in ToSet(s) : Repeats(s, w) <= Repeats(s, v)}

\* A value repeated far more than chance, more than four IQR from the median.
IsFaultCode(s, v) ==
  LET iqr == Quantile(s, 3, 4) - Quantile(s, 1, 4)
  IN  /\ Len(s) >= FaultPoints
      /\ v # 0
      /\ Repeats(s, v) >= FaultRepeats
      /\ 1000 * Repeats(s, v) >= 3 * Len(s)
      /\ iqr # 0
      /\ Absolute(4 * v - Quantile(s, 2, 4)) > 4 * iqr

\* The count of the fault code, zero when there is none.
FaultCounts(s) ==
  IF s = <<>> THEN {0} ELSE {IF IsFaultCode(s, v) THEN Repeats(s, v) ELSE 0 : v \in Modes(s)}

LongestRun(s) == IF s = <<>> THEN 0 ELSE Max({RunLength(s, i) : i \in DOMAIN s})

\* What the gate may say of one column.
SensorQuality(col, kind) ==
  LET s == Valid(col)
  IN  {[valid |-> Len(s), missing |-> Len(col) - Len(s),
        negative |-> IF kind \in NonNegativeTypes THEN Count(s, LAMBDA v : v < 0) ELSE 0,
        outOfRange |-> IF kind \in PercentTypes THEN Count(s, LAMBDA v : v < 0 \/ v > 100) ELSE 0,
        fault |-> f, longest |-> LongestRun(s)] : f \in FaultCounts(s)}

\* Duplicated times, gaps and the largest interval; at is in time order.
TimestampIntegrity(at) ==
  LET d == Differences(at)
  IN  [duplicates |-> Count(d, LAMBDA x : x = 0), gaps |-> Count(d, LAMBDA x : x > GapHours),
       largest |-> IF d = <<>> THEN None ELSE {Max(ToSet(d))}]

-----------------------------------------------------------------------------
(* engines/statistics and engines/operating_envelope. *)

SensorStatistics(col) ==
  LET s == Valid(col)
  IN  IF s = <<>> THEN None
      ELSE {[low |-> Min(ToSet(s)), high |-> Max(ToSet(s)), sum |-> SumOf(s), spread |-> Spread(s),
             p25 |-> Quantile(s, 1, 4), median |-> Quantile(s, 2, 4), p75 |-> Quantile(s, 3, 4)]}

\* The bin of a value: Bins intervals of equal width, the last one closed.
BinOf(v, st) ==
  IF v = st.high THEN Bins ELSE (Bins * (v - st.low)) \div (st.high - st.low) + 1

InBin(s, st, b) == Count(s, LAMBDA v : BinOf(v, st) = b)

\* The first of the fullest bins, where there is enough to look at.
ModeBand(s, st) ==
  IF Len(s) < EnvelopePoints \/ st.spread = 0 THEN None
  ELSE {Min({b \in 1 .. Bins : \A c \in 1 .. Bins : InBin(s, st, c) <= InBin(s, st, b)})}

\* The bins with less than a hundredth of the readings: where they touch an end
\* of the range and how many readings they hold.
RareRegion(s, st) ==
  LET rare == {b \in 1 .. Bins : 100 * InBin(s, st, b) < Len(s)}
  IN  IF ModeBand(s, st) = None \/ rare = {} THEN None
      ELSE {[low |-> 1 \in rare, high |-> Bins \in rare,
             readings |-> SumOver(rare, LAMBDA b : InBin(s, st, b))]}

SensorEnvelope(col) ==
  LET s == Valid(col)
  IN  {[typical |-> <<st.p25, st.p75>>, mode |-> ModeBand(s, st), rare |-> RareRegion(s, st),
        coverage |-> RoundDiv(100 * Len(s), Len(col))] : st \in SensorStatistics(col)}

-----------------------------------------------------------------------------
(* engines/reliability. *)

\* There is no deviation to compare with: too few readings, or all equal.
NoDeviation(s, least) == Len(s) < least \/ Spread(s) = 0

Flatlined(s) == IF Len(s) < 2 THEN 0 ELSE Cardinality({i \in DOMAIN s : RunLength(s, i) >= FlatRun})

\* Standard deviations are compared squared, over Len(s) * (Len(s) - 1).
Noisy(s) ==
  LET change == SumOf([i \in 1 .. Len(s) - 1 |-> Absolute(Differences(s)[i])])
  IN  /\ ~NoDeviation(s, 3)
      /\ change * change * Len(s) > (Len(s) - 1) * Spread(s)

Drifts(s) ==
  LET h == Len(s) \div 2
      d == h * SumOf(SubSeq(s, h + 1, Len(s))) - (Len(s) - h) * SumOf(SubSeq(s, 1, h))
      m == h * (Len(s) - h)
  IN  /\ ~NoDeviation(s, DriftPoints)
      /\ d * d * Len(s) * (Len(s) - 1) > m * m * Spread(s)

Spikes(s) ==
  IF NoDeviation(s, 3) THEN 0
  ELSE Count(Differences(s), LAMBDA d : d * d * Len(s) * (Len(s) - 1) > 25 * Spread(s))

\* More than 60% of the changes of direction that could be.
Oscillates(s) ==
  LET signs == SelectSeq(Differences(s), LAMBDA d : d # 0)
      flips == Count([i \in 1 .. Len(signs) - 1 |-> signs[i] * signs[i + 1]], LAMBDA p : p < 0)
  IN  /\ ~NoDeviation(s, 3)
      /\ Len(signs) >= 2
      /\ 10 * flips > 6 * (Len(signs) - 1)

\* Mutant: weights that do not add up to one.
ScoreOverweight(missing, total, flat, fault, valid) ==
  LET n == IF valid = 0 THEN 1 ELSE valid
  IN  RoundDiv(400 * (total - missing) * n + 350 * total * (n - flat) + 350 * total * (n - fault),
               total * n)

\* The score in tenths: 40% completeness, 35% not flat, 25% no fault code.
Score(missing, total, flat, fault, valid) ==
  LET n == IF valid = 0 THEN 1 ELSE valid
  IN  RoundDiv(400 * (total - missing) * n + 350 * total * (n - flat) + 250 * total * (n - fault),
               total * n)

\* The trust: the score, less 10% for each of drift, spikes and noise, and 5%
\* for oscillation.
SensorConfidence(score, s) ==
  LET tenths == Cardinality({x \in {"drift", "spikes", "noise"} :
                  \/ x = "drift" /\ Drifts(s)
                  \/ x = "spikes" /\ 100 * Spikes(s) > Len(s)
                  \/ x = "noise" /\ Noisy(s)})
      kept == <<1000, 900, 810, 729>>[tenths + 1]
      osc == IF Oscillates(s) THEN 95 ELSE 100
  IN  RoundDiv(score * kept * osc, 10000)

\* flat counts hundredths of a percent.
Assess(col, q) ==
  LET s == Valid(col)
      score == Score(q.missing, Len(col), Flatlined(s), q.fault, q.valid)
  IN  [score |-> score, trust |-> SensorConfidence(score, s), drift |-> Drifts(s),
       flat |-> IF s = <<>> THEN 0 ELSE RoundDiv(10000 * Flatlined(s), Len(s)), valid |-> Len(s)]

\* The sensors by descending score, those of one score in the order of keys.
Ranked(keys, score) ==
  SortSeq([i \in DOMAIN keys |-> i],
          LAMBDA i, j : \/ score[keys[i]] > score[keys[j]]
                        \/ score[keys[i]] = score[keys[j]] /\ i < j)
==============================================================================
