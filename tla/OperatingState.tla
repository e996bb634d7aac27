--------------------------- MODULE OperatingState ---------------------------
(* The operating-state engine (engines/operating_state): an activity indicator
   is cut into bands, every reading gets the label of its band, consecutive
   readings of one label become an episode, and short episodes between OFF and
   a loaded band are relabelled as transitions.

   A reading is [at, v]: its time in units of the grid and its value; Missing
   is a null.  A label is <<kind, band>>.  The density estimate is scipy's: any
   cut points inside the indicator's range may come out of it. *)
EXTENDS SeriesMath

CONSTANTS
  Cap,         \* GAP_CAP_MIN: a longer interval is a logging gap, not a dwell
  Short,       \* SHORT_EPISODE_MIN: no longer episodes may be transitions
  MinPoints,   \* _MIN_POINTS: valid readings needed to segment
  MinRest,     \* readings above the floor needed to split the floor off
  MinDensity   \* readings needed to estimate a density

ASSUME OperatingStateAssumption ==
  /\ {Cap, Short, MinPoints, MinRest, MinDensity} \subseteq Nat
  /\ MinPoints > 0

MaxBands == 4

ValidReadings(col) == Picked(col, {i \in DOMAIN col : col[i].v # Missing})
Values(rows) == [i \in DOMAIN rows |-> rows[i].v]

-----------------------------------------------------------------------------
(* Bands.  A cut point is the largest integer of the band below it. *)

Floor(vals) ==
  LET lo == Min(ToSet(vals)) hi == Max(ToSet(vals))
      width == IF hi > lo THEN hi - lo ELSE 1
  IN  {v \in ToSet(vals) : 100 * (v - lo) <= width}

Above(vals, low) == SelectSeq(vals, LAMBDA v : v \notin low)

SplitsFloor(vals) ==
  LET rest == Above(vals, Floor(vals))
  IN  /\ 100 * (Len(vals) - Len(rest)) >= 3 * Len(vals)
      /\ Len(rest) > MinRest

\* The sets of valleys the density of these values may have.
DensityValleys(vals) ==
  IF Len(vals) < MinDensity \/ Cardinality(ToSet(vals)) < 2 THEN {{}}
  ELSE SUBSET (Min(ToSet(vals)) .. Max(ToSet(vals)) - 1)

\* At most three cuts are kept: the lowest and the two highest.
Kept(cuts) ==
  IF Cardinality(cuts) <= MaxBands - 1 THEN cuts
  ELSE LET s == InOrder(cuts)
       IN  {s[1]} \cup ToSet(SubSeq(s, Len(s) - MaxBands + 3, Len(s)))

BandActivity(vals) ==
  IF SplitsFloor(vals)
  THEN {Kept({Max(Floor(vals))} \cup w) : w \in DensityValleys(Above(vals, Floor(vals)))}
  ELSE {Kept(w) : w \in DensityValleys(vals)}

BandOf(v, cuts) == Cardinality({c \in cuts : c < v})

\* The coefficient of variation is below 15%; undefined for fewer than two values.
Steady(vals) ==
  /\ Len(vals) > 1
  /\ SumOf(vals) # 0
  /\ 400 * Len(vals) * Spread(vals) < 9 * (Len(vals) - 1) * SumOf(vals) * SumOf(vals)

ContinuousLabel(vals) == <<IF Steady(vals) THEN "steady" ELSE "variable", 0>>

DescribeBand(vals, cuts, b) ==
  LET mine == SelectSeq(vals, LAMBDA v : BandOf(v, cuts) = b)
      top == Max(ToSet(vals))
      n == BandOf(top, cuts) + 1
  IN  CASE mine = <<>> -> <<"empty", b>>
        [] mine # <<>> /\ b = 0 /\ top > 0 /\ 20 * SumOf(mine) < top * Len(mine) -> <<"off", b>>
        [] OTHER -> IF b = n - 1 THEN <<IF Steady(mine) THEN "full" ELSE "high", b>>
                    ELSE <<IF n = 2 THEN "running" ELSE "partial", b>>

LabelOf(vals, cuts, v) ==
  IF cuts = {} THEN ContinuousLabel(vals) ELSE DescribeBand(vals, cuts, BandOf(v, cuts))

-----------------------------------------------------------------------------
(* Episodes.  A row is [at, state]. *)

Labelled(rows, cuts) ==
  [i \in DOMAIN rows |-> [at |-> rows[i].at, state |-> LabelOf(Values(rows), cuts, rows[i].v)]]

\* Mutant: a logging gap does not end an episode.
NewSegmentByState(rows, i) == i = 1 \/ rows[i].state # rows[i - 1].state

NewSegment(rows, i) ==
  \/ i = 1
  \/ rows[i].state # rows[i - 1].state
  \/ rows[i].at - rows[i - 1].at > Cap

\* The time a reading stands for: until the next one, unless that is a gap.
Dwell(rows, i) ==
  IF i < Len(rows) /\ rows[i + 1].at - rows[i].at <= Cap
  THEN rows[i + 1].at - rows[i].at
  ELSE 0

BuildEpisodes(rows) ==
  LET first == InOrder({i \in DOMAIN rows : NewSegment(rows, i)})
      last(k) == IF k = Len(first) THEN Len(rows) ELSE first[k + 1] - 1
  IN  [k \in DOMAIN first |->
        [state |-> rows[first[k]].state, final |-> rows[first[k]].state,
         start |-> rows[first[k]].at, end |-> rows[last(k)].at,
         dur |-> SumOver(first[k] .. last(k), LAMBDA i : Dwell(rows, i)),
         n |-> last(k) - first[k] + 1]]

IsOff(label) == label[1] = "off"

\* The neighbours are compared by the label of their band, and a gap between
\* them does not count.
Transition(eps, i) ==
  LET Bridges(j) == j \in DOMAIN eps
      OffAt(j) == Bridges(j) /\ IsOff(eps[j].state)
      LoadedAt(j) == Bridges(j) /\ ~IsOff(eps[j].state)
  IN  CASE OffAt(i) -> eps[i].state
        [] ~OffAt(i) /\ OffAt(i - 1) /\ LoadedAt(i + 1) -> <<"startup", 0>>
        [] ~OffAt(i) /\ LoadedAt(i - 1) /\ OffAt(i + 1) -> <<"shutdown", 0>>
        [] ~OffAt(i) /\ LoadedAt(i - 1) /\ LoadedAt(i + 1)
             /\ eps[i - 1].state # eps[i].state /\ eps[i + 1].state # eps[i].state
             -> <<"transition", 0>>
        [] OTHER -> eps[i].state

RefineTransitions(eps) ==
  IF \E i \in DOMAIN eps : IsOff(eps[i].state)
  THEN [i \in DOMAIN eps |->
         IF eps[i].dur > Short THEN eps[i] ELSE [eps[i] EXCEPT !.final = Transition(eps, i)]]
  ELSE eps

TotalDwell(eps) == SumOver(DOMAIN eps, LAMBDA i : eps[i].dur)

\* Time and number of episodes of each final state.
Summarize(eps) ==
  [s \in {eps[i].final : i \in DOMAIN eps} |->
    LET mine == {i \in DOMAIN eps : eps[i].final = s}
    IN  [total |-> SumOver(mine, LAMBDA i : eps[i].dur), episodes |-> Cardinality(mine)]]

NotSegmentable == [segmentable |-> FALSE, cuts |-> {}, episodes |-> <<>>, summary |-> <<>>]

\* The results the engine may return for one machine.
AnalyzeMachine(col) ==
  LET rows == ValidReadings(col)
  IN  IF Len(rows) < MinPoints THEN {NotSegmentable}
      ELSE {LET eps == RefineTransitions(BuildEpisodes(Labelled(rows, cuts)))
            IN  [segmentable |-> TRUE, cuts |-> cuts, episodes |-> eps, summary |-> Summarize(eps)]
            : cuts \in BandActivity(Values(rows))}
==============================================================================
