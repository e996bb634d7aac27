----------------------------- MODULE Thresholds -----------------------------
(* The threshold engine (engines/threshold) for one sensor.  A specification is
   [operating, protection, table]: the operating ranges supplied (at most one),
   each [low, high] of sets with at most one bound; the protection setpoints
   [name, level], all on the high side; whether the unit has a table at all. *)
EXTENDS Signals

Status(spec) ==
  CASE spec.operating # {} -> "available"
    [] spec.operating = {} /\ spec.table -> "requires_manual_validation"
    [] spec.operating = {} /\ ~spec.table -> "missing"

TooHigh(v, band) == \E h \in band.high : v > h
TooLow(v, band) == \E l \in band.low : v < l
Outside(v, band) == TooHigh(v, band) \/ TooLow(v, band)

Breached(v, spec) == {p \in spec.protection : v >= p.level}

\* The state of the last valid reading, most severe first.
StateOf(v, spec) ==
  LET band == CHOOSE b \in spec.operating : TRUE
  IN  CASE \E p \in Breached(v, spec) : p.name = "trip" -> "trip"
        [] \A p \in Breached(v, spec) : p.name # "trip" ->
             IF Breached(v, spec) # {} THEN "critical"
             ELSE IF Outside(v, band) THEN "outside_operating" ELSE "within_range"

\* Mutant: the highest reading of the history instead of the last one.
CurrentStateEver(s, spec) == IF s = <<>> THEN "unknown" ELSE StateOf(Max(ToSet(s)), spec)

CurrentState(s, spec) == IF s = <<>> THEN "unknown" ELSE StateOf(Last(s), spec)

SeverityOfState(state) ==
  CASE state \in {"trip", "critical"} -> "critical"
    [] state = "outside_operating" -> "warning"
    [] state = "within_range" -> "ok"
    [] state = "unknown" -> "info"

\* How the typical quarter-to-quarter range lies to the operating range.
HistoricalContext(band, typical) ==
  CASE \E h \in band.high : typical[1] > 4 * h -> "above"
    [] \E l \in band.low : typical[2] < 4 * l -> "below"
    [] ~(\E h \in band.high : typical[1] > 4 * h) /\ ~(\E l \in band.low : typical[2] < 4 * l) ->
         IF /\ \A l \in band.low : typical[1] >= 4 * l
            /\ \A h \in band.high : typical[2] <= 4 * h
         THEN "inside" ELSE "partial"

\* A breach rate counts hundredths of a percent.
Interpretation(pct) ==
  CASE pct >= 5000 -> "setpoint" [] pct \in 2000 .. 4999 -> "review"
    [] pct \in 500 .. 1999 -> "transients" [] pct < 500 -> "valid"

\* ThresholdHistory: how often the readings were past the operating range and the setpoints.
History(s, spec) ==
  LET band == CHOOSE b \in spec.operating : TRUE
      outside == Count(s, LAMBDA v : Outside(v, band))
  IN  [evaluated |-> Len(s), outside |-> outside,
       pct |-> IF s = <<>> THEN 0 ELSE RoundDiv(10000 * outside, Len(s)),
       breaches |-> [p \in spec.protection |-> Count(s, LAMBDA v : v >= p.level)]]

Thresholded(col, spec, envelope) ==
  LET s == Valid(col)
      history == History(s, spec)
  IN  [status |-> "available", state |-> CurrentState(s, spec),
       severity |-> SeverityOfState(CurrentState(s, spec)),
       history |-> {history}, reading |-> Interpretation(history.pct),
       context |-> {HistoricalContext(CHOOSE b \in spec.operating : TRUE, e.typical) : e \in envelope},
       \* the coverage, in ten-thousandths
       confidence |-> RoundDiv(10000 * Len(s), Len(col))]

Unthresholded(spec) ==
  [status |-> Status(spec), state |-> "unknown", severity |-> "info", history |-> None,
   reading |-> "none", context |-> None, confidence |-> 0]

EvaluateSensor(col, spec, envelope) ==
  IF Status(spec) = "available" THEN Thresholded(col, spec, envelope) ELSE Unthresholded(spec)
==============================================================================
