------------------------------- MODULE Health -------------------------------
(* The health engine (engines/health): a score and a severity for every sensor,
   rolled up to its subsystem and to the unit.  Scores count tenths, confidences
   ten-thousandths.  A subsystem is the set of its sensor keys. *)
EXTENDS Thresholds

\* The greatest score and the greatest confidence, or trust, a result may carry.
MaxScore == 1000
Certain == 10000

Rank(severity) ==
  CASE severity = "ok" -> 0 [] severity = "info" -> 1
    [] severity = "warning" -> 2 [] severity = "critical" -> 3

Worst(severities) ==
  IF severities = {} THEN "ok"
  ELSE CHOOSE x \in severities : \A y \in severities : Rank(y) <= Rank(x)

StateHealth == [within_range |-> 1000, outside_operating |-> 600, critical |-> 300, trip |-> 0]

SeverityFromScore(score) ==
  IF score >= 800 THEN "ok" ELSE IF score >= 500 THEN "warning" ELSE "critical"

\* A sensor is judged by its threshold state where there is one, by its trust otherwise.
SensorHealth(rel, thr) ==
  IF thr.status = "available" /\ thr.state \in DOMAIN StateHealth
  THEN [score |-> StateHealth[thr.state], severity |-> SeverityOfState(thr.state),
        confidence |-> rel.trust]
  ELSE [score |-> RoundDiv(rel.trust, 10), severity |-> SeverityFromScore(RoundDiv(rel.trust, 10)),
        confidence |-> rel.trust]

\* Mutant: the severity follows the score instead of the worst child.
HealthRollupByScore(child) ==
  LET keys == DOMAIN child
      weight == SumOver(keys, LAMBDA k : child[k].confidence)
      mean == RoundDiv(SumOver(keys, LAMBDA k : child[k].score * child[k].confidence), weight)
  IN  [score |-> mean, severity |-> SeverityFromScore(mean),
       confidence |-> RoundDiv(weight, Cardinality(keys))]

\* Mutant: the weighted sum is divided by the number of children.
HealthRollupByCount(child) ==
  LET keys == DOMAIN child
      weight == SumOver(keys, LAMBDA k : child[k].confidence)
      sum == SumOver(keys, LAMBDA k : child[k].score * child[k].confidence)
  IN  [score |-> RoundDiv(sum, 10000 * Cardinality(keys)),
       severity |-> Worst({child[k].severity : k \in keys}),
       confidence |-> RoundDiv(weight, Cardinality(keys))]

\* The confidence-weighted mean of the children's scores and their worst
\* severity.  child is a function from the children's keys to their health.
HealthRollup(child) ==
  LET keys == DOMAIN child
      weight == SumOver(keys, LAMBDA k : child[k].confidence)
      sum == SumOver(keys, LAMBDA k : child[k].score * child[k].confidence)
  IN  IF keys = {} THEN [score |-> 1000, severity |-> "ok", confidence |-> 0]
      ELSE [score |-> RoundDiv(sum, IF weight = 0 THEN Cardinality(keys) ELSE weight),
            severity |-> Worst({child[k].severity : k \in keys}),
            confidence |-> RoundDiv(weight, Cardinality(keys))]

\* sub maps a subsystem to its sensors; rel and thr are the sensors' results.
UnitHealth(rel, thr, sub) ==
  LET sensors == [k \in DOMAIN rel |-> SensorHealth(rel[k], thr[k])]
      subsystems == [u \in DOMAIN sub |-> HealthRollup(Restrict(sensors, sub[u] \cap DOMAIN rel))]
  IN  [sensors |-> sensors, subsystems |-> subsystems, equipment |-> HealthRollup(subsystems)]
==============================================================================
