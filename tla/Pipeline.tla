------------------------------ MODULE Pipeline ------------------------------
(* DeterministicPipeline.run and what AnalysisUseCase.run computes from it
   (application/pipeline, application/analysis_use_case): the engines in the
   order of their dependencies over one frame of a unit, then health, the
   derived findings and the rules, iteration by iteration.

   A frame is [at, col]: the times of its rows, ascending, and a column for
   every sensor.  One sensor is the activity indicator of the unit's machine. *)
EXTENDS Findings, Timeline

CONSTANTS
  Frames,        \* the frames a run may be given
  Indicator,     \* the sensor of ACTIVITY_INDICATORS
  Kind,          \* sensor -> its type
  SubsystemOf,   \* sensor -> its subsystem
  Class,         \* the unit's equipment class
  Limits,        \* sensor -> its threshold specification
  MaxIterations  \* of the rule evaluator

Sensors == DOMAIN Kind

ASSUME PipelineAssumption ==
  /\ IsFiniteSet(Sensors)
  /\ Indicator \in Sensors
  /\ DOMAIN SubsystemOf = Sensors /\ DOMAIN Limits = Sensors
  /\ MaxIterations \in Nat \ {0}

\* A sensor has one operating range, or none.
ASSUME OneOperatingRange == \A k \in Sensors : \A a, b \in Limits[k].operating : a = b

\* The rules reason monotonically and the bound on the iterations is a safety net
\* (rules/evaluator): what a rule concludes blocks none, and no chain of rules, each
\* requiring what the one before concludes, is longer than the bound.
ASSUME RulesAreLayered ==
  /\ \A q, r \in Rules : q.type \notin r.excluded
  /\ \E level \in [Rules -> 1 .. MaxIterations] :
       \A q, r \in Rules : q.type \in r.required => level[q] < level[r]

VARIABLES
  frame,      \* the series that is analysed
  stage,      \* the engine that runs next
  ctx,        \* AnalysisContext: the results so far, by name
  findings,   \* the derived findings
  diagnoses,  \* what the rules have produced
  iteration   \* iterations of the rule evaluator

vars == <<frame, stage, ctx, findings, diagnoses, iteration>>

Subsystems ==
  [u \in {SubsystemOf[k] : k \in Sensors} |-> {k \in Sensors : SubsystemOf[k] = u}]

Init ==
  /\ frame \in Frames
  /\ stage = "quality"
  /\ ctx = <<>>
  /\ findings = {}
  /\ diagnoses = {}
  /\ iteration = 0

\* One engine: it reads what it requires and adds its result to the context.
Engine(name, needs, results, then) ==
  /\ stage = name
  /\ needs \subseteq DOMAIN ctx
  /\ \E r \in results : ctx' = With(ctx, name, r)
  /\ stage' = then
  /\ UNCHANGED <<frame, findings, diagnoses, iteration>>

\* The functions that give every sensor one of its results.
EachSensor(results(_)) ==
  {f \in [Sensors -> UNION {results(k) : k \in Sensors}] : \A k \in Sensors : f[k] \in results(k)}

Quality ==
  Engine("quality", {},
         {[sensors |-> q, times |-> TimestampIntegrity(frame.at)] :
            q \in EachSensor(LAMBDA k : SensorQuality(frame.col[k], Kind[k]))},
         "statistics")

Statistics ==
  Engine("statistics", {}, {[k \in Sensors |-> SensorStatistics(frame.col[k])]}, "state")

State ==
  Engine("state", {},
         AnalyzeMachine([i \in DOMAIN frame.at |-> [at |-> frame.at[i], v |-> frame.col[Indicator][i]]]),
         "envelope")

Envelope ==
  Engine("envelope", {"statistics"}, {[k \in Sensors |-> SensorEnvelope(frame.col[k])]}, "threshold")

Threshold ==
  Engine("threshold", {"envelope"},
         {[k \in Sensors |-> EvaluateSensor(frame.col[k], Limits[k], ctx.envelope[k])]}, "timeline")

TimelineOf ==
  Engine("timeline", {"state", "threshold"}, {MachineTimeline(ctx.state)}, "reliability")

Reliability ==
  Engine("reliability", {"quality", "statistics"},
         {[k \in Sensors |-> Assess(frame.col[k], ctx.quality.sensors[k])]}, "health")

HealthOf ==
  Engine("health", {"reliability", "threshold"},
         {UnitHealth(ctx.reliability, ctx.threshold, Subsystems)}, "findings")

Assemble ==
  /\ stage = "findings"
  /\ findings' = AssembleFindings(ctx.reliability, ctx.threshold, ctx.health)
  /\ stage' = "rules"
  /\ UNCHANGED <<frame, ctx, diagnoses, iteration>>

Trust == [k \in Sensors |-> ctx.reliability[k].trust]

\* The reliability the rules discount by: AnalysisUseCase.run gives RuleContext none, and
\* the evaluator takes a sensor it does not find there for fully trusted.
RuleTrust == [k \in Sensors |-> Certain]

\* An iteration of the evaluator; it ends when one finds nothing new.
Evaluate ==
  /\ stage = "rules"
  /\ diagnoses' = RulePass(findings, diagnoses, Class, RuleTrust)
  /\ iteration' = iteration + 1
  /\ stage' = IF diagnoses' = diagnoses \/ iteration' = MaxIterations THEN "done" ELSE "rules"
  /\ UNCHANGED <<frame, ctx, findings>>

Next ==
  \/ Quality \/ Statistics \/ State \/ Envelope \/ Threshold
  \/ TimelineOf \/ Reliability \/ HealthOf \/ Assemble \/ Evaluate

Spec == Init /\ [][Next]_vars

-----------------------------------------------------------------------------
(* Properties. *)

\* The first three and the last three are those of Insight.
Stages == {"source", "seeded", "rejected", "quality", "statistics", "state", "envelope", "threshold", "timeline",
           "reliability", "health", "findings", "rules", "done", "forecast", "recorded", "answered"}
Analysed == stage \in {"rules", "done", "forecast", "recorded", "answered"}
Scored(h) == h.score \in 0 .. MaxScore /\ h.confidence \in 0 .. Certain
Conclusive == findings \cup diagnoses

\* Every number stays inside the bounds its result model declares (Field(ge, le)
\* of the models): a run that broke one would end in a ValidationError.
TypeOK ==
  /\ stage \in Stages
  /\ iteration \in 0 .. MaxIterations
  /\ \A f \in Conclusive : f.confidence \in 0 .. Certain
  /\ "reliability" \in DOMAIN ctx =>
       \A k \in Sensors : ctx.reliability[k].score \in 0 .. MaxScore /\ ctx.reliability[k].trust \in 0 .. Certain
  /\ "health" \in DOMAIN ctx =>
       /\ Scored(ctx.health.equipment)
       /\ \A u \in DOMAIN Subsystems : Scored(ctx.health.subsystems[u])
       /\ \A k \in Sensors : Scored(ctx.health.sensors[k])

\* Episodes are what the documentation of build_episodes says: two valid readings
\* are in one episode exactly when no reading between them changes the state and
\* no two neighbours between them are more than the cap apart.
EpisodesAreRuns ==
  ("state" \in DOMAIN ctx /\ ctx.state.segmentable) =>
    LET eps == ctx.state.episodes
        at == [i \in DOMAIN frame.at |-> [at |-> frame.at[i], v |-> frame.col[Indicator][i]]]
        rows == Labelled(ValidReadings(at), ctx.state.cuts)
        Together(i, j) == \E e \in ToSet(eps) : {rows[i].at, rows[j].at} \subseteq e.start .. e.end
    IN  /\ \A i, j \in DOMAIN rows : i < j =>
             (Together(i, j) <=> \A k \in i .. j - 1 : rows[k].state = rows[k + 1].state
                                                  /\ rows[k + 1].at - rows[k].at <= Cap)
        /\ SumOver(DOMAIN eps, LAMBDA e : eps[e].n) = Len(rows)

\* No minute is lost or counted twice on its way through the timeline: episodes,
\* running and idle blocks, days and per-state totals all add up to the same time.
TimeIsConserved ==
  ("timeline" \in DOMAIN ctx /\ ctx.state.segmentable) =>
    LET eps == ctx.state.episodes
        days == (CHOOSE r \in ctx.timeline.runtime : TRUE).days
        segments == ctx.timeline.segments
        sum == ctx.state.summary
    IN  /\ SumOver(DOMAIN segments, LAMBDA i : segments[i].dur) = TotalDwell(eps)
        /\ SumOver(DOMAIN days, LAMBDA d : days[d].covered) = Scale * TotalDwell(eps)
        /\ SumOver({i \in DOMAIN segments : ~segments[i].idle}, LAMBDA i : Scale * segments[i].dur)
             = SumOver(DOMAIN days, LAMBDA d : days[d].running)
        /\ SumOver(DOMAIN sum, LAMBDA s : sum[s].total) = TotalDwell(eps)

\* A reading at a protection setpoint reaches the top whatever the trust in its
\* sensor, and however healthy the rest: the sensor's finding is critical, and so
\* are the health and the finding of its subsystem and of the unit.
ProtectionReachesTheTop ==
  Analysed =>
    \A k \in Sensors :
      LET s == Valid(frame.col[k])
      IN  (Limits[k].operating # {} /\ s # <<>> /\ \E p \in Limits[k].protection : Last(s) >= p.level) =>
            {<<"threshold_critical", "sensor", k>>, <<"health_degraded", "subsystem", SubsystemOf[k]>>,
             <<"health_degraded", "equipment", Unit>>}
              \subseteq {Identity(f) : f \in {g \in findings : g.severity = "critical"}}

\* A sensor outside its limits, or one that has none or no reading and is not trusted.
Cause(col, spec, trust) ==
  LET s == Valid(col)
  IN  \/ spec.operating # {} /\ s # <<>> /\ \E b \in spec.operating : Outside(Last(s), b)
      \/ spec.operating # {} /\ s # <<>> /\ Breached(Last(s), spec) # {}
      \/ (spec.operating = {} \/ s = <<>>) /\ trust < 8000

\* No degraded health without a cause: a sensor of the subsystem that is as bad and
\* outside its limits, or without limits and not trusted.
DegradedHasCause ==
  Analysed =>
    \A f \in findings : f.type = "health_degraded" =>
      \E k \in Sensors :
        /\ f.scope = "subsystem" => SubsystemOf[k] = f.target
        /\ Rank(f.severity) <= Rank(ctx.health.sensors[k].severity)
        /\ Cause(frame.col[k], Limits[k], Trust[k])

\* The score of a level lies between the scores below it: no weighting by trust
\* moves it outside, and no level is without weight.
ScoreBetweenChildren ==
  "health" \in DOMAIN ctx =>
    LET h == ctx.health
        Between(x, S) == \E a, b \in S : a.score - 1 <= x.score /\ x.score <= b.score + 1
    IN  /\ \A u \in DOMAIN Subsystems : Between(h.subsystems[u], {h.sensors[k] : k \in Subsystems[u]})
        /\ Between(h.equipment, {h.subsystems[u] : u \in DOMAIN Subsystems})

\* A diagnosis is never surer than the least trusted sensor it rests on
\* (rules/confidence.py: "reliability_factor (min trust of the sensors involved)").
DiagnosisIsDiscounted ==
  \A d \in diagnoses : \A i \in d.by : i[2] = "sensor" => d.confidence <= Trust[i[3]]

\* Every link of a reasoning chain is a finding, and nothing is diagnosed twice.
ChainsAreGrounded ==
  /\ \A d \in diagnoses : d.by # {} /\ d.by \subseteq {Identity(f) : f \in Conclusive}
  /\ \A d, e \in diagnoses : Identity(d) = Identity(e) => d = e

\* When the evaluator ends, its diagnoses are exactly what the rules conclude
\* from all findings: none is missing and none rests on what no longer holds.
RulesAreComplete ==
  stage = "done" =>
    /\ {Identity(d) : d \in diagnoses} = {Identity(d) : d \in Conclusions(Conclusive, Class, RuleTrust)}
    /\ ChainsAreGrounded
=============================================================================
