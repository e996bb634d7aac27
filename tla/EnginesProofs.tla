--------------------------- MODULE EnginesProofs ---------------------------
(* Proofs about the health engine, the findings assembler, the rule evaluator and
   the way of the readings, for any sensors, subsystems, limits, rules and files. *)
EXTENDS Insight, FiniteSetTheorems, WellFoundedInduction, TLAPS

-----------------------------------------------------------------------------
(* Health. *)

SeveritySet == {"ok", "info", "warning", "critical"}
ThresholdStates == {"within_range", "outside_operating", "critical", "trip", "unknown"}

LEMMA CriticalIsWorst ==
  ASSUME NEW S \in SUBSET SeveritySet, "critical" \in S
  PROVE  Worst(S) = "critical"
<1>1. \A x \in SeveritySet : Rank(x) <= 3 /\ (Rank(x) = 3 <=> x = "critical") /\ Rank(x) \in Nat
  BY DEF Rank, SeveritySet
<1>2. Worst(S) = CHOOSE x \in S : \A y \in S : Rank(y) <= Rank(x)
  BY DEF Worst
<1>3. \E x \in S : \A y \in S : Rank(y) <= Rank(x)
  BY <1>1
<1>4. Worst(S) \in S /\ \A y \in S : Rank(y) <= Rank(Worst(S))
  BY <1>2, <1>3
<1>. QED BY <1>1, <1>4

LEMMA WorstIsAttained ==
  ASSUME NEW S \in SUBSET SeveritySet, S # {}
  PROVE  Worst(S) \in S
<1>1. \A x \in SeveritySet : Rank(x) \in 0 .. 3
  BY DEF Rank, SeveritySet
<1>2. \E x \in S : \A y \in S : Rank(y) <= Rank(x)
  <2>1. CASE \E x \in S : Rank(x) = 3
    BY <1>1, <2>1
  <2>2. CASE (\A x \in S : Rank(x) # 3) /\ \E x \in S : Rank(x) = 2
    BY <1>1, <2>2
  <2>3. CASE (\A x \in S : Rank(x) \notin {2, 3}) /\ \E x \in S : Rank(x) = 1
    BY <1>1, <2>3
  <2>4. CASE \A x \in S : Rank(x) \notin {1, 2, 3}
    BY <1>1, <2>4
  <2>. QED BY <2>1, <2>2, <2>3, <2>4
<1>3. Worst(S) = CHOOSE x \in S : \A y \in S : Rank(y) <= Rank(x)
  BY DEF Worst
<1>. QED BY <1>2, <1>3

LEMMA WorstIsSeverity ==
  ASSUME NEW S \in SUBSET SeveritySet
  PROVE  Worst(S) \in SeveritySet
<1>1. CASE S = {}
  BY <1>1 DEF Worst, SeveritySet
<1>2. CASE S # {}
  BY <1>2, WorstIsAttained
<1>. QED BY <1>1, <1>2

LEMMA RollupSeverity ==
  ASSUME NEW child, DOMAIN child # {}
  PROVE  HealthRollup(child).severity = Worst({child[k].severity : k \in DOMAIN child})
BY DEF HealthRollup

LEMMA EmptyRollup ==
  ASSUME NEW child, DOMAIN child = {}
  PROVE  HealthRollup(child).severity = "ok"
BY DEF HealthRollup

LEMMA SensorSeverity ==
  ASSUME NEW r, NEW t, t.state \in ThresholdStates
  PROVE  /\ SensorHealth(r, t).severity \in SeveritySet
         /\ (t.status = "available" /\ t.state \in {"critical", "trip"})
              => SensorHealth(r, t).severity = "critical"
<1>1. SeverityOfState(t.state) \in SeveritySet
  BY DEF SeverityOfState, ThresholdStates, SeveritySet
<1>2. t.state \in {"critical", "trip"} => SeverityOfState(t.state) = "critical" /\ t.state \in DOMAIN StateHealth
  BY DEF SeverityOfState, StateHealth
<1>3. SeverityFromScore(RoundDiv(r.trust, 10)) \in SeveritySet
  BY DEF SeverityFromScore, SeveritySet
<1>. QED BY <1>1, <1>2, <1>3 DEF SensorHealth

Results(rel, thr) == \A k \in DOMAIN rel : thr[k].state \in ThresholdStates

LEMMA CriticalSensor ==
  ASSUME NEW rel, NEW thr, NEW sub, Results(rel, thr),
         NEW u \in DOMAIN sub, NEW k \in DOMAIN rel, k \in sub[u],
         thr[k].status = "available", thr[k].state \in {"critical", "trip"}
  PROVE  /\ UnitHealth(rel, thr, sub).subsystems[u].severity = "critical"
         /\ UnitHealth(rel, thr, sub).equipment.severity = "critical"
<1> DEFINE sensors == [j \in DOMAIN rel |-> SensorHealth(rel[j], thr[j])]
           subsystems == [v \in DOMAIN sub |-> HealthRollup(Restrict(sensors, sub[v] \cap DOMAIN rel))]
<1>1. UnitHealth(rel, thr, sub) =
        [sensors |-> sensors, subsystems |-> subsystems, equipment |-> HealthRollup(subsystems)]
  BY DEF UnitHealth
<1>2. \A j \in DOMAIN rel : sensors[j].severity \in SeveritySet
  BY SensorSeverity DEF Results
<1>3. sensors[k].severity = "critical"
  BY SensorSeverity DEF Results
<1>4. DOMAIN sensors = DOMAIN rel /\ DOMAIN subsystems = DOMAIN sub
  OBVIOUS
<1>. HIDE DEF sensors
<1>5. ASSUME NEW v \in DOMAIN sub
      PROVE  /\ subsystems[v].severity \in SeveritySet
             /\ v = u => subsystems[v].severity = "critical"
  <2> DEFINE child == Restrict(sensors, sub[v] \cap DOMAIN rel)
  <2>1. DOMAIN child = sub[v] \cap DOMAIN rel /\ \A j \in DOMAIN child : child[j] = sensors[j]
    BY DEF Restrict
  <2>2. subsystems[v] = HealthRollup(child)
    OBVIOUS
  <2>. HIDE DEF child, subsystems
  <2>3. {child[j].severity : j \in DOMAIN child} \in SUBSET SeveritySet
    BY <1>2, <2>1
  <2>4. CASE DOMAIN child = {}
    <3>1. v # u
      BY <2>1, <2>4
    <3>. QED BY <2>2, <2>4, <3>1, EmptyRollup DEF SeveritySet
  <2>5. CASE DOMAIN child # {}
    <3>1. subsystems[v].severity = Worst({child[j].severity : j \in DOMAIN child})
      BY <2>2, <2>5, RollupSeverity
    <3>2. v = u => "critical" \in {child[j].severity : j \in DOMAIN child}
      BY <1>3, <2>1
    <3>. QED BY <2>3, <3>1, <3>2, WorstIsSeverity, CriticalIsWorst
  <2>. QED BY <2>4, <2>5
<1>. HIDE DEF subsystems
<1>6. HealthRollup(subsystems).severity = "critical"
  <2>1. HealthRollup(subsystems).severity = Worst({subsystems[v].severity : v \in DOMAIN subsystems})
    BY <1>4, RollupSeverity
  <2>2. /\ {subsystems[v].severity : v \in DOMAIN subsystems} \in SUBSET SeveritySet
        /\ "critical" \in {subsystems[v].severity : v \in DOMAIN subsystems}
    BY <1>4, <1>5
  <2>. QED BY <2>1, <2>2, CriticalIsWorst
<1>. QED BY <1>1, <1>5, <1>6

(* A sensor at its protection setpoint makes its subsystem and its unit critical,
   and each of the three gets a critical finding, whatever the trust in the
   sensor and however many healthy ones are averaged with it. *)
THEOREM CriticalReachesTheTop ==
  ASSUME NEW rel, NEW thr, NEW sub, Results(rel, thr),
         NEW u \in DOMAIN sub, NEW k \in DOMAIN rel, k \in sub[u],
         thr[k].status = "available", thr[k].state \in {"critical", "trip"}
  PROVE  {<<"threshold_critical", "sensor", k>>, <<"health_degraded", "subsystem", u>>,
          <<"health_degraded", "equipment", Unit>>}
           \subseteq {Identity(f) : f \in {g \in AssembleFindings(rel, thr, UnitHealth(rel, thr, sub)) :
                                            g.severity = "critical"}}
<1> DEFINE h == UnitHealth(rel, thr, sub)
           A == AssembleFindings(rel, thr, h)
           fs == Derived("threshold_critical", "threshold", "sensor", k, "critical", thr[k].confidence)
           fu == Derived("health_degraded", "health", "subsystem", u, "critical", h.subsystems[u].confidence)
           fe == Derived("health_degraded", "health", "equipment", Unit, "critical", h.equipment.confidence)
<1>1. h.subsystems[u].severity = "critical" /\ h.equipment.severity = "critical"
  BY CriticalSensor
<1>2. u \in DOMAIN h.subsystems
  BY DEF UnitHealth
<1>. HIDE DEF h
<1>3. fs \in ThresholdFindings(k, thr[k])
  BY DEF ThresholdFindings
<1>4. fu \in HealthFinding("subsystem", u, h.subsystems[u]) /\ fe \in HealthFinding("equipment", Unit, h.equipment)
  BY <1>1 DEF HealthFinding
<1>5. fs \in A /\ fu \in A /\ fe \in A
  <2> DEFINE own == {ThresholdFindings(j, thr[j]) \cup ReliabilityFindings(j, rel[j]) : j \in DOMAIN rel}
             subs == {HealthFinding("subsystem", v, h.subsystems[v]) : v \in DOMAIN h.subsystems}
  <2>1. A = HealthFinding("equipment", Unit, h.equipment) \cup (UNION own) \cup (UNION subs)
    BY Zenon DEF AssembleFindings
  <2>2. ThresholdFindings(k, thr[k]) \cup ReliabilityFindings(k, rel[k]) \in own
    OBVIOUS
  <2>3. HealthFinding("subsystem", u, h.subsystems[u]) \in subs
    BY <1>2
  <2>. HIDE DEF A, fs, fu, fe, own, subs
  <2>. QED BY <1>3, <1>4, <2>1, <2>2, <2>3
<1>6. /\ Identity(fs) = <<"threshold_critical", "sensor", k>> /\ fs.severity = "critical"
      /\ Identity(fu) = <<"health_degraded", "subsystem", u>> /\ fu.severity = "critical"
      /\ Identity(fe) = <<"health_degraded", "equipment", Unit>> /\ fe.severity = "critical"
  BY DEF Identity, Derived
<1>. HIDE DEF A, fs, fu, fe
<1>7. \A f \in {fs, fu, fe} :
        Identity(f) \in {Identity(x) : x \in {g \in A : g.severity = "critical"}}
  BY <1>5, <1>6
<1>. QED BY <1>6, <1>7 DEF A, h

-----------------------------------------------------------------------------
(* The rules. *)

LEMMA TriggersAreFindings ==
  ASSUME NEW r \in Rules, NEW current, NEW t \in Targets(r, current)
  PROVE  Triggers(r, t, current) # {} /\ Triggers(r, t, current) \subseteq current
<1>1. r.required # {} /\ r.required \subseteq TypesOf(Located(r, t, current))
  BY FindingsAssumption DEF Targets
<1>2. PICK f \in Located(r, t, current) : f.type \in r.required
  BY <1>1 DEF TypesOf
<1>3. f \in Triggers(r, t, current)
  BY <1>2 DEF Triggers
<1>. QED BY <1>3 DEF Triggers, Located

LEMMA ConclusionsAreGrounded ==
  ASSUME NEW current, NEW trust, NEW d \in Conclusions(current, Class, trust)
  PROVE  d.by # {} /\ d.by \subseteq {Identity(f) : f \in current}
<1>0. PICK r \in Rules : \E t \in Targets(r, current) : d = Diagnose(r, t, current, trust)
  BY DEF Conclusions
<1>1. PICK t \in Targets(r, current) : d = Diagnose(r, t, current, trust)
  BY <1>0
<1>2. d.by = {Identity(f) : f \in Triggers(r, t, current)}
  BY <1>1 DEF Diagnose
<1>. QED BY <1>1, <1>2, TriggersAreFindings

(* Of two rules that reach the same conclusion only the earlier one does. *)
LEMMA ConclusionsAreUnique ==
  ASSUME NEW current, NEW trust,
         NEW d \in Conclusions(current, Class, trust), NEW e \in Conclusions(current, Class, trust),
         Identity(d) = Identity(e)
  PROVE  d = e
<1> DEFINE fires == {r \in Rules : Applies(r, Class) /\ ~Blocked(r, current)}
           First(r, t) == \A q \in fires \ {r} :
             (q.type = r.type /\ q.scope = r.scope /\ t \in Targets(q, current)) => Before(r, q)
<1>1. \A c \in Conclusions(current, Class, trust) :
        \E r \in fires : \E t \in Targets(r, current) : First(r, t) /\ c = Diagnose(r, t, current, trust)
  BY DEF Conclusions
<1>2. PICK r \in fires : \E t \in Targets(r, current) : First(r, t) /\ d = Diagnose(r, t, current, trust)
  BY <1>1
<1>3. PICK t \in Targets(r, current) : First(r, t) /\ d = Diagnose(r, t, current, trust)
  BY <1>2
<1>4. PICK q \in fires : \E x \in Targets(q, current) : First(q, x) /\ e = Diagnose(q, x, current, trust)
  BY <1>1
<1>5. PICK x \in Targets(q, current) : First(q, x) /\ e = Diagnose(q, x, current, trust)
  BY <1>4
<1>6. r.type = q.type /\ r.scope = q.scope /\ t = x
  BY <1>3, <1>5 DEF Identity, Diagnose
<1>7. r = q
  <2>1. SUFFICES ASSUME r # q PROVE FALSE
    OBVIOUS
  <2>2. Before(r, q) /\ Before(q, r)
    BY <1>3, <1>5, <1>6, <2>1
  <2>. QED BY <2>2, FindingsAssumption DEF Before
<1>. QED BY <1>3, <1>5, <1>6, <1>7

Grounded(base, produced) ==
  /\ \A d \in produced : d.by # {} /\ d.by \subseteq {Identity(f) : f \in base \cup produced}
  /\ \A d, e \in produced : Identity(d) = Identity(e) => d = e

LEMMA PassKeepsGrounded ==
  ASSUME NEW base, NEW produced, NEW trust, Grounded(base, produced)
  PROVE  Grounded(base, RulePass(base, produced, Class, trust))
<1> DEFINE C == Conclusions(base \cup produced, Class, trust)
           after == RulePass(base, produced, Class, trust)
<1>1. after = produced \cup {f \in C : \A g \in produced : Identity(g) # Identity(f)}
  BY DEF RulePass
<1>2. \A d \in C : d.by # {} /\ d.by \subseteq {Identity(f) : f \in base \cup produced}
  BY ConclusionsAreGrounded
<1>3. \A d, e \in C : Identity(d) = Identity(e) => d = e
  BY ConclusionsAreUnique
<1>. HIDE DEF C, after
<1>4. {Identity(f) : f \in base \cup produced} \subseteq {Identity(f) : f \in base \cup after}
  BY <1>1
<1>5. \A d \in after : d.by # {} /\ d.by \subseteq {Identity(f) : f \in base \cup after}
  BY <1>1, <1>2, <1>4 DEF Grounded
<1>6. \A d, e \in after : Identity(d) = Identity(e) => d = e
  BY <1>1, <1>3 DEF Grounded
<1>. QED BY <1>5, <1>6 DEF Grounded, after

(* Nothing is diagnosed before the rules run. *)
Undiagnosed == stage \notin {"rules", "done"} => diagnoses = {}

(* A reasoning chain can be followed down to derived findings, and no condition is
   diagnosed twice, after every iteration and for any set of rules. *)
THEOREM ReasoningIsGrounded == Spec => []ChainsAreGrounded
<1> DEFINE Inv == Undiagnosed /\ ChainsAreGrounded
<1>1. Init => Inv
  BY DEF Init, Undiagnosed, ChainsAreGrounded
<1>2. Inv /\ [Next]_vars => Inv'
  <2>1. SUFFICES ASSUME Inv, [Next]_vars PROVE Inv'
    OBVIOUS
  <2>2. CASE UNCHANGED vars
    BY <2>1, <2>2 DEF vars, Undiagnosed, ChainsAreGrounded, Conclusive
  <2>3. CASE /\ stage \notin {"rules", "done"} /\ stage' \in Stages \ {"rules", "done"}
             /\ UNCHANGED <<findings, diagnoses>>
    BY <2>1, <2>3 DEF Undiagnosed, ChainsAreGrounded, Conclusive
  <2>4. CASE Quality \/ Statistics \/ State \/ Envelope \/ Threshold \/ TimelineOf \/ Reliability \/ HealthOf
    BY <2>3, <2>4 DEF Quality, Statistics, State, Envelope, Threshold, TimelineOf, Reliability, HealthOf,
                      Engine, Stages
  <2>5. CASE Assemble
    BY <2>1, <2>5 DEF Assemble, Undiagnosed, ChainsAreGrounded, Conclusive
  <2>6. CASE Evaluate
    <3>1. /\ diagnoses' = RulePass(findings, diagnoses, Class, RuleTrust)
          /\ findings' = findings /\ stage' \in {"rules", "done"}
      BY <2>6 DEF Evaluate
    <3>2. Grounded(findings, diagnoses)
      BY <2>1 DEF ChainsAreGrounded, Conclusive, Grounded
    <3>3. Grounded(findings, diagnoses')
      BY <3>1, <3>2, PassKeepsGrounded
    <3>. QED BY <3>1, <3>3 DEF Grounded, Undiagnosed, ChainsAreGrounded, Conclusive
  <2>. QED BY <2>1, <2>2, <2>4, <2>5, <2>6 DEF Next
<1>. QED BY <1>1, <1>2, PTL DEF Spec

-----------------------------------------------------------------------------
(* What is told. *)

LEMMA LeastExists ==
  ASSUME NEW S \in SUBSET Nat, S # {}
  PROVE  \E x \in S : \A y \in S : x <= y
<1>1. \E x \in S : \A y \in S : ~ (<<y, x>> \in OpToRel(<, Nat))
  BY NatLessThanWellFounded, WFMin
<1>2. PICK x \in S : \A y \in S : ~ (<<y, x>> \in OpToRel(<, Nat))
  BY <1>1
<1>3. \A y \in S : ~ (y < x)
  BY <1>2 DEF OpToRel
<1>. QED BY <1>3

-----------------------------------------------------------------------------
(* What the context holds at each stage of a run: the results of the threshold,
   the reliability and the health engine, and the findings assembled from them. *)

Told == {"done", "forecast", "recorded", "answered"}
PastAssembly == {"rules"} \cup Told
PastHealth == {"findings"} \cup PastAssembly
PastReliability == {"health"} \cup PastHealth
PastThreshold == {"timeline", "reliability"} \cup PastReliability

\* The threshold engine's verdict t on a sensor whose column is col.
Judged(t, col, spec) ==
  /\ t.status = "available" <=> spec.operating # {}
  /\ t.state = IF spec.operating = {} \/ Valid(col) = <<>> THEN "unknown" ELSE StateOf(Last(Valid(col)), spec)

ThresholdInv ==
  stage \in PastThreshold =>
    "threshold" \in DOMAIN ctx /\ \A k \in Sensors : Judged(ctx.threshold[k], frame.col[k], Limits[k])
ReliabilityInv ==
  stage \in PastReliability => "reliability" \in DOMAIN ctx /\ DOMAIN ctx.reliability = Sensors
HealthInv ==
  stage \in PastHealth =>
    "health" \in DOMAIN ctx /\ ctx.health = UnitHealth(ctx.reliability, ctx.threshold, Subsystems)
AssemblyInv ==
  stage \in PastAssembly => findings = AssembleFindings(ctx.reliability, ctx.threshold, ctx.health)
ContextInv == ThresholdInv /\ ReliabilityInv /\ HealthInv /\ AssemblyInv

LEMMA EvaluationJudges ==
  ASSUME NEW col, NEW spec, NEW envelope
  PROVE  Judged(EvaluateSensor(col, spec, envelope), col, spec)
<1>1. CASE spec.operating = {}
  <2>1. Status(spec) # "available"
    BY <1>1 DEF Status
  <2>2. EvaluateSensor(col, spec, envelope) = Unthresholded(spec)
    BY <2>1 DEF EvaluateSensor
  <2>. QED BY <1>1, <2>1, <2>2 DEF Judged, Unthresholded
<1>2. CASE spec.operating # {}
  <2>1. Status(spec) = "available"
    BY <1>2 DEF Status
  <2>2. EvaluateSensor(col, spec, envelope) = Thresholded(col, spec, envelope)
    BY <2>1 DEF EvaluateSensor
  <2>3. Thresholded(col, spec, envelope).status = "available"
    BY DEF Thresholded
  <2>4. Thresholded(col, spec, envelope).state = CurrentState(Valid(col), spec)
    BY DEF Thresholded
  <2>. QED BY <1>2, <2>2, <2>3, <2>4 DEF Judged, CurrentState
<1>. QED BY <1>1, <1>2

LEMMA StatesAreKnown ==
  ASSUME NEW v, NEW spec
  PROVE  StateOf(v, spec) \in ThresholdStates \ {"unknown"}
BY DEF StateOf, ThresholdStates

LEMMA ContextFollowsStages == InsightSpec => []ContextInv
<1>1. InsightInit => ContextInv
  BY DEF InsightInit, ContextInv, ThresholdInv, ReliabilityInv, HealthInv, AssemblyInv,
         Told, PastAssembly, PastHealth, PastReliability, PastThreshold
<1>2. ContextInv /\ [InsightNext]_insightVars => ContextInv'
  <2>1. SUFFICES ASSUME ContextInv, [InsightNext]_insightVars PROVE ContextInv'
    OBVIOUS
  <2>. USE DEF Told, PastAssembly, PastHealth, PastReliability, PastThreshold
  <2>2. CASE UNCHANGED insightVars
    BY <2>1, <2>2 DEF insightVars, vars, ContextInv, ThresholdInv, ReliabilityInv, HealthInv, AssemblyInv
  <2>3. CASE stage' \notin PastThreshold
    BY <2>3 DEF ContextInv, ThresholdInv, ReliabilityInv, HealthInv, AssemblyInv
  <2>4. CASE Seed \/ SeedFails \/ Post \/ Load
    <3>1. stage' \notin PastThreshold
      BY <2>4 DEF Seed, SeedFails, Post, Load
    <3>. QED BY <2>3, <3>1
  <2>5. CASE Quality \/ Statistics \/ State \/ Envelope
    <3>1. stage' \notin PastThreshold
      BY <2>5 DEF Quality, Statistics, State, Envelope, Engine
    <3>. QED BY <2>3, <3>1
  <2>6. CASE Threshold
    <3> DEFINE t == [k \in Sensors |-> EvaluateSensor(frame.col[k], Limits[k], ctx.envelope[k])]
    <3>1. ctx' = With(ctx, "threshold", t) /\ frame' = frame /\ stage' = "timeline"
      BY <2>6 DEF Threshold, Engine
    <3>2. \A k \in Sensors : Judged(t[k], frame.col[k], Limits[k])
      BY EvaluationJudges
    <3>. HIDE DEF t
    <3>3. ctx'.threshold = t /\ "threshold" \in DOMAIN ctx'
      BY <3>1 DEF With
    <3>. QED BY <3>1, <3>2, <3>3 DEF ContextInv, ThresholdInv, ReliabilityInv, HealthInv, AssemblyInv
  <2>7. CASE TimelineOf
    <3>1. PICK r : ctx' = With(ctx, "timeline", r)
      BY <2>7 DEF TimelineOf, Engine
    <3>2. frame' = frame /\ stage = "timeline" /\ stage' = "reliability"
      BY <2>7 DEF TimelineOf, Engine
    <3>3. "threshold" \in DOMAIN ctx
      BY <2>1, <3>2 DEF ContextInv, ThresholdInv
    <3>4. "threshold" \in DOMAIN ctx' /\ ctx'.threshold = ctx.threshold
      BY <3>1, <3>3 DEF With
    <3>. QED BY <2>1, <3>2, <3>4 DEF ContextInv, ThresholdInv, ReliabilityInv, HealthInv, AssemblyInv
  <2>8. CASE Reliability
    <3> DEFINE r == [k \in Sensors |-> Assess(frame.col[k], ctx.quality.sensors[k])]
    <3>1. ctx' = With(ctx, "reliability", r) /\ frame' = frame /\ stage = "reliability" /\ stage' = "health"
      BY <2>8 DEF Reliability, Engine
    <3>2. DOMAIN r = Sensors
      OBVIOUS
    <3>. HIDE DEF r
    <3>3. "threshold" \in DOMAIN ctx
      BY <2>1, <3>1 DEF ContextInv, ThresholdInv
    <3>4. "threshold" \in DOMAIN ctx' /\ ctx'.threshold = ctx.threshold
      BY <3>1, <3>3 DEF With
    <3>5. "reliability" \in DOMAIN ctx' /\ ctx'.reliability = r
      BY <3>1 DEF With
    <3>. QED BY <2>1, <3>1, <3>2, <3>4, <3>5 DEF ContextInv, ThresholdInv, ReliabilityInv, HealthInv, AssemblyInv
  <2>9. CASE HealthOf
    <3> DEFINE h == UnitHealth(ctx.reliability, ctx.threshold, Subsystems)
    <3>1. ctx' = With(ctx, "health", h) /\ frame' = frame /\ stage = "health" /\ stage' = "findings"
      BY <2>9 DEF HealthOf, Engine
    <3>2. {"threshold", "reliability"} \subseteq DOMAIN ctx
      BY <2>1, <3>1 DEF ContextInv, ThresholdInv, ReliabilityInv
    <3>. HIDE DEF h
    <3>3. "threshold" \in DOMAIN ctx' /\ ctx'.threshold = ctx.threshold
      BY <3>1, <3>2 DEF With
    <3>4. "reliability" \in DOMAIN ctx' /\ ctx'.reliability = ctx.reliability
      BY <3>1, <3>2 DEF With
    <3>5. "health" \in DOMAIN ctx' /\ ctx'.health = h
      BY <3>1 DEF With
    <3>6. ThresholdInv' /\ ReliabilityInv'
      BY <2>1, <3>1, <3>3, <3>4 DEF ContextInv, ThresholdInv, ReliabilityInv
    <3>7. HealthInv'
      BY <3>3, <3>4, <3>5 DEF HealthInv, h
    <3>8. AssemblyInv'
      BY <3>1 DEF AssemblyInv
    <3>. QED BY <3>6, <3>7, <3>8 DEF ContextInv
  <2>10. CASE Assemble
    BY <2>1, <2>10 DEF Assemble, ContextInv, ThresholdInv, ReliabilityInv, HealthInv, AssemblyInv
  <2>11. CASE stage \in PastAssembly /\ UNCHANGED <<frame, ctx, findings>>
    BY <2>1, <2>11 DEF ContextInv, ThresholdInv, ReliabilityInv, HealthInv, AssemblyInv
  <2>12. CASE Evaluate
    BY <2>11, <2>12 DEF Evaluate
  <2>13. CASE SkipLearning \/ LearnPatterns \/ LearnForecasts
    BY <2>11, <2>13 DEF SkipLearning, LearnPatterns, LearnForecasts, runVars
  <2>14. CASE ShowOutlook \/ Ask \/ ShowTelemetry
    BY <2>11, <2>14 DEF ShowOutlook, Ask, ShowTelemetry, runVars
  <2>. QED BY <2>1, <2>2, <2>4, <2>5, <2>6, <2>7, <2>8, <2>9, <2>10, <2>12, <2>13, <2>14
         DEF InsightNext, PipelineStep, Next
<1>. QED BY <1>1, <1>2, PTL DEF InsightSpec

(* A sensor at its protection setpoint reaches the top of the unit's findings in every
   analysis of a frame: for any frames, sensors, subsystems, limits and trust. *)
THEOREM ProtectionIsNeverAveragedOut == InsightSpec => []ProtectionReachesTheTop
<1>1. ContextInv => ProtectionReachesTheTop
  <2>1. SUFFICES ASSUME ContextInv, Analysed, NEW k \in Sensors, Limits[k].operating # {},
                        Valid(frame.col[k]) # <<>>,
                        \E p \in Limits[k].protection : Last(Valid(frame.col[k])) >= p.level
                 PROVE  {<<"threshold_critical", "sensor", k>>, <<"health_degraded", "subsystem", SubsystemOf[k]>>,
                         <<"health_degraded", "equipment", Unit>>}
                           \subseteq {Identity(f) : f \in {g \in findings : g.severity = "critical"}}
    BY DEF ProtectionReachesTheTop
  <2> DEFINE t == ctx.threshold
             v == Last(Valid(frame.col[k]))
  <2>2. stage \in PastAssembly
    BY <2>1 DEF Analysed, PastAssembly, Told
  <2>3. \A j \in Sensors : Judged(t[j], frame.col[j], Limits[j])
    BY <2>1, <2>2 DEF ContextInv, ThresholdInv, PastThreshold, PastReliability, PastHealth
  <2>4. DOMAIN ctx.reliability = Sensors
    BY <2>1, <2>2 DEF ContextInv, ReliabilityInv, PastReliability, PastHealth
  <2>5. findings = AssembleFindings(ctx.reliability, t, UnitHealth(ctx.reliability, t, Subsystems))
    BY <2>1, <2>2 DEF ContextInv, HealthInv, AssemblyInv, PastHealth
  <2>6. Results(ctx.reliability, t)
    BY <2>3, <2>4, StatesAreKnown DEF Results, Judged, ThresholdStates
  <2>7. t[k].status = "available" /\ t[k].state = StateOf(v, Limits[k])
    BY <2>1, <2>3 DEF Judged
  <2>8. Breached(v, Limits[k]) # {}
    BY <2>1 DEF Breached
  <2>9. StateOf(v, Limits[k]) \in {"critical", "trip"}
    BY <2>8 DEF StateOf
  <2>10. SubsystemOf[k] \in DOMAIN Subsystems /\ k \in Subsystems[SubsystemOf[k]]
    BY DEF Subsystems
  <2>. QED BY <2>4, <2>5, <2>6, <2>7, <2>9, <2>10, CriticalReachesTheTop
<1>. QED BY <1>1, ContextFollowsStages, PTL

-----------------------------------------------------------------------------
(* No diagnoses rest only on one another. *)

Acyclic(base, produced) ==
  \A D \in (SUBSET produced) \ {{}} :
    \E d \in D : \E g \in (base \cup produced) \ D : Identity(g) \in d.by

\* The findings are the assembler's, the diagnoses the rules', neither is a forecast, and the
\* diagnoses can be followed downwards; there is none before the assembly.
ChainInv ==
  /\ \A f \in findings : f.origin = "derived"
  /\ \A d \in diagnoses : d.origin = "diagnosed"
  /\ \A f \in findings \cup diagnoses : f.type # "forecast_threshold_approach"
  /\ Grounded(findings, diagnoses) /\ Acyclic(findings, diagnoses)
  /\ stage \notin PastAssembly => diagnoses = {}

LEMMA AssemblyDerives ==
  ASSUME NEW rel, NEW thr, NEW h, NEW f \in AssembleFindings(rel, thr, h)
  PROVE  f.origin = "derived" /\ f.type \notin {"forecast_threshold_approach", "novelty_elevated"}
<1>1. \A scope, k, x : \A g \in HealthFinding(scope, k, x) : g.origin = "derived" /\ g.type = "health_degraded"
  BY DEF HealthFinding, Derived
<1>2. \A k, t : \A g \in ThresholdFindings(k, t) :
        g.origin = "derived" /\ g.type \in {"threshold_misspecified", "threshold_critical"}
  BY DEF ThresholdFindings, Derived
<1>3. \A k, r : \A g \in ReliabilityFindings(k, r) :
        /\ g.origin = "derived"
        /\ g.type \in {"reliability_drift", "reliability_flatline", "sensor_untrustworthy"}
  BY DEF ReliabilityFindings, Derived
<1>. QED BY <1>1, <1>2, <1>3 DEF AssembleFindings

LEMMA ConclusionsAreDiagnosed ==
  ASSUME NEW current, NEW trust, NEW d \in Conclusions(current, Class, trust)
  PROVE  d.origin = "diagnosed" /\ d.type # "forecast_threshold_approach"
<1>1. \E r \in Rules : \E t \in Targets(r, current) : d = Diagnose(r, t, current, trust)
  BY DEF Conclusions
<1>. QED BY <1>1, InsightAssumption DEF Diagnose

LEMMA PassKeepsAcyclic ==
  ASSUME NEW base, NEW produced, NEW trust, Acyclic(base, produced),
         \A f \in base : f.origin = "derived", \A d \in produced : d.origin = "diagnosed"
  PROVE  Acyclic(base, RulePass(base, produced, Class, trust))
<1> DEFINE C == Conclusions(base \cup produced, Class, trust)
           new == {f \in C : \A g \in produced : Identity(g) # Identity(f)}
           after == RulePass(base, produced, Class, trust)
<1>1. after = produced \cup new
  BY DEF RulePass
<1>2. \A d \in new : d.origin = "diagnosed" /\ d.by # {} /\ d.by \subseteq {Identity(f) : f \in base \cup produced}
  BY ConclusionsAreGrounded, ConclusionsAreDiagnosed
<1>3. new \cap produced = {} /\ new \cap base = {} /\ produced \cap base = {}
  BY <1>2
<1>. HIDE DEF C, new, after
<1>4. ASSUME NEW D \in (SUBSET after) \ {{}}
      PROVE  \E d \in D : \E g \in (base \cup after) \ D : Identity(g) \in d.by
  <2>1. CASE D \cap produced = {}
    <3>0. D # {} /\ D \subseteq after
      BY <1>4
    <3>1. PICK d \in D : d \in new
      BY <1>1, <2>1, <3>0
    <3>2. PICK g \in base \cup produced : Identity(g) \in d.by
      BY <1>2, <3>1
    <3>3. g \notin D
      BY <1>1, <1>3, <1>4, <2>1, <3>2
    <3>. QED BY <1>1, <3>1, <3>2, <3>3
  <2>2. CASE D \cap produced # {}
    <3>1. D \cap produced \in (SUBSET produced) \ {{}}
      BY <2>2
    <3>2. PICK d \in D \cap produced : \E g \in (base \cup produced) \ (D \cap produced) : Identity(g) \in d.by
      BY <3>1 DEF Acyclic
    <3>3. PICK g \in (base \cup produced) \ (D \cap produced) : Identity(g) \in d.by
      BY <3>2
    <3>4. g \notin D
      BY <1>1, <1>3, <1>4, <3>3
    <3>. QED BY <1>1, <3>2, <3>3, <3>4
  <2>. QED BY <2>1, <2>2
<1>. QED BY <1>4 DEF Acyclic, after

LEMMA NothingIsAcyclic ==
  ASSUME NEW base
  PROVE  Acyclic(base, {})
<1>1. \A D \in SUBSET {} : D = {}
  OBVIOUS
<1>. QED BY <1>1 DEF Acyclic

LEMMA ChainsFollowRules == InsightSpec => []ChainInv
<1>1. InsightInit => ChainInv
  BY NothingIsAcyclic DEF InsightInit, ChainInv, Grounded
<1>2. ChainInv /\ [InsightNext]_insightVars => ChainInv'
  <2>1. SUFFICES ASSUME ChainInv, [InsightNext]_insightVars PROVE ChainInv'
    OBVIOUS
  <2>2. CASE UNCHANGED <<findings, diagnoses>> /\ (stage \in PastAssembly => stage' \in PastAssembly)
    BY <2>1, <2>2 DEF ChainInv, Grounded, Acyclic
  <2>3. CASE UNCHANGED insightVars
    BY <2>2, <2>3 DEF insightVars, vars
  <2>. USE DEF PastAssembly, Told
  <2>4. CASE Seed \/ SeedFails \/ Post \/ Load
    BY <2>2, <2>4 DEF Seed, SeedFails, Post, Load, runVars
  <2>5. CASE Quality \/ Statistics \/ State \/ Envelope \/ Threshold \/ TimelineOf \/ Reliability \/ HealthOf
    BY <2>2, <2>5 DEF Quality, Statistics, State, Envelope, Threshold, TimelineOf, Reliability, HealthOf, Engine
  <2>6. CASE Assemble
    <3>1. /\ findings' = AssembleFindings(ctx.reliability, ctx.threshold, ctx.health)
          /\ diagnoses' = diagnoses /\ stage = "findings" /\ stage' = "rules"
      BY <2>6 DEF Assemble
    <3>2. diagnoses' = {}
      BY <2>1, <3>1 DEF ChainInv
    <3>3. \A f \in findings' : f.origin = "derived" /\ f.type # "forecast_threshold_approach"
      BY <3>1, AssemblyDerives
    <3>. QED BY <3>1, <3>2, <3>3, NothingIsAcyclic DEF ChainInv, Grounded
  <2>7. CASE Evaluate
    <3>1. /\ diagnoses' = RulePass(findings, diagnoses, Class, RuleTrust)
          /\ findings' = findings /\ stage \in PastAssembly /\ stage' \in PastAssembly
      BY <2>7 DEF Evaluate
    <3>2. Grounded(findings, diagnoses') /\ Acyclic(findings, diagnoses')
      BY <2>1, <3>1, PassKeepsGrounded, PassKeepsAcyclic DEF ChainInv
    <3>3. \A d \in diagnoses' : d.origin = "diagnosed" /\ d.type # "forecast_threshold_approach"
      BY <2>1, <3>1, ConclusionsAreDiagnosed DEF ChainInv, RulePass
    <3>. QED BY <2>1, <3>1, <3>2, <3>3 DEF ChainInv
  <2>8. CASE SkipLearning \/ LearnPatterns \/ LearnForecasts
    BY <2>2, <2>8 DEF SkipLearning, LearnPatterns, LearnForecasts, runVars
  <2>9. CASE ShowOutlook \/ Ask \/ ShowTelemetry
    BY <2>2, <2>9 DEF ShowOutlook, Ask, ShowTelemetry, runVars
  <2>. QED BY <2>1, <2>3, <2>4, <2>5, <2>6, <2>7, <2>8, <2>9 DEF InsightNext, PipelineStep, Next
<1>. QED BY <1>1, <1>2, PTL DEF InsightSpec

-----------------------------------------------------------------------------
(* Finite sets. *)

LEMMA FewAreFinite ==
  ASSUME NEW a, NEW b, NEW S \in SUBSET {a, b}
  PROVE  IsFiniteSet(S)
<1>1. IsFiniteSet({a} \cup {b})
  BY FS_Singleton, FS_Union
<1>2. {a, b} = {a} \cup {b}
  OBVIOUS
<1>. QED BY <1>1, <1>2, FS_Subset

LEMMA AtMostOneIsFinite ==
  ASSUME NEW S, \E x : S \subseteq {x}
  PROVE  IsFiniteSet(S)
BY FS_Singleton, FS_Subset

LEMMA ImageIsFinite ==
  ASSUME NEW F, IsFiniteSet(DOMAIN F)
  PROVE  IsFiniteSet({F[x] : x \in DOMAIN F})
<1> DEFINE T == {F[x] : x \in DOMAIN F}
           G == [x \in DOMAIN F |-> F[x]]
<1>1. G \in Surjection(DOMAIN F, T)
  BY DEF Surjection
<1>. QED BY <1>1, FS_Surjection

LEMMA FamilyIsFinite ==
  ASSUME NEW F, IsFiniteSet(DOMAIN F), \A x \in DOMAIN F : IsFiniteSet(F[x])
  PROVE  IsFiniteSet(UNION {F[x] : x \in DOMAIN F})
BY ImageIsFinite, FS_UNION

-----------------------------------------------------------------------------
(* What the models add, and what a reply is made of. *)

LearnedTypes == {"novelty_elevated", "operating_regime_discovered", "forecast_threshold_approach"}

\* A finding of a model is a hypothesis, and an approach has a lead.
Hypothetical(f) ==
  /\ f.origin = "learned" /\ f.severity = "info" /\ f.type \in LearnedTypes
  /\ f.type = "forecast_threshold_approach" => f.lead \in Nat

\* A model makes finitely many of them.
Learnt(r) == IsFiniteSet(r.findings) /\ \A f \in r.findings : Hypothetical(f)

LEMMA HypothesesAreInfo ==
  ASSUME NEW type, NEW scope, NEW target, NEW confidence
  PROVE  /\ Hypothesis(type, scope, target, confidence).origin = "learned"
         /\ Hypothesis(type, scope, target, confidence).severity = "info"
         /\ Hypothesis(type, scope, target, confidence).type = type
         /\ {"origin", "severity", "type"} \subseteq DOMAIN Hypothesis(type, scope, target, confidence)
BY DEF Hypothesis, Derived

LEMMA NoveltyLearns ==
  ASSUME NEW features, NEW raw
  PROVE  Learnt(Novelty(features, raw))
<1>1. Novelty(features, raw).findings \subseteq {Hypothesis("novelty_elevated", "equipment", Unit, features.coverage)}
  BY Zenon DEF Novelty, Result
<1>2. IsFiniteSet(Novelty(features, raw).findings)
  BY <1>1, AtMostOneIsFinite
<1>3. \A f \in Novelty(features, raw).findings : Hypothetical(f)
  BY <1>1, HypothesesAreInfo DEF Hypothetical, LearnedTypes
<1>. QED BY <1>2, <1>3 DEF Learnt

LEMMA ClustersLearn ==
  ASSUME NEW features, NEW labels
  PROVE  Learnt(Clusters(features, labels))
<1>1. Clusters(features, labels).findings \subseteq
        {Hypothesis("operating_regime_discovered", "equipment", Unit, features.coverage)}
  BY Zenon DEF Clusters, Result
<1>2. IsFiniteSet(Clusters(features, labels).findings)
  BY <1>1, AtMostOneIsFinite
<1>3. \A f \in Clusters(features, labels).findings : Hypothetical(f)
  BY <1>1, HypothesesAreInfo DEF Hypothetical, LearnedTypes
<1>. QED BY <1>2, <1>3 DEF Learnt

LEMMA ApproachesLead ==
  ASSUME NEW k, NEW score, NEW cross \in SUBSET (1 .. Horizon), NEW f \in Approach(k, score, cross)
  PROVE  Hypothetical(f)
<1>1. PICK c : f = With(Hypothesis("forecast_threshold_approach", "sensor", k, c), "lead", Min(cross)) /\ cross # {}
  BY DEF Approach
<1>2. Min(cross) \in Nat
  <2>1. cross \in SUBSET Nat
    BY LearningAssumption
  <2>2. \E x \in cross : \A y \in cross : x <= y
    BY <1>1, <2>1, LeastExists
  <2>3. Min(cross) \in cross
    BY <2>2 DEF Min
  <2>. QED BY <2>1, <2>3
<1>3. f.lead = Min(cross)
  BY <1>1 DEF With
<1>4. f.origin = "learned" /\ f.severity = "info" /\ f.type = "forecast_threshold_approach"
  BY <1>1, HypothesesAreInfo DEF With
<1>. QED BY <1>2, <1>3, <1>4 DEF Hypothetical, LearnedTypes

LEMMA ApproachesAreFew ==
  ASSUME NEW f, NEW k, NEW band
  PROVE  /\ IsFiniteSet(ForecastSensor(f, k, band))
         /\ \A r \in ForecastSensor(f, k, band) : IsFiniteSet(r.approach)
<1>1. IsFiniteSet(Histories(f, k))
  <2>1. \E h : Histories(f, k) \subseteq {h}
    BY Zenon DEF Histories
  <2>. QED BY <2>1, AtMostOneIsFinite
<1> DEFINE H == Histories(f, k)
           By == [h \in H |-> ForecastBy(SelectModel(h.y), h, k, band)]
<1>2. ForecastSensor(f, k, band) = {By[h] : h \in DOMAIN By}
  BY Zenon DEF ForecastSensor
<1>3. DOMAIN By = H /\ IsFiniteSet(H)
  BY <1>1
<1>4. \A r \in ForecastSensor(f, k, band) : IsFiniteSet(r.approach)
  <2>1. SUFFICES ASSUME NEW r \in ForecastSensor(f, k, band) PROVE IsFiniteSet(r.approach)
    OBVIOUS
  <2>2. \E score, cross : r.approach = Approach(k, score, cross)
    BY DEF ForecastSensor, ForecastBy
  <2>3. \A score, cross : \E x : Approach(k, score, cross) \subseteq {x}
    BY DEF Approach
  <2>. QED BY <2>2, <2>3, AtMostOneIsFinite
<1>. HIDE DEF By, H
<1>. QED BY <1>2, <1>3, <1>4, ImageIsFinite

\* What is forecast of a unit: of every sensor for its operating range.
ForecastsOfSensor(f, k) == UNION {ForecastSensor(f, k, b) : b \in Limits[k].operating}

LEMMA ForecastsAreFew ==
  ASSUME NEW f
  PROVE  LET all == UNION {ForecastsOfSensor(f, k) : k \in Sensors}
         IN  IsFiniteSet(all) /\ IsFiniteSet(UNION {r.approach : r \in all})
<1> DEFINE Of == [k \in Sensors |-> ForecastsOfSensor(f, k)]
           all == UNION {ForecastsOfSensor(f, k) : k \in Sensors}
           App == [r \in all |-> r.approach]
<1>1. ASSUME NEW k \in Sensors PROVE IsFiniteSet(ForecastsOfSensor(f, k))
  <2>1. CASE Limits[k].operating = {}
    BY <2>1, FS_EmptySet DEF ForecastsOfSensor
  <2>2. ASSUME NEW b \in Limits[k].operating
        PROVE  IsFiniteSet(ForecastsOfSensor(f, k))
    <3>1. Limits[k].operating = {b}
      BY OneOperatingRange
    <3>2. ForecastsOfSensor(f, k) = ForecastSensor(f, k, b)
      BY <3>1, Zenon DEF ForecastsOfSensor
    <3>. QED BY <3>2, ApproachesAreFew
  <2>. QED BY <2>1, <2>2
<1>2. all = UNION {Of[k] : k \in DOMAIN Of} /\ DOMAIN Of = Sensors
  OBVIOUS
<1>3. \A k \in DOMAIN Of : IsFiniteSet(Of[k])
  BY <1>1
<1>4. \A r \in all : IsFiniteSet(r.approach)
  BY ApproachesAreFew DEF ForecastsOfSensor
<1>5. UNION {r.approach : r \in all} = UNION {App[r] : r \in DOMAIN App} /\ DOMAIN App = all
  OBVIOUS
<1>6. \A r \in DOMAIN App : IsFiniteSet(App[r])
  BY <1>4
<1>. HIDE DEF Of, App
<1>7. IsFiniteSet(all)
  BY <1>2, <1>3, FamilyIsFinite, PipelineAssumption
<1>. HIDE DEF all
<1>8. IsFiniteSet(UNION {r.approach : r \in all})
  BY <1>5, <1>6, <1>7, FamilyIsFinite
<1>. QED BY <1>7, <1>8 DEF all

LEMMA ForecastsLearn ==
  ASSUME NEW f
  PROVE  Learnt(ForecastUnit(f, Limits))
<1>1. \A fc, band : Crossings(fc, band) \in SUBSET (1 .. Horizon)
  BY Zenon DEF Crossings
<1>2. \A k, band : \A r \in ForecastSensor(f, k, band) : \A x \in r.approach : Hypothetical(x)
  <2>1. SUFFICES ASSUME NEW k, NEW band, NEW r \in ForecastSensor(f, k, band), NEW x \in r.approach
                 PROVE  Hypothetical(x)
    OBVIOUS
  <2>2. PICK hist \in Histories(f, k) : r = ForecastBy(SelectModel(hist.y), hist, k, band)
    BY Zenon DEF ForecastSensor
  <2>3. \E score, fc : r.approach = Approach(k, score, Crossings(fc, band))
    BY <2>2 DEF ForecastBy
  <2>. QED BY <1>1, <2>3, ApproachesLead
<1> DEFINE all == UNION {ForecastsOfSensor(f, k) : k \in Sensors}
<1>3. ForecastUnit(f, Limits).findings = UNION {r.approach : r \in all}
  BY PipelineAssumption DEF ForecastUnit, Forecasted, Result, ForecastsOfSensor
<1>4. \A x \in UNION {r.approach : r \in all} : Hypothetical(x)
  BY <1>2 DEF ForecastsOfSensor
<1>5. IsFiniteSet(UNION {r.approach : r \in all})
  BY ForecastsAreFew
<1>. HIDE DEF all
<1>. QED BY <1>3, <1>4, <1>5 DEF Learnt

\* What the models have appended; a reply is one of those its request may get.
AllLearnt(rs) == \E S : rs \in Seq(S) /\ \A r \in S : Learnt(r)
LearnedInv == AllLearnt(results)
ReplyInv ==
  stage = "answered" =>
    \/ reply \in Outlooks(Recorded, ctx.health.subsystems)
    \/ reply \in Answers(Recorded)
    \/ reply.kind = "telemetry"

LEMMA LearntTogether ==
  ASSUME NEW S, NEW rs \in Seq(S), \A r \in S : Learnt(r)
  PROVE  AllLearnt(rs)
BY Zenon DEF AllLearnt

LEMMA EveryModelLearns == InsightSpec => []LearnedInv
<1>1. InsightInit => LearnedInv
  <2>1. <<>> \in Seq({})
    OBVIOUS
  <2>. QED BY <2>1, LearntTogether DEF InsightInit, LearnedInv
<1>2. LearnedInv /\ [InsightNext]_insightVars => LearnedInv'
  <2>1. SUFFICES ASSUME LearnedInv, [InsightNext]_insightVars PROVE LearnedInv'
    OBVIOUS
  <2>2. CASE results' = results
    BY <2>1, <2>2 DEF LearnedInv
  <2>3. CASE LearnPatterns
    <3>1. CASE results' = <<>>
      <4>1. results' \in Seq({})
        BY <3>1
      <4>. QED BY <4>1, LearntTogether DEF LearnedInv
    <3>2. CASE \E features, raw : results' = <<Novelty(features, raw)>>
      <4>1. PICK n : results' = <<n>> /\ Learnt(n)
        BY <3>2, NoveltyLearns
      <4>2. results' \in Seq({n}) /\ \A r \in {n} : Learnt(r)
        BY <4>1
      <4>. QED BY <4>2, LearntTogether DEF LearnedInv
    <3>3. CASE \E features, raw, labels : results' = <<Novelty(features, raw), Clusters(features, labels)>>
      <4>1. PICK n, c : results' = <<n, c>> /\ Learnt(n) /\ Learnt(c)
        BY <3>3, NoveltyLearns, ClustersLearn
      <4>2. results' \in Seq({n, c}) /\ \A r \in {n, c} : Learnt(r)
        BY <4>1
      <4>. QED BY <4>2, LearntTogether DEF LearnedInv
    <3>. QED BY <2>3, <3>1, <3>2, <3>3, Zenon DEF LearnPatterns
  <2>4. CASE LearnForecasts
    <3>1. results' = results \/ results' = Append(results, ForecastUnit(frame, Limits))
      BY <2>4 DEF LearnForecasts
    <3>2. CASE results' = Append(results, ForecastUnit(frame, Limits))
      <4>1. PICK S : results \in Seq(S) /\ \A r \in S : Learnt(r)
        BY <2>1 DEF LearnedInv, AllLearnt
      <4> DEFINE F == ForecastUnit(frame, Limits)
                 T == S \cup {F}
      <4>2. Learnt(F)
        BY ForecastsLearn
      <4>. HIDE DEF F
      <4>3. results \in Seq(T) /\ F \in T
        BY <4>1
      <4>4. Append(results, F) \in Seq(T)
        BY <4>3
      <4>5. \A r \in T : Learnt(r)
        BY <4>1, <4>2
      <4>. QED BY <3>2, <4>4, <4>5, LearntTogether DEF LearnedInv, F
    <3>. QED BY <2>2, <3>1, <3>2
  <2>5. CASE UNCHANGED insightVars \/ Seed \/ SeedFails \/ Post \/ Load \/ PipelineStep
    BY <2>2, <2>5 DEF insightVars, Seed, SeedFails, Post, Load, PipelineStep
  <2>6. CASE SkipLearning \/ ShowOutlook \/ Ask \/ ShowTelemetry
    BY <2>2, <2>6 DEF SkipLearning, ShowOutlook, Ask, ShowTelemetry
  <2>. QED BY <2>1, <2>3, <2>4, <2>5, <2>6 DEF InsightNext
<1>. QED BY <1>1, <1>2, PTL DEF InsightSpec

LEMMA RepliesFitTheView == InsightSpec => []ReplyInv
<1>1. InsightInit => ReplyInv
  BY DEF InsightInit, ReplyInv
<1>2. ReplyInv /\ [InsightNext]_insightVars => ReplyInv'
  <2>1. SUFFICES ASSUME ReplyInv, [InsightNext]_insightVars PROVE ReplyInv'
    OBVIOUS
  <2>2. CASE UNCHANGED insightVars
    BY <2>1, <2>2 DEF insightVars, vars, ReplyInv, Recorded, Learned
  <2>3. CASE stage' # "answered"
    BY <2>3 DEF ReplyInv
  <2>4. CASE Seed \/ SeedFails \/ Post \/ Load
    BY <2>3, <2>4 DEF Seed, SeedFails, Post, Load
  <2>5. CASE PipelineStep
    BY <2>3, <2>5 DEF PipelineStep, Next, Quality, Statistics, State, Envelope, Threshold, TimelineOf,
                      Reliability, HealthOf, Engine, Assemble, Evaluate
  <2>6. CASE SkipLearning \/ LearnPatterns \/ LearnForecasts
    BY <2>3, <2>6 DEF SkipLearning, LearnPatterns, LearnForecasts
  <2>7. CASE ShowOutlook
    BY <2>7 DEF ShowOutlook, runVars, ReplyInv, Recorded, Learned
  <2>8. CASE Ask
    BY <2>8 DEF Ask, runVars, ReplyInv, Recorded, Learned
  <2>9. CASE ShowTelemetry
    BY <2>9, Zenon DEF ShowTelemetry, ReplyInv, Chart
  <2>. QED BY <2>1, <2>2, <2>4, <2>5, <2>6, <2>7, <2>8, <2>9 DEF InsightNext
<1>. QED BY <1>1, <1>2, PTL DEF InsightSpec

LEMMA LearnedAreHypotheses ==
  ASSUME LearnedInv, NEW f \in Learned
  PROVE  Hypothetical(f)
<1>1. PICK S : results \in Seq(S) /\ \A r \in S : Learnt(r)
  BY DEF LearnedInv, AllLearnt
<1>2. PICK i \in DOMAIN results : f \in results[i].findings
  BY DEF Learned
<1>3. results[i] \in S
  BY <1>1, <1>2
<1>. QED BY <1>1, <1>2, <1>3 DEF Learnt

\* The card of a view that cites some criticals and some approaches.
Card(view, scores, c, s) ==
  [kind |-> "outlook", headline |-> Headline(view), critical |-> Cardinality(Criticals(view)),
   weakest |-> Weakest(view, scores),
   citations |-> Refs(c \cup s \cup OfType(view, "novelty_elevated"))]

LEMMA OutlooksAreCards ==
  ASSUME NEW view, NEW scores, NEW r \in Outlooks(view, scores)
  PROVE  \E c \in SUBSET Criticals(view), s \in SUBSET Soonest(view) :
           /\ Cardinality(c) = Min({2, Cardinality(Criticals(view))})
           /\ Cardinality(s) = Min({1, Cardinality(Soonest(view))})
           /\ r = Card(view, scores, c, s)
<1> DEFINE A == {S \in SUBSET Criticals(view) : Cardinality(S) = Min({2, Cardinality(Criticals(view))})}
           B == {S \in SUBSET Soonest(view) : Cardinality(S) = Min({1, Cardinality(Soonest(view))})}
<1>1. Outlooks(view, scores) = {Card(view, scores, c, s) : c \in A, s \in B}
  BY DEF Outlooks, Card
<1>2. \A c \in A : c \in SUBSET Criticals(view) /\ Cardinality(c) = Min({2, Cardinality(Criticals(view))})
  OBVIOUS
<1>3. \A s \in B : s \in SUBSET Soonest(view) /\ Cardinality(s) = Min({1, Cardinality(Soonest(view))})
  OBVIOUS
<1>. HIDE DEF A, B
<1>4. \E c \in A, s \in B : r = Card(view, scores, c, s)
  BY <1>1
<1>. QED BY <1>2, <1>3, <1>4

LEMMA OutlooksCiteTheView ==
  ASSUME NEW view, NEW scores, NEW r \in Outlooks(view, scores)
  PROVE  /\ r.kind = "outlook" /\ r.headline = Headline(view)
         /\ r.citations \subseteq Refs(view)
<1>1. PICK c \in SUBSET Criticals(view), s \in SUBSET Soonest(view) : r = Card(view, scores, c, s)
  BY OutlooksAreCards
<1>2. c \cup s \cup OfType(view, "novelty_elevated") \subseteq view
  BY DEF Criticals, Soonest, OfType
<1>3. Refs(c \cup s \cup OfType(view, "novelty_elevated")) \subseteq Refs(view)
  BY <1>2 DEF Refs
<1>. QED BY <1>1, <1>3 DEF Card

LEMMA CompletionsAreTyped ==
  ASSUME NEW bundle, NEW m \in Completions(bundle)
  PROVE  m.kind \in {"none", "chat", "engineering"} /\ (m.kind = "none" => m.claims = {})
<1>1. CASE m = Unreadable
  BY <1>1 DEF Unreadable
<1>2. CASE m = StubCompletion(bundle)
  BY <1>2 DEF StubCompletion
<1>3. CASE m \notin {Unreadable, StubCompletion(bundle)}
  <2> DEFINE One(S) == {{}} \cup {{x} : x \in S}
             A == One({{i.ref} : i \in bundle})
             B == One({{i.ref, Unknown} : i \in bundle})
             C == One({{}, {Unknown}})
  <2>1. Completions(bundle) = {Unreadable, StubCompletion(bundle)}
          \cup {[kind |-> k, claims |-> a \cup b \cup c] : k \in {"chat", "engineering"}, a \in A, b \in B, c \in C}
    BY DEF Completions
  <2>. HIDE DEF A, B, C
  <2>2. \E k \in {"chat", "engineering"}, a \in A, b \in B, c \in C :
          m = [kind |-> k, claims |-> a \cup b \cup c]
    BY <1>3, <2>1
  <2>. QED BY <2>2
<1>. QED BY <1>1, <1>2, <1>3

LEMMA AnswersCiteTheView ==
  ASSUME NEW view, NEW r \in Answers(view)
  PROVE  /\ r.kind = "answer"
         /\ r.citations \subseteq Refs(view)
         /\ \A c \in r.claims : c # {} /\ c \subseteq r.citations
         /\ r.text = "insufficient" => r.claims = {}
<1>1. PICK m \in Completions(Bundle(view)) : r = Validate(m, Bundle(view))
  BY Zenon DEF Answers
<1> DEFINE ids == {i.ref : i \in Bundle(view)}
           kept == ValidClaims(m.claims, ids)
<1>2. ids = Refs(view)
  <2>0. \A f \in view : [ref |-> Identity(f), category |-> Category(f)] \in Bundle(view)
    BY DEF Bundle
  <2>1. \A f \in view : \E i \in Bundle(view) : i.ref = Identity(f)
    BY <2>0
  <2>2. \A i \in Bundle(view) : \E f \in view : i.ref = Identity(f)
    BY DEF Bundle
  <2>. QED BY <2>1, <2>2 DEF Refs
<1>3. r.kind = "answer" /\ r.claims = kept /\ r.citations = UNION kept
  BY <1>1 DEF Validate
<1>4. \A c \in kept : c # {} /\ c \subseteq ids
  BY DEF ValidClaims
<1>5. m.kind = "none" => kept = {}
  BY CompletionsAreTyped DEF ValidClaims
<1>6. r.text = CASE m.kind = "none" -> "insufficient"
                 [] m.kind = "chat" /\ kept = {} -> "model"
                 [] m.kind # "none" /\ kept # {} -> "model"
                 [] m.kind = "engineering" /\ kept = {} -> "insufficient"
  BY <1>1 DEF Validate
<1>. HIDE DEF ids, kept
<1>7. r.text = "insufficient" => kept = {}
  BY <1>5, <1>6, CompletionsAreTyped
<1>. QED BY <1>2, <1>3, <1>4, <1>7

(* Whatever the rules and whatever a language model returns: a claim that reaches the
   user cites findings of this machine only, and the diagnoses among them rest, step by
   step, on derived findings. *)
THEOREM RepliesRestOnReadings == InsightSpec => []RepliesAreGrounded
<1>1. ChainInv /\ LearnedInv /\ ReplyInv => RepliesAreGrounded
  <2>1. SUFFICES ASSUME ChainInv, LearnedInv, ReplyInv, stage = "answered", reply.kind # "telemetry"
                 PROVE  RepliesAreGrounded
    BY DEF RepliesAreGrounded
  <2> DEFINE Diagnosed == {f \in Recorded : f.origin = "diagnosed"}
  <2>2. \A f \in Learned : f.origin = "learned"
    BY <2>1, LearnedAreHypotheses DEF Hypothetical
  <2>3. Diagnosed \subseteq diagnoses
    BY <2>1, <2>2 DEF Recorded, ChainInv
  <2>4. \A d \in Diagnosed : d.by \subseteq Refs(Conclusive)
    BY <2>1, <2>3 DEF ChainInv, Grounded, Refs, Conclusive
  <2>5. \A D \in (SUBSET Diagnosed) \ {{}} : \E d \in D : \E g \in Conclusive \ D : Identity(g) \in d.by
    BY <2>1, <2>3 DEF ChainInv, Acyclic, Conclusive
  <2>6. reply.citations \subseteq Refs(Recorded)
    BY <2>1, OutlooksCiteTheView, AnswersCiteTheView DEF ReplyInv
  <2>7. reply.kind = "answer" =>
          /\ \A c \in reply.claims : c # {} /\ c \subseteq reply.citations
          /\ reply.text = "insufficient" => reply.claims = {}
    BY <2>1, OutlooksCiteTheView, AnswersCiteTheView DEF ReplyInv
  <2>. QED BY <2>4, <2>5, <2>6, <2>7 DEF RepliesAreGrounded
<1>. QED BY <1>1, ChainsFollowRules, EveryModelLearns, RepliesFitTheView, PTL

-----------------------------------------------------------------------------
(* The findings of a unit are finitely many, so that the card can cite one. *)

LEMMA AssemblyIsFinite ==
  ASSUME NEW rel, NEW thr, NEW h, IsFiniteSet(DOMAIN rel), IsFiniteSet(DOMAIN h.subsystems)
  PROVE  IsFiniteSet(AssembleFindings(rel, thr, h))
<1>1. ASSUME NEW scope, NEW k, NEW x
      PROVE  IsFiniteSet(HealthFinding(scope, k, x))
  <2> DEFINE d == Derived("health_degraded", "health", scope, k, x.severity, x.confidence)
  <2>1. HealthFinding(scope, k, x) \in SUBSET {d, d}
    BY DEF HealthFinding
  <2>. HIDE DEF d
  <2>. QED BY <2>1, FewAreFinite
<1>2. ASSUME NEW k, NEW t
      PROVE  IsFiniteSet(ThresholdFindings(k, t))
  <2> DEFINE a == Derived("threshold_misspecified", "threshold", "sensor", k, "warning", t.confidence)
             b == Derived("threshold_critical", "threshold", "sensor", k, "critical", t.confidence)
  <2>1. ThresholdFindings(k, t) \in SUBSET {a, b}
    BY DEF ThresholdFindings
  <2>. HIDE DEF a, b
  <2>. QED BY <2>1, FewAreFinite
<1>3. ASSUME NEW k, NEW r
      PROVE  IsFiniteSet(ReliabilityFindings(k, r))
  <2> DEFINE a == Derived("reliability_drift", "reliability", "sensor", k, "warning", r.trust)
             b == Derived("reliability_flatline", "reliability", "sensor", k, "warning", r.trust)
             c == Derived("reliability_flatline", "reliability", "sensor", k, "info", r.trust)
             d == Derived("sensor_untrustworthy", "reliability", "sensor", k, "warning", r.trust)
  <2>1. ReliabilityFindings(k, r) \subseteq {a, b} \cup {c, d}
    BY DEF ReliabilityFindings
  <2>. HIDE DEF a, b, c, d
  <2>2. IsFiniteSet({a, b}) /\ IsFiniteSet({c, d})
    BY FewAreFinite
  <2>. QED BY <2>1, <2>2, FS_Union, FS_Subset
<1> DEFINE Own == [k \in DOMAIN rel |-> ThresholdFindings(k, thr[k]) \cup ReliabilityFindings(k, rel[k])]
           Sub == [u \in DOMAIN h.subsystems |-> HealthFinding("subsystem", u, h.subsystems[u])]
<1>4. AssembleFindings(rel, thr, h) = HealthFinding("equipment", Unit, h.equipment)
        \cup (UNION {Own[k] : k \in DOMAIN Own}) \cup (UNION {Sub[u] : u \in DOMAIN Sub})
  BY DEF AssembleFindings
<1>5. IsFiniteSet(DOMAIN Own) /\ \A k \in DOMAIN Own : IsFiniteSet(Own[k])
  BY <1>2, <1>3, FS_Union
<1>6. IsFiniteSet(DOMAIN Sub) /\ \A u \in DOMAIN Sub : IsFiniteSet(Sub[u])
  BY <1>1
<1>. HIDE DEF Own, Sub
<1>7. IsFiniteSet(UNION {Own[k] : k \in DOMAIN Own}) /\ IsFiniteSet(UNION {Sub[u] : u \in DOMAIN Sub})
  BY <1>5, <1>6, FamilyIsFinite
<1>8. IsFiniteSet(HealthFinding("equipment", Unit, h.equipment))
  BY <1>1
<1>9. \A A, B, C : IsFiniteSet(A) /\ IsFiniteSet(B) /\ IsFiniteSet(C) => IsFiniteSet(A \cup B \cup C)
  BY FS_Union
<1>. QED BY <1>4, <1>7, <1>8, <1>9

LEMMA PassIsFinite ==
  ASSUME NEW base, NEW produced, NEW trust, IsFiniteSet(base), IsFiniteSet(produced)
  PROVE  IsFiniteSet(RulePass(base, produced, Class, trust))
<1> DEFINE current == base \cup produced
           C == Conclusions(current, Class, trust)
<1>1. IsFiniteSet(current)
  BY FS_Union
<1>2. ASSUME NEW r \in Rules
      PROVE  IsFiniteSet(Targets(r, current))
  <2> DEFINE target == [f \in current |-> f.target]
  <2>1. Targets(r, current) \subseteq {target[f] : f \in DOMAIN target} \cup {Unit}
    BY DEF Targets
  <2>2. IsFiniteSet({target[f] : f \in DOMAIN target})
    BY <1>1, ImageIsFinite
  <2>. HIDE DEF target
  <2>. QED BY <2>1, <2>2, FS_AddElement, FS_Subset
<1> DEFINE Made(r) == [t \in Targets(r, current) |-> Diagnose(r, t, current, trust)]
           Of == [r \in Rules |-> {Made(r)[t] : t \in DOMAIN Made(r)}]
<1>3. ASSUME NEW r \in Rules
      PROVE  IsFiniteSet(Of[r])
  <2>1. DOMAIN Made(r) = Targets(r, current) /\ Of[r] = {Made(r)[t] : t \in DOMAIN Made(r)}
    OBVIOUS
  <2>2. IsFiniteSet(DOMAIN Made(r))
    BY <1>2, <2>1
  <2>. HIDE DEF Made, Of
  <2>. QED BY <2>1, <2>2, ImageIsFinite
<1>4. C \subseteq UNION {Of[r] : r \in DOMAIN Of}
  <2>1. \A d \in C : \E r \in Rules : \E t \in Targets(r, current) : d = Diagnose(r, t, current, trust)
    BY DEF Conclusions
  <2>2. \A r \in Rules : \A t \in Targets(r, current) : Diagnose(r, t, current, trust) \in Of[r]
    OBVIOUS
  <2>3. DOMAIN Of = Rules
    OBVIOUS
  <2>. HIDE DEF C, Of, current
  <2>. QED BY <2>1, <2>2, <2>3
<1>5. IsFiniteSet(UNION {Of[r] : r \in DOMAIN Of})
  <2>1. DOMAIN Of = Rules
    OBVIOUS
  <2>. HIDE DEF Of
  <2>. QED BY <1>3, <2>1, FamilyIsFinite, FindingsAssumption
<1>6. RulePass(base, produced, Class, trust) \subseteq produced \cup C
  BY DEF RulePass
<1>. HIDE DEF C, Of
<1>. QED BY <1>4, <1>5, <1>6, FS_Subset, FS_Union

LEMMA FindingsAreFinite ==
  ASSUME ContextInv, stage \in PastAssembly
  PROVE  IsFiniteSet(findings)
<1>1. /\ findings = AssembleFindings(ctx.reliability, ctx.threshold, ctx.health)
      /\ ctx.health = UnitHealth(ctx.reliability, ctx.threshold, Subsystems)
      /\ DOMAIN ctx.reliability = Sensors
  BY DEF ContextInv, AssemblyInv, HealthInv, ReliabilityInv, PastHealth, PastReliability
<1>2. DOMAIN ctx.health.subsystems = DOMAIN Subsystems
  BY <1>1 DEF UnitHealth
<1>3. IsFiniteSet({SubsystemOf[k] : k \in DOMAIN SubsystemOf})
  BY PipelineAssumption, ImageIsFinite
<1>4. DOMAIN Subsystems = {SubsystemOf[k] : k \in DOMAIN SubsystemOf}
  BY PipelineAssumption DEF Subsystems
<1>. QED BY <1>1, <1>2, <1>3, <1>4, AssemblyIsFinite, PipelineAssumption

FiniteInv == IsFiniteSet(diagnoses)

LEMMA DiagnosesAreFinite == InsightSpec => []FiniteInv
<1>1. InsightInit => FiniteInv
  BY FS_EmptySet DEF InsightInit, FiniteInv
<1>2. ContextInv /\ FiniteInv /\ [InsightNext]_insightVars => FiniteInv'
  <2>1. SUFFICES ASSUME ContextInv, FiniteInv, [InsightNext]_insightVars
                 PROVE  FiniteInv'
    OBVIOUS
  <2>. USE DEF FiniteInv
  <2>2. CASE diagnoses' = diagnoses
    BY <2>1, <2>2
  <2>3. CASE Evaluate
    <3>1. diagnoses' = RulePass(findings, diagnoses, Class, RuleTrust) /\ stage \in PastAssembly
      BY <2>3 DEF Evaluate, PastAssembly
    <3>. QED BY <2>1, <3>1, FindingsAreFinite, PassIsFinite
  <2>4. CASE UNCHANGED insightVars
    BY <2>2, <2>4 DEF insightVars, vars
  <2>5. CASE Seed \/ SeedFails \/ Post \/ Load
    BY <2>2, <2>5 DEF Seed, SeedFails, Post, Load, runVars
  <2>6. CASE Quality \/ Statistics \/ State \/ Envelope \/ Threshold \/ TimelineOf \/ Reliability \/ HealthOf
    BY <2>2, <2>6 DEF Quality, Statistics, State, Envelope, Threshold, TimelineOf, Reliability, HealthOf, Engine
  <2>7. CASE Assemble
    BY <2>2, <2>7 DEF Assemble
  <2>8. CASE SkipLearning \/ LearnPatterns \/ LearnForecasts
    BY <2>2, <2>8 DEF SkipLearning, LearnPatterns, LearnForecasts, runVars
  <2>9. CASE ShowOutlook \/ Ask \/ ShowTelemetry
    BY <2>2, <2>9 DEF ShowOutlook, Ask, ShowTelemetry, runVars
  <2>. QED BY <2>1, <2>3, <2>4, <2>5, <2>6, <2>7, <2>8, <2>9 DEF InsightNext, PipelineStep, Next
<1>. QED BY <1>1, <1>2, ContextFollowsStages, PTL DEF InsightSpec

\* Of finitely many some are cited, if there are any.
LEMMA SomeAreChosen ==
  ASSUME NEW n \in Nat \ {0}, NEW S, IsFiniteSet(S), S # {},
         NEW c \in SUBSET S, Cardinality(c) = Min({n, Cardinality(S)})
  PROVE  c # {}
<1>1. Cardinality(S) \in Nat \ {0}
  BY FS_CardinalityType, FS_EmptySet
<1>2. \A m \in Nat \ {0} : Min({n, m}) # 0
  <2>1. SUFFICES ASSUME NEW m \in Nat \ {0} PROVE Min({n, m}) # 0
    OBVIOUS
  <2>2. \E x \in {n, m} : \A y \in {n, m} : x <= y
    OBVIOUS
  <2>3. Min({n, m}) \in {n, m}
    BY <2>2 DEF Min
  <2>. QED BY <2>3
<1>3. Cardinality(c) # 0
  BY <1>1, <1>2
<1>. QED BY <1>3, FS_EmptySet

LEMMA CitesACritical ==
  ASSUME NEW view, NEW scores, NEW r \in Outlooks(view, scores),
         IsFiniteSet(Criticals(view)), Criticals(view) # {}
  PROVE  \E f \in Criticals(view) : Identity(f) \in r.citations
<1>1. PICK c \in SUBSET Criticals(view), s \in SUBSET Soonest(view) :
        Cardinality(c) = Min({2, Cardinality(Criticals(view))}) /\ r = Card(view, scores, c, s)
  BY OutlooksAreCards
<1>2. PICK f \in c : TRUE
  BY <1>1, SomeAreChosen
<1>3. r.citations = Refs(c \cup s \cup OfType(view, "novelty_elevated"))
  BY <1>1 DEF Card
<1>. QED BY <1>2, <1>3 DEF Refs

LEMMA CitesTheSoonest ==
  ASSUME NEW view, NEW scores, NEW r \in Outlooks(view, scores),
         IsFiniteSet(Soonest(view)), Soonest(view) # {}
  PROVE  \E f \in Soonest(view) : Identity(f) \in r.citations
<1>1. PICK c \in SUBSET Criticals(view), s \in SUBSET Soonest(view) :
        Cardinality(s) = Min({1, Cardinality(Soonest(view))}) /\ r = Card(view, scores, c, s)
  BY OutlooksAreCards
<1>2. PICK f \in s : TRUE
  BY <1>1, SomeAreChosen
<1>3. r.citations = Refs(c \cup s \cup OfType(view, "novelty_elevated"))
  BY <1>1 DEF Card
<1>. QED BY <1>2, <1>3 DEF Refs

\* What Phase B has left is finite, so that one approach comes first.
LEMMA LearnedIsFinite ==
  ASSUME LearnedInv
  PROVE  IsFiniteSet(Learned)
<1>1. PICK S : results \in Seq(S) /\ \A r \in S : Learnt(r)
  BY DEF LearnedInv, AllLearnt
<1> DEFINE Of == [i \in DOMAIN results |-> results[i].findings]
<1>2. DOMAIN Of = 1 .. Len(results) /\ Len(results) \in Nat
  BY <1>1
<1>3. IsFiniteSet(DOMAIN Of)
  BY <1>2, FS_Interval
<1>4. \A i \in DOMAIN Of : IsFiniteSet(Of[i])
  BY <1>1 DEF Learnt
<1>5. Learned = UNION {Of[i] : i \in DOMAIN Of}
  BY DEF Learned
<1>. HIDE DEF Of
<1>. QED BY <1>3, <1>4, <1>5, FamilyIsFinite

\* The first of some approaches.
LEMMA OneApproachIsFirst ==
  ASSUME NEW view, OfType(view, "forecast_threshold_approach") # {},
         \A f \in OfType(view, "forecast_threshold_approach") : f.lead \in Nat
  PROVE  Soonest(view) # {}
<1> DEFINE fs == OfType(view, "forecast_threshold_approach")
           leads == {f.lead : f \in fs}
<1>1. leads \in SUBSET Nat /\ leads # {}
  OBVIOUS
<1>2. PICK x \in leads : \A y \in leads : x <= y
  BY <1>1, LeastExists
<1>3. PICK f \in fs : f.lead = x
  OBVIOUS
<1>4. f \in Soonest(view)
  BY <1>2, <1>3 DEF Soonest
<1>. QED BY <1>4

(* From the reading to the card, for any frames, limits and rules and whatever the
   models learn or fail to: a critical condition, such as a sensor at its protection
   setpoint, is the headline and one is cited; else an approach to a limit is; the
   soonest is cited whenever there is one; and a calm card hides none of them. *)
THEOREM WorstIsTheHeadline == InsightSpec => []OutlookLeadsWithTheWorst
<1>1. ProtectionReachesTheTop /\ ContextInv /\ FiniteInv /\ ChainInv /\ LearnedInv /\ ReplyInv
        => OutlookLeadsWithTheWorst
  <2>1. SUFFICES ASSUME ProtectionReachesTheTop, ContextInv, FiniteInv, ChainInv, LearnedInv,
                        reply \in Outlooks(Recorded, ctx.health.subsystems), stage = "answered"
                 PROVE  OutlookLeadsWithTheWorst
    BY AnswersCiteTheView DEF ReplyInv, OutlookLeadsWithTheWorst
  <2> DEFINE Breaches(k) == Limits[k].operating # {} /\ Valid(frame.col[k]) # <<>>
                             /\ \E p \in Limits[k].protection : Last(Valid(frame.col[k])) >= p.level
             breached == {k \in Sensors : Breaches(k)}
             critical == {f \in Recorded : f.severity = "critical"}
             approaches == {f \in Learned : f.type = "forecast_threshold_approach"}
  <2>2. reply.headline = Headline(Recorded)
    BY <2>1, OutlooksCiteTheView
  <2>3. \A f \in Learned : Hypothetical(f)
    BY <2>1, LearnedAreHypotheses
  <2>4. critical = Criticals(Recorded) /\ IsFiniteSet(Criticals(Recorded))
    <3>1. IsFiniteSet(findings \cup diagnoses)
      BY <2>1, FindingsAreFinite, FS_Union DEF FiniteInv, PastAssembly, Told
    <3>2. Criticals(Recorded) \subseteq findings \cup diagnoses
      BY <2>3 DEF Criticals, Recorded, Hypothetical
    <3>. QED BY <3>1, <3>2, FS_Subset DEF Criticals
  <2>5. breached # {} => critical # {}
    <3>1. ASSUME NEW k \in breached PROVE critical # {}
      <4>1. <<"threshold_critical", "sensor", k>> \in {Identity(f) : f \in {g \in findings : g.severity = "critical"}}
        BY <2>1, <3>1 DEF ProtectionReachesTheTop, Analysed
      <4>. QED BY <4>1 DEF Recorded
    <3>. QED BY <3>1
  <2>6. critical # {} => reply.headline = "critical" /\ \E f \in critical : Identity(f) \in reply.citations
    BY <2>1, <2>2, <2>4, CitesACritical DEF Headline
  <2>7. approaches = OfType(Recorded, "forecast_threshold_approach") /\ \A f \in approaches : f.lead \in Nat
    BY <2>1, <2>3 DEF OfType, Recorded, ChainInv, Hypothetical
  <2>8. /\ Soonest(Recorded) = {f \in approaches : \A g \in approaches : f.lead <= g.lead}
        /\ IsFiniteSet(Soonest(Recorded))
        /\ approaches # {} => Soonest(Recorded) # {}
    <3>1. Soonest(Recorded) = {f \in approaches : \A g \in approaches : f.lead <= g.lead}
      BY <2>7 DEF Soonest
    <3>2. Soonest(Recorded) \subseteq Learned
      BY <3>1
    <3>3. IsFiniteSet(Soonest(Recorded))
      BY <2>1, <3>2, LearnedIsFinite, FS_Subset
    <3>4. approaches # {} => Soonest(Recorded) # {}
      BY <2>7, OneApproachIsFirst
    <3>. QED BY <3>1, <3>3, <3>4
  <2>9. approaches # {} =>
          /\ critical = {} => reply.headline = "approaching"
          /\ \E f \in approaches : Identity(f) \in reply.citations /\ \A g \in approaches : f.lead <= g.lead
    <3>1. SUFFICES ASSUME approaches # {}
                   PROVE  /\ critical = {} => reply.headline = "approaching"
                          /\ \E f \in approaches : Identity(f) \in reply.citations
                               /\ \A g \in approaches : f.lead <= g.lead
      OBVIOUS
    <3>2. PICK f \in Soonest(Recorded) : Identity(f) \in reply.citations
      BY <2>1, <2>8, <3>1, CitesTheSoonest
    <3>3. f \in approaches /\ \A g \in approaches : f.lead <= g.lead
      BY <2>8, <3>2
    <3>4. critical = {} => reply.headline = "approaching"
      BY <2>2, <2>4, <2>8, <3>1 DEF Headline
    <3>. QED BY <3>2, <3>3, <3>4
  <2>10. ASSUME reply.headline = "calm"
         PROVE  critical = {} /\ Learned \subseteq OfType(Learned, "operating_regime_discovered")
    <3>1. critical = {} /\ Soonest(Recorded) = {} /\ OfType(Recorded, "novelty_elevated") = {}
      BY <2>2, <2>4, <2>10 DEF Headline
    <3>2. approaches = {}
      BY <2>8, <3>1
    <3>3. Learned \subseteq OfType(Learned, "operating_regime_discovered")
      BY <2>3, <3>1, <3>2 DEF OfType, Hypothetical, LearnedTypes, Recorded
    <3>. QED BY <3>1, <3>3
  <2>11. breached = {k \in Sensors : LET s == Valid(frame.col[k])
                                     IN  Limits[k].operating # {} /\ s # <<>> /\ \E p \in Limits[k].protection : Last(s) >= p.level}
    OBVIOUS
  <2>. HIDE DEF breached
  <2>. QED BY <2>5, <2>6, <2>9, <2>10, <2>11 DEF OutlookLeadsWithTheWorst
<1>. QED BY <1>1, ProtectionIsNeverAveragedOut, ContextFollowsStages, DiagnosesAreFinite, ChainsFollowRules,
            EveryModelLearns, RepliesFitTheView, PTL

-----------------------------------------------------------------------------
(* Downwards: a degraded level has a degraded sensor, and that sensor a cause. *)

LEMMA DegradedSensorHasCause ==
  ASSUME NEW col, NEW spec, NEW r, NEW t, Judged(t, col, spec), r.trust \in Nat,
         SensorHealth(r, t).severity # "ok"
  PROVE  Cause(col, spec, r.trust)
<1> DEFINE v == Last(Valid(col))
<1>1. CASE spec.operating = {} \/ Valid(col) = <<>>
  <2>1. t.state = "unknown"
    BY <1>1 DEF Judged
  <2>2. t.state \notin DOMAIN StateHealth
    BY <2>1 DEF StateHealth
  <2>3. SensorHealth(r, t).severity = SeverityFromScore(RoundDiv(r.trust, 10))
    BY <2>2 DEF SensorHealth
  <2>4. ~(RoundDiv(r.trust, 10) >= 800)
    BY <2>3 DEF SeverityFromScore
  <2>5. r.trust < 8000
    BY <2>4 DEF RoundDiv
  <2>. QED BY <1>1, <2>5 DEF Cause
<1>2. CASE spec.operating # {} /\ Valid(col) # <<>>
  <2>1. t.status = "available" /\ t.state = StateOf(v, spec)
    BY <1>2 DEF Judged
  <2>2. t.state \in DOMAIN StateHealth
    BY <2>1, StatesAreKnown DEF StateHealth, ThresholdStates
  <2>3. SensorHealth(r, t).severity = SeverityOfState(t.state)
    BY <2>1, <2>2 DEF SensorHealth
  <2>4. t.state # "within_range"
    BY <2>3 DEF SeverityOfState
  <2>5. Breached(v, spec) # {} \/ Outside(v, CHOOSE b \in spec.operating : TRUE)
    BY <2>1, <2>4 DEF StateOf
  <2>6. (CHOOSE b \in spec.operating : TRUE) \in spec.operating
    BY <1>2
  <2>. QED BY <1>2, <2>5, <2>6 DEF Cause
<1>. QED BY <1>1, <1>2

LEMMA DegradedLevelHasSensor ==
  ASSUME NEW rel, NEW thr, NEW sub, Results(rel, thr), \A u \in DOMAIN sub : sub[u] \subseteq DOMAIN rel
  PROVE  LET h == UnitHealth(rel, thr, sub)
         IN  /\ \A k \in DOMAIN rel : h.sensors[k] = SensorHealth(rel[k], thr[k])
             /\ \A u \in DOMAIN sub : h.subsystems[u].severity # "ok" =>
                  \E k \in sub[u] : h.sensors[k].severity = h.subsystems[u].severity
             /\ h.equipment.severity # "ok" =>
                  \E u \in DOMAIN sub : \E k \in sub[u] : h.sensors[k].severity = h.equipment.severity
<1> DEFINE sensors == [j \in DOMAIN rel |-> SensorHealth(rel[j], thr[j])]
           subsystems == [v \in DOMAIN sub |-> HealthRollup(Restrict(sensors, sub[v] \cap DOMAIN rel))]
           h == UnitHealth(rel, thr, sub)
<1>1. h = [sensors |-> sensors, subsystems |-> subsystems, equipment |-> HealthRollup(subsystems)]
  BY DEF UnitHealth
<1>2. \A j \in DOMAIN rel : sensors[j].severity \in SeveritySet
  BY SensorSeverity DEF Results
<1>3. \A j \in DOMAIN rel : sensors[j] = SensorHealth(rel[j], thr[j])
  OBVIOUS
<1>4. DOMAIN subsystems = DOMAIN sub
  OBVIOUS
<1>. HIDE DEF sensors
<1>5. ASSUME NEW u \in DOMAIN sub
      PROVE  /\ subsystems[u].severity \in SeveritySet
             /\ subsystems[u].severity # "ok" => \E k \in sub[u] : sensors[k].severity = subsystems[u].severity
  <2> DEFINE child == Restrict(sensors, sub[u] \cap DOMAIN rel)
             S == {child[j].severity : j \in DOMAIN child}
  <2>1. DOMAIN child = sub[u] /\ \A j \in DOMAIN child : child[j] = sensors[j]
    BY DEF Restrict
  <2>2. subsystems[u] = HealthRollup(child)
    OBVIOUS
  <2>. HIDE DEF child, subsystems
  <2>3. S \in SUBSET SeveritySet
    BY <1>2, <2>1
  <2>4. CASE DOMAIN child = {}
    BY <2>2, <2>4, EmptyRollup DEF SeveritySet
  <2>5. CASE DOMAIN child # {}
    <3>1. subsystems[u].severity = Worst(S)
      BY <2>2, <2>5, RollupSeverity
    <3>2. Worst(S) \in S
      BY <2>3, <2>5, WorstIsAttained
    <3>. QED BY <2>1, <2>3, <3>1, <3>2
  <2>. QED BY <2>4, <2>5
<1>. HIDE DEF subsystems
<1>6. ASSUME HealthRollup(subsystems).severity # "ok"
      PROVE  \E u \in DOMAIN sub : subsystems[u].severity = HealthRollup(subsystems).severity
  <2> DEFINE S == {subsystems[v].severity : v \in DOMAIN subsystems}
  <2>1. DOMAIN subsystems # {}
    BY <1>6, EmptyRollup
  <2>2. HealthRollup(subsystems).severity = Worst(S)
    BY <2>1, RollupSeverity
  <2>3. S \in SUBSET SeveritySet /\ S # {}
    BY <1>4, <1>5, <2>1
  <2>4. Worst(S) \in S
    BY <2>3, WorstIsAttained
  <2>. QED BY <1>4, <2>2, <2>4
<1>7. h.sensors = sensors /\ h.subsystems = subsystems /\ h.equipment = HealthRollup(subsystems)
  BY <1>1
<1>. HIDE DEF h
<1>8. /\ \A k \in DOMAIN rel : h.sensors[k] = SensorHealth(rel[k], thr[k])
      /\ \A u \in DOMAIN sub : h.subsystems[u].severity # "ok" =>
           \E k \in sub[u] : h.sensors[k].severity = h.subsystems[u].severity
      /\ h.equipment.severity # "ok" =>
           \E u \in DOMAIN sub : \E k \in sub[u] : h.sensors[k].severity = h.equipment.severity
  BY <1>3, <1>5, <1>6, <1>7
<1>. QED BY <1>8 DEF h

-----------------------------------------------------------------------------
(* Sorting: the element that n - 1 others are below. *)

LEMMA FirstNumbers ==
  ASSUME NEW n \in Nat
  PROVE  IsFiniteSet(1 .. n) /\ Cardinality(1 .. n) = n
BY FS_Interval

LEMMA Numbers ==
  ASSUME NEW a \in Int, NEW b \in Int, a <= b
  PROVE  IsFiniteSet(a .. b) /\ Cardinality(a .. b) = b - a + 1
BY FS_Interval

Below(g, X, x) == {y \in X : g[y] < g[x]}

LEMMA RankGrows ==
  ASSUME NEW X, IsFiniteSet(X), NEW g \in [X -> Int], NEW x \in X, NEW y \in X, g[x] < g[y]
  PROVE  Cardinality(Below(g, X, x)) < Cardinality(Below(g, X, y))
<1>1. /\ Below(g, X, x) \in SUBSET Below(g, X, y) /\ Below(g, X, y) \in SUBSET X
      /\ x \in Below(g, X, y) /\ x \notin Below(g, X, x)
  BY DEF Below
<1>2. IsFiniteSet(Below(g, X, y))
  BY <1>1, FS_Subset
<1>3. /\ IsFiniteSet(Below(g, X, x)) /\ Cardinality(Below(g, X, x)) <= Cardinality(Below(g, X, y))
      /\ Cardinality(Below(g, X, y)) # Cardinality(Below(g, X, x))
  BY <1>1, <1>2, FS_Subset
<1>4. Cardinality(Below(g, X, x)) \in Nat /\ Cardinality(Below(g, X, y)) \in Nat
  BY <1>2, <1>3, FS_CardinalityType
<1>. QED BY <1>3, <1>4

LEMMA EveryRankIsTaken ==
  ASSUME NEW X, IsFiniteSet(X), NEW g \in [X -> Int], \A x, y \in X : g[x] = g[y] => x = y
  PROVE  \A n \in 1 .. Cardinality(X) : \E x \in X : Cardinality(Below(g, X, x)) = n - 1
<1> DEFINE r == [x \in X |-> Cardinality(Below(g, X, x))]
           N == 0 .. Cardinality(X) - 1
<1>1. Cardinality(X) \in Nat
  BY FS_CardinalityType
<1>2. IsFiniteSet(N) /\ Cardinality(N) = Cardinality(X)
  BY <1>1, FS_Interval
<1>3. r \in [X -> N]
  <2>1. ASSUME NEW x \in X PROVE Cardinality(Below(g, X, x)) \in N
    <3>1. Below(g, X, x) \in SUBSET (X \ {x})
      BY DEF Below
    <3>2. IsFiniteSet(X \ {x}) /\ Cardinality(X \ {x}) = Cardinality(X) - 1
      BY FS_RemoveElement
    <3>3. IsFiniteSet(Below(g, X, x)) /\ Cardinality(Below(g, X, x)) <= Cardinality(X) - 1
      BY <3>1, <3>2, FS_Subset
    <3>. QED BY <1>1, <3>3, FS_CardinalityType
  <2>. QED BY <2>1
<1>4. \A x, y \in X : r[x] = r[y] => x = y
  <2>1. ASSUME NEW x \in X, NEW y \in X, x # y PROVE r[x] # r[y]
    <3>1. g[x] < g[y] \/ g[y] < g[x]
      BY <2>1
    <3>2. r[x] < r[y] \/ r[y] < r[x]
      BY <3>1, RankGrows
    <3>3. r[x] \in Int /\ r[y] \in Int
      BY <1>3
    <3>. QED BY <3>2, <3>3
  <2>. QED BY <2>1
<1>. HIDE DEF r, N
<1>5. r \in Injection(X, N)
  BY <1>3, <1>4 DEF Injection, IsInjective
<1>6. r \in Surjection(X, N)
  BY <1>2, <1>5, FS_Injection
<1>7. \A n \in N : \E x \in X : r[x] = n
  BY <1>6 DEF Surjection
<1>. QED BY <1>1, <1>7 DEF r, N

(* The elements of X in the order of g. *)
IsOrder(s, g, X) ==
  /\ DOMAIN s = 1 .. Cardinality(X)
  /\ \A n \in DOMAIN s : s[n] \in X
  /\ \A x \in X : \E n \in DOMAIN s : s[n] = x
  /\ \A m, n \in DOMAIN s : m < n => g[s[m]] < g[s[n]]

RankedBy(s, X, r, l) ==
  /\ r \in [X -> 0 .. l - 1] /\ l \in Nat /\ DOMAIN s = 1 .. l
  /\ \A n \in DOMAIN s : s[n] \in X /\ r[s[n]] = n - 1

LEMMA RanksInOrder ==
  ASSUME NEW X, NEW g \in [X -> Int], \A x, y \in X : g[x] = g[y] => x = y,
         NEW r, NEW l, NEW s, RankedBy(s, X, r, l),
         \A x, y \in X : g[x] < g[y] => r[x] < r[y]
  PROVE  /\ \A m, n \in DOMAIN s : m < n => g[s[m]] < g[s[n]]
         /\ \A x \in X : \E n \in DOMAIN s : s[n] = x
<1>. USE DEF RankedBy
<1>1. ASSUME NEW m \in 1 .. l, NEW n \in 1 .. l, m < n PROVE g[s[m]] < g[s[n]]
  <2>1. s[m] \in X /\ s[n] \in X /\ r[s[m]] < r[s[n]]
    BY <1>1
  <2>2. r[s[m]] \in Int /\ r[s[n]] \in Int /\ g[s[m]] \in Int /\ g[s[n]] \in Int
    BY <2>1
  <2>3. g[s[m]] # g[s[n]] /\ ~(g[s[n]] < g[s[m]])
    BY <2>1, <2>2
  <2>. QED BY <2>2, <2>3
<1>2. ASSUME NEW x \in X PROVE \E n \in DOMAIN s : s[n] = x
  <2>1. r[x] + 1 \in 1 .. l /\ (r[x] + 1) - 1 = r[x] /\ r[x] \in Int
    OBVIOUS
  <2>2. s[r[x] + 1] \in X /\ r[s[r[x] + 1]] = r[x]
    BY <2>1
  <2>3. g[s[r[x] + 1]] \in Int /\ g[x] \in Int
    BY <2>2
  <2>4. g[s[r[x] + 1]] = g[x]
    BY <2>1, <2>2, <2>3
  <2>. QED BY <2>1, <2>2, <2>4
<1>. QED BY <1>1, <1>2

LEMMA RanksOrder ==
  ASSUME NEW X, IsFiniteSet(X), NEW g \in [X -> Int], \A x, y \in X : g[x] = g[y] => x = y,
         NEW s, DOMAIN s = 1 .. Cardinality(X),
         \A n \in DOMAIN s : s[n] \in X /\ Cardinality(Below(g, X, s[n])) = n - 1
  PROVE  IsOrder(s, g, X)
<1> DEFINE r == [x \in X |-> Cardinality(Below(g, X, x))]
           l == Cardinality(X)
<1>1. l \in Nat
  BY FS_CardinalityType
<1>2. \A x, y \in X : g[x] < g[y] => r[x] < r[y]
  BY RankGrows
<1>3. r \in [X -> 0 .. l - 1]
  <2>1. ASSUME NEW x \in X PROVE r[x] \in 0 .. l - 1
    <3>1. Below(g, X, x) \in SUBSET (X \ {x})
      BY DEF Below
    <3>2. IsFiniteSet(X \ {x}) /\ Cardinality(X \ {x}) = l - 1
      BY FS_RemoveElement
    <3>3. IsFiniteSet(Below(g, X, x)) /\ Cardinality(Below(g, X, x)) <= l - 1
      BY <3>1, <3>2, FS_Subset
    <3>4. Cardinality(Below(g, X, x)) \in Nat
      BY <3>3, FS_CardinalityType
    <3>. QED BY <1>1, <3>3, <3>4
  <2>. QED BY <2>1
<1>4. RankedBy(s, X, r, l)
  BY <1>1, <1>3 DEF RankedBy
<1>. HIDE DEF r, l
<1>5. \A x \in X : \E n \in DOMAIN s : s[n] = x
  BY <1>2, <1>4, RanksInOrder
<1>6. \A m, n \in DOMAIN s : m < n => g[s[m]] < g[s[n]]
  BY <1>2, <1>4, RanksInOrder
<1>. QED BY <1>5, <1>6 DEF IsOrder

(* A finite set of integers in order. *)
Enumerates(s, T) ==
  /\ Cardinality(T) \in Nat /\ s \in [1 .. Cardinality(T) -> T]
  /\ \A t \in T : \E n \in DOMAIN s : s[n] = t
  /\ \A m, n \in DOMAIN s : m < n => s[m] < s[n]

LEMMA SortedSet ==
  ASSUME NEW T \in SUBSET Int, IsFiniteSet(T)
  PROVE  Enumerates(InOrder(T), T)
<1> DEFINE s == InOrder(T)
           g == [t \in T |-> t]
           HasRank(t, n) == Cardinality({u \in T : u < t}) = n - 1
<1>1. g \in [T -> Int] /\ (\A x, y \in T : g[x] = g[y] => x = y) /\ \A t \in T : g[t] = t
  OBVIOUS
<1>2. \A t \in T : Below(g, T, t) = {u \in T : u < t}
  BY DEF Below
<1>. HIDE DEF g
<1>3. \A n \in 1 .. Cardinality(T) : \E t \in T : Cardinality(Below(g, T, t)) = n - 1
  BY <1>1, EveryRankIsTaken
<1>4. \A n \in 1 .. Cardinality(T) : \E t \in T : HasRank(t, n)
  BY <1>2, <1>3
<1>5. /\ s = [n \in 1 .. Cardinality(T) |-> s[n]] /\ DOMAIN s = 1 .. Cardinality(T)
      /\ \A n \in DOMAIN s : s[n] = CHOOSE t \in T : HasRank(t, n)
  <2>1. s = [n \in 1 .. Cardinality(T) |-> CHOOSE t \in T : HasRank(t, n)]
    BY DEF InOrder
  <2>. HIDE DEF HasRank, s
  <2>. QED BY <2>1
<1>. HIDE DEF s
<1>6. \A n \in DOMAIN s : s[n] \in T /\ HasRank(s[n], n)
  <2>. HIDE DEF HasRank
  <2>. QED BY <1>4, <1>5
<1>7. \A n \in DOMAIN s : s[n] \in T /\ Cardinality(Below(g, T, s[n])) = n - 1
  BY <1>2, <1>6
<1>8. IsOrder(s, g, T)
  BY <1>1, <1>5, <1>7, RanksOrder
<1>9. DOMAIN s = 1 .. Cardinality(T) /\ Cardinality(T) \in Nat /\ \A n \in DOMAIN s : s[n] \in T
  BY <1>5, <1>6, FS_CardinalityType
<1>10. \A t \in T : \E n \in DOMAIN s : s[n] = t
  BY <1>8 DEF IsOrder
<1>11. ASSUME NEW m \in DOMAIN s, NEW n \in DOMAIN s, m < n PROVE s[m] < s[n]
  <2>1. g[s[m]] < g[s[n]]
    BY <1>8, <1>11 DEF IsOrder
  <2>. QED BY <1>1, <1>9, <2>1
<1>12. s \in [1 .. Cardinality(T) -> T]
  BY <1>5, <1>9
<1>. QED BY <1>9, <1>10, <1>11, <1>12 DEF Enumerates, s

LEMMA RowOfCell ==
  ASSUME NEW c \in Nat, NEW l \in Nat, NEW n \in 1 .. c * l
  PROVE  ((n - 1) \div c) + 1 \in 1 .. l /\ ((n - 1) % c) + 1 \in 1 .. c
<1>1. c > 0
  <2>1. c = 0 => c * l = 0
    OBVIOUS
  <2>. QED BY <2>1
<1>2. c * l \in Int /\ n - 1 \in Nat /\ n - 1 < c * l
  OBVIOUS
<1> DEFINE q == (n - 1) \div c
           d == (n - 1) % c
<1>3. q \in Int /\ d \in 0 .. c - 1 /\ n - 1 = c * q + d
  BY <1>1, <1>2
<1>. HIDE DEF q, d
<1>4. q >= 0
  BY <1>1, <1>2, <1>3
<1>5. q < l
  BY <1>1, <1>2, <1>3
<1>. QED BY <1>3, <1>4, <1>5 DEF q, d

-----------------------------------------------------------------------------
(* The readings, from the file and the batches to the history of a forecast. *)

LEMMA WriteAdds ==
  ASSUME NEW t, NEW readings
  PROVE  /\ DOMAIN Write(t, readings) = DOMAIN t \cup {<<r.key, r.at>> : r \in readings}
         /\ \A p \in DOMAIN t : Write(t, readings)[p] = t[p]
<1> DEFINE new == AsTable(readings)
<1>1. DOMAIN new = {<<r.key, r.at>> : r \in readings}
  BY DEF AsTable
<1>2. Write(t, readings) = [p \in DOMAIN t \cup DOMAIN new |-> IF p \in DOMAIN t THEN t[p] ELSE new[p]]
  BY DEF Write
<1>. QED BY <1>1, <1>2

(* A set of readings, finitely many at times. *)
Timed(readings) == IsFiniteSet(readings) /\ \A r \in readings : r.at \in Int
TableInv == IsFiniteSet(DOMAIN table) /\ \A p \in DOMAIN table : p[2] \in Int

LEMMA AcceptedAreTimed ==
  ASSUME NEW b, IsFiniteSet(DOMAIN b), \A i \in DOMAIN b : b[i].at \in Int
  PROVE  Timed(Accepted(b))
<1>1. Accepted(b) \in SUBSET {b[i] : i \in DOMAIN b}
  BY DEF Accepted
<1>2. IsFiniteSet({b[i] : i \in DOMAIN b})
  BY ImageIsFinite
<1>. QED BY <1>1, <1>2, FS_Subset DEF Timed

LEMMA TimedPlaces ==
  ASSUME NEW readings, Timed(readings)
  PROVE  /\ IsFiniteSet({<<r.key, r.at>> : r \in readings})
         /\ \A p \in {<<r.key, r.at>> : r \in readings} : p[2] \in Int
<1> DEFINE F == [r \in readings |-> <<r.key, r.at>>]
<1>1. IsFiniteSet({F[r] : r \in DOMAIN F})
  BY ImageIsFinite DEF Timed
<1>2. {F[r] : r \in DOMAIN F} = {<<r.key, r.at>> : r \in readings}
  OBVIOUS
<1>. QED BY <1>1, <1>2 DEF Timed

LEMMA WriteKeepsTimes ==
  ASSUME NEW t, IsFiniteSet(DOMAIN t), \A p \in DOMAIN t : p[2] \in Int,
         NEW readings, Timed(readings)
  PROVE  IsFiniteSet(DOMAIN Write(t, readings)) /\ \A p \in DOMAIN Write(t, readings) : p[2] \in Int
<1> DEFINE P == {<<r.key, r.at>> : r \in readings}
<1>1. DOMAIN Write(t, readings) = DOMAIN t \cup P
  BY WriteAdds
<1>2. IsFiniteSet(P) /\ \A p \in P : p[2] \in Int
  BY TimedPlaces
<1>. HIDE DEF P
<1>. QED BY <1>1, <1>2, FS_Union

(* The file's rows in the order of their times. *)
Dated(f) == f.at \in Seq({Bad} \cup Int) /\ IsInjective(f.at) /\ Readable(f)

LEMMA FileRows ==
  ASSUME NEW f, Dated(f)
  PROVE  /\ IsFiniteSet(DOMAIN f.at) /\ f.at \in [DOMAIN f.at -> Int]
         /\ DOMAIN f.at = 1 .. Len(f.at) /\ Len(f.at) \in Nat /\ Cardinality(DOMAIN f.at) = Len(f.at)
         /\ \A x, y \in DOMAIN f.at : f.at[x] = f.at[y] => x = y
<1>1. f.at \in Seq({Bad} \cup Int) /\ DOMAIN f.at = 1 .. Len(f.at) /\ Len(f.at) \in Nat
  BY DEF Dated
<1>2. \A i \in DOMAIN f.at : f.at[i] \in Int
  BY <1>1 DEF Dated, Readable, Range
<1>3. IsFiniteSet(1 .. Len(f.at)) /\ Cardinality(1 .. Len(f.at)) = Len(f.at)
  BY <1>1, FirstNumbers
<1>4. f.at \in [DOMAIN f.at -> Int]
  BY <1>1, <1>2
<1>. QED BY <1>1, <1>3, <1>4 DEF Dated, IsInjective

RowOrder(f) ==
  [n \in DOMAIN f.at |->
     CHOOSE i \in DOMAIN f.at : Cardinality({j \in DOMAIN f.at : f.at[j] < f.at[i]}) = n - 1]

LEMMA RowsAreOrdered ==
  ASSUME NEW f, Dated(f)
  PROVE  /\ CsvFrame(f).at = [n \in DOMAIN f.at |-> f.at[RowOrder(f)[n]]]
         /\ IsOrder(RowOrder(f), f.at, DOMAIN f.at)
<1> DEFINE g == f.at
           X == DOMAIN f.at
           s == RowOrder(f)
           HasRank(i, n) == Cardinality(Below(g, X, i)) = n - 1
<1>1. CsvFrame(f).at = [n \in DOMAIN f.at |-> f.at[RowOrder(f)[n]]]
  BY DEF CsvFrame, RowOrder
<1>2. \A n \in 1 .. Cardinality(X) : \E i \in X : HasRank(i, n)
  BY FileRows, EveryRankIsTaken
<1>3. DOMAIN s = 1 .. Cardinality(X) /\ \A n \in DOMAIN s : s[n] = CHOOSE i \in X : HasRank(i, n)
  BY FileRows DEF RowOrder, Below
<1>4. \A n \in DOMAIN s : s[n] \in X /\ HasRank(s[n], n)
  <2>. HIDE DEF HasRank, s, X
  <2>. QED BY <1>2, <1>3
<1>5. IsOrder(s, g, X)
  <2>. HIDE DEF s
  <2>. QED BY FileRows, <1>3, <1>4, RanksOrder
<1>. QED BY <1>1, <1>5

LEMMA MeltIsTimed ==
  ASSUME NEW f, NEW l \in Nat, f.at \in [1 .. l -> Int], Len(f.at) = l
  PROVE  /\ DOMAIN Melt(f) = 1 .. Len(Columns) * l
         /\ IsFiniteSet(DOMAIN Melt(f)) /\ \A i \in DOMAIN Melt(f) : Melt(f)[i].at \in Int
<1>1. Len(Columns) \in Nat
  BY ReadingsAssumption
<1> DEFINE c == Len(Columns)
<1>2. DOMAIN Melt(f) = 1 .. c * l
  BY DEF Melt
<1>3. \A n \in 1 .. c * l : Melt(f)[n].at = f.at[((n - 1) \div c) + 1]
  BY DEF Melt
<1>. HIDE DEF c
<1>4. c \in Nat /\ c * l \in Nat
  BY <1>1 DEF c
<1>5. \A n \in 1 .. c * l : Melt(f)[n].at \in Int
  BY <1>3, <1>4, RowOfCell
<1>6. IsFiniteSet(1 .. c * l)
  <2>1. ASSUME NEW n \in Nat PROVE IsFiniteSet(1 .. n)
    BY FirstNumbers
  <2>. HIDE DEF c
  <2>. QED BY <1>4, <2>1
<1>. QED BY <1>2, <1>5, <1>6 DEF c

LEMMA EndsOfASet ==
  ASSUME NEW s, NEW T \in SUBSET Int, Enumerates(s, T), T # {}
  PROVE  /\ s[1] \in T /\ Last(s) \in T
         /\ \A t \in T : s[1] <= t /\ t <= Last(s)
<1> DEFINE m == Cardinality(T)
<1>1. m \in Nat /\ s \in [1 .. m -> T]
  BY DEF Enumerates
<1>2. \A t \in T : \E n \in 1 .. m : s[n] = t
  BY <1>1 DEF Enumerates
<1>3. \A k, n \in 1 .. m : k < n => s[k] < s[n]
  BY <1>1 DEF Enumerates
<1>. HIDE DEF m
<1>4. m > 0
  <2>1. PICK t \in T : TRUE
    OBVIOUS
  <2>2. PICK n \in 1 .. m : s[n] = t
    BY <1>2
  <2>. QED BY <1>1, <2>2
<1>5. s \in Seq(T) /\ Len(s) = m
  BY <1>1
<1>6. Last(s) = s[m]
  BY <1>5 DEF Last
<1>7. ASSUME NEW t \in T PROVE s[1] <= t /\ t <= s[m]
  <2>1. PICK n \in 1 .. m : s[n] = t
    BY <1>2
  <2>2. (1 < n => s[1] < s[n]) /\ (n < m => s[n] < s[m])
    BY <1>1, <1>3, <1>4, <2>1
  <2>3. s[1] \in T /\ s[m] \in T
    BY <1>1, <1>4
  <2>4. s[1] \in Int /\ s[m] \in Int /\ t \in Int
    BY <2>3
  <2>. QED BY <1>1, <2>1, <2>2, <2>4
<1>. QED BY <1>1, <1>4, <1>6, <1>7

LEMMA GreatestOfASet ==
  ASSUME NEW T \in SUBSET Int, IsFiniteSet(T), T # {}
  PROVE  Max(T) \in T /\ \A t \in T : t <= Max(T)
<1>1. Enumerates(InOrder(T), T)
  BY SortedSet
<1>2. \E x \in T : \A t \in T : x >= t
  BY <1>1, EndsOfASet
<1>. QED BY <1>2 DEF Max

ReadAt(f, k, b) == \E i \in DOMAIN f.at : f.at[i] \div Step = b /\ f.col[k][i] # Missing
Unbroken(f, k, from, to) ==
  /\ \A b \in from .. to : ReadAt(f, k, b)
  /\ ~ReadAt(f, k, from - 1)
  /\ \A i \in DOMAIN f.at : f.col[k][i] # Missing => f.at[i] \div Step <= to

OnTime(f) == IsFiniteSet(DOMAIN f.at) /\ \A i \in DOMAIN f.at : f.at[i] \in Int

LEMMA StepsAreFinite ==
  ASSUME NEW f, NEW k, OnTime(f)
  PROVE  /\ StepsOf(f, k) \in SUBSET Int /\ IsFiniteSet(StepsOf(f, k))
         /\ \A b : b \in StepsOf(f, k) <=> ReadAt(f, k, b)
         /\ \A i \in DOMAIN f.at : f.at[i] \div Step \in Int
<1> DEFINE X == {j \in DOMAIN f.at : f.col[k][j] # Missing}
           F == [i \in X |-> f.at[i] \div Step]
<1>1. Step \in Nat /\ Step > 0
  BY LearningAssumption
<1>2. \A i \in DOMAIN f.at : f.at[i] \div Step \in Int
  BY <1>1 DEF OnTime
<1>3. StepsOf(f, k) = {F[i] : i \in DOMAIN F}
  BY DEF StepsOf
<1>4. DOMAIN F \in SUBSET (DOMAIN f.at) /\ \A i \in DOMAIN F : F[i] \in Int
  BY <1>2
<1>5. \A b : b \in StepsOf(f, k) <=> ReadAt(f, k, b)
  BY DEF StepsOf, ReadAt
<1>. HIDE DEF F
<1>6. IsFiniteSet(DOMAIN F)
  BY <1>4, FS_Subset DEF OnTime
<1>7. IsFiniteSet(StepsOf(f, k))
  BY <1>3, <1>6, ImageIsFinite
<1>. QED BY <1>2, <1>3, <1>4, <1>5, <1>7

LEMMA TrailingIsUnbroken ==
  ASSUME NEW S \in SUBSET Int, IsFiniteSet(S), NEW s, Enumerates(s, Trailing(S)), Trailing(S) # {}
  PROVE  /\ s[1] \in Int /\ Last(s) \in S
         /\ s[1] .. Last(s) \subseteq S
         /\ s[1] - 1 \notin S
         /\ \A b \in S : b <= Last(s)
<1> DEFINE K == Trailing(S)
           M == Max(S)
<1>1. K \in SUBSET S /\ S # {} /\ \A b \in S : b \in K <=> b .. M \subseteq S
  BY DEF Trailing
<1>2. M \in S /\ \A t \in S : t <= M
  BY <1>1, GreatestOfASet
<1>3. /\ s[1] \in K /\ Last(s) \in K
      /\ \A t \in K : s[1] <= t /\ t <= Last(s)
  BY <1>1, EndsOfASet
<1>. HIDE DEF K, M
<1>4. M \in K
  BY <1>1, <1>2
<1>5. Last(s) = M
  <2>1. Last(s) <= M /\ M <= Last(s) /\ M \in Int /\ Last(s) \in Int
    BY <1>1, <1>2, <1>3, <1>4
  <2>. QED BY <2>1
<1>6. s[1] .. M \subseteq S
  BY <1>1, <1>3
<1>7. s[1] - 1 \notin S
  <2>1. SUFFICES ASSUME s[1] - 1 \in S PROVE FALSE
    OBVIOUS
  <2>2. s[1] \in Int /\ M \in Int
    BY <1>1, <1>2, <1>3
  <2>3. \A b \in (s[1] - 1) .. M : b = s[1] - 1 \/ b \in s[1] .. M
    BY <2>2
  <2>4. s[1] - 1 \in K
    BY <1>1, <1>6, <2>1, <2>3
  <2>. QED BY <1>3, <2>2, <2>4
<1>. QED BY <1>1, <1>2, <1>3, <1>5, <1>6, <1>7

LEMMA HistoriesAreUnbroken ==
  ASSUME NEW f, NEW k, OnTime(f), NEW h \in Histories(f, k)
  PROVE  Unbroken(f, k, h.from, h.to)
<1> DEFINE steps == StepsOf(f, k)
           kept == IF steps = {} THEN {} ELSE Trailing(steps)
           sorted == InOrder(kept)
<1>1. /\ ~(Cardinality(kept) < Max({MinHistory, 2 * Season}))
      /\ h.from = sorted[1] /\ h.to = Last(sorted)
  <2>. HIDE DEF kept, sorted, steps
  <2>1. h \in IF Cardinality(kept) < Max({MinHistory, 2 * Season}) THEN {}
             ELSE {[from |-> sorted[1], to |-> Last(sorted), y |-> [i \in DOMAIN sorted |-> MeanAt(f, k, sorted[i])]]}
    BY Zenon DEF Histories, kept, sorted, steps
  <2>. QED BY <2>1
<1>2. steps \in SUBSET Int /\ IsFiniteSet(steps)
  BY StepsAreFinite
<1>3. kept # {}
  <2>1. CASE kept = {}
    <3>1. Cardinality(kept) = 0
      BY <2>1, FS_EmptySet
    <3>2. MinHistory \in Nat /\ Season \in Nat /\ MinHistory >= 2 * Season /\ Season >= 2
      BY LearningAssumption
    <3>3. {MinHistory, 2 * Season} \in SUBSET Int /\ {MinHistory, 2 * Season} # {}
      BY <3>2
    <3>4. IsFiniteSet({MinHistory, 2 * Season})
      BY FewAreFinite
    <3>5. MinHistory <= Max({MinHistory, 2 * Season}) /\ Max({MinHistory, 2 * Season}) \in {MinHistory, 2 * Season}
      BY <3>3, <3>4, GreatestOfASet
    <3>. QED BY <1>1, <3>1, <3>2, <3>5
  <2>. QED BY <2>1
<1>4. kept = Trailing(steps)
  BY <1>3
<1>5. kept \in SUBSET Int /\ IsFiniteSet(kept)
  <2>1. kept \in SUBSET steps
    BY <1>4 DEF Trailing
  <2>. QED BY <1>2, <2>1, FS_Subset
<1>6. Enumerates(sorted, kept)
  <2>. HIDE DEF kept
  <2>. QED BY <1>5, SortedSet
<1>. HIDE DEF sorted, kept, steps
<1>7. /\ sorted[1] .. Last(sorted) \subseteq steps
      /\ sorted[1] - 1 \notin steps
      /\ \A b \in steps : b <= Last(sorted)
  BY <1>2, <1>3, <1>4, <1>6, TrailingIsUnbroken
<1>8. /\ \A b : b \in steps <=> ReadAt(f, k, b)
      /\ \A i \in DOMAIN f.at : f.at[i] \div Step \in Int
  BY StepsAreFinite DEF steps
<1>9. \A i \in DOMAIN f.at : f.col[k][i] # Missing => ReadAt(f, k, f.at[i] \div Step)
  BY DEF ReadAt
<1>. QED BY <1>1, <1>7, <1>8, <1>9 DEF Unbroken
-----------------------------------------------------------------------------
(* What a forecast says of its history, and the times the engines see. *)
ForecastsOf(r) == {p \in r.patterns : p.kind = "forecast"}
FromHistory(p) == \E h \in Histories(frame, p.of) : p.from = h.from /\ p.to = h.to
GridInv == stage \notin {"source", "seeded", "rejected"} => Enumerates(frame.at, {p[2] : p \in DOMAIN table})
FileInv ==
  /\ file \in Files
  /\ stage = "seeded" => Readable(file)
Forecast == {"forecast", "recorded", "answered"}
PatternInv ==
  /\ stage \notin Forecast => results = <<>>
  /\ \A i \in DOMAIN results : \A p \in ForecastsOf(results[i]) : FromHistory(p)
HistoryInv == FileInv /\ TableInv /\ GridInv /\ PatternInv

LEMMA FilesAreDated ==
  ASSUME NEW f \in Files, Readable(f)
  PROVE  Dated(f)
BY FilesAreTables DEF Dated

LEMMA SeedIsTimed ==
  ASSUME NEW f, Dated(f)
  PROVE  Timed(Accepted(Melt(CsvFrame(f))))
<1> DEFINE c == CsvFrame(f)
           l == Len(f.at)
<1>1. l \in Nat /\ DOMAIN f.at = 1 .. l /\ f.at \in [1 .. l -> Int] /\ Cardinality(DOMAIN f.at) = l
  BY FileRows
<1>2. c.at = [n \in 1 .. l |-> f.at[RowOrder(f)[n]]] /\ \A n \in 1 .. l : RowOrder(f)[n] \in 1 .. l
  BY <1>1, RowsAreOrdered DEF IsOrder
<1>. HIDE DEF c, l
<1>3. c.at \in [1 .. l -> Int] /\ Len(c.at) = l
  BY <1>1, <1>2
<1>4. IsFiniteSet(DOMAIN Melt(c)) /\ \A i \in DOMAIN Melt(c) : Melt(c)[i].at \in Int
  BY <1>1, <1>3, MeltIsTimed
<1>. QED BY <1>4, AcceptedAreTimed DEF c

LEMMA BatchesAreTimed ==
  ASSUME NEW f \in Files, NEW b \in Batches[f]
  PROVE  /\ b # <<>> /\ DOMAIN b = 1 .. Len(b) /\ Len(b) \in Nat
         /\ IsFiniteSet(DOMAIN b) /\ \A i \in DOMAIN b : b[i].at \in Int
<1>1. /\ b # <<>> /\ DOMAIN b = 1 .. Len(b) /\ Len(b) \in Nat
      /\ \A i \in DOMAIN b : b[i].at \in Int
  BY BatchesAreRead
<1>2. IsFiniteSet(1 .. Len(b))
  BY <1>1, FirstNumbers
<1>. QED BY <1>1, <1>2

LEMMA TableHasTimes ==
  ASSUME TableInv
  PROVE  {p[2] : p \in DOMAIN table} \in SUBSET Int /\ IsFiniteSet({p[2] : p \in DOMAIN table})
<1> DEFINE F == [p \in DOMAIN table |-> p[2]]
<1>1. IsFiniteSet({F[p] : p \in DOMAIN F})
  BY ImageIsFinite DEF TableInv
<1>2. {F[p] : p \in DOMAIN F} = {p[2] : p \in DOMAIN table}
  OBVIOUS
<1>. QED BY <1>1, <1>2 DEF TableInv

LEMMA FrameIsOnTime ==
  ASSUME TableInv, GridInv, stage \notin {"source", "seeded", "rejected"}
  PROVE  OnTime(frame)
<1> DEFINE T == {p[2] : p \in DOMAIN table}
<1>1. T \in SUBSET Int /\ Enumerates(frame.at, T)
  BY TableHasTimes DEF GridInv
<1>. HIDE DEF T
<1>2. Cardinality(T) \in Nat /\ frame.at \in [1 .. Cardinality(T) -> T]
  BY <1>1 DEF Enumerates
<1>3. IsFiniteSet(1 .. Cardinality(T))
  BY <1>2, FirstNumbers
<1>. QED BY <1>1, <1>2, <1>3 DEF OnTime

LEMMA ForecastsComeFromHistories ==
  \A p \in ForecastsOf(ForecastUnit(frame, Limits)) : FromHistory(p)
<1>1. SUFFICES ASSUME NEW p \in ForecastUnit(frame, Limits).patterns PROVE FromHistory(p)
  BY DEF ForecastsOf
<1>2. PICK k, band : \E r \in ForecastSensor(frame, k, band) : p = r.pattern
  BY DEF ForecastUnit, Forecasted, Result
<1>3. PICK h \in Histories(frame, k) : p = ForecastBy(SelectModel(h.y), h, k, band).pattern
  BY <1>2, Zenon DEF ForecastSensor
<1>4. p.of = k /\ p.from = h.from /\ p.to = h.to
  BY <1>3 DEF ForecastBy
<1>. QED BY <1>3, <1>4 DEF FromHistory

LEMMA NoOtherForecasts ==
  ASSUME NEW features, NEW raw
  PROVE  ForecastsOf(Novelty(features, raw)) = {} /\ ForecastsOf(Clusters(features, raw)) = {}
<1>1. \A p \in Novelty(features, raw).patterns : p.kind = "novelty"
  BY DEF Novelty, Result
<1>2. \A p \in Clusters(features, raw).patterns : p.kind = "regime"
  <2> DEFINE few == features.n < MinRegimes \/ Min({Regimes, features.n}) < 2
             group(c) == [kind |-> "regime", of |-> c, support |-> Cardinality({i \in DOMAIN raw : raw[i] = c}),
                          lifecycle |-> Lifecycle({i \in DOMAIN raw : raw[i] = c}, features.n)]
  <2>1. Clusters(features, raw).patterns = IF few THEN {} ELSE {group(c) : c \in Range(raw)}
    BY DEF Clusters, Result
  <2>2. \A c : group(c).kind = "regime"
    OBVIOUS
  <2>. HIDE DEF few, group
  <2>. QED BY <2>1, <2>2
<1>. QED BY <1>1, <1>2 DEF ForecastsOf

LEMMA HistoriesAreRead == InsightSpec => []HistoryInv
<1>1. InsightInit => HistoryInv
  BY FS_EmptySet DEF InsightInit, HistoryInv, FileInv, TableInv, GridInv, PatternInv, Forecast
<1>2. LearnedInv /\ HistoryInv /\ [InsightNext]_insightVars => HistoryInv'
  <2>1. SUFFICES ASSUME LearnedInv, HistoryInv, [InsightNext]_insightVars PROVE HistoryInv'
    OBVIOUS
  <2>. USE <2>1 DEF HistoryInv
  <2>2. CASE Seed
    <3>1. Dated(file)
      BY <2>2, FilesAreDated DEF Seed, FileInv
    <3>2. TableInv'
      BY <2>2, <3>1, SeedIsTimed, WriteKeepsTimes DEF Seed, TableInv
    <3>. QED BY <2>2, <3>2 DEF Seed, readingVars, runVars, FileInv, GridInv, PatternInv, Forecast
  <2>3. CASE SeedFails
    BY <2>3 DEF SeedFails, readingVars, runVars, FileInv, TableInv, GridInv, PatternInv, Forecast
  <2>4. CASE Post
    <3>1. PICK b \in Batches[file] : table' = Write(table, Accepted(b))
      BY <2>4 DEF Post
    <3>2. IsFiniteSet(DOMAIN b) /\ \A i \in DOMAIN b : b[i].at \in Int
      BY <3>1, BatchesAreTimed DEF FileInv
    <3>3. TableInv'
      BY <3>1, <3>2, AcceptedAreTimed, WriteKeepsTimes DEF TableInv
    <3>. QED BY <2>4, <3>3 DEF Post, runVars, FileInv, GridInv, PatternInv, Forecast
  <2>5. CASE Load
    <3>1. frame'.at = InOrder({p[2] : p \in DOMAIN table})
      BY <2>5 DEF Load, DbFrame
    <3>2. Enumerates(frame'.at, {p[2] : p \in DOMAIN table})
      BY <3>1, TableHasTimes, SortedSet
    <3>3. GridInv'
      BY <2>5, <3>2 DEF Load, readingVars, GridInv
    <3>4. PatternInv'
      BY <2>5 DEF Load, PatternInv, Forecast
    <3>. QED BY <2>5, <3>3, <3>4 DEF Load, readingVars, FileInv, TableInv
  <2>6. CASE UNCHANGED <<frame, table, file, results>> /\ stage \notin {"source", "seeded", "rejected"}
               /\ stage' \notin {"source", "seeded", "rejected"} /\ (stage \in Forecast => stage' \in Forecast)
    BY <2>6 DEF FileInv, TableInv, GridInv, PatternInv, FromHistory, ForecastsOf
  <2>7. CASE PipelineStep
    <3>1. UNCHANGED <<frame, table, file, results>> /\ stage \notin Forecast \cup {"source", "seeded", "rejected"}
          /\ stage' \notin {"source", "seeded", "rejected"}
      BY <2>7 DEF PipelineStep, Next, readingVars, Quality, Statistics, State, Envelope, Threshold, TimelineOf,
           Reliability, HealthOf, Assemble, Evaluate, Engine, Forecast
    <3>. QED BY <2>6, <3>1
  <2>8. CASE SkipLearning \/ ShowOutlook \/ Ask \/ ShowTelemetry
    BY <2>6, <2>8 DEF SkipLearning, ShowOutlook, Ask, ShowTelemetry, readingVars, runVars, Forecast
  <2>9. CASE LearnPatterns
    <3>1. \A i \in DOMAIN results' : ForecastsOf(results'[i]) = {}
      <4>1. \/ results' = <<>>
            \/ \E f, raw : results' = <<Novelty(f, raw)>>
            \/ \E f, raw, l : results' = <<Novelty(f, raw), Clusters(f, l)>>
        BY <2>9, Zenon DEF LearnPatterns
      <4>2. CASE results' = <<>>
        BY <4>2
      <4>3. CASE \E f, raw : results' = <<Novelty(f, raw)>>
        BY <4>3, NoOtherForecasts
      <4>4. CASE \E f, raw, l : results' = <<Novelty(f, raw), Clusters(f, l)>>
        BY <4>4, NoOtherForecasts
      <4>. QED BY <4>1, <4>2, <4>3, <4>4
    <3>2. UNCHANGED <<frame, table, file>> /\ stage = "done" /\ stage' = "forecast"
      BY <2>9 DEF LearnPatterns, readingVars, runVars
    <3>. QED BY <3>1, <3>2 DEF FileInv, TableInv, GridInv, PatternInv, Forecast
  <2>10. CASE LearnForecasts
    <3>1. UNCHANGED <<frame, table, file>> /\ stage = "forecast" /\ stage' = "recorded"
      BY <2>10 DEF LearnForecasts, readingVars, runVars
    <3>2. \A i \in DOMAIN results' : \A p \in ForecastsOf(results'[i]) : FromHistory(p)
      <4>1. results' = results \/ results' = Append(results, ForecastUnit(frame, Limits))
        BY <2>10 DEF LearnForecasts
      <4>2. PICK S : results \in Seq(S)
        BY <2>1 DEF LearnedInv, AllLearnt
      <4> DEFINE F == ForecastUnit(frame, Limits)
      <4>3. \A i \in DOMAIN results : \A p \in ForecastsOf(results[i]) : FromHistory(p)
        BY DEF PatternInv
      <4>4. \A p \in ForecastsOf(F) : FromHistory(p)
        BY ForecastsComeFromHistories
      <4>. HIDE DEF F
      <4>5. ASSUME NEW i \in DOMAIN Append(results, F)
            PROVE  (i \in DOMAIN results /\ Append(results, F)[i] = results[i]) \/ Append(results, F)[i] = F
        BY <4>2, <4>5
      <4>. QED BY <4>1, <4>3, <4>4, <4>5 DEF F
    <3>. QED BY <3>1, <3>2 DEF FileInv, TableInv, GridInv, PatternInv, FromHistory, Forecast
  <2>11. CASE UNCHANGED insightVars
    BY <2>11 DEF insightVars, vars, readingVars, FileInv, TableInv, GridInv, PatternInv, FromHistory, ForecastsOf
  <2>. QED BY <2>1, <2>2, <2>3, <2>4, <2>5, <2>7, <2>8, <2>9, <2>10, <2>11 DEF InsightNext
<1>. QED BY <1>1, <1>2, EveryModelLearns, PTL DEF InsightSpec

(* "A model never forecasts across a gap": the history of every forecast has a
   reading at every step, goes back as far as that allows and ends at the last
   reading of its sensor. *)
THEOREM HistoriesHaveNoGaps == InsightSpec => []HistoryIsUnbroken
<1>1. HistoryInv => HistoryIsUnbroken
  <2>1. SUFFICES ASSUME HistoryInv, NEW p \in Patterns("forecast")
                 PROVE  Unbroken(frame, p.of, p.from, p.to)
    BY DEF HistoryIsUnbroken, Unbroken, ReadAt
  <2>2. PICK i \in DOMAIN results : p \in ForecastsOf(results[i])
    BY <2>1 DEF Patterns, ForecastsOf
  <2>3. PICK h \in Histories(frame, p.of) : p.from = h.from /\ p.to = h.to
    BY <2>1, <2>2 DEF HistoryInv, PatternInv, FromHistory
  <2>4. stage \notin {"source", "seeded", "rejected"}
    BY <2>1, <2>2 DEF HistoryInv, PatternInv, Forecast
  <2>5. OnTime(frame)
    BY <2>1, <2>4, FrameIsOnTime DEF HistoryInv
  <2>. QED BY <2>3, <2>5, HistoriesAreUnbroken
<1>. QED BY <1>1, HistoriesAreRead, PTL

-----------------------------------------------------------------------------
(* Sums: SumFunction adds the values of a function one element at a time, in an
   order that is not specified. *)

Taken(s) == CHOOSE x \in s : TRUE
IsSumming(g, F, S) ==
  g = [s \in SUBSET S |-> IF s = {} THEN 0 ELSE F[Taken(s)] + g[s \ {Taken(s)}]]

LEMMA SumIsFold ==
  ASSUME NEW F
  PROVE  SumFunction(F) = (CHOOSE g : IsSumming(g, F, DOMAIN F))[DOMAIN F]
BY DEF SumFunction, SumFunctionOnSet, FoldFunctionOnSet, MapThenFoldSet, IsSumming, Taken

(* Induction over the subsets of a finite set. *)
LEMMA BySize ==
  ASSUME NEW S, IsFiniteSet(S), NEW Good,
         \A T \in SUBSET S : (\A U \in SUBSET T : U # T => U \in Good) => T \in Good
  PROVE  S \in Good
<1> DEFINE Wrong == {T \in SUBSET S : T \notin Good}
           sizes == {Cardinality(T) : T \in Wrong}
<1>1. \A T \in SUBSET S : IsFiniteSet(T) /\ Cardinality(T) \in Nat
  BY FS_Subset, FS_CardinalityType
<1>2. SUFFICES ASSUME S \notin Good PROVE FALSE
  OBVIOUS
<1>3. sizes \in SUBSET Nat /\ sizes # {}
  BY <1>1, <1>2
<1>. HIDE DEF sizes
<1>4. \E n \in sizes : \A m \in sizes : n <= m
  BY <1>3, LeastExists
<1>5. PICK T \in Wrong : \A U \in Wrong : Cardinality(T) <= Cardinality(U)
  BY <1>4 DEF sizes
<1>6. ASSUME NEW U \in SUBSET T, U # T PROVE U \in Good
  <2>1. Cardinality(U) < Cardinality(T)
    <3>1. IsFiniteSet(T) /\ U \in SUBSET T
      BY <1>1
    <3>2. Cardinality(U) <= Cardinality(T) /\ Cardinality(U) # Cardinality(T)
      BY <1>6, <3>1, FS_Subset
    <3>. QED BY <1>1, <3>2
  <2>2. U \in SUBSET S /\ Cardinality(U) \in Nat /\ Cardinality(T) \in Nat
    BY <1>1
  <2>. QED BY <1>5, <2>1, <2>2
<1>. QED BY <1>5, <1>6

LEMMA TakenIsIn ==
  ASSUME NEW s, s # {}
  PROVE  Taken(s) \in s
BY DEF Taken

LEMMA SummingRestricts ==
  ASSUME NEW F, NEW S, NEW g, IsSumming(g, F, S), NEW U \in SUBSET S
  PROVE  IsSumming([s \in SUBSET U |-> g[s]], F, U)
<1> DEFINE h == [s \in SUBSET U |-> g[s]]
<1>1. \A s \in SUBSET U : g[s] = IF s = {} THEN 0 ELSE F[Taken(s)] + g[s \ {Taken(s)}]
  BY DEF IsSumming
<1>2. \A s \in SUBSET U : s \ {Taken(s)} \in SUBSET U /\ h[s] = g[s]
  OBVIOUS
<1>3. h = [s \in SUBSET U |-> IF s = {} THEN 0 ELSE F[Taken(s)] + h[s \ {Taken(s)}]]
  BY <1>1, <1>2
<1>. QED BY <1>3 DEF IsSumming

LEMMA SummingIsUnique ==
  ASSUME NEW F, NEW S, IsFiniteSet(S), NEW g, NEW h, IsSumming(g, F, S), IsSumming(h, F, S)
  PROVE  g[S] = h[S]
<1> DEFINE Good == {T \in SUBSET S : g[T] = h[T]}
<1>1. \A s \in SUBSET S : /\ g[s] = IF s = {} THEN 0 ELSE F[Taken(s)] + g[s \ {Taken(s)}]
                          /\ h[s] = IF s = {} THEN 0 ELSE F[Taken(s)] + h[s \ {Taken(s)}]
  BY DEF IsSumming
<1>2. ASSUME NEW T \in SUBSET S, \A U \in SUBSET T : U # T => U \in Good
      PROVE  T \in Good
  <2>1. T # {} => T \ {Taken(T)} \in SUBSET T /\ T \ {Taken(T)} # T
    BY TakenIsIn
  <2>. QED BY <1>1, <1>2, <2>1
<1>. HIDE DEF Good
<1>3. S \in Good
  BY <1>2, BySize
<1>. QED BY <1>3 DEF Good

Total(F, S) == (CHOOSE g : IsSumming(g, F, S))[S]

LEMMA SummingExists ==
  ASSUME NEW F, NEW S, IsFiniteSet(S)
  PROVE  \E g : IsSumming(g, F, S)
<1> DEFINE Good == {T \in SUBSET S : \E g : IsSumming(g, F, T)}
<1>1. ASSUME NEW T \in SUBSET S, \A U \in SUBSET T : U # T => U \in Good
      PROVE  T \in Good
  <2> DEFINE v(s) == IF s = {} THEN 0 ELSE F[Taken(s)] + Total(F, s \ {Taken(s)})
             g == [s \in SUBSET T |-> v(s)]
  <2>1. ASSUME NEW U \in SUBSET T, U # T PROVE Total(F, U) = v(U)
    <3>1. PICK k : k = (CHOOSE x : IsSumming(x, F, U)) /\ IsSumming(k, F, U)
      BY <1>1, <2>1
    <3>2. Total(F, U) = k[U] /\ k[U] = IF U = {} THEN 0 ELSE F[Taken(U)] + k[U \ {Taken(U)}]
      BY <3>1 DEF Total, IsSumming
    <3>3. CASE U # {}
      <4> DEFINE W == U \ {Taken(U)}
                 h == [s \in SUBSET W |-> k[s]]
      <4>1. W \in SUBSET U /\ W # T /\ W \in SUBSET T
        BY <2>1
      <4>2. IsSumming(h, F, W)
        BY <3>1, <4>1, SummingRestricts
      <4>3. PICK l : l = (CHOOSE x : IsSumming(x, F, W)) /\ IsSumming(l, F, W)
        BY <1>1, <4>1
      <4>4. IsFiniteSet(W)
        BY <4>1, FS_Subset
      <4>5. h[W] = l[W]
        BY <4>2, <4>3, <4>4, SummingIsUnique
      <4>6. Total(F, W) = l[W] /\ h[W] = k[W]
        BY <4>3 DEF Total
      <4>. QED BY <3>2, <3>3, <4>5, <4>6
    <3>. QED BY <3>2, <3>3
  <2>2. \A s \in SUBSET T : s # {} => s \ {Taken(s)} \in SUBSET T /\ s \ {Taken(s)} # T
    BY TakenIsIn
  <2>3. \A s \in SUBSET T : s # {} => g[s \ {Taken(s)}] = Total(F, s \ {Taken(s)})
    <3>. HIDE DEF v
    <3>. QED BY <2>1, <2>2
  <2>4. g = [s \in SUBSET T |-> IF s = {} THEN 0 ELSE F[Taken(s)] + g[s \ {Taken(s)}]]
    <3>1. \A s \in SUBSET T : v(s) = IF s = {} THEN 0 ELSE F[Taken(s)] + g[s \ {Taken(s)}]
      BY <2>3
    <3>. QED BY <3>1, Zenon
  <2>5. IsSumming(g, F, T)
    BY <2>4 DEF IsSumming
  <2>. QED BY <2>5
<1>. HIDE DEF Good
<1>2. S \in Good
  BY <1>1, BySize
<1>. QED BY <1>2 DEF Good

LEMMA TotalOfNone ==
  ASSUME NEW F
  PROVE  Total(F, {}) = 0
<1>1. PICK g : g = (CHOOSE x : IsSumming(x, F, {})) /\ IsSumming(g, F, {})
  BY SummingExists, FS_EmptySet
<1>2. g[{}] = 0
  BY <1>1 DEF IsSumming
<1>. QED BY <1>1, <1>2 DEF Total

LEMMA TotalSteps ==
  ASSUME NEW F, NEW S, IsFiniteSet(S), S # {}
  PROVE  Total(F, S) = F[Taken(S)] + Total(F, S \ {Taken(S)})
<1> DEFINE W == S \ {Taken(S)}
<1>1. PICK k : k = (CHOOSE x : IsSumming(x, F, S)) /\ IsSumming(k, F, S)
  BY SummingExists
<1>2. Total(F, S) = k[S] /\ k[S] = F[Taken(S)] + k[W]
  BY <1>1 DEF Total, IsSumming
<1> DEFINE h == [s \in SUBSET W |-> k[s]]
<1>3. W \in SUBSET S
  OBVIOUS
<1>4. IsFiniteSet(W) /\ IsSumming(h, F, W)
  <2>1. IsFiniteSet(W)
    BY <1>3, FS_Subset
  <2>. HIDE DEF W
  <2>2. IsSumming(h, F, W)
    BY <1>1, <1>3, SummingRestricts
  <2>. QED BY <2>1, <2>2
<1>5. PICK l : l = (CHOOSE x : IsSumming(x, F, W)) /\ IsSumming(l, F, W)
  BY <1>4, SummingExists
<1>6. h[W] = l[W]
  BY <1>4, <1>5, SummingIsUnique
<1>7. Total(F, W) = l[W] /\ h[W] = k[W]
  BY <1>5 DEF Total
<1>. QED BY <1>2, <1>6, <1>7

LEMMA TotalIsSum ==
  ASSUME NEW F
  PROVE  SumFunction(F) = Total(F, DOMAIN F)
BY SumIsFold DEF Total
Ints(F, S) == \A x \in S : F[x] \in Int

LEMMA TotalType ==
  ASSUME NEW F, NEW S, IsFiniteSet(S), Ints(F, S)
  PROVE  Total(F, S) \in Int
<1> DEFINE Good == {T \in SUBSET S : Total(F, T) \in Int}
<1>1. ASSUME NEW T \in SUBSET S, \A U \in SUBSET T : U # T => U \in Good
      PROVE  T \in Good
  <2>1. CASE T = {}
    BY <2>1, TotalOfNone
  <2>2. CASE T # {}
    <3>1. Taken(T) \in T /\ T \ {Taken(T)} \in SUBSET T /\ T \ {Taken(T)} # T
      BY <2>2, TakenIsIn
    <3>2. Total(F, T) = F[Taken(T)] + Total(F, T \ {Taken(T)})
      BY <2>2, TotalSteps, FS_Subset
    <3>3. F[Taken(T)] \in Int /\ Total(F, T \ {Taken(T)}) \in Int
      BY <1>1, <3>1 DEF Ints
    <3>. QED BY <3>2, <3>3
  <2>. QED BY <2>1, <2>2
<1>. HIDE DEF Good
<1>2. S \in Good
  BY <1>1, BySize
<1>. QED BY <1>2 DEF Good

(* The order does not matter. *)
LEMMA TotalAddsOne ==
  ASSUME NEW F, NEW S, IsFiniteSet(S), Ints(F, S), NEW x \in S
  PROVE  Total(F, S) = F[x] + Total(F, S \ {x})
<1> DEFINE Good == {T \in SUBSET S : \A y \in T : Total(F, T) = F[y] + Total(F, T \ {y})}
<1>1. ASSUME NEW T \in SUBSET S, \A U \in SUBSET T : U # T => U \in Good
      PROVE  T \in Good
  <2>1. SUFFICES ASSUME NEW y \in T PROVE Total(F, T) = F[y] + Total(F, T \ {y})
    OBVIOUS
  <2> DEFINE z == Taken(T)
             V == T \ {z}
             W == T \ {y}
             X == T \ {y, z}
  <2>2. z \in T
    BY TakenIsIn
  <2>3. Total(F, T) = F[z] + Total(F, V)
    BY TotalSteps, FS_Subset
  <2>4. CASE y # z
    <3>1. y \in V /\ z \in W /\ V \ {y} = X /\ W \ {z} = X /\ V \in Good /\ W \in Good
      BY <1>1, <2>2, <2>4
    <3>2. Total(F, V) = F[y] + Total(F, X) /\ Total(F, W) = F[z] + Total(F, X)
      BY <3>1
    <3>3. F[y] \in Int /\ F[z] \in Int
      BY <2>2 DEF Ints
    <3>4. Total(F, X) \in Int
      <4>1. X \in SUBSET S
        OBVIOUS
      <4>2. IsFiniteSet(X) /\ Ints(F, X)
        BY <4>1, FS_Subset DEF Ints
      <4>. QED BY <4>2, TotalType
    <3>. HIDE DEF z, V, W, X
    <3>5. Total(F, T) = F[y] + Total(F, W)
      BY <2>3, <3>2, <3>3, <3>4
    <3>. QED BY <3>5 DEF W
  <2>. QED BY <2>3, <2>4
<1>. HIDE DEF Good
<1>2. S \in Good
  BY <1>1, BySize
<1>. QED BY <1>2 DEF Good

LEMMA TotalInsert ==
  ASSUME NEW F, NEW S, IsFiniteSet(S), NEW x, x \notin S, Ints(F, S), F[x] \in Int
  PROVE  Total(F, S \cup {x}) = F[x] + Total(F, S) /\ Total(F, S) \in Int
<1>1. IsFiniteSet(S \cup {x}) /\ Ints(F, S \cup {x}) /\ x \in S \cup {x} /\ (S \cup {x}) \ {x} = S
  BY FS_AddElement DEF Ints
<1>. QED BY <1>1, TotalAddsOne, TotalType

LEMMA TotalOfEqual ==
  ASSUME NEW F, NEW G, NEW S, IsFiniteSet(S), \A x \in S : F[x] = G[x]
  PROVE  Total(F, S) = Total(G, S)
<1> DEFINE Good == {T \in SUBSET S : Total(F, T) = Total(G, T)}
<1>1. ASSUME NEW T \in SUBSET S, \A U \in SUBSET T : U # T => U \in Good
      PROVE  T \in Good
  <2>1. CASE T = {}
    BY <2>1, TotalOfNone
  <2>2. CASE T # {}
    <3>1. Taken(T) \in T /\ T \ {Taken(T)} \in SUBSET T /\ T \ {Taken(T)} # T
      BY <2>2, TakenIsIn
    <3>2. IsFiniteSet(T)
      BY FS_Subset
    <3>3. /\ Total(F, T) = F[Taken(T)] + Total(F, T \ {Taken(T)})
          /\ Total(G, T) = G[Taken(T)] + Total(G, T \ {Taken(T)})
      BY <2>2, <3>2, TotalSteps
    <3>4. F[Taken(T)] = G[Taken(T)] /\ T \ {Taken(T)} \in Good
      BY <1>1, <3>1
    <3>. QED BY <3>3, <3>4
  <2>. QED BY <2>1, <2>2
<1>. HIDE DEF Good
<1>2. S \in Good
  BY <1>1, BySize
<1>. QED BY <1>2 DEF Good

(* A sum over two sets without a common element. *)
LEMMA TotalOfUnion ==
  ASSUME NEW F, NEW S, NEW R, IsFiniteSet(S), IsFiniteSet(R), S \cap R = {}, Ints(F, S), Ints(F, R)
  PROVE  Total(F, S \cup R) = Total(F, S) + Total(F, R)
<1> DEFINE Good == {T \in SUBSET S : Total(F, T \cup R) = Total(F, T) + Total(F, R)}
<1>0. Total(F, R) \in Int
  BY TotalType
<1>1. ASSUME NEW T \in SUBSET S, \A U \in SUBSET T : U # T => U \in Good
      PROVE  T \in Good
  <2>1. CASE T = {}
    <3>1. T \cup R = R
      BY <2>1
    <3>. QED BY <1>0, <2>1, <3>1, TotalOfNone
  <2>2. CASE T # {}
    <3>1. PICK x \in T : TRUE
      BY <2>2
    <3> DEFINE U == T \ {x}
    <3>2. U \in SUBSET T /\ U # T /\ U \in SUBSET S /\ x \notin U /\ x \notin U \cup R
          /\ U \cup {x} = T /\ (U \cup R) \cup {x} = T \cup R
      BY <3>1
    <3>3. IsFiniteSet(U) /\ IsFiniteSet(U \cup R)
      BY <3>2, FS_Subset, FS_Union
    <3>4. Ints(F, U) /\ Ints(F, U \cup R) /\ F[x] \in Int
      BY <3>1, <3>2 DEF Ints
    <3>5. Total(F, U \cup R) = Total(F, U) + Total(F, R)
      BY <1>1, <3>2
    <3>. HIDE DEF U
    <3>6. Total(F, T) = F[x] + Total(F, U) /\ Total(F, U) \in Int
      BY <3>2, <3>3, <3>4, TotalInsert
    <3>7. Total(F, T \cup R) = F[x] + Total(F, U \cup R)
      BY <3>2, <3>3, <3>4, TotalInsert
    <3>. QED BY <1>0, <3>4, <3>5, <3>6, <3>7
  <2>. QED BY <2>1, <2>2
<1>. HIDE DEF Good
<1>2. S \in Good
  BY <1>1, BySize
<1>. QED BY <1>2 DEF Good

(* A weighted sum lies between the least and the greatest value times the weight. *)
LEMMA TotalIsBounded ==
  ASSUME NEW F, NEW W, NEW S, IsFiniteSet(S), Ints(F, S), Ints(W, S), NEW lo \in Int, NEW hi \in Int,
         \A x \in S : lo * W[x] <= F[x] /\ F[x] <= hi * W[x]
  PROVE  lo * Total(W, S) <= Total(F, S) /\ Total(F, S) <= hi * Total(W, S)
<1> DEFINE Good == {T \in SUBSET S : lo * Total(W, T) <= Total(F, T) /\ Total(F, T) <= hi * Total(W, T)}
<1>1. ASSUME NEW T \in SUBSET S, \A U \in SUBSET T : U # T => U \in Good
      PROVE  T \in Good
  <2>1. CASE T = {}
    BY <2>1, TotalOfNone
  <2>2. CASE T # {}
    <3>1. PICK x \in T : TRUE
      BY <2>2
    <3> DEFINE U == T \ {x}
    <3>2. U \in SUBSET T /\ U # T /\ U \in SUBSET S /\ x \notin U /\ U \cup {x} = T
      BY <3>1
    <3>3. IsFiniteSet(U)
      BY <3>2, FS_Subset
    <3>4. Ints(F, U) /\ Ints(W, U) /\ F[x] \in Int /\ W[x] \in Int
      BY <3>1, <3>2 DEF Ints
    <3>5. lo * Total(W, U) <= Total(F, U) /\ Total(F, U) <= hi * Total(W, U)
      BY <1>1, <3>2
    <3>. HIDE DEF U
    <3>6. Total(F, T) = F[x] + Total(F, U) /\ Total(F, U) \in Int
      BY <3>2, <3>3, <3>4, TotalInsert
    <3>7. Total(W, T) = W[x] + Total(W, U) /\ Total(W, U) \in Int
      BY <3>2, <3>3, <3>4, TotalInsert
    <3>8. ASSUME NEW c \in Int PROVE c * (W[x] + Total(W, U)) = c * W[x] + c * Total(W, U)
                                     /\ c * W[x] \in Int /\ c * Total(W, U) \in Int
      BY <3>4, <3>7
    <3>9. lo * W[x] <= F[x] /\ F[x] <= hi * W[x]
      BY <3>1
    <3>10. ASSUME NEW a \in Int, NEW b \in Int, NEW c \in Int, NEW d \in Int, a <= b, c <= d
           PROVE  a + c <= b + d
      BY <3>10
    <3>11. lo * Total(W, T) = lo * W[x] + lo * Total(W, U)
      BY <3>7, <3>8
    <3>12. hi * Total(W, T) = hi * W[x] + hi * Total(W, U)
      BY <3>7, <3>8
    <3>13. lo * Total(W, T) <= Total(F, T)
      BY <3>4, <3>5, <3>6, <3>8, <3>9, <3>10, <3>11
    <3>14. Total(F, T) <= hi * Total(W, T)
      BY <3>4, <3>5, <3>6, <3>8, <3>9, <3>10, <3>12
    <3>. QED BY <3>13, <3>14
  <2>. QED BY <2>1, <2>2
<1>. HIDE DEF Good
<1>2. S \in Good
  BY <1>1, BySize
<1>. QED BY <1>2 DEF Good

LEMMA TotalOfConstant ==
  ASSUME NEW F, NEW S, IsFiniteSet(S), \A x \in S : F[x] = 1
  PROVE  Total(F, S) = Cardinality(S)
<1> DEFINE Good == {T \in SUBSET S : Total(F, T) = Cardinality(T)}
<1>1. ASSUME NEW T \in SUBSET S, \A U \in SUBSET T : U # T => U \in Good
      PROVE  T \in Good
  <2>1. CASE T = {}
    BY <2>1, TotalOfNone, FS_EmptySet
  <2>2. CASE T # {}
    <3>1. Taken(T) \in T /\ T \ {Taken(T)} \in SUBSET T /\ T \ {Taken(T)} # T
      BY <2>2, TakenIsIn
    <3>2. IsFiniteSet(T) /\ Cardinality(T) \in Nat
      BY FS_Subset, FS_CardinalityType
    <3>3. Total(F, T) = F[Taken(T)] + Total(F, T \ {Taken(T)})
      BY <2>2, <3>2, TotalSteps
    <3>4. Total(F, T \ {Taken(T)}) = Cardinality(T) - 1
      BY <1>1, <3>1, <3>2, FS_RemoveElement
    <3>. QED BY <3>1, <3>2, <3>3, <3>4
  <2>. QED BY <2>1, <2>2
<1>. HIDE DEF Good
<1>2. S \in Good
  BY <1>1, BySize
<1>. QED BY <1>2 DEF Good

-----------------------------------------------------------------------------
(* The ranges of the results: a rounded ratio, the readings of a column, the
   scores and trusts of a sensor, the means of a level, the confidence of a
   finding. *)

Fits(a, b, lo, hi) == b > 0 /\ lo * b <= a /\ a <= hi * b

LEMMA RatioIsBounded ==
  ASSUME NEW a \in Int, NEW b \in Int, NEW lo \in Int, NEW hi \in Int, Fits(a, b, lo, hi)
  PROVE  RoundDiv(a, b) \in Int /\ lo <= RoundDiv(a, b) /\ RoundDiv(a, b) <= hi
<1> DEFINE q == (2 * a + b) \div (2 * b)
           r == (2 * a + b) % (2 * b)
<1>1. q \in Int /\ r \in 0 .. 2 * b - 1 /\ 2 * a + b = (2 * b) * q + r
  BY DEF Fits
<1>2. RoundDiv(a, b) = q
  BY DEF RoundDiv
<1>. HIDE DEF q, r
<1>. USE DEF Fits
<1>3. lo <= q
  <2>1. SUFFICES ASSUME q <= lo - 1 PROVE FALSE
    BY <1>1
  <2>2. b * q <= b * (lo - 1)
    BY <1>1, <2>1
  <2>. QED BY <1>1, <2>2
<1>4. q <= hi
  <2>1. SUFFICES ASSUME hi + 1 <= q PROVE FALSE
    BY <1>1
  <2>2. b * (hi + 1) <= b * q
    BY <1>1, <2>1
  <2>. QED BY <1>1, <2>2
<1>. QED BY <1>1, <1>2, <1>3, <1>4

LEMMA ShareIsBounded ==
  ASSUME NEW a \in Int, NEW b \in Int, NEW hi \in Nat, Fits(a, b, 0, hi)
  PROVE  RoundDiv(a, b) \in Int /\ 0 <= RoundDiv(a, b) /\ RoundDiv(a, b) <= hi
BY RatioIsBounded

LEMMA PartIsBounded ==
  ASSUME NEW a \in Int, NEW b \in Nat, b > 0, 0 <= a, a <= b * b
  PROVE  RoundDiv(a, b) \in 0 .. b
<1>1. Fits(a, b, 0, b)
  BY DEF Fits
<1>. QED BY <1>1, ShareIsBounded

(* The readings of a column. *)
Rows(col) == {i \in DOMAIN col : col[i] # Missing}

LEMMA PlacesAreSorted ==
  ASSUME NEW s, NEW n \in Nat, DOMAIN s = 1 .. n, NEW P \in SUBSET (1 .. n)
  PROVE  /\ IsFiniteSet(P) /\ Cardinality(P) \in 0 .. n /\ Enumerates(InOrder(P), P)
         /\ DOMAIN Picked(s, P) = 1 .. Cardinality(P) /\ Len(Picked(s, P)) = Cardinality(P)
         /\ \A i \in 1 .. Cardinality(P) : Picked(s, P)[i] = s[InOrder(P)[i]] /\ InOrder(P)[i] \in P
<1>1. IsFiniteSet(1 .. n) /\ Cardinality(1 .. n) = n
  BY FirstNumbers
<1>2. IsFiniteSet(P) /\ Cardinality(P) <= n
  <2>1. IsFiniteSet(P) /\ Cardinality(P) <= Cardinality(1 .. n)
    BY <1>1, FS_Subset
  <2>. QED BY <1>1, <2>1
<1>3. Cardinality(P) \in Nat
  BY <1>2, FS_CardinalityType
<1>4. Enumerates(InOrder(P), P)
  <2>1. P \in SUBSET Int
    OBVIOUS
  <2>. QED BY <1>2, <2>1, SortedSet
<1>5. DOMAIN InOrder(P) = 1 .. Cardinality(P) /\ \A i \in 1 .. Cardinality(P) : InOrder(P)[i] \in P
  BY <1>4 DEF Enumerates
<1>6. Picked(s, P) = [i \in 1 .. Cardinality(P) |-> s[InOrder(P)[i]]]
  BY <1>5 DEF Picked
<1>7. Len(Picked(s, P)) = Cardinality(P)
  BY <1>3, <1>6
<1>. QED BY <1>2, <1>3, <1>4, <1>5, <1>6, <1>7

LEMMA ValidLength ==
  ASSUME NEW col, NEW n \in Nat, DOMAIN col = 1 .. n
  PROVE  /\ DOMAIN Valid(col) = 1 .. Len(Valid(col)) /\ Len(Valid(col)) \in 0 .. n
         /\ Len(Valid(col)) = 0 => Valid(col) = <<>>
<1>1. Rows(col) \in SUBSET (1 .. n)
  BY DEF Rows
<1>2. Valid(col) = Picked(col, Rows(col))
  BY DEF Valid, Rows
<1>3. /\ DOMAIN Valid(col) = 1 .. Cardinality(Rows(col)) /\ Len(Valid(col)) = Cardinality(Rows(col))
      /\ Cardinality(Rows(col)) \in 0 .. n
  BY <1>1, <1>2, PlacesAreSorted
<1>4. Valid(col) = [i \in DOMAIN Valid(col) |-> Valid(col)[i]]
  BY <1>2 DEF Picked
<1>5. ASSUME Len(Valid(col)) = 0 PROVE Valid(col) = <<>>
  BY <1>3, <1>4, <1>5
<1>. QED BY <1>3, <1>5

LEMMA CountIsBounded ==
  ASSUME NEW n \in Nat, NEW P \in SUBSET (1 .. n)
  PROVE  Cardinality(P) \in 0 .. n
<1>1. DOMAIN [i \in 1 .. n |-> i] = 1 .. n
  OBVIOUS
<1>. QED BY <1>1, PlacesAreSorted

LEMMA FaultsAreBounded ==
  ASSUME NEW col, NEW n \in Nat, DOMAIN col = 1 .. n, NEW kind, NEW q \in SensorQuality(col, kind)
  PROVE  /\ q.valid = Len(Valid(col)) /\ q.missing = Len(col) - Len(Valid(col))
         /\ q.fault \in 0 .. Len(Valid(col))
<1> DEFINE s == Valid(col)
<1>1. q.valid = Len(s) /\ q.missing = Len(col) - Len(s) /\ q.fault \in FaultCounts(s)
  <2> DEFINE neg == IF kind \in NonNegativeTypes THEN Count(s, LAMBDA v : v < 0) ELSE 0
             out == IF kind \in PercentTypes THEN Count(s, LAMBDA v : v < 0 \/ v > 100) ELSE 0
             run == LongestRun(s)
  <2>1. SensorQuality(col, kind) =
          {[valid |-> Len(s), missing |-> Len(col) - Len(s), negative |-> neg, outOfRange |-> out,
            fault |-> f, longest |-> run] : f \in FaultCounts(s)}
    BY DEF SensorQuality
  <2>. HIDE DEF neg, out, run, s
  <2>. QED BY <2>1
<1>2. DOMAIN s = 1 .. Len(s) /\ Len(s) \in Nat
  BY ValidLength
<1>. HIDE DEF s
<1>3. ASSUME NEW v PROVE Repeats(s, v) \in 0 .. Len(s)
  <2>1. {i \in DOMAIN s : s[i] = v} \in SUBSET (1 .. Len(s))
    BY <1>2
  <2>. QED BY <1>2, <2>1, CountIsBounded DEF Repeats, Count
<1>4. \A f \in FaultCounts(s) : f = 0 \/ \E v : f = Repeats(s, v)
  BY DEF FaultCounts
<1>. QED BY <1>1, <1>2, <1>3, <1>4 DEF s

LEMMA FlatIsBounded ==
  ASSUME NEW s, NEW n \in Nat, DOMAIN s = 1 .. n, Len(s) = n
  PROVE  Flatlined(s) \in 0 .. n
<1>1. {i \in DOMAIN s : RunLength(s, i) >= FlatRun} \in SUBSET (1 .. n)
  OBVIOUS
<1>. QED BY <1>1, CountIsBounded DEF Flatlined

LEMMA ScoreIsBounded ==
  ASSUME NEW missing \in Int, NEW total \in Int, NEW flat \in Int, NEW fault \in Int, NEW valid \in Int,
         total > 0, valid >= 0, missing \in 0 .. total, flat \in 0 .. valid, fault \in 0 .. valid
  PROVE  Score(missing, total, flat, fault, valid) \in 0 .. MaxScore
<1> DEFINE n == IF valid = 0 THEN 1 ELSE valid
           b == total * n
           x == (total - missing) * n
           y == total * (n - flat)
           z == total * (n - fault)
<1>1. n \in Int /\ n > 0 /\ flat \in 0 .. n /\ fault \in 0 .. n
  OBVIOUS
<1>2. Score(missing, total, flat, fault, valid) = RoundDiv(400 * x + 350 * y + 250 * z, b)
  <2>1. \A c \in Int : c * total * (n - flat) = c * (total * (n - flat)) /\ c * total * (n - fault) = c * (total * (n - fault))
                       /\ c * (total - missing) * n = c * ((total - missing) * n)
    BY <1>1
  <2>. QED BY <2>1 DEF Score
<1>. HIDE DEF n
<1>3. /\ b \in Int /\ x \in Int /\ y \in Int /\ z \in Int
      /\ b > 0 /\ 0 <= x /\ x <= b /\ 0 <= y /\ y <= b /\ 0 <= z /\ z <= b
  <2>1. ASSUME NEW p \in Int, NEW q \in Int, NEW P \in Int, NEW Q \in Int, 0 <= p, p <= P, 0 <= q, q <= Q
        PROVE  p * q \in Int /\ 0 <= p * q /\ p * q <= P * Q
    <3>1. 0 <= p * q /\ p * q <= P * q /\ P * q <= P * Q /\ p * q \in Int /\ P * q \in Int /\ P * Q \in Int
      BY <2>1
    <3>. QED BY <3>1
  <2>2. b \in Int /\ b > 0
    BY <1>1
  <2>3. 0 <= x /\ x <= b /\ x \in Int
    BY <1>1, <2>1
  <2>4. 0 <= y /\ y <= b /\ y \in Int
    BY <1>1, <2>1
  <2>5. 0 <= z /\ z <= b /\ z \in Int
    BY <1>1, <2>1
  <2>. QED BY <2>2, <2>3, <2>4, <2>5
<1>. HIDE DEF b, x, y, z
<1> DEFINE a == 400 * x + 350 * y + 250 * z
           hi == 1000
<1>4. a \in Int /\ Fits(a, b, 0, hi) /\ hi \in Nat
  BY <1>3 DEF Fits
<1>. HIDE DEF a, hi
<1>5. RoundDiv(a, b) \in Int /\ 0 <= RoundDiv(a, b) /\ RoundDiv(a, b) <= hi
  BY <1>3, <1>4, ShareIsBounded
<1>. QED BY <1>2, <1>5 DEF a, hi, MaxScore

LEMMA PenaltiesAreFew ==
  ASSUME NEW Found \in SUBSET {"drift", "spikes", "noise"}
  PROVE  Cardinality(Found) \in 0 .. 3
<1>1. IsFiniteSet({"drift", "spikes", "noise"}) /\ Cardinality({"drift", "spikes", "noise"}) = 3
  <2>1. /\ {"drift", "spikes"} = {"drift"} \cup {"spikes"} /\ "spikes" \notin {"drift"}
        /\ {"drift", "spikes", "noise"} = {"drift", "spikes"} \cup {"noise"} /\ "noise" \notin {"drift", "spikes"}
    OBVIOUS
  <2>2. IsFiniteSet({"drift"}) /\ Cardinality({"drift"}) = 1
    BY FS_Singleton
  <2>3. IsFiniteSet({"drift", "spikes"}) /\ Cardinality({"drift", "spikes"}) = 2
    BY <2>1, <2>2, FS_AddElement
  <2>. QED BY <2>1, <2>3, FS_AddElement
<1> DEFINE All == {"drift", "spikes", "noise"}
<1>2. Found \in SUBSET All /\ IsFiniteSet(All) /\ Cardinality(All) = 3
  BY <1>1
<1>. HIDE DEF All
<1>3. IsFiniteSet(Found) /\ Cardinality(Found) <= Cardinality(All)
  BY <1>2, FS_Subset
<1>4. Cardinality(Found) \in Nat
  BY <1>3, FS_CardinalityType
<1>. QED BY <1>2, <1>3, <1>4

LEMMA TrustIsBounded ==
  ASSUME NEW s, NEW score \in 0 .. MaxScore
  PROVE  SensorConfidence(score, s) \in 0 .. Certain
<1> DEFINE Found == {x \in {"drift", "spikes", "noise"} :
                  \/ x = "drift" /\ Drifts(s)
                  \/ x = "spikes" /\ 100 * Spikes(s) > Len(s)
                  \/ x = "noise" /\ Noisy(s)}
           osc == IF Oscillates(s) THEN 95 ELSE 100
           t == Cardinality(Found)
           kept == <<1000, 900, 810, 729>>[t + 1]
           p == score * kept
           a == p * osc
           all == 10000
<1>1. SensorConfidence(score, s) = RoundDiv(a, all)
  BY DEF SensorConfidence
<1>2. t \in 0 .. 3
  BY PenaltiesAreFew
<1>3. osc \in 95 .. 100
  OBVIOUS
<1>. HIDE DEF osc, Found, t, a, p, kept
<1>4. score \in 0 .. 1000
  BY DEF MaxScore
<1>5. kept \in 729 .. 1000
  BY <1>2 DEF kept
<1>6. p \in Int /\ 0 <= p /\ p <= 1000000
  BY <1>4, <1>5 DEF p
<1>7. a \in Int /\ all \in Nat /\ all > 0 /\ 0 <= a /\ a <= all * all
  BY <1>3, <1>6 DEF a
<1>. HIDE DEF all
<1>8. RoundDiv(a, all) \in 0 .. all
  BY <1>7, PartIsBounded
<1>9. all = Certain
  BY DEF Certain, all
<1>. QED BY <1>1, <1>8, <1>9

-----------------------------------------------------------------------------
(* The entries of a batch, the cells of a file. *)
Place(r) == <<r.key, r.at>>
Good(batch) == {i \in DOMAIN batch : batch[i].value # Infinite}
Cell(f, k, n) == [key |-> k, at |-> f.at[n], value |-> f.col[k][n]]

\* What is written of a batch: a value at every place it has a usable reading of, the first one.
Stores(R, batch) ==
  /\ {Place(r) : r \in R} = {Place(batch[i]) : i \in Good(batch)}
  /\ \A i \in Good(batch) :
       (\A h \in Good(batch) : h < i => Place(batch[h]) # Place(batch[i])) =>
         AsTable(R)[Place(batch[i])] = batch[i].value

LEMMA AcceptedAreFirst ==
  ASSUME NEW b, DOMAIN b \subseteq Nat
  PROVE  /\ \A i \in Good(b) : \E r \in Accepted(b) : Place(r) = Place(b[i])
         /\ \A r \in Accepted(b) : \E i \in Good(b) : r = b[i] /\ \A h \in Good(b) : h < i => Place(b[h]) # Place(r)
         /\ \A i \in Good(b) : (\A h \in Good(b) : h < i => Place(b[h]) # Place(b[i])) => b[i] \in Accepted(b)
<1>1. Accepted(b) = {b[i] : i \in {j \in Good(b) : \A h \in Good(b) : h < j => Place(b[h]) # Place(b[j])}}
  BY DEF Accepted, Place, Good
<1>2. ASSUME NEW i \in Good(b) PROVE \E r \in Accepted(b) : Place(r) = Place(b[i])
  <2> DEFINE S == {j \in Good(b) : Place(b[j]) = Place(b[i])}
  <2>1. S \in SUBSET Nat /\ S # {}
    BY DEF Good
  <2>2. PICK x \in S : \A y \in S : x <= y
    <3>. HIDE DEF S
    <3>. QED BY <2>1, LeastExists
  <2>3. \A h \in Good(b) : h < x => Place(b[h]) # Place(b[x])
    BY <2>1, <2>2 DEF Good
  <2>. QED BY <1>1, <2>2, <2>3
<1>. QED BY <1>1, <1>2

LEMMA StoredAs ==
  ASSUME NEW R, NEW r \in R, \A q \in R : Place(q) = Place(r) => q.value = r.value
  PROVE  AsTable(R)[Place(r)] = r.value
<1> DEFINE p == Place(r)
<1>1. p \in {<<q.key, q.at>> : q \in R}
  BY DEF Place
<1>2. AsTable(R)[p] = (CHOOSE q \in R : <<q.key, q.at>> = p).value
  BY <1>1 DEF AsTable
<1>3. \E q \in R : <<q.key, q.at>> = p
  BY DEF Place
<1>. QED BY <1>2, <1>3 DEF Place

LEMMA BatchIsStored ==
  ASSUME NEW b, DOMAIN b \subseteq Nat
  PROVE  Stores(Accepted(b), b)
<1> DEFINE R == Accepted(b)
<1>1. /\ \A i \in Good(b) : \E r \in R : Place(r) = Place(b[i])
      /\ \A r \in R : \E i \in Good(b) : r = b[i] /\ \A h \in Good(b) : h < i => Place(b[h]) # Place(r)
      /\ \A i \in Good(b) : (\A h \in Good(b) : h < i => Place(b[h]) # Place(b[i])) => b[i] \in R
  BY AcceptedAreFirst
<1>2. Good(b) \subseteq Nat
  BY DEF Good
<1>. HIDE DEF R
<1>3. ASSUME NEW r \in R, NEW q \in R, Place(q) = Place(r) PROVE q = r
  <2>1. PICK i \in Good(b) : r = b[i] /\ \A h \in Good(b) : h < i => Place(b[h]) # Place(r)
    BY <1>1
  <2>2. PICK j \in Good(b) : q = b[j] /\ \A h \in Good(b) : h < j => Place(b[h]) # Place(q)
    BY <1>1
  <2>3. ~(i < j) /\ ~(j < i)
    BY <1>3, <2>1, <2>2
  <2>4. i = j
    BY <1>2, <2>3
  <2>. QED BY <2>1, <2>2, <2>4
<1>4. ASSUME NEW i \in Good(b), \A h \in Good(b) : h < i => Place(b[h]) # Place(b[i])
      PROVE  AsTable(R)[Place(b[i])] = b[i].value
  <2>1. b[i] \in R
    BY <1>1, <1>4
  <2>2. \A q \in R : Place(q) = Place(b[i]) => q.value = b[i].value
    BY <1>3, <2>1
  <2>. QED BY <2>1, <2>2, StoredAs
<1>5. {Place(r) : r \in R} = {Place(b[i]) : i \in Good(b)}
  BY <1>1
<1>. QED BY <1>4, <1>5 DEF Stores, R

LEMMA Division ==
  ASSUME NEW x \in Int, NEW c \in Nat, c > 0
  PROVE  \E q \in Int, d \in 0 .. c - 1 : x = c * q + d /\ q = x \div c /\ d = x % c
<1> DEFINE q == x \div c
           d == x % c
<1>1. q \in Int
  OBVIOUS
<1>2. d \in 0 .. c - 1
  OBVIOUS
<1>3. x = c * q + d
  OBVIOUS
<1>4. q = x \div c /\ d = x % c
  OBVIOUS
<1>. HIDE DEF q, d
<1>. QED BY <1>1, <1>2, <1>3, <1>4

LEMMA MeltCells ==
  ASSUME NEW f, NEW l \in Nat, Len(f.at) = l
  PROVE  /\ DOMAIN Melt(f) \subseteq Nat
         /\ \A m \in DOMAIN Melt(f) : \E n \in 1 .. l, j \in DOMAIN Columns :
              m = Len(Columns) * (n - 1) + j /\ Melt(f)[m] = Cell(f, Columns[j], n)
         /\ \A n \in 1 .. l, j \in DOMAIN Columns :
              /\ Len(Columns) * (n - 1) + j \in DOMAIN Melt(f)
              /\ Melt(f)[Len(Columns) * (n - 1) + j] = Cell(f, Columns[j], n)
<1> DEFINE c == Len(Columns)
<1>1. c \in Nat /\ DOMAIN Columns = 1 .. c
  BY ReadingsAssumption
<1>2. /\ DOMAIN Melt(f) = 1 .. c * l
      /\ \A m \in DOMAIN Melt(f) : Melt(f)[m] = Cell(f, Columns[((m - 1) % c) + 1], ((m - 1) \div c) + 1)
  BY DEF Melt, Cell
<1>. HIDE DEF c
<1>3. c * l \in Nat
  BY <1>1
<1>4. ASSUME NEW m \in DOMAIN Melt(f)
      PROVE  \E n \in 1 .. l, j \in DOMAIN Columns : m = c * (n - 1) + j /\ Melt(f)[m] = Cell(f, Columns[j], n)
  <2> DEFINE n == ((m - 1) \div c) + 1
             j == ((m - 1) % c) + 1
  <2>1. m \in 1 .. c * l
    BY <1>2, <1>4
  <2>2. n \in 1 .. l /\ j \in 1 .. c
    BY <1>1, <2>1, RowOfCell
  <2>3. m = c * (n - 1) + j
    <3> DEFINE q == (m - 1) \div c
               r == (m - 1) % c
    <3>1. m - 1 \in Int /\ c \in Nat /\ c > 0
      BY <1>1, <1>3, <2>1, <2>2
    <3> DEFINE x == m - 1
    <3>. HIDE DEF x
    <3>2. PICK y \in Int, d \in 0 .. c - 1 : x = c * y + d /\ y = x \div c /\ d = x % c
      BY <3>1, Division DEF x
    <3>3. q \in Int /\ r \in Int /\ m - 1 = c * q + r
      BY <3>1, <3>2 DEF x
    <3>4. n = q + 1 /\ j = r + 1
      OBVIOUS
    <3>. HIDE DEF q, r, n, j
    <3>5. n - 1 = q /\ c * q \in Int
      BY <1>1, <3>3, <3>4
    <3>6. c * (n - 1) = c * q
      BY <3>5
    <3>7. m \in Int
      BY <1>3, <2>1
    <3>. HIDE DEF c
    <3>. QED BY <3>3, <3>4, <3>5, <3>6, <3>7
  <2>4. Melt(f)[m] = Cell(f, Columns[j], n)
    BY <1>2, <1>4
  <2>. HIDE DEF n, j
  <2>. QED BY <1>1, <2>2, <2>3, <2>4
<1>5. ASSUME NEW n \in 1 .. l, NEW j \in 1 .. c
      PROVE  c * (n - 1) + j \in DOMAIN Melt(f) /\ Melt(f)[c * (n - 1) + j] = Cell(f, Columns[j], n)
  <2> DEFINE m == c * (n - 1) + j
  <2>1. c * (n - 1) \in Int /\ c * (n - 1) >= 0 /\ c * (n - 1) + c <= c * l
    <3>1. c * (l - n) \in Int /\ c * (l - n) >= 0
      BY <1>1
    <3>2. c * (l - n) = c * l - c * n /\ c * (n - 1) = c * n - c
      BY <1>1
    <3>. QED BY <1>1, <3>1, <3>2
  <2>2. m \in 1 .. c * l
    BY <1>1, <1>3, <2>1
  <2>3. (m - 1) \div c = n - 1 /\ (m - 1) % c = j - 1
    <3> DEFINE q == (m - 1) \div c
               r == (m - 1) % c
    <3>1. q \in Int /\ r \in 0 .. c - 1 /\ m - 1 = c * q + r
      BY <1>1, <2>2
    <3>. HIDE DEF q, r
    <3>2. c * q + r = c * (n - 1) + (j - 1)
      <4>1. c * q \in Int /\ m = c * (n - 1) + j
        BY <1>1, <3>1
      <4>. HIDE DEF m
      <4>. QED BY <2>1, <2>2, <3>1, <4>1
    <3>3. c * (q - (n - 1)) = j - 1 - r
      BY <1>1, <3>1, <3>2
    <3>4. q - (n - 1) < 1 /\ q - (n - 1) > -1
      <4>1. ASSUME NEW d \in Int, c * d < c, c * d > -c PROVE d < 1 /\ d > -1
        BY <1>1, <4>1
      <4>. QED BY <1>1, <3>1, <3>3, <4>1
    <3>5. q = n - 1
      BY <3>1, <3>4
    <3>. QED BY <1>1, <3>1, <3>2, <3>5 DEF q, r
  <2>4. ((m - 1) \div c) + 1 = n /\ ((m - 1) % c) + 1 = j
    BY <2>3
  <2>. HIDE DEF m
  <2>5. m \in DOMAIN Melt(f) /\ Melt(f)[m] = Cell(f, Columns[j], n)
    BY <1>2, <2>2, <2>4
  <2>. QED BY <2>5 DEF m
<1>6. DOMAIN Melt(f) \subseteq Nat
  BY <1>2, <1>3
<1>. QED BY <1>1, <1>4, <1>5, <1>6 DEF c

LEMMA EachCellOnce ==
  ASSUME NEW f, NEW l \in Nat, Len(f.at) = l, \A n, h \in 1 .. l : f.at[n] = f.at[h] => n = h
  PROVE  \A m, h \in DOMAIN Melt(f) : Place(Melt(f)[m]) = Place(Melt(f)[h]) => m = h
<1>1. SUFFICES ASSUME NEW m \in DOMAIN Melt(f), NEW h \in DOMAIN Melt(f), Place(Melt(f)[m]) = Place(Melt(f)[h])
               PROVE  m = h
  OBVIOUS
<1>2. PICK n \in 1 .. l, j \in DOMAIN Columns : m = Len(Columns) * (n - 1) + j /\ Melt(f)[m] = Cell(f, Columns[j], n)
  BY MeltCells
<1>3. PICK x \in 1 .. l, y \in DOMAIN Columns : h = Len(Columns) * (x - 1) + y /\ Melt(f)[h] = Cell(f, Columns[y], x)
  BY MeltCells
<1>4. f.at[n] = f.at[x] /\ Columns[j] = Columns[y]
  BY <1>1, <1>2, <1>3 DEF Place, Cell
<1>5. n = x /\ j = y
  BY <1>4, ReadingsAssumption DEF IsInjective
<1>. QED BY <1>2, <1>3, <1>5

-----------------------------------------------------------------------------
LEMMA CsvCells ==
  ASSUME NEW f, Dated(f)
  PROVE  /\ Len(f.at) \in Nat /\ Len(CsvFrame(f).at) = Len(f.at)
         /\ DOMAIN f.at = 1 .. Len(f.at) /\ CsvFrame(f).at \in [1 .. Len(f.at) -> Int]
         /\ \A m, n \in 1 .. Len(f.at) : m < n => CsvFrame(f).at[m] < CsvFrame(f).at[n]
         /\ \A n \in 1 .. Len(f.at) : RowOrder(f)[n] \in 1 .. Len(f.at)
         /\ \A i \in 1 .. Len(f.at) : \E n \in 1 .. Len(f.at) : RowOrder(f)[n] = i
         /\ \A n \in 1 .. Len(f.at), k \in DOMAIN f.col : Cell(CsvFrame(f), k, n) = Cell(f, k, RowOrder(f)[n])
<1> DEFINE l == Len(f.at)
           c == CsvFrame(f)
           o == RowOrder(f)
<1>1. l \in Nat /\ DOMAIN f.at = 1 .. l /\ f.at \in [1 .. l -> Int] /\ Cardinality(DOMAIN f.at) = l
  BY FileRows
<1>2. c.at = [n \in 1 .. l |-> f.at[o[n]]] /\ IsOrder(o, f.at, 1 .. l)
  BY <1>1, RowsAreOrdered
<1>3. c.col = [k \in DOMAIN f.col |-> [n \in DOMAIN o |-> f.col[k][o[n]]]]
  BY DEF CsvFrame, RowOrder
<1>4. Cardinality(1 .. l) = l
  BY <1>1
<1>. HIDE DEF l, c, o
<1>5. /\ DOMAIN o = 1 .. l /\ (\A n \in 1 .. l : o[n] \in 1 .. l) /\ \A i \in 1 .. l : \E n \in 1 .. l : o[n] = i
      /\ \A m, n \in 1 .. l : m < n => f.at[o[m]] < f.at[o[n]]
  BY <1>1, <1>2, <1>4 DEF IsOrder
<1>6. c.at \in [1 .. l -> Int] /\ Len(c.at) = l
  <2>1. \A n \in 1 .. l : f.at[o[n]] \in Int
    BY <1>1, <1>5
  <2>2. c.at \in [1 .. l -> Int]
    BY <1>2, <2>1
  <2>. QED BY <1>1, <2>2
<1>7. ASSUME NEW n \in 1 .. l, NEW k \in DOMAIN f.col PROVE Cell(c, k, n) = Cell(f, k, o[n])
  <2>1. c.at[n] = f.at[o[n]]
    BY <1>2
  <2>2. c.col[k][n] = f.col[k][o[n]]
    BY <1>3, <1>5
  <2>. QED BY <2>1, <2>2 DEF Cell
<1>8. \A m, n \in 1 .. l : m < n => c.at[m] < c.at[n]
  BY <1>2, <1>5
<1>. QED BY <1>1, <1>5, <1>6, <1>7, <1>8 DEF l, c, o

LEMMA MeltHasTheCells ==
  ASSUME NEW f, NEW l \in Nat, Len(f.at) = l
  PROVE  /\ \A m \in DOMAIN Melt(f) : \E n \in 1 .. l, j \in DOMAIN Columns : Melt(f)[m] = Cell(f, Columns[j], n)
         /\ \A n \in 1 .. l, j \in DOMAIN Columns : \E m \in DOMAIN Melt(f) : Melt(f)[m] = Cell(f, Columns[j], n)
<1>1. \A m \in DOMAIN Melt(f) : \E n \in 1 .. l, j \in DOMAIN Columns :
        m = Len(Columns) * (n - 1) + j /\ Melt(f)[m] = Cell(f, Columns[j], n)
  BY MeltCells
<1>2. \A n \in 1 .. l, j \in DOMAIN Columns :
        /\ Len(Columns) * (n - 1) + j \in DOMAIN Melt(f)
        /\ Melt(f)[Len(Columns) * (n - 1) + j] = Cell(f, Columns[j], n)
  BY MeltCells
<1>. QED BY <1>1, <1>2

LEMMA FileIsStored ==
  ASSUME NEW f \in Files, Readable(f)
  PROVE  Stores(Accepted(Melt(CsvFrame(f))), Melt(f))
<1> DEFINE c == CsvFrame(f)
           l == Len(f.at)
           o == RowOrder(f)
           R == Accepted(Melt(c))
<1>1. Dated(f) /\ DOMAIN f.col = Range(Columns)
  BY FilesAreDated, FilesAreTables, InsightAssumption
<1>2. /\ l \in Nat /\ Len(c.at) = l /\ c.at \in [1 .. l -> Int]
      /\ \A m, n \in 1 .. l : m < n => c.at[m] < c.at[n]
      /\ \A n \in 1 .. l : o[n] \in 1 .. l
      /\ \A i \in 1 .. l : \E n \in 1 .. l : o[n] = i
      /\ \A n \in 1 .. l, k \in DOMAIN f.col : Cell(c, k, n) = Cell(f, k, o[n])
  BY <1>1, CsvCells
<1>0. l = Len(f.at)
  OBVIOUS
<1>. HIDE DEF c, l, o, R
<1>12. /\ \A h \in DOMAIN Melt(c) : \E n \in 1 .. l, j \in DOMAIN Columns : Melt(c)[h] = Cell(c, Columns[j], n)
      /\ \A n \in 1 .. l, j \in DOMAIN Columns : \E h \in DOMAIN Melt(c) : Melt(c)[h] = Cell(c, Columns[j], n)
  <2>1. l \in Nat /\ Len(c.at) = l
    BY <1>2
  <2>. QED BY <2>1, MeltHasTheCells
<1>13. /\ \A m \in DOMAIN Melt(f) : \E n \in 1 .. l, j \in DOMAIN Columns : Melt(f)[m] = Cell(f, Columns[j], n)
      /\ \A n \in 1 .. l, j \in DOMAIN Columns : \E m \in DOMAIN Melt(f) : Melt(f)[m] = Cell(f, Columns[j], n)
  BY <1>0, <1>2, MeltHasTheCells
<1>3. \A j \in DOMAIN Columns : Columns[j] \in DOMAIN f.col
  BY <1>1 DEF Range
<1>4. DOMAIN Melt(c) \subseteq Nat
  BY <1>2, MeltCells
<1>5. ASSUME NEW m \in DOMAIN Melt(f) PROVE \E h \in DOMAIN Melt(c) : Melt(c)[h] = Melt(f)[m]
  <2>1. PICK n \in 1 .. l, j \in DOMAIN Columns : Melt(f)[m] = Cell(f, Columns[j], n)
    BY <1>13
  <2>2. PICK i \in 1 .. l : o[i] = n
    BY <1>2
  <2>3. Cell(c, Columns[j], i) = Melt(f)[m]
    BY <1>2, <1>3, <2>1, <2>2
  <2>. QED BY <1>12, <2>3
<1>6. ASSUME NEW h \in DOMAIN Melt(c) PROVE \E m \in DOMAIN Melt(f) : Melt(f)[m] = Melt(c)[h]
  <2>1. PICK n \in 1 .. l, j \in DOMAIN Columns : Melt(c)[h] = Cell(c, Columns[j], n)
    BY <1>12
  <2>2. Melt(c)[h] = Cell(f, Columns[j], o[n]) /\ o[n] \in 1 .. l
    BY <1>2, <1>3, <2>1
  <2>. QED BY <1>13, <2>2
<1>7. Stores(R, Melt(c))
  BY <1>4, BatchIsStored DEF R
<1>8. \A n, h \in 1 .. l : c.at[n] = c.at[h] => n = h
  BY <1>2
<1>9. \A m, h \in DOMAIN Melt(c) : Place(Melt(c)[m]) = Place(Melt(c)[h]) => m = h
  BY <1>2, <1>8, EachCellOnce
<1>10. {Place(Melt(c)[h]) : h \in Good(Melt(c))} = {Place(Melt(f)[m]) : m \in Good(Melt(f))}
  BY <1>5, <1>6 DEF Good
<1>11. ASSUME NEW m \in Good(Melt(f)) PROVE AsTable(R)[Place(Melt(f)[m])] = Melt(f)[m].value
  <2>1. PICK h \in Good(Melt(c)) : Melt(c)[h] = Melt(f)[m]
    BY <1>5 DEF Good
  <2>2. \A g \in Good(Melt(c)) : g < h => Place(Melt(c)[g]) # Place(Melt(c)[h])
    BY <1>4, <1>9 DEF Good
  <2>3. AsTable(R)[Place(Melt(c)[h])] = Melt(c)[h].value
    BY <1>7, <2>2 DEF Stores
  <2>. QED BY <2>1, <2>3
<1>. QED BY <1>7, <1>10, <1>11 DEF Stores, R, c

-----------------------------------------------------------------------------
(* What came for the unit, batch by batch, and the table as a function of it. *)
Came(f, batches) == [b \in DOMAIN batches |-> IF batches[b] = <<>> THEN Melt(f) ELSE batches[b]]
Usable(came) == UNION {{<<b, i>> : i \in Good(came[b])} : b \in DOMAIN came}
At(came, p) == came[p[1]][p[2]]
CameBefore(p, q) == p[1] < q[1] \/ (p[1] = q[1] /\ p[2] < q[2])

\* A cell of the table for every place of a usable reading, with the value of the first one.
TableIs(t, came) ==
  /\ DOMAIN t = {Place(At(came, p)) : p \in Usable(came)}
  /\ \A p \in Usable(came) :
       (\A q \in Usable(came) : CameBefore(q, p) => Place(At(came, q)) # Place(At(came, p))) =>
         t[Place(At(came, p))] = At(came, p).value

LEMMA WriteStores ==
  ASSUME NEW t, NEW R, NEW p \in {Place(r) : r \in R}, p \notin DOMAIN t
  PROVE  Write(t, R)[p] = AsTable(R)[p]
<1> DEFINE new == AsTable(R)
<1>1. DOMAIN new = {<<r.key, r.at>> : r \in R}
  BY DEF AsTable
<1>2. Write(t, R) = [x \in DOMAIN t \cup DOMAIN new |-> IF x \in DOMAIN t THEN t[x] ELSE new[x]]
  BY DEF Write
<1>3. p \in DOMAIN new
  BY <1>1 DEF Place
<1>. QED BY <1>2, <1>3

LEMMA UsableReadings ==
  ASSUME NEW came
  PROVE  /\ \A p \in Usable(came) : \E b \in DOMAIN came : \E i \in Good(came[b]) : p = <<b, i>>
         /\ \A b \in DOMAIN came : \A i \in Good(came[b]) : <<b, i>> \in Usable(came)
BY DEF Usable

LEMMA TableGrows ==
  ASSUME NEW n \in Nat, NEW came, DOMAIN came = 1 .. n, NEW next, DOMAIN next = 1 .. n + 1,
         \A b \in 1 .. n : next[b] = came[b], NEW R, Stores(R, next[n + 1]),
         NEW t, TableIs(t, came)
  PROVE  TableIs(Write(t, R), next)
<1> DEFINE batch == next[n + 1]
           w == Write(t, R)
<1>1. /\ DOMAIN w = DOMAIN t \cup {Place(r) : r \in R}
      /\ \A p \in DOMAIN t : w[p] = t[p]
      /\ \A p \in {Place(r) : r \in R} : p \notin DOMAIN t => w[p] = AsTable(R)[p]
  <2>1. DOMAIN w = DOMAIN t \cup {Place(r) : r \in R}
    BY WriteAdds DEF Place
  <2>2. \A p \in DOMAIN t : w[p] = t[p]
    BY WriteAdds
  <2>3. \A p \in {Place(r) : r \in R} : p \notin DOMAIN t => w[p] = AsTable(R)[p]
    BY WriteStores
  <2>. QED BY <2>1, <2>2, <2>3
<1>2. /\ {Place(r) : r \in R} = {Place(batch[i]) : i \in Good(batch)}
      /\ \A i \in Good(batch) :
           (\A h \in Good(batch) : h < i => Place(batch[h]) # Place(batch[i])) => AsTable(R)[Place(batch[i])] = batch[i].value
  BY DEF Stores
<1>. HIDE DEF w
<1>3. /\ DOMAIN t = {Place(At(came, p)) : p \in Usable(came)}
      /\ \A p \in Usable(came) :
           (\A q \in Usable(came) : CameBefore(q, p) => Place(At(came, q)) # Place(At(came, p))) =>
             t[Place(At(came, p))] = At(came, p).value
  BY DEF TableIs
<1>4. n + 1 \in DOMAIN next /\ n + 1 \notin 1 .. n /\ \A b \in 1 .. n + 1 : b \in 1 .. n \/ b = n + 1
  OBVIOUS
<1>5. ASSUME NEW p \in Usable(came) PROVE p \in Usable(next) /\ At(next, p) = At(came, p) /\ p[1] \in 1 .. n
  <2>1. PICK b \in DOMAIN came : \E i \in Good(came[b]) : p = <<b, i>>
    BY UsableReadings
  <2>2. PICK i \in Good(came[b]) : p = <<b, i>>
    BY <2>1
  <2>3. b \in DOMAIN next /\ next[b] = came[b]
    BY <2>1
  <2>4. <<b, i>> \in Usable(next)
    BY <2>2, <2>3, UsableReadings
  <2>. QED BY <2>2, <2>3, <2>4 DEF At
<1>6. ASSUME NEW p \in Usable(next)
      PROVE  p \in Usable(came) \/ \E i \in Good(batch) : p = <<n + 1, i>>
  <2>1. PICK b \in DOMAIN next : \E i \in Good(next[b]) : p = <<b, i>>
    BY UsableReadings
  <2>2. PICK i \in Good(next[b]) : p = <<b, i>>
    BY <2>1
  <2>3. CASE b = n + 1
    BY <2>2, <2>3
  <2>4. CASE b \in 1 .. n
    <3>1. b \in DOMAIN came /\ i \in Good(came[b])
      BY <2>2, <2>4
    <3>. QED BY <2>2, <3>1, UsableReadings
  <2>. QED BY <1>4, <2>1, <2>3, <2>4
<1>7. ASSUME NEW i \in Good(batch) PROVE <<n + 1, i>> \in Usable(next) /\ At(next, <<n + 1, i>>) = batch[i]
  <2>1. <<n + 1, i>> \in Usable(next)
    BY <1>4, <1>7, UsableReadings
  <2>. QED BY <2>1 DEF At
<1>. HIDE DEF batch
<1>8. DOMAIN w = {Place(At(next, p)) : p \in Usable(next)}
  <2>1. \A x \in DOMAIN w : \E p \in Usable(next) : x = Place(At(next, p))
    BY <1>1, <1>2, <1>3, <1>5, <1>7
  <2>2. \A p \in Usable(next) : Place(At(next, p)) \in DOMAIN w
    <3>1. SUFFICES ASSUME NEW p \in Usable(next) PROVE Place(At(next, p)) \in DOMAIN w
      OBVIOUS
    <3>2. CASE p \in Usable(came)
      BY <1>1, <1>3, <1>5, <3>2
    <3>3. ASSUME NEW i \in Good(batch), p = <<n + 1, i>> PROVE Place(At(next, p)) \in DOMAIN w
      BY <1>1, <1>2, <1>7, <3>3
    <3>. QED BY <1>6, <3>1, <3>2, <3>3
  <2>. QED BY <2>1, <2>2
<1>9. ASSUME NEW p \in Usable(next), \A q \in Usable(next) : CameBefore(q, p) => Place(At(next, q)) # Place(At(next, p))
      PROVE  w[Place(At(next, p))] = At(next, p).value
  <2>1. CASE p \in Usable(came)
    <3>1. \A q \in Usable(came) : CameBefore(q, p) => Place(At(came, q)) # Place(At(came, p))
      BY <1>5, <1>9, <2>1
    <3>2. t[Place(At(came, p))] = At(came, p).value /\ Place(At(came, p)) \in DOMAIN t
      BY <1>3, <2>1, <3>1
    <3>. QED BY <1>1, <1>5, <2>1, <3>2
  <2>2. ASSUME NEW i \in Good(batch), p = <<n + 1, i>> PROVE w[Place(At(next, p))] = At(next, p).value
    <3>1. At(next, p) = batch[i]
      BY <1>7, <2>2
    <3>2. \A q \in Usable(came) : CameBefore(q, p)
      BY <1>5, <2>2 DEF CameBefore
    <3>3. Place(batch[i]) \notin DOMAIN t
      BY <1>3, <1>5, <1>9, <3>1, <3>2
    <3>4. ASSUME NEW h \in Good(batch), h < i PROVE Place(batch[h]) # Place(batch[i])
      <4>1. CameBefore(<<n + 1, h>>, p)
        BY <2>2, <3>4 DEF CameBefore
      <4>. QED BY <1>7, <1>9, <3>1, <4>1
    <3>5. AsTable(R)[Place(batch[i])] = batch[i].value
      BY <1>2, <3>4
    <3>6. Place(batch[i]) \in {Place(r) : r \in R}
      BY <1>2
    <3>. QED BY <1>1, <3>1, <3>3, <3>5, <3>6
  <2>. QED BY <1>6, <2>1, <2>2
<1>. QED BY <1>8, <1>9 DEF TableIs, w

-----------------------------------------------------------------------------
LEMMA LogGrows ==
  ASSUME NEW f, NEW S, NEW batches \in Seq(S), NEW entry, NEW t, TableIs(t, Came(f, batches)),
         NEW R, Stores(R, IF entry = <<>> THEN Melt(f) ELSE entry)
  PROVE  TableIs(Write(t, R), Came(f, Append(batches, entry)))
<1> DEFINE n == Len(batches)
           came == Came(f, batches)
           longer == Append(batches, entry)
           next == Came(f, longer)
<1>1. n \in Nat /\ DOMAIN batches = 1 .. n
  OBVIOUS
<1>2. DOMAIN longer = 1 .. n + 1 /\ longer[n + 1] = entry /\ \A b \in 1 .. n : longer[b] = batches[b]
  OBVIOUS
<1>. HIDE DEF longer, n
<1>3. DOMAIN came = 1 .. n /\ DOMAIN next = 1 .. n + 1
  BY <1>1, <1>2 DEF Came
<1>4. \A b \in 1 .. n : next[b] = came[b]
  BY <1>1, <1>2 DEF Came
<1>5. next[n + 1] = IF entry = <<>> THEN Melt(f) ELSE entry
  BY <1>1, <1>2 DEF Came
<1>. HIDE DEF came, next
<1>6. Stores(R, next[n + 1])
  BY <1>5
<1>7. TableIs(t, came)
  BY DEF came
<1>8. TableIs(Write(t, R), next)
  BY <1>1, <1>3, <1>4, <1>6, <1>7, TableGrows
<1>. QED BY <1>8 DEF next, longer

LEMMA NothingCame ==
  ASSUME NEW f
  PROVE  TableIs(<<>>, Came(f, <<>>))
<1>1. DOMAIN Came(f, <<>>) = {} /\ DOMAIN <<>> = {}
  BY DEF Came
<1>2. Usable(Came(f, <<>>)) = {}
  BY <1>1 DEF Usable
<1>. QED BY <1>1, <1>2 DEF TableIs

Unloaded == {"source", "seeded", "rejected"}
LogInv ==
  /\ \E S : log \in Seq(S)
  /\ \A b \in DOMAIN log : log[b] = <<>> \/ log[b] \in Batches[file]
  /\ stage \notin {"source", "rejected"} => Readable(file) /\ \E b \in DOMAIN log : log[b] = <<>>
  /\ TableIs(table, Came(file, log))
  /\ stage \notin Unloaded => frame = DbFrame(table)
  /\ (stage = "answered" /\ reply.kind = "telemetry") => reply = Chart(table, Limits)

LEMMA AppendTo ==
  ASSUME NEW S, NEW s \in Seq(S), NEW x, NEW u, u = Append(s, x)
  PROVE  /\ \E T : u \in Seq(T)
         /\ \A i \in DOMAIN u : u[i] = x \/ (i \in DOMAIN s /\ u[i] = s[i])
         /\ \A i \in DOMAIN s : i \in DOMAIN u /\ u[i] = s[i]
         /\ \E i \in DOMAIN u : u[i] = x
<1>1. u \in Seq(S \cup {x})
  OBVIOUS
<1>2. /\ \A i \in DOMAIN u : u[i] = x \/ (i \in DOMAIN s /\ u[i] = s[i])
      /\ \A i \in DOMAIN s : i \in DOMAIN u /\ u[i] = s[i]
  OBVIOUS
<1>3. Len(s) + 1 \in DOMAIN u /\ u[Len(s) + 1] = x
  OBVIOUS
<1>. QED BY <1>1, <1>2, <1>3

LEMMA LogsAreWritten == InsightSpec => []LogInv
<1>1. InsightInit => LogInv
  <2>1. SUFFICES ASSUME InsightInit PROVE LogInv
    OBVIOUS
  <2>2. <<>> \in Seq({})
    OBVIOUS
  <2>. QED BY <2>1, <2>2, NothingCame DEF InsightInit, LogInv, Unloaded
<1>2. HistoryInv /\ LogInv /\ [InsightNext]_insightVars => LogInv'
  <2>1. SUFFICES ASSUME HistoryInv, LogInv, [InsightNext]_insightVars PROVE LogInv'
    OBVIOUS
  <2>2. file \in Files
    BY <2>1 DEF HistoryInv, FileInv
  <2>3. PICK S : log \in Seq(S)
    BY <2>1 DEF LogInv
  <2>4. CASE Seed
    <3>1. Readable(file) /\ stage' = "seeded" /\ file' = file /\ log' = Append(log, <<>>)
          /\ table' = Write(table, Accepted(Melt(CsvFrame(file))))
      BY <2>4 DEF Seed
    <3>2. TableIs(table', Came(file, log'))
      BY <2>1, <2>2, <2>3, <3>1, FileIsStored, LogGrows DEF LogInv
    <3>3. (\E T : log' \in Seq(T)) /\ (\A b \in DOMAIN log' : log'[b] = <<>> \/ log'[b] \in Batches[file])
          /\ \E b \in DOMAIN log' : log'[b] = <<>>
      <4>1. /\ \E T : log' \in Seq(T)
            /\ \A i \in DOMAIN log' : log'[i] = <<>> \/ (i \in DOMAIN log /\ log'[i] = log[i])
            /\ \E i \in DOMAIN log' : log'[i] = <<>>
        <5>1. log' = Append(log, <<>>)
          BY <3>1
        <5>2. log' \in Seq(S \cup {<<>>})
          BY <2>3, <5>1
        <5>3. \A i \in DOMAIN log' : log'[i] = <<>> \/ (i \in DOMAIN log /\ log'[i] = log[i])
          BY <2>3, <5>1
        <5>4. Len(log) + 1 \in DOMAIN log' /\ log'[Len(log) + 1] = <<>>
          BY <2>3, <5>1
        <5>. QED BY <5>2, <5>3, <5>4
      <4>2. \A i \in DOMAIN log : log[i] = <<>> \/ log[i] \in Batches[file]
        BY <2>1 DEF LogInv
      <4>. QED BY <3>1, <4>1, <4>2
    <3>. QED BY <3>1, <3>2, <3>3 DEF LogInv, Unloaded
  <2>5. CASE Post
    <3>1. PICK b \in Batches[file] : table' = Write(table, Accepted(b)) /\ log' = Append(log, b)
      BY <2>5 DEF Post
    <3>2. stage \in {"source", "seeded"} /\ UNCHANGED <<stage, file>>
      BY <2>5 DEF Post
    <3>3. b # <<>> /\ DOMAIN b \subseteq Nat
      BY <2>2, <3>1, BatchesAreTimed
    <3>4. Stores(Accepted(b), IF b = <<>> THEN Melt(file) ELSE b)
      BY <3>3, BatchIsStored
    <3>5. TableIs(table', Came(file, log'))
      BY <2>1, <2>3, <3>1, <3>4, LogGrows DEF LogInv
    <3>6. (\E T : log' \in Seq(T)) /\ (\A i \in DOMAIN log' : log'[i] = <<>> \/ log'[i] \in Batches[file])
      <4>1. /\ \E T : log' \in Seq(T)
            /\ \A i \in DOMAIN log' : log'[i] = b \/ (i \in DOMAIN log /\ log'[i] = log[i])
            /\ \E i \in DOMAIN log' : log'[i] = b
        <5>1. log' = Append(log, b)
          BY <3>1
        <5>2. log' \in Seq(S \cup {b})
          BY <2>3, <5>1
        <5>3. \A i \in DOMAIN log' : log'[i] = b \/ (i \in DOMAIN log /\ log'[i] = log[i])
          BY <2>3, <5>1
        <5>4. Len(log) + 1 \in DOMAIN log' /\ log'[Len(log) + 1] = b
          BY <2>3, <5>1
        <5>. QED BY <5>2, <5>3, <5>4
      <4>2. \A i \in DOMAIN log : log[i] = <<>> \/ log[i] \in Batches[file]
        BY <2>1 DEF LogInv
      <4>. QED BY <3>1, <4>1, <4>2
    <3>7. (\E i \in DOMAIN log : log[i] = <<>>) => \E i \in DOMAIN log' : log'[i] = <<>>
      BY <2>3, <3>1, AppendTo
    <3>. QED BY <2>1, <3>2, <3>5, <3>6, <3>7 DEF LogInv, Unloaded
  <2>6. CASE UNCHANGED readingVars /\ (stage' \notin {"source", "rejected"} => stage \notin {"source", "rejected"})
             /\ (stage' \notin Unloaded => stage \notin Unloaded /\ frame' = frame)
             /\ ((stage' = "answered" /\ reply'.kind = "telemetry") => reply' = Chart(table, Limits))
    BY <2>1, <2>6 DEF LogInv, readingVars
  <2>7. CASE SeedFails
    BY <2>6, <2>7 DEF SeedFails, Unloaded
  <2>8. CASE Load
    BY <2>1, <2>8 DEF Load, LogInv, Unloaded, readingVars
  <2>9. CASE PipelineStep
    <3>1. UNCHANGED <<frame, readingVars>> /\ stage \notin Unloaded /\ stage' # "answered"
      BY <2>9 DEF PipelineStep, Next, readingVars, Quality, Statistics, State, Envelope, Threshold, TimelineOf,
           Reliability, HealthOf, Assemble, Evaluate, Engine, Unloaded
    <3>. QED BY <2>6, <3>1 DEF Unloaded
  <2>10. CASE SkipLearning \/ LearnPatterns \/ LearnForecasts
    <3>1. UNCHANGED <<frame, readingVars>> /\ stage \notin Unloaded /\ stage' # "answered"
      BY <2>10 DEF SkipLearning, LearnPatterns, LearnForecasts, runVars, Unloaded
    <3>. QED BY <2>6, <3>1 DEF Unloaded
  <2>11. CASE ShowOutlook
    <3>1. UNCHANGED <<frame, readingVars>> /\ stage \notin Unloaded /\ reply' \in Outlooks(Recorded, ctx.health.subsystems)
      BY <2>11 DEF ShowOutlook, runVars, Unloaded
    <3>2. reply'.kind = "outlook"
      BY <3>1, OutlooksCiteTheView
    <3>. QED BY <2>6, <3>1, <3>2 DEF Unloaded
  <2>12. CASE Ask
    <3>1. UNCHANGED <<frame, readingVars>> /\ stage \notin Unloaded /\ reply' \in Answers(Recorded)
      BY <2>12 DEF Ask, runVars, Unloaded
    <3>2. reply'.kind = "answer"
      BY <3>1, AnswersCiteTheView
    <3>. QED BY <2>6, <3>1, <3>2 DEF Unloaded
  <2>13. CASE ShowTelemetry
    BY <2>6, <2>13 DEF ShowTelemetry, runVars, Unloaded
  <2>14. CASE UNCHANGED insightVars
    BY <2>1, <2>14 DEF insightVars, vars, readingVars, LogInv
  <2>. QED BY <2>1, <2>4, <2>5, <2>7, <2>8, <2>9, <2>10, <2>11, <2>12, <2>13, <2>14 DEF InsightNext
<1>. QED BY <1>1, <1>2, HistoriesAreRead, PTL DEF InsightSpec

-----------------------------------------------------------------------------
LEMMA SoonestExists ==
  ASSUME NEW S, S # {}, \A p \in S : p[1] \in Nat /\ p[2] \in Nat
  PROVE  \E p \in S : \A q \in S : ~CameBefore(q, p)
<1> DEFINE B == {p[1] : p \in S}
<1>1. B \in SUBSET Nat /\ B # {}
  OBVIOUS
<1>2. PICK b \in B : \A c \in B : b <= c
  <2>. HIDE DEF B
  <2>. QED BY <1>1, LeastExists
<1> DEFINE I == {p[2] : p \in {q \in S : q[1] = b}}
<1>3. I \in SUBSET Nat /\ I # {}
  BY <1>2
<1>4. PICK i \in I : \A j \in I : i <= j
  <2>. HIDE DEF I
  <2>. QED BY <1>3, LeastExists
<1>5. PICK p \in S : p[1] = b /\ p[2] = i
  BY <1>4
<1>6. ASSUME NEW q \in S PROVE ~CameBefore(q, p)
  <2>1. q[1] \in Nat /\ b \in Nat /\ b <= q[1]
    BY <1>1, <1>2
  <2>2. q[1] = b => q[2] \in Nat /\ i \in Nat /\ i <= q[2]
    BY <1>3, <1>4
  <2>. HIDE DEF B, I
  <2>. QED BY <1>5, <2>1, <2>2 DEF CameBefore
<1>. QED BY <1>5, <1>6

LEMMA FilesHaveRows ==
  ASSUME HistoryInv
  PROVE  Len(file.at) \in Nat /\ DOMAIN Melt(file) \subseteq Nat
<1>1. Len(file.at) \in Nat
  BY FilesAreTables DEF HistoryInv, FileInv
<1>. QED BY <1>1, MeltCells

LEMMA BatchesAreNumbered ==
  ASSUME HistoryInv, LogInv, NEW p \in Usable(Came(file, log))
  PROVE  p[1] \in Nat /\ p[2] \in Nat
<1>1. PICK b \in DOMAIN Came(file, log) : \E i \in Good(Came(file, log)[b]) : p = <<b, i>>
  BY UsableReadings
<1>2. PICK i \in Good(Came(file, log)[b]) : p = <<b, i>>
  BY <1>1
<1>3. b \in DOMAIN log /\ Came(file, log)[b] = IF log[b] = <<>> THEN Melt(file) ELSE log[b]
  BY <1>1 DEF Came
<1>4. i \in DOMAIN Came(file, log)[b]
  BY <1>2 DEF Good
<1>5. b \in Nat
  <2>1. PICK S : log \in Seq(S)
    BY DEF LogInv
  <2>. QED BY <1>3, <2>1
<1>6. i \in Nat
  <2>1. CASE log[b] = <<>>
    BY <1>3, <1>4, <2>1, FilesHaveRows
  <2>2. CASE log[b] # <<>>
    <3>1. log[b] \in Batches[file] /\ file \in Files
      BY <1>3, <2>2 DEF LogInv, HistoryInv, FileInv
    <3>2. DOMAIN log[b] = 1 .. Len(log[b]) /\ Len(log[b]) \in Nat
      BY <3>1, BatchesAreTimed
    <3>. QED BY <1>3, <1>4, <2>2, <3>2
  <2>. QED BY <2>1, <2>2
<1>. QED BY <1>2, <1>5, <1>6

LEMMA FirstIsStored ==
  ASSUME HistoryInv, LogInv, NEW x \in DOMAIN table
  PROVE  \E p \in Usable(Came(file, log)) :
           /\ Place(At(Came(file, log), p)) = x /\ table[x] = At(Came(file, log), p).value
           /\ \A q \in Usable(Came(file, log)) : CameBefore(q, p) => Place(At(Came(file, log), q)) # x
<1> DEFINE came == Came(file, log)
           S == {p \in Usable(came) : Place(At(came, p)) = x}
<1>1. /\ DOMAIN table = {Place(At(came, p)) : p \in Usable(came)}
      /\ \A p \in Usable(came) :
           (\A q \in Usable(came) : CameBefore(q, p) => Place(At(came, q)) # Place(At(came, p))) =>
             table[Place(At(came, p))] = At(came, p).value
  BY DEF LogInv, TableIs
<1>2. \A p \in Usable(came) : p[1] \in Nat /\ p[2] \in Nat
  BY BatchesAreNumbered
<1>. HIDE DEF came
<1>3. S # {} /\ \A p \in S : p[1] \in Nat /\ p[2] \in Nat
  BY <1>1, <1>2
<1>4. PICK p \in S : \A q \in S : ~CameBefore(q, p)
  <2>. HIDE DEF S
  <2>. QED BY <1>3, SoonestExists
<1>5. \A q \in Usable(came) : CameBefore(q, p) => Place(At(came, q)) # x
  BY <1>4
<1>. QED BY <1>1, <1>4, <1>5 DEF came

LEMMA EverySensorIsSeen ==
  ASSUME HistoryInv, LogInv, stage \notin {"source", "rejected"}, NEW k \in Sensors
  PROVE  \E t \in Int : <<k, t>> \in DOMAIN table
<1>1. PICK b \in DOMAIN log : log[b] = <<>>
  BY DEF LogInv
<1>2. Readable(file) /\ file \in Files
  BY DEF LogInv, HistoryInv, FileInv
<1>3. PICK i \in DOMAIN file.at : file.col[k][i] # Infinite
  BY <1>2, FilesAreTables
<1>4. PICK j \in DOMAIN Columns : Columns[j] = k
  BY InsightAssumption DEF Range
<1>5. Len(file.at) \in Nat /\ i \in 1 .. Len(file.at)
  BY <1>2, <1>3, FilesAreTables
<1>6. PICK m \in DOMAIN Melt(file) : Melt(file)[m] = Cell(file, k, i)
  BY <1>4, <1>5, MeltHasTheCells
<1> DEFINE came == Came(file, log)
<1>7. b \in DOMAIN came /\ came[b] = Melt(file)
  BY <1>1 DEF Came
<1>. HIDE DEF came
<1>8. m \in Good(came[b])
  BY <1>3, <1>6, <1>7 DEF Good, Cell
<1>9. <<b, m>> \in Usable(came) /\ At(came, <<b, m>>) = Cell(file, k, i)
  BY <1>6, <1>7, <1>8, UsableReadings DEF At
<1>10. Place(Cell(file, k, i)) \in DOMAIN table
  BY <1>9 DEF LogInv, TableIs, came
<1>11. <<k, file.at[i]>> \in DOMAIN table
  BY <1>10 DEF Place, Cell
<1>. QED BY <1>11 DEF HistoryInv, TableInv

Times == {p[2] : p \in DOMAIN table}
Stored(k, t) == IF <<k, t>> \in DOMAIN table THEN table[<<k, t>>] ELSE Missing

LEMMA FrameIsTheTable ==
  ASSUME HistoryInv, LogInv, stage \notin Unloaded
  PROVE  /\ Enumerates(frame.at, Times) /\ Times \in SUBSET Int /\ IsFiniteSet(Times)
         /\ Cardinality(Times) \in Nat \ {0} /\ DOMAIN frame.at = 1 .. Cardinality(Times)
         /\ DOMAIN frame.col = Sensors
         /\ \A k \in Sensors : frame.col[k] = [n \in 1 .. Cardinality(Times) |-> Stored(k, frame.at[n])]
<1>1. frame = DbFrame(table)
  BY DEF LogInv
<1>2. Times \in SUBSET Int /\ IsFiniteSet(Times)
  BY TableHasTimes DEF HistoryInv, Times
<1>3. frame.at = InOrder(Times)
  BY <1>1 DEF DbFrame, Times
<1>4. Enumerates(frame.at, Times)
  BY <1>2, <1>3, SortedSet
<1>5. Cardinality(Times) \in Nat /\ DOMAIN frame.at = 1 .. Cardinality(Times)
  BY <1>4 DEF Enumerates
<1> DEFINE present == {k \in Range(Columns) : \E t \in Times : <<k, t>> \in DOMAIN table}
<1>6. present = Sensors
  <2>1. ASSUME NEW k \in Sensors PROVE \E t \in Times : <<k, t>> \in DOMAIN table
    <3>1. PICK t \in Int : <<k, t>> \in DOMAIN table
      BY EverySensorIsSeen DEF Unloaded
    <3>2. <<k, t>>[2] \in Times
      BY <3>1 DEF Times
    <3>. QED BY <3>1, <3>2
  <2>. QED BY <2>1, InsightAssumption
<1>7. frame.col = [k \in present |-> [n \in DOMAIN frame.at |-> Stored(k, frame.at[n])]]
  BY <1>1, <1>3 DEF DbFrame, Times, Stored
<1>. HIDE DEF present
<1>8. Cardinality(Times) # 0
  <2>1. Times # {}
    <3>1. Indicator \in Sensors
      BY PipelineAssumption
    <3>. QED BY <3>1, EverySensorIsSeen DEF Unloaded, Times
  <2>. QED BY <1>2, <2>1, FS_EmptySet
<1>. QED BY <1>2, <1>4, <1>5, <1>6, <1>7, <1>8

-----------------------------------------------------------------------------
LEMMA TimesCame ==
  ASSUME LogInv
  PROVE  Times = {At(Came(file, log), p).at : p \in Usable(Came(file, log))}
<1> DEFINE came == Came(file, log)
<1>1. DOMAIN table = {Place(At(came, p)) : p \in Usable(came)}
  BY DEF LogInv, TableIs
<1>. HIDE DEF came
<1>2. \A p \in Usable(came) : Place(At(came, p))[2] = At(came, p).at
  BY DEF Place
<1>3. Times = {At(came, p).at : p \in Usable(came)}
  BY <1>1, <1>2 DEF Times
<1>. QED BY <1>3 DEF came

\* The readings of one cell, and the value of the one that came first.
OfCell(came, k, t) == {p \in Usable(came) : At(came, p).key = k /\ At(came, p).at = t}
FirstOf(came, k, t) ==
  {At(came, p).value : p \in {q \in OfCell(came, k, t) : \A r \in OfCell(came, k, t) : ~CameBefore(r, q)}}

LEMMA CellIsFirst ==
  ASSUME HistoryInv, LogInv, NEW k, NEW t
  PROVE  Stored(k, t) \in FirstOf(Came(file, log), k, t)
                            \cup {x \in {Missing} : FirstOf(Came(file, log), k, t) = {}}
<1> DEFINE came == Came(file, log)
<1>1. CASE <<k, t>> \in DOMAIN table
  <2>1. PICK p \in Usable(came) :
           /\ Place(At(came, p)) = <<k, t>> /\ table[<<k, t>>] = At(came, p).value
           /\ \A q \in Usable(came) : CameBefore(q, p) => Place(At(came, q)) # <<k, t>>
    BY <1>1, FirstIsStored
  <2>. HIDE DEF came
  <2>2. p \in OfCell(came, k, t)
    BY <2>1 DEF OfCell, Place
  <2>3. \A r \in OfCell(came, k, t) : r \in Usable(came) /\ Place(At(came, r)) = <<k, t>>
    BY DEF OfCell, Place
  <2>4. \A r \in OfCell(came, k, t) : ~CameBefore(r, p)
    BY <2>1, <2>3
  <2>5. At(came, p).value \in FirstOf(came, k, t)
    BY <2>2, <2>4 DEF FirstOf
  <2>. QED BY <1>1, <2>1, <2>5 DEF Stored, came
<1>2. CASE <<k, t>> \notin DOMAIN table
  <2>1. DOMAIN table = {Place(At(came, p)) : p \in Usable(came)}
    BY DEF LogInv, TableIs
  <2>. HIDE DEF came
  <2>2. OfCell(came, k, t) = {}
    BY <1>2, <2>1 DEF OfCell, Place
  <2>3. FirstOf(came, k, t) = {}
    BY <2>2 DEF FirstOf
  <2>. QED BY <1>2, <2>3 DEF Stored, came
<1>. QED BY <1>1, <1>2

Rising(s, n) == \A i, j \in 1 .. n : i < j => s[i] < s[j]
Within(s, m, u, n) == \A i \in 1 .. m : \E j \in 1 .. n : s[i] = u[j]

LEMMA SameSequence ==
  ASSUME NEW m \in Nat, NEW n \in Nat, NEW s \in [1 .. m -> Int], NEW u \in [1 .. n -> Int],
         Rising(s, m), Rising(u, n), Within(s, m, u, n), Within(u, n, s, m)
  PROVE  m = n /\ s = u
<1> DEFINE D == {i \in 1 .. m : i \in 1 .. n /\ s[i] # u[i]}
<1>1. D = {}
  <2>1. SUFFICES ASSUME D # {} PROVE FALSE
    OBVIOUS
  <2>2. D \in SUBSET Nat
    OBVIOUS
  <2>3. PICK i \in D : \A j \in D : i <= j
    <3>. HIDE DEF D
    <3>. QED BY <2>1, <2>2, LeastExists
  <2>4. \A j \in 1 .. m : j < i => j \in 1 .. n /\ s[j] = u[j]
    BY <2>3
  <2>5. i \in 1 .. m /\ i \in 1 .. n /\ s[i] # u[i] /\ s[i] \in Int /\ u[i] \in Int
    BY <2>3
  <2>. HIDE DEF D
  <2>6. CASE s[i] < u[i]
    <3>1. PICK j \in 1 .. n : s[i] = u[j]
      BY <2>5 DEF Within
    <3>2. (i < j => u[i] < u[j]) /\ (j \in 1 .. m /\ j < i => s[j] < s[i])
      BY <2>5 DEF Rising
    <3>3. j < i
      BY <2>5, <2>6, <3>1, <3>2
    <3>4. j \in 1 .. m /\ s[j] < s[i] /\ s[j] = u[j] /\ s[j] \in Int
      BY <2>4, <2>5, <3>2, <3>3
    <3>. QED BY <2>5, <3>1, <3>4
  <2>7. CASE u[i] < s[i]
    <3>1. PICK j \in 1 .. m : s[j] = u[i]
      BY <2>5 DEF Within
    <3>2. (i < j => s[i] < s[j]) /\ (j \in 1 .. n /\ j < i => u[j] < u[i])
      BY <2>5 DEF Rising
    <3>3. j < i
      BY <2>5, <2>7, <3>1, <3>2
    <3>4. j \in 1 .. n /\ u[j] < u[i] /\ s[j] = u[j] /\ s[j] \in Int
      BY <2>4, <2>5, <3>2, <3>3
    <3>. QED BY <2>5, <3>1, <3>4
  <2>. QED BY <2>5, <2>6, <2>7
<1>2. \A i \in 1 .. m : i \in 1 .. n => s[i] = u[i]
  BY <1>1
<1>3. ~(m < n)
  <2>1. SUFFICES ASSUME m < n PROVE FALSE
    OBVIOUS
  <2>2. PICK i \in 1 .. m : u[m + 1] = s[i]
    BY <2>1 DEF Within
  <2>3. m + 1 \in 1 .. n /\ i \in 1 .. n /\ i < m + 1
    BY <2>1
  <2>4. u[i] < u[m + 1] /\ s[i] = u[i] /\ u[i] \in Int
    BY <1>2, <2>3 DEF Rising
  <2>. QED BY <2>2, <2>4
<1>4. ~(n < m)
  <2>1. SUFFICES ASSUME n < m PROVE FALSE
    OBVIOUS
  <2>2. PICK j \in 1 .. n : s[n + 1] = u[j]
    BY <2>1 DEF Within
  <2>3. n + 1 \in 1 .. m /\ j \in 1 .. m /\ j < n + 1
    BY <2>1
  <2>4. s[j] < s[n + 1] /\ s[j] = u[j] /\ s[j] \in Int
    BY <1>2, <2>3 DEF Rising
  <2>. QED BY <2>2, <2>4
<1>5. m = n
  BY <1>3, <1>4
<1>6. \A i \in 1 .. n : s[i] = u[i]
  BY <1>2, <1>5
<1>. QED BY <1>5, <1>6

\* A run of the file alone sees the file.
LEMMA FileAloneIsSeen ==
  ASSUME HistoryInv, LogInv, stage \notin Unloaded, log = <<<<>>>>,
         \A k \in Sensors : Infinite \notin Range(file.col[k])
  PROVE  frame = CsvFrame(file)
<1> DEFINE f == file
           c == CsvFrame(file)
           l == Len(file.at)
           o == RowOrder(file)
           came == Came(file, log)
           N == Cardinality(Times)
<1>1. /\ f \in Files /\ Readable(f) /\ Dated(f) /\ DOMAIN f.col = Sensors /\ Range(Columns) = Sensors
      /\ \A k \in Sensors : DOMAIN f.col[k] = DOMAIN f.at
  <2>1. f \in Files /\ Readable(f)
    BY DEF HistoryInv, FileInv, LogInv, Unloaded
  <2>. QED BY <2>1, FilesAreDated, FilesAreTables, InsightAssumption
<1>2. /\ l \in Nat /\ Len(c.at) = l /\ DOMAIN f.at = 1 .. l /\ c.at \in [1 .. l -> Int]
      /\ \A m, n \in 1 .. l : m < n => c.at[m] < c.at[n]
      /\ \A n \in 1 .. l : o[n] \in 1 .. l
      /\ \A i \in 1 .. l : \E n \in 1 .. l : o[n] = i
      /\ \A n \in 1 .. l, k \in DOMAIN f.col : Cell(c, k, n) = Cell(f, k, o[n])
  BY <1>1, CsvCells
<1>3. c = [at |-> c.at, col |-> [k \in Sensors |-> [n \in 1 .. l |-> c.col[k][n]]]]
  <2>1. c = [at |-> [n \in DOMAIN o |-> f.at[o[n]]], col |-> [k \in DOMAIN f.col |-> [n \in DOMAIN o |-> f.col[k][o[n]]]]]
    BY DEF CsvFrame, RowOrder
  <2>2. DOMAIN o = 1 .. l
    BY <1>2 DEF RowOrder
  <2>. HIDE DEF c, o, l
  <2>3. c.at = [n \in DOMAIN o |-> f.at[o[n]]] /\ c.col = [k \in DOMAIN f.col |-> [n \in DOMAIN o |-> f.col[k][o[n]]]]
    BY <2>1
  <2>4. c = [at |-> c.at, col |-> c.col]
    BY <2>1
  <2>5. c.col = [k \in Sensors |-> [n \in 1 .. l |-> c.col[k][n]]]
    BY <1>1, <2>2, <2>3
  <2>. QED BY <2>4, <2>5
<1>4. came = <<Melt(f)>>
  BY DEF Came
<1>5. /\ frame.at \in [1 .. N -> Times] /\ Times \in SUBSET Int /\ N \in Nat
      /\ \A m, n \in 1 .. N : m < n => frame.at[m] < frame.at[n]
      /\ \A t \in Times : \E n \in 1 .. N : frame.at[n] = t
      /\ frame = [at |-> frame.at, col |-> frame.col] /\ DOMAIN frame.col = Sensors
      /\ \A k \in Sensors : frame.col[k] = [n \in 1 .. N |-> Stored(k, frame.at[n])]
  <2>1. frame = [at |-> frame.at, col |-> frame.col]
    <3>1. frame = DbFrame(table)
      BY DEF LogInv
    <3>. QED BY <3>1 DEF DbFrame
  <2>. QED BY <2>1, FrameIsTheTable DEF Enumerates
<1>6. /\ \A m \in DOMAIN Melt(f) : \E n \in 1 .. l, j \in DOMAIN Columns : Melt(f)[m] = Cell(f, Columns[j], n)
      /\ \A n \in 1 .. l, j \in DOMAIN Columns : \E m \in DOMAIN Melt(f) : Melt(f)[m] = Cell(f, Columns[j], n)
  BY <1>2, MeltHasTheCells
<1>7. \A m, h \in DOMAIN Melt(f) : Place(Melt(f)[m]) = Place(Melt(f)[h]) => m = h
  <2>1. \A n, h \in 1 .. l : f.at[n] = f.at[h] => n = h
    BY <1>1, <1>2 DEF Dated, IsInjective
  <2>. QED BY <1>2, <2>1, EachCellOnce
<1>8. /\ DOMAIN table = {Place(At(came, p)) : p \in Usable(came)}
      /\ \A p \in Usable(came) :
           (\A q \in Usable(came) : CameBefore(q, p) => Place(At(came, q)) # Place(At(came, p))) =>
             table[Place(At(came, p))] = At(came, p).value
  BY DEF LogInv, TableIs
<1>9. DOMAIN Melt(f) \subseteq Nat
  BY FilesHaveRows
<1>. HIDE DEF f, c, l, o, came, N
<1>10. Good(Melt(f)) = DOMAIN Melt(f)
  <2>1. ASSUME NEW m \in DOMAIN Melt(f) PROVE Melt(f)[m].value # Infinite
    <3>1. PICK n \in 1 .. l, j \in DOMAIN Columns : Melt(f)[m] = Cell(f, Columns[j], n)
      BY <1>6
    <3>2. Columns[j] \in Sensors
      BY <1>1 DEF Range
    <3>3. f.col[Columns[j]][n] \in Range(f.col[Columns[j]])
      BY <1>1, <1>2, <3>2 DEF Range
    <3>. QED BY <3>1, <3>2, <3>3 DEF Cell, f
  <2>. QED BY <2>1 DEF Good
<1>11. Usable(came) = {<<1, m>> : m \in DOMAIN Melt(f)}
  BY <1>4, <1>10 DEF Usable
<1>12. \A m \in DOMAIN Melt(f) : At(came, <<1, m>>) = Melt(f)[m]
  BY <1>4 DEF At
<1>13. ASSUME NEW m \in DOMAIN Melt(f)
       PROVE  Place(Melt(f)[m]) \in DOMAIN table /\ table[Place(Melt(f)[m])] = Melt(f)[m].value
  <2>1. <<1, m>> \in Usable(came)
    BY <1>11
  <2>2. ASSUME NEW q \in Usable(came), CameBefore(q, <<1, m>>) PROVE Place(At(came, q)) # Place(Melt(f)[m])
    <3>1. PICK h \in DOMAIN Melt(f) : q = <<1, h>>
      BY <1>11
    <3>2. h < m
      BY <2>2, <3>1 DEF CameBefore
    <3>. QED BY <1>7, <1>9, <1>12, <3>1, <3>2
  <2>. QED BY <1>8, <1>12, <2>1, <2>2
<1>14. ASSUME NEW k \in Sensors, NEW n \in 1 .. l
       PROVE  Stored(k, c.at[n]) = c.col[k][n] /\ c.at[n] \in Times
  <2>1. PICK j \in DOMAIN Columns : Columns[j] = k
    BY <1>1 DEF Range
  <2>2. PICK m \in DOMAIN Melt(f) : Melt(f)[m] = Cell(f, k, o[n])
    BY <1>2, <1>6, <2>1
  <2>3. Melt(f)[m] = Cell(c, k, n)
    BY <1>1, <1>2, <2>2
  <2>4. <<k, c.at[n]>> \in DOMAIN table /\ table[<<k, c.at[n]>>] = c.col[k][n]
    BY <1>13, <2>3 DEF Place, Cell
  <2>5. <<k, c.at[n]>>[2] \in Times
    BY <2>4 DEF Times
  <2>. QED BY <2>4, <2>5 DEF Stored
<1>15. ASSUME NEW t \in Times PROVE \E n \in 1 .. l : c.at[n] = t
  <2>1. PICK p \in Usable(came) : t = Place(At(came, p))[2]
    BY <1>8, <1>15 DEF Times
  <2>2. PICK m \in DOMAIN Melt(f) : t = Place(Melt(f)[m])[2]
    BY <1>11, <1>12, <2>1
  <2>3. PICK i \in 1 .. l, j \in DOMAIN Columns : Melt(f)[m] = Cell(f, Columns[j], i)
    BY <1>6
  <2>4. PICK n \in 1 .. l : o[n] = i
    BY <1>2
  <2>5. Melt(f)[m] = Cell(c, Columns[j], n)
    <3>1. Columns[j] \in DOMAIN f.col
      BY <1>1 DEF Range
    <3>. QED BY <1>2, <2>3, <2>4, <3>1
  <2>. QED BY <2>2, <2>5 DEF Place, Cell
<1>16. \A n \in 1 .. l : c.at[n] \in Times
  <2>1. Indicator \in Sensors
    BY PipelineAssumption
  <2>. QED BY <1>14, <2>1
<1>17. N = l /\ frame.at = c.at
  <2>1. frame.at \in [1 .. N -> Int]
    BY <1>5
  <2>2. Within(frame.at, N, c.at, l)
    BY <1>5, <1>15 DEF Within
  <2>3. Within(c.at, l, frame.at, N)
    BY <1>5, <1>16 DEF Within
  <2>4. /\ l \in Nat /\ N \in Nat /\ c.at \in [1 .. l -> Int]
        /\ Rising(frame.at, N) /\ Rising(c.at, l)
    BY <1>2, <1>5 DEF Rising
  <2>. QED BY <2>1, <2>2, <2>3, <2>4, SameSequence
<1>18. frame.col = [k \in Sensors |-> [n \in 1 .. l |-> c.col[k][n]]]
  <2>1. \A k \in Sensors : frame.col[k] = [n \in 1 .. l |-> c.col[k][n]]
    BY <1>5, <1>14, <1>17
  <2>2. frame.col = [k \in Sensors |-> frame.col[k]]
    <3>1. frame = DbFrame(table)
      BY DEF LogInv
    <3>. QED BY <1>5, <3>1 DEF DbFrame
  <2>. QED BY <2>1, <2>2
<1>. QED BY <1>3, <1>5, <1>17, <1>18 DEF c

-----------------------------------------------------------------------------
LEMMA LatestIsLast ==
  ASSUME HistoryInv, LogInv, stage \notin Unloaded, NEW k \in Sensors
  PROVE  Chart(table, Limits).sensors[k].latest =
           IF Valid(frame.col[k]) = <<>> THEN {} ELSE {Last(Valid(frame.col[k]))}
<1> DEFINE all == TimesOf(table, k)
           col == frame.col[k]
           N == Cardinality(Times)
           P == Rows(col)
           s == Valid(col)
           c == Cardinality(P)
<1>1. Chart(table, Limits).sensors[k].latest = {table[<<k, t>>] : t \in {x \in all : \A r \in all : r <= x}}
  <2>1. k \in Range(Columns)
    BY InsightAssumption
  <2>2. Chart(table, Limits).sensors[k].latest = {table[<<k, t>>] : t \in {x \in TimesOf(table, k) : \A r \in TimesOf(table, k) : r <= x}}
    BY <2>1 DEF Chart
  <2>. QED BY <2>2
<1>2. /\ N \in Nat /\ DOMAIN col = 1 .. N /\ frame.at \in [1 .. N -> Int]
      /\ \A n \in 1 .. N : col[n] = Stored(k, frame.at[n])
      /\ \A m, n \in 1 .. N : m < n => frame.at[m] < frame.at[n]
      /\ \A t \in Times : \E n \in 1 .. N : frame.at[n] = t
  BY FrameIsTheTable DEF Enumerates
<1>3. \A t : t \in all <=> <<k, t>> \in DOMAIN table /\ table[<<k, t>>] # Missing
  <2>1. \A p \in DOMAIN table : p = <<p[1], p[2]>>
    BY DEF LogInv, TableIs, Place
  <2>2. all = {p[2] : p \in {q \in DOMAIN table : q[1] = k /\ table[q] # Missing}}
    BY DEF TimesOf
  <2>3. ASSUME NEW t \in all PROVE <<k, t>> \in DOMAIN table /\ table[<<k, t>>] # Missing
    BY <2>1, <2>2
  <2>4. ASSUME NEW t, <<k, t>> \in DOMAIN table, table[<<k, t>>] # Missing PROVE t \in all
    <3>1. <<k, t>>[2] \in all
      BY <2>2, <2>4
    <3>. QED BY <3>1
  <2>. QED BY <2>3, <2>4
<1>. HIDE DEF all, N
<1>4. \A t \in all : t \in Times
  <2>1. ASSUME NEW t \in all PROVE t \in Times
    <3>1. <<k, t>>[2] \in Times
      BY <1>3 DEF Times
    <3>. QED BY <3>1
  <2>. QED BY <2>1
<1>5. \A n \in 1 .. N : n \in P <=> frame.at[n] \in all
  BY <1>2, <1>3 DEF Rows, Stored
<1>6. /\ P \in SUBSET (1 .. N) /\ Enumerates(InOrder(P), P) /\ c \in Nat /\ IsFiniteSet(P)
      /\ s = Picked(col, P) /\ Len(s) = c /\ DOMAIN s = 1 .. c
      /\ \A i \in 1 .. c : s[i] = col[InOrder(P)[i]] /\ InOrder(P)[i] \in P
  <2>1. P \in SUBSET (1 .. N) /\ DOMAIN col = 1 .. N
    BY <1>2 DEF Rows
  <2>2. s = Picked(col, P)
    BY DEF Valid, Rows
  <2>. HIDE DEF P, col, s
  <2>3. /\ IsFiniteSet(P) /\ c \in 0 .. N /\ Enumerates(InOrder(P), P)
        /\ DOMAIN Picked(col, P) = 1 .. c /\ Len(Picked(col, P)) = c
        /\ \A i \in 1 .. c : Picked(col, P)[i] = col[InOrder(P)[i]] /\ InOrder(P)[i] \in P
    BY <1>2, <2>1, PlacesAreSorted
  <2>. QED BY <1>2, <2>1, <2>2, <2>3
<1>. HIDE DEF P, col, s
<1>7. CASE P = {}
  <2>1. c = 0
    BY <1>7, FS_EmptySet
  <2>2. s = <<>>
    <3>1. s = [i \in DOMAIN s |-> s[i]]
      BY <1>6 DEF Picked
    <3>. QED BY <1>6, <2>1, <3>1
  <2>3. all = {}
    BY <1>2, <1>4, <1>5, <1>7
  <2>. QED BY <1>1, <2>2, <2>3 DEF s, col
<1>8. CASE P # {}
  <2>1. c # 0
    BY <1>6, <1>8, FS_EmptySet
  <2>. HIDE DEF c
  <2>2. c \in 1 .. c /\ s # <<>> /\ Last(s) = s[c]
    BY <1>6, <2>1 DEF Last
  <2> DEFINE n == InOrder(P)[c]
  <2>3. n \in P /\ n \in 1 .. N /\ s[c] = col[n]
    BY <1>6, <2>2
  <2>4. \A m \in P : m <= n
    <3>1. ASSUME NEW m \in P PROVE m <= n
      <4>1. PICK i \in 1 .. c : InOrder(P)[i] = m
        BY <1>6 DEF Enumerates, c
      <4>2. i = c \/ InOrder(P)[i] < InOrder(P)[c]
        BY <1>6, <2>2, <4>1 DEF Enumerates, c
      <4>. QED BY <1>6, <2>3, <4>1, <4>2
    <3>. QED BY <3>1
  <2>. HIDE DEF n
  <2>5. frame.at[n] \in all /\ \A t \in all : t <= frame.at[n]
    <3>1. ASSUME NEW t \in all PROVE t <= frame.at[n]
      <4>1. PICK m \in 1 .. N : frame.at[m] = t
        BY <1>2, <1>4
      <4>2. m <= n
        BY <1>5, <2>4, <4>1
      <4>. QED BY <1>2, <2>3, <4>1, <4>2
    <3>. QED BY <1>5, <2>3, <3>1
  <2>6. {x \in all : \A r \in all : r <= x} = {frame.at[n]}
    <3>1. ASSUME NEW x \in all, \A r \in all : r <= x PROVE x = frame.at[n]
      <4>1. x \in Int /\ frame.at[n] \in Int
        BY <1>2, <1>4, <2>3
      <4>. QED BY <2>5, <3>1, <4>1
    <3>. QED BY <2>5, <3>1
  <2>7. table[<<k, frame.at[n]>>] = col[n]
    BY <1>2, <1>3, <2>3, <2>5 DEF Stored
  <2>8. {table[<<k, t>>] : t \in {x \in all : \A r \in all : r <= x}} = {col[n]}
    BY <2>6, <2>7
  <2>. QED BY <1>1, <2>2, <2>3, <2>8 DEF s, col
<1>. QED BY <1>7, <1>8

(* From the file and the posted batches to the engines and the chart: whatever came, in
   whichever order and however often, the frame has a row for every time anything usable
   was read at and in each cell the first usable value, the file alone gives the file's own
   frame, and the chart's latest values are the last ones of that frame. *)
THEOREM FramesMatchTheirSource == InsightSpec => []FrameMatchesSource
<1>1. HistoryInv /\ LogInv => FrameMatchesSource
  <2>1. SUFFICES ASSUME HistoryInv, LogInv PROVE FrameMatchesSource
    OBVIOUS
  <2> DEFINE came == Came(file, log)
  <2>2. ASSUME stage = "quality"
        PROVE  /\ Range(frame.at) = {At(came, p).at : p \in Usable(came)}
               /\ \A i \in DOMAIN frame.at : i > 1 => frame.at[i - 1] < frame.at[i]
               /\ \A k \in Sensors, i \in DOMAIN frame.at :
                    frame.col[k][i] \in FirstOf(came, k, frame.at[i])
                                          \cup {x \in {Missing} : FirstOf(came, k, frame.at[i]) = {}}
               /\ (log = <<<<>>>> /\ \A k \in Sensors : Infinite \notin Range(file.col[k])) => frame = CsvFrame(file)
    <3>1. stage \notin Unloaded
      BY <2>2 DEF Unloaded
    <3> DEFINE N == Cardinality(Times)
    <3>2. /\ N \in Nat /\ frame.at \in [1 .. N -> Times] /\ DOMAIN frame.at = 1 .. N
          /\ \A t \in Times : \E n \in DOMAIN frame.at : frame.at[n] = t
          /\ \A m, n \in DOMAIN frame.at : m < n => frame.at[m] < frame.at[n]
          /\ \A k \in Sensors : frame.col[k] = [n \in 1 .. N |-> Stored(k, frame.at[n])]
      BY <2>1, <3>1, FrameIsTheTable DEF Enumerates
    <3>3. Times = {At(came, p).at : p \in Usable(came)}
      BY <2>1, TimesCame
    <3>. HIDE DEF came, N
    <3>4. Range(frame.at) = Times
      BY <3>2 DEF Range
    <3>5. ASSUME NEW i \in DOMAIN frame.at, i > 1 PROVE frame.at[i - 1] < frame.at[i]
      <4>1. i - 1 \in 1 .. N /\ i - 1 < i
        BY <3>2, <3>5
      <4>. QED BY <3>2, <4>1
    <3>6. ASSUME NEW k \in Sensors, NEW i \in DOMAIN frame.at
          PROVE  frame.col[k][i] \in FirstOf(came, k, frame.at[i])
                                       \cup {x \in {Missing} : FirstOf(came, k, frame.at[i]) = {}}
      <4>1. frame.col[k][i] = Stored(k, frame.at[i])
        BY <3>2
      <4>. QED BY <2>1, <4>1, CellIsFirst DEF came
    <3>7. (log = <<<<>>>> /\ \A k \in Sensors : Infinite \notin Range(file.col[k])) => frame = CsvFrame(file)
      BY <2>1, <3>1, FileAloneIsSeen
    <3>. QED BY <3>3, <3>4, <3>5, <3>6, <3>7
  <2>3. ASSUME stage = "answered", reply.kind = "telemetry", NEW k \in Sensors
        PROVE  reply.sensors[k].latest = IF Valid(frame.col[k]) = <<>> THEN {} ELSE {Last(Valid(frame.col[k]))}
    <3>1. stage \notin Unloaded /\ reply = Chart(table, Limits)
      BY <2>1, <2>3 DEF Unloaded, LogInv
    <3>. QED BY <2>1, <3>1, LatestIsLast
  <2>. QED BY <2>2, <2>3 DEF FrameMatchesSource, Came, Usable, Good, At, CameBefore, OfCell, FirstOf
<1>. QED BY <1>1, HistoriesAreRead, LogsAreWritten, PTL

-----------------------------------------------------------------------------
LEMMA LimitsAreNatural == MaxScore \in Nat /\ Certain \in Nat /\ MaxScore = 1000 /\ Certain = 10000
BY DEF MaxScore, Certain

LEMMA AssessmentIsBounded ==
  ASSUME NEW col, NEW n \in Nat \ {0}, DOMAIN col = 1 .. n, Len(col) = n, NEW kind, NEW q \in SensorQuality(col, kind)
  PROVE  Assess(col, q).score \in 0 .. MaxScore /\ Assess(col, q).trust \in 0 .. Certain
<1> DEFINE s == Valid(col)
           flat == Flatlined(s)
           score == Score(q.missing, Len(col), flat, q.fault, q.valid)
<1>1. DOMAIN s = 1 .. Len(s) /\ Len(s) \in 0 .. n
  BY ValidLength
<1>2. q.valid = Len(s) /\ q.missing = n - Len(s) /\ q.fault \in 0 .. Len(s)
  BY FaultsAreBounded
<1>. HIDE DEF s
<1>3. flat \in 0 .. Len(s)
  BY <1>1, FlatIsBounded
<1>. HIDE DEF flat
<1>4. score \in 0 .. MaxScore
  <2>1. q.missing \in Int /\ n \in Int /\ flat \in Int /\ q.fault \in Int /\ q.valid \in Int
    BY <1>1, <1>2, <1>3
  <2>2. n > 0 /\ q.valid >= 0 /\ q.missing \in 0 .. n /\ flat \in 0 .. q.valid /\ q.fault \in 0 .. q.valid
    BY <1>1, <1>2, <1>3
  <2>. QED BY <2>1, <2>2, ScoreIsBounded
<1>5. Assess(col, q).score = score /\ Assess(col, q).trust = SensorConfidence(score, s)
  BY DEF Assess, s, flat
<1>. HIDE DEF score
<1>. QED BY <1>4, <1>5, TrustIsBounded

LEMMA CoverageIsBounded ==
  ASSUME NEW col, NEW n \in Nat \ {0}, DOMAIN col = 1 .. n, Len(col) = n, NEW spec, NEW envelope
  PROVE  EvaluateSensor(col, spec, envelope).confidence \in 0 .. Certain
<1> DEFINE m == Len(Valid(col))
           all == Certain
           a == all * m
<1>1. m \in 0 .. n
  BY ValidLength
<1>2. \/ EvaluateSensor(col, spec, envelope).confidence = 0
      \/ EvaluateSensor(col, spec, envelope).confidence = RoundDiv(a, n)
  BY LimitsAreNatural DEF EvaluateSensor, Thresholded, Unthresholded
<1>. HIDE DEF m
<1>3. a \in Int /\ Fits(a, n, 0, all) /\ all \in Nat /\ n \in Int
  BY <1>1, LimitsAreNatural DEF Fits
<1>. HIDE DEF a, all
<1>4. RoundDiv(a, n) \in Int /\ 0 <= RoundDiv(a, n) /\ RoundDiv(a, n) <= all
  BY <1>3, ShareIsBounded
<1>5. Certain \in Nat
  BY LimitsAreNatural
<1>. QED BY <1>2, <1>4, <1>5 DEF all

LEMMA InRange ==
  ASSUME NEW x, NEW n \in Nat
  PROVE  x \in 0 .. n <=> x \in Int /\ 0 <= x /\ x <= n
OBVIOUS

LEMMA ScoresAreNatural ==
  \A h : Scored(h) <=> /\ h.score \in Int /\ 0 <= h.score /\ h.score <= MaxScore
                       /\ h.confidence \in Int /\ 0 <= h.confidence /\ h.confidence <= Certain
<1>1. MaxScore \in Nat /\ Certain \in Nat
  BY LimitsAreNatural
<1>2. \A x : x \in 0 .. MaxScore <=> x \in Int /\ 0 <= x /\ x <= MaxScore
  BY <1>1, InRange
<1>3. \A x : x \in 0 .. Certain <=> x \in Int /\ 0 <= x /\ x <= Certain
  BY <1>1, InRange
<1>. QED BY <1>2, <1>3, Zenon DEF Scored

LEMMA RollupIsAMean ==
  ASSUME NEW child, DOMAIN child # {}
  PROVE  LET K == DOMAIN child
             weight == Total([k \in K |-> child[k].confidence], K)
             sum == Total([k \in K |-> child[k].score * child[k].confidence], K)
         IN  /\ HealthRollup(child).score = RoundDiv(sum, IF weight = 0 THEN Cardinality(K) ELSE weight)
             /\ HealthRollup(child).confidence = RoundDiv(weight, Cardinality(K))
<1> DEFINE K == DOMAIN child
           W == [k \in K |-> child[k].confidence]
           F == [k \in K |-> child[k].score * child[k].confidence]
           weight == Total(W, K)
           sum == Total(F, K)
<1>1. SumOver(K, LAMBDA k : child[k].confidence) = SumFunction(W)
  BY DEF SumOver
<1>2. SumOver(K, LAMBDA k : child[k].score * child[k].confidence) = SumFunction(F)
  BY DEF SumOver
<1>3. SumFunction(W) = Total(W, DOMAIN W) /\ SumFunction(F) = Total(F, DOMAIN F)
  BY TotalIsSum
<1>4. SumFunction(W) = weight /\ SumFunction(F) = sum
  BY <1>3
<1>. HIDE DEF W, F, weight, sum
<1>5. /\ HealthRollup(child).score = RoundDiv(sum, IF weight = 0 THEN Cardinality(K) ELSE weight)
      /\ HealthRollup(child).confidence = RoundDiv(weight, Cardinality(K))
  BY <1>1, <1>2, <1>4 DEF HealthRollup
<1>. QED BY <1>5 DEF W, F, weight, sum

LEMMA RollupIsScored ==
  ASSUME NEW child, IsFiniteSet(DOMAIN child), DOMAIN child # {}, \A k \in DOMAIN child : Scored(child[k])
  PROVE  Scored(HealthRollup(child))
<1> DEFINE K == DOMAIN child
           W == [k \in K |-> child[k].confidence]
           F == [k \in K |-> child[k].score * child[k].confidence]
           U == [k \in K |-> 1]
           n == Cardinality(K)
           weight == Total(W, K)
           sum == Total(F, K)
           b == IF weight = 0 THEN n ELSE weight
           hs == MaxScore
           hc == Certain
<1>1. /\ HealthRollup(child).score = RoundDiv(sum, b)
      /\ HealthRollup(child).confidence = RoundDiv(weight, n)
  BY RollupIsAMean
<1>2. \A k \in K : W[k] \in Nat /\ F[k] \in Nat /\ U[k] = 1
                   /\ 0 * U[k] <= W[k] /\ W[k] <= hc * U[k] /\ 0 * W[k] <= F[k] /\ F[k] <= hs * W[k]
  <2>1. SUFFICES ASSUME NEW k \in K
                 PROVE  W[k] \in Nat /\ F[k] \in Nat /\ U[k] = 1
                        /\ 0 * U[k] <= W[k] /\ W[k] <= hc * U[k] /\ 0 * W[k] <= F[k] /\ F[k] <= hs * W[k]
    OBVIOUS
  <2> DEFINE s == child[k].score
             c == child[k].confidence
  <2>2. s \in Nat /\ c \in Nat /\ s <= hs /\ c <= hc /\ hs \in Nat /\ hc \in Nat
    BY ScoresAreNatural, LimitsAreNatural
  <2>3. W[k] = c /\ F[k] = s * c /\ U[k] = 1
    OBVIOUS
  <2>. HIDE DEF s, c, W, F, U, hs, hc
  <2>4. s * c \in Nat /\ s * c <= hs * c
    BY <2>2
  <2>. QED BY <2>2, <2>3, <2>4
<1>3. Total(U, K) = n /\ n \in Nat \ {0} /\ hs \in Nat /\ hc \in Nat
  <2>1. n \in Nat \ {0}
    BY FS_CardinalityType, FS_EmptySet
  <2>. HIDE DEF U
  <2>. QED BY <1>2, <2>1, TotalOfConstant, LimitsAreNatural
<1>. HIDE DEF W, F, U, hs, hc, K
<1>4. IsFiniteSet(K) /\ Ints(W, K) /\ Ints(F, K) /\ Ints(U, K)
  BY <1>2 DEF Ints, K
<1>5. weight \in Int /\ sum \in Int
  BY <1>4, TotalType
<1>6. 0 * Total(U, K) <= weight /\ weight <= hc * Total(U, K)
  <2>1. \A k \in K : 0 * U[k] <= W[k] /\ W[k] <= hc * U[k]
    BY <1>2
  <2>. QED BY <1>3, <1>4, <2>1, TotalIsBounded
<1>7. 0 * weight <= sum /\ sum <= hs * weight
  <2>1. \A k \in K : 0 * W[k] <= F[k] /\ F[k] <= hs * W[k]
    BY <1>2
  <2>. QED BY <1>3, <1>4, <2>1, TotalIsBounded
<1>. HIDE DEF weight, sum, n
<1>8. b \in Int /\ Fits(sum, b, 0, hs) /\ Fits(weight, n, 0, hc) /\ n \in Int
  <2>1. CASE weight = 0
    <3>1. sum = 0
      BY <1>3, <1>5, <1>7, <2>1
    <3>2. hs * n \in Int /\ 0 <= hs * n
      BY <1>3
    <3>. QED BY <1>3, <1>5, <1>6, <2>1, <3>1, <3>2 DEF Fits
  <2>2. CASE weight # 0
    BY <1>3, <1>5, <1>6, <1>7, <2>2 DEF Fits
  <2>. QED BY <2>1, <2>2
<1>. HIDE DEF b
<1>9. RoundDiv(sum, b) \in Int /\ 0 <= RoundDiv(sum, b) /\ RoundDiv(sum, b) <= hs
  BY <1>3, <1>5, <1>8, ShareIsBounded
<1>10. RoundDiv(weight, n) \in Int /\ 0 <= RoundDiv(weight, n) /\ RoundDiv(weight, n) <= hc
  BY <1>3, <1>5, <1>8, ShareIsBounded
<1>. QED BY <1>1, <1>9, <1>10, ScoresAreNatural DEF hs, hc

-----------------------------------------------------------------------------
LEMMA TrustInRange ==
  ASSUME NEW t, t \in 0 .. Certain
  PROVE  t \in Int /\ 0 <= t /\ t <= Certain
<1>1. Certain \in Nat
  BY LimitsAreNatural
<1>. QED BY <1>1, InRange

LEMMA TrustAsScore ==
  ASSUME NEW t \in Int, 0 <= t, t <= Certain
  PROVE  RoundDiv(t, 10) \in Int /\ 0 <= RoundDiv(t, 10) /\ RoundDiv(t, 10) <= MaxScore
<1> DEFINE ten == 10
<1>1. t \in Int /\ ten \in Int /\ MaxScore \in Nat /\ Fits(t, ten, 0, MaxScore)
  BY LimitsAreNatural DEF Fits
<1>. HIDE DEF ten
<1>2. RoundDiv(t, ten) \in Int /\ 0 <= RoundDiv(t, ten) /\ RoundDiv(t, ten) <= MaxScore
  BY <1>1, ShareIsBounded
<1>. QED BY <1>2 DEF ten

LEMMA StatesAreScored ==
  \A x \in DOMAIN StateHealth : StateHealth[x] \in Int /\ 0 <= StateHealth[x] /\ StateHealth[x] <= MaxScore
<1>1. \A x \in DOMAIN StateHealth : StateHealth[x] \in {0, 300, 600, 1000}
  BY DEF StateHealth
<1>. QED BY <1>1, LimitsAreNatural

LEMMA SensorIsScored ==
  ASSUME NEW rel, rel.trust \in 0 .. Certain, NEW thr
  PROVE  Scored(SensorHealth(rel, thr))
<1> DEFINE t == rel.trust
           hi == MaxScore
           h == SensorHealth(rel, thr)
<1>1. t \in Int /\ 0 <= t /\ t <= Certain
  BY TrustInRange
<1>2. RoundDiv(t, 10) \in Int /\ 0 <= RoundDiv(t, 10) /\ RoundDiv(t, 10) <= hi
  <2>. HIDE DEF t
  <2>. QED BY <1>1, TrustAsScore
<1>3. h.confidence = t /\ (h.score = RoundDiv(t, 10) \/ (thr.state \in DOMAIN StateHealth /\ h.score = StateHealth[thr.state]))
  BY DEF SensorHealth
<1>4. \A x \in DOMAIN StateHealth : StateHealth[x] \in Int /\ 0 <= StateHealth[x] /\ StateHealth[x] <= hi
  BY StatesAreScored
<1>. HIDE DEF t, h, hi
<1>5. h.score \in Int /\ 0 <= h.score /\ h.score <= hi /\ h.confidence \in Int /\ 0 <= h.confidence /\ h.confidence <= Certain
  BY <1>1, <1>2, <1>3, <1>4
<1>. QED BY <1>5, ScoresAreNatural DEF h, hi

LEMMA SubsystemsAreFinite ==
  /\ IsFiniteSet(DOMAIN Subsystems) /\ DOMAIN Subsystems # {}
  /\ \A u \in DOMAIN Subsystems : Subsystems[u] \in SUBSET Sensors /\ Subsystems[u] # {} /\ IsFiniteSet(Subsystems[u])
<1>1. IsFiniteSet({SubsystemOf[k] : k \in DOMAIN SubsystemOf})
  BY PipelineAssumption, ImageIsFinite
<1>2. DOMAIN Subsystems = {SubsystemOf[k] : k \in Sensors} /\ DOMAIN SubsystemOf = Sensors
      /\ \A u \in DOMAIN Subsystems : Subsystems[u] = {k \in Sensors : SubsystemOf[k] = u}
  BY PipelineAssumption DEF Subsystems
<1>3. Indicator \in Sensors /\ IsFiniteSet(Sensors)
  BY PipelineAssumption
<1>. HIDE DEF Sensors
<1>4. \A u \in DOMAIN Subsystems : Subsystems[u] \in SUBSET Sensors /\ Subsystems[u] # {}
  BY <1>2
<1>. QED BY <1>1, <1>2, <1>3, <1>4, FS_Subset

AllScored(h) ==
  /\ Scored(h.equipment)
  /\ \A u \in DOMAIN Subsystems : Scored(h.subsystems[u])
  /\ \A k \in Sensors : Scored(h.sensors[k])

LEMMA UnitIsScored ==
  ASSUME NEW rel, NEW thr, DOMAIN rel = Sensors, \A k \in Sensors : rel[k].trust \in 0 .. Certain
  PROVE  AllScored(UnitHealth(rel, thr, Subsystems))
<1> DEFINE sensors == [k \in DOMAIN rel |-> SensorHealth(rel[k], thr[k])]
           subsystems == [u \in DOMAIN Subsystems |-> HealthRollup(Restrict(sensors, Subsystems[u] \cap DOMAIN rel))]
           h == UnitHealth(rel, thr, Subsystems)
<1>1. h.sensors = sensors /\ h.subsystems = subsystems /\ h.equipment = HealthRollup(subsystems)
  BY DEF UnitHealth
<1>2. DOMAIN sensors = Sensors /\ \A k \in Sensors : Scored(sensors[k])
  BY SensorIsScored
<1>. HIDE DEF sensors
<1>3. DOMAIN subsystems = DOMAIN Subsystems
      /\ \A u \in DOMAIN Subsystems : subsystems[u] = HealthRollup(Restrict(sensors, Subsystems[u] \cap DOMAIN rel))
  OBVIOUS
<1>4. ASSUME NEW u \in DOMAIN Subsystems PROVE Scored(subsystems[u])
  <2> DEFINE child == Restrict(sensors, Subsystems[u] \cap DOMAIN rel)
  <2>1. Subsystems[u] \in SUBSET Sensors /\ Subsystems[u] # {} /\ IsFiniteSet(Subsystems[u])
    BY SubsystemsAreFinite
  <2>2. DOMAIN child = Subsystems[u] /\ \A k \in DOMAIN child : child[k] = sensors[k]
    BY <2>1 DEF Restrict
  <2>3. subsystems[u] = HealthRollup(child)
    OBVIOUS
  <2>. HIDE DEF child, subsystems
  <2>4. Scored(HealthRollup(child))
    <3>1. IsFiniteSet(DOMAIN child) /\ DOMAIN child # {}
      BY <2>1, <2>2
    <3>2. \A k \in DOMAIN child : Scored(child[k])
      BY <1>2, <2>1, <2>2
    <3>. QED BY <3>1, <3>2, RollupIsScored
  <2>. QED BY <2>3, <2>4
<1>. HIDE DEF subsystems, h
<1>5. Scored(HealthRollup(subsystems))
  <2>1. IsFiniteSet(DOMAIN subsystems) /\ DOMAIN subsystems # {} /\ \A u \in DOMAIN subsystems : Scored(subsystems[u])
    BY <1>3, <1>4, SubsystemsAreFinite
  <2>. QED BY <2>1, RollupIsScored
<1>. QED BY <1>1, <1>2, <1>4, <1>5 DEF AllScored, h

\* A finding is no surer than certain; one of a sensor names a sensor of the unit.
Sound(f) == f.confidence \in 0 .. Certain /\ (f.scope = "sensor" => f.target \in Sensors)

LEMMA AssemblyIsSound ==
  ASSUME NEW rel, NEW thr, NEW h, DOMAIN rel = Sensors, AllScored(h), DOMAIN h.subsystems = DOMAIN Subsystems,
         \A k \in Sensors : rel[k].trust \in 0 .. Certain /\ thr[k].confidence \in 0 .. Certain
  PROVE  \A f \in AssembleFindings(rel, thr, h) : Sound(f)
<1>1. ASSUME NEW scope, scope # "sensor", NEW k, NEW x, Scored(x), NEW f \in HealthFinding(scope, k, x)
      PROVE  Sound(f)
  BY <1>1 DEF HealthFinding, Derived, Sound, Scored
<1>2. ASSUME NEW k \in Sensors, NEW f \in ThresholdFindings(k, thr[k])
      PROVE  Sound(f)
  <2>1. f.confidence = thr[k].confidence /\ f.target = k
    BY DEF ThresholdFindings, Derived
  <2>. QED BY <2>1 DEF Sound
<1>3. ASSUME NEW k \in Sensors, NEW f \in ReliabilityFindings(k, rel[k])
      PROVE  Sound(f)
  <2>1. f.confidence = rel[k].trust /\ f.target = k
    BY DEF ReliabilityFindings, Derived
  <2>. QED BY <2>1 DEF Sound
<1>4. ASSUME NEW f \in AssembleFindings(rel, thr, h) PROVE Sound(f)
  <2>1. \/ f \in HealthFinding("equipment", Unit, h.equipment)
        \/ \E k \in Sensors : f \in ThresholdFindings(k, thr[k]) \/ f \in ReliabilityFindings(k, rel[k])
        \/ \E u \in DOMAIN Subsystems : f \in HealthFinding("subsystem", u, h.subsystems[u])
    BY DEF AssembleFindings
  <2>2. CASE f \in HealthFinding("equipment", Unit, h.equipment)
    BY <1>1, <2>2 DEF AllScored
  <2>3. CASE \E k \in Sensors : f \in ThresholdFindings(k, thr[k]) \/ f \in ReliabilityFindings(k, rel[k])
    BY <1>2, <1>3, <2>3
  <2>4. CASE \E u \in DOMAIN Subsystems : f \in HealthFinding("subsystem", u, h.subsystems[u])
    BY <1>1, <2>4 DEF AllScored
  <2>. QED BY <2>1, <2>2, <2>3, <2>4
<1>. QED BY <1>4

LEMMA DiagnosisIsSound ==
  ASSUME NEW r \in Rules, NEW current, IsFiniteSet(current), \A f \in current : Sound(f),
         NEW t \in Targets(r, current)
  PROVE  Sound(Diagnose(r, t, current, RuleTrust))
<1> DEFINE T == Triggers(r, t, current)
           F == [f \in T |-> f.confidence]
           U == [f \in T |-> 1]
           n == Cardinality(T)
           sum == Total(F, T)
           hi == Certain
           c == 100
           e == RoundDiv(r.confidence * sum, c * n)
           d == Diagnose(r, t, current, RuleTrust)
           M == {RuleTrust[k] : k \in {f.target : f \in {g \in T : g.scope = "sensor"}}} \cup {hi}
<1>0. hi \in Nat /\ hi = 10000 /\ c \in Nat /\ c > 0 /\ r.confidence \in 0 .. c
  BY LimitsAreNatural, FindingsAssumption
<1>1. T # {} /\ T \subseteq current /\ IsFiniteSet(T) /\ n \in Nat \ {0}
  <2>1. T # {} /\ T \subseteq current
    BY TriggersAreFindings
  <2>. HIDE DEF T
  <2>. QED BY <2>1, FS_Subset, FS_CardinalityType, FS_EmptySet
<1>2. d.confidence = RoundDiv(e * Min(M), hi) /\ d.scope = r.scope /\ d.target = t
  <2>1. SumOver(T, LAMBDA f : f.confidence) = SumFunction(F)
    BY DEF SumOver
  <2>2. SumFunction(F) = Total(F, DOMAIN F)
    BY TotalIsSum
  <2>3. SumOver(T, LAMBDA f : f.confidence) = sum
    BY <2>1, <2>2
  <2>4. d.confidence = DiagnosisConfidence(r, T, RuleTrust) /\ d.scope = r.scope /\ d.target = t
    BY DEF Diagnose
  <2>. HIDE DEF F, sum, T, d
  <2>. QED BY <1>0, <2>3, <2>4 DEF DiagnosisConfidence
<1>. HIDE DEF hi, c, d
<1>3. \A f \in T : F[f] \in Int /\ U[f] = 1 /\ 0 * U[f] <= F[f] /\ F[f] <= hi * U[f]
  <2>1. \A f \in T : f.confidence \in 0 .. hi
    BY <1>1 DEF Sound, hi
  <2>2. \A f \in T : F[f] = f.confidence /\ U[f] = 1
    OBVIOUS
  <2>3. \A f \in T : F[f] \in 0 .. hi
    BY <2>1, <2>2
  <2>4. hi \in Nat
    BY <1>0
  <2>. HIDE DEF T, F, U
  <2>5. \A f \in T : F[f] \in Int /\ 0 <= F[f] /\ F[f] <= hi
    BY <2>3, <2>4, InRange
  <2>. QED BY <2>2, <2>4, <2>5
<1>4. M = {hi}
  <2>1. \A f \in T : f.scope = "sensor" => f.target \in Sensors
    BY <1>1 DEF Sound
  <2>2. \A k \in Sensors : RuleTrust[k] = hi
    BY DEF RuleTrust, hi
  <2>. HIDE DEF T
  <2>. QED BY <2>1, <2>2
<1>5. Min(M) = hi
  <2>. HIDE DEF M
  <2>. QED BY <1>0, <1>4 DEF Min
<1>. HIDE DEF T, F, U, M
<1>6. Ints(F, T) /\ Ints(U, T)
  BY <1>3 DEF Ints
<1>7. sum \in Int /\ Total(U, T) = n
  BY <1>1, <1>3, <1>6, TotalType, TotalOfConstant
<1>8. 0 * Total(U, T) <= sum /\ sum <= hi * Total(U, T)
  <2>1. \A f \in T : 0 * U[f] <= F[f] /\ F[f] <= hi * U[f]
    BY <1>3
  <2>. QED BY <1>0, <1>1, <1>6, <2>1, TotalIsBounded
<1>. HIDE DEF n, sum
<1>9. e \in Int /\ 0 <= e /\ e <= hi
  <2> DEFINE a == r.confidence * sum
             b == c * n
  <2>1. 0 <= sum /\ sum <= hi * n /\ hi * n \in Int
    BY <1>0, <1>1, <1>7, <1>8
  <2>2. a \in Int /\ 0 <= a /\ a <= c * sum
    BY <1>0, <1>7, <2>1
  <2>3. c * sum <= c * (hi * n) /\ c * (hi * n) = hi * b /\ c * sum \in Int
    BY <1>0, <1>1, <1>7, <2>1
  <2>4. b \in Int /\ b > 0
    BY <1>0, <1>1
  <2>5. e = RoundDiv(a, b)
    OBVIOUS
  <2>. HIDE DEF a, b, e
  <2>6. Fits(a, b, 0, hi)
    BY <1>0, <2>2, <2>3, <2>4 DEF Fits
  <2>. QED BY <1>0, <2>2, <2>4, <2>5, <2>6, ShareIsBounded
<1>. HIDE DEF e
<1>10. d.confidence \in 0 .. hi
  <2> DEFINE a == e * hi
  <2>1. hi \in Nat /\ hi > 0 /\ a \in Int /\ 0 <= a /\ a <= hi * hi
    BY <1>0, <1>9
  <2>. HIDE DEF a
  <2>2. RoundDiv(a, hi) \in 0 .. hi
    BY <2>1, PartIsBounded
  <2>. QED BY <1>2, <1>5, <2>2 DEF a
<1>11. r.scope = "sensor" => t \in Sensors
  <2>1. SUFFICES ASSUME r.scope = "sensor" PROVE t \in Sensors
    OBVIOUS
  <2>2. PICK f \in T : TRUE
    BY <1>1
  <2>3. f \in current /\ f.scope = "sensor" /\ f.target = t
    BY <2>1, <2>2 DEF T, Triggers, Located
  <2>. QED BY <2>3 DEF Sound
<1>. QED BY <1>2, <1>10, <1>11 DEF Sound, hi, d

-----------------------------------------------------------------------------
(* What the context and the findings hold at any time. *)
CountInv ==
  /\ stage \in Stages /\ iteration \in 0 .. MaxIterations
  /\ stage \notin PastAssembly => iteration = 0
  /\ stage = "rules" => iteration < MaxIterations
QualityRange ==
  "quality" \in DOMAIN ctx =>
    \A k \in Sensors : \E kind : ctx.quality.sensors[k] \in SensorQuality(frame.col[k], kind)
ThresholdRange == "threshold" \in DOMAIN ctx => \A k \in Sensors : ctx.threshold[k].confidence \in 0 .. Certain
ReliabilityRange ==
  "reliability" \in DOMAIN ctx =>
    \A k \in Sensors : ctx.reliability[k].score \in 0 .. MaxScore /\ ctx.reliability[k].trust \in 0 .. Certain
HealthRange == "health" \in DOMAIN ctx => AllScored(ctx.health)
RangeInv ==
  /\ stage \in Unloaded => ctx = <<>>
  /\ QualityRange /\ ThresholdRange /\ ReliabilityRange /\ HealthRange
  /\ \A f \in Conclusive : Sound(f)

LEMMA WithKeeps ==
  ASSUME NEW c, NEW name, NEW r
  PROVE  /\ name \in DOMAIN With(c, name, r) /\ With(c, name, r)[name] = r
         /\ \A n : n # name => (n \in DOMAIN With(c, name, r) <=> n \in DOMAIN c)
         /\ \A n \in DOMAIN c : n # name => With(c, name, r)[n] = c[n]
BY DEF With

LEMMA StagesAreCounted == InsightSpec => []CountInv
<1>0. MaxIterations \in Nat \ {0}
  BY PipelineAssumption
<1>. USE DEF Told, PastAssembly
<1>1. InsightInit => CountInv
  BY <1>0 DEF InsightInit, CountInv, Stages
<1>2. CountInv /\ [InsightNext]_insightVars => CountInv'
  <2>1. SUFFICES ASSUME CountInv, [InsightNext]_insightVars PROVE CountInv'
    OBVIOUS
  <2>2. CASE UNCHANGED <<stage, iteration>>
    BY <2>1, <2>2 DEF CountInv
  <2>3. CASE iteration' = iteration /\ stage \notin PastAssembly /\ stage' \in Stages
    BY <1>0, <2>1, <2>3 DEF CountInv
  <2>4. CASE iteration' = iteration /\ stage' \in Stages /\ stage' \in Told /\ stage \in Told
    BY <2>1, <2>4 DEF CountInv
  <2>5. CASE Evaluate
    <3>1. stage = "rules" /\ iteration' = iteration + 1
          /\ (stage' = "done" \/ (stage' = "rules" /\ iteration' # MaxIterations))
      BY <2>5 DEF Evaluate
    <3>2. iteration \in 0 .. MaxIterations /\ iteration < MaxIterations
      BY <2>1, <3>1 DEF CountInv
    <3>3. iteration' \in 0 .. MaxIterations /\ (iteration' # MaxIterations => iteration' < MaxIterations)
      BY <1>0, <3>1, <3>2
    <3>. QED BY <3>1, <3>3 DEF CountInv, Stages
  <2>6. CASE Seed \/ SeedFails \/ Load
    BY <2>3, <2>6 DEF Seed, SeedFails, Load, runVars, Stages
  <2>7. CASE Post
    BY <2>2, <2>7 DEF Post, runVars
  <2>8. CASE Quality \/ Statistics \/ State \/ Envelope
    BY <2>3, <2>8 DEF Quality, Statistics, State, Envelope, Engine, Stages
  <2>9. CASE Threshold \/ TimelineOf \/ Reliability \/ HealthOf \/ Assemble
    BY <2>3, <2>9 DEF Threshold, TimelineOf, Reliability, HealthOf, Assemble, Engine, Stages
  <2>10. CASE SkipLearning \/ LearnPatterns \/ LearnForecasts
    BY <2>4, <2>10 DEF SkipLearning, LearnPatterns, LearnForecasts, runVars, Stages
  <2>11. CASE ShowOutlook \/ Ask \/ ShowTelemetry
    BY <2>4, <2>11 DEF ShowOutlook, Ask, ShowTelemetry, runVars, Stages
  <2>12. CASE UNCHANGED insightVars
    BY <2>2, <2>12 DEF insightVars, vars
  <2>. QED BY <2>1, <2>5, <2>6, <2>7, <2>8, <2>9, <2>10, <2>11, <2>12 DEF InsightNext, PipelineStep, Next
<1>. QED BY <1>1, <1>2, PTL DEF InsightSpec

LEMMA EngineKeeps ==
  ASSUME NEW name, NEW needs, NEW outcomes, NEW then, Engine(name, needs, outcomes, then), RangeInv,
         name \notin {"quality", "threshold", "reliability", "health"}, then \notin Unloaded
  PROVE  RangeInv'
<1>1. UNCHANGED <<frame, findings, diagnoses>> /\ stage' = then
  BY DEF Engine
<1>2. PICK r : ctx' = With(ctx, name, r)
  BY DEF Engine
<1>3. \A n \in {"quality", "threshold", "reliability", "health"} :
        (n \in DOMAIN ctx' <=> n \in DOMAIN ctx) /\ (n \in DOMAIN ctx => ctx'[n] = ctx[n])
  BY <1>2, WithKeeps
<1>. QED BY <1>1, <1>3 DEF RangeInv, QualityRange, ThresholdRange, ReliabilityRange, HealthRange, Conclusive

LEMMA ColumnsHaveRows ==
  ASSUME HistoryInv, LogInv, stage \notin Unloaded
  PROVE  \E n \in Nat \ {0} : \A k \in Sensors : DOMAIN frame.col[k] = 1 .. n /\ Len(frame.col[k]) = n
<1> DEFINE n == Cardinality(Times)
<1>1. n \in Nat \ {0} /\ \A k \in Sensors : frame.col[k] = [i \in 1 .. n |-> Stored(k, frame.at[i])]
  BY FrameIsTheTable
<1>. HIDE DEF n
<1>2. ASSUME NEW k \in Sensors PROVE DOMAIN frame.col[k] = 1 .. n /\ Len(frame.col[k]) = n
  <2> DEFINE c == [i \in 1 .. n |-> Stored(k, frame.at[i])]
  <2>1. DOMAIN c = 1 .. n /\ Len(c) = n
    BY <1>1
  <2>. QED BY <1>1, <2>1
<1>. QED BY <1>1, <1>2

LEMMA ResultsKeepTheirRange == InsightSpec => []RangeInv
<1>1. InsightInit => RangeInv
  BY DEF InsightInit, RangeInv, QualityRange, ThresholdRange, ReliabilityRange, HealthRange, Conclusive
<1>2. HistoryInv /\ LogInv /\ ContextInv /\ FiniteInv /\ RangeInv /\ [InsightNext]_insightVars => RangeInv'
  <2>1. SUFFICES ASSUME HistoryInv, LogInv, ContextInv, FiniteInv, RangeInv, [InsightNext]_insightVars PROVE RangeInv'
    OBVIOUS
  <2>. USE <2>1
  <2>2. CASE UNCHANGED <<frame, ctx, findings, diagnoses>> /\ (stage' \in Unloaded => stage \in Unloaded)
    BY <2>2 DEF RangeInv, QualityRange, ThresholdRange, ReliabilityRange, HealthRange, Conclusive
  <2>3. CASE Load
    <3>1. ctx = <<>> /\ ctx' = <<>> /\ UNCHANGED <<findings, diagnoses>>
      BY <2>3 DEF Load, RangeInv, Unloaded
    <3>. QED BY <3>1 DEF RangeInv, QualityRange, ThresholdRange, ReliabilityRange, HealthRange, Conclusive
  <2>4. CASE Quality
    <3> DEFINE outcomes == {[sensors |-> q, times |-> TimestampIntegrity(frame.at)] :
                     q \in EachSensor(LAMBDA k : SensorQuality(frame.col[k], Kind[k]))}
    <3>1. PICK r \in outcomes : ctx' = With(ctx, "quality", r)
      BY <2>4 DEF Quality, Engine
    <3>2. UNCHANGED <<frame, findings, diagnoses>> /\ stage' \notin Unloaded
      BY <2>4 DEF Quality, Engine, Unloaded
    <3>3. \A k \in Sensors : r.sensors[k] \in SensorQuality(frame.col[k], Kind[k])
      BY DEF EachSensor
    <3>4. ctx'["quality"] = r /\ \A n \in {"threshold", "reliability", "health"} :
            (n \in DOMAIN ctx' <=> n \in DOMAIN ctx) /\ (n \in DOMAIN ctx => ctx'[n] = ctx[n])
      BY <3>1, WithKeeps
    <3>5. QualityRange'
      BY <3>2, <3>3, <3>4 DEF QualityRange
    <3>. QED BY <3>2, <3>4, <3>5 DEF RangeInv, ThresholdRange, ReliabilityRange, HealthRange, Conclusive
  <2>5. CASE Statistics \/ State \/ Envelope \/ TimelineOf
    <3>1. CASE Statistics
      <4> DEFINE outcomes == {[k \in Sensors |-> SensorStatistics(frame.col[k])]}
      <4>1. Engine("statistics", {}, outcomes, "state")
        BY <3>1, Zenon DEF Statistics
      <4>. HIDE DEF outcomes
      <4>. QED BY <4>1, EngineKeeps DEF Unloaded
    <3>2. CASE State
      <4> DEFINE outcomes == AnalyzeMachine([i \in DOMAIN frame.at |-> [at |-> frame.at[i], v |-> frame.col[Indicator][i]]])
      <4>1. Engine("state", {}, outcomes, "envelope")
        BY <3>2, Zenon DEF State
      <4>. HIDE DEF outcomes
      <4>. QED BY <4>1, EngineKeeps DEF Unloaded
    <3>3. CASE Envelope
      <4> DEFINE outcomes == {[k \in Sensors |-> SensorEnvelope(frame.col[k])]}
      <4>1. Engine("envelope", {"statistics"}, outcomes, "threshold")
        BY <3>3, Zenon DEF Envelope
      <4>. HIDE DEF outcomes
      <4>. QED BY <4>1, EngineKeeps DEF Unloaded
    <3>4. CASE TimelineOf
      <4> DEFINE outcomes == {MachineTimeline(ctx.state)}
      <4>1. Engine("timeline", {"state", "threshold"}, outcomes, "reliability")
        BY <3>4, Zenon DEF TimelineOf
      <4>. HIDE DEF outcomes
      <4>. QED BY <4>1, EngineKeeps DEF Unloaded
    <3>. QED BY <2>5, <3>1, <3>2, <3>3, <3>4
  <2>6. CASE Threshold
    <3> DEFINE r == [k \in Sensors |-> EvaluateSensor(frame.col[k], Limits[k], ctx.envelope[k])]
    <3>1. ctx' = With(ctx, "threshold", r) /\ UNCHANGED <<frame, findings, diagnoses>>
          /\ stage \notin Unloaded /\ stage' \notin Unloaded
      BY <2>6 DEF Threshold, Engine, Unloaded
    <3>2. PICK n \in Nat \ {0} : \A k \in Sensors : DOMAIN frame.col[k] = 1 .. n /\ Len(frame.col[k]) = n
      BY <3>1, ColumnsHaveRows
    <3>3. \A k \in Sensors : r[k].confidence \in 0 .. Certain
      BY <3>2, CoverageIsBounded
    <3>. HIDE DEF r
    <3>4. ctx'["threshold"] = r /\ \A x \in {"quality", "reliability", "health"} :
            (x \in DOMAIN ctx' <=> x \in DOMAIN ctx) /\ (x \in DOMAIN ctx => ctx'[x] = ctx[x])
      BY <3>1, WithKeeps
    <3>. QED BY <3>1, <3>3, <3>4 DEF RangeInv, QualityRange, ThresholdRange, ReliabilityRange, HealthRange, Conclusive
  <2>7. CASE Reliability
    <3> DEFINE r == [k \in Sensors |-> Assess(frame.col[k], ctx.quality.sensors[k])]
    <3>1. ctx' = With(ctx, "reliability", r) /\ UNCHANGED <<frame, findings, diagnoses>>
          /\ stage \notin Unloaded /\ stage' \notin Unloaded /\ "quality" \in DOMAIN ctx
      BY <2>7 DEF Reliability, Engine, Unloaded
    <3>2. PICK n \in Nat \ {0} : \A k \in Sensors : DOMAIN frame.col[k] = 1 .. n /\ Len(frame.col[k]) = n
      BY <3>1, ColumnsHaveRows
    <3>3. ASSUME NEW k \in Sensors PROVE r[k].score \in 0 .. MaxScore /\ r[k].trust \in 0 .. Certain
      <4>1. PICK kind : ctx.quality.sensors[k] \in SensorQuality(frame.col[k], kind)
        BY <3>1 DEF RangeInv, QualityRange
      <4>. QED BY <3>2, <4>1, AssessmentIsBounded
    <3>. HIDE DEF r
    <3>4. ctx'["reliability"] = r /\ \A x \in {"quality", "threshold", "health"} :
            (x \in DOMAIN ctx' <=> x \in DOMAIN ctx) /\ (x \in DOMAIN ctx => ctx'[x] = ctx[x])
      BY <3>1, WithKeeps
    <3>. QED BY <3>1, <3>3, <3>4 DEF RangeInv, QualityRange, ThresholdRange, ReliabilityRange, HealthRange, Conclusive
  <2>8. CASE HealthOf
    <3> DEFINE r == UnitHealth(ctx.reliability, ctx.threshold, Subsystems)
    <3>1. ctx' = With(ctx, "health", r) /\ UNCHANGED <<frame, findings, diagnoses>>
          /\ stage = "health" /\ stage' \notin Unloaded
      BY <2>8 DEF HealthOf, Engine, Unloaded
    <3>2. "reliability" \in DOMAIN ctx /\ DOMAIN ctx.reliability = Sensors
      BY <3>1 DEF ContextInv, ReliabilityInv, PastReliability
    <3>3. AllScored(r)
      BY <3>2, UnitIsScored DEF RangeInv, ReliabilityRange
    <3>. HIDE DEF r
    <3>4. ctx'["health"] = r /\ \A x \in {"quality", "threshold", "reliability"} :
            (x \in DOMAIN ctx' <=> x \in DOMAIN ctx) /\ (x \in DOMAIN ctx => ctx'[x] = ctx[x])
      BY <3>1, WithKeeps
    <3>. QED BY <3>1, <3>3, <3>4 DEF RangeInv, QualityRange, ThresholdRange, ReliabilityRange, HealthRange, Conclusive
  <2>9. CASE Assemble
    <3>1. /\ findings' = AssembleFindings(ctx.reliability, ctx.threshold, ctx.health)
          /\ stage = "findings" /\ stage' = "rules" /\ UNCHANGED <<frame, ctx, diagnoses>>
      BY <2>9 DEF Assemble
    <3>2. /\ {"threshold", "reliability", "health"} \subseteq DOMAIN ctx /\ DOMAIN ctx.reliability = Sensors
          /\ ctx.health = UnitHealth(ctx.reliability, ctx.threshold, Subsystems)
      BY <3>1 DEF ContextInv, ThresholdInv, ReliabilityInv, HealthInv, PastThreshold, PastReliability, PastHealth
    <3>3. DOMAIN ctx.health.subsystems = DOMAIN Subsystems
      BY <3>2 DEF UnitHealth
    <3>4. AllScored(ctx.health) /\ \A k \in Sensors : ctx.reliability[k].trust \in 0 .. Certain
                                                     /\ ctx.threshold[k].confidence \in 0 .. Certain
      BY <3>2 DEF RangeInv, ThresholdRange, ReliabilityRange, HealthRange
    <3>5. \A f \in findings' : Sound(f)
      BY <3>1, <3>2, <3>3, <3>4, AssemblyIsSound
    <3>. QED BY <3>1, <3>5 DEF RangeInv, QualityRange, ThresholdRange, ReliabilityRange, HealthRange, Conclusive, Unloaded
  <2>10. CASE Evaluate
    <3>1. diagnoses' = RulePass(findings, diagnoses, Class, RuleTrust) /\ UNCHANGED <<frame, ctx, findings>>
          /\ stage = "rules" /\ stage' \notin Unloaded
      BY <2>10 DEF Evaluate, Unloaded
    <3> DEFINE current == findings \cup diagnoses
    <3>2. IsFiniteSet(current) /\ \A f \in current : Sound(f)
      <4>1. IsFiniteSet(findings)
        BY <3>1, FindingsAreFinite DEF PastAssembly
      <4>. QED BY <4>1, FS_Union DEF FiniteInv, RangeInv, Conclusive
    <3>. HIDE DEF current
    <3>3. ASSUME NEW d \in Conclusions(current, Class, RuleTrust) PROVE Sound(d)
      <4>1. PICK r \in Rules : \E t \in Targets(r, current) : d = Diagnose(r, t, current, RuleTrust)
        BY DEF Conclusions
      <4>2. PICK t \in Targets(r, current) : d = Diagnose(r, t, current, RuleTrust)
        BY <4>1
      <4>. QED BY <3>2, <4>2, DiagnosisIsSound
    <3>4. \A f \in diagnoses' : f \in diagnoses \/ f \in Conclusions(current, Class, RuleTrust)
      BY <3>1 DEF RulePass, current
    <3>5. \A f \in Conclusive' : Sound(f)
      BY <3>1, <3>2, <3>3, <3>4 DEF Conclusive, current
    <3>. QED BY <3>1, <3>5 DEF RangeInv, QualityRange, ThresholdRange, ReliabilityRange, HealthRange
  <2>11. CASE Seed \/ SeedFails \/ Post
    BY <2>2, <2>11 DEF Seed, SeedFails, Post, runVars, Unloaded
  <2>12. CASE SkipLearning \/ LearnPatterns \/ LearnForecasts
    BY <2>2, <2>12 DEF SkipLearning, LearnPatterns, LearnForecasts, runVars, Unloaded
  <2>13. CASE ShowOutlook \/ Ask \/ ShowTelemetry
    BY <2>2, <2>13 DEF ShowOutlook, Ask, ShowTelemetry, runVars, Unloaded
  <2>14. CASE UNCHANGED insightVars
    BY <2>2, <2>14 DEF insightVars, vars
  <2>. QED BY <2>1, <2>3, <2>4, <2>5, <2>6, <2>7, <2>8, <2>9, <2>10, <2>11, <2>12, <2>13, <2>14
         DEF InsightNext, PipelineStep, Next
<1>. QED BY <1>1, <1>2, HistoriesAreRead, LogsAreWritten, ContextFollowsStages, DiagnosesAreFinite, PTL DEF InsightSpec

(* Every number stays inside the bounds its result model declares: for any readings,
   limits, subsystems and rules, every score and trust, every health from the sensors to
   the unit, and the confidence of every finding and of every diagnosis of a chain. *)
THEOREM NumbersStayInBounds == InsightSpec => []TypeOK
<1>1. CountInv /\ RangeInv => TypeOK
  <2>1. SUFFICES ASSUME CountInv, RangeInv PROVE TypeOK
    OBVIOUS
  <2>. QED BY <2>1 DEF CountInv, RangeInv, ReliabilityRange, HealthRange, AllScored, Sound, TypeOK
<1>. QED BY <1>1, StagesAreCounted, ResultsKeepTheirRange, PTL

(* No health is degraded without a sensor that is as bad and outside its limits, or that
   has none and is not trusted: the fall is never the work of the rollup alone. *)
THEOREM DegradationHasACause == InsightSpec => []DegradedHasCause
<1>1. ContextInv /\ TypeOK => DegradedHasCause
  <2>1. SUFFICES ASSUME ContextInv, TypeOK, Analysed, NEW f \in findings, f.type = "health_degraded"
                 PROVE  \E k \in Sensors :
                          /\ f.scope = "subsystem" => SubsystemOf[k] = f.target
                          /\ Rank(f.severity) <= Rank(ctx.health.sensors[k].severity)
                          /\ Cause(frame.col[k], Limits[k], Trust[k])
    BY DEF DegradedHasCause
  <2> DEFINE rel == ctx.reliability
             thr == ctx.threshold
             h == ctx.health
  <2>2. stage \in PastAssembly
    BY <2>1 DEF Analysed, PastAssembly, Told
  <2>3. \A k \in Sensors : Judged(thr[k], frame.col[k], Limits[k])
    BY <2>1, <2>2 DEF ContextInv, ThresholdInv, PastThreshold, PastReliability, PastHealth
  <2>4. DOMAIN rel = Sensors /\ "reliability" \in DOMAIN ctx
    BY <2>1, <2>2 DEF ContextInv, ReliabilityInv, PastReliability, PastHealth
  <2>5. findings = AssembleFindings(rel, thr, h) /\ h = UnitHealth(rel, thr, Subsystems)
    BY <2>1, <2>2 DEF ContextInv, HealthInv, AssemblyInv, PastHealth
  <2>6. Results(rel, thr)
    BY <2>3, <2>4, StatesAreKnown DEF Results, Judged, ThresholdStates
  <2>7. \A k \in Sensors : rel[k].trust \in Nat
    <3>1. \A k \in Sensors : rel[k].trust \in 0 .. Certain
      BY <2>1, <2>4 DEF TypeOK
    <3>2. Certain \in Int
      BY DEF Certain
    <3>. QED BY <3>1, <3>2
  <2>8. \A u \in DOMAIN Subsystems : Subsystems[u] \subseteq Sensors /\ \A k \in Subsystems[u] : SubsystemOf[k] = u
    BY DEF Subsystems
  <2>9. \/ f.scope # "subsystem" /\ f.severity = h.equipment.severity /\ f.severity # "ok"
        \/ /\ f.scope = "subsystem" /\ f.severity # "ok"
           /\ \E u \in DOMAIN Subsystems : f.target = u /\ f.severity = h.subsystems[u].severity
    <3>1. DOMAIN h.subsystems = DOMAIN Subsystems
      BY <2>5 DEF UnitHealth
    <3>. HIDE DEF h, rel, thr
    <3>2. \A scope, k, x : \A g \in HealthFinding(scope, k, x) :
            g.scope = scope /\ g.target = k /\ g.severity = x.severity /\ g.severity # "ok"
      BY DEF HealthFinding, Derived
    <3>3. \A k : f \notin ThresholdFindings(k, thr[k]) /\ f \notin ReliabilityFindings(k, rel[k])
      BY <2>1 DEF ThresholdFindings, ReliabilityFindings, Derived
    <3>4. \/ f \in HealthFinding("equipment", Unit, h.equipment)
          \/ \E u \in DOMAIN h.subsystems : f \in HealthFinding("subsystem", u, h.subsystems[u])
      BY <2>1, <2>5, <3>3 DEF AssembleFindings
    <3>. QED BY <3>1, <3>2, <3>4
  <2>10. /\ \A k \in Sensors : h.sensors[k] = SensorHealth(rel[k], thr[k])
         /\ \A u \in DOMAIN Subsystems : h.subsystems[u].severity # "ok" =>
              \E k \in Subsystems[u] : h.sensors[k].severity = h.subsystems[u].severity
         /\ h.equipment.severity # "ok" =>
              \E u \in DOMAIN Subsystems : \E k \in Subsystems[u] : h.sensors[k].severity = h.equipment.severity
    BY <2>4, <2>5, <2>6, <2>8, DegradedLevelHasSensor
  <2>. HIDE DEF h, rel, thr
  <2>11. PICK k \in Sensors : /\ f.scope = "subsystem" => SubsystemOf[k] = f.target
                              /\ h.sensors[k].severity = f.severity /\ f.severity # "ok"
    BY <2>8, <2>9, <2>10
  <2>12. Cause(frame.col[k], Limits[k], rel[k].trust)
    BY <2>3, <2>7, <2>10, <2>11, DegradedSensorHasCause
  <2>13. Trust[k] = rel[k].trust
    BY DEF Trust, rel
  <2>14. Rank(f.severity) <= Rank(h.sensors[k].severity)
    <3>1. f.severity \in SeveritySet
      BY <2>4, <2>6, <2>10, <2>11, SensorSeverity DEF Results
    <3>2. Rank(f.severity) \in 0 .. 3
      BY <3>1 DEF Rank, SeveritySet
    <3>. QED BY <2>11, <3>2
  <2>. QED BY <2>11, <2>12, <2>13, <2>14 DEF h
<1>. QED BY <1>1, ContextFollowsStages, NumbersStayInBounds, PTL

-----------------------------------------------------------------------------
(* A series 1 .. n cut into parts: each begins at a cut and ends before the next one. *)

EndOf(first, n, k) == IF k = Len(first) THEN n ELSE first[k + 1] - 1
PartOf(first, n, k) == first[k] .. EndOf(first, n, k)
Parted(first, n, B) ==
  /\ n \in Nat /\ B \in SUBSET (1 .. n) /\ 1 \in B /\ first = InOrder(B)

LEMMA CutsAscend ==
  ASSUME NEW first, NEW n, NEW B, Parted(first, n, B)
  PROVE  /\ Len(first) \in Nat \ {0} /\ DOMAIN first = 1 .. Len(first) /\ IsFiniteSet(B)
         /\ \A k \in 1 .. Len(first) : first[k] \in B /\ first[k] \in 1 .. n
         /\ \A b \in B : \E k \in 1 .. Len(first) : first[k] = b
         /\ \A k, l \in 1 .. Len(first) : k < l => first[k] < first[l]
<1>. USE DEF Parted
<1>1. DOMAIN [i \in 1 .. n |-> i] = 1 .. n
  OBVIOUS
<1>2. IsFiniteSet(B) /\ Enumerates(first, B)
  BY <1>1, PlacesAreSorted
<1>3. /\ Cardinality(B) \in Nat /\ first \in [1 .. Cardinality(B) -> B]
      /\ \A b \in B : \E k \in DOMAIN first : first[k] = b
      /\ \A k, l \in DOMAIN first : k < l => first[k] < first[l]
  BY <1>2 DEF Enumerates
<1>. HIDE DEF Parted
<1>4. first \in Seq(B) /\ Len(first) = Cardinality(B) /\ DOMAIN first = 1 .. Cardinality(B)
  BY <1>3
<1>5. PICK p \in DOMAIN first : first[p] = 1
  BY <1>3 DEF Parted
<1>6. Cardinality(B) # 0
  BY <1>3, <1>4, <1>5
<1>7. \A k \in 1 .. Len(first) : first[k] \in B /\ first[k] \in 1 .. n
  BY <1>3, <1>4 DEF Parted
<1>. QED BY <1>2, <1>3, <1>4, <1>6, <1>7

LEMMA PartsCover ==
  ASSUME NEW first, NEW n, NEW B, Parted(first, n, B)
  PROVE  /\ \A k \in 1 .. Len(first) : EndOf(first, n, k) \in 1 .. n /\ first[k] <= EndOf(first, n, k)
         /\ \A k, l \in 1 .. Len(first) : k < l => EndOf(first, n, k) < first[l]
         /\ \A i \in 1 .. n : \E k \in 1 .. Len(first) : i \in PartOf(first, n, k)
         /\ \A k \in 1 .. Len(first) : \A b \in B : b \in PartOf(first, n, k) => b = first[k]
<1> DEFINE m == Len(first)
           end(k) == EndOf(first, n, k)
<1>0. n \in Nat /\ 1 \in B /\ B \in SUBSET (1 .. n)
  BY DEF Parted
<1>1. /\ m \in Nat \ {0} /\ IsFiniteSet(B)
      /\ \A k \in 1 .. m : first[k] \in B /\ first[k] \in 1 .. n
      /\ \A b \in B : \E k \in 1 .. m : first[k] = b
      /\ \A k, l \in 1 .. m : k < l => first[k] < first[l]
  BY CutsAscend
<1>2. \A k \in 1 .. m : end(k) = IF k = m THEN n ELSE first[k + 1] - 1
  BY DEF EndOf
<1>. HIDE DEF m, end
<1>3. ASSUME NEW k \in 1 .. m PROVE end(k) \in 1 .. n /\ first[k] <= end(k)
  <2>1. CASE k = m
    BY <1>0, <1>1, <1>2, <2>1
  <2>2. CASE k # m
    <3>1. k + 1 \in 1 .. m /\ k < k + 1
      BY <1>1, <2>2
    <3>2. first[k] < first[k + 1] /\ first[k] \in 1 .. n /\ first[k + 1] \in 1 .. n
      BY <1>1, <3>1
    <3>. QED BY <1>0, <1>2, <2>2, <3>2
  <2>. QED BY <2>1, <2>2
<1>4. ASSUME NEW k \in 1 .. m, NEW l \in 1 .. m, k < l PROVE end(k) < first[l]
  <2>1. k + 1 \in 1 .. m /\ k # m /\ (k + 1 = l \/ k + 1 < l)
    BY <1>1, <1>4
  <2>2. first[k + 1] <= first[l] /\ first[k + 1] \in Int /\ first[l] \in Int
    BY <1>1, <2>1
  <2>. QED BY <1>2, <2>1, <2>2
<1>5. ASSUME NEW i \in 1 .. n PROVE \E k \in 1 .. m : first[k] <= i /\ i <= end(k)
  <2> DEFINE T == {b \in B : b <= i}
  <2>1. T \in SUBSET B /\ T # {} /\ T \in SUBSET Int
    <3>1. 1 \in T /\ B \in SUBSET Int
      BY <1>0
    <3>. QED BY <3>1
  <2>2. IsFiniteSet(T)
    BY <1>1, <2>1, FS_Subset
  <2>3. PICK b \in T : \A c \in T : c <= b
    <3>. HIDE DEF T
    <3>. QED BY <2>1, <2>2, GreatestOfASet
  <2>4. PICK k \in 1 .. m : first[k] = b
    BY <1>1
  <2>5. k # m => i < first[k + 1]
    <3>1. SUFFICES ASSUME k # m PROVE i < first[k + 1]
      OBVIOUS
    <3>2. k + 1 \in 1 .. m /\ k < k + 1
      BY <1>1, <3>1
    <3>3. first[k + 1] \in B /\ b < first[k + 1] /\ first[k + 1] \in Int /\ b \in Int
      BY <1>0, <1>1, <2>4, <3>2
    <3>4. first[k + 1] \notin T
      BY <2>3, <3>3
    <3>. QED BY <3>3, <3>4
  <2>6. first[k] <= i /\ i <= end(k)
    BY <1>1, <1>2, <2>4, <2>5
  <2>. QED BY <2>6
<1>6. ASSUME NEW k \in 1 .. m, NEW b \in B, first[k] <= b, b <= end(k) PROVE b = first[k]
  <2>1. PICK l \in 1 .. m : first[l] = b
    BY <1>1
  <2>2. ~(k < l)
    BY <1>0, <1>1, <1>3, <1>4, <1>6, <2>1
  <2>3. ~(l < k)
    BY <1>1, <1>6, <2>1
  <2>. QED BY <2>1, <2>2, <2>3
<1>. QED BY <1>3, <1>4, <1>5, <1>6 DEF PartOf, m, end

(* Counting a set by its parts. *)
Apart(P, S) == \A x, y \in S : x # y => P[x] \cap P[y] = {}
Joined(P, S) == UNION {P[x] : x \in S}
SumsOf(G, F, P, S) == \A x \in S : IsFiniteSet(P[x]) /\ Ints(F, P[x]) /\ G[x] = Total(F, P[x])

LEMMA TotalOfParts ==
  ASSUME NEW F, NEW G, NEW P, NEW S, IsFiniteSet(S), Apart(P, S), SumsOf(G, F, P, S)
  PROVE  /\ Total(G, S) = Total(F, Joined(P, S))
         /\ IsFiniteSet(Joined(P, S)) /\ Ints(F, Joined(P, S))
<1> DEFINE Fine == {T \in SUBSET S : /\ Total(G, T) = Total(F, Joined(P, T))
                                     /\ IsFiniteSet(Joined(P, T)) /\ Ints(F, Joined(P, T))}
<1>1. ASSUME NEW T \in SUBSET S, \A U \in SUBSET T : U # T => U \in Fine
      PROVE  T \in Fine
  <2>1. CASE T = {}
    <3>1. Joined(P, T) = {}
      BY <2>1 DEF Joined
    <3>. QED BY <2>1, <3>1, TotalOfNone, FS_EmptySet DEF Ints
  <2>2. CASE T # {}
    <3>1. PICK x \in T : TRUE
      BY <2>2
    <3> DEFINE U == T \ {x}
               J == Joined(P, U)
    <3>2. U \in SUBSET T /\ U # T /\ U \in SUBSET S /\ x \notin U /\ U \cup {x} = T
      BY <3>1
    <3>3. Joined(P, T) = J \cup P[x]
      BY <3>1 DEF Joined
    <3>4. J \cap P[x] = {}
      BY <3>1 DEF Joined, Apart
    <3>5. Total(G, U) = Total(F, J) /\ IsFiniteSet(J) /\ Ints(F, J)
      BY <1>1, <3>2
    <3>6. IsFiniteSet(P[x]) /\ Ints(F, P[x]) /\ G[x] = Total(F, P[x])
      BY DEF SumsOf
    <3>7. Total(F, J \cup P[x]) = Total(F, J) + Total(F, P[x])
      <4>. HIDE DEF J
      <4>. QED BY <3>4, <3>5, <3>6, TotalOfUnion
    <3>8. Total(F, J) \in Int /\ Total(F, P[x]) \in Int
      <4>. HIDE DEF J
      <4>. QED BY <3>5, <3>6, TotalType
    <3>9. IsFiniteSet(U) /\ Ints(G, U) /\ G[x] \in Int
      <4>1. \A y \in S : G[y] \in Int
        BY TotalType DEF SumsOf
      <4>. QED BY <3>2, <4>1, FS_Subset DEF Ints
    <3>10. Total(G, T) = G[x] + Total(G, U)
      <4>. HIDE DEF U
      <4>. QED BY <3>2, <3>9, TotalInsert
    <3>11. IsFiniteSet(J \cup P[x]) /\ Ints(F, J \cup P[x])
      <4>. HIDE DEF J
      <4>. QED BY <3>5, <3>6, FS_Union DEF Ints
    <3>. HIDE DEF J, U
    <3>12. Total(G, T) = Total(F, J \cup P[x])
      BY <3>5, <3>6, <3>7, <3>8, <3>10
    <3>. QED BY <3>3, <3>11, <3>12
  <2>. QED BY <2>1, <2>2
<1>. HIDE DEF Fine
<1>2. S \in Fine
  BY <1>1, BySize
<1>. QED BY <1>2 DEF Fine

LEMMA SumOverIsTotal ==
  ASSUME NEW S, NEW F, DOMAIN F = S
  PROVE  SumFunction(F) = Total(F, S)
BY TotalIsSum

(* What is added up part by part is what is added up at once. *)
LEMMA PartsAddUp ==
  ASSUME NEW first, NEW n, NEW B, Parted(first, n, B), NEW F, Ints(F, 1 .. n), NEW G,
         \A k \in 1 .. Len(first) : G[k] = Total(F, PartOf(first, n, k))
  PROVE  Total(G, 1 .. Len(first)) = Total(F, 1 .. n)
<1> DEFINE m == Len(first)
           P == [k \in 1 .. m |-> PartOf(first, n, k)]
<1>1. m \in Nat /\ n \in Nat /\ \A k \in 1 .. m : first[k] \in 1 .. n
  BY CutsAscend DEF Parted
<1>2. /\ \A k \in 1 .. m : EndOf(first, n, k) \in 1 .. n /\ first[k] <= EndOf(first, n, k)
      /\ \A k, l \in 1 .. m : k < l => EndOf(first, n, k) < first[l]
      /\ \A i \in 1 .. n : \E k \in 1 .. m : i \in PartOf(first, n, k)
  BY PartsCover
<1>. HIDE DEF m
<1>3. \A k \in 1 .. m : P[k] \in SUBSET (1 .. n)
  <2>1. SUFFICES ASSUME NEW k \in 1 .. m PROVE PartOf(first, n, k) \in SUBSET (1 .. n)
    OBVIOUS
  <2>2. first[k] \in 1 .. n /\ EndOf(first, n, k) \in 1 .. n /\ n \in Nat
    BY <1>1, <1>2
  <2>. QED BY <2>2 DEF PartOf
<1>4. ASSUME NEW k \in 1 .. m, NEW l \in 1 .. m, k < l PROVE P[k] \cap P[l] = {}
  <2>1. EndOf(first, n, k) < first[l] /\ EndOf(first, n, k) \in Int /\ first[l] \in Int
        /\ first[k] \in Int /\ EndOf(first, n, l) \in Int
    <3>1. EndOf(first, n, k) < first[l]
      BY <1>2, <1>4
    <3>2. 1 .. n \in SUBSET Int
      BY <1>1
    <3>3. \A x \in 1 .. m : EndOf(first, n, x) \in 1 .. n /\ first[x] \in 1 .. n
      BY <1>1, <1>2, Zenon
    <3>. QED BY <3>1, <3>2, <3>3
  <2>2. \A i \in PartOf(first, n, k) : i \notin PartOf(first, n, l)
    BY <2>1 DEF PartOf
  <2>. QED BY <2>2
<1>5. Apart(P, 1 .. m)
  <2>1. ASSUME NEW k \in 1 .. m, NEW l \in 1 .. m, k # l PROVE P[k] \cap P[l] = {}
    <3>1. k < l \/ l < k
      BY <1>1, <2>1
    <3>. HIDE DEF P
    <3>. QED BY <1>4, <3>1
  <2>. QED BY <2>1 DEF Apart
<1>6. Joined(P, 1 .. m) = 1 .. n
  <2>1. \A k \in 1 .. m : P[k] = PartOf(first, n, k)
    OBVIOUS
  <2>. HIDE DEF P
  <2>. QED BY <1>2, <1>3, <2>1 DEF Joined
<1>7. SumsOf(G, F, P, 1 .. m)
  <2>1. ASSUME NEW k \in 1 .. m PROVE IsFiniteSet(P[k]) /\ Ints(F, P[k]) /\ G[k] = Total(F, P[k])
    <3>1. IsFiniteSet(1 .. n)
      BY <1>1, FS_Interval
    <3>2. IsFiniteSet(P[k])
      BY <1>3, <3>1, FS_Subset
    <3>3. G[k] = Total(F, P[k])
      BY DEF m
    <3>. QED BY <1>3, <3>2, <3>3 DEF Ints
  <2>. QED BY <2>1 DEF SumsOf
<1>8. IsFiniteSet(1 .. m)
  BY <1>1, FS_Interval
<1>. HIDE DEF P
<1>9. Total(G, 1 .. m) = Total(F, Joined(P, 1 .. m))
  BY <1>5, <1>7, <1>8, TotalOfParts
<1>. QED BY <1>6, <1>9 DEF m

-----------------------------------------------------------------------------
(* The episodes of a machine are the parts its readings are cut into. *)

Breaks(rows) == {i \in DOMAIN rows : NewSegment(rows, i)}
Dwells(rows) == [i \in DOMAIN rows |-> Dwell(rows, i)]
InTime(rows) ==
  /\ Len(rows) \in Nat \ {0} /\ DOMAIN rows = 1 .. Len(rows)
  /\ \A i \in DOMAIN rows : rows[i].at \in Int
  /\ \A i, j \in DOMAIN rows : i < j => rows[i].at < rows[j].at
EpisodesOf(eps, rows) ==
  LET first == InOrder(Breaks(rows))
      end(k) == EndOf(first, Len(rows), k)
  IN  /\ DOMAIN eps = 1 .. Len(first)
      /\ \A k \in 1 .. Len(first) :
           /\ eps[k].start = rows[first[k]].at /\ eps[k].end = rows[end(k)].at
           /\ eps[k].dur = Total(Dwells(rows), PartOf(first, Len(rows), k))
           /\ eps[k].n = end(k) - first[k] + 1

LEMMA RowsAreParted ==
  ASSUME NEW rows, InTime(rows)
  PROVE  Parted(InOrder(Breaks(rows)), Len(rows), Breaks(rows))
BY DEF InTime, Parted, Breaks, NewSegment

LEMMA EpisodesAreBuilt ==
  ASSUME NEW rows, InTime(rows)
  PROVE  /\ EpisodesOf(BuildEpisodes(rows), rows)
         /\ BuildEpisodes(rows) = [k \in 1 .. Len(InOrder(Breaks(rows))) |-> BuildEpisodes(rows)[k]]
         /\ \A k \in DOMAIN BuildEpisodes(rows) : \E s :
              BuildEpisodes(rows)[k] = [state |-> s, final |-> s, start |-> BuildEpisodes(rows)[k].start,
                                        end |-> BuildEpisodes(rows)[k].end, dur |-> BuildEpisodes(rows)[k].dur,
                                        n |-> BuildEpisodes(rows)[k].n]
<1> DEFINE first == InOrder(Breaks(rows))
           n == Len(rows)
           eps == BuildEpisodes(rows)
           sum(k) == SumOver(first[k] .. EndOf(first, n, k), LAMBDA i : Dwell(rows, i))
<1>0. Parted(first, n, Breaks(rows))
  BY RowsAreParted
<1>1. DOMAIN first = 1 .. Len(first)
  BY <1>0, CutsAscend
<1>2. eps = [k \in DOMAIN first |->
               [state |-> rows[first[k]].state, final |-> rows[first[k]].state,
                start |-> rows[first[k]].at, end |-> rows[EndOf(first, n, k)].at,
                dur |-> sum(k), n |-> EndOf(first, n, k) - first[k] + 1]]
  BY DEF BuildEpisodes, Breaks, EndOf
<1>3. ASSUME NEW k \in 1 .. Len(first) PROVE sum(k) = Total(Dwells(rows), PartOf(first, n, k))
  <2> DEFINE S == PartOf(first, n, k)
             F == [i \in S |-> Dwell(rows, i)]
  <2>1. sum(k) = SumFunction(F)
    BY DEF SumOver, PartOf
  <2>2. SumFunction(F) = Total(F, S)
    BY SumOverIsTotal
  <2>3. S \in SUBSET (1 .. n) /\ IsFiniteSet(1 .. n) /\ DOMAIN rows = 1 .. n
    <3>1. first[k] \in 1 .. n /\ EndOf(first, n, k) \in 1 .. n
      BY <1>0, CutsAscend, PartsCover
    <3>2. n \in Nat /\ DOMAIN rows = 1 .. n
      BY DEF InTime
    <3>3. IsFiniteSet(1 .. n)
      BY <3>2, FirstNumbers
    <3>4. S \in SUBSET (1 .. n)
      BY <3>1, <3>2 DEF PartOf
    <3>. QED BY <3>2, <3>3, <3>4
  <2>4. IsFiniteSet(S) /\ \A i \in S : F[i] = Dwells(rows)[i]
    BY <2>3, FS_Subset DEF Dwells
  <2>. HIDE DEF S, F
  <2>5. Total(F, S) = Total(Dwells(rows), S)
    BY <2>4, TotalOfEqual
  <2>. QED BY <2>1, <2>2, <2>5 DEF S
<1>. HIDE DEF eps, sum, n
<1>4. /\ DOMAIN eps = 1 .. Len(first)
      /\ \A k \in 1 .. Len(first) :
           /\ eps[k].start = rows[first[k]].at /\ eps[k].end = rows[EndOf(first, n, k)].at
           /\ eps[k].dur = sum(k) /\ eps[k].n = EndOf(first, n, k) - first[k] + 1
  <2>. HIDE DEF first
  <2>. QED BY <1>1, <1>2
<1>5. EpisodesOf(eps, rows)
  BY <1>3, <1>4 DEF EpisodesOf, n
<1>6. eps = [k \in 1 .. Len(first) |-> eps[k]]
  <2>. HIDE DEF first
  <2>. QED BY <1>1, <1>2
<1>7. ASSUME NEW k \in DOMAIN eps
      PROVE  \E s : eps[k] = [state |-> s, final |-> s, start |-> eps[k].start, end |-> eps[k].end,
                              dur |-> eps[k].dur, n |-> eps[k].n]
  <2>. HIDE DEF first
  <2>. QED BY <1>1, <1>2
<1>. QED BY <1>5, <1>6, <1>7 DEF eps

LEMMA RefiningKeepsTimes ==
  ASSUME NEW rows, InTime(rows)
  PROVE  EpisodesOf(RefineTransitions(BuildEpisodes(rows)), rows)
<1> DEFINE b == BuildEpisodes(rows)
           r == RefineTransitions(b)
<1>1. EpisodesOf(b, rows)
  BY EpisodesAreBuilt
<1>2. \A k \in DOMAIN b : \E s : b[k] = [state |-> s, final |-> s, start |-> b[k].start, end |-> b[k].end,
                                         dur |-> b[k].dur, n |-> b[k].n]
  BY EpisodesAreBuilt
<1>. HIDE DEF b
<1>3. DOMAIN r = DOMAIN b
  BY DEF RefineTransitions
<1>4. ASSUME NEW k \in DOMAIN b
      PROVE  r[k].start = b[k].start /\ r[k].end = b[k].end /\ r[k].dur = b[k].dur /\ r[k].n = b[k].n
  <2>1. r[k] = b[k] \/ r[k] = [b[k] EXCEPT !.final = Transition(b, k)]
    BY DEF RefineTransitions
  <2>. HIDE DEF r
  <2>. QED BY <1>2, <2>1
<1>. HIDE DEF r
<1>5. EpisodesOf(r, rows)
  BY <1>1, <1>3, <1>4 DEF EpisodesOf
<1>. QED BY <1>5 DEF r, b

LEMMA RefiningKeepsTheLength ==
  ASSUME NEW rows, InTime(rows)
  PROVE  LET r == RefineTransitions(BuildEpisodes(rows)) IN Len(r) \in Nat /\ DOMAIN r = 1 .. Len(r)
<1> DEFINE b == BuildEpisodes(rows)
           r == RefineTransitions(b)
           m == Len(InOrder(Breaks(rows)))
<1>1. b = [k \in 1 .. m |-> b[k]]
  BY EpisodesAreBuilt
<1>2. m \in Nat
  BY RowsAreParted, CutsAscend
<1>. HIDE DEF b, m
<1>3. r = [k \in 1 .. m |-> r[k]]
  <2>1. DOMAIN b = 1 .. m
    BY <1>1
  <2>2. r = b \/ r = [i \in DOMAIN b |-> IF b[i].dur > Short THEN b[i] ELSE [b[i] EXCEPT !.final = Transition(b, i)]]
    BY DEF RefineTransitions
  <2>. HIDE DEF r
  <2>. QED BY <1>1, <2>1, <2>2
<1>. HIDE DEF r
<1>4. Len(r) = m /\ DOMAIN r = 1 .. m
  BY <1>2, <1>3
<1>. QED BY <1>2, <1>4 DEF r, b

(* Two readings are in one episode when nothing between them ends it. *)
LEMMA EpisodesHoldRuns ==
  ASSUME NEW rows, InTime(rows), NEW eps, EpisodesOf(eps, rows),
         NEW i \in DOMAIN rows, NEW j \in DOMAIN rows, i < j
  PROVE  (\E k \in DOMAIN eps : {rows[i].at, rows[j].at} \subseteq eps[k].start .. eps[k].end)
           <=> \A l \in i .. j - 1 : rows[l].state = rows[l + 1].state /\ rows[l + 1].at - rows[l].at <= Cap
<1> DEFINE first == InOrder(Breaks(rows))
           n == Len(rows)
           end(k) == EndOf(first, n, k)
<1>0. Parted(first, n, Breaks(rows)) /\ n \in Nat \ {0} /\ DOMAIN rows = 1 .. n
  BY RowsAreParted DEF InTime
<1>1. /\ \A k \in 1 .. Len(first) : first[k] \in 1 .. n /\ end(k) \in 1 .. n /\ first[k] <= end(k)
      /\ \A x \in 1 .. n : \E k \in 1 .. Len(first) : x \in first[k] .. end(k)
      /\ \A k \in 1 .. Len(first) : \A b \in Breaks(rows) : b \in first[k] .. end(k) => b = first[k]
      /\ \A k \in 1 .. Len(first) : first[k] \in Breaks(rows)
  <2>1. \A k \in 1 .. Len(first) : first[k] \in Breaks(rows) /\ first[k] \in 1 .. n
    BY <1>0, CutsAscend
  <2>2. /\ \A k \in 1 .. Len(first) : end(k) \in 1 .. n /\ first[k] <= end(k)
        /\ \A x \in 1 .. n : \E k \in 1 .. Len(first) : x \in PartOf(first, n, k)
        /\ \A k \in 1 .. Len(first) : \A b \in Breaks(rows) : b \in PartOf(first, n, k) => b = first[k]
    BY <1>0, PartsCover
  <2>. HIDE DEF first
  <2>. QED BY <2>1, <2>2 DEF PartOf
<1>2. /\ DOMAIN eps = 1 .. Len(first)
      /\ \A k \in 1 .. Len(first) : eps[k].start = rows[first[k]].at /\ eps[k].end = rows[end(k)].at
  BY DEF EpisodesOf
<1>. HIDE DEF first, n, end
<1>3. \A x, y \in 1 .. n : (rows[x].at <= rows[y].at <=> x <= y) /\ rows[x].at \in Int
  <2>1. ASSUME NEW x \in 1 .. n, NEW y \in 1 .. n PROVE (rows[x].at <= rows[y].at <=> x <= y) /\ rows[x].at \in Int
    <3>1. /\ rows[x].at \in Int /\ rows[y].at \in Int
          /\ (x < y => rows[x].at < rows[y].at) /\ (y < x => rows[y].at < rows[x].at)
      BY <1>0 DEF InTime
    <3>2. x < y \/ x = y \/ y < x
      OBVIOUS
    <3>. QED BY <3>1, <3>2
  <2>. QED BY <2>1
<1>4. ASSUME NEW k \in 1 .. Len(first)
      PROVE  {rows[i].at, rows[j].at} \subseteq eps[k].start .. eps[k].end
               <=> {i, j} \subseteq first[k] .. end(k)
  <2>1. /\ first[k] \in 1 .. n /\ end(k) \in 1 .. n
        /\ eps[k].start = rows[first[k]].at /\ eps[k].end = rows[end(k)].at
    BY <1>1, <1>2
  <2>2. \A x \in {i, j} : rows[x].at \in Int /\ (rows[x].at \in eps[k].start .. eps[k].end
                            <=> rows[first[k]].at <= rows[x].at /\ rows[x].at <= rows[end(k)].at)
    BY <1>0, <1>3, <2>1
  <2>3. \A x \in {i, j} : (rows[first[k]].at <= rows[x].at <=> first[k] <= x)
                          /\ (rows[x].at <= rows[end(k)].at <=> x <= end(k))
    BY <1>0, <1>3, <2>1
  <2>4. \A x \in {i, j} : x \in first[k] .. end(k) <=> first[k] <= x /\ x <= end(k)
    BY <1>0, <2>1
  <2>. QED BY <2>2, <2>3, <2>4
<1>5. ASSUME NEW l \in i .. j - 1
      PROVE  (rows[l].state = rows[l + 1].state /\ rows[l + 1].at - rows[l].at <= Cap)
               <=> l + 1 \notin Breaks(rows)
  <2>1. l \in 1 .. n /\ l + 1 \in 1 .. n /\ l + 1 # 1 /\ (l + 1) - 1 = l
    BY <1>0
  <2>2. rows[l].at \in Int /\ rows[l + 1].at \in Int /\ Cap \in Int
    BY <1>3, <2>1, OperatingStateAssumption
  <2>3. rows[l + 1].at - rows[l].at > Cap <=> ~(rows[l + 1].at - rows[l].at <= Cap)
    BY <2>2
  <2>4. NewSegment(rows, l + 1) <=> (rows[l + 1].state # rows[l].state \/ rows[l + 1].at - rows[l].at > Cap)
    BY <2>1 DEF NewSegment
  <2>5. l + 1 \in Breaks(rows) <=> NewSegment(rows, l + 1)
    BY <1>0, <2>1 DEF Breaks
  <2>. QED BY <2>3, <2>4, <2>5
<1>8. i \in Int /\ j \in Int /\ \A k \in 1 .. Len(first) : first[k] \in Int /\ end(k) \in Int
  <2>1. \A x \in 1 .. n : x \in Int
    BY <1>0
  <2>. QED BY <1>0, <1>1, <2>1
<1>6. ASSUME NEW k \in 1 .. Len(first), {i, j} \subseteq first[k] .. end(k), NEW l \in i .. j - 1
      PROVE  l + 1 \notin Breaks(rows)
  <2>1. first[k] \in Int /\ end(k) \in Int /\ i \in Int /\ j \in Int
    BY <1>8
  <2>2. l + 1 \in first[k] .. end(k) /\ l + 1 # first[k]
    BY <1>6, <2>1
  <2>. QED BY <1>1, <2>2
<1>7. ASSUME \A l \in i .. j - 1 : l + 1 \notin Breaks(rows)
      PROVE  \E k \in 1 .. Len(first) : {i, j} \subseteq first[k] .. end(k)
  <2>1. PICK k \in 1 .. Len(first) : j \in first[k] .. end(k)
    BY <1>0, <1>1
  <2>2. first[k] \in Int /\ end(k) \in Int /\ i \in Int /\ j \in Int
    BY <1>8
  <2>3. ~(i < first[k])
    <3>1. SUFFICES ASSUME i < first[k] PROVE FALSE
      OBVIOUS
    <3>2. first[k] - 1 \in i .. j - 1 /\ (first[k] - 1) + 1 = first[k]
      BY <2>1, <2>2, <3>1
    <3>. QED BY <1>1, <1>7, <3>2
  <2>4. {i, j} \subseteq first[k] .. end(k)
    BY <2>1, <2>2, <2>3
  <2>. QED BY <2>4
<1>. QED BY <1>2, <1>4, <1>5, <1>6, <1>7

LEMMA EpisodesHoldAll ==
  ASSUME NEW rows, InTime(rows), NEW eps, EpisodesOf(eps, rows)
  PROVE  SumFunction([e \in DOMAIN eps |-> eps[e].n]) = Len(rows)
<1> DEFINE first == InOrder(Breaks(rows))
           n == Len(rows)
           F == [i \in 1 .. n |-> 1]
           G == [e \in DOMAIN eps |-> eps[e].n]
<1>0. Parted(first, n, Breaks(rows)) /\ n \in Nat
  BY RowsAreParted DEF InTime
<1>2. /\ DOMAIN eps = 1 .. Len(first)
      /\ \A k \in 1 .. Len(first) : eps[k].n = EndOf(first, n, k) - first[k] + 1
  BY DEF EpisodesOf
<1>3. SumFunction(G) = Total(G, 1 .. Len(first))
  BY <1>2, SumOverIsTotal
<1>4. \A k \in 1 .. Len(first) : first[k] \in 1 .. n /\ EndOf(first, n, k) \in 1 .. n /\ first[k] <= EndOf(first, n, k)
  BY <1>0, CutsAscend, PartsCover
<1>5. ASSUME NEW k \in 1 .. Len(first) PROVE G[k] = Total(F, PartOf(first, n, k))
  <2> DEFINE S == PartOf(first, n, k)
             e == EndOf(first, n, k)
  <2>1. S = first[k] .. e /\ first[k] \in 1 .. n /\ e \in 1 .. n /\ first[k] <= e
    BY <1>4 DEF PartOf
  <2>2. G[k] = e - first[k] + 1
    BY <1>2
  <2>. HIDE DEF S, e
  <2>3. IsFiniteSet(S) /\ Cardinality(S) = e - first[k] + 1
    <3> DEFINE a == first[k]
    <3>1. a \in Int /\ e \in Int /\ a <= e /\ S = a .. e
      BY <1>0, <2>1
    <3>. HIDE DEF a
    <3>. QED BY <3>1, Numbers DEF a
  <2>4. \A x \in S : F[x] = 1
    BY <1>0, <2>1
  <2>. HIDE DEF F
  <2>5. Total(F, S) = Cardinality(S)
    BY <2>3, <2>4, TotalOfConstant
  <2>. QED BY <2>2, <2>3, <2>5 DEF S
<1>6. Ints(F, 1 .. n) /\ IsFiniteSet(1 .. n) /\ Cardinality(1 .. n) = n /\ \A x \in 1 .. n : F[x] = 1
  <2>1. IsFiniteSet(1 .. n) /\ Cardinality(1 .. n) = n
    BY <1>0, FirstNumbers
  <2>2. \A x \in 1 .. n : F[x] = 1
    OBVIOUS
  <2>. QED BY <2>1, <2>2 DEF Ints
<1>. HIDE DEF F, G, n, first
<1>7. Total(G, 1 .. Len(first)) = Total(F, 1 .. n)
  BY <1>0, <1>5, <1>6, PartsAddUp
<1>8. Total(F, 1 .. n) = n
  BY <1>6, TotalOfConstant
<1>. QED BY <1>3, <1>7, <1>8 DEF n, G

-----------------------------------------------------------------------------
IndicatorOf(f) == [i \in DOMAIN f.at |-> [at |-> f.at[i], v |-> f.col[Indicator][i]]]
MachineRows(f, m) == Labelled(ValidReadings(IndicatorOf(f)), m.cuts)

LEMMA ReadingsAreInTime ==
  ASSUME NEW f, NEW n \in Nat, DOMAIN f.at = 1 .. n, \A i \in 1 .. n : f.at[i] \in Int,
         \A i, j \in 1 .. n : i < j => f.at[i] < f.at[j], NEW cuts,
         Len(ValidReadings(IndicatorOf(f))) > 0
  PROVE  InTime(Labelled(ValidReadings(IndicatorOf(f)), cuts))
<1> DEFINE col == IndicatorOf(f)
           P == {i \in DOMAIN col : col[i].v # Missing}
           v == ValidReadings(col)
           rows == Labelled(v, cuts)
<1>1. DOMAIN col = 1 .. n /\ \A i \in 1 .. n : col[i].at = f.at[i]
  BY DEF IndicatorOf
<1>. HIDE DEF col
<1>2. P \in SUBSET (1 .. n) /\ v = Picked(col, P)
  BY <1>1 DEF ValidReadings
<1>. HIDE DEF P, v
<1>3. /\ Cardinality(P) \in 0 .. n /\ Enumerates(InOrder(P), P)
      /\ DOMAIN v = 1 .. Cardinality(P) /\ Len(v) = Cardinality(P)
      /\ \A i \in 1 .. Cardinality(P) : v[i] = col[InOrder(P)[i]] /\ InOrder(P)[i] \in P
  BY <1>1, <1>2, PlacesAreSorted
<1> DEFINE o == InOrder(P)
           l == Cardinality(P)
<1>4. /\ \A i \in 1 .. l : o[i] \in 1 .. n /\ v[i].at = f.at[o[i]]
      /\ \A i, j \in 1 .. l : i < j => o[i] < o[j]
  BY <1>1, <1>2, <1>3 DEF Enumerates
<1>5. l \in Nat \ {0}
  BY <1>3 DEF v, col
<1>6. DOMAIN rows = 1 .. l /\ \A i \in 1 .. l : rows[i].at = f.at[o[i]]
  BY <1>3, <1>4 DEF Labelled
<1>7. Len(rows) = l
  <2>1. rows = [i \in 1 .. l |-> rows[i]]
    BY <1>3 DEF Labelled
  <2>. HIDE DEF rows
  <2>. QED BY <1>5, <2>1
<1>. HIDE DEF o, l, rows
<1>8. \A i \in 1 .. l : rows[i].at \in Int
  BY <1>4, <1>6
<1>9. \A i, j \in 1 .. l : i < j => rows[i].at < rows[j].at
  BY <1>4, <1>6
<1>10. InTime(rows)
  BY <1>5, <1>6, <1>7, <1>8, <1>9 DEF InTime
<1>. QED BY <1>10 DEF rows, v, col

LEMMA FrameTimesAscend ==
  ASSUME TableInv, GridInv, stage \notin Unloaded
  PROVE  \E n \in Nat : /\ DOMAIN frame.at = 1 .. n /\ \A i \in 1 .. n : frame.at[i] \in Int
                        /\ \A i, j \in 1 .. n : i < j => frame.at[i] < frame.at[j]
<1> DEFINE T == {p[2] : p \in DOMAIN table}
<1>1. T \in SUBSET Int /\ Enumerates(frame.at, T)
  BY TableHasTimes DEF GridInv, Unloaded
<1>. HIDE DEF T
<1>. QED BY <1>1 DEF Enumerates

PastTimeline == {"reliability"} \cup PastReliability
MachineInv ==
  /\ stage \in Unloaded => ctx = <<>>
  /\ "state" \in DOMAIN ctx => ctx.state \in AnalyzeMachine(IndicatorOf(frame))
  /\ "timeline" \in DOMAIN ctx => /\ "state" \in DOMAIN ctx /\ ctx.timeline = MachineTimeline(ctx.state)
                                  /\ stage \in PastTimeline

LEMMA MachineIsAnalysed == InsightSpec => []MachineInv
<1>. USE DEF PastTimeline, PastReliability, PastHealth, PastAssembly, Told
<1>1. InsightInit => MachineInv
  BY DEF InsightInit, MachineInv
<1>2. MachineInv /\ [InsightNext]_insightVars => MachineInv'
  <2>1. SUFFICES ASSUME MachineInv, [InsightNext]_insightVars PROVE MachineInv'
    OBVIOUS
  <2>. USE <2>1
  <2>2. CASE UNCHANGED <<frame, ctx>> /\ (stage' \in Unloaded => stage \in Unloaded)
            /\ (stage \in PastTimeline => stage' \in PastTimeline)
    BY <2>2 DEF MachineInv
  <2>3. CASE Load
    <3>1. ctx = <<>> /\ ctx' = <<>>
      BY <2>3 DEF Load, MachineInv, Unloaded
    <3>. QED BY <3>1 DEF MachineInv
  <2>4. ASSUME NEW name, NEW needs, NEW outcomes, NEW then, Engine(name, needs, outcomes, then),
               name \notin {"state", "timeline"}, then \notin Unloaded,
               name \in PastTimeline => then \in PastTimeline
        PROVE  MachineInv'
    <3>1. UNCHANGED frame /\ stage = name /\ stage' = then
      BY <2>4 DEF Engine
    <3>2. PICK r : ctx' = With(ctx, name, r)
      BY <2>4 DEF Engine
    <3>3. \A n \in {"state", "timeline"} :
            (n \in DOMAIN ctx' <=> n \in DOMAIN ctx) /\ (n \in DOMAIN ctx => ctx'[n] = ctx[n])
      BY <2>4, <3>2, WithKeeps
    <3>. QED BY <2>4, <3>1, <3>3 DEF MachineInv
  <2>5. CASE State
    <3> DEFINE outcomes == AnalyzeMachine(IndicatorOf(frame))
    <3>1. PICK r \in outcomes : ctx' = With(ctx, "state", r)
      BY <2>5 DEF State, Engine, IndicatorOf
    <3>2. UNCHANGED frame /\ stage' \notin Unloaded /\ stage = "state"
      BY <2>5 DEF State, Engine, Unloaded
    <3>. HIDE DEF outcomes
    <3>3. "state" \in DOMAIN ctx' /\ ctx'["state"] = r /\ ("timeline" \in DOMAIN ctx' <=> "timeline" \in DOMAIN ctx)
      BY <3>1, WithKeeps
    <3>. QED BY <3>2, <3>3 DEF MachineInv, outcomes
  <2>6. CASE TimelineOf
    <3> DEFINE r == MachineTimeline(ctx.state)
    <3>1. ctx' = With(ctx, "timeline", r) /\ UNCHANGED frame /\ stage' = "reliability" /\ "state" \in DOMAIN ctx
      BY <2>6 DEF TimelineOf, Engine, Unloaded
    <3>. HIDE DEF r
    <3>2. /\ "timeline" \in DOMAIN ctx' /\ ctx'["timeline"] = r
          /\ "state" \in DOMAIN ctx' /\ ctx'["state"] = ctx["state"]
      BY <3>1, WithKeeps
    <3>. QED BY <3>1, <3>2 DEF MachineInv, Unloaded, r
  <2>7. CASE Quality
    <3> DEFINE outcomes == {[sensors |-> q, times |-> TimestampIntegrity(frame.at)] :
                              q \in EachSensor(LAMBDA k : SensorQuality(frame.col[k], Kind[k]))}
    <3>1. Engine("quality", {}, outcomes, "statistics")
      BY <2>7, Zenon DEF Quality
    <3>. HIDE DEF outcomes
    <3>. QED BY <3>1, <2>4 DEF Unloaded
  <2>8. CASE Statistics
    <3> DEFINE outcomes == {[k \in Sensors |-> SensorStatistics(frame.col[k])]}
    <3>1. Engine("statistics", {}, outcomes, "state")
      BY <2>8, Zenon DEF Statistics
    <3>. HIDE DEF outcomes
    <3>. QED BY <3>1, <2>4 DEF Unloaded
  <2>9. CASE Envelope
    <3> DEFINE outcomes == {[k \in Sensors |-> SensorEnvelope(frame.col[k])]}
    <3>1. Engine("envelope", {"statistics"}, outcomes, "threshold")
      BY <2>9, Zenon DEF Envelope
    <3>. HIDE DEF outcomes
    <3>. QED BY <3>1, <2>4 DEF Unloaded
  <2>10. CASE Threshold
    <3> DEFINE outcomes == {[k \in Sensors |-> EvaluateSensor(frame.col[k], Limits[k], ctx.envelope[k])]}
    <3>1. Engine("threshold", {"envelope"}, outcomes, "timeline")
      BY <2>10, Zenon DEF Threshold
    <3>. HIDE DEF outcomes
    <3>. QED BY <3>1, <2>4 DEF Unloaded
  <2>11. CASE Reliability
    <3> DEFINE outcomes == {[k \in Sensors |-> Assess(frame.col[k], ctx.quality.sensors[k])]}
    <3>1. Engine("reliability", {"quality", "statistics"}, outcomes, "health")
      BY <2>11, Zenon DEF Reliability
    <3>. HIDE DEF outcomes
    <3>. QED BY <3>1, <2>4 DEF Unloaded
  <2>12. CASE HealthOf
    <3> DEFINE outcomes == {UnitHealth(ctx.reliability, ctx.threshold, Subsystems)}
    <3>1. Engine("health", {"reliability", "threshold"}, outcomes, "findings")
      BY <2>12, Zenon DEF HealthOf
    <3>. HIDE DEF outcomes
    <3>. QED BY <3>1, <2>4 DEF Unloaded
  <2>13. CASE Assemble \/ Evaluate
    BY <2>2, <2>13 DEF Assemble, Evaluate, Unloaded
  <2>14. CASE Seed \/ SeedFails \/ Post
    BY <2>2, <2>14 DEF Seed, SeedFails, Post, runVars, Unloaded
  <2>15. CASE SkipLearning \/ LearnPatterns \/ LearnForecasts
    BY <2>2, <2>15 DEF SkipLearning, LearnPatterns, LearnForecasts, runVars, Unloaded
  <2>16. CASE ShowOutlook \/ Ask \/ ShowTelemetry
    BY <2>2, <2>16 DEF ShowOutlook, Ask, ShowTelemetry, runVars, Unloaded
  <2>17. CASE UNCHANGED insightVars
    BY <2>2, <2>17 DEF insightVars, vars
  <2>. QED BY <2>1, <2>3, <2>5, <2>6, <2>7, <2>8, <2>9, <2>10, <2>11, <2>12, <2>13, <2>14, <2>15, <2>16, <2>17
         DEF InsightNext, PipelineStep, Next
<1>. QED BY <1>1, <1>2, PTL DEF InsightSpec

LEMMA MachineHasEpisodes ==
  ASSUME MachineInv, TableInv, GridInv, "state" \in DOMAIN ctx, ctx.state.segmentable
  PROVE  /\ InTime(MachineRows(frame, ctx.state)) /\ EpisodesOf(ctx.state.episodes, MachineRows(frame, ctx.state))
         /\ Len(ctx.state.episodes) \in Nat /\ DOMAIN ctx.state.episodes = 1 .. Len(ctx.state.episodes)
         /\ ctx.state.summary = Summarize(ctx.state.episodes)
<1> DEFINE col == IndicatorOf(frame)
           v == ValidReadings(col)
           m == ctx.state
           eps(cuts) == RefineTransitions(BuildEpisodes(Labelled(v, cuts)))
<1>1. m \in AnalyzeMachine(col) /\ stage \notin Unloaded
  BY DEF MachineInv
<1>2. ~(Len(v) < MinPoints)
  BY <1>1 DEF AnalyzeMachine, NotSegmentable
<1>3. PICK cuts : m = [segmentable |-> TRUE, cuts |-> cuts, episodes |-> eps(cuts), summary |-> Summarize(eps(cuts))]
  BY <1>1, <1>2 DEF AnalyzeMachine, NotSegmentable
<1>4. PICK n \in Nat : /\ DOMAIN frame.at = 1 .. n /\ \A i \in 1 .. n : frame.at[i] \in Int
                       /\ \A i, j \in 1 .. n : i < j => frame.at[i] < frame.at[j]
  BY <1>1, FrameTimesAscend
<1>5. MinPoints \in Nat /\ MinPoints > 0
  BY OperatingStateAssumption
<1>6. Len(v) > 0
  <2>1. DOMAIN v = 1 .. Len(v) /\ Len(v) \in Nat
    <3> DEFINE P == {i \in DOMAIN col : col[i].v # Missing}
    <3>1. DOMAIN col = 1 .. n
      BY <1>4 DEF IndicatorOf
    <3>. HIDE DEF col
    <3>2. P \in SUBSET (1 .. n) /\ v = Picked(col, P)
      BY <3>1 DEF ValidReadings
    <3>. HIDE DEF P, v
    <3>3. Cardinality(P) \in 0 .. n /\ DOMAIN v = 1 .. Cardinality(P) /\ Len(v) = Cardinality(P)
      BY <3>1, <3>2, PlacesAreSorted
    <3>. QED BY <3>3
  <2>. HIDE DEF v
  <2>. QED BY <1>2, <1>5, <2>1
<1>7. InTime(Labelled(v, cuts))
  BY <1>4, <1>6, ReadingsAreInTime
<1>8. /\ EpisodesOf(eps(cuts), Labelled(v, cuts))
      /\ Len(eps(cuts)) \in Nat /\ DOMAIN eps(cuts) = 1 .. Len(eps(cuts))
  BY <1>7, RefiningKeepsTimes, RefiningKeepsTheLength
<1>9. m.cuts = cuts /\ m.episodes = eps(cuts) /\ m.summary = Summarize(eps(cuts))
  <2>. HIDE DEF eps, m
  <2>. QED BY <1>3
<1>. QED BY <1>7, <1>8, <1>9 DEF MachineRows

(* An episode is a run: for any history and any bands that density estimation may
   find, two readings are in one episode exactly when nothing between them changes
   the state and no gap divides them, and every reading is in one. *)
THEOREM EpisodesAreWholeRuns == InsightSpec => []EpisodesAreRuns
<1>1. MachineInv /\ HistoryInv => EpisodesAreRuns
  <2>1. SUFFICES ASSUME MachineInv, HistoryInv, "state" \in DOMAIN ctx, ctx.state.segmentable PROVE EpisodesAreRuns
    BY DEF EpisodesAreRuns
  <2> DEFINE eps == ctx.state.episodes
             rows == MachineRows(frame, ctx.state)
  <2>2. InTime(rows) /\ EpisodesOf(eps, rows)
    BY <2>1, MachineHasEpisodes DEF HistoryInv
  <2>. HIDE DEF eps, rows
  <2>3. SumFunction([e \in DOMAIN eps |-> eps[e].n]) = Len(rows)
    BY <2>2, EpisodesHoldAll
  <2>4. ASSUME NEW i \in DOMAIN rows, NEW j \in DOMAIN rows, i < j
        PROVE  (\E e \in ToSet(eps) : {rows[i].at, rows[j].at} \subseteq e.start .. e.end)
                 <=> \A l \in i .. j - 1 : rows[l].state = rows[l + 1].state /\ rows[l + 1].at - rows[l].at <= Cap
    <3>1. (\E k \in DOMAIN eps : {rows[i].at, rows[j].at} \subseteq eps[k].start .. eps[k].end)
            <=> \A l \in i .. j - 1 : rows[l].state = rows[l + 1].state /\ rows[l + 1].at - rows[l].at <= Cap
      BY <2>2, <2>4, EpisodesHoldRuns
    <3>. QED BY <3>1, Zenon DEF ToSet
  <2>. QED BY <2>3, <2>4, Zenon DEF EpisodesAreRuns, SumOver, eps, rows, MachineRows, IndicatorOf
<1>. QED BY <1>1, MachineIsAnalysed, HistoriesAreRead, PTL

-----------------------------------------------------------------------------
(* More about sums: of sums, of multiples, of values that are not negative, in two
   directions, and of differences. *)

LEMMA TotalOfSum ==
  ASSUME NEW F, NEW G, NEW H, NEW S, IsFiniteSet(S), Ints(F, S), Ints(G, S), \A x \in S : H[x] = F[x] + G[x]
  PROVE  Total(H, S) = Total(F, S) + Total(G, S)
<1> DEFINE Fine == {T \in SUBSET S : Total(H, T) = Total(F, T) + Total(G, T)}
<1>1. ASSUME NEW T \in SUBSET S, \A U \in SUBSET T : U # T => U \in Fine
      PROVE  T \in Fine
  <2>1. CASE T = {}
    BY <2>1, TotalOfNone
  <2>2. CASE T # {}
    <3>1. PICK x \in T : TRUE
      BY <2>2
    <3> DEFINE U == T \ {x}
    <3>2. U \in SUBSET T /\ U # T /\ U \in SUBSET S /\ x \notin U /\ U \cup {x} = T
      BY <3>1
    <3>3. IsFiniteSet(U)
      BY <3>2, FS_Subset
    <3>4. Ints(F, U) /\ Ints(G, U) /\ F[x] \in Int /\ G[x] \in Int /\ Ints(H, U) /\ H[x] = F[x] + G[x]
      BY <3>1, <3>2 DEF Ints
    <3>5. Total(H, U) = Total(F, U) + Total(G, U)
      BY <1>1, <3>2
    <3>. HIDE DEF U
    <3>6. Total(F, T) = F[x] + Total(F, U) /\ Total(F, U) \in Int
      BY <3>2, <3>3, <3>4, TotalInsert
    <3>7. Total(G, T) = G[x] + Total(G, U) /\ Total(G, U) \in Int
      BY <3>2, <3>3, <3>4, TotalInsert
    <3>8. H[x] \in Int
      BY <3>4
    <3>9. Total(H, T) = H[x] + Total(H, U) /\ Total(H, U) \in Int
      BY <3>2, <3>3, <3>4, <3>8, TotalInsert
    <3>. QED BY <3>4, <3>5, <3>6, <3>7, <3>9
  <2>. QED BY <2>1, <2>2
<1>. HIDE DEF Fine
<1>2. S \in Fine
  BY <1>1, BySize
<1>. QED BY <1>2 DEF Fine

LEMMA TotalScaled ==
  ASSUME NEW F, NEW G, NEW S, IsFiniteSet(S), NEW c \in Int, Ints(F, S), \A x \in S : G[x] = c * F[x]
  PROVE  Total(G, S) = c * Total(F, S)
<1>1. Ints(G, S)
  BY DEF Ints
<1>2. \A x \in S : c * F[x] <= G[x] /\ G[x] <= c * F[x]
  BY <1>1 DEF Ints
<1>3. c * Total(F, S) <= Total(G, S) /\ Total(G, S) <= c * Total(F, S)
  BY <1>1, <1>2, TotalIsBounded
<1>4. Total(F, S) \in Int /\ Total(G, S) \in Int
  BY <1>1, TotalType
<1>5. c * Total(F, S) \in Int
  BY <1>4
<1>. QED BY <1>3, <1>4, <1>5

AllNat(F, S) == \A x \in S : F[x] \in Nat

LEMMA TotalOfNaturals ==
  ASSUME NEW F, NEW S, IsFiniteSet(S), AllNat(F, S)
  PROVE  Total(F, S) \in Nat
<1>1. Ints(F, S)
  BY DEF Ints, AllNat
<1> DEFINE Fine == {T \in SUBSET S : Total(F, T) \in Nat}
<1>2. ASSUME NEW T \in SUBSET S, \A U \in SUBSET T : U # T => U \in Fine
      PROVE  T \in Fine
  <2>1. CASE T = {}
    BY <2>1, TotalOfNone
  <2>2. CASE T # {}
    <3>1. Taken(T) \in T /\ T \ {Taken(T)} \in SUBSET T /\ T \ {Taken(T)} # T
      BY <2>2, TakenIsIn
    <3>2. Total(F, T) = F[Taken(T)] + Total(F, T \ {Taken(T)})
      BY <2>2, TotalSteps, FS_Subset
    <3>3. F[Taken(T)] \in Nat /\ Total(F, T \ {Taken(T)}) \in Nat
      BY <1>2, <3>1 DEF AllNat
    <3>. QED BY <3>2, <3>3
  <2>. QED BY <2>1, <2>2
<1>. HIDE DEF Fine
<1>3. S \in Fine
  BY <1>2, BySize
<1>. QED BY <1>3 DEF Fine

LEMMA TotalGrows ==
  ASSUME NEW F, NEW S, NEW R \in SUBSET S, IsFiniteSet(S), AllNat(F, S)
  PROVE  /\ Total(F, R) \in Nat /\ Total(F, S) \in Nat /\ Total(F, R) <= Total(F, S)
         /\ (\A x \in S \ R : F[x] = 0) => Total(F, R) = Total(F, S)
<1> DEFINE Q == S \ R
<1>1. Q \in SUBSET S /\ R \cap Q = {} /\ R \cup Q = S
  OBVIOUS
<1>2. \A T \in SUBSET S : IsFiniteSet(T) /\ AllNat(F, T) /\ Ints(F, T)
  BY FS_Subset DEF AllNat, Ints
<1>3. Total(F, S) = Total(F, R) + Total(F, Q)
  <2>. HIDE DEF Q
  <2>1. Total(F, R \cup Q) = Total(F, R) + Total(F, Q)
    BY <1>1, <1>2, TotalOfUnion
  <2>. QED BY <1>1, <2>1
<1>4. Total(F, R) \in Nat /\ Total(F, Q) \in Nat
  BY <1>1, <1>2, TotalOfNaturals
<1>5. ASSUME \A x \in Q : F[x] = 0 PROVE Total(F, Q) = 0
  <2> DEFINE Z == [x \in Q |-> 1]
  <2>1. IsFiniteSet(Q) /\ Ints(Z, Q) /\ \A x \in Q : F[x] = 0 * Z[x]
    BY <1>1, <1>2, <1>5 DEF Ints
  <2>. HIDE DEF Z, Q
  <2>2. Total(F, Q) = 0 * Total(Z, Q)
    BY <2>1, TotalScaled
  <2>3. Total(Z, Q) \in Int
    BY <2>1, TotalType
  <2>. QED BY <2>2, <2>3
<1>. QED BY <1>3, <1>4, <1>5

(* A table of numbers, by columns and by rows. *)
InColumn(X, I, d) == [i \in I |-> X[<<i, d>>]]
InRow(X, D, i) == [d \in D |-> X[<<i, d>>]]
ByColumn(X, I, D) == [d \in D |-> Total(InColumn(X, I, d), I)]
ByRow(X, I, D) == [i \in I |-> Total(InRow(X, D, i), D)]
Numbered(X, I, D) == \A i \in I, d \in D : X[<<i, d>>] \in Int

LEMMA RowGrows ==
  ASSUME NEW X, NEW D, IsFiniteSet(D), NEW U \in SUBSET D, NEW x \in D, x \notin U, NEW i,
         \A d \in D : X[<<i, d>>] \in Int
  PROVE  /\ Total(InRow(X, U \cup {x}, i), U \cup {x}) = X[<<i, x>>] + Total(InRow(X, U, i), U)
         /\ Total(InRow(X, U, i), U) \in Int
<1> DEFINE T == U \cup {x}
           F == InRow(X, T, i)
           G == InRow(X, U, i)
<1>1. IsFiniteSet(U) /\ \A d \in U : F[d] = G[d]
  BY FS_Subset DEF InRow
<1>2. Ints(F, U) /\ F[x] \in Int /\ F[x] = X[<<i, x>>]
  BY DEF Ints, InRow
<1>. HIDE DEF F, G
<1>3. Total(F, T) = F[x] + Total(F, U) /\ Total(F, U) \in Int
  BY <1>1, <1>2, TotalInsert
<1>4. Total(F, U) = Total(G, U)
  BY <1>1, TotalOfEqual
<1>. QED BY <1>2, <1>3, <1>4 DEF F, G

LEMMA TotalsSwap ==
  ASSUME NEW X, NEW I, NEW D, IsFiniteSet(I), IsFiniteSet(D), Numbered(X, I, D)
  PROVE  Total(ByColumn(X, I, D), D) = Total(ByRow(X, I, D), I)
<1> DEFINE B == ByColumn(X, I, D)
           Fine == {T \in SUBSET D : Total(B, T) = Total(ByRow(X, I, T), I)}
<1>0. \A d \in D : B[d] = Total(InColumn(X, I, d), I) /\ B[d] \in Int
  <2>1. ASSUME NEW d \in D PROVE Ints(InColumn(X, I, d), I)
    BY DEF Numbered, Ints, InColumn
  <2>. QED BY <2>1, TotalType DEF ByColumn
<1>. HIDE DEF B
<1>1. ASSUME NEW T \in SUBSET D, \A U \in SUBSET T : U # T => U \in Fine
      PROVE  T \in Fine
  <2>1. CASE T = {}
    <3> DEFINE R == ByRow(X, I, T)
               Z == [i \in I |-> 1]
    <3>1. \A i \in I : R[i] = 0 * Z[i]
      BY <2>1, TotalOfNone DEF ByRow
    <3>2. Ints(Z, I)
      BY DEF Ints
    <3>. HIDE DEF R, Z
    <3>3. Total(R, I) = 0 * Total(Z, I) /\ Total(Z, I) \in Int
      BY <3>1, <3>2, TotalScaled, TotalType
    <3>4. Total(B, T) = 0
      BY <2>1, TotalOfNone
    <3>. QED BY <3>3, <3>4 DEF R
  <2>2. CASE T # {}
    <3>1. PICK x \in T : TRUE
      BY <2>2
    <3> DEFINE U == T \ {x}
    <3>2. U \in SUBSET T /\ U # T /\ U \in SUBSET D /\ x \notin U /\ U \cup {x} = T /\ x \in D
      BY <3>1
    <3>3. IsFiniteSet(U) /\ Ints(B, U) /\ B[x] \in Int
      BY <1>0, <3>2, FS_Subset DEF Ints
    <3>4. Total(B, U) = Total(ByRow(X, I, U), I)
      BY <1>1, <3>2
    <3>. HIDE DEF U
    <3>5. Total(B, T) = B[x] + Total(B, U)
      BY <3>2, <3>3, TotalInsert
    <3> DEFINE F == InColumn(X, I, x)
               G == ByRow(X, I, U)
               H == ByRow(X, I, T)
    <3>6. ASSUME NEW i \in I
          PROVE  H[i] = F[i] + G[i] /\ F[i] \in Int /\ G[i] \in Int
      <4>1. \A d \in D : X[<<i, d>>] \in Int
        BY DEF Numbered
      <4>2. /\ Total(InRow(X, T, i), T) = X[<<i, x>>] + Total(InRow(X, U, i), U)
            /\ Total(InRow(X, U, i), U) \in Int
        BY <3>2, <4>1, RowGrows
      <4>. QED BY <3>2, <4>1, <4>2 DEF ByRow, InColumn
    <3>7. B[x] = Total(F, I)
      BY <1>0, <3>2
    <3>. HIDE DEF F, G, H
    <3>8. Ints(F, I) /\ Ints(G, I)
      BY <3>6 DEF Ints
    <3>9. Total(H, I) = Total(F, I) + Total(G, I)
      BY <3>6, <3>8, TotalOfSum
    <3>10. Total(B, T) = Total(H, I)
      BY <3>4, <3>5, <3>7, <3>9 DEF G
    <3>. QED BY <3>10 DEF H
  <2>. QED BY <2>1, <2>2
<1>. HIDE DEF Fine
<1>2. D \in Fine
  BY <1>1, BySize
<1>. QED BY <1>2 DEF Fine, B

LEMMA OneMore ==
  ASSUME NEW a \in Int, NEW p \in Nat
  PROVE  /\ (a .. a + p - 1) \cup {a + p} = a .. a + p
         /\ a + p \notin a .. a + p - 1 /\ a .. a + p - 1 \in SUBSET Int
OBVIOUS

(* Differences of neighbours add up to the difference of the ends. *)
LEMMA TotalOfDifferences ==
  ASSUME NEW H \in [Int -> Int], NEW a \in Int, NEW n \in Nat, NEW F, \A d \in Int : F[d] = H[d + 1] - H[d]
  PROVE  Total(F, a .. a + n - 1) = H[a + n] - H[a]
<1> DEFINE Fails(m) == Total(F, a .. a + m - 1) # H[a + m] - H[a]
           Odd == {m \in Nat : Fails(m)}
<1>1. SUFFICES ASSUME Odd # {} PROVE FALSE
  OBVIOUS
<1>2. PICK m \in Odd : \A l \in Odd : m <= l
  <2>1. Odd \in SUBSET Nat
    OBVIOUS
  <2>. HIDE DEF Odd
  <2>. QED BY <1>1, <2>1, LeastExists
<1>3. m \in Nat /\ Fails(m) /\ \A l \in Nat : l < m => ~Fails(l)
  <2>. HIDE DEF Fails
  <2>1. m \in Nat /\ Fails(m) /\ \A l \in Nat : Fails(l) => m <= l
    BY <1>2
  <2>. QED BY <2>1
<1>4. m \in Nat
  BY <1>3
<1>. HIDE DEF Odd
<1>5. m # 0
  <2>1. SUFFICES ASSUME m = 0 PROVE FALSE
    OBVIOUS
  <2>2. a .. a + m - 1 = {} /\ H[a + m] - H[a] = 0
    BY <2>1
  <2>. QED BY <1>3, <2>2, TotalOfNone
<1>6. PICK p \in Nat : m = p + 1
  <2>1. m - 1 \in Nat /\ m = (m - 1) + 1
    BY <1>3, <1>5
  <2>. QED BY <2>1
<1> DEFINE S == a .. a + p - 1
           T == a .. a + m - 1
<1>7. Total(F, S) = H[a + p] - H[a]
  <2>1. ~Fails(p)
    <3>. HIDE DEF Fails
    <3>. QED BY <1>3, <1>6
  <2>. QED BY <2>1
<1>8. S \cup {a + p} = T /\ a + p \notin S /\ S \in SUBSET Int
  <2>1. a + m - 1 = a + p
    <3>. HIDE DEF S, T, Fails
    <3>. QED BY <1>6
  <2>2. T = a .. a + p
    BY <2>1
  <2>. HIDE DEF T
  <2>. QED BY <2>2, OneMore
<1>9. IsFiniteSet(S)
  <2>1. a + p - 1 \in Int
    OBVIOUS
  <2>. QED BY <2>1, FS_Interval
<1>10. \A d \in Int : F[d] \in Int
  OBVIOUS
<1>11. Ints(F, S) /\ F[a + p] \in Int /\ F[a + p] = H[a + m] - H[a + p]
  <2>1. a + p \in Int /\ (a + p) + 1 = a + m
    BY <1>6
  <2>2. F[a + p] = H[(a + p) + 1] - H[a + p]
    BY <2>1
  <2>. QED BY <1>8, <1>10, <2>1, <2>2 DEF Ints
<1>. HIDE DEF S, T
<1>12. Total(F, S \cup {a + p}) = F[a + p] + Total(F, S)
  BY <1>8, <1>9, <1>11, TotalInsert
<1>13. H[a + m] \in Int /\ H[a + p] \in Int /\ H[a] \in Int
  BY <1>3
<1>14. Total(F, T) = H[a + m] - H[a]
  <2>1. Total(F, T) = F[a + p] + (H[a + p] - H[a])
    BY <1>7, <1>8, <1>12
  <2>. QED BY <1>11, <1>13, <2>1
<1>. QED BY <1>3, <1>14 DEF T

-----------------------------------------------------------------------------
(* The time of an episode over the days: it is cut at every midnight. *)

Clamp(x, lo, hi) == IF x < lo THEN lo ELSE IF x > hi THEN hi ELSE x
Spans(e) ==
  /\ e.start \in Int /\ e.end \in Int /\ e.start <= e.end /\ e.dur \in Nat
  /\ e.start < e.end => Scale % (e.end - e.start) = 0

LEMMA DaysDivide ==
  ASSUME NEW t \in Int
  PROVE  /\ DayOf(t) \in Int /\ Day * DayOf(t) <= t /\ t < Day * (DayOf(t) + 1)
         /\ Day * DayOf(t) \in Int /\ Day * (DayOf(t) + 1) \in Int
<1>1. Day \in Nat /\ Day > 0
  BY TimelineAssumption
<1>2. PICK q \in Int, d \in 0 .. Day - 1 : t = Day * q + d /\ q = t \div Day
  BY <1>1, Division
<1>3. DayOf(t) = q
  BY <1>2 DEF DayOf
<1>4. Day * q \in Int /\ Day * (q + 1) = Day * q + Day
  BY <1>1
<1>5. Day * q <= t /\ t < Day * (q + 1) /\ Day * (q + 1) \in Int
  BY <1>1, <1>2, <1>4
<1>. QED BY <1>3, <1>4, <1>5

LEMMA DaysAscend ==
  ASSUME NEW s \in Int, NEW t \in Int, s <= t
  PROVE  DayOf(s) <= DayOf(t)
<1>1. /\ DayOf(s) \in Int /\ DayOf(t) \in Int
      /\ Day * DayOf(s) <= s /\ t < Day * (DayOf(t) + 1)
  BY DaysDivide
<1>2. Day \in Nat /\ Day > 0
  BY TimelineAssumption
<1> DEFINE a == DayOf(s)
           b == DayOf(t) + 1
<1>3. a \in Int /\ b \in Int /\ Day * a < Day * b
  <2>1. a \in Int /\ b \in Int /\ Day * a <= s /\ t < Day * b
    BY <1>1
  <2>. HIDE DEF a, b
  <2>2. Day * a \in Int /\ Day * b \in Int
    BY <1>2, <2>1
  <2>. QED BY <2>1, <2>2
<1>. HIDE DEF a, b
<1>4. a < b
  <2>1. SUFFICES ASSUME b <= a PROVE FALSE
    BY <1>3
  <2>2. Day * b <= Day * a
    BY <1>2, <1>3, <2>1
  <2>. QED BY <1>2, <1>3, <2>2
<1>. QED BY <1>1, <1>4 DEF a, b

LEMMA TwoBounds ==
  ASSUME NEW x \in Int, NEW y \in Int
  PROVE  /\ Max({x, y}) = (IF x < y THEN y ELSE x)
         /\ Min({x, y}) = (IF x < y THEN x ELSE y)
<1>1. {x, y} \in SUBSET Int /\ {x, y} # {} /\ IsFiniteSet({x, y})
  BY FewAreFinite
<1>2. Max({x, y}) \in {x, y} /\ \A t \in {x, y} : t <= Max({x, y})
  BY <1>1, GreatestOfASet
<1>3. \E m \in {x, y} : \A t \in {x, y} : m <= t
  <2>1. CASE x < y
    BY <2>1
  <2>2. CASE ~(x < y)
    BY <2>2
  <2>. QED BY <2>1, <2>2
<1>4. Min({x, y}) \in {x, y} /\ \A t \in {x, y} : Min({x, y}) <= t
  BY <1>3 DEF Min
<1>5. Max({x, y}) = IF x < y THEN y ELSE x
  <2> DEFINE m == Max({x, y})
  <2>1. (m = x \/ m = y) /\ x <= m /\ y <= m
    BY <1>2
  <2>. HIDE DEF m
  <2>2. m = IF x < y THEN y ELSE x
    BY <2>1
  <2>. QED BY <2>2 DEF m
<1>6. Min({x, y}) = IF x < y THEN x ELSE y
  <2> DEFINE m == Min({x, y})
  <2>1. (m = x \/ m = y) /\ m <= x /\ m <= y
    BY <1>4
  <2>. HIDE DEF m
  <2>2. m = IF x < y THEN x ELSE y
    BY <2>1
  <2>. QED BY <2>2 DEF m
<1>. QED BY <1>5, <1>6

(* A day's share of an episode that crosses midnight, by the day's ends. *)
LEMMA ShareOfADay ==
  ASSUME NEW e, Spans(e), DayOf(e.start) # DayOf(e.end), NEW d \in Int
  PROVE  /\ Share(e, d) = (e.dur * (Scale \div (e.end - e.start)))
                            * (Clamp(Day * (d + 1), e.start, e.end) - Clamp(Day * d, e.start, e.end))
         /\ Clamp(Day * (d + 1), e.start, e.end) \in Int /\ Clamp(Day * d, e.start, e.end) \in Int
         /\ Clamp(Day * d, e.start, e.end) <= Clamp(Day * (d + 1), e.start, e.end)
         /\ e.dur * (Scale \div (e.end - e.start)) \in Nat
<1> DEFINE s == e.start
           t == e.end
           x == d * Day
           y == (d + 1) * Day
           c == e.dur * (Scale \div (t - s))
<1>1. s \in Int /\ t \in Int /\ s <= t /\ e.dur \in Nat
  BY DEF Spans
<1>2. s < t
  BY <1>1
<1>3. Day \in Nat /\ Day > 0 /\ Scale \in Nat
  BY TimelineAssumption
<1>4. x \in Int /\ y = x + Day /\ y \in Int /\ Day * d = x /\ Day * (d + 1) = y
  BY <1>3
<1>5. c \in Nat
  <2>1. Scale \div (t - s) \in Nat
    <3>1. PICK q \in Int, r \in 0 .. (t - s) - 1 : Scale = (t - s) * q + r /\ q = Scale \div (t - s)
      <4>1. t - s \in Nat /\ t - s > 0 /\ Scale \in Int
        BY <1>1, <1>2, <1>3
      <4>. QED BY <4>1, Division
    <3>2. q >= 0
      <4>1. SUFFICES ASSUME q <= -1 PROVE FALSE
        OBVIOUS
      <4>2. (t - s) * q <= (t - s) * (-1)
        BY <1>1, <1>2, <4>1
      <4>. QED BY <1>1, <1>2, <1>3, <3>1, <4>2
    <3>. QED BY <3>1, <3>2
  <2>. QED BY <1>1, <2>1
<1>6. Share(e, d) = IF Min({t, y}) > Max({s, x}) THEN c * (Min({t, y}) - Max({s, x})) ELSE 0
  BY DEF Share
<1>7. /\ Max({s, x}) = IF s < x THEN x ELSE s
      /\ Min({t, y}) = IF t < y THEN t ELSE y
  BY <1>1, <1>4, TwoBounds
<1>. HIDE DEF s, t, x, y, c
<1> DEFINE from == IF s < x THEN x ELSE s
           to == IF t < y THEN t ELSE y
           lo == Clamp(x, s, t)
           hi == Clamp(y, s, t)
<1>8. /\ lo \in Int /\ hi \in Int /\ lo <= hi
      /\ to > from => to - from = hi - lo
      /\ ~(to > from) => hi - lo = 0
  BY <1>1, <1>2, <1>3, <1>4 DEF Clamp
<1>9. Share(e, d) = IF to > from THEN c * (to - from) ELSE 0
  BY <1>6, <1>7
<1>. HIDE DEF from, to, lo, hi
<1>10. Share(e, d) = c * (hi - lo)
  BY <1>5, <1>8, <1>9
<1>. QED BY <1>4, <1>5, <1>8, <1>10 DEF lo, hi, s, t, c

LEMMA SharesAreNatural ==
  ASSUME NEW e, Spans(e), NEW d \in Int
  PROVE  Share(e, d) \in Nat
<1>1. CASE DayOf(e.start) # DayOf(e.end)
  <2> DEFINE c == e.dur * (Scale \div (e.end - e.start))
             lo == Clamp(Day * d, e.start, e.end)
             hi == Clamp(Day * (d + 1), e.start, e.end)
  <2>1. Share(e, d) = c * (hi - lo) /\ lo \in Int /\ hi \in Int /\ lo <= hi /\ c \in Nat
    BY <1>1, ShareOfADay
  <2>. HIDE DEF c, lo, hi
  <2>2. hi - lo \in Nat
    BY <2>1
  <2>. QED BY <2>1, <2>2
<1>2. CASE DayOf(e.start) = DayOf(e.end)
  <2>1. Share(e, d) = Scale * e.dur \/ Share(e, d) = 0
    BY <1>2 DEF Share
  <2>. QED BY <2>1, TimelineAssumption DEF Spans
<1>. QED BY <1>1, <1>2

(* No day but those it spans has a share, and their shares are all of it. *)
LEMMA SharesAddUp ==
  ASSUME NEW e, Spans(e), NEW D \in SUBSET Int, IsFiniteSet(D), DayOf(e.start) .. DayOf(e.end) \in SUBSET D,
         NEW F, \A d \in D : F[d] = Share(e, d)
  PROVE  Total(F, D) = Scale * e.dur
<1> DEFINE a == DayOf(e.start)
           b == DayOf(e.end)
           R == a .. b
<1>1. a \in Int /\ b \in Int /\ a <= b /\ e.start \in Int /\ e.end \in Int /\ e.start <= e.end
  BY DaysDivide, DaysAscend DEF Spans
<1>2. AllNat(F, D)
  BY SharesAreNatural DEF AllNat
<1>3. R \in SUBSET D /\ IsFiniteSet(R)
  BY FS_Subset
<1>4. CASE a = b
  <2>1. R = {a} /\ a \in D
    BY <1>1, <1>3, <1>4
  <2>2. F[a] = Scale * e.dur /\ \A d \in D \ R : F[d] = 0
    BY <1>4, <2>1 DEF Share
  <2>. HIDE DEF R
  <2>3. Total(F, R) = Total(F, D)
    BY <1>2, <1>3, <2>2, TotalGrows
  <2>4. Total(F, R) = F[a]
    <3>1. IsFiniteSet({}) /\ Ints(F, {}) /\ a \notin {} /\ F[a] \in Int
      BY <1>2, <2>1, FS_EmptySet DEF Ints, AllNat
    <3>2. Total(F, {} \cup {a}) = F[a] + Total(F, {})
      BY <3>1, TotalInsert
    <3>3. {} \cup {a} = R
      BY <2>1
    <3>. QED BY <3>1, <3>2, <3>3, TotalOfNone
  <2>. QED BY <2>2, <2>3, <2>4
<1>5. CASE a # b
  <2> DEFINE c == e.dur * (Scale \div (e.end - e.start))
             H == [d \in Int |-> Clamp(Day * d, e.start, e.end)]
             L == [d \in Int |-> H[d + 1] - H[d]]
  <2>1. \A d \in Int : Clamp(Day * d, e.start, e.end) \in Int /\ Share(e, d) = c * L[d] /\ L[d] \in Int /\ c \in Nat
    <3>1. ASSUME NEW d \in Int
          PROVE  Clamp(Day * d, e.start, e.end) \in Int /\ Share(e, d) = c * L[d] /\ L[d] \in Int /\ c \in Nat
      <4>1. L[d] = Clamp(Day * (d + 1), e.start, e.end) - Clamp(Day * d, e.start, e.end)
        OBVIOUS
      <4>2. /\ Share(e, d) = c * (Clamp(Day * (d + 1), e.start, e.end) - Clamp(Day * d, e.start, e.end))
            /\ Clamp(Day * (d + 1), e.start, e.end) \in Int /\ Clamp(Day * d, e.start, e.end) \in Int /\ c \in Nat
        BY <1>5, ShareOfADay
      <4>. HIDE DEF L, c
      <4>. QED BY <4>1, <4>2
    <3>. QED BY <3>1
  <2>2. H \in [Int -> Int] /\ \A d \in Int : L[d] = H[d + 1] - H[d]
    BY <2>1
  <2>3. PICK n \in Nat : b = a + n - 1
    <3>1. b - a + 1 \in Nat /\ b = a + (b - a + 1) - 1
      BY <1>1
    <3>. QED BY <3>1
  <2>4. /\ H[a] = e.start /\ H[a + n] = e.end
        /\ \A d \in Int : d < a => L[d] = 0
        /\ \A d \in Int : d > b => L[d] = 0
    <3>0. Day \in Nat /\ Day > 0
      BY TimelineAssumption
    <3>1. Day * a <= e.start /\ e.end < Day * (b + 1) /\ Day * a \in Int /\ Day * (b + 1) \in Int
      BY <1>1, DaysDivide
    <3>2. ASSUME NEW d \in Int, NEW f \in Int, d <= f PROVE Day * d <= Day * f /\ Day * d \in Int /\ Day * f \in Int
      BY <3>0, <3>2
    <3>3. ASSUME NEW d \in Int, d <= a PROVE H[d] = e.start
      <4>1. Day * d <= Day * a /\ Day * d \in Int
        BY <1>1, <3>2, <3>3
      <4>2. Clamp(Day * d, e.start, e.end) = e.start
        BY <1>1, <3>1, <4>1 DEF Clamp
      <4>. QED BY <4>2
    <3>4. ASSUME NEW d \in Int, d >= b + 1 PROVE H[d] = e.end
      <4>1. Day * (b + 1) <= Day * d /\ Day * d \in Int
        BY <1>1, <3>2, <3>4
      <4>2. Clamp(Day * d, e.start, e.end) = e.end
        BY <1>1, <3>1, <4>1 DEF Clamp
      <4>. QED BY <4>2
    <3>. HIDE DEF H, L, a, b
    <3>5. H[a] = e.start /\ H[a + n] = e.end
      BY <1>1, <2>3, <3>3, <3>4
    <3>6. ASSUME NEW d \in Int, d < a PROVE L[d] = 0
      <4>1. H[d] = e.start /\ H[d + 1] = e.start
        BY <1>1, <3>3, <3>6
      <4>. QED BY <1>1, <2>2, <4>1
    <3>7. ASSUME NEW d \in Int, d > b PROVE L[d] = 0
      <4>1. H[d] = e.end /\ H[d + 1] = e.end
        BY <1>1, <3>4, <3>7
      <4>. QED BY <1>1, <2>2, <4>1
    <3>. QED BY <3>5, <3>6, <3>7
  <2>. HIDE DEF H, L, c
  <2>5. Total(L, R) = e.end - e.start
    <3>1. Total(L, a .. a + n - 1) = H[a + n] - H[a]
      BY <1>1, <2>2, TotalOfDifferences
    <3>. QED BY <2>3, <2>4, <3>1
  <2>6. \A d \in D : F[d] = c * L[d] /\ L[d] \in Int /\ c \in Nat
    BY <2>1
  <2>7. \A d \in D \ R : F[d] = 0
    <3>1. \A d \in D \ R : d \in Int /\ (d < a \/ d > b)
      BY <1>1
    <3>2. \A d \in D \ R : L[d] = 0
      BY <2>4, <3>1
    <3>. QED BY <2>6, <3>2
  <2>8. Total(F, R) = Total(F, D)
    <3>. HIDE DEF R
    <3>. QED BY <1>2, <1>3, <2>7, TotalGrows
  <2>9. Total(F, R) = c * Total(L, R)
    <3>1. Ints(L, R) /\ (\A d \in R : F[d] = c * L[d]) /\ c \in Int
      BY <1>1, <1>3, <2>6 DEF Ints
    <3>. HIDE DEF R
    <3>. QED BY <1>3, <3>1, TotalScaled
  <2>10. c * (e.end - e.start) = Scale * e.dur
    <3> DEFINE span == e.end - e.start
               q == Scale \div span
    <3>1. e.start < e.end
      <4>1. e.start # e.end
        BY <1>5
      <4>. QED BY <1>1, <4>1
    <3>2. span \in Nat /\ span > 0 /\ Scale % span = 0 /\ Scale \in Int /\ e.dur \in Nat
      BY <1>1, <3>1, TimelineAssumption DEF Spans
    <3>. HIDE DEF span
    <3>3. PICK p \in Int, r \in 0 .. span - 1 : Scale = span * p + r /\ p = q /\ r = Scale % span
      BY <3>2, Division
    <3>4. Scale = span * q /\ q \in Int
      BY <3>2, <3>3
    <3>5. c = e.dur * q
      BY DEF c, span
    <3>. HIDE DEF q
    <3>6. (e.dur * q) * span = (span * q) * e.dur
      BY <3>2, <3>4
    <3>. QED BY <3>4, <3>5, <3>6 DEF span
  <2>. QED BY <2>5, <2>8, <2>9, <2>10
<1>. QED BY <1>4, <1>5

-----------------------------------------------------------------------------
(* The episodes of a run of the pipeline, their blocks, days and states. *)

Series(eps) ==
  /\ Len(eps) \in Nat \ {0} /\ DOMAIN eps = 1 .. Len(eps)
  /\ \A i \in DOMAIN eps : Spans(eps[i])
Durations(eps) == [i \in DOMAIN eps |-> eps[i].dur]
Working(eps) == {i \in DOMAIN eps : ~IsOff(eps[i].final)}
BlockBreaks(eps) == {i \in DOMAIN eps : NewBlock(eps, i)}

LEMMA DurationsAreNatural ==
  ASSUME NEW eps, Series(eps)
  PROVE  /\ IsFiniteSet(DOMAIN eps) /\ AllNat(Durations(eps), DOMAIN eps) /\ Ints(Durations(eps), DOMAIN eps)
         /\ TotalDwell(eps) = Total(Durations(eps), DOMAIN eps)
<1> DEFINE F == Durations(eps)
<1>1. IsFiniteSet(1 .. Len(eps)) /\ DOMAIN eps = 1 .. Len(eps)
  <2>1. Len(eps) \in Nat /\ DOMAIN eps = 1 .. Len(eps)
    BY DEF Series
  <2>. QED BY <2>1, FirstNumbers
<1>2. \A i \in DOMAIN eps : F[i] \in Nat
  BY DEF Series, Spans, Durations
<1>3. TotalDwell(eps) = SumFunction(F)
  BY DEF TotalDwell, SumOver, Durations
<1>4. SumFunction(F) = Total(F, DOMAIN eps)
  <2>1. DOMAIN F = DOMAIN eps
    BY DEF Durations
  <2>. HIDE DEF F
  <2>. QED BY <2>1, SumOverIsTotal
<1>. QED BY <1>1, <1>2, <1>3, <1>4 DEF AllNat, Ints

LEMMA BlocksAreParts ==
  ASSUME NEW eps, Series(eps)
  PROVE  LET first == InOrder(BlockBreaks(eps))
             n == Len(eps)
             segs == MergeRunBlocks(eps)
         IN  /\ Parted(first, n, BlockBreaks(eps))
             /\ DOMAIN segs = 1 .. Len(first)
             /\ \A k \in 1 .. Len(first) :
                  /\ segs[k].dur = Total(Durations(eps), PartOf(first, n, k))
                  /\ PartOf(first, n, k) \in SUBSET (DOMAIN eps)
                  /\ \A i \in PartOf(first, n, k) : IsOff(eps[i].final) = segs[k].idle
<1> DEFINE first == InOrder(BlockBreaks(eps))
           n == Len(eps)
           segs == MergeRunBlocks(eps)
           sum(k) == SumOver(first[k] .. EndOf(first, n, k), LAMBDA i : eps[i].dur)
<1>0. n \in Nat \ {0} /\ DOMAIN eps = 1 .. n
  BY DEF Series
<1>1. Parted(first, n, BlockBreaks(eps))
  BY <1>0 DEF Parted, BlockBreaks, NewBlock
<1>2. DOMAIN first = 1 .. Len(first)
  BY <1>1, CutsAscend
<1>3. segs = [k \in DOMAIN first |->
               [idle |-> IsOff(eps[first[k]].final),
                start |-> eps[first[k]].start, end |-> eps[EndOf(first, n, k)].end,
                dur |-> sum(k), n |-> EndOf(first, n, k) - first[k] + 1]]
  BY DEF MergeRunBlocks, BlockBreaks, EndOf
<1>4. ASSUME NEW k \in 1 .. Len(first) PROVE PartOf(first, n, k) \in SUBSET (DOMAIN eps)
  <2>1. first[k] \in 1 .. n /\ EndOf(first, n, k) \in 1 .. n
    BY <1>1, CutsAscend, PartsCover
  <2>. QED BY <1>0, <2>1 DEF PartOf
<1>5. ASSUME NEW k \in 1 .. Len(first) PROVE sum(k) = Total(Durations(eps), PartOf(first, n, k))
  <2> DEFINE S == PartOf(first, n, k)
             F == [i \in S |-> eps[i].dur]
  <2>1. sum(k) = SumFunction(F)
    BY DEF SumOver, PartOf
  <2>2. SumFunction(F) = Total(F, S)
    BY SumOverIsTotal
  <2>3. IsFiniteSet(S) /\ \A i \in S : F[i] = Durations(eps)[i]
    BY <1>4, DurationsAreNatural, FS_Subset DEF Durations
  <2>. HIDE DEF S, F
  <2>4. Total(F, S) = Total(Durations(eps), S)
    BY <2>3, TotalOfEqual
  <2>. QED BY <2>1, <2>2, <2>4 DEF S
<1>6. ASSUME NEW k \in 1 .. Len(first), NEW i \in PartOf(first, n, k)
      PROVE  IsOff(eps[i].final) = IsOff(eps[first[k]].final)
  <2> DEFINE same(j) == IsOff(eps[j].final) = IsOff(eps[first[k]].final)
             Odd == {j \in PartOf(first, n, k) : ~same(j)}
  <2>1. SUFFICES ASSUME Odd # {} PROVE FALSE
    OBVIOUS
  <2>2. first[k] \in 1 .. n /\ EndOf(first, n, k) \in 1 .. n /\ \A j \in PartOf(first, n, k) : j \in Nat
    BY <1>0, <1>1, CutsAscend, PartsCover DEF PartOf
  <2>3. PICK j \in Odd : \A l \in Odd : j <= l
    <3>1. Odd \in SUBSET Nat
      BY <2>2
    <3>. HIDE DEF Odd
    <3>. QED BY <2>1, <3>1, LeastExists
  <2>. HIDE DEF same
  <2>4. j \in PartOf(first, n, k) /\ ~same(j) /\ j \in Nat
    BY <2>2, <2>3
  <2>5. j # first[k]
    BY <2>4 DEF same
  <2>6. j - 1 \in PartOf(first, n, k) /\ j \in 1 .. n /\ j # 1 /\ j - 1 < j
    <3>1. first[k] <= j /\ j <= EndOf(first, n, k) /\ first[k] < j
      BY <2>2, <2>4, <2>5 DEF PartOf
    <3>. QED BY <1>0, <2>2, <2>4, <3>1 DEF PartOf
  <2>7. same(j - 1)
    <3>1. j - 1 \notin Odd
      BY <2>2, <2>3, <2>4, <2>6
    <3>. QED BY <2>6, <3>1
  <2>8. j \notin BlockBreaks(eps)
    BY <1>1, <2>4, <2>5, PartsCover
  <2>9. ~NewBlock(eps, j)
    BY <1>0, <2>6, <2>8 DEF BlockBreaks
  <2>10. IsOff(eps[j].final) = IsOff(eps[j - 1].final)
    BY <2>6, <2>9 DEF NewBlock
  <2>. QED BY <2>4, <2>7, <2>10 DEF same
<1>. HIDE DEF segs, sum
<1>7. /\ DOMAIN segs = 1 .. Len(first)
      /\ \A k \in 1 .. Len(first) : segs[k].dur = sum(k) /\ segs[k].idle = IsOff(eps[first[k]].final)
  <2>. HIDE DEF first
  <2>. QED BY <1>2, <1>3
<1>. HIDE DEF first, n
<1>8. \A k \in 1 .. Len(first) : /\ segs[k].dur = Total(Durations(eps), PartOf(first, n, k))
                                 /\ PartOf(first, n, k) \in SUBSET (DOMAIN eps)
                                 /\ \A i \in PartOf(first, n, k) : IsOff(eps[i].final) = segs[k].idle
  BY <1>4, <1>5, <1>6, <1>7
<1>. QED BY <1>1, <1>7, <1>8 DEF first, n, segs

(* All blocks together last as long as the episodes, the running ones as long as the
   episodes in which the machine works. *)
LEMMA BlocksAddUp ==
  ASSUME NEW eps, Series(eps)
  PROVE  LET segs == MergeRunBlocks(eps)
             S == {k \in DOMAIN segs : ~segs[k].idle}
             G == [k \in DOMAIN segs |-> segs[k].dur]
         IN  /\ Total(G, DOMAIN segs) = Total(Durations(eps), DOMAIN eps)
             /\ Total(G, S) = Total(Durations(eps), Working(eps))
             /\ IsFiniteSet(DOMAIN segs) /\ Ints(G, DOMAIN segs)
<1> DEFINE segs == MergeRunBlocks(eps)
           S == {k \in DOMAIN segs : ~segs[k].idle}
           G == [k \in DOMAIN segs |-> segs[k].dur]
           F == Durations(eps)
           first == InOrder(BlockBreaks(eps))
           n == Len(eps)
           P == [k \in DOMAIN segs |-> PartOf(first, n, k)]
<1>1. /\ Parted(first, n, BlockBreaks(eps))
      /\ DOMAIN segs = 1 .. Len(first)
      /\ \A k \in 1 .. Len(first) :
           /\ segs[k].dur = Total(F, PartOf(first, n, k))
           /\ PartOf(first, n, k) \in SUBSET (DOMAIN eps)
           /\ \A i \in PartOf(first, n, k) : IsOff(eps[i].final) = segs[k].idle
  BY BlocksAreParts
<1>2. IsFiniteSet(DOMAIN eps) /\ Ints(F, DOMAIN eps) /\ DOMAIN eps = 1 .. n /\ n \in Nat
  BY DurationsAreNatural DEF Series
<1>3. Len(first) \in Nat /\ \A k \in 1 .. Len(first) : first[k] \in 1 .. n
  BY <1>1, CutsAscend
<1>4. /\ \A k \in 1 .. Len(first) : EndOf(first, n, k) \in 1 .. n
      /\ \A k, l \in 1 .. Len(first) : k < l => EndOf(first, n, k) < first[l]
      /\ \A i \in 1 .. n : \E k \in 1 .. Len(first) : i \in PartOf(first, n, k)
  BY <1>1, PartsCover
<1>. HIDE DEF segs, F, first, n
<1>5. Total(G, 1 .. Len(first)) = Total(F, 1 .. n)
  <2>1. \A k \in 1 .. Len(first) : G[k] = Total(F, PartOf(first, n, k))
    BY <1>1
  <2>. HIDE DEF G
  <2>. QED BY <1>1, <1>2, <2>1, PartsAddUp
<1>6. IsFiniteSet(DOMAIN segs)
  BY <1>1, <1>3, FirstNumbers
<1>7. \A k \in DOMAIN segs : P[k] \in SUBSET (DOMAIN eps) /\ IsFiniteSet(P[k]) /\ Ints(F, P[k]) /\ G[k] = Total(F, P[k])
  <2>1. \A k \in DOMAIN segs : P[k] \in SUBSET (DOMAIN eps) /\ G[k] = Total(F, P[k])
    BY <1>1
  <2>2. \A Q \in SUBSET (DOMAIN eps) : IsFiniteSet(Q) /\ Ints(F, Q)
    BY <1>2, FS_Subset DEF Ints
  <2>. HIDE DEF P, G
  <2>. QED BY <2>1, <2>2
<1>8. Apart(P, DOMAIN segs)
  <2>1. ASSUME NEW k \in 1 .. Len(first), NEW l \in 1 .. Len(first), k < l PROVE P[k] \cap P[l] = {}
    <3>1. EndOf(first, n, k) < first[l]
      BY <1>4, <2>1
    <3>2. \A x \in 1 .. Len(first) : EndOf(first, n, x) \in Int /\ first[x] \in Int
      <4>1. \A y \in 1 .. n : y \in Int
        BY <1>2
      <4>. QED BY <1>3, <1>4, <4>1
    <3>3. \A i \in PartOf(first, n, k) : i \notin PartOf(first, n, l)
      BY <3>1, <3>2 DEF PartOf
    <3>. QED BY <1>1, <3>3
  <2>2. ASSUME NEW k \in 1 .. Len(first), NEW l \in 1 .. Len(first), k # l PROVE P[k] \cap P[l] = {}
    <3>1. k < l \/ l < k
      BY <1>3, <2>2
    <3>. HIDE DEF P
    <3>. QED BY <2>1, <3>1
  <2>. QED BY <1>1, <2>2 DEF Apart
<1>9. Joined(P, S) = Working(eps)
  <2>1. \A k \in 1 .. Len(first) : P[k] = PartOf(first, n, k)
    BY <1>1
  <2>2. \A k \in 1 .. Len(first) : k \in S <=> ~segs[k].idle
    BY <1>1
  <2>3. S \subseteq 1 .. Len(first)
    BY <1>1
  <2>. HIDE DEF P, S
  <2>4. ASSUME NEW i \in Joined(P, S) PROVE i \in Working(eps)
    <3>1. PICK k \in S : i \in P[k]
      BY DEF Joined
    <3>2. k \in 1 .. Len(first) /\ ~segs[k].idle /\ i \in PartOf(first, n, k)
      BY <2>1, <2>2, <2>3, <3>1
    <3>3. i \in DOMAIN eps /\ ~IsOff(eps[i].final)
      BY <1>1, <3>2
    <3>. QED BY <3>3 DEF Working
  <2>5. ASSUME NEW i \in Working(eps) PROVE i \in Joined(P, S)
    <3>1. i \in 1 .. n /\ ~IsOff(eps[i].final)
      BY <1>2 DEF Working
    <3>2. PICK k \in 1 .. Len(first) : i \in PartOf(first, n, k)
      BY <1>4, <3>1
    <3>3. ~segs[k].idle
      BY <1>1, <3>1, <3>2
    <3>. QED BY <2>1, <2>2, <3>2, <3>3 DEF Joined
  <2>. QED BY <2>4, <2>5
<1>10. S \in SUBSET (DOMAIN segs) /\ IsFiniteSet(S) /\ Apart(P, S) /\ SumsOf(G, F, P, S)
  <2>1. S \in SUBSET (DOMAIN segs)
    OBVIOUS
  <2>. HIDE DEF P, G, S
  <2>. QED BY <1>6, <1>7, <1>8, <2>1, FS_Subset DEF Apart, SumsOf
<1>. HIDE DEF P, S
<1>11. Total(G, S) = Total(F, Joined(P, S))
  <2>. HIDE DEF G
  <2>. QED BY <1>10, TotalOfParts
<1>12. Ints(G, DOMAIN segs)
  <2>. HIDE DEF G
  <2>. QED BY <1>7, TotalType DEF Ints
<1>. QED BY <1>1, <1>2, <1>5, <1>6, <1>9, <1>11, <1>12 DEF segs, S, F, n, first

(* The times of all final states. *)
LEMMA StatesAddUp ==
  ASSUME NEW eps, Series(eps)
  PROVE  LET sum == Summarize(eps)
             G == [s \in DOMAIN sum |-> sum[s].total]
         IN  Total(G, DOMAIN sum) = Total(Durations(eps), DOMAIN eps)
<1> DEFINE sum == Summarize(eps)
           G == [s \in DOMAIN sum |-> sum[s].total]
           F == Durations(eps)
           P == [s \in DOMAIN sum |-> {i \in DOMAIN eps : eps[i].final = s}]
           L == [i \in DOMAIN eps |-> eps[i].final]
<1>1. IsFiniteSet(DOMAIN eps) /\ Ints(F, DOMAIN eps)
  BY DurationsAreNatural
<1>2. DOMAIN sum = {L[i] : i \in DOMAIN L} /\ IsFiniteSet(DOMAIN L)
  BY <1>1 DEF Summarize
<1>3. IsFiniteSet(DOMAIN sum)
  <2>. HIDE DEF L, sum
  <2>. QED BY <1>2, ImageIsFinite
<1>4. \A s \in DOMAIN sum : P[s] \in SUBSET (DOMAIN eps) /\ IsFiniteSet(P[s]) /\ Ints(F, P[s])
  <2>1. \A Q \in SUBSET (DOMAIN eps) : IsFiniteSet(Q) /\ Ints(F, Q)
    BY <1>1, FS_Subset DEF Ints
  <2>2. \A s \in DOMAIN sum : P[s] \in SUBSET (DOMAIN eps)
    OBVIOUS
  <2>. HIDE DEF P, sum, F
  <2>. QED BY <2>1, <2>2
<1>5. ASSUME NEW s \in DOMAIN sum PROVE G[s] = Total(F, P[s])
  <2> DEFINE mine == {i \in DOMAIN eps : eps[i].final = s}
             D == [i \in mine |-> eps[i].dur]
  <2>1. sum[s].total = SumOver(mine, LAMBDA i : eps[i].dur)
    BY DEF Summarize
  <2>2. SumOver(mine, LAMBDA i : eps[i].dur) = SumFunction(D)
    BY DEF SumOver
  <2>3. mine = P[s] /\ IsFiniteSet(mine) /\ \A i \in mine : D[i] = F[i]
    BY <1>4 DEF Durations
  <2>4. SumFunction(D) = Total(D, mine)
    BY SumOverIsTotal
  <2>. HIDE DEF mine, D, F
  <2>5. Total(D, mine) = Total(F, mine)
    BY <2>3, TotalOfEqual
  <2>6. G[s] = sum[s].total
    OBVIOUS
  <2>. HIDE DEF G, P, sum
  <2>. QED BY <2>1, <2>2, <2>3, <2>4, <2>5, <2>6
<1>6. Joined(P, DOMAIN sum) = DOMAIN eps /\ Apart(P, DOMAIN sum)
  <2>1. \A s \in DOMAIN sum : P[s] = {i \in DOMAIN eps : eps[i].final = s}
    OBVIOUS
  <2>2. DOMAIN sum = {eps[i].final : i \in DOMAIN eps}
    BY DEF Summarize
  <2>. HIDE DEF P, sum
  <2>3. \A i \in DOMAIN eps : eps[i].final \in DOMAIN sum /\ i \in P[eps[i].final]
    BY <2>1, <2>2
  <2>4. \A s \in DOMAIN sum : P[s] \in SUBSET (DOMAIN eps)
    BY <2>1
  <2>5. Joined(P, DOMAIN sum) = DOMAIN eps
    BY <2>3, <2>4 DEF Joined
  <2>6. Apart(P, DOMAIN sum)
    BY <2>1 DEF Apart
  <2>. QED BY <2>5, <2>6
<1>. HIDE DEF P, G, F, sum
<1>7. SumsOf(G, F, P, DOMAIN sum)
  BY <1>4, <1>5 DEF SumsOf
<1>8. Total(G, DOMAIN sum) = Total(F, Joined(P, DOMAIN sum))
  BY <1>3, <1>6, <1>7, TotalOfParts
<1>. QED BY <1>6, <1>8 DEF G, F, sum

-----------------------------------------------------------------------------
(* The days of a run: the parts of the episodes that belong to them. *)

Days(eps) == UNION {DayOf(eps[i].start) .. DayOf(eps[i].end) : i \in DOMAIN eps}
SharesOn(eps, d, S) == [i \in S |-> Share(eps[i], d)]
OnDay(eps, d, S) == Total(SharesOn(eps, d, S), S)
DaysWithData(eps) == {d \in Days(eps) : OnDay(eps, d, DOMAIN eps) > 0}

LEMMA DaysAreTotalled ==
  ASSUME NEW eps
  PROVE  /\ DOMAIN DailyRuntime(eps) = DaysWithData(eps)
         /\ \A d \in DaysWithData(eps) : /\ DailyRuntime(eps)[d].covered = OnDay(eps, d, DOMAIN eps)
                                         /\ DailyRuntime(eps)[d].running = OnDay(eps, d, Working(eps))
<1> DEFINE within(d, S) == SumOver(S, LAMBDA i : Share(eps[i], d))
           run == DailyRuntime(eps)
<1>1. run = [d \in {x \in Days(eps) : within(x, DOMAIN eps) > 0} |->
              [covered |-> within(d, DOMAIN eps), running |-> within(d, Working(eps))]]
  BY DEF DailyRuntime, Days, Working
<1>2. ASSUME NEW d, NEW S PROVE within(d, S) = OnDay(eps, d, S)
  <2>1. within(d, S) = SumFunction(SharesOn(eps, d, S))
    BY DEF SumOver, SharesOn
  <2>2. DOMAIN SharesOn(eps, d, S) = S
    BY DEF SharesOn
  <2>. QED BY <2>1, <2>2, SumOverIsTotal DEF OnDay
<1>. HIDE DEF within, run
<1>3. {x \in Days(eps) : within(x, DOMAIN eps) > 0} = DaysWithData(eps)
  BY <1>2 DEF DaysWithData
<1>4. DOMAIN run = DaysWithData(eps)
  BY <1>1, <1>3
<1>5. \A d \in DaysWithData(eps) : run[d].covered = within(d, DOMAIN eps) /\ run[d].running = within(d, Working(eps))
  BY <1>1, <1>3
<1>. QED BY <1>2, <1>4, <1>5 DEF run

LEMMA DaysAreFinite ==
  ASSUME NEW eps, Series(eps)
  PROVE  /\ IsFiniteSet(Days(eps)) /\ Days(eps) \in SUBSET Int
         /\ \A i \in DOMAIN eps : DayOf(eps[i].start) .. DayOf(eps[i].end) \in SUBSET Days(eps)
<1> DEFINE F == [i \in DOMAIN eps |-> DayOf(eps[i].start) .. DayOf(eps[i].end)]
<1>1. IsFiniteSet(DOMAIN eps)
  BY DurationsAreNatural
<1>2. \A i \in DOMAIN eps : eps[i].start \in Int /\ eps[i].end \in Int
  BY DEF Series, Spans
<1>3. \A i \in DOMAIN eps : DayOf(eps[i].start) \in Int /\ DayOf(eps[i].end) \in Int
  BY <1>2, DaysDivide
<1>4. \A i \in DOMAIN F : IsFiniteSet(F[i])
  BY <1>3, FS_Interval
<1>5. DOMAIN F = DOMAIN eps /\ Days(eps) = UNION {F[i] : i \in DOMAIN F}
  BY DEF Days
<1>6. \A i \in DOMAIN eps : F[i] \in SUBSET Int /\ F[i] \in SUBSET Days(eps)
  <2>1. \A i \in DOMAIN eps : F[i] \in SUBSET Int
    BY <1>3
  <2>. HIDE DEF F
  <2>. QED BY <1>5, <2>1
<1>7. Days(eps) \in SUBSET Int
  <2>. HIDE DEF F
  <2>. QED BY <1>5, <1>6
<1>8. IsFiniteSet(Days(eps))
  <2>. HIDE DEF F
  <2>. QED BY <1>1, <1>4, <1>5, FamilyIsFinite
<1>. QED BY <1>6, <1>7, <1>8

LEMMA DaysAddUp ==
  ASSUME NEW eps, Series(eps), NEW S \in SUBSET DOMAIN eps, NEW G,
         \A d \in DaysWithData(eps) : G[d] = OnDay(eps, d, S)
  PROVE  Total(G, DaysWithData(eps)) = Scale * Total(Durations(eps), S)
<1> DEFINE D == Days(eps)
           I == DOMAIN eps
           B == DaysWithData(eps)
           X == [p \in I \X D |-> Share(eps[p[1]], p[2])]
           R == ByRow(X, S, D)
           C == ByColumn(X, S, D)
<1>1. IsFiniteSet(I) /\ Ints(Durations(eps), I) /\ IsFiniteSet(S) /\ Ints(Durations(eps), S)
  <2>1. IsFiniteSet(I) /\ Ints(Durations(eps), I)
    BY DurationsAreNatural
  <2>. QED BY <2>1, FS_Subset DEF Ints
<1>2. IsFiniteSet(D) /\ D \in SUBSET Int /\ \A i \in I : DayOf(eps[i].start) .. DayOf(eps[i].end) \in SUBSET D
  BY DaysAreFinite
<1>3. \A i \in I : Spans(eps[i])
  BY DEF Series
<1>4. \A i \in I, d \in D : Share(eps[i], d) \in Nat
  BY <1>2, <1>3, SharesAreNatural
<1>5. \A i \in I, d \in D : X[<<i, d>>] = Share(eps[i], d)
  OBVIOUS
<1>. HIDE DEF X, D
<1>6. Numbered(X, S, D)
  <2>1. \A i \in S, d \in D : X[<<i, d>>] = Share(eps[i], d) /\ Share(eps[i], d) \in Nat
    BY <1>4, <1>5
  <2>2. ASSUME NEW i \in S, NEW d \in D PROVE X[<<i, d>>] \in Int
    <3>1. X[<<i, d>>] = Share(eps[i], d) /\ Share(eps[i], d) \in Nat
      BY <2>1
    <3>. QED BY <3>1
  <2>. QED BY <2>2 DEF Numbered
<1>7. Total(C, D) = Total(R, S)
  BY <1>1, <1>2, <1>6, TotalsSwap
<1>8. \A i \in S : R[i] = Scale * Durations(eps)[i]
  <2>1. SUFFICES ASSUME NEW i \in S PROVE R[i] = Scale * Durations(eps)[i]
    OBVIOUS
  <2> DEFINE F == InRow(X, D, i)
             e == eps[i]
  <2>2. R[i] = Total(F, D)
    BY DEF ByRow
  <2>3. \A d \in D : F[d] = Share(e, d)
    BY <1>5 DEF InRow
  <2>4. Spans(e) /\ DayOf(e.start) .. DayOf(e.end) \in SUBSET D /\ Durations(eps)[i] = e.dur
    BY <1>2, <1>3 DEF Durations
  <2>. HIDE DEF F, e, R
  <2>5. Total(F, D) = Scale * e.dur
    BY <1>2, <2>3, <2>4, SharesAddUp
  <2>. QED BY <2>2, <2>4, <2>5
<1>9. Total(R, S) = Scale * Total(Durations(eps), S)
  <2>1. Scale \in Int
    BY TimelineAssumption
  <2>. HIDE DEF R
  <2>. QED BY <1>1, <1>8, <2>1, TotalScaled
<1>10. \A d \in D : C[d] = OnDay(eps, d, S)
  <2>1. SUFFICES ASSUME NEW d \in D PROVE C[d] = OnDay(eps, d, S)
    OBVIOUS
  <2>2. C[d] = Total(InColumn(X, S, d), S)
    BY DEF ByColumn
  <2>3. \A i \in S : InColumn(X, S, d)[i] = SharesOn(eps, d, S)[i]
    BY <1>5 DEF InColumn, SharesOn
  <2>4. Total(InColumn(X, S, d), S) = Total(SharesOn(eps, d, S), S)
    BY <1>1, <2>3, TotalOfEqual
  <2>. QED BY <2>2, <2>4 DEF OnDay
<1>. HIDE DEF C
<1>11. ASSUME NEW d \in D PROVE /\ OnDay(eps, d, S) \in Nat /\ OnDay(eps, d, I) \in Nat
                                /\ OnDay(eps, d, S) <= OnDay(eps, d, I)
  <2> DEFINE F == SharesOn(eps, d, I)
             H == SharesOn(eps, d, S)
  <2>1. AllNat(F, I)
    BY <1>4 DEF AllNat, SharesOn
  <2>2. \A i \in S : F[i] = H[i]
    BY DEF SharesOn
  <2>. HIDE DEF F, H
  <2>3. Total(F, S) \in Nat /\ Total(F, I) \in Nat /\ Total(F, S) <= Total(F, I)
    BY <1>1, <2>1, TotalGrows
  <2>4. Total(F, S) = Total(H, S)
    BY <1>1, <2>2, TotalOfEqual
  <2>. QED BY <2>3, <2>4 DEF OnDay, F, H
<1>12. B \in SUBSET D /\ \A d \in D \ B : C[d] = 0
  <2>1. \A d \in D : d \in B <=> OnDay(eps, d, I) > 0
    BY DEF DaysWithData, D
  <2>2. B \in SUBSET D
    BY DEF DaysWithData, D
  <2>. HIDE DEF B, I
  <2>. QED BY <1>10, <1>11, <2>1, <2>2
<1>13. AllNat(C, D) /\ IsFiniteSet(B)
  BY <1>2, <1>10, <1>11, <1>12, FS_Subset DEF AllNat
<1>. HIDE DEF B, R
<1>14. Total(C, B) = Total(C, D)
  BY <1>2, <1>12, <1>13, TotalGrows
<1>15. Total(G, B) = Total(C, B)
  <2>1. \A d \in B : G[d] = C[d]
    BY <1>10, <1>12 DEF B
  <2>. QED BY <1>13, <2>1, TotalOfEqual
<1>. QED BY <1>7, <1>9, <1>14, <1>15 DEF B

-----------------------------------------------------------------------------
(* Every time in the table is one at which there may be a reading, so the spans of
   the episodes divide the scale. *)

LEMMA TableTimesAreRead ==
  ASSUME LogInv, HistoryInv, stage \notin Unloaded
  PROVE  {p[2] : p \in DOMAIN table} \in SUBSET ReadingTimes(file)
<1> DEFINE came == Came(file, log)
           T == ReadingTimes(file)
           l == Len(file.at)
<1>1. /\ DOMAIN table = {Place(At(came, p)) : p \in Usable(came)}
      /\ \A b \in DOMAIN log : log[b] = <<>> \/ log[b] \in Batches[file]
      /\ file \in Files /\ Readable(file)
  BY DEF LogInv, HistoryInv, FileInv, TableIs, Unloaded
<1>2. l \in Nat /\ DOMAIN file.at = 1 .. l
  BY <1>1, FilesAreDated, FileRows
<1>3. \A n \in 1 .. l : file.at[n] \in T
  BY <1>2 DEF ReadingTimes, Range
<1>4. \A m \in DOMAIN Melt(file) : Melt(file)[m].at \in T
  <2>1. \A m \in DOMAIN Melt(file) : \E n \in 1 .. l, j \in DOMAIN Columns : Melt(file)[m] = Cell(file, Columns[j], n)
    BY <1>2, MeltHasTheCells
  <2>. HIDE DEF T
  <2>2. \A k, n : Cell(file, k, n).at = file.at[n]
    BY DEF Cell
  <2>. QED BY <1>3, <2>1, <2>2
<1>5. \A b \in Batches[file] : \A i \in DOMAIN b : b[i].at \in T
  BY DEF ReadingTimes
<1>6. \A b \in DOMAIN came : \A i \in DOMAIN came[b] : came[b][i].at \in T
  <2>1. SUFFICES ASSUME NEW b \in DOMAIN came PROVE \A i \in DOMAIN came[b] : came[b][i].at \in T
    OBVIOUS
  <2>2. b \in DOMAIN log /\ came[b] = IF log[b] = <<>> THEN Melt(file) ELSE log[b]
    BY DEF Came
  <2>. HIDE DEF T, came
  <2>. QED BY <1>1, <1>4, <1>5, <2>2
<1>7. \A p \in Usable(came) : At(came, p).at \in T
  <2>1. SUFFICES ASSUME NEW p \in Usable(came) PROVE At(came, p).at \in T
    OBVIOUS
  <2>2. PICK b \in DOMAIN came : \E i \in Good(came[b]) : p = <<b, i>>
    BY UsableReadings
  <2>3. PICK i \in Good(came[b]) : p = <<b, i>>
    BY <2>2
  <2>4. i \in DOMAIN came[b] /\ At(came, p) = came[b][i]
    BY <2>3 DEF Good, At
  <2>. HIDE DEF T, came
  <2>. QED BY <1>6, <2>4
<1>. HIDE DEF T, came
<1>8. ASSUME NEW p \in DOMAIN table PROVE p[2] \in T
  <2>1. PICK q \in Usable(came) : p = Place(At(came, q))
    BY <1>1
  <2>. QED BY <1>7, <2>1 DEF Place
<1>9. {p[2] : p \in DOMAIN table} \in SUBSET T
  BY <1>8
<1>. QED BY <1>9 DEF T

(* A frame's times, in order, with spans that divide the scale. *)
Dividing(rows) == \A i, j \in DOMAIN rows : i < j => Scale % (rows[j].at - rows[i].at) = 0

LEMMA FrameSpansDivide ==
  ASSUME LogInv, HistoryInv, stage \notin Unloaded
  PROVE  \A i, j \in DOMAIN frame.at : i < j => Scale % (frame.at[j] - frame.at[i]) = 0
<1> DEFINE T == {p[2] : p \in DOMAIN table}
<1>1. Enumerates(frame.at, T)
  BY DEF HistoryInv, GridInv, Unloaded
<1>2. T \in SUBSET ReadingTimes(file)
  BY TableTimesAreRead
<1>3. \E n \in Nat : /\ DOMAIN frame.at = 1 .. n /\ \A i \in 1 .. n : frame.at[i] \in Int
                     /\ \A i, j \in 1 .. n : i < j => frame.at[i] < frame.at[j]
  BY FrameTimesAscend DEF HistoryInv
<1>4. file \in Files /\ Readable(file)
  BY DEF LogInv, HistoryInv, FileInv, Unloaded
<1>. HIDE DEF T
<1>5. \A i \in DOMAIN frame.at : frame.at[i] \in ReadingTimes(file)
  BY <1>1, <1>2 DEF Enumerates
<1>6. \A s, t \in ReadingTimes(file) : s < t => Scale % (t - s) = 0
  BY <1>4, SpansDivideScale
<1>. QED BY <1>3, <1>5, <1>6

LEMMA RowsSpansDivide ==
  ASSUME NEW f, NEW n \in Nat, DOMAIN f.at = 1 .. n,
         \A i, j \in DOMAIN f.at : i < j => Scale % (f.at[j] - f.at[i]) = 0, NEW cuts
  PROVE  Dividing(Labelled(ValidReadings(IndicatorOf(f)), cuts))
<1> DEFINE col == IndicatorOf(f)
           P == {i \in DOMAIN col : col[i].v # Missing}
           v == ValidReadings(col)
           rows == Labelled(v, cuts)
<1>1. DOMAIN col = 1 .. n /\ \A i \in 1 .. n : col[i].at = f.at[i]
  BY DEF IndicatorOf
<1>. HIDE DEF col
<1>2. P \in SUBSET (1 .. n) /\ v = Picked(col, P)
  BY <1>1 DEF ValidReadings
<1>. HIDE DEF P, v
<1>3. /\ Cardinality(P) \in 0 .. n /\ Enumerates(InOrder(P), P)
      /\ DOMAIN v = 1 .. Cardinality(P)
      /\ \A i \in 1 .. Cardinality(P) : v[i] = col[InOrder(P)[i]] /\ InOrder(P)[i] \in P
  BY <1>1, <1>2, PlacesAreSorted
<1> DEFINE o == InOrder(P)
           l == Cardinality(P)
<1>4. /\ \A i \in 1 .. l : o[i] \in 1 .. n /\ v[i].at = f.at[o[i]]
      /\ \A i, j \in 1 .. l : i < j => o[i] < o[j]
  BY <1>1, <1>2, <1>3 DEF Enumerates
<1>5. DOMAIN rows = 1 .. l /\ \A i \in 1 .. l : rows[i].at = f.at[o[i]]
  BY <1>3, <1>4 DEF Labelled
<1>. HIDE DEF o, l, rows
<1>6. Dividing(rows)
  BY <1>4, <1>5 DEF Dividing
<1>. QED BY <1>6 DEF rows, v, col

(* The episodes of such rows are a series: they start and end at rows of theirs and
   last for no less than nothing. *)
LEMMA EpisodesAreSeries ==
  ASSUME NEW rows, InTime(rows), Dividing(rows), NEW eps, EpisodesOf(eps, rows), Len(eps) \in Nat,
         DOMAIN eps = 1 .. Len(eps)
  PROVE  Series(eps)
<1> DEFINE first == InOrder(Breaks(rows))
           n == Len(rows)
<1>1. /\ n \in Nat \ {0} /\ DOMAIN rows = 1 .. n /\ \A i \in 1 .. n : rows[i].at \in Int
      /\ \A i, j \in 1 .. n : i < j => rows[i].at < rows[j].at /\ Scale % (rows[j].at - rows[i].at) = 0
  BY DEF InTime, Dividing
<1>2. Parted(first, n, Breaks(rows))
  BY RowsAreParted
<1>3. Len(first) \in Nat \ {0} /\ \A k \in 1 .. Len(first) : first[k] \in 1 .. n
  BY <1>2, CutsAscend
<1>4. \A k \in 1 .. Len(first) : EndOf(first, n, k) \in 1 .. n /\ first[k] <= EndOf(first, n, k)
  BY <1>2, PartsCover
<1>5. /\ DOMAIN eps = 1 .. Len(first)
      /\ \A k \in 1 .. Len(first) :
           /\ eps[k].start = rows[first[k]].at /\ eps[k].end = rows[EndOf(first, n, k)].at
           /\ eps[k].dur = Total(Dwells(rows), PartOf(first, n, k))
  BY DEF EpisodesOf
<1>6. \A i \in 1 .. n : Dwells(rows)[i] \in Nat
  <2>1. SUFFICES ASSUME NEW i \in 1 .. n PROVE Dwells(rows)[i] \in Nat
    OBVIOUS
  <2>2. Dwells(rows)[i] = Dwell(rows, i)
    BY <1>1 DEF Dwells
  <2>3. CASE i < n
    <3>1. i + 1 \in 1 .. n /\ i < i + 1
      BY <1>1, <2>3
    <3>2. rows[i + 1].at - rows[i].at \in Nat
      BY <1>1, <3>1
    <3>. QED BY <2>2, <3>2 DEF Dwell
  <2>4. CASE ~(i < n)
    BY <2>2, <2>4 DEF Dwell
  <2>. QED BY <2>3, <2>4
<1>. HIDE DEF first, n
<1>7. ASSUME NEW k \in 1 .. Len(first) PROVE Spans(eps[k])
  <2> DEFINE a == first[k]
             b == EndOf(first, n, k)
             P == PartOf(first, n, k)
             F == Dwells(rows)
  <2>1. a \in 1 .. n /\ b \in 1 .. n /\ a <= b /\ eps[k].start = rows[a].at /\ eps[k].end = rows[b].at
        /\ eps[k].dur = Total(F, P)
    BY <1>3, <1>4, <1>5
  <2>2. P \in SUBSET (1 .. n)
    BY <1>1, <2>1 DEF PartOf
  <2>3. IsFiniteSet(P)
    BY <1>1, <2>2, FirstNumbers, FS_Subset
  <2>4. AllNat(F, P)
    BY <1>6, <2>2 DEF AllNat
  <2>. HIDE DEF a, b, P, F
  <2>5. Total(F, P) \in Nat
    BY <2>3, <2>4, TotalOfNaturals
  <2>6. a = b \/ a < b
    BY <1>1, <2>1
  <2>7. rows[a].at \in Int /\ rows[b].at \in Int /\ rows[a].at <= rows[b].at
        /\ (rows[a].at < rows[b].at => Scale % (rows[b].at - rows[a].at) = 0)
    BY <1>1, <2>1, <2>6
  <2>. QED BY <2>1, <2>5, <2>7 DEF Spans
<1>8. Len(eps) # 0
  BY <1>3, <1>5
<1>. QED BY <1>5, <1>7, <1>8 DEF Series

-----------------------------------------------------------------------------
LEMMA MachineSeries ==
  ASSUME MachineInv, LogInv, HistoryInv, "state" \in DOMAIN ctx, ctx.state.segmentable
  PROVE  Series(ctx.state.episodes)
<1> DEFINE rows == MachineRows(frame, ctx.state)
           eps == ctx.state.episodes
<1>1. InTime(rows) /\ EpisodesOf(eps, rows) /\ Len(eps) \in Nat /\ DOMAIN eps = 1 .. Len(eps)
  BY MachineHasEpisodes DEF HistoryInv
<1>2. stage \notin Unloaded
  BY DEF MachineInv
<1>3. PICK n \in Nat : DOMAIN frame.at = 1 .. n
  BY <1>2, FrameTimesAscend DEF HistoryInv
<1>4. \A i, j \in DOMAIN frame.at : i < j => Scale % (frame.at[j] - frame.at[i]) = 0
  BY <1>2, FrameSpansDivide
<1>5. Dividing(rows)
  BY <1>3, <1>4, RowsSpansDivide DEF MachineRows
<1>. HIDE DEF rows, eps
<1>6. Series(eps)
  BY <1>1, <1>5, EpisodesAreSeries
<1>. QED BY <1>6 DEF eps

(* The four sums of a timeline. *)
LEMMA TimelineAddsUp ==
  ASSUME NEW eps, Series(eps)
  PROVE  LET segments == MergeRunBlocks(eps)
             running == {i \in DOMAIN segments : ~segments[i].idle}
             days == DailyRuntime(eps)
             sum == Summarize(eps)
         IN  /\ SumFunction([i \in DOMAIN segments |-> segments[i].dur]) = TotalDwell(eps)
             /\ SumFunction([d \in DOMAIN days |-> days[d].covered]) = Scale * TotalDwell(eps)
             /\ SumFunction([i \in running |-> Scale * segments[i].dur])
                  = SumFunction([d \in DOMAIN days |-> days[d].running])
             /\ SumFunction([s \in DOMAIN sum |-> sum[s].total]) = TotalDwell(eps)
<1> DEFINE segments == MergeRunBlocks(eps)
           running == {i \in DOMAIN segments : ~segments[i].idle}
           days == DailyRuntime(eps)
           sum == Summarize(eps)
           all == Total(Durations(eps), DOMAIN eps)
           work == Total(Durations(eps), Working(eps))
           G == [i \in DOMAIN segments |-> segments[i].dur]
           H == [i \in running |-> Scale * segments[i].dur]
           C == [d \in DOMAIN days |-> days[d].covered]
           R == [d \in DOMAIN days |-> days[d].running]
           T == [s \in DOMAIN sum |-> sum[s].total]
<1>1. TotalDwell(eps) = all
  BY DurationsAreNatural
<1>2. /\ Total(G, DOMAIN segments) = all /\ Total(G, running) = work
      /\ IsFiniteSet(DOMAIN segments) /\ Ints(G, DOMAIN segments)
  BY BlocksAddUp
<1>3. Total(T, DOMAIN sum) = all
  BY StatesAddUp
<1>4. /\ DOMAIN G = DOMAIN segments /\ DOMAIN H = running /\ DOMAIN C = DOMAIN days /\ DOMAIN R = DOMAIN days
      /\ DOMAIN T = DOMAIN sum
  OBVIOUS
<1>5. DOMAIN days = DaysWithData(eps)
  BY DaysAreTotalled
<1>6. Total(C, DOMAIN days) = Scale * all
  <2>1. \A d \in DaysWithData(eps) : C[d] = OnDay(eps, d, DOMAIN eps)
    BY <1>5, DaysAreTotalled
  <2>2. DOMAIN eps \in SUBSET DOMAIN eps
    OBVIOUS
  <2>. HIDE DEF C
  <2>3. Total(C, DaysWithData(eps)) = Scale * all
    BY <2>1, <2>2, DaysAddUp
  <2>. QED BY <1>5, <2>3
<1>7. Total(R, DOMAIN days) = Scale * work
  <2>1. \A d \in DaysWithData(eps) : R[d] = OnDay(eps, d, Working(eps))
    BY <1>5, DaysAreTotalled
  <2>2. Working(eps) \in SUBSET DOMAIN eps
    BY DEF Working
  <2>. HIDE DEF R
  <2>3. Total(R, DaysWithData(eps)) = Scale * work
    BY <2>1, <2>2, DaysAddUp
  <2>. QED BY <1>5, <2>3
<1>8. Total(H, running) = Scale * work
  <2>1. \A i \in running : H[i] = Scale * G[i]
    OBVIOUS
  <2>2. running \in SUBSET DOMAIN segments /\ Scale \in Int
    BY TimelineAssumption
  <2>. HIDE DEF H, G, running, segments
  <2>3. IsFiniteSet(running) /\ Ints(G, running)
    BY <1>2, <2>2, FS_Subset DEF Ints
  <2>4. Total(H, running) = Scale * Total(G, running)
    BY <2>1, <2>2, <2>3, TotalScaled
  <2>. QED BY <1>2, <2>4
<1>9. /\ SumFunction(G) = Total(G, DOMAIN segments) /\ SumFunction(H) = Total(H, running)
      /\ SumFunction(C) = Total(C, DOMAIN days) /\ SumFunction(R) = Total(R, DOMAIN days)
      /\ SumFunction(T) = Total(T, DOMAIN sum)
  <2>. HIDE DEF G, H, C, R, T, segments, running, days, sum
  <2>. QED BY <1>4, SumOverIsTotal
<1>. HIDE DEF G, H, C, R, T, all, work
<1>10. /\ SumFunction(G) = TotalDwell(eps) /\ SumFunction(C) = Scale * TotalDwell(eps)
       /\ SumFunction(H) = SumFunction(R) /\ SumFunction(T) = TotalDwell(eps)
  BY <1>1, <1>2, <1>3, <1>6, <1>7, <1>8, <1>9
<1>. QED BY <1>10 DEF G, H, C, R, T

(* No time is lost or counted twice: whatever history the frame holds and whatever
   bands density estimation may find, the episodes, the blocks they are merged
   into, the days they are spread over and the states they are summed by all add
   up to the same time. *)
THEOREM TimeIsNeitherLostNorGained == InsightSpec => []TimeIsConserved
<1>1. MachineInv /\ LogInv /\ HistoryInv => TimeIsConserved
  <2>1. SUFFICES ASSUME MachineInv, LogInv, HistoryInv, "timeline" \in DOMAIN ctx, ctx.state.segmentable
                 PROVE  TimeIsConserved
    BY DEF TimeIsConserved
  <2> DEFINE eps == ctx.state.episodes
  <2>2. "state" \in DOMAIN ctx /\ ctx.timeline = MachineTimeline(ctx.state)
    BY <2>1 DEF MachineInv
  <2>3. Series(eps) /\ ctx.state.summary = Summarize(eps)
    BY <2>1, <2>2, MachineSeries, MachineHasEpisodes DEF HistoryInv
  <2>4. eps # <<>>
    BY <2>3 DEF Series
  <2>5. ctx.timeline.segments = MergeRunBlocks(eps) /\ ctx.timeline.runtime = {RuntimeRollup(eps)}
    BY <2>1, <2>2, <2>4 DEF MachineTimeline
  <2>6. RuntimeRollup(eps).days = DailyRuntime(eps)
    BY DEF RuntimeRollup
  <2>7. (CHOOSE r \in ctx.timeline.runtime : TRUE).days = DailyRuntime(eps)
    <3>. HIDE DEF eps
    <3>. QED BY <2>5, <2>6
  <2>. HIDE DEF eps
  <2>8. LET segments == MergeRunBlocks(eps)
            running == {i \in DOMAIN segments : ~segments[i].idle}
            days == DailyRuntime(eps)
            sum == Summarize(eps)
        IN  /\ SumFunction([i \in DOMAIN segments |-> segments[i].dur]) = TotalDwell(eps)
            /\ SumFunction([d \in DOMAIN days |-> days[d].covered]) = Scale * TotalDwell(eps)
            /\ SumFunction([i \in running |-> Scale * segments[i].dur])
                 = SumFunction([d \in DOMAIN days |-> days[d].running])
            /\ SumFunction([s \in DOMAIN sum |-> sum[s].total]) = TotalDwell(eps)
    BY <2>3, TimelineAddsUp
  <2>. QED BY <2>3, <2>5, <2>7, <2>8, Zenon DEF TimeIsConserved, SumOver, eps
<1>. QED BY <1>1, MachineIsAnalysed, LogsAreWritten, HistoriesAreRead, PTL

-----------------------------------------------------------------------------
(* What the rules conclude, and that the evaluator concludes all of it. *)

Level == CHOOSE l \in [Rules -> 1 .. MaxIterations] : \A q, r \in Rules : q.type \in r.required => l[q] < l[r]
Identities(S) == {Identity(f) : f \in S}
Concluded(r, t) == <<r.type, r.scope, t>>
Fires(r, t, S) == Applies(r, Class) /\ ~Blocked(r, S) /\ t \in Targets(r, S)

LEMMA RulesHaveLevels ==
  /\ \A r \in Rules : Level[r] \in 1 .. MaxIterations
  /\ \A q, r \in Rules : q.type \in r.required => Level[q] < Level[r]
<1>1. \E l \in [Rules -> 1 .. MaxIterations] : \A q, r \in Rules : q.type \in r.required => l[q] < l[r]
  BY RulesAreLayered
<1>2. Level \in [Rules -> 1 .. MaxIterations] /\ \A q, r \in Rules : q.type \in r.required => Level[q] < Level[r]
  BY <1>1 DEF Level
<1>. QED BY <1>2

(* Of any rules one comes first. *)
LEMMA FirstRuleExists ==
  ASSUME NEW S \in SUBSET Rules
  PROVE  S = {} \/ \E q \in S : \A p \in S \ {q} : Before(q, p)
<1> DEFINE Led(T) == T = {} \/ \E q \in T : \A p \in T \ {q} : Before(q, p)
           Fine == {T \in SUBSET S : Led(T)}
<1>1. IsFiniteSet(S)
  BY FindingsAssumption, FS_Subset
<1>2. \A q, p \in S : q = p \/ Before(q, p) \/ Before(p, q)
  BY FindingsAssumption DEF Before
<1>3. \A q, p, r \in S : Before(q, p) /\ Before(p, r) => Before(q, r)
  BY FindingsAssumption DEF Before
<1>4. ASSUME NEW T \in SUBSET S, \A U \in SUBSET T : U # T => U \in Fine
      PROVE  T \in Fine
  <2>1. SUFFICES ASSUME T # {} PROVE Led(T)
    OBVIOUS
  <2>2. PICK x \in T : TRUE
    BY <2>1
  <2>3. T \ {x} \in SUBSET T /\ T \ {x} # T /\ x \in S
    BY <2>2
  <2>4. Led(T \ {x})
    BY <1>4, <2>3
  <2>5. CASE T \ {x} = {}
    BY <2>2, <2>5
  <2>6. CASE T \ {x} # {}
    <3>1. PICK q \in T \ {x} : \A p \in (T \ {x}) \ {q} : Before(q, p)
      BY <2>4, <2>6
    <3>2. CASE Before(q, x)
      <4>1. \A p \in T \ {q} : Before(q, p)
        BY <3>1, <3>2
      <4>. QED BY <3>1, <4>1
    <3>3. CASE Before(x, q)
      <4>1. \A p \in T \ {x} : Before(x, p)
        BY <1>3, <2>2, <2>3, <3>1, <3>3
      <4>. QED BY <2>2, <4>1
    <3>. QED BY <1>2, <2>3, <3>1, <3>2, <3>3
  <2>. QED BY <2>5, <2>6
<1>. HIDE DEF Fine
<1>5. S \in Fine
  BY <1>1, <1>4, BySize
<1>. QED BY <1>5 DEF Fine

LEMMA WhatFiresIsConcluded ==
  ASSUME NEW S, NEW trust
  PROVE  /\ \A d \in Conclusions(S, Class, trust) : \E r \in Rules : \E t :
              Fires(r, t, S) /\ Identity(d) = Concluded(r, t) /\ d.type = r.type /\ d.scope = r.scope /\ d.target = t
         /\ \A r \in Rules : \A t : Fires(r, t, S) => Concluded(r, t) \in Identities(Conclusions(S, Class, trust))
<1> DEFINE fires == {r \in Rules : Applies(r, Class) /\ ~Blocked(r, S)}
           First(r, t) == \A q \in fires \ {r} :
             (q.type = r.type /\ q.scope = r.scope /\ t \in Targets(q, S)) => Before(r, q)
           C == Conclusions(S, Class, trust)
<1>1. \A d : d \in C <=> \E r \in fires : \E t \in Targets(r, S) : First(r, t) /\ d = Diagnose(r, t, S, trust)
  BY DEF Conclusions
<1>2. \A r, t : LET d == Diagnose(r, t, S, trust)
                IN  Identity(d) = Concluded(r, t) /\ d.type = r.type /\ d.scope = r.scope /\ d.target = t
  BY DEF Diagnose, Identity, Concluded
<1>3. ASSUME NEW d \in C
      PROVE  \E r \in Rules : \E t :
               Fires(r, t, S) /\ Identity(d) = Concluded(r, t) /\ d.type = r.type /\ d.scope = r.scope /\ d.target = t
  <2>1. PICK r \in fires : \E t \in Targets(r, S) : First(r, t) /\ d = Diagnose(r, t, S, trust)
    BY <1>1, <1>3
  <2>2. PICK t \in Targets(r, S) : First(r, t) /\ d = Diagnose(r, t, S, trust)
    BY <2>1
  <2>3. Fires(r, t, S) /\ r \in Rules
    BY <2>2 DEF Fires
  <2>. QED BY <1>2, <2>2, <2>3
<1>4. ASSUME NEW r \in Rules, NEW t, Fires(r, t, S) PROVE Concluded(r, t) \in Identities(C)
  <2> DEFINE T == {q \in fires : q.type = r.type /\ q.scope = r.scope /\ t \in Targets(q, S)}
  <2>1. r \in T /\ T \in SUBSET Rules
    BY <1>4 DEF Fires
  <2>2. PICK q \in T : \A p \in T \ {q} : Before(q, p)
    BY <2>1, FirstRuleExists
  <2>3. First(q, t) /\ q \in fires /\ t \in Targets(q, S)
    BY <2>2
  <2>4. Diagnose(q, t, S, trust) \in C
    BY <1>1, <2>3
  <2>5. Concluded(q, t) = Concluded(r, t)
    BY <2>2 DEF Concluded
  <2>. QED BY <1>2, <2>4, <2>5 DEF Identities
<1>. QED BY <1>3, <1>4

(* A rule that fires goes on firing as findings are added. *)
LEMMA FiringStays ==
  ASSUME NEW S, NEW T, S \subseteq T, \A f \in T \ S : \E q \in Rules : f.type = q.type,
         NEW r \in Rules, NEW t, Fires(r, t, S)
  PROVE  Fires(r, t, T)
<1>1. ~Blocked(r, T)
  <2>1. \A f \in S : f.type \notin r.excluded
    BY DEF Fires, Blocked, TypesOf
  <2>2. \A f \in T \ S : f.type \notin r.excluded
    BY RulesAreLayered
  <2>. QED BY <2>1, <2>2 DEF Blocked, TypesOf
<1>2. t \in Targets(r, T)
  <2>1. t \in (IF r.scope = "sensor" THEN {f.target : f \in S} ELSE {Unit})
        /\ r.required \subseteq TypesOf(Located(r, t, S))
    BY DEF Fires, Targets
  <2>2. Located(r, t, S) \subseteq Located(r, t, T)
    BY DEF Located
  <2>3. TypesOf(Located(r, t, S)) \subseteq TypesOf(Located(r, t, T))
    BY <2>2 DEF TypesOf
  <2>. QED BY <2>1, <2>3 DEF Targets
<1>. QED BY <1>1, <1>2 DEF Fires

\* All that the rules up to a level conclude from S is among D.
Filled(n, S, D) == \A r \in Rules : \A t : (Level[r] <= n /\ Fires(r, t, S)) => Concluded(r, t) \in Identities(D)

LEMMA PassFillsALevel ==
  ASSUME NEW base, NEW produced, NEW trust, NEW n \in Nat, Filled(n, base \cup produced, produced)
  PROVE  LET after == RulePass(base, produced, Class, trust) IN Filled(n + 1, base \cup after, after)
<1> DEFINE S == base \cup produced
           C == Conclusions(S, Class, trust)
           after == RulePass(base, produced, Class, trust)
           T == base \cup after
<1>1. after = produced \cup {f \in C : \A g \in produced : Identity(g) # Identity(f)}
  BY DEF RulePass
<1>2. \A d \in C : \E r \in Rules : \E t :
        Fires(r, t, S) /\ Identity(d) = Concluded(r, t) /\ d.type = r.type /\ d.scope = r.scope /\ d.target = t
  BY WhatFiresIsConcluded
<1>3. \A r \in Rules : \A t : Fires(r, t, S) => Concluded(r, t) \in Identities(C)
  BY WhatFiresIsConcluded
<1>. HIDE DEF C, after
<1>4. Identities(C) \subseteq Identities(after)
  BY <1>1 DEF Identities
<1>5. \A r \in Rules : Level[r] \in Int
  BY RulesHaveLevels, PipelineAssumption
<1>6. ASSUME NEW r \in Rules, NEW t, Level[r] <= n + 1, Fires(r, t, T)
      PROVE  Concluded(r, t) \in Identities(after)
  <2>1. ASSUME NEW f \in T, f.type \in r.required PROVE f \in S
    <3>1. SUFFICES ASSUME f \notin S PROVE FALSE
      OBVIOUS
    <3>2. f \in C /\ \A g \in produced : Identity(g) # Identity(f)
      BY <1>1, <3>1
    <3>3. PICK q \in Rules : \E x : Fires(q, x, S) /\ Identity(f) = Concluded(q, x) /\ f.type = q.type
      BY <1>2, <3>2
    <3>4. PICK x : Fires(q, x, S) /\ Identity(f) = Concluded(q, x)
      BY <3>3
    <3>5. Level[q] < Level[r]
      BY <2>1, <3>3, RulesHaveLevels
    <3>6. Level[q] <= n
      BY <1>5, <1>6, <3>5
    <3>7. Concluded(q, x) \in Identities(produced)
      BY <3>4, <3>6 DEF Filled
    <3>. QED BY <3>2, <3>4, <3>7 DEF Identities
  <2>2. Applies(r, Class) /\ ~Blocked(r, T)
        /\ t \in (IF r.scope = "sensor" THEN {f.target : f \in T} ELSE {Unit})
        /\ r.required \subseteq TypesOf(Located(r, t, T))
    BY <1>6 DEF Fires, Targets
  <2>3. ~Blocked(r, S)
    BY <1>1, <2>2 DEF Blocked, TypesOf
  <2>4. r.required \subseteq TypesOf(Located(r, t, S))
    <3>1. SUFFICES ASSUME NEW y \in r.required PROVE \E f \in Located(r, t, S) : f.type = y
      BY DEF TypesOf
    <3>2. PICK f \in Located(r, t, T) : f.type = y
      BY <2>2 DEF TypesOf
    <3>3. f \in T
      BY DEF Located
    <3>4. f \in S
      BY <2>1, <3>2, <3>3
    <3>5. f \in Located(r, t, S)
      BY <3>4 DEF Located
    <3>. QED BY <3>2, <3>5
  <2>5. t \in (IF r.scope = "sensor" THEN {f.target : f \in S} ELSE {Unit})
    <3>1. CASE r.scope = "sensor"
      <4>1. PICK y \in r.required : TRUE
        BY FindingsAssumption
      <4>2. PICK f \in Located(r, t, S) : f.type = y
        BY <2>4, <4>1 DEF TypesOf
      <4>3. f \in S /\ f.target = t
        BY <3>1, <4>2 DEF Located
      <4>. QED BY <3>1, <4>3
    <3>2. CASE r.scope # "sensor"
      BY <2>2, <3>2
    <3>. QED BY <3>1, <3>2
  <2>6. Fires(r, t, S)
    BY <2>2, <2>3, <2>4, <2>5 DEF Fires, Targets
  <2>. QED BY <1>3, <1>4, <2>6
<1>. QED BY <1>6 DEF Filled, after

\* Every diagnosis is what a rule concludes from what is there.
Backed(S, D) == \A d \in D : \E r \in Rules : \E t : Fires(r, t, S) /\ Identity(d) = Concluded(r, t)

LEMMA PassKeepsBacked ==
  ASSUME NEW base, NEW produced, NEW trust, Backed(base \cup produced, produced)
  PROVE  LET after == RulePass(base, produced, Class, trust) IN Backed(base \cup after, after)
<1> DEFINE S == base \cup produced
           C == Conclusions(S, Class, trust)
           after == RulePass(base, produced, Class, trust)
           T == base \cup after
<1>1. after = produced \cup {f \in C : \A g \in produced : Identity(g) # Identity(f)}
  BY DEF RulePass
<1>2. \A d \in C : \E r \in Rules : \E t : Fires(r, t, S) /\ Identity(d) = Concluded(r, t) /\ d.type = r.type
  BY WhatFiresIsConcluded
<1>. HIDE DEF C, after
<1>3. S \subseteq T /\ \A f \in T \ S : \E q \in Rules : f.type = q.type
  BY <1>1, <1>2
<1>4. \A d \in after : \E r \in Rules : \E t : Fires(r, t, S) /\ Identity(d) = Concluded(r, t)
  BY <1>1, <1>2 DEF Backed
<1>5. \A r \in Rules : \A t : Fires(r, t, S) => Fires(r, t, T)
  BY <1>3, FiringStays
<1>6. Backed(T, after)
  BY <1>4, <1>5 DEF Backed
<1>. QED BY <1>6 DEF after

\* The diagnoses are what the rules conclude, and before the last iteration all that
\* the rules up to the level of the iteration do.
CompleteInv ==
  /\ stage = "rules" => Filled(iteration, Conclusive, diagnoses)
  /\ stage \in Told => Filled(MaxIterations, Conclusive, diagnoses)
  /\ stage \in PastAssembly => Backed(Conclusive, diagnoses)

LEMMA LevelsAreBelowTheBound == MaxIterations \in Nat /\ \A r \in Rules : Level[r] \in Int /\ 1 <= Level[r] /\ Level[r] <= MaxIterations
<1>1. MaxIterations \in Nat
  BY PipelineAssumption
<1>2. \A r \in Rules : Level[r] \in 1 .. MaxIterations
  BY RulesHaveLevels
<1>. QED BY <1>1, <1>2

LEMMA QuietPassFillsAll ==
  ASSUME NEW base, NEW produced, NEW trust, RulePass(base, produced, Class, trust) = produced
  PROVE  Filled(MaxIterations, base \cup produced, produced)
<1> DEFINE S == base \cup produced
           C == Conclusions(S, Class, trust)
<1>1. \A f \in C : (\A g \in produced : Identity(g) # Identity(f)) => f \in produced
  BY DEF RulePass
<1>2. \A r \in Rules : \A t : Fires(r, t, S) => Concluded(r, t) \in Identities(C)
  BY WhatFiresIsConcluded
<1>. HIDE DEF C
<1>3. Identities(C) \subseteq Identities(produced)
  BY <1>1 DEF Identities
<1>. QED BY <1>2, <1>3 DEF Filled

LEMMA EvaluationFills ==
  ASSUME CountInv, Evaluate, Filled(iteration, Conclusive, diagnoses), Backed(Conclusive, diagnoses)
  PROVE  CompleteInv'
<1>1. /\ diagnoses' = RulePass(findings, diagnoses, Class, RuleTrust)
      /\ iteration' = iteration + 1 /\ findings' = findings /\ stage = "rules"
      /\ stage' = IF diagnoses' = diagnoses \/ iteration' = MaxIterations THEN "done" ELSE "rules"
  BY DEF Evaluate
<1>2. iteration \in Nat
  BY PipelineAssumption DEF CountInv
<1>3. Filled(iteration + 1, findings \cup diagnoses', diagnoses')
  BY <1>1, <1>2, PassFillsALevel DEF Conclusive
<1>4. Backed(findings \cup diagnoses', diagnoses')
  BY <1>1, PassKeepsBacked DEF Conclusive
<1>5. CASE diagnoses' = diagnoses
  <2>1. Filled(MaxIterations, findings \cup diagnoses, diagnoses)
    BY <1>1, <1>5, QuietPassFillsAll
  <2>. QED BY <1>1, <1>4, <1>5, <2>1 DEF CompleteInv, Conclusive
<1>6. CASE diagnoses' # diagnoses /\ iteration' = MaxIterations
  BY <1>1, <1>3, <1>4, <1>6 DEF CompleteInv, Conclusive
<1>7. CASE diagnoses' # diagnoses /\ iteration' # MaxIterations
  BY <1>1, <1>3, <1>4, <1>7 DEF CompleteInv, Conclusive, Told
<1>. QED BY <1>5, <1>6, <1>7

LEMMA LevelsAreFilled == InsightSpec => []CompleteInv
<1>1. InsightInit => CompleteInv
  BY DEF InsightInit, CompleteInv, Told, PastAssembly
<1>2. CompleteInv /\ CountInv /\ ChainInv /\ [InsightNext]_insightVars => CompleteInv'
  <2>1. SUFFICES ASSUME CompleteInv, CountInv, ChainInv, [InsightNext]_insightVars PROVE CompleteInv'
    OBVIOUS
  <2>2. CASE stage' \notin PastAssembly
    BY <2>2 DEF CompleteInv, PastAssembly, Told
  <2>3. CASE UNCHANGED <<findings, diagnoses, iteration>> /\ (stage' = stage \/ (stage \in Told /\ stage' \in Told))
    BY <2>1, <2>3 DEF CompleteInv, Conclusive, PastAssembly, Told
  <2>4. CASE Assemble
    <3>1. stage = "findings" /\ stage' = "rules" /\ diagnoses' = diagnoses /\ iteration' = iteration
      BY <2>4 DEF Assemble
    <3>2. iteration' = 0 /\ diagnoses' = {}
      BY <2>1, <3>1 DEF CountInv, ChainInv, PastAssembly, Told
    <3>3. \A S : Filled(0, S, diagnoses') /\ Backed(S, diagnoses')
      BY <3>2, LevelsAreBelowTheBound DEF Filled, Backed
    <3>. QED BY <3>1, <3>2, <3>3 DEF CompleteInv, Conclusive, Told
  <2>5. CASE Evaluate
    <3>1. stage = "rules"
      BY <2>5 DEF Evaluate
    <3>2. Filled(iteration, Conclusive, diagnoses) /\ Backed(Conclusive, diagnoses)
      BY <2>1, <3>1 DEF CompleteInv, PastAssembly
    <3>. QED BY <2>1, <2>5, <3>2, EvaluationFills
  <2>. USE DEF PastAssembly, Told
  <2>6. CASE Seed \/ SeedFails \/ Load
    BY <2>2, <2>6 DEF Seed, SeedFails, Load
  <2>7. CASE Post
    BY <2>3, <2>7 DEF Post, runVars
  <2>8. CASE Quality \/ Statistics \/ State \/ Envelope \/ Threshold \/ TimelineOf \/ Reliability \/ HealthOf
    BY <2>2, <2>8 DEF Quality, Statistics, State, Envelope, Threshold, TimelineOf, Reliability, HealthOf, Engine
  <2>9. CASE SkipLearning \/ LearnPatterns \/ LearnForecasts
    BY <2>3, <2>9 DEF SkipLearning, LearnPatterns, LearnForecasts, runVars
  <2>10. CASE ShowOutlook \/ Ask \/ ShowTelemetry
    BY <2>3, <2>10 DEF ShowOutlook, Ask, ShowTelemetry, runVars
  <2>11. CASE UNCHANGED insightVars
    BY <2>3, <2>11 DEF insightVars, vars
  <2>. QED BY <2>1, <2>4, <2>5, <2>6, <2>7, <2>8, <2>9, <2>10, <2>11 DEF InsightNext, PipelineStep, Next
<1>. QED BY <1>1, <1>2, StagesAreCounted, ChainsFollowRules, PTL DEF InsightSpec

(* The evaluator never stops early, and never for its bound: when it ends, it has concluded
   all that the rules conclude from what is there, and nothing else. *)
THEOREM NothingIsLeftUnconcluded == InsightSpec => []RulesAreComplete
<1>1. CompleteInv /\ ChainInv => RulesAreComplete
  <2>1. SUFFICES ASSUME CompleteInv, ChainInv, stage = "done"
        PROVE  Identities(diagnoses) = Identities(Conclusions(Conclusive, Class, RuleTrust)) /\ ChainsAreGrounded
    BY DEF RulesAreComplete, Identities
  <2> DEFINE C == Conclusions(Conclusive, Class, RuleTrust)
  <2>2. Filled(MaxIterations, Conclusive, diagnoses) /\ Backed(Conclusive, diagnoses)
    BY <2>1 DEF CompleteInv, PastAssembly, Told
  <2>3. /\ \A d \in C : \E r \in Rules : \E t : Fires(r, t, Conclusive) /\ Identity(d) = Concluded(r, t)
        /\ \A r \in Rules : \A t : Fires(r, t, Conclusive) => Concluded(r, t) \in Identities(C)
    BY WhatFiresIsConcluded
  <2>. HIDE DEF C
  <2>4. Identities(diagnoses) \subseteq Identities(C)
    BY <2>2, <2>3 DEF Backed, Identities
  <2>5. \A r \in Rules : \A t : Fires(r, t, Conclusive) => Concluded(r, t) \in Identities(diagnoses)
    BY <2>2, LevelsAreBelowTheBound DEF Filled
  <2>6. Identities(C) \subseteq Identities(diagnoses)
    BY <2>3, <2>5 DEF Identities
  <2>7. ChainsAreGrounded
    BY <2>1 DEF ChainInv, Grounded, ChainsAreGrounded, Conclusive
  <2>. QED BY <2>4, <2>6, <2>7 DEF C
<1>. QED BY <1>1, LevelsAreFilled, ChainsFollowRules, PTL

-----------------------------------------------------------------------------
(* The trust in a sensor is never zero, so that no level is without weight: a score of
   zero needs a fault code at nearly every reading, and then the quartiles are equal and
   the gate calls nothing a fault code. *)

Under(s, v) == {i \in DOMAIN s : s[i] < v}
NotOver(s, v) == {i \in DOMAIN s : s[i] <= v}
Same(s, v) == {i \in DOMAIN s : s[i] = v}
Numeric(s, n) == DOMAIN s = 1 .. n /\ Len(s) = n /\ \A i \in 1 .. n : s[i] \in Int

LEMMA PlacesAreCounted ==
  ASSUME NEW s, NEW n \in Nat, Numeric(s, n), NEW v \in Int
  PROVE  /\ IsFiniteSet(Under(s, v)) /\ IsFiniteSet(NotOver(s, v)) /\ IsFiniteSet(Same(s, v))
         /\ Cardinality(Under(s, v)) \in 0 .. n /\ Cardinality(NotOver(s, v)) \in 0 .. n
         /\ Cardinality(Same(s, v)) \in 0 .. n
         /\ Cardinality(Under(s, v)) <= n - Cardinality(Same(s, v))
         /\ Cardinality(Same(s, v)) <= Cardinality(NotOver(s, v))
<1>1. /\ Under(s, v) \in SUBSET (1 .. n) /\ NotOver(s, v) \in SUBSET (1 .. n) /\ Same(s, v) \in SUBSET (1 .. n)
      /\ Same(s, v) \in SUBSET NotOver(s, v) /\ Under(s, v) \cap Same(s, v) = {}
  BY DEF Numeric, Under, NotOver, Same
<1>2. IsFiniteSet(1 .. n) /\ Cardinality(1 .. n) = n
  BY FirstNumbers
<1>3. IsFiniteSet(Under(s, v)) /\ IsFiniteSet(NotOver(s, v)) /\ IsFiniteSet(Same(s, v))
  BY <1>1, <1>2, FS_Subset
<1>4. Cardinality(Under(s, v)) \in 0 .. n /\ Cardinality(NotOver(s, v)) \in 0 .. n /\ Cardinality(Same(s, v)) \in 0 .. n
  BY <1>1, CountIsBounded
<1>5. Cardinality(Same(s, v)) <= Cardinality(NotOver(s, v))
  BY <1>1, <1>3, FS_Subset
<1>6. Cardinality(Under(s, v)) <= n - Cardinality(Same(s, v))
  <2> DEFINE A == Under(s, v)
             B == Same(s, v)
  <2>1. IsFiniteSet(A \cup B) /\ Cardinality(A \cup B) = Cardinality(A) + Cardinality(B) - Cardinality(A \cap B)
    BY <1>3, FS_Union
  <2>2. Cardinality(A \cap B) = 0
    BY <1>1, FS_EmptySet
  <2>3. A \cup B \in SUBSET (1 .. n)
    BY <1>1
  <2>4. Cardinality(A \cup B) <= n
    BY <1>2, <2>3, FS_Subset
  <2>. QED BY <1>4, <2>1, <2>2, <2>4
<1>. QED BY <1>3, <1>4, <1>5, <1>6

(* A value that is there often enough is at every place in the middle of the order. *)
LEMMA FrequentIsInTheMiddle ==
  ASSUME NEW s, NEW n \in Nat, Numeric(s, n), NEW v \in Int, NEW m \in 1 .. n,
         n - Cardinality(Same(s, v)) < m, m <= Cardinality(Same(s, v))
  PROVE  Sorted(s)[m] = v
<1> DEFINE Fit(u) == Cardinality(Under(s, u)) < m /\ m <= Cardinality(NotOver(s, u))
<1>1. Sorted(s)[m] = CHOOSE u \in ToSet(s) : Fit(u)
  BY DEF Numeric, Sorted, Under, NotOver
<1>2. /\ Cardinality(Under(s, v)) \in 0 .. n /\ Cardinality(NotOver(s, v)) \in 0 .. n
      /\ Cardinality(Same(s, v)) \in 0 .. n
      /\ Cardinality(Under(s, v)) <= n - Cardinality(Same(s, v))
      /\ Cardinality(Same(s, v)) <= Cardinality(NotOver(s, v))
  BY PlacesAreCounted
<1>3. Fit(v)
  BY <1>2
<1>4. v \in ToSet(s)
  <2>1. Same(s, v) # {}
    <3>1. Cardinality(Same(s, v)) # 0
      BY <1>2
    <3>. QED BY <3>1, FS_EmptySet
  <2>2. PICK i \in DOMAIN s : s[i] = v
    BY <2>1 DEF Same
  <2>. QED BY <2>2 DEF ToSet
<1>5. ASSUME NEW x \in Int, NEW y \in Int, x < y PROVE Cardinality(NotOver(s, x)) <= Cardinality(Under(s, y))
  <2>1. NotOver(s, x) \in SUBSET Under(s, y)
    BY <1>5 DEF Numeric, NotOver, Under
  <2>2. IsFiniteSet(Under(s, y))
    BY PlacesAreCounted
  <2>. QED BY <2>1, <2>2, FS_Subset
<1>6. ASSUME NEW u \in ToSet(s), Fit(u) PROVE u = v
  <2>1. u \in Int
    BY DEF Numeric, ToSet
  <2>2. Cardinality(Under(s, u)) \in 0 .. n /\ Cardinality(NotOver(s, u)) \in 0 .. n
    BY <2>1, PlacesAreCounted
  <2>3. CASE u < v
    <3>1. Cardinality(NotOver(s, u)) <= Cardinality(Under(s, v))
      BY <1>5, <2>1, <2>3
    <3>. QED BY <1>2, <1>3, <1>6, <2>2, <3>1
  <2>4. CASE v < u
    <3>1. Cardinality(NotOver(s, v)) <= Cardinality(Under(s, u))
      BY <1>5, <2>1, <2>4
    <3>. QED BY <1>2, <1>3, <1>6, <2>2, <3>1
  <2>. QED BY <2>1, <2>3, <2>4
<1>. HIDE DEF Fit
<1>. QED BY <1>1, <1>3, <1>4, <1>6

\* The k-th quartile lies between two places of the order.
LEMMA QuartileIsInTheMiddle ==
  ASSUME NEW s, NEW n \in Nat \ {0}, Numeric(s, n), NEW v \in Int, NEW k \in {1, 3},
         500 * (n - Cardinality(Same(s, v))) < n
  PROVE  Quantile(s, k, 4) = 4 * v
<1> DEFINE t == Sorted(s)
           c == Cardinality(Same(s, v))
           four == 4
           pos == k * (n - 1)
           q == pos \div four
           r == pos % four
           i == q + 1
           j == IF i < n THEN i + 1 ELSE i
<1>1. c \in 0 .. n
  BY PlacesAreCounted
<1>2. Len(s) = n /\ Len(t) = n
  <2> DEFINE Entry(m) == CHOOSE u \in ToSet(s) : Cardinality({x \in DOMAIN s : s[x] < u}) < m
                                              /\ m <= Cardinality({x \in DOMAIN s : s[x] <= u})
  <2>1. t = [m \in DOMAIN s |-> Entry(m)]
    BY DEF Sorted
  <2>. HIDE DEF t, At
  <2>2. t = [m \in 1 .. n |-> Entry(m)]
    BY <2>1 DEF Numeric
  <2>. QED BY <2>2 DEF Numeric
<1>3. Quantile(s, k, 4) = (4 - r) * t[i] + r * t[j]
  <2>. HIDE DEF t
  <2>. QED BY <1>2 DEF Quantile, t
<1>. HIDE DEF t, c
<1>4. q \in Int /\ r \in 0 .. 3 /\ pos = 4 * q + r
  <2>1. pos \in Int /\ four \in Nat /\ four > 0
    OBVIOUS
  <2>. HIDE DEF pos, four
  <2>2. PICK x \in Int, d \in 0 .. four - 1 : pos = four * x + d /\ x = pos \div four /\ d = pos % four
    BY <2>1, Division
  <2>. QED BY <2>2 DEF four
<1>5. 500 * (n - c) < n
  BY DEF c
<1>6. 4 * q + r = n - 1 \/ 4 * q + r = 3 * (n - 1)
  BY <1>4
<1>. HIDE DEF q, r
<1>7. i \in 1 .. n /\ j \in 1 .. n /\ n - c < i /\ i <= j /\ j <= c
  BY <1>1, <1>4, <1>5, <1>6
<1>. HIDE DEF i, j
<1>8. t[i] = v /\ t[j] = v
  <2>1. n - c < i /\ i <= c /\ n - c < j /\ j <= c
    BY <1>1, <1>7
  <2>. QED BY <1>7, <2>1, FrequentIsInTheMiddle DEF t, c
<1>9. (4 - r) * v + r * v = 4 * v
  BY <1>4
<1>. QED BY <1>3, <1>8, <1>9

LEMMA FaultCodesAreRare ==
  ASSUME NEW s, NEW n \in Nat \ {0}, Numeric(s, n), NEW f \in FaultCounts(s)
  PROVE  f \in 0 .. n /\ n <= 500 * (n - f)
<1>1. Len(s) = n /\ s # <<>>
  BY DEF Numeric
<1>2. PICK v \in Modes(s) : f = IF IsFaultCode(s, v) THEN Repeats(s, v) ELSE 0
  BY <1>1 DEF FaultCounts
<1>3. v \in Int
  BY DEF Modes, ToSet, Numeric
<1>4. Repeats(s, v) = Cardinality(Same(s, v))
  BY DEF Repeats, Count, Same
<1>5. Cardinality(Same(s, v)) \in 0 .. n
  BY <1>3, PlacesAreCounted
<1>6. CASE ~IsFaultCode(s, v)
  BY <1>2, <1>6
<1>7. CASE IsFaultCode(s, v)
  <2>1. Quantile(s, 3, 4) - Quantile(s, 1, 4) # 0
    BY <1>7 DEF IsFaultCode
  <2>2. SUFFICES ASSUME 500 * (n - Cardinality(Same(s, v))) < n PROVE FALSE
    BY <1>2, <1>4, <1>5, <1>7
  <2>3. \A k \in {1, 3} : Quantile(s, k, 4) = 4 * v
    BY <1>3, <2>2, QuartileIsInTheMiddle
  <2>. QED BY <1>3, <2>1, <2>3
<1>. QED BY <1>6, <1>7

LEMMA RoundsUp ==
  ASSUME NEW a \in Int, NEW b \in Int, b > 0, b <= 2 * a
  PROVE  1 <= RoundDiv(a, b)
<1> DEFINE q == (2 * a + b) \div (2 * b)
           r == (2 * a + b) % (2 * b)
<1>1. q \in Int /\ r \in 0 .. 2 * b - 1 /\ 2 * a + b = (2 * b) * q + r
  OBVIOUS
<1>2. RoundDiv(a, b) = q
  BY DEF RoundDiv
<1>. HIDE DEF q, r
<1>3. 1 <= q
  <2>1. SUFFICES ASSUME q <= 0 PROVE FALSE
    BY <1>1
  <2>2. (2 * b) * q <= 0
    BY <1>1, <2>1
  <2>. QED BY <1>1, <2>2
<1>. QED BY <1>2, <1>3

LEMMA ScoreIsPositive ==
  ASSUME NEW total \in Int, NEW flat \in Int, NEW fault \in Int, NEW valid \in Int,
         total > 0, valid \in 0 .. total, flat \in 0 .. valid, fault \in 0 .. valid, valid <= 500 * (valid - fault)
  PROVE  1 <= Score(total - valid, total, flat, fault, valid)
<1> DEFINE n == IF valid = 0 THEN 1 ELSE valid
           b == total * n
           x == (total - (total - valid)) * n
           y == total * (n - flat)
           z == total * (n - fault)
           a == 400 * x + 350 * y + 250 * z
<1>1. n \in Int /\ n > 0 /\ flat \in 0 .. n /\ fault \in 0 .. n /\ n <= 500 * (n - fault)
  OBVIOUS
<1>2. Score(total - valid, total, flat, fault, valid) = RoundDiv(a, b)
  <2>1. \A c \in Int : /\ c * total * (n - flat) = c * (total * (n - flat))
                       /\ c * total * (n - fault) = c * (total * (n - fault))
                       /\ c * (total - (total - valid)) * n = c * ((total - (total - valid)) * n)
    BY <1>1
  <2>. QED BY <2>1 DEF Score
<1>. HIDE DEF n
<1>3. ASSUME NEW p \in Int, NEW q \in Int, 0 <= p, 0 <= q PROVE p * q \in Int /\ 0 <= p * q
  BY <1>3
<1>4. b \in Int /\ b > 0
  BY <1>1
<1>5. x \in Int /\ 0 <= x /\ y \in Int /\ 0 <= y
  <2>1. total - (total - valid) = valid
    OBVIOUS
  <2>2. n - flat \in Int /\ 0 <= n - flat
    BY <1>1
  <2>. QED BY <1>1, <1>3, <2>1, <2>2
<1>6. z \in Int /\ b <= 500 * z
  <2>1. n - fault \in Int
    BY <1>1
  <2>2. total * n <= total * (500 * (n - fault))
    BY <1>1, <2>1
  <2>3. total * (500 * (n - fault)) = 500 * (total * (n - fault))
    BY <2>1
  <2>. QED BY <2>1, <2>2, <2>3
<1>. HIDE DEF b, x, y, z
<1>7. a \in Int /\ b <= 2 * a
  BY <1>4, <1>5, <1>6
<1>. HIDE DEF a
<1>. QED BY <1>2, <1>4, <1>7, RoundsUp

LEMMA TrustIsPositive ==
  ASSUME NEW s, NEW score \in Int, 1 <= score
  PROVE  1 <= SensorConfidence(score, s)
<1> DEFINE Found == {x \in {"drift", "spikes", "noise"} :
                  \/ x = "drift" /\ Drifts(s)
                  \/ x = "spikes" /\ 100 * Spikes(s) > Len(s)
                  \/ x = "noise" /\ Noisy(s)}
           osc == IF Oscillates(s) THEN 95 ELSE 100
           t == Cardinality(Found)
           kept == <<1000, 900, 810, 729>>[t + 1]
           p == score * kept
           a == p * osc
           all == 10000
<1>1. SensorConfidence(score, s) = RoundDiv(a, all)
  BY DEF SensorConfidence
<1>2. t \in 0 .. 3
  BY PenaltiesAreFew
<1>3. osc \in 95 .. 100
  OBVIOUS
<1>. HIDE DEF osc, Found, t, a, p, kept
<1>4. kept \in 729 .. 1000
  BY <1>2 DEF kept
<1>5. p \in Int /\ 729 <= p
  BY <1>4 DEF p
<1>6. a \in Int /\ all \in Int /\ all > 0 /\ all <= 2 * a
  BY <1>3, <1>5 DEF a
<1>. HIDE DEF all
<1>. QED BY <1>1, <1>6, RoundsUp

\* A column of numbers.
NumberColumn(col) == \A i \in DOMAIN col : col[i] \in Int \cup {Missing}

LEMMA ValidIsNumeric ==
  ASSUME NEW col, NEW n \in Nat, DOMAIN col = 1 .. n, NumberColumn(col)
  PROVE  Numeric(Valid(col), Len(Valid(col)))
<1>1. Rows(col) \in SUBSET (1 .. n)
  BY DEF Rows
<1>2. Valid(col) = Picked(col, Rows(col))
  BY DEF Valid, Rows
<1> DEFINE c == Cardinality(Rows(col))
           o == InOrder(Rows(col))
<1>3. /\ DOMAIN Valid(col) = 1 .. c /\ Len(Valid(col)) = c
      /\ \A i \in 1 .. c : Valid(col)[i] = col[o[i]] /\ o[i] \in Rows(col)
  BY <1>1, <1>2, PlacesAreSorted
<1>. HIDE DEF c, o
<1>4. \A i \in 1 .. c : Valid(col)[i] \in Int
  BY <1>3 DEF Rows, NumberColumn
<1>. QED BY <1>3, <1>4 DEF Numeric

LEMMA AssessmentIsPositive ==
  ASSUME NEW col, NEW n \in Nat \ {0}, DOMAIN col = 1 .. n, Len(col) = n, NumberColumn(col),
         NEW kind, NEW q \in SensorQuality(col, kind)
  PROVE  1 <= Assess(col, q).trust
<1> DEFINE s == Valid(col)
           l == Len(s)
           flat == Flatlined(s)
           fault == q.fault
           score == Score(n - l, n, flat, fault, l)
<1>1. DOMAIN s = 1 .. l /\ l \in 0 .. n /\ (l = 0 => s = <<>>) /\ Numeric(s, l)
  BY ValidLength, ValidIsNumeric
<1>2. q.valid = l /\ q.missing = n - l /\ fault \in 0 .. l
  BY FaultsAreBounded
<1>3. fault \in FaultCounts(s)
  <2> DEFINE neg == IF kind \in NonNegativeTypes THEN Count(s, LAMBDA v : v < 0) ELSE 0
             out == IF kind \in PercentTypes THEN Count(s, LAMBDA v : v < 0 \/ v > 100) ELSE 0
             run == LongestRun(s)
  <2>1. SensorQuality(col, kind) =
          {[valid |-> Len(s), missing |-> Len(col) - Len(s), negative |-> neg, outOfRange |-> out,
            fault |-> f, longest |-> run] : f \in FaultCounts(s)}
    BY DEF SensorQuality
  <2>. HIDE DEF neg, out, run, s
  <2>. QED BY <2>1
<1>4. Assess(col, q).trust = SensorConfidence(score, s)
  <2>1. Assess(col, q).trust = SensorConfidence(Score(q.missing, Len(col), Flatlined(s), q.fault, q.valid), s)
    BY DEF Assess
  <2>. HIDE DEF s, l
  <2>. QED BY <1>2, <2>1
<1>. HIDE DEF s, l, fault
<1>5. l <= 500 * (l - fault)
  <2>1. CASE l = 0
    BY <1>2, <2>1
  <2>2. CASE l # 0
    <3>1. l \in Nat \ {0}
      BY <1>1, <2>2
    <3>. QED BY <1>1, <1>3, <3>1, FaultCodesAreRare
  <2>. QED BY <2>1, <2>2
<1>6. flat \in 0 .. l
  <2>1. l \in Nat /\ DOMAIN s = 1 .. l /\ Len(s) = l
    BY <1>1 DEF Numeric
  <2>. QED BY <2>1, FlatIsBounded
<1>. HIDE DEF flat
<1>7. score \in Int /\ 1 <= score
  <2>1. n \in Int /\ flat \in Int /\ fault \in Int /\ l \in Int /\ n > 0 /\ n - l \in Int /\ n - l \in 0 .. n /\ l >= 0
    BY <1>1, <1>2, <1>6
  <2>2. 1 <= score
    BY <1>1, <1>2, <1>5, <1>6, <2>1, ScoreIsPositive
  <2>3. score \in 0 .. MaxScore
    BY <1>2, <1>6, <2>1, ScoreIsBounded
  <2>. HIDE DEF score
  <2>. QED BY <2>2, <2>3, LimitsAreNatural
<1>. HIDE DEF score
<1>. QED BY <1>4, <1>7, TrustIsPositive

LEMMA TableIsNumeric ==
  ASSUME LogInv, HistoryInv, stage \notin Unloaded
  PROVE  \A x \in DOMAIN table : table[x] \in Int \cup {Missing}
<1> DEFINE came == Came(file, log)
           V == Int \cup {Missing, Infinite}
           l == Len(file.at)
<1>1. /\ \A b \in DOMAIN log : log[b] = <<>> \/ log[b] \in Batches[file]
      /\ file \in Files /\ Readable(file)
  BY DEF LogInv, HistoryInv, FileInv, Unloaded
<1>2. l \in Nat /\ DOMAIN file.at = 1 .. l
  BY <1>1, FilesAreDated, FileRows
<1>3. \A k \in Sensors : \A n \in 1 .. l : file.col[k][n] \in V
  BY <1>1, <1>2, FilesAreTables
<1>4. \A m \in DOMAIN Melt(file) : Melt(file)[m].value \in V
  <2>1. \A m \in DOMAIN Melt(file) : \E n \in 1 .. l, j \in DOMAIN Columns : Melt(file)[m] = Cell(file, Columns[j], n)
    BY <1>2, MeltHasTheCells
  <2>2. \A j \in DOMAIN Columns : Columns[j] \in Sensors
    BY InsightAssumption DEF Range
  <2>. HIDE DEF V, l
  <2>3. \A k, n : Cell(file, k, n).value = file.col[k][n]
    BY DEF Cell
  <2>. QED BY <1>3, <2>1, <2>2, <2>3
<1>5. \A b \in Batches[file] : \A i \in DOMAIN b : b[i].value \in V
  BY <1>1, BatchesAreRead
<1>6. \A b \in DOMAIN came : \A i \in DOMAIN came[b] : came[b][i].value \in V
  <2>1. SUFFICES ASSUME NEW b \in DOMAIN came PROVE \A i \in DOMAIN came[b] : came[b][i].value \in V
    OBVIOUS
  <2>2. b \in DOMAIN log /\ came[b] = IF log[b] = <<>> THEN Melt(file) ELSE log[b]
    BY DEF Came
  <2>. HIDE DEF V, came
  <2>. QED BY <1>1, <1>4, <1>5, <2>2
<1>7. \A p \in Usable(came) : At(came, p).value \in V /\ At(came, p).value # Infinite
  <2>1. SUFFICES ASSUME NEW p \in Usable(came) PROVE At(came, p).value \in V /\ At(came, p).value # Infinite
    OBVIOUS
  <2>2. PICK b \in DOMAIN came : \E i \in Good(came[b]) : p = <<b, i>>
    BY UsableReadings
  <2>3. PICK i \in Good(came[b]) : p = <<b, i>>
    BY <2>2
  <2>4. i \in DOMAIN came[b] /\ At(came, p) = came[b][i] /\ came[b][i].value # Infinite
    BY <2>3 DEF Good, At
  <2>. HIDE DEF V, came
  <2>. QED BY <1>6, <2>4
<1>8. ASSUME NEW x \in DOMAIN table PROVE table[x] \in Int \cup {Missing}
  <2>1. PICK p \in Usable(came) : table[x] = At(came, p).value
    BY FirstIsStored
  <2>. HIDE DEF came
  <2>. QED BY <1>7, <2>1
<1>. QED BY <1>8

LEMMA FrameIsNumeric ==
  ASSUME LogInv, HistoryInv, stage \notin Unloaded, NEW k \in Sensors
  PROVE  NumberColumn(frame.col[k])
<1> DEFINE n == Cardinality(Times)
           c == [i \in 1 .. n |-> Stored(k, frame.at[i])]
<1>1. frame.col[k] = c
  BY FrameIsTheTable
<1>2. \A t : Stored(k, t) \in Int \cup {Missing}
  BY TableIsNumeric DEF Stored
<1>3. NumberColumn(c)
  <2>. HIDE DEF n
  <2>. QED BY <1>2 DEF NumberColumn
<1>. QED BY <1>1, <1>3

-----------------------------------------------------------------------------
(* The mean of a level lies between the scores below it. *)

\* Weights are positive and scores are between two bounds.
Weighted(child, lo, hi) ==
  \A k \in DOMAIN child : child[k].confidence >= 1 /\ lo <= child[k].score /\ child[k].score <= hi

LEMMA RollupLiesBetween ==
  ASSUME NEW child, IsFiniteSet(DOMAIN child), DOMAIN child # {}, \A k \in DOMAIN child : Scored(child[k]),
         NEW lo \in Int, NEW hi \in Int, Weighted(child, lo, hi)
  PROVE  /\ lo <= HealthRollup(child).score /\ HealthRollup(child).score <= hi
         /\ 1 <= HealthRollup(child).confidence
<1> DEFINE K == DOMAIN child
           W == [k \in K |-> child[k].confidence]
           F == [k \in K |-> child[k].score * child[k].confidence]
           U == [k \in K |-> 1]
           n == Cardinality(K)
           weight == Total(W, K)
           sum == Total(F, K)
           cert == Certain
           one == 1
<1>1. /\ HealthRollup(child).score = RoundDiv(sum, IF weight = 0 THEN n ELSE weight)
      /\ HealthRollup(child).confidence = RoundDiv(weight, n)
  BY RollupIsAMean
<1>2. \A k \in K : W[k] \in Int /\ F[k] \in Int /\ U[k] = 1
                   /\ one * U[k] <= W[k] /\ W[k] <= cert * U[k] /\ lo * W[k] <= F[k] /\ F[k] <= hi * W[k]
  <2>1. SUFFICES ASSUME NEW k \in K
                 PROVE  W[k] \in Int /\ F[k] \in Int /\ U[k] = 1
                        /\ one * U[k] <= W[k] /\ W[k] <= cert * U[k] /\ lo * W[k] <= F[k] /\ F[k] <= hi * W[k]
    OBVIOUS
  <2> DEFINE s == child[k].score
             c == child[k].confidence
  <2>2. s \in Int /\ c \in Int /\ c <= cert /\ cert \in Int
    BY ScoresAreNatural, LimitsAreNatural
  <2>3. 1 <= c /\ lo <= s /\ s <= hi
    BY DEF Weighted
  <2>4. W[k] = c /\ F[k] = s * c /\ U[k] = 1
    OBVIOUS
  <2>. HIDE DEF s, c, W, F, U, cert
  <2>5. lo * c <= s * c /\ s * c <= hi * c /\ s * c \in Int
    BY <2>2, <2>3
  <2>. QED BY <2>2, <2>3, <2>4, <2>5
<1>3. Total(U, K) = n /\ n \in Nat \ {0} /\ cert \in Int /\ one \in Int
  <2>1. n \in Nat \ {0}
    BY FS_CardinalityType, FS_EmptySet
  <2>. HIDE DEF U
  <2>. QED BY <1>2, <2>1, TotalOfConstant, LimitsAreNatural
<1>. HIDE DEF W, F, U, K, cert, one
<1>4. IsFiniteSet(K) /\ Ints(W, K) /\ Ints(F, K) /\ Ints(U, K)
  BY <1>2 DEF Ints, K
<1>5. weight \in Int /\ sum \in Int
  BY <1>4, TotalType
<1>6. one * Total(U, K) <= weight
  <2>1. \A k \in K : one * U[k] <= W[k] /\ W[k] <= cert * U[k]
    BY <1>2
  <2>. QED BY <1>3, <1>4, <2>1, TotalIsBounded
<1>7. lo * weight <= sum /\ sum <= hi * weight
  <2>1. \A k \in K : lo * W[k] <= F[k] /\ F[k] <= hi * W[k]
    BY <1>2
  <2>. QED BY <1>4, <2>1, TotalIsBounded
<1>. HIDE DEF weight, sum, n
<1>8. n <= weight /\ weight > 0
  BY <1>3, <1>5, <1>6 DEF one
<1>9. lo <= RoundDiv(sum, weight) /\ RoundDiv(sum, weight) <= hi
  <2>1. Fits(sum, weight, lo, hi)
    BY <1>7, <1>8 DEF Fits
  <2>. QED BY <1>5, <2>1, RatioIsBounded
<1>10. 1 <= RoundDiv(weight, n)
  <2>1. n \in Int /\ n > 0 /\ n <= 2 * weight
    BY <1>3, <1>5, <1>8
  <2>. QED BY <1>5, <2>1, RoundsUp
<1>. QED BY <1>1, <1>8, <1>9, <1>10

Between(x, S) == \E a, b \in S : a.score - 1 <= x.score /\ x.score <= b.score + 1

LEMMA RollupIsBetween ==
  ASSUME NEW child, IsFiniteSet(DOMAIN child), DOMAIN child # {}, \A k \in DOMAIN child : Scored(child[k]),
         \A k \in DOMAIN child : child[k].confidence >= 1
  PROVE  Between(HealthRollup(child), {child[k] : k \in DOMAIN child}) /\ 1 <= HealthRollup(child).confidence
<1> DEFINE T == {child[k].score : k \in DOMAIN child}
           o == InOrder(T)
<1>1. \A k \in DOMAIN child : child[k].score \in Int
  BY ScoresAreNatural
<1>2. T \in SUBSET Int /\ T # {}
  BY <1>1
<1>3. IsFiniteSet(T)
  <2> DEFINE G == [k \in DOMAIN child |-> child[k].score]
  <2>1. IsFiniteSet({G[k] : k \in DOMAIN G})
    BY ImageIsFinite
  <2>2. {G[k] : k \in DOMAIN G} = T
    OBVIOUS
  <2>. QED BY <2>1, <2>2
<1>4. PICK lo \in T, hi \in T : \A t \in T : lo <= t /\ t <= hi
  <2>. HIDE DEF T
  <2>1. Enumerates(o, T)
    BY <1>2, <1>3, SortedSet
  <2>. QED BY <1>2, <2>1, EndsOfASet
<1>5. PICK i \in DOMAIN child : child[i].score = lo
  BY <1>4
<1>6. PICK j \in DOMAIN child : child[j].score = hi
  BY <1>4
<1>7. lo \in Int /\ hi \in Int /\ Weighted(child, lo, hi)
  BY <1>2, <1>4 DEF Weighted
<1>. HIDE DEF T
<1>8. /\ lo <= HealthRollup(child).score /\ HealthRollup(child).score <= hi
      /\ 1 <= HealthRollup(child).confidence
  BY <1>7, RollupLiesBetween
<1>9. HealthRollup(child).score \in Int
  <2>1. Scored(HealthRollup(child))
    BY RollupIsScored
  <2>. QED BY <2>1, ScoresAreNatural
<1>10. child[i].score - 1 <= HealthRollup(child).score /\ HealthRollup(child).score <= child[j].score + 1
  BY <1>5, <1>6, <1>7, <1>8, <1>9
<1>. QED BY <1>8, <1>10 DEF Between

Weighed(rel) == \A k \in Sensors : 1 <= rel[k].trust
Balanced(h) ==
  /\ \A u \in DOMAIN Subsystems : Between(h.subsystems[u], {h.sensors[k] : k \in Subsystems[u]})
  /\ Between(h.equipment, {h.subsystems[u] : u \in DOMAIN Subsystems})

LEMMA UnitIsBalanced ==
  ASSUME NEW rel, NEW thr, DOMAIN rel = Sensors, Weighed(rel), \A k \in Sensors : rel[k].trust \in 0 .. Certain
  PROVE  Balanced(UnitHealth(rel, thr, Subsystems))
<1> DEFINE sensors == [k \in DOMAIN rel |-> SensorHealth(rel[k], thr[k])]
           subsystems == [u \in DOMAIN Subsystems |-> HealthRollup(Restrict(sensors, Subsystems[u] \cap DOMAIN rel))]
           h == UnitHealth(rel, thr, Subsystems)
<1>1. h.sensors = sensors /\ h.subsystems = subsystems /\ h.equipment = HealthRollup(subsystems)
  BY DEF UnitHealth
<1>2. AllScored(h)
  BY UnitIsScored
<1>3. DOMAIN sensors = Sensors /\ \A k \in Sensors : Scored(sensors[k])
  BY <1>1, <1>2 DEF AllScored
<1>4. \A k \in Sensors : sensors[k].confidence >= 1
  <2>1. SUFFICES ASSUME NEW k \in Sensors PROVE sensors[k].confidence >= 1
    OBVIOUS
  <2>2. sensors[k].confidence = rel[k].trust
    BY DEF SensorHealth
  <2>. HIDE DEF sensors
  <2>3. rel[k].trust \in 0 .. Certain
    BY Zenon
  <2>4. rel[k].trust \in Int
    BY <2>3, TrustInRange, Zenon
  <2>. QED BY <2>2, <2>4 DEF Weighed
<1>. HIDE DEF sensors
<1>5. DOMAIN subsystems = DOMAIN Subsystems
      /\ \A u \in DOMAIN Subsystems : subsystems[u] = HealthRollup(Restrict(sensors, Subsystems[u] \cap DOMAIN rel))
  OBVIOUS
<1>6. \A u \in DOMAIN Subsystems : Scored(subsystems[u])
  BY <1>1, <1>2 DEF AllScored
<1>. HIDE DEF subsystems, h
<1>7. ASSUME NEW u \in DOMAIN Subsystems
      PROVE  Between(subsystems[u], {sensors[k] : k \in Subsystems[u]}) /\ 1 <= subsystems[u].confidence
  <2> DEFINE child == Restrict(sensors, Subsystems[u] \cap DOMAIN rel)
  <2>1. Subsystems[u] \in SUBSET Sensors /\ Subsystems[u] # {} /\ IsFiniteSet(Subsystems[u])
    BY SubsystemsAreFinite
  <2>2. DOMAIN child = Subsystems[u] /\ \A k \in DOMAIN child : child[k] = sensors[k]
    BY <1>3, <2>1 DEF Restrict
  <2>3. subsystems[u] = HealthRollup(child)
    BY <1>5
  <2>. HIDE DEF child
  <2>4. IsFiniteSet(DOMAIN child) /\ DOMAIN child # {}
    BY <2>1, <2>2
  <2>5. (\A k \in DOMAIN child : Scored(child[k])) /\ \A k \in DOMAIN child : child[k].confidence >= 1
    BY <1>3, <1>4, <2>1, <2>2
  <2>6. Between(HealthRollup(child), {child[k] : k \in DOMAIN child}) /\ 1 <= HealthRollup(child).confidence
    BY <2>4, <2>5, RollupIsBetween
  <2>7. {child[k] : k \in DOMAIN child} = {sensors[k] : k \in Subsystems[u]}
    BY <2>2
  <2>. QED BY <2>3, <2>6, <2>7
<1>8. Between(HealthRollup(subsystems), {subsystems[u] : u \in DOMAIN Subsystems})
  <2>1. IsFiniteSet(DOMAIN subsystems) /\ DOMAIN subsystems # {}
    BY <1>5, SubsystemsAreFinite
  <2>2. \A u \in DOMAIN Subsystems : subsystems[u].confidence \in Int
    BY <1>6, ScoresAreNatural
  <2>3. (\A u \in DOMAIN subsystems : Scored(subsystems[u])) /\ \A u \in DOMAIN subsystems : subsystems[u].confidence >= 1
    BY <1>5, <1>6, <1>7, <2>2
  <2>4. Between(HealthRollup(subsystems), {subsystems[u] : u \in DOMAIN subsystems})
    BY <2>1, <2>3, RollupIsBetween
  <2>. QED BY <1>5, <2>4
<1>. QED BY <1>1, <1>7, <1>8 DEF Balanced, h

\* No sensor is without trust, and every level lies between those below it.
BalanceInv ==
  /\ "reliability" \in DOMAIN ctx => Weighed(ctx.reliability)
  /\ "health" \in DOMAIN ctx => Balanced(ctx.health)

LEMMA EngineKeepsBalance ==
  ASSUME NEW name, NEW needs, NEW outcomes, NEW then, Engine(name, needs, outcomes, then), BalanceInv,
         name \notin {"reliability", "health"}
  PROVE  BalanceInv'
<1>1. PICK r : ctx' = With(ctx, name, r)
  BY DEF Engine
<1>2. \A n \in {"reliability", "health"} :
        (n \in DOMAIN ctx' <=> n \in DOMAIN ctx) /\ (n \in DOMAIN ctx => ctx'[n] = ctx[n])
  BY <1>1, WithKeeps
<1>. QED BY <1>2 DEF BalanceInv

LEMMA LevelsAreBalanced == InsightSpec => []BalanceInv
<1>1. InsightInit => BalanceInv
  BY DEF InsightInit, BalanceInv
<1>2. HistoryInv /\ LogInv /\ ContextInv /\ RangeInv /\ BalanceInv /\ [InsightNext]_insightVars => BalanceInv'
  <2>1. SUFFICES ASSUME HistoryInv, LogInv, ContextInv, RangeInv, BalanceInv, [InsightNext]_insightVars PROVE BalanceInv'
    OBVIOUS
  <2>. USE <2>1
  <2>2. CASE UNCHANGED ctx
    BY <2>2 DEF BalanceInv
  <2>3. CASE Quality
    <3> DEFINE outcomes == {[sensors |-> q, times |-> TimestampIntegrity(frame.at)] :
                     q \in EachSensor(LAMBDA k : SensorQuality(frame.col[k], Kind[k]))}
    <3>1. Engine("quality", {}, outcomes, "statistics")
      BY <2>3, Zenon DEF Quality
    <3>. HIDE DEF outcomes
    <3>. QED BY <3>1, EngineKeepsBalance
  <2>4. CASE Statistics
    <3> DEFINE outcomes == {[k \in Sensors |-> SensorStatistics(frame.col[k])]}
    <3>1. Engine("statistics", {}, outcomes, "state")
      BY <2>4, Zenon DEF Statistics
    <3>. HIDE DEF outcomes
    <3>. QED BY <3>1, EngineKeepsBalance
  <2>5. CASE State
    <3> DEFINE outcomes == AnalyzeMachine([i \in DOMAIN frame.at |-> [at |-> frame.at[i], v |-> frame.col[Indicator][i]]])
    <3>1. Engine("state", {}, outcomes, "envelope")
      BY <2>5, Zenon DEF State
    <3>. HIDE DEF outcomes
    <3>. QED BY <3>1, EngineKeepsBalance
  <2>6. CASE Envelope
    <3> DEFINE outcomes == {[k \in Sensors |-> SensorEnvelope(frame.col[k])]}
    <3>1. Engine("envelope", {"statistics"}, outcomes, "threshold")
      BY <2>6, Zenon DEF Envelope
    <3>. HIDE DEF outcomes
    <3>. QED BY <3>1, EngineKeepsBalance
  <2>7. CASE Threshold
    <3> DEFINE outcomes == {[k \in Sensors |-> EvaluateSensor(frame.col[k], Limits[k], ctx.envelope[k])]}
    <3>1. Engine("threshold", {"envelope"}, outcomes, "timeline")
      BY <2>7, Zenon DEF Threshold
    <3>. HIDE DEF outcomes
    <3>. QED BY <3>1, EngineKeepsBalance
  <2>8. CASE TimelineOf
    <3> DEFINE outcomes == {MachineTimeline(ctx.state)}
    <3>1. Engine("timeline", {"state", "threshold"}, outcomes, "reliability")
      BY <2>8, Zenon DEF TimelineOf
    <3>. HIDE DEF outcomes
    <3>. QED BY <3>1, EngineKeepsBalance
  <2>9. CASE Reliability
    <3> DEFINE r == [k \in Sensors |-> Assess(frame.col[k], ctx.quality.sensors[k])]
    <3>1. ctx' = With(ctx, "reliability", r) /\ stage \notin Unloaded /\ "quality" \in DOMAIN ctx
      BY <2>9 DEF Reliability, Engine, Unloaded
    <3>2. PICK n \in Nat \ {0} : \A k \in Sensors : DOMAIN frame.col[k] = 1 .. n /\ Len(frame.col[k]) = n
      BY <3>1, ColumnsHaveRows
    <3>3. ASSUME NEW k \in Sensors PROVE 1 <= r[k].trust
      <4>1. PICK kind : ctx.quality.sensors[k] \in SensorQuality(frame.col[k], kind)
        BY <3>1 DEF RangeInv, QualityRange
      <4>2. NumberColumn(frame.col[k])
        BY <3>1, FrameIsNumeric
      <4>. QED BY <3>2, <4>1, <4>2, AssessmentIsPositive
    <3>. HIDE DEF r
    <3>4. ctx'["reliability"] = r /\ ("health" \in DOMAIN ctx' <=> "health" \in DOMAIN ctx)
          /\ ("health" \in DOMAIN ctx => ctx'["health"] = ctx["health"])
      BY <3>1, WithKeeps
    <3>. QED BY <3>3, <3>4 DEF BalanceInv, Weighed
  <2>10. CASE HealthOf
    <3> DEFINE r == UnitHealth(ctx.reliability, ctx.threshold, Subsystems)
    <3>1. ctx' = With(ctx, "health", r) /\ stage = "health"
      BY <2>10 DEF HealthOf, Engine
    <3>2. "reliability" \in DOMAIN ctx /\ DOMAIN ctx.reliability = Sensors
      BY <3>1 DEF ContextInv, ReliabilityInv, PastReliability
    <3>3. Balanced(r)
      <4>1. Weighed(ctx.reliability) /\ \A k \in Sensors : ctx.reliability[k].trust \in 0 .. Certain
        BY <3>2 DEF RangeInv, ReliabilityRange, BalanceInv
      <4>. QED BY <3>2, <4>1, UnitIsBalanced
    <3>. HIDE DEF r
    <3>4. ctx'["health"] = r /\ ("reliability" \in DOMAIN ctx' <=> "reliability" \in DOMAIN ctx)
          /\ ("reliability" \in DOMAIN ctx => ctx'["reliability"] = ctx["reliability"])
      BY <3>1, WithKeeps
    <3>. QED BY <3>3, <3>4 DEF BalanceInv
  <2>11. CASE Assemble \/ Evaluate
    BY <2>2, <2>11 DEF Assemble, Evaluate
  <2>12. CASE Seed \/ SeedFails \/ Post \/ Load
    BY <2>2, <2>12 DEF Seed, SeedFails, Post, Load, runVars
  <2>13. CASE SkipLearning \/ LearnPatterns \/ LearnForecasts
    BY <2>2, <2>13 DEF SkipLearning, LearnPatterns, LearnForecasts, runVars
  <2>14. CASE ShowOutlook \/ Ask \/ ShowTelemetry
    BY <2>2, <2>14 DEF ShowOutlook, Ask, ShowTelemetry, runVars
  <2>15. CASE UNCHANGED insightVars
    BY <2>2, <2>15 DEF insightVars, vars
  <2>. QED BY <2>1, <2>3, <2>4, <2>5, <2>6, <2>7, <2>8, <2>9, <2>10, <2>11, <2>12, <2>13, <2>14, <2>15
         DEF InsightNext, PipelineStep, Next
<1>. QED BY <1>1, <1>2, HistoriesAreRead, LogsAreWritten, ContextFollowsStages, ResultsKeepTheirRange, PTL DEF InsightSpec

(* The score of a level lies between those below it, for any readings: no sensor is ever
   without trust, so no level is without weight, and no weighting moves a mean outside. *)
THEOREM NoLevelEscapesItsChildren == InsightSpec => []ScoreBetweenChildren
<1>1. BalanceInv => ScoreBetweenChildren
  <2>1. SUFFICES ASSUME BalanceInv, "health" \in DOMAIN ctx PROVE ScoreBetweenChildren
    BY DEF ScoreBetweenChildren
  <2>2. Balanced(ctx.health)
    BY <2>1 DEF BalanceInv
  <2>. QED BY <2>2 DEF Balanced, Between, ScoreBetweenChildren
<1>. QED BY <1>1, LevelsAreBalanced, PTL
=============================================================================
