------------------------------ MODULE Findings ------------------------------
(* The findings assembler (findings/assembler) and the rule evaluator
   (rules/evaluator) of one unit.  A finding is identified by its type, scope and
   target; the hashes of the code stand for exactly that, and for the input. *)
EXTENDS Health

CONSTANTS
  Unit,    \* the unit's key, the target of its equipment findings
  Rules    \* the rule definitions; a smaller id is smaller in the code's order

RuleFields ==
  {"id", "priority", "applies", "scope", "required", "optional", "excluded",
   "type", "category", "severity", "confidence"}

ASSUME FindingsAssumption ==
  /\ IsFiniteSet(Rules)
  /\ \A r \in Rules : DOMAIN r = RuleFields /\ r.required # {}
  /\ \A r \in Rules : r.id \in Int /\ r.priority \in Int /\ r.confidence \in 0 .. 100
  /\ \A r, q \in Rules : r.id = q.id => r = q

\* The results by name, or a finding, with one more: it is set, or set anew.
With(results, name, r) ==
  [n \in DOMAIN results \cup {name} |-> IF n = name THEN r ELSE results[n]]

Identity(f) == <<f.type, f.scope, f.target>>

Derived(type, category, scope, target, severity, confidence) ==
  [type |-> type, category |-> category, scope |-> scope, target |-> target,
   origin |-> "derived", severity |-> severity, confidence |-> confidence, by |-> {}]

-----------------------------------------------------------------------------
(* Derived findings. *)

ThresholdFindings(k, thr) ==
  {Derived("threshold_misspecified", "threshold", "sensor", k, "warning", thr.confidence) :
     h \in {x \in thr.history : x.pct >= 5000}}
  \cup
  {Derived("threshold_critical", "threshold", "sensor", k, "critical", thr.confidence) :
     x \in {thr.state} \cap {"critical", "trip"}}

ReliabilityFindings(k, rel) ==
  {Derived("reliability_drift", "reliability", "sensor", k, "warning", rel.trust) :
     x \in {rel.drift} \cap {TRUE}}
  \cup
  {Derived("reliability_flatline", "reliability", "sensor", k,
           IF x >= 2500 THEN "warning" ELSE "info", rel.trust) : x \in {rel.flat} \cap 500 .. 10000}
  \cup
  {Derived("sensor_untrustworthy", "reliability", "sensor", k, "warning", rel.trust) :
     x \in {rel.score} \cap 0 .. 799}

HealthFinding(scope, k, h) ==
  {Derived("health_degraded", "health", scope, k, x, h.confidence) : x \in {h.severity} \ {"ok"}}

AssembleFindings(rel, thr, health) ==
  HealthFinding("equipment", Unit, health.equipment)
  \cup (UNION {ThresholdFindings(k, thr[k]) \cup ReliabilityFindings(k, rel[k]) : k \in DOMAIN rel})
  \cup (UNION {HealthFinding("subsystem", u, health.subsystems[u]) : u \in DOMAIN health.subsystems})

-----------------------------------------------------------------------------
(* Diagnoses.  class is the equipment's class. *)

Applies(r, class) == r.applies \cap {"*", class, Unit} # {}
TypesOf(S) == {f.type : f \in S}
Blocked(r, current) == r.excluded \cap TypesOf(current) # {}

\* The findings a rule looks at together: those of one sensor, or all.
Located(r, target, current) ==
  IF r.scope = "sensor"
  THEN {f \in current : f.scope = "sensor" /\ f.target = target}
  ELSE current

Triggers(r, target, current) ==
  {f \in Located(r, target, current) : f.type \in r.required \cup r.optional}

Targets(r, current) ==
  LET candidates == IF r.scope = "sensor" THEN {f.target : f \in current} ELSE {Unit}
  IN  {t \in candidates : r.required \subseteq TypesOf(Located(r, t, current))}

\* The prior of the rule, the mean confidence of its triggers and the least trust
\* of the sensors involved, multiplied.
DiagnosisConfidence(r, triggers, trust) ==
  LET evidence == RoundDiv(r.confidence * SumOver(triggers, LAMBDA f : f.confidence),
                           100 * Cardinality(triggers))
      sensors == {f.target : f \in {g \in triggers : g.scope = "sensor"}}
  IN  RoundDiv(evidence * Min({trust[k] : k \in sensors} \cup {10000}), 10000)

Diagnose(r, target, current, trust) ==
  LET triggers == Triggers(r, target, current)
  IN  [type |-> r.type, category |-> r.category, scope |-> r.scope, target |-> target,
       origin |-> "diagnosed", severity |-> r.severity,
       confidence |-> DiagnosisConfidence(r, triggers, trust),
       by |-> {Identity(f) : f \in triggers}]

Before(r, q) == r.priority > q.priority \/ (r.priority = q.priority /\ r.id < q.id)

\* What the rules conclude from these findings; of two rules that conclude the
\* same, the earlier one does.
Conclusions(current, class, trust) ==
  LET fires == {r \in Rules : Applies(r, class) /\ ~Blocked(r, current)}
      concludes(r, t) == t \in Targets(r, current)
      first(r, t) == \A q \in fires \ {r} :
        (q.type = r.type /\ q.scope = r.scope /\ concludes(q, t)) => Before(r, q)
  IN  UNION {{Diagnose(r, t, current, trust) : t \in {x \in Targets(r, current) : first(r, x)}}
             : r \in fires}

\* Mutant: the rules look at the derived findings only.
RulePassOnce(base, produced, class, trust) == produced \cup Conclusions(base, class, trust)

\* One iteration: a conclusion already produced stays as it was.
RulePass(base, produced, class, trust) ==
  produced \cup {f \in Conclusions(base \cup produced, class, trust) :
                  \A g \in produced : Identity(g) # Identity(f)}
==============================================================================
