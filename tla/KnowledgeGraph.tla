--------------------------- MODULE KnowledgeGraph ---------------------------
(* What the projectors write (knowledge_graph/projector, feedback_projector,
   pattern_learning/projector): nodes by id, edges by (src, dst, type), each
   with a property map that an upsert replaces as a whole.

   A graph is [nodes, edges], two functions.  A finding is [id, identity,
   origin, unit, scope, target, start, end, severity, by, evidence]: times and
   ids are numbers in the order in which the code compares them (ISO strings and
   hashes), 0 is None and sorts first. *)
EXTENDS Naturals, Sequences, FiniteSets

CONSTANTS
  Plant,      \* unit -> subsystem -> its sensors
  Governed    \* the <<unit, sensor>> with an AVAILABLE threshold definition

EquipmentId(u)    == <<"equipment", u>>
SubsystemId(u, s) == <<"subsystem", u, s>>
SensorId(u, k)    == <<"sensor", u, k>>
ThresholdId(u, k) == <<"threshold", u, k>>
ConditionId(i)    == <<"condition", i>>
ArtifactRefId(a)  == <<"artifact", a>>
ModelId(m)        == <<"model", m>>
PatternId(p)      == <<"pattern", p>>
ValidationId(i)   == <<"validation", i>>

Empty == [nodes |-> <<>>, edges |-> <<>>]

\* upsert_node, upsert_edge: what is written replaces what was there.
Over(new, old) ==
  [x \in DOMAIN new \cup DOMAIN old |-> IF x \in DOMAIN new THEN new[x] ELSE old[x]]
Upsert(g, h) == [nodes |-> Over(h.nodes, g.nodes), edges |-> Over(h.edges, g.edges)]

\* Catalogue structure has no properties of its own that could change.
Fixed == [seeded |-> TRUE]
Plain(nodes, edges) == [nodes |-> [n \in nodes |-> Fixed], edges |-> [e \in edges |-> Fixed]]

\* seed_catalog: a unit with its subsystems, sensors and threshold definitions.
Catalogue(u) ==
  LET subs == DOMAIN Plant[u]
      pairs == {p \in subs \X UNION {Plant[u][s] : s \in subs} : p[2] \in Plant[u][p[1]]}
      sensors == {p[2] : p \in pairs}
      bands == {k \in sensors : <<u, k>> \in Governed}
  IN  Plain({EquipmentId(u)} \cup {SubsystemId(u, s) : s \in subs}
              \cup {SensorId(u, k) : k \in sensors} \cup {ThresholdId(u, k) : k \in bands},
            {<<EquipmentId(u), SubsystemId(u, s), "has_subsystem">> : s \in subs}
              \cup {<<SubsystemId(u, p[1]), SensorId(u, p[2]), "has_sensor">> : p \in pairs}
              \cup {<<SensorId(u, k), ThresholdId(u, k), "governed_by">> : k \in bands})

Earliest(a, b) == IF a = 0 THEN b ELSE IF b = 0 \/ a < b THEN a ELSE b
Latest(a, b) == IF a < b THEN b ELSE a
Newer(end, id, curEnd, curId) == end > curEnd \/ (end = curEnd /\ id > curId)

\* A condition nobody has projected yet.
Unseen == [ids |-> {}, first |-> 0, last |-> 0, latest |-> 0, latestEnd |-> 0, severity |-> "none"]

\* Mutant: the finding that comes last is the latest.
FoldByArrival(c, f) ==
  [ids |-> c.ids \cup {f.id}, first |-> Earliest(c.first, f.start), last |-> Latest(c.last, f.end),
   latest |-> f.id, latestEnd |-> f.end, severity |-> f.severity]

\* _fold_condition: occurrences is the number of ids.
FoldCondition(c, f) ==
  LET new == Newer(f.end, f.id, c.latestEnd, c.latest)
  IN  [ids |-> c.ids \cup {f.id},
       first |-> Earliest(c.first, f.start), last |-> Latest(c.last, f.end),
       latest |-> IF new THEN f.id ELSE c.latest,
       latestEnd |-> IF new THEN f.end ELSE c.latestEnd,
       severity |-> IF new THEN f.severity ELSE c.severity]

TargetId(f) ==
  CASE f.scope = "sensor" -> SensorId(f.unit, f.target)
    [] f.scope = "subsystem" -> SubsystemId(f.unit, f.target)
    [] OTHER -> EquipmentId(f.unit)

Cited(f) == {f.evidence[i].artifact : i \in DOMAIN f.evidence}

\* Of several items about one artifact the first stays: the others are not newer.
CitedValue(f, a) ==
  f.evidence[CHOOSE i \in DOMAIN f.evidence :
    /\ f.evidence[i].artifact = a
    /\ \A j \in 1 .. i - 1 : f.evidence[j].artifact # a].value

EvidenceEdge(f, a) == <<ConditionId(f.identity), ArtifactRefId(a), "has_evidence">>

\* _project_evidence: the artifacts, and the edges that are newer than those of g.
Evidence(g, f) ==
  LET fresh == {a \in Cited(f) :
        LET e == EvidenceEdge(f, a)
        IN  e \in DOMAIN g.edges => Newer(f.end, f.id, g.edges[e].end, g.edges[e].from)}
  IN  [nodes |-> [n \in {ArtifactRefId(a) : a \in Cited(f)} |-> Fixed],
       edges |-> [e \in {EvidenceEdge(f, a) : a \in fresh} |->
                    [value |-> CitedValue(f, e[2][2]), from |-> f.id, end |-> f.end]]]

\* _project_one: c is the condition as it was read before.
FindingPart(g, c, f) ==
  LET id == ConditionId(f.identity)
      links == Plain({}, {<<id, TargetId(f), "observed_on">>}
                           \cup {<<id, ConditionId(t), "triggered_by">> : t \in f.by})
  IN  Upsert(Upsert([nodes |-> [n \in {id} |-> FoldCondition(c, f)], edges |-> <<>>], links), Evidence(g, f))

\* Mutant: the patterns get their edges before they get a node.
ModelPartOfEdges(r) ==
  Plain({ModelId(r.model)}, {<<PatternId(p), ModelId(r.model), "discovered_by">> : p \in r.patterns})

\* PatternProjector.project: the model and its patterns, then what each of the
\* result's findings suggests.
ModelPart(r) ==
  Plain({ModelId(r.model)} \cup {PatternId(p) : p \in r.patterns},
        {<<PatternId(p), ModelId(r.model), "discovered_by">> : p \in r.patterns})
SuggestPart(f, r) ==
  Plain({}, {<<ConditionId(f.identity), PatternId(p), "suggests">> : p \in r.patterns})

\* FeedbackProjector.project: one node for the verdict on a condition.
VerdictPart(label) ==
  [nodes |-> [n \in {ValidationId(label.identity)} |->
                [verdict |-> label.verdict, author |-> label.author]],
   edges |-> [e \in {<<ConditionId(label.identity), ValidationId(label.identity), "validated_by">>} |->
                [verdict |-> label.verdict]]]

-----------------------------------------------------------------------------
(* What the graph should know, as a function of the findings alone. *)

Supersedes(f, g) == Newer(f.end, f.id, g.end, g.id)
NewestOf(S) == CHOOSE f \in S : \A g \in S \ {f} : Supersedes(f, g)
LeastOf(S) == IF S \subseteq {0} THEN 0 ELSE CHOOSE x \in S \ {0} : \A y \in S \ {0} : x <= y
GreatestOf(S) == CHOOSE x \in S : \A y \in S : x >= y

ConditionOf(S) ==
  LET top == NewestOf(S)
  IN  [ids |-> {f.id : f \in S},
       first |-> LeastOf({f.start : f \in S}), last |-> GreatestOf({f.end : f \in S}),
       latest |-> top.id, latestEnd |-> top.end, severity |-> top.severity]

EvidenceOf(S, a) ==
  LET top == NewestOf({f \in S : a \in Cited(f)})
  IN  [value |-> CitedValue(top, a), from |-> top.id, end |-> top.end]
=============================================================================
