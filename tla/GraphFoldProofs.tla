-------------------------- MODULE GraphFoldProofs --------------------------
(* Proofs that the knowledge graph follows the committed findings and models,
   for any number of overlapping runs: each condition and each evidence edge is
   the fold of the recorded findings, no edge dangles, and the models of the
   graph are those of the registry.  The folds are first characterised without
   choosing an element, so that one more finding is a small step. *)
EXTENDS GraphStoreProofs

-----------------------------------------------------------------------------
(* Folds, one finding at a time. *)

Tops(f, S) == f \in S /\ \A g \in S \ {f} : Supersedes(f, g)

IsFirst(x, T) == IF T \subseteq {0} THEN x = 0 ELSE x \in T \ {0} /\ \A y \in T \ {0} : x <= y
IsLast(x, T) == x \in T /\ \A y \in T : y <= x

IsConditionOf(c, S) ==
  \E f \in S :
    /\ Tops(f, S)
    /\ IsFirst(c.first, {g.start : g \in S}) /\ IsLast(c.last, {g.end : g \in S})
    /\ c = [ids |-> {g.id : g \in S}, first |-> c.first, last |-> c.last,
            latest |-> f.id, latestEnd |-> f.end, severity |-> f.severity]

IsEvidenceOf(e, S, a) ==
  \E f \in S : Tops(f, S) /\ e = [value |-> CitedValue(f, a), from |-> f.id, end |-> f.end]

(* Of two findings exactly one is the newer. *)
LEMMA NewerIsTotal ==
  ASSUME NEW f \in AllFindings, NEW g \in AllFindings, f # g
  PROVE  Supersedes(f, g) <=> ~Supersedes(g, f)
<1>1. f.id # g.id /\ f.id \in Nat /\ g.id \in Nat /\ f.end \in Nat /\ g.end \in Nat
  BY IdsAreHashes, FindingsAreTyped
<1>. QED BY <1>1 DEF Supersedes, Newer

LEMMA NewerIsTransitive ==
  ASSUME NEW f \in AllFindings, NEW g \in AllFindings, NEW h \in AllFindings,
         Supersedes(f, g), Supersedes(g, h)
  PROVE  Supersedes(f, h)
<1>1. /\ f.id \in Nat /\ g.id \in Nat /\ h.id \in Nat
      /\ f.end \in Nat /\ g.end \in Nat /\ h.end \in Nat
  BY FindingsAreTyped
<1>. QED BY <1>1 DEF Supersedes, Newer

LEMMA TopIsNewest ==
  ASSUME NEW S \in SUBSET AllFindings, NEW f, Tops(f, S) PROVE NewestOf(S) = f
<1>1. \A g \in S : (\A h \in S \ {g} : Supersedes(g, h)) => g = f
  BY NewerIsTotal DEF Tops
<1>. QED BY <1>1 DEF Tops, NewestOf

(* The newest of one finding more. *)
LEMMA TopOfMore ==
  ASSUME NEW S \in SUBSET AllFindings, NEW f, Tops(f, S), NEW g \in AllFindings
  PROVE  /\ Supersedes(g, f) => Tops(g, S \cup {g})
         /\ ~Supersedes(g, f) => Tops(f, S \cup {g})
<1>1. f \in AllFindings
  BY DEF Tops
<1>2. ASSUME Supersedes(g, f) PROVE Tops(g, S \cup {g})
  BY <1>1, <1>2, NewerIsTransitive DEF Tops
<1>3. ASSUME ~Supersedes(g, f) PROVE Tops(f, S \cup {g})
  BY <1>1, <1>3, NewerIsTotal DEF Tops
<1>. QED BY <1>2, <1>3

LEMMA FirstOfMore ==
  ASSUME NEW T \in SUBSET Nat, NEW x, IsFirst(x, T), NEW y \in Nat
  PROVE  IsFirst(Earliest(x, y), T \cup {y})
<1>1. CASE T \subseteq {0}
  <2>1. x = 0 /\ Earliest(x, y) = y
    BY <1>1 DEF IsFirst, Earliest
  <2>. QED BY <1>1, <2>1 DEF IsFirst
<1>2. CASE ~(T \subseteq {0})
  <2>1. x \in T \ {0} /\ \A z \in T \ {0} : x <= z
    BY <1>2 DEF IsFirst
  <2>2. ~(T \cup {y} \subseteq {0})
    BY <1>2
  <2>3. Earliest(x, y) \in (T \cup {y}) \ {0} /\ \A z \in (T \cup {y}) \ {0} : Earliest(x, y) <= z
    BY <2>1 DEF Earliest
  <2>. QED BY <2>2, <2>3 DEF IsFirst
<1>. QED BY <1>1, <1>2

LEMMA LastOfMore ==
  ASSUME NEW T \in SUBSET Nat, NEW x, IsLast(x, T), NEW y \in Nat
  PROVE  IsLast(Latest(x, y), T \cup {y})
BY DEF IsLast, Latest

(* A condition that is the fold of some findings is, with one finding more, the
   fold of one more (KnowledgeGraphProjector._fold_condition). *)
LEMMA FoldOfMore ==
  ASSUME NEW S \in SUBSET AllFindings, NEW c, NEW f \in AllFindings,
         (S = {} /\ c = Unseen) \/ IsConditionOf(c, S)
  PROVE  IsConditionOf(FoldCondition(c, f), S \cup {f})
<1>0. f.id \in Nat \ {0} /\ f.start \in Nat /\ f.end \in Nat
  BY FindingsAreTyped
<1>1. CASE S = {} /\ c = Unseen
  <2>1. FoldCondition(c, f) = [ids |-> {f.id}, first |-> f.start, last |-> f.end,
                               latest |-> f.id, latestEnd |-> f.end, severity |-> f.severity]
    BY <1>0, <1>1 DEF FoldCondition, Unseen, Newer, Earliest, Latest
  <2>2. {g.id : g \in S \cup {f}} = {f.id} /\ {g.start : g \in S \cup {f}} = {f.start}
          /\ {g.end : g \in S \cup {f}} = {f.end}
    BY <1>1
  <2>3. Tops(f, S \cup {f}) /\ IsLast(f.end, {f.end})
    BY <1>0, <1>1 DEF Tops, IsLast
  <2>4. IsFirst(f.start, {f.start})
    BY <1>0 DEF IsFirst
  <2> DEFINE d == FoldCondition(c, f)
  <2>5. /\ d.first = f.start /\ d.last = f.end
        /\ d = [ids |-> {f.id}, first |-> d.first, last |-> d.last,
                latest |-> f.id, latestEnd |-> f.end, severity |-> f.severity]
    BY <2>1
  <2>. HIDE DEF d
  <2>6. d = [ids |-> {g.id : g \in S \cup {f}}, first |-> d.first, last |-> d.last,
             latest |-> f.id, latestEnd |-> f.end, severity |-> f.severity]
    BY <2>2, <2>5
  <2>7. /\ IsFirst(d.first, {g.start : g \in S \cup {f}})
        /\ IsLast(d.last, {g.end : g \in S \cup {f}}) /\ f \in S \cup {f}
    BY <2>2, <2>3, <2>4, <2>5
  <2>8. IsConditionOf(d, S \cup {f})
    BY <2>3, <2>6, <2>7 DEF IsConditionOf
  <2>. QED BY <2>8 DEF d
<1>2. CASE IsConditionOf(c, S)
  <2>1. PICK t \in S :
          /\ Tops(t, S)
          /\ IsFirst(c.first, {g.start : g \in S}) /\ IsLast(c.last, {g.end : g \in S})
          /\ c = [ids |-> {g.id : g \in S}, first |-> c.first, last |-> c.last,
                  latest |-> t.id, latestEnd |-> t.end, severity |-> t.severity]
    BY <1>2 DEF IsConditionOf
  <2> DEFINE top == IF Supersedes(f, t) THEN f ELSE t
             d == FoldCondition(c, f)
  <2>2. Tops(top, S \cup {f})
    BY <2>1, TopOfMore
  <2>3. /\ {g.id : g \in S \cup {f}} = {g.id : g \in S} \cup {f.id}
        /\ {g.start : g \in S \cup {f}} = {g.start : g \in S} \cup {f.start}
        /\ {g.end : g \in S \cup {f}} = {g.end : g \in S} \cup {f.end}
    OBVIOUS
  <2>4. {g.start : g \in S} \in SUBSET Nat /\ {g.end : g \in S} \in SUBSET Nat
    BY FindingsAreTyped
  <2>5. IsFirst(Earliest(c.first, f.start), {g.start : g \in S \cup {f}})
    BY <1>0, <2>1, <2>3, <2>4, FirstOfMore
  <2>6. IsLast(Latest(c.last, f.end), {g.end : g \in S \cup {f}})
    BY <1>0, <2>1, <2>3, <2>4, LastOfMore
  <2>7. c.ids = {g.id : g \in S} /\ c.latest = t.id /\ c.latestEnd = t.end /\ c.severity = t.severity
    BY <2>1
  <2>8. Newer(f.end, f.id, c.latestEnd, c.latest) <=> Supersedes(f, t)
    BY <2>7 DEF Supersedes
  <2>9. d = [ids |-> {g.id : g \in S \cup {f}},
             first |-> Earliest(c.first, f.start), last |-> Latest(c.last, f.end),
             latest |-> top.id, latestEnd |-> top.end, severity |-> top.severity]
    BY <2>3, <2>7, <2>8 DEF FoldCondition
  <2>10. d.first = Earliest(c.first, f.start) /\ d.last = Latest(c.last, f.end)
    BY <2>9
  <2>11. top \in S \cup {f}
    OBVIOUS
  <2>. HIDE DEF top, d
  <2>12. IsConditionOf(d, S \cup {f})
    BY <2>2, <2>5, <2>6, <2>9, <2>10, <2>11 DEF IsConditionOf
  <2>. QED BY <2>12 DEF d
<1>. QED BY <1>1, <1>2

LEMMA FirstIsLeast ==
  ASSUME NEW T \in SUBSET Nat, NEW x, IsFirst(x, T) PROVE LeastOf(T) = x
<1>1. CASE T \subseteq {0}
  BY <1>1 DEF IsFirst, LeastOf
<1>2. CASE ~(T \subseteq {0})
  <2>1. x \in T \ {0} /\ \A y \in T \ {0} : x <= y
    BY <1>2 DEF IsFirst
  <2>2. \A z \in T \ {0} : (\A y \in T \ {0} : z <= y) => z = x
    BY <2>1
  <2>. QED BY <1>2, <2>1, <2>2 DEF LeastOf
<1>. QED BY <1>1, <1>2

LEMMA LastIsGreatest ==
  ASSUME NEW T \in SUBSET Nat, NEW x, IsLast(x, T) PROVE GreatestOf(T) = x
<1>1. x \in T /\ \A y \in T : x >= y
  BY DEF IsLast
<1>2. \A z \in T : (\A y \in T : z >= y) => z = x
  BY <1>1
<1>. QED BY <1>1, <1>2 DEF GreatestOf

(* What the node says is a function of the findings alone. *)
LEMMA ConditionIsUnique ==
  ASSUME NEW S \in SUBSET AllFindings, NEW c, IsConditionOf(c, S)
  PROVE  c = ConditionOf(S)
<1>1. PICK t \in S :
        /\ Tops(t, S)
        /\ IsFirst(c.first, {g.start : g \in S}) /\ IsLast(c.last, {g.end : g \in S})
        /\ c = [ids |-> {g.id : g \in S}, first |-> c.first, last |-> c.last,
                latest |-> t.id, latestEnd |-> t.end, severity |-> t.severity]
  BY DEF IsConditionOf
<1>2. {g.start : g \in S} \in SUBSET Nat /\ {g.end : g \in S} \in SUBSET Nat
  BY FindingsAreTyped
<1>3. NewestOf(S) = t
  BY <1>1, TopIsNewest
<1>4. LeastOf({g.start : g \in S}) = c.first /\ GreatestOf({g.end : g \in S}) = c.last
  BY <1>1, <1>2, FirstIsLeast, LastIsGreatest
<1>. QED BY <1>1, <1>3, <1>4 DEF ConditionOf

LEMMA EvidenceIsUnique ==
  ASSUME NEW S \in SUBSET AllFindings, NEW a, NEW e, IsEvidenceOf(e, {f \in S : a \in Cited(f)}, a)
  PROVE  e = EvidenceOf(S, a)
<1> DEFINE C == {f \in S : a \in Cited(f)}
<1>1. PICK t \in C : Tops(t, C) /\ e = [value |-> CitedValue(t, a), from |-> t.id, end |-> t.end]
  BY DEF IsEvidenceOf
<1>2. C \in SUBSET AllFindings
  OBVIOUS
<1>. HIDE DEF C
<1>3. NewestOf(C) = t
  BY <1>1, <1>2, TopIsNewest
<1>. QED BY <1>1, <1>3 DEF EvidenceOf, C

-----------------------------------------------------------------------------
(* What a graph g knows of the conditions I when F are the findings. *)

Artifacts == UNION {Cited(f) : f \in AllFindings}
EvidenceId(i, a) == <<ConditionId(i), ArtifactRefId(a), "has_evidence">>
Of(F, i) == {f \in F : f.identity = i}
Citing(F, i, a) == {f \in Of(F, i) : a \in Cited(f)}

Knows(g, F, I) ==
  \A i \in I :
    /\ ConditionId(i) \in DOMAIN g.nodes <=> Of(F, i) # {}
    /\ Of(F, i) # {} => IsConditionOf(g.nodes[ConditionId(i)], Of(F, i))
    /\ \A a \in Artifacts :
         /\ EvidenceId(i, a) \in DOMAIN g.edges <=> Citing(F, i, a) # {}
         /\ Citing(F, i, a) # {} => IsEvidenceOf(g.edges[EvidenceId(i, a)], Citing(F, i, a), a)

\* Two graphs that say the same of the conditions I; one that says nothing.
Agree(g, h, I) ==
  \A i \in I :
    /\ ConditionId(i) \in DOMAIN g.nodes <=> ConditionId(i) \in DOMAIN h.nodes
    /\ ConditionId(i) \in DOMAIN g.nodes => g.nodes[ConditionId(i)] = h.nodes[ConditionId(i)]
    /\ \A a \in Artifacts :
         /\ EvidenceId(i, a) \in DOMAIN g.edges <=> EvidenceId(i, a) \in DOMAIN h.edges
         /\ EvidenceId(i, a) \in DOMAIN g.edges => g.edges[EvidenceId(i, a)] = h.edges[EvidenceId(i, a)]
Untold(g, I) ==
  \A i \in I : /\ ConditionId(i) \notin DOMAIN g.nodes
               /\ \A a \in Artifacts : EvidenceId(i, a) \notin DOMAIN g.edges

IdentitiesOf(u) == {f.identity : f \in {g \in AllFindings : g.unit = u}}

-----------------------------------------------------------------------------
(* The invariant. *)

ResultsOf(f) == {Results(f)[i] : i \in DOMAIN Results(f)}

\* The findings that a run has yet to project.
Left(w) ==
  {todo[w].result.findings[i] : i \in todo[w].left} \cup
  {f \in news[w].findings :
     \E k \in DOMAIN todo[w].results : \E j \in DOMAIN todo[w].results[k].findings :
       f = todo[w].results[k].findings[j]}

\* The condition that comes next, as a run would read it now.
Current(w) ==
  LET id == ConditionId(NextFinding(w).identity)
  IN  IF id \in DOMAIN Visible(w).nodes THEN Visible(w).nodes[id] ELSE Unseen

\* A run has what it needs for its place in the code, and nothing that it has not
\* written yet.
Planned(w) ==
  /\ DOMAIN todo[w] = {"result", "left", "results"}
  /\ todo[w].result \in ResultsOf(job[w]) \cup {OfEngines(job[w]), Nothing.result}
  /\ todo[w].results \in Seq(ResultsOf(job[w]))
  /\ todo[w].left \subseteq Changed(todo[w].result, news[w].findings)
  /\ news[w].findings \subseteq FoundIn(job[w])
  /\ \A i \in DOMAIN job[w].found :
       \/ job[w].found[i] \in news[w].findings
       \/ OfIdentity(job[w].found[i].identity) # {}
Waiting(w) == tx[w] = Empty /\ news[w].models = {} /\ seen[w] = <<>>
Working(w) ==
  /\ pc[w] = "idle" => todo[w] = Nothing /\ Waiting(w) /\ news[w].findings = {}
  /\ pc[w] = "save" =>
       /\ Planned(w) /\ Waiting(w) /\ news[w].findings \subseteq Left(w)
       /\ todo[w].result = OfEngines(job[w])
  /\ pc[w] = "project" =>
       /\ Planned(w)
       /\ DOMAIN Catalogue(job[w].unit).nodes \subseteq DOMAIN tx[w].nodes
       /\ seen[w] # <<>> => todo[w].left # {} /\ seen[w] = <<Current(w)>>

\* A run has folded what it has projected, P, into what others had committed; it
\* writes on conditions of its unit only.
Folding(w) ==
  pc[w] = "project" =>
    /\ Untold(tx[w], Identities \ IdentitiesOf(job[w].unit))
    /\ \E P \in SUBSET news[w].findings :
         /\ news[w].findings \subseteq P \cup Left(w)
         /\ Knows(Visible(w), findings \cup P, IdentitiesOf(job[w].unit))

Folds ==
  /\ DOMAIN todo = Workers /\ DOMAIN seen = Workers
  /\ Knows(graph, findings, Identities)
  /\ \A w \in Workers : Working(w) /\ Folding(w)

\* An edge of a run leads to a node, or to a condition that is yet to project.
Chaining(w) ==
  /\ pc[w] = "project" =>
       /\ \A e \in DOMAIN tx[w].edges :
            {e[1], e[2]} \subseteq DOMAIN Visible(w).nodes \cup {ConditionId(f.identity) : f \in Left(w)}
       /\ \A p \in todo[w].result.patterns : PatternId(p) \in DOMAIN tx[w].nodes
\* What an engineer judges has a node.
Judging(r) ==
  pc[r] \in {"record", "project", "reply"} => ConditionId(job[r].identity) \in DOMAIN graph.nodes
Chains ==
  /\ ChainsAreClosed
  /\ \A w \in Workers : Chaining(w)
  /\ \A r \in Requests : Judging(r)

\* The models that a run has projected are recorded, but for the one at hand.
ModelsIn(g) == {n[2] : n \in {m \in DOMAIN g.nodes : m[1] = "model"}}
Tracing(w) ==
  /\ news[w].models \subseteq ModelsIn(tx[w])
  /\ \A m \in ModelsIn(tx[w]) :
       m \in news[w].models \cup registry \/ (m = todo[w].result.model /\ m # NoModel)
  /\ todo[w].result.model # NoModel => todo[w].result.model \in ModelsIn(tx[w])
Traced == ModelsAreTraceable /\ \A w \in Workers : Tracing(w)

-----------------------------------------------------------------------------
(* Graphs and their parts. *)

LEMMA UpsertTwice ==
  ASSUME NEW g, NEW h, NEW k
  PROVE  Upsert(g, Upsert(h, k)) = Upsert(Upsert(g, h), k)
BY DEF Upsert, Over

LEMMA AgreeIfUntold ==
  ASSUME NEW g, NEW h, NEW I, Untold(h, I) PROVE Agree(g, Upsert(g, h), I)
BY UpsertRows DEF Untold, Agree

LEMMA AgreeUnder ==
  ASSUME NEW g, NEW h, NEW k, NEW I, Agree(g, h, I) PROVE Agree(Upsert(g, k), Upsert(h, k), I)
BY UpsertRows DEF Agree

LEMMA UntoldTogether ==
  ASSUME NEW g, NEW h, NEW I, Untold(g, I), Untold(h, I) PROVE Untold(Upsert(g, h), I)
BY UpsertRows DEF Untold

(* Catalogue, model and verdict rows say nothing of a condition. *)
LEMMA EmptyIsUntold == ASSUME NEW I PROVE Untold(Empty, I)
BY DEF Untold, Empty

LEMMA CatalogueIsUntold == ASSUME NEW u, NEW I PROVE Untold(Catalogue(u), I)
BY DEF Untold, Catalogue, Plain, ConditionId, EvidenceId, EquipmentId, SubsystemId, SensorId, ThresholdId

LEMMA ModelIsUntold == ASSUME NEW r, NEW I PROVE Untold(ModelPart(r), I)
BY DEF Untold, ModelPart, Plain, ConditionId, EvidenceId, ModelId, PatternId

LEMMA VerdictIsUntold == ASSUME NEW l, NEW I PROVE Untold(VerdictPart(l), I)
BY DEF Untold, VerdictPart, ConditionId, EvidenceId, ValidationId

LEMMA KnowsIfAgree ==
  ASSUME NEW g, NEW h, NEW F, NEW G, NEW I, Knows(g, F, I), Agree(g, h, I),
         \A i \in I : Of(F, i) = Of(G, i)
  PROVE  Knows(h, G, I)
<1>. SUFFICES ASSUME NEW i \in I
     PROVE  /\ ConditionId(i) \in DOMAIN h.nodes <=> Of(G, i) # {}
            /\ Of(G, i) # {} => IsConditionOf(h.nodes[ConditionId(i)], Of(G, i))
            /\ \A a \in Artifacts :
                 /\ EvidenceId(i, a) \in DOMAIN h.edges <=> Citing(G, i, a) # {}
                 /\ Citing(G, i, a) # {} => IsEvidenceOf(h.edges[EvidenceId(i, a)], Citing(G, i, a), a)
  BY DEF Knows
<1>1. Of(G, i) = Of(F, i) /\ \A a : Citing(G, i, a) = Citing(F, i, a)
  BY DEF Citing
<1>2. /\ ConditionId(i) \in DOMAIN h.nodes <=> Of(F, i) # {}
      /\ Of(F, i) # {} => h.nodes[ConditionId(i)] = g.nodes[ConditionId(i)]
      /\ Of(F, i) # {} => IsConditionOf(g.nodes[ConditionId(i)], Of(F, i))
  BY DEF Knows, Agree
<1>3. ASSUME NEW a \in Artifacts
      PROVE  /\ EvidenceId(i, a) \in DOMAIN h.edges <=> Citing(F, i, a) # {}
             /\ Citing(F, i, a) # {} => h.edges[EvidenceId(i, a)] = g.edges[EvidenceId(i, a)]
             /\ Citing(F, i, a) # {} => IsEvidenceOf(g.edges[EvidenceId(i, a)], Citing(F, i, a), a)
  BY DEF Knows, Agree
<1>. QED BY <1>1, <1>2, <1>3

(* What _project_one writes on conditions: the fold of its own condition, and the
   evidence that is newer than what is there. *)
Fresh(g, f, a) ==
  /\ a \in Cited(f)
  /\ EvidenceId(f.identity, a) \in DOMAIN g.edges =>
       Newer(f.end, f.id, g.edges[EvidenceId(f.identity, a)].end, g.edges[EvidenceId(f.identity, a)].from)

LEMMA FindingWrites ==
  ASSUME NEW g, NEW c, NEW f, NEW r
  PROVE  LET h == Upsert(FindingPart(g, c, f), SuggestPart(f, r))
         IN  /\ \A i : ConditionId(i) \in DOMAIN h.nodes <=> i = f.identity
             /\ h.nodes[ConditionId(f.identity)] = FoldCondition(c, f)
             /\ \A i, a : EvidenceId(i, a) \in DOMAIN h.edges <=> i = f.identity /\ Fresh(g, f, a)
             /\ \A a : Fresh(g, f, a) =>
                  h.edges[EvidenceId(f.identity, a)] = [value |-> CitedValue(f, a), from |-> f.id, end |-> f.end]
<1> DEFINE own == [nodes |-> [n \in {ConditionId(f.identity)} |-> FoldCondition(c, f)], edges |-> <<>>]
           links == Plain({}, {<<ConditionId(f.identity), TargetId(f), "observed_on">>}
                           \cup {<<ConditionId(f.identity), ConditionId(t), "triggered_by">> : t \in f.by})
           ev == Evidence(g, f)
           sug == SuggestPart(f, r)
           h == Upsert(Upsert(Upsert(own, links), ev), sug)
<1>1. /\ \A i : ConditionId(i) \in DOMAIN own.nodes <=> i = f.identity
      /\ own.nodes[ConditionId(f.identity)] = FoldCondition(c, f)
      /\ \A i, a : EvidenceId(i, a) \notin DOMAIN own.edges
  BY DEF ConditionId
<1>2. /\ \A i : ConditionId(i) \notin DOMAIN links.nodes
      /\ \A i, a : EvidenceId(i, a) \notin DOMAIN links.edges
  BY DEF Plain, EvidenceId
<1>3. \A i : ConditionId(i) \notin DOMAIN ev.nodes
  BY DEF Evidence, ConditionId, ArtifactRefId
<1>4. /\ \A i : ConditionId(i) \notin DOMAIN sug.nodes
      /\ \A i, a : EvidenceId(i, a) \notin DOMAIN sug.edges
  BY DEF SuggestPart, Plain, EvidenceId
<1> DEFINE fresh == {a \in Cited(f) : Fresh(g, f, a)}
<1>5. /\ DOMAIN ev.edges = {EvidenceEdge(f, a) : a \in fresh}
      /\ \A e \in DOMAIN ev.edges : ev.edges[e] = [value |-> CitedValue(f, e[2][2]), from |-> f.id, end |-> f.end]
  BY DEF Evidence, EvidenceEdge, Fresh, EvidenceId
<1>6. /\ \A i, a : EvidenceId(i, a) \in DOMAIN ev.edges <=> i = f.identity /\ Fresh(g, f, a)
      /\ \A a : Fresh(g, f, a) =>
           ev.edges[EvidenceId(f.identity, a)] = [value |-> CitedValue(f, a), from |-> f.id, end |-> f.end]
  <2>1. \A a : EvidenceEdge(f, a) = EvidenceId(f.identity, a)
    BY DEF EvidenceEdge, EvidenceId
  <2>2. \A i, j, a, b : EvidenceId(i, a) = EvidenceId(j, b) => i = j /\ a = b
    BY DEF EvidenceId, ConditionId, ArtifactRefId
  <2>3. \A i, a : EvidenceId(i, a)[2][2] = a
    BY DEF EvidenceId, ArtifactRefId
  <2>4. \A a : a \in fresh <=> Fresh(g, f, a)
    BY DEF Fresh
  <2>. HIDE DEF fresh, ev
  <2>5. \A i, a : EvidenceId(i, a) \in DOMAIN ev.edges <=> i = f.identity /\ Fresh(g, f, a)
    BY <1>5, <2>1, <2>2, <2>4
  <2>. QED BY <1>5, <2>3, <2>5
<1>7. Upsert(FindingPart(g, c, f), SuggestPart(f, r)) = h
  BY DEF FindingPart
<1>. HIDE DEF own, links, ev, sug, fresh
<1>8. /\ \A i : ConditionId(i) \in DOMAIN h.nodes <=> i = f.identity
      /\ h.nodes[ConditionId(f.identity)] = FoldCondition(c, f)
  BY <1>1, <1>2, <1>3, <1>4, UpsertRows
<1>9. /\ \A i, a : EvidenceId(i, a) \in DOMAIN h.edges <=> EvidenceId(i, a) \in DOMAIN ev.edges
      /\ \A i, a : EvidenceId(i, a) \in DOMAIN ev.edges => h.edges[EvidenceId(i, a)] = ev.edges[EvidenceId(i, a)]
  BY <1>1, <1>2, <1>4, UpsertRows
<1>. QED BY <1>6, <1>7, <1>8, <1>9

LEMMA FindingIsUntold ==
  ASSUME NEW g, NEW c, NEW f, NEW r, NEW I, f.identity \notin I
  PROVE  Untold(Upsert(FindingPart(g, c, f), SuggestPart(f, r)), I)
BY FindingWrites DEF Untold

(* The evidence of one artifact, with one finding more. *)
LEMMA EvidenceOfMore ==
  ASSUME NEW S \in SUBSET AllFindings, NEW a, NEW e, IsEvidenceOf(e, S, a), NEW f \in AllFindings
  PROVE  /\ Newer(f.end, f.id, e.end, e.from) =>
              IsEvidenceOf([value |-> CitedValue(f, a), from |-> f.id, end |-> f.end], S \cup {f}, a)
         /\ ~Newer(f.end, f.id, e.end, e.from) => IsEvidenceOf(e, S \cup {f}, a)
<1>1. PICK t \in S : Tops(t, S) /\ e = [value |-> CitedValue(t, a), from |-> t.id, end |-> t.end]
  BY DEF IsEvidenceOf
<1>2. Newer(f.end, f.id, e.end, e.from) <=> Supersedes(f, t)
  BY <1>1 DEF Supersedes
<1>3. /\ Supersedes(f, t) => Tops(f, S \cup {f})
      /\ ~Supersedes(f, t) => Tops(t, S \cup {f})
  BY <1>1, TopOfMore
<1>. QED BY <1>1, <1>2, <1>3 DEF IsEvidenceOf

(* Projecting a finding tells the graph of one finding more, and of no other. *)
LEMMA KnowsMore ==
  ASSUME NEW F \in SUBSET AllFindings, NEW f \in AllFindings, NEW g, NEW r, NEW I, f.identity \in I,
         Knows(g, F, I), NEW c,
         c = IF ConditionId(f.identity) \in DOMAIN g.nodes THEN g.nodes[ConditionId(f.identity)] ELSE Unseen
  PROVE  Knows(Upsert(g, Upsert(FindingPart(g, c, f), SuggestPart(f, r))), F \cup {f}, I)
<1> DEFINE h == Upsert(FindingPart(g, c, f), SuggestPart(f, r))
           k == Upsert(g, h)
           id == f.identity
<1>1. /\ \A i : ConditionId(i) \in DOMAIN h.nodes <=> i = id
      /\ h.nodes[ConditionId(id)] = FoldCondition(c, f)
      /\ \A i, a : EvidenceId(i, a) \in DOMAIN h.edges <=> i = id /\ Fresh(g, f, a)
      /\ \A a : Fresh(g, f, a) =>
           h.edges[EvidenceId(id, a)] = [value |-> CitedValue(f, a), from |-> f.id, end |-> f.end]
  BY FindingWrites
<1>. HIDE DEF h
<1>2. Knows(k, F \cup {f}, I \ {id})
  <2>1. Untold(h, I \ {id})
    BY <1>1 DEF Untold
  <2>2. Agree(g, k, I \ {id})
    BY <2>1, AgreeIfUntold
  <2>3. \A i \in I \ {id} : Of(F \cup {f}, i) = Of(F, i)
    BY DEF Of
  <2>4. Knows(g, F, I \ {id})
    BY DEF Knows
  <2>. QED BY <2>2, <2>3, <2>4, KnowsIfAgree
<1> DEFINE S == Of(F, id)
<1>3. Of(F \cup {f}, id) = S \cup {f} /\ S \in SUBSET AllFindings
  BY DEF Of
<1>4. /\ ConditionId(id) \in DOMAIN g.nodes <=> S # {}
      /\ S # {} => IsConditionOf(g.nodes[ConditionId(id)], S)
      /\ \A a \in Artifacts :
           /\ EvidenceId(id, a) \in DOMAIN g.edges <=> Citing(F, id, a) # {}
           /\ Citing(F, id, a) # {} => IsEvidenceOf(g.edges[EvidenceId(id, a)], Citing(F, id, a), a)
  BY DEF Knows
<1>5. ConditionId(id) \in DOMAIN k.nodes /\ IsConditionOf(k.nodes[ConditionId(id)], S \cup {f})
  <2>1. ConditionId(id) \in DOMAIN k.nodes /\ k.nodes[ConditionId(id)] = FoldCondition(c, f)
    BY <1>1, UpsertRows
  <2>2. (S = {} /\ c = Unseen) \/ IsConditionOf(c, S)
    BY <1>4
  <2>3. IsConditionOf(FoldCondition(c, f), S \cup {f})
    BY <1>3, <2>2, FoldOfMore
  <2>. QED BY <2>1, <2>3
<1>6. ASSUME NEW a \in Artifacts
      PROVE  LET C == Citing(F \cup {f}, id, a)
             IN  /\ EvidenceId(id, a) \in DOMAIN k.edges <=> C # {}
                 /\ C # {} => IsEvidenceOf(k.edges[EvidenceId(id, a)], C, a)
  <2> DEFINE C == Citing(F, id, a)
             e == EvidenceId(id, a)
             new == [value |-> CitedValue(f, a), from |-> f.id, end |-> f.end]
  <2>1. C \in SUBSET AllFindings /\ Citing(F \cup {f}, id, a) = IF a \in Cited(f) THEN C \cup {f} ELSE C
    BY <1>3 DEF Citing
  <2>2. /\ e \in DOMAIN g.edges <=> C # {}
        /\ C # {} => IsEvidenceOf(g.edges[e], C, a)
        /\ e \in DOMAIN h.edges <=> Fresh(g, f, a)
        /\ Fresh(g, f, a) => h.edges[e] = new
        /\ Fresh(g, f, a) <=>
             a \in Cited(f) /\ (e \in DOMAIN g.edges => Newer(f.end, f.id, g.edges[e].end, g.edges[e].from))
    BY <1>1, <1>4 DEF Fresh
  <2>3. /\ e \in DOMAIN k.edges <=> e \in DOMAIN g.edges \/ Fresh(g, f, a)
        /\ Fresh(g, f, a) => k.edges[e] = new
        /\ ~Fresh(g, f, a) /\ e \in DOMAIN g.edges => k.edges[e] = g.edges[e]
    BY <2>2, UpsertRows
  <2>4. f \in AllFindings
    OBVIOUS
  <2>5. CASE a \notin Cited(f)
    BY <2>1, <2>2, <2>3, <2>5
  <2>6. CASE a \in Cited(f) /\ C = {}
    <3>1. Tops(f, {f})
      BY DEF Tops
    <3>2. IsEvidenceOf(new, {f}, a)
      BY <3>1 DEF IsEvidenceOf
    <3>3. Fresh(g, f, a)
      BY <2>2, <2>6
    <3>. QED BY <2>1, <2>3, <2>6, <3>2, <3>3
  <2>7. CASE a \in Cited(f) /\ C # {}
    <3> HIDE DEF C, e, new
    <3>1. IsEvidenceOf(g.edges[e], C, a) /\ e \in DOMAIN g.edges
      BY <2>2, <2>7
    <3>2. /\ Fresh(g, f, a) => IsEvidenceOf(new, C \cup {f}, a)
          /\ ~Fresh(g, f, a) => IsEvidenceOf(g.edges[e], C \cup {f}, a)
      BY <2>1, <2>2, <2>4, <2>7, <3>1, EvidenceOfMore DEF new
    <3>3. e \in DOMAIN k.edges /\ IsEvidenceOf(k.edges[e], C \cup {f}, a)
      BY <2>3, <3>1, <3>2
    <3>4. Citing(F \cup {f}, id, a) = C \cup {f}
      BY <2>1, <2>7
    <3>. QED BY <3>3, <3>4 DEF e
  <2>. QED BY <2>5, <2>6, <2>7
<1>7. Knows(k, F \cup {f}, {id})
  BY <1>3, <1>5, <1>6 DEF Knows
<1>8. \A i \in I : i \in I \ {id} \/ i \in {id}
  OBVIOUS
<1>. HIDE DEF k, id
<1>9. Knows(k, F \cup {f}, I)
  BY <1>2, <1>7, <1>8 DEF Knows
<1>. QED BY <1>9 DEF k, h

-----------------------------------------------------------------------------
(* What a run projects next. *)

LEMMA LeastIndex ==
  ASSUME NEW S \in SUBSET Nat, S # {}
  PROVE  /\ (CHOOSE i \in S : \A j \in S : i <= j) \in S
         /\ \A k \in S : (CHOOSE i \in S : \A j \in S : i <= j) <= k
<1>1. PICK m \in S : \A k \in S : <<k, m>> \notin OpToRel(<, Nat)
  BY WFMin, NatLessThanWellFounded, Zenon
<1>2. \A k \in S : ~(k < m)
  <2>1. \A k, n \in Nat : k < n => <<k, n>> \in OpToRel(<, Nat)
    BY Zenon DEF OpToRel
  <2>. QED BY <1>1, <2>1
<1>3. \A k \in S : m <= k
  BY <1>2
<1> DEFINE Least(i) == \A j \in S : i <= j
<1>4. Least(m)
  BY <1>3
<1>. HIDE DEF Least
<1>5. (CHOOSE i \in S : Least(i)) \in S /\ Least(CHOOSE i \in S : Least(i))
  BY <1>4
<1>. QED BY <1>5, Zenon DEF Least

LEMMA NextIsNew ==
  ASSUME NEW w \in Workers, Planned(w), job[w] \in Frames, todo[w].left # {}
  PROVE  /\ NextIndex(w) \in todo[w].left
         /\ NextFinding(w) \in news[w].findings
         /\ NextFinding(w) \in FoundIn(job[w]) /\ NextFinding(w) \in AllFindings
         /\ NextFinding(w).identity \in IdentitiesOf(job[w].unit)
<1>1. DOMAIN todo[w].result.findings \subseteq Nat
  <2>1. CASE todo[w].result \in ResultsOf(job[w])
    BY <2>1, ResultsAreSequences DEF ResultsOf
  <2>2. CASE todo[w].result = OfEngines(job[w])
    <3>1. todo[w].result.findings = job[w].found
      BY <2>2 DEF OfEngines
    <3>. QED BY <3>1, ResultsAreSequences
  <2>3. CASE todo[w].result = Nothing.result
    BY <2>3 DEF Nothing
  <2>. QED BY <2>1, <2>2, <2>3 DEF Planned
<1>2. todo[w].left \in SUBSET Nat
  BY <1>1 DEF Planned, Changed
<1>3. NextIndex(w) \in todo[w].left
  BY <1>2, LeastIndex DEF NextIndex
<1>4. NextFinding(w) \in news[w].findings
  BY <1>3 DEF NextFinding, Planned, Changed
<1>5. NextFinding(w) \in FoundIn(job[w])
  BY <1>4 DEF Planned
<1>6. NextFinding(w) \in AllFindings /\ NextFinding(w).unit = job[w].unit
  BY <1>5, FramesAreOfUnits DEF AllFindings
<1>. QED BY <1>3, <1>4, <1>5, <1>6 DEF IdentitiesOf

(* A run does not see what others do: they leave its conditions alone. *)
Stays(v) ==
  /\ tx'[v] = tx[v] /\ news'[v] = news[v] /\ pc'[v] = pc[v] /\ job'[v] = job[v]
  /\ todo'[v] = todo[v] /\ seen'[v] = seen[v]

LEMMA OthersFold ==
  ASSUME Typed, Folds, NEW v \in Workers, Stays(v), findings \subseteq findings',
         pc[v] = "project" =>
           /\ Agree(graph, graph', IdentitiesOf(job[v].unit))
           /\ \A i \in IdentitiesOf(job[v].unit) : Of(findings', i) = Of(findings, i)
  PROVE  Working(v)' /\ Folding(v)'
<1> DEFINE I == IdentitiesOf(job[v].unit)
<1>1. Working(v) /\ Folding(v)
  BY DEF Folds
<1>2. pc[v] # "idle" => job[v] \in Frames
  BY DEF Typed, Stages
<1>3. Planned(v) => Planned(v)'
  <2>1. \A i : OfIdentity(i) # {} => OfIdentity(i)' # {}
    BY DEF OfIdentity
  <2>. QED BY <2>1 DEF Planned, Stays
<1>4. Waiting(v) => Waiting(v)'
  BY DEF Waiting, Stays
<1>5. Left(v)' = Left(v)
  BY DEF Left, Stays
<1>6. pc[v] = "project" => Agree(Visible(v), Visible(v)', I)
  BY AgreeUnder DEF Visible, Stays
<1>7. ASSUME pc[v] = "project", todo[v].left # {} PROVE Current(v)' = Current(v)
  <2>1. NextFinding(v)' = NextFinding(v)
    BY DEF NextFinding, NextIndex, Stays
  <2>2. NextFinding(v).identity \in I
    BY <1>1, <1>2, <1>7, NextIsNew DEF Working
  <2>3. Agree(Visible(v), Visible(v)', I)
    BY <1>6, <1>7
  <2>. HIDE DEF I
  <2>. QED BY <2>1, <2>2, <2>3 DEF Current, Agree
<1>8. Working(v)'
  <2>1. CASE pc[v] = "idle"
    BY <1>1, <1>4, <2>1 DEF Working, Stays
  <2>2. CASE pc[v] = "save"
    BY <1>1, <1>3, <1>4, <1>5, <2>2 DEF Working, Stays
  <2>3. CASE pc[v] = "project"
    <3>1. seen'[v] # <<>> => todo'[v].left # {} /\ seen'[v] = <<Current(v)'>>
      BY <1>1, <1>7, <2>3 DEF Working, Stays
    <3>2. DOMAIN Catalogue(job'[v].unit).nodes \subseteq DOMAIN tx'[v].nodes /\ Planned(v)'
      BY <1>1, <1>3, <2>3 DEF Working, Stays
    <3>. QED BY <2>3, <3>1, <3>2 DEF Working, Stays
  <2>4. pc[v] \in {"idle", "save", "project"}
    BY DEF Typed, Stages
  <2>. QED BY <2>1, <2>2, <2>3, <2>4
<1>9. Folding(v)'
  <2>1. SUFFICES ASSUME pc[v] = "project" PROVE Folding(v)'
    BY DEF Folding, Stays
  <2>2. Untold(tx'[v], Identities \ IdentitiesOf(job'[v].unit))
    BY <1>1, <2>1 DEF Folding, Stays
  <2>3. PICK P \in SUBSET news[v].findings :
          news[v].findings \subseteq P \cup Left(v) /\ Knows(Visible(v), findings \cup P, I)
    BY <1>1, <2>1 DEF Folding
  <2>4. \A i \in I : Of(findings \cup P, i) = Of(findings' \cup P, i)
    <3>1. \A i : Of(findings \cup P, i) = Of(findings, i) \cup Of(P, i)
      BY DEF Of
    <3>2. \A i : Of(findings' \cup P, i) = Of(findings', i) \cup Of(P, i)
      BY DEF Of
    <3>. QED BY <2>1, <3>1, <3>2
  <2>5. Knows(Visible(v)', findings' \cup P, I)
    BY <1>6, <2>1, <2>3, <2>4, KnowsIfAgree
  <2>6. /\ P \in SUBSET news'[v].findings /\ news'[v].findings \subseteq P \cup Left(v)'
        /\ Knows(Visible(v)', findings' \cup P, IdentitiesOf(job'[v].unit))
    BY <1>5, <2>3, <2>5 DEF Stays
  <2>. QED BY <2>2, <2>6 DEF Folding
<1>. QED BY <1>8, <1>9

(* A step that commits nothing: it is enough to look at who takes it. *)
LEMMA UncommittedFolds ==
  ASSUME Typed, Folds, NEW p \in Procs, UNCHANGED <<graph, findings>>,
         DOMAIN todo' = Workers, DOMAIN seen' = Workers,
         \A v \in Workers \ {p} : Stays(v),
         p \in Workers => Working(p)' /\ Folding(p)'
  PROVE  Folds'
<1>1. Knows(graph', findings', Identities)
  BY DEF Folds
<1>2. ASSUME NEW v \in Workers \ {p} PROVE Working(v)' /\ Folding(v)'
  <2>1. \A I : Agree(graph, graph', I)
    BY DEF Agree
  <2>. QED BY <2>1, OthersFold
<1>3. \A v \in Workers : Working(v)' /\ Folding(v)'
  BY <1>2
<1>. QED BY <1>1, <1>3 DEF Folds

LEMMA SeqsStaySeqs ==
  ASSUME NEW S, NEW a \in Seq(S), NEW b \in Seq(S), NEW n \in 0 .. Len(a)
  PROVE  SubSeq(a, 1, n) \in Seq(S) /\ SubSeq(a, 1, n) \o b \in Seq(S)
<1>1. SubSeq(a, 1, n) \in Seq(S)
  OBVIOUS
<1>. QED BY <1>1

LEMMA RunsAreOfFrame == ASSUME NEW f \in Frames PROVE LearnedResults(f) \subseteq Seq(ResultsOf(f))
<1> DEFINE P == {f.patterns[i] : i \in DOMAIN f.patterns}
           F == {f.forecast[i] : i \in DOMAIN f.forecast}
           S == P \cup F
<1>1. f.patterns \in Seq(P) /\ f.forecast \in Seq(F)
  BY ResultsAreSequences
<1>2. S \subseteq ResultsOf(f)
  <2> DEFINE a == f.patterns
             b == f.forecast
  <2>1. a \in Seq(S) /\ b \in Seq(S)
    BY <1>1, SeqGrows
  <2>2. P = {a[i] : i \in DOMAIN a} /\ F = {b[i] : i \in DOMAIN b}
    OBVIOUS
  <2>. HIDE DEF a, b, P, F, S
  <2>3. /\ Len(a) \in Nat /\ Len(b) \in Nat
        /\ DOMAIN a = 1 .. Len(a) /\ DOMAIN b = 1 .. Len(b)
        /\ DOMAIN (a \o b) = 1 .. Len(a) + Len(b)
        /\ \A k \in 1 .. Len(a) : (a \o b)[k] = a[k]
        /\ \A k \in 1 .. Len(b) : (a \o b)[Len(a) + k] = b[k]
    BY <2>1, ConcatParts
  <2>4. \A k \in DOMAIN a : k \in DOMAIN (a \o b) /\ (a \o b)[k] = a[k]
    BY <2>3
  <2>5. \A k \in DOMAIN b : Len(a) + k \in DOMAIN (a \o b) /\ (a \o b)[Len(a) + k] = b[k]
    BY <2>3
  <2>6. P \cup F \subseteq {(a \o b)[k] : k \in DOMAIN (a \o b)}
    BY <2>2, <2>4, <2>5
  <2>7. ResultsOf(f) = {(a \o b)[k] : k \in DOMAIN (a \o b)}
    BY DEF ResultsOf, Results, a, b
  <2>. QED BY <2>6, <2>7 DEF S
<1>3. f.patterns \in Seq(S) /\ f.forecast \in Seq(S)
  BY <1>1, SeqGrows
<1>. HIDE DEF P, F, S
<1>4. SUFFICES ASSUME NEW rs \in LearnedResults(f) PROVE rs \in Seq(S)
  BY <1>2, SeqGrows
<1>5. PICK n \in 0 .. Len(f.patterns) :
         rs = SubSeq(f.patterns, 1, n) \/ rs = SubSeq(f.patterns, 1, n) \o f.forecast
  BY DEF LearnedResults
<1>6. SubSeq(f.patterns, 1, n) \in Seq(S) /\ SubSeq(f.patterns, 1, n) \o f.forecast \in Seq(S)
  BY <1>3, SeqsStaySeqs
<1>. QED BY <1>5, <1>6

LEMMA BeginFolds == ASSUME Typed, Folds, NEW w \in Workers, Begin(w) PROVE Folds'
<1>0. w \in Procs /\ pc[w] = "idle" /\ Working(w)
  BY DEF Procs, Folds, Begin
<1>1. PICK f \in Frames \ completed : \E rs \in LearnedResults(f) :
        LET learned == UNION {{rs[i].findings[j] : j \in DOMAIN rs[i].findings} : i \in DOMAIN rs}
            all == {f.found[i] : i \in DOMAIN f.found} \cup learned
            known == {g \in all : g.identity \in {h.identity : h \in findings}}
        IN  /\ \E quiet \in SUBSET known :
                 /\ todo' = [todo EXCEPT ![w] =
                               [result |-> OfEngines(f), left |-> Changed(OfEngines(f), all \ quiet), results |-> rs]]
                 /\ news' = [news EXCEPT ![w].findings = all \ quiet]
            /\ job' = [job EXCEPT ![w] = f]
  BY DEF Begin
<1>2. PICK rs \in LearnedResults(f) :
        LET learned == UNION {{rs[i].findings[j] : j \in DOMAIN rs[i].findings} : i \in DOMAIN rs}
            all == {f.found[i] : i \in DOMAIN f.found} \cup learned
            known == {g \in all : g.identity \in {h.identity : h \in findings}}
        IN  /\ \E quiet \in SUBSET known :
                 /\ todo' = [todo EXCEPT ![w] =
                               [result |-> OfEngines(f), left |-> Changed(OfEngines(f), all \ quiet), results |-> rs]]
                 /\ news' = [news EXCEPT ![w].findings = all \ quiet]
            /\ job' = [job EXCEPT ![w] = f]
  BY <1>1
<1> DEFINE learned == UNION {{rs[i].findings[j] : j \in DOMAIN rs[i].findings} : i \in DOMAIN rs}
           all == {f.found[i] : i \in DOMAIN f.found} \cup learned
           known == {g \in all : g.identity \in {h.identity : h \in findings}}
<1>3. PICK quiet \in SUBSET known :
        /\ todo' = [todo EXCEPT ![w] =
                      [result |-> OfEngines(f), left |-> Changed(OfEngines(f), all \ quiet), results |-> rs]]
        /\ news' = [news EXCEPT ![w].findings = all \ quiet]
  BY <1>2
<1>4. learned \subseteq Learned(f)
  BY LearnedOfFrame
<1>5. rs \in Seq(ResultsOf(f))
  BY RunsAreOfFrame
<1> DEFINE new == all \ quiet
<1>6. /\ new \subseteq FoundIn(f)
      /\ \A i \in DOMAIN f.found : f.found[i] \in new \/ OfIdentity(f.found[i].identity) # {}
      /\ \A g \in new : \/ \E i \in DOMAIN f.found : g = f.found[i]
                        \/ \E k \in DOMAIN rs : \E j \in DOMAIN rs[k].findings : g = rs[k].findings[j]
  BY <1>4 DEF FoundIn, OfIdentity
<1>7. /\ todo' = [todo EXCEPT ![w] = [result |-> OfEngines(f), left |-> Changed(OfEngines(f), new), results |-> rs]]
      /\ news' = [news EXCEPT ![w].findings = new] /\ job' = [job EXCEPT ![w] = f]
  BY <1>2, <1>3
<1>. HIDE DEF learned, all, known, new
<1>8. /\ todo'[w] = [result |-> OfEngines(f), left |-> Changed(OfEngines(f), new), results |-> rs]
      /\ DOMAIN todo' = Workers /\ \A v \in Workers \ {w} : todo'[v] = todo[v]
  BY <1>7 DEF Folds
<1>9. /\ news'[w].findings = new /\ news'[w].models = news[w].models /\ job'[w] = f
      /\ \A q \in Procs \ {w} : news'[q] = news[q] /\ job'[q] = job[q]
  BY <1>0, <1>7 DEF Typed, Shape, NewsFields
<1>10. /\ pc'[w] = "save" /\ \A q \in Procs \ {w} : pc'[q] = pc[q]
       /\ UNCHANGED <<graph, findings, tx, seen>>
  BY <1>0 DEF Begin, tables, Typed, Shape
<1>11. \A v \in Workers \ {w} : Stays(v)
  BY <1>8, <1>9, <1>10 DEF Stays, Procs
<1>12. Waiting(w)'
  BY <1>0, <1>9, <1>10 DEF Working, Waiting
<1>13. /\ todo'[w].result = OfEngines(f) /\ todo'[w].left = Changed(OfEngines(f), new) /\ todo'[w].results = rs
       /\ DOMAIN todo'[w] = {"result", "left", "results"} /\ OfEngines(f).findings = f.found
  BY <1>8 DEF OfEngines
<1>14. Planned(w)'
  BY <1>5, <1>6, <1>9, <1>10, <1>13 DEF Planned, OfIdentity
<1>15. news'[w].findings \subseteq Left(w)'
  <2>1. ASSUME NEW i \in DOMAIN f.found, f.found[i] \in new PROVE f.found[i] \in Left(w)'
    <3>1. i \in todo'[w].left /\ todo'[w].result.findings[i] = f.found[i]
      BY <1>13, <2>1 DEF Changed
    <3>. QED BY <3>1 DEF Left
  <2>2. ASSUME NEW g \in new, NEW k \in DOMAIN rs, NEW j \in DOMAIN rs[k].findings, g = rs[k].findings[j]
        PROVE  g \in Left(w)'
    BY <1>9, <1>13, <2>2 DEF Left
  <2>. QED BY <1>6, <1>9, <2>1, <2>2
<1>16. Working(w)' /\ Folding(w)'
  BY <1>9, <1>10, <1>12, <1>13, <1>14, <1>15 DEF Working, Folding
<1>. QED BY <1>0, <1>8, <1>10, <1>11, <1>16, UncommittedFolds DEF Folds

(* A row that a run writes is a row it sees. *)
LEMMA WriteShows ==
  ASSUME Typed, NEW w \in Workers, NEW part, Write(w, part), UNCHANGED graph
  PROVE  /\ tx'[w] = Upsert(tx[w], part) /\ \A q \in Procs \ {w} : tx'[q] = tx[q]
         /\ Visible(w)' = Upsert(Visible(w), part)
         /\ DOMAIN tx[w].nodes \subseteq DOMAIN tx'[w].nodes
<1>1. tx'[w] = Upsert(tx[w], part) /\ \A q \in Procs \ {w} : tx'[q] = tx[q]
  BY WriteIsApart DEF Procs
<1>2. Visible(w)' = Upsert(Visible(w), part)
  BY <1>1, UpsertTwice DEF Visible
<1>. QED BY <1>1, <1>2, UpsertRows

LEMMA SaveFolds == ASSUME Typed, Folds, NEW w \in Workers, SaveAsset(w) PROVE Folds'
<1>0. /\ w \in Procs /\ pc[w] = "save" /\ Working(w) /\ job[w] \in Frames
      /\ Write(w, Catalogue(job[w].unit)) /\ UNCHANGED <<graph, findings, job, news, todo, seen>>
  BY DEF Procs, Folds, SaveAsset, tables, Typed, Stages
<1>1. /\ pc'[w] = "project" /\ \A q \in Procs \ {w} : pc'[q] = pc[q]
  BY <1>0 DEF SaveAsset, Typed, Shape
<1> DEFINE cat == Catalogue(job[w].unit)
           I == IdentitiesOf(job[w].unit)
<1>2. tx'[w] = Upsert(Empty, cat) /\ \A q \in Procs \ {w} : tx'[q] = tx[q]
  BY <1>0, WriteShows DEF Working, Waiting
<1>3. \A v \in Workers \ {w} : Stays(v)
  BY <1>0, <1>1, <1>2 DEF Stays, Procs
<1>4. \A J : Untold(tx'[w], J)
  BY <1>2, EmptyIsUntold, CatalogueIsUntold, UntoldTogether
<1>5. Left(w)' = Left(w) /\ (Planned(w) => Planned(w)')
  BY <1>0 DEF Left, Planned, OfIdentity
<1>6. Working(w)'
  <2>1. DOMAIN cat.nodes \subseteq DOMAIN tx'[w].nodes
    BY <1>2, UpsertRows
  <2>. QED BY <1>0, <1>1, <1>5, <2>1 DEF Working, Waiting
<1>7. Folding(w)'
  <2>1. Knows(graph, findings, I)
    BY DEF Folds, Knows, IdentitiesOf, Identities
  <2>2. Agree(graph, Visible(w)', I)
    BY <1>0, <1>4, AgreeIfUntold DEF Visible
  <2>3. Knows(Visible(w)', findings \cup {}, I)
    BY <2>1, <2>2, KnowsIfAgree
  <2>4. {} \in SUBSET news'[w].findings /\ news'[w].findings \subseteq {} \cup Left(w)'
    BY <1>0, <1>5 DEF Working
  <2>. QED BY <1>0, <1>4, <2>3, <2>4 DEF Folding
<1>. QED BY <1>0, <1>3, <1>6, <1>7, UncommittedFolds DEF Folds

LEMMA ReadFolds == ASSUME Typed, Folds, NEW w \in Workers, ReadCondition(w) PROVE Folds'
<1>0. /\ w \in Procs /\ pc[w] = "project" /\ todo[w].left # {} /\ Working(w) /\ Folding(w)
      /\ UNCHANGED <<graph, findings, pc, job, tx, news, todo>>
  BY DEF Procs, Folds, ReadCondition, At, tables
<1>1. /\ seen'[w] = <<Current(w)>> /\ DOMAIN seen' = Workers
      /\ \A v \in Workers \ {w} : seen'[v] = seen[v]
  BY DEF ReadCondition, Current, Folds
<1>2. \A v \in Workers \ {w} : Stays(v)
  BY <1>0, <1>1 DEF Stays, Procs
<1>3. /\ Left(w)' = Left(w) /\ (Planned(w) => Planned(w)')
      /\ Visible(w)' = Visible(w) /\ Current(w)' = Current(w)
  BY <1>0 DEF Left, Planned, OfIdentity, Visible, Current, NextFinding, NextIndex
<1>4. Working(w)'
  BY <1>0, <1>1, <1>3 DEF Working
<1>5. Folding(w)'
  BY <1>0, <1>3 DEF Folding
<1>. QED BY <1>0, <1>1, <1>2, <1>4, <1>5, UncommittedFolds DEF Folds

(* What is projected is left no longer, and nothing else is forgotten. *)
LEMMA FindingLeaves ==
  ASSUME Typed, Folds, NEW w \in Workers, WriteFinding(w)
  PROVE  Left(w) \subseteq Left(w)' \cup {NextFinding(w)}
<1>1. UNCHANGED news /\ Working(w) /\ pc[w] = "project"
  BY DEF WriteFinding, At, Folds
<1>2. /\ todo'[w].left = todo[w].left \ {NextIndex(w)} /\ todo'[w].result = todo[w].result
      /\ todo'[w].results = todo[w].results
  BY <1>1 DEF WriteFinding, Folds, Working, Planned
<1>. QED BY <1>1, <1>2 DEF Left, NextFinding

LEMMA WriteFindingFolds == ASSUME Typed, Folds, NEW w \in Workers, WriteFinding(w) PROVE Folds'
<1>0. /\ w \in Procs /\ pc[w] = "project" /\ todo[w].left # {} /\ job[w] \in Frames
      /\ Working(w) /\ Folding(w) /\ Planned(w) /\ seen[w] = <<Current(w)>>
      /\ Write(w, FindingRows(w)) /\ UNCHANGED <<graph, findings, pc, job, news>>
  BY DEF Procs, Folds, WriteFinding, At, tables, Typed, Stages, Working
<1> DEFINE f == NextFinding(w)
           i == NextIndex(w)
           I == IdentitiesOf(job[w].unit)
           rows == FindingRows(w)
<1>1. i \in todo[w].left /\ f \in news[w].findings /\ f \in AllFindings /\ f.identity \in I
  BY <1>0, NextIsNew
<1>2. /\ todo'[w].left = todo[w].left \ {i} /\ todo'[w].result = todo[w].result
      /\ todo'[w].results = todo[w].results /\ DOMAIN todo'[w] = DOMAIN todo[w]
      /\ DOMAIN todo' = Workers /\ \A v \in Workers \ {w} : todo'[v] = todo[v]
  BY <1>0 DEF WriteFinding, Folds, Planned
<1>3. seen'[w] = <<>> /\ DOMAIN seen' = Workers /\ \A v \in Workers \ {w} : seen'[v] = seen[v]
  BY DEF WriteFinding, Folds
<1>4. /\ tx'[w] = Upsert(tx[w], rows) /\ \A q \in Procs \ {w} : tx'[q] = tx[q]
      /\ Visible(w)' = Upsert(Visible(w), rows)
      /\ DOMAIN tx[w].nodes \subseteq DOMAIN tx'[w].nodes
  BY <1>0, WriteShows
<1>5. rows = Upsert(FindingPart(Visible(w), Current(w), f), SuggestPart(f, todo[w].result))
  BY <1>0 DEF FindingRows
<1>6. /\ f = todo[w].result.findings[i]
      /\ Current(w) = IF ConditionId(f.identity) \in DOMAIN Visible(w).nodes
                      THEN Visible(w).nodes[ConditionId(f.identity)] ELSE Unseen
  BY DEF NextFinding, Current
<1>. HIDE DEF f, i, rows
<1>7. \A v \in Workers \ {w} : Stays(v)
  BY <1>0, <1>2, <1>3, <1>4 DEF Stays, Procs
<1>8. Planned(w)'
  BY <1>0, <1>2 DEF Planned, OfIdentity
<1>9. Working(w)'
  BY <1>0, <1>3, <1>4, <1>8 DEF Working
<1>10. Left(w) \subseteq Left(w)' \cup {f}
  BY FindingLeaves DEF f
<1>11. PICK P \in SUBSET news[w].findings :
         news[w].findings \subseteq P \cup Left(w) /\ Knows(Visible(w), findings \cup P, I)
  BY <1>0 DEF Folding
<1>12. findings \cup P \in SUBSET AllFindings
  BY <1>0 DEF Typed, Recorded
<1>13. Knows(Upsert(Visible(w), rows), (findings \cup P) \cup {f}, I)
  BY <1>1, <1>5, <1>6, <1>11, <1>12, KnowsMore
<1>14. (findings \cup P) \cup {f} = findings \cup (P \cup {f})
  OBVIOUS
<1>15. /\ P \cup {f} \in SUBSET news'[w].findings
       /\ news'[w].findings \subseteq (P \cup {f}) \cup Left(w)'
       /\ Knows(Visible(w)', findings' \cup (P \cup {f}), IdentitiesOf(job'[w].unit))
  BY <1>0, <1>1, <1>4, <1>10, <1>11, <1>13, <1>14
<1>16. Untold(tx'[w], Identities \ IdentitiesOf(job'[w].unit))
  <2>1. Untold(rows, Identities \ I)
    BY <1>1, <1>5, FindingIsUntold
  <2>2. Untold(tx[w], Identities \ I)
    BY <1>0 DEF Folding
  <2>. QED BY <1>0, <1>4, <2>1, <2>2, UntoldTogether
<1>17. Folding(w)'
  BY <1>15, <1>16 DEF Folding
<1>. QED BY <1>0, <1>2, <1>3, <1>7, <1>9, <1>17, UncommittedFolds

LEMMA TakeHead ==
  ASSUME NEW S, NEW s \in Seq(S), s # <<>>
  PROVE  /\ Head(s) \in S /\ Tail(s) \in Seq(S)
         /\ \A k \in DOMAIN s : s[k] = Head(s) \/ \E j \in DOMAIN Tail(s) : Tail(s)[j] = s[k]
<1>1. Head(s) \in S /\ Tail(s) \in Seq(S)
  OBVIOUS
<1>2. \A k \in DOMAIN s : k = 1 \/ (k - 1 \in DOMAIN Tail(s) /\ Tail(s)[k - 1] = s[k])
  OBVIOUS
<1>3. Head(s) = s[1]
  OBVIOUS
<1>. QED BY <1>1, <1>2, <1>3

LEMMA ModelLeaves ==
  ASSUME Typed, Folds, NEW w \in Workers, WriteModel(w) PROVE Left(w) \subseteq Left(w)'
<1> DEFINE r == Head(todo[w].results)
<1>0. /\ todo[w].left = {} /\ todo[w].results # <<>> /\ Planned(w) /\ UNCHANGED news
      /\ todo'[w] = [result |-> r, left |-> Changed(r, news[w].findings), results |-> Tail(todo[w].results)]
  BY DEF Folds, Working, WriteModel, ToModel, TakeResult, At
<1>1. \A k \in DOMAIN todo[w].results :
        \/ todo[w].results[k] = r
        \/ \E j \in DOMAIN Tail(todo[w].results) : Tail(todo[w].results)[j] = todo[w].results[k]
  BY <1>0, TakeHead DEF Planned
<1>. HIDE DEF r
<1>2. /\ todo'[w].result = r /\ todo'[w].left = Changed(r, news[w].findings)
      /\ todo'[w].results = Tail(todo[w].results)
  BY <1>0
<1>3. SUFFICES ASSUME NEW f \in news[w].findings, NEW k \in DOMAIN todo[w].results,
                      NEW j \in DOMAIN todo[w].results[k].findings, f = todo[w].results[k].findings[j]
               PROVE  f \in Left(w)'
  BY <1>0 DEF Left
<1>4. CASE todo[w].results[k] = r
  <2>1. j \in todo'[w].left /\ todo'[w].result.findings[j] = f
    BY <1>2, <1>3, <1>4 DEF Changed
  <2>. QED BY <2>1 DEF Left
<1>5. ASSUME NEW m \in DOMAIN todo'[w].results, todo'[w].results[m] = todo[w].results[k]
      PROVE  f \in Left(w)'
  BY <1>0, <1>3, <1>5 DEF Left
<1>. QED BY <1>1, <1>2, <1>4, <1>5

LEMMA WriteModelFolds == ASSUME Typed, Folds, NEW w \in Workers, WriteModel(w) PROVE Folds'
<1>0. /\ w \in Procs /\ pc[w] = "project" /\ todo[w].left = {} /\ job[w] \in Frames
      /\ todo[w].results # <<>> /\ Working(w) /\ Folding(w) /\ Planned(w) /\ seen[w] = <<>>
      /\ Write(w, ModelPart(Head(todo[w].results))) /\ UNCHANGED <<graph, findings, pc, job, news, seen>>
  BY DEF Procs, Folds, WriteModel, ToModel, At, tables, Typed, Stages, Working
<1> DEFINE r == Head(todo[w].results)
           I == IdentitiesOf(job[w].unit)
<1>1. /\ todo'[w] = [result |-> r, left |-> Changed(r, news[w].findings), results |-> Tail(todo[w].results)]
      /\ DOMAIN todo' = Workers /\ \A v \in Workers \ {w} : todo'[v] = todo[v]
  BY DEF WriteModel, TakeResult, Folds
<1>2. r \in ResultsOf(job[w]) /\ Tail(todo[w].results) \in Seq(ResultsOf(job[w]))
  BY <1>0, TakeHead DEF Planned
<1>3. /\ tx'[w] = Upsert(tx[w], ModelPart(r)) /\ \A q \in Procs \ {w} : tx'[q] = tx[q]
      /\ Visible(w)' = Upsert(Visible(w), ModelPart(r))
      /\ DOMAIN tx[w].nodes \subseteq DOMAIN tx'[w].nodes
  BY <1>0, WriteShows
<1>. HIDE DEF r
<1>4. /\ todo'[w].result = r /\ todo'[w].left = Changed(r, news[w].findings)
      /\ todo'[w].results = Tail(todo[w].results) /\ DOMAIN todo'[w] = {"result", "left", "results"}
  BY <1>1
<1>5. \A v \in Workers \ {w} : Stays(v)
  BY <1>0, <1>1, <1>3 DEF Stays, Procs
<1>6. Planned(w)'
  BY <1>0, <1>2, <1>4 DEF Planned, OfIdentity
<1>7. Working(w)'
  BY <1>0, <1>3, <1>6 DEF Working
<1>8. Left(w) \subseteq Left(w)'
  BY ModelLeaves
<1>9. Folding(w)'
  <2>1. PICK P \in SUBSET news[w].findings :
          news[w].findings \subseteq P \cup Left(w) /\ Knows(Visible(w), findings \cup P, I)
    BY <1>0 DEF Folding
  <2>2. \A J : Untold(ModelPart(r), J)
    BY ModelIsUntold
  <2>3. Agree(Visible(w), Visible(w)', I)
    BY <1>3, <2>2, AgreeIfUntold
  <2>4. Knows(Visible(w)', findings \cup P, I)
    BY <2>1, <2>3, KnowsIfAgree
  <2>5. Untold(tx'[w], Identities \ I)
    BY <1>0, <1>3, <2>2, UntoldTogether DEF Folding
  <2>6. P \in SUBSET news'[w].findings /\ news'[w].findings \subseteq P \cup Left(w)'
    BY <1>0, <1>8, <2>1
  <2>. QED BY <1>0, <2>4, <2>5, <2>6 DEF Folding
<1>. QED BY <1>0, <1>1, <1>5, <1>7, <1>9, UncommittedFolds DEF Folds

LEMMA RecordFolds == ASSUME Typed, Folds, NEW w \in Workers, RecordModel(w) PROVE Folds'
<1>0. /\ w \in Procs /\ pc[w] = "project" /\ todo[w].left = {} /\ seen[w] = <<>>
      /\ Working(w) /\ Folding(w) /\ Planned(w) /\ UNCHANGED <<graph, findings, pc, job, tx, seen>>
  BY DEF Procs, Folds, RecordModel, ToRecord, At, tables, Working
<1>1. /\ todo'[w].result = Nothing.result /\ todo'[w].left = todo[w].left
      /\ todo'[w].results = todo[w].results /\ DOMAIN todo'[w] = DOMAIN todo[w]
      /\ DOMAIN todo' = Workers /\ \A v \in Workers \ {w} : todo'[v] = todo[v]
  BY <1>0 DEF RecordModel, FinishResult, Folds, Planned
<1>2. /\ news'[w].findings = news[w].findings /\ \A q \in Procs \ {w} : news'[q] = news[q]
  <2>1. PICK new : news' = [news EXCEPT ![w].models = new]
    BY DEF RecordModel
  <2>. QED BY <1>0, <2>1 DEF Typed, Shape, NewsFields
<1>3. \A v \in Workers \ {w} : Stays(v)
  BY <1>0, <1>1, <1>2 DEF Stays, Procs
<1>4. Left(w)' = Left(w) /\ Visible(w)' = Visible(w)
  BY <1>0, <1>1, <1>2 DEF Left, Visible
<1>5. Planned(w)'
  BY <1>0, <1>1, <1>2 DEF Planned, OfIdentity
<1>6. Working(w)' /\ Folding(w)'
  BY <1>0, <1>2, <1>4, <1>5 DEF Working, Folding
<1>. QED BY <1>0, <1>1, <1>3, <1>6, UncommittedFolds DEF Folds

(* Two runs that have written know of different conditions: both hold the rows of
   their unit. *)
LEMMA UnitsAreApart ==
  ASSUME Typed, Folds, NEW v \in Workers, NEW w \in Workers, v # w, pc[v] = "project", pc[w] = "project"
  PROVE  IdentitiesOf(job[v].unit) \subseteq Identities \ IdentitiesOf(job[w].unit)
<1>1. Working(v) /\ Working(w) /\ v \in Procs /\ w \in Procs
  BY DEF Folds, Procs
<1>2. \A u : EquipmentId(u) \in DOMAIN Catalogue(u).nodes
  BY DEF Catalogue, Plain
<1>3. EquipmentId(job[v].unit) \in DOMAIN tx[v].nodes /\ EquipmentId(job[w].unit) \in DOMAIN tx[w].nodes
  BY <1>1, <1>2 DEF Working
<1>4. job[v].unit # job[w].unit
  BY <1>1, <1>3 DEF Typed, Apart
<1>. QED BY <1>4, IdentitiesAreHashes DEF IdentitiesOf, Identities

LEMMA CommitFolds == ASSUME Typed, Folds, NEW w \in Workers, CommitRun(w) PROVE Folds'
<1>0. /\ w \in Procs /\ pc[w] = "project" /\ todo[w].left = {} /\ todo[w].results = <<>>
      /\ Working(w) /\ Folding(w) /\ Planned(w) /\ seen[w] = <<>> /\ Clear(w)
      /\ graph' = Visible(w) /\ findings' = findings \cup news[w].findings /\ UNCHANGED seen
  BY DEF Procs, Folds, CommitRun, ToModel, ToRecord, At, Working
<1> DEFINE I == IdentitiesOf(job[w].unit)
           J == Identities \ I
<1>1. /\ pc'[w] = "idle" /\ todo'[w] = Nothing
      /\ \A q \in Procs \ {w} : pc'[q] = pc[q] /\ job'[q] = job[q]
      /\ DOMAIN todo' = Workers /\ \A v \in Workers \ {w} : todo'[v] = todo[v]
  BY <1>0 DEF CommitRun, Folds, Typed, Shape
<1>2. /\ tx'[w] = Empty /\ news'[w] = NoNews
      /\ \A q \in Procs \ {w} : tx'[q] = tx[q] /\ news'[q] = news[q]
  BY <1>0, ClearIsApart
<1>3. Left(w) = {}
  BY <1>0 DEF Left
<1>4. PICK P \in SUBSET news[w].findings :
        news[w].findings \subseteq P \cup Left(w) /\ Knows(Visible(w), findings \cup P, I)
  BY <1>0 DEF Folding
<1>5. Knows(graph', findings', I)
  <2>1. findings \cup P = findings'
    BY <1>0, <1>3, <1>4
  <2>. QED BY <1>0, <1>4, <2>1
<1>6. \A i \in J : Of(findings', i) = Of(findings, i)
  <2>1. \A f \in news[w].findings : f.identity \in I
    <3>1. job[w] \in Frames
      BY <1>0 DEF Typed, Stages
    <3>. QED BY <1>0, <3>1, FramesAreOfUnits DEF Planned, IdentitiesOf, AllFindings
  <2>. HIDE DEF I
  <2>. QED BY <1>0, <2>1 DEF Of
<1>7. Agree(graph, graph', J)
  BY <1>0, AgreeIfUntold DEF Folding, Visible
<1>8. Knows(graph', findings', J)
  <2>1. Knows(graph, findings, J)
    BY DEF Folds, Knows
  <2>. QED BY <1>6, <1>7, <2>1, KnowsIfAgree
<1>9. Knows(graph', findings', Identities)
  <2>1. \A i \in Identities : i \in I \/ i \in J
    OBVIOUS
  <2>. HIDE DEF I, J
  <2>. QED BY <1>5, <1>8, <2>1 DEF Knows
<1>10. ASSUME NEW v \in Workers \ {w} PROVE Working(v)' /\ Folding(v)'
  <2>1. Stays(v)
    BY <1>0, <1>1, <1>2 DEF Stays, Procs
  <2>2. pc[v] = "project" =>
          /\ Agree(graph, graph', IdentitiesOf(job[v].unit))
          /\ \A i \in IdentitiesOf(job[v].unit) : Of(findings', i) = Of(findings, i)
    <3>1. pc[v] = "project" => IdentitiesOf(job[v].unit) \subseteq J
      BY <1>0, UnitsAreApart
    <3>. HIDE DEF J
    <3>. QED BY <1>6, <1>7, <3>1 DEF Agree
  <2>3. findings \subseteq findings'
    BY <1>0
  <2>. QED BY <2>1, <2>2, <2>3, OthersFold
<1>11. Working(w)' /\ Folding(w)'
  BY <1>0, <1>1, <1>2 DEF Working, Waiting, Folding, NoNews
<1>. QED BY <1>0, <1>1, <1>9, <1>10, <1>11 DEF Folds

(* A request tells nothing of a condition. *)
LEMMA ReplyFolds == ASSUME Typed, Given, Folds, NEW r \in Requests, Reply(r) PROVE Folds'
<1>0. /\ r \in Procs /\ r \notin Workers /\ pc[r] = "reply" /\ Pending(r) /\ Clear(r)
      /\ UNCHANGED <<findings, todo, seen, job>> /\ graph' = Visible(r)
  BY ProcsAreDistinct DEF Procs, Given, Reply
<1>1. \A q \in Procs \ {r} : tx'[q] = tx[q] /\ news'[q] = news[q] /\ pc'[q] = pc[q]
  BY <1>0, ClearIsApart DEF Reply, Typed, Shape
<1>2. \A J : Agree(graph, graph', J)
  BY <1>0, VerdictIsUntold, AgreeIfUntold DEF Pending, Visible
<1>3. Knows(graph', findings', Identities)
  BY <1>0, <1>2, KnowsIfAgree DEF Folds
<1>4. ASSUME NEW v \in Workers PROVE Working(v)' /\ Folding(v)'
  <2>1. Stays(v)
    BY <1>0, <1>1 DEF Stays, Procs
  <2>. QED BY <1>0, <1>2, <2>1, OthersFold
<1>. QED BY <1>0, <1>3, <1>4 DEF Folds

LEMMA AbortFolds == ASSUME Typed, Folds, NEW p \in Procs, Abort(p) PROVE Folds'
<1>1. Clear(p) /\ UNCHANGED <<graph, findings>>
  BY DEF Abort, tables
<1>2. /\ pc'[p] = (IF p \in Workers THEN "idle" ELSE "done")
      /\ \A q \in Procs \ {p} : pc'[q] = pc[q] /\ job'[q] = job[q]
  BY DEF Abort, Typed, Shape
<1>3. /\ DOMAIN todo' = Workers /\ DOMAIN seen' = Workers
      /\ \A v \in Workers \ {p} : todo'[v] = todo[v] /\ seen'[v] = seen[v]
      /\ p \in Workers => todo'[p] = Nothing /\ seen'[p] = <<>>
  BY DEF Abort
<1>4. /\ tx'[p] = Empty /\ news'[p] = NoNews
      /\ \A q \in Procs \ {p} : tx'[q] = tx[q] /\ news'[q] = news[q]
  BY <1>1, ClearIsApart
<1>5. \A v \in Workers \ {p} : Stays(v)
  BY <1>2, <1>3, <1>4 DEF Stays, Procs
<1>6. p \in Workers => Working(p)' /\ Folding(p)'
  BY <1>2, <1>3, <1>4 DEF Working, Waiting, Folding, NoNews
<1>. QED BY <1>1, <1>3, <1>5, <1>6, UncommittedFolds

LEMMA InitFolds == Init => Folds
<1>. SUFFICES ASSUME Init PROVE Folds
  OBVIOUS
<1>1. \A w \in Workers : Working(w) /\ Folding(w)
  BY DEF Init, Working, Waiting, Folding, Procs, NoNews
<1>2. Knows(graph, findings, Identities)
  BY DEF Init, Knows, Of, Citing, Empty
<1>. QED BY <1>1, <1>2 DEF Init, Folds

LEMMA NextFolds == Typed /\ Given /\ Folds /\ [Next]_vars => Folds'
<1>. SUFFICES ASSUME Typed, Given, Folds, [Next]_vars PROVE Folds'
  OBVIOUS
<1>1. CASE UNCHANGED vars
  <2>1. \A v \in Workers : Stays(v)
    BY <1>1 DEF vars, Stays
  <2>2. \A I : Agree(graph, graph', I)
    BY <1>1 DEF vars, tables, Agree
  <2>3. UNCHANGED <<graph, findings, todo, seen>>
    BY <1>1 DEF vars, tables
  <2>4. \A v \in Workers : Working(v)' /\ Folding(v)'
    BY <2>1, <2>2, <2>3, OthersFold
  <2>. QED BY <2>3, <2>4 DEF Folds
<1>2. ASSUME NEW w \in Workers, Begin(w) \/ RunStep(w) PROVE Folds'
  BY <1>2, BeginFolds, SaveFolds, ReadFolds, WriteFindingFolds, WriteModelFolds, RecordFolds, CommitFolds
     DEF RunStep
<1>3. ASSUME NEW r \in Requests, Judge(r) \/ Record(r) \/ ProjectVerdict(r) PROVE Folds'
  <2>0. r \in Procs /\ r \notin Workers
    BY ProcsAreDistinct DEF Procs
  <2>1. UNCHANGED <<graph, findings, todo, seen>>
    BY <1>3 DEF Judge, Record, ProjectVerdict, tables
  <2>2. \A q \in Procs \ {r} : pc'[q] = pc[q] /\ job'[q] = job[q]
    BY <1>3, <2>0 DEF Judge, Record, ProjectVerdict, Typed, Shape
  <2>3. \A q \in Procs \ {r} : tx'[q] = tx[q] /\ news'[q] = news[q]
    <3>1. CASE Judge(r)
      BY <3>1 DEF Judge
    <3>2. CASE Record(r)
      BY <2>0, <3>2 DEF Record, Typed, Shape
    <3>3. CASE ProjectVerdict(r)
      BY <2>0, <3>3, WriteIsApart DEF ProjectVerdict
    <3>. QED BY <1>3, <3>1, <3>2, <3>3
  <2>4. \A v \in Workers \ {r} : Stays(v)
    BY <2>0, <2>1, <2>2, <2>3 DEF Stays, Procs
  <2>. QED BY <2>0, <2>1, <2>4, UncommittedFolds DEF Folds
<1>4. ASSUME NEW r \in Requests, Reply(r) PROVE Folds'
  BY <1>4, ReplyFolds
<1>5. ASSUME NEW p \in Procs, Abort(p) PROVE Folds'
  BY <1>5, AbortFolds
<1>. QED BY <1>1, <1>2, <1>3, <1>4, <1>5 DEF Next, RequestStep

(* The invariant says what the property says, which chooses the newest finding. *)
LEMMA FoldsSay == Typed /\ Folds => ConditionsAreFolds
<1>. SUFFICES ASSUME Typed, Folds PROVE ConditionsAreFolds
  OBVIOUS
<1>0. findings \subseteq AllFindings /\ Knows(graph, findings, Identities)
  BY DEF Typed, Recorded, Folds
<1>1. \A i : OfIdentity(i) = Of(findings, i) /\ OfIdentity(i) \in SUBSET AllFindings
  BY <1>0 DEF OfIdentity, Of
<1>2. \A i \in Identities : ConditionId(i) \in DOMAIN graph.nodes <=> OfIdentity(i) # {}
  BY <1>0, <1>1 DEF Knows
<1>3. Conditions = {f.identity : f \in findings}
  <2>1. \A f \in findings : f.identity \in Identities
    BY <1>0 DEF Identities
  <2>. QED BY <1>2, <2>1 DEF Conditions, OfIdentity
<1>4. ASSUME NEW i \in Conditions PROVE graph.nodes[ConditionId(i)] = ConditionOf(OfIdentity(i))
  <2>1. i \in Identities /\ OfIdentity(i) # {}
    BY <1>2 DEF Conditions
  <2>2. IsConditionOf(graph.nodes[ConditionId(i)], OfIdentity(i))
    BY <1>0, <1>1, <2>1 DEF Knows
  <2>. QED BY <1>1, <2>2, ConditionIsUnique
<1>5. ASSUME NEW i \in Conditions, NEW f \in OfIdentity(i), NEW a \in Cited(f)
      PROVE  graph.edges[<<ConditionId(i), ArtifactRefId(a), "has_evidence">>] = EvidenceOf(OfIdentity(i), a)
  <2>1. i \in Identities /\ a \in Artifacts /\ Citing(findings, i, a) # {}
    BY <1>0, <1>1 DEF Conditions, Artifacts, Citing
  <2>2. IsEvidenceOf(graph.edges[EvidenceId(i, a)], Citing(findings, i, a), a)
    BY <1>0, <2>1 DEF Knows
  <2>3. Citing(findings, i, a) = {g \in OfIdentity(i) : a \in Cited(g)}
    BY <1>1 DEF Citing
  <2>4. graph.edges[EvidenceId(i, a)] = EvidenceOf(OfIdentity(i), a)
    BY <1>1, <2>2, <2>3, EvidenceIsUnique
  <2>. QED BY <2>4 DEF EvidenceId
<1>. QED BY <1>3, <1>4, <1>5 DEF ConditionsAreFolds

(* What the graph knows of a condition is a function of its recorded findings
   (projector.py), for any number of runs that overlap, fail and read before they
   wait. *)
THEOREM GraphFollowsFindings == Spec => []ConditionsAreFolds
<1>1. Init => Typed /\ Given /\ Folds
  BY InitTyped, InitGiven, InitFolds
<1>2. Typed /\ Given /\ Folds /\ [Next]_vars => Typed' /\ Given' /\ Folds'
  BY NextTyped, NextGiven, NextFolds
<1>. QED BY <1>1, <1>2, FoldsSay, PTL DEF Spec

-----------------------------------------------------------------------------
(* Who takes a step leaves the others where they are. *)

Mover(p) ==
  \/ p \in Workers /\ (Begin(p) \/ RunStep(p))
  \/ p \in Requests /\ (Judge(p) \/ RequestStep(p))
  \/ Abort(p)

LEMMA OthersRest ==
  ASSUME Typed, Folds, NEW p \in Procs, Mover(p)
  PROVE  /\ \A q \in Procs \ {p} : tx'[q] = tx[q] /\ news'[q] = news[q] /\ pc'[q] = pc[q] /\ job'[q] = job[q]
         /\ \A v \in Workers \ {p} : todo'[v] = todo[v] /\ seen'[v] = seen[v]
         /\ \A v \in Workers \ {p} : Stays(v)
<1>0. /\ DOMAIN tx = Procs /\ DOMAIN job = Procs /\ DOMAIN news = Procs /\ DOMAIN todo = Workers /\ DOMAIN seen = Workers
      /\ pc = [q \in Procs |-> pc[q]]
  BY DEF Typed, Shape, Folds
<1>1. CASE p \in Workers /\ Begin(p)
  <2>1. PICK new : news' = [news EXCEPT ![p].findings = new]
    BY <1>1 DEF Begin
  <2>2. PICK f : job' = [job EXCEPT ![p] = f]
    BY <1>1 DEF Begin
  <2>3. PICK t : todo' = [todo EXCEPT ![p] = t]
    BY <1>1 DEF Begin
  <2>. QED BY <1>0, <1>1, <2>1, <2>2, <2>3 DEF Begin, Stays, Procs
<1>2. CASE p \in Workers /\ SaveAsset(p)
  <2>1. \A q \in Procs \ {p} : tx'[q] = tx[q]
    BY <1>2, WriteIsApart DEF SaveAsset
  <2>. QED BY <1>0, <1>2, <2>1 DEF SaveAsset, Stays, Procs
<1>3. CASE p \in Workers /\ ReadCondition(p)
  BY <1>0, <1>3 DEF ReadCondition, Stays, Procs
<1>4. CASE p \in Workers /\ WriteFinding(p)
  <2>1. \A q \in Procs \ {p} : tx'[q] = tx[q]
    BY <1>4, WriteIsApart DEF WriteFinding
  <2>. QED BY <1>0, <1>4, <2>1 DEF WriteFinding, Stays, Procs
<1>5. CASE p \in Workers /\ WriteModel(p)
  <2>1. \A q \in Procs \ {p} : tx'[q] = tx[q]
    BY <1>5, WriteIsApart DEF WriteModel
  <2>2. PICK t : todo' = [todo EXCEPT ![p] = t]
    BY <1>5 DEF WriteModel, TakeResult
  <2>. QED BY <1>0, <1>5, <2>1, <2>2 DEF WriteModel, Stays, Procs
<1>6. CASE p \in Workers /\ RecordModel(p)
  <2>1. PICK new : news' = [news EXCEPT ![p].models = new]
    BY <1>6 DEF RecordModel
  <2>. QED BY <1>0, <1>6, <2>1 DEF RecordModel, FinishResult, Stays, Procs
<1>7. CASE p \in Workers /\ CommitRun(p)
  <2>1. \A q \in Procs \ {p} : tx'[q] = tx[q] /\ news'[q] = news[q]
    BY <1>7, ClearIsApart DEF CommitRun
  <2>. QED BY <1>0, <1>7, <2>1 DEF CommitRun, Stays, Procs
<1>8. CASE p \in Requests /\ Judge(p)
  BY <1>0, <1>8 DEF Judge, Stays, Procs
<1>9. CASE p \in Requests /\ Record(p)
  <2>1. PICK new : news' = [news EXCEPT ![p].labels = new]
    BY <1>9 DEF Record
  <2>. QED BY <1>0, <1>9, <2>1 DEF Record, Stays, Procs
<1>10. CASE p \in Requests /\ ProjectVerdict(p)
  <2>1. \A q \in Procs \ {p} : tx'[q] = tx[q]
    BY <1>10, WriteIsApart DEF ProjectVerdict
  <2>. QED BY <1>0, <1>10, <2>1 DEF ProjectVerdict, Stays, Procs
<1>11. CASE p \in Requests /\ Reply(p)
  <2>1. \A q \in Procs \ {p} : tx'[q] = tx[q] /\ news'[q] = news[q]
    BY <1>11, ClearIsApart DEF Reply
  <2>. QED BY <1>0, <1>11, <2>1 DEF Reply, Stays, Procs
<1>12. CASE Abort(p)
  <2>1. \A q \in Procs \ {p} : tx'[q] = tx[q] /\ news'[q] = news[q]
    BY <1>12, ClearIsApart DEF Abort
  <2>. QED BY <1>0, <1>12, <2>1 DEF Abort, Stays, Procs
<1>. QED
  BY <1>1, <1>2, <1>3, <1>4, <1>5, <1>6, <1>7, <1>8, <1>9, <1>10, <1>11, <1>12 DEF Mover, RunStep, RequestStep

-----------------------------------------------------------------------------
(* The models of the graph are those of the registry. *)

LEMMA ModelsTogether ==
  ASSUME NEW g, NEW h PROVE ModelsIn(Upsert(g, h)) = ModelsIn(g) \cup ModelsIn(h)
BY UpsertRows DEF ModelsIn

LEMMA CatalogueHasNoModels == ASSUME NEW u PROVE ModelsIn(Catalogue(u)) = {}
<1>1. \A n \in DOMAIN Catalogue(u).nodes :
        \/ n = EquipmentId(u)
        \/ \E x : n = SubsystemId(u, x) \/ n = SensorId(u, x) \/ n = ThresholdId(u, x)
  BY DEF Catalogue, Plain
<1>2. /\ EquipmentId(u)[1] # "model"
      /\ \A x : SubsystemId(u, x)[1] # "model" /\ SensorId(u, x)[1] # "model" /\ ThresholdId(u, x)[1] # "model"
  BY DEF EquipmentId, SubsystemId, SensorId, ThresholdId
<1>. QED BY <1>1, <1>2 DEF ModelsIn

LEMMA VerdictHasNoModels == ASSUME NEW l PROVE ModelsIn(VerdictPart(l)) = {}
BY DEF ModelsIn, VerdictPart, ValidationId

LEMMA FindingHasNoModels ==
  ASSUME NEW g, NEW c, NEW f, NEW r
  PROVE  ModelsIn(Upsert(FindingPart(g, c, f), SuggestPart(f, r))) = {}
<1> DEFINE own == [nodes |-> [n \in {ConditionId(f.identity)} |-> FoldCondition(c, f)], edges |-> <<>>]
           links == Plain({}, {<<ConditionId(f.identity), TargetId(f), "observed_on">>}
                           \cup {<<ConditionId(f.identity), ConditionId(t), "triggered_by">> : t \in f.by})
<1>1. ModelsIn(own) = {}
  BY DEF ModelsIn, ConditionId
<1>2. ModelsIn(links) = {} /\ ModelsIn(SuggestPart(f, r)) = {}
  BY DEF ModelsIn, Plain, SuggestPart
<1>3. ModelsIn(Evidence(g, f)) = {}
  BY DEF ModelsIn, Evidence, ArtifactRefId
<1>4. FindingPart(g, c, f) = Upsert(Upsert(own, links), Evidence(g, f))
  BY DEF FindingPart
<1>. HIDE DEF own, links
<1>. QED BY <1>1, <1>2, <1>3, <1>4, ModelsTogether

LEMMA ModelPartHasModel == ASSUME NEW r PROVE ModelsIn(ModelPart(r)) = {r.model}
<1>1. DOMAIN ModelPart(r).nodes = {ModelId(r.model)} \cup {PatternId(p) : p \in r.patterns}
  BY DEF ModelPart, Plain
<1>2. ModelId(r.model)[1] = "model" /\ ModelId(r.model)[2] = r.model /\ \A p : PatternId(p)[1] # "model"
  BY DEF ModelId, PatternId
<1>. QED BY <1>1, <1>2 DEF ModelsIn

LEMMA EmptyHasNoModels == ModelsIn(Empty) = {}
BY DEF ModelsIn, Empty

(* A step that changes neither what is committed nor which rows of models a run
   has. *)
LEMMA OthersTrace ==
  ASSUME Traced, NEW v \in Workers, Stays(v), registry \subseteq registry' PROVE Tracing(v)'
BY DEF Traced, Tracing, Stays

LEMMA RunTraces ==
  ASSUME Typed, Folds, Traced, NEW w \in Workers, Begin(w) \/ RunStep(w) PROVE Traced'
<1>0. w \in Procs /\ Mover(w) /\ Tracing(w) /\ Working(w)
  BY DEF Procs, Mover, Traced, Folds
<1>1. \A v \in Workers \ {w} : Stays(v)
  BY <1>0, OthersRest
<1>2. SUFFICES Tracing(w)' /\ ModelsIn(graph') = registry' /\ registry \subseteq registry'
  BY <1>1, OthersTrace DEF Traced, ModelsAreTraceable, ModelsIn
<1>3. ModelsIn(graph) = registry
  BY DEF Traced, ModelsAreTraceable, ModelsIn
<1>4. CASE Begin(w)
  <2>1. UNCHANGED <<graph, registry, tx>> /\ Waiting(w)
    BY <1>0, <1>4 DEF Begin, tables, Working
  <2>2. PICK new : news' = [news EXCEPT ![w].findings = new]
    BY <1>4 DEF Begin
  <2>3. news'[w].models = {}
    BY <1>0, <2>1, <2>2 DEF Waiting, Typed, Shape, NewsFields
  <2>4. \E f, left, rs : todo' = [todo EXCEPT ![w] = [result |-> OfEngines(f), left |-> left, results |-> rs]]
    BY <1>4 DEF Begin
  <2>5. todo'[w].result.model = NoModel
    BY <2>4 DEF Folds, OfEngines
  <2>6. ModelsIn(tx'[w]) = {}
    BY <2>1, EmptyHasNoModels DEF Waiting
  <2>. QED BY <1>3, <2>1, <2>3, <2>5, <2>6 DEF Tracing
<1>5. CASE SaveAsset(w)
  <2>1. /\ UNCHANGED <<graph, registry, news, todo>> /\ Waiting(w) /\ todo[w].result.model = NoModel
        /\ Write(w, Catalogue(job[w].unit))
    BY <1>0, <1>5 DEF SaveAsset, tables, Working, OfEngines
  <2>2. ModelsIn(tx'[w]) = {}
    <3>1. tx'[w] = Upsert(Empty, Catalogue(job[w].unit))
      BY <2>1, WriteShows DEF Waiting
    <3>2. ModelsIn(tx'[w]) = ModelsIn(Empty) \cup ModelsIn(Catalogue(job[w].unit))
      BY <3>1, ModelsTogether
    <3>. QED BY <3>2, EmptyHasNoModels, CatalogueHasNoModels
  <2>. QED BY <1>3, <2>1, <2>2 DEF Tracing, Waiting
<1>6. CASE ReadCondition(w)
  BY <1>0, <1>3, <1>6 DEF ReadCondition, tables, Tracing
<1>7. CASE WriteFinding(w)
  <2>1. UNCHANGED <<graph, registry, news>> /\ Write(w, FindingRows(w)) /\ Planned(w)
    BY <1>0, <1>7 DEF WriteFinding, At, tables, Working
  <2>2. todo'[w].result = todo[w].result
    BY <1>7, <2>1 DEF WriteFinding, Folds, Planned
  <2>3. ModelsIn(tx'[w]) = ModelsIn(tx[w])
    <3>1. tx'[w] = Upsert(tx[w], FindingRows(w))
      BY <2>1, WriteShows
    <3>2. ModelsIn(Upsert(tx[w], FindingRows(w))) = ModelsIn(tx[w]) \cup ModelsIn(FindingRows(w))
      BY ModelsTogether
    <3>3. ModelsIn(FindingRows(w)) = {}
      BY FindingHasNoModels DEF FindingRows
    <3>. QED BY <3>1, <3>2, <3>3
  <2>. QED BY <1>0, <1>3, <2>1, <2>2, <2>3 DEF Tracing
<1>8. CASE WriteModel(w)
  <2> DEFINE r == Head(todo[w].results)
  <2>1. /\ UNCHANGED <<graph, registry, news>> /\ Write(w, ModelPart(r)) /\ Planned(w)
        /\ todo[w].results # <<>> /\ todo[w].result.model = NoModel /\ job[w] \in Frames
    BY <1>0, <1>8 DEF WriteModel, ToModel, At, tables, Working, Typed, Stages
  <2>2. r \in ResultsOf(job[w])
    BY <2>1, TakeHead DEF Planned
  <2>3. todo'[w].result = r
    BY <1>8 DEF WriteModel, TakeResult, Folds
  <2>. HIDE DEF r
  <2>4. r.model # NoModel
    BY <2>1, <2>2, ResultsAreSequences DEF ResultsOf
  <2>5. ModelsIn(tx'[w]) = ModelsIn(tx[w]) \cup {r.model}
    <3>1. tx'[w] = Upsert(tx[w], ModelPart(r))
      BY <2>1, WriteShows
    <3>2. ModelsIn(Upsert(tx[w], ModelPart(r))) = ModelsIn(tx[w]) \cup ModelsIn(ModelPart(r))
      BY ModelsTogether
    <3>. QED BY <3>1, <3>2, ModelPartHasModel
  <2>. QED BY <1>0, <1>3, <2>1, <2>3, <2>4, <2>5 DEF Tracing
<1>9. CASE RecordModel(w)
  <2>1. /\ UNCHANGED <<graph, registry, tx>> /\ Planned(w) /\ todo[w].result.model # NoModel
        /\ news' = [news EXCEPT ![w].models = @ \cup ({todo[w].result.model} \ registry)]
    BY <1>0, <1>9 DEF RecordModel, ToRecord, At, tables, Working
  <2>2. news'[w].models = news[w].models \cup ({todo[w].result.model} \ registry)
    BY <1>0, <2>1 DEF Typed, Shape, NewsFields
  <2>3. todo'[w].result = Nothing.result
    BY <1>9, <2>1 DEF RecordModel, FinishResult, Folds, Planned
  <2>4. todo'[w].result.model = NoModel
    BY <2>3 DEF Nothing
  <2>. QED BY <1>0, <1>3, <2>1, <2>2, <2>4 DEF Tracing
<1>10. CASE CommitRun(w)
  <2>1. /\ graph' = Upsert(graph, tx[w]) /\ registry' = registry \cup news[w].models /\ Clear(w)
        /\ todo[w].result.model = NoModel
    BY <1>0, <1>10 DEF CommitRun, ToRecord, At, Visible
  <2>2. tx'[w] = Empty /\ news'[w] = NoNews
    BY <1>0, <2>1, ClearIsApart
  <2>3. todo'[w].result.model = NoModel
    BY <1>10 DEF CommitRun, Folds, Nothing
  <2>4. ModelsIn(graph') = registry'
    BY <1>0, <1>3, <2>1, ModelsTogether DEF Tracing
  <2>. QED BY <2>1, <2>2, <2>3, <2>4, EmptyHasNoModels DEF Tracing, NoNews
<1>. QED BY <1>4, <1>5, <1>6, <1>7, <1>8, <1>9, <1>10 DEF RunStep

LEMMA RequestTraces ==
  ASSUME Typed, Given, Folds, Traced, NEW r \in Requests, Judge(r) \/ RequestStep(r) PROVE Traced'
<1>0. r \in Procs /\ r \notin Workers /\ Mover(r) /\ Pending(r)
  BY ProcsAreDistinct DEF Procs, Mover, Given
<1>1. \A v \in Workers : Stays(v)
  BY <1>0, OthersRest
<1>2. registry' = registry
  BY DEF Judge, Record, ProjectVerdict, Reply, RequestStep, tables
<1>3. ModelsIn(graph') = ModelsIn(graph)
  <2>1. CASE Judge(r) \/ Record(r) \/ ProjectVerdict(r)
    BY <2>1 DEF Judge, Record, ProjectVerdict, tables
  <2>2. CASE Reply(r)
    <3>1. graph' = Upsert(graph, VerdictPart(job[r]))
      BY <1>0, <2>2 DEF Reply, Visible, Pending
    <3>2. ModelsIn(Upsert(graph, VerdictPart(job[r]))) = ModelsIn(graph) \cup ModelsIn(VerdictPart(job[r]))
      BY ModelsTogether
    <3>3. ModelsIn(VerdictPart(job[r])) = {}
      BY VerdictHasNoModels
    <3>. QED BY <3>1, <3>2, <3>3
  <2>. QED BY <2>1, <2>2 DEF RequestStep
<1>. QED BY <1>1, <1>2, <1>3, OthersTrace DEF Traced, ModelsAreTraceable, ModelsIn

LEMMA AbortTraces ==
  ASSUME Typed, Folds, Traced, NEW p \in Procs, Abort(p) PROVE Traced'
<1>1. \A v \in Workers \ {p} : Stays(v)
  BY OthersRest DEF Mover
<1>2. UNCHANGED <<graph, registry>> /\ Clear(p)
  BY DEF Abort, tables
<1>3. p \in Workers => Tracing(p)'
  <2>1. p \in Workers => todo'[p].result.model = NoModel
    BY DEF Abort, Nothing
  <2>2. tx'[p] = Empty /\ news'[p] = NoNews
    BY <1>2, ClearIsApart
  <2>. QED BY <2>1, <2>2, EmptyHasNoModels DEF Tracing, NoNews
<1>. QED BY <1>1, <1>2, <1>3, OthersTrace DEF Traced, ModelsAreTraceable, ModelsIn

LEMMA InitTraced == Init => Traced
<1>. SUFFICES ASSUME Init PROVE Traced
  OBVIOUS
<1>1. ModelsIn(graph) = {} /\ registry = {}
  BY EmptyHasNoModels DEF Init
<1>2. ASSUME NEW w \in Workers PROVE Tracing(w)
  <2>1. tx[w] = Empty /\ news[w] = NoNews /\ todo[w].result.model = NoModel
    BY DEF Init, Nothing, Procs
  <2>. QED BY <2>1, EmptyHasNoModels DEF Tracing, NoNews
<1>. QED BY <1>1, <1>2 DEF Traced, ModelsAreTraceable, ModelsIn

LEMMA NextTraced == Typed /\ Given /\ Folds /\ Traced /\ [Next]_vars => Traced'
<1>. SUFFICES ASSUME Typed, Given, Folds, Traced, [Next]_vars PROVE Traced'
  OBVIOUS
<1>1. CASE UNCHANGED vars
  BY <1>1 DEF vars, tables, Traced, Tracing, ModelsAreTraceable
<1>. QED BY <1>1, RunTraces, RequestTraces, AbortTraces DEF Next

(* "Every learned output is traceable to the exact model version that made it":
   whatever fails and whoever inserts the same row at the same time. *)
THEOREM ModelsAreRecorded == Spec => []ModelsAreTraceable
<1>1. Init => Typed /\ Given /\ Folds /\ Traced
  BY InitTyped, InitGiven, InitFolds, InitTraced
<1>2. Typed /\ Given /\ Folds /\ Traced /\ [Next]_vars => Typed' /\ Given' /\ Folds' /\ Traced'
  BY NextTyped, NextGiven, NextFolds, NextTraced
<1>. QED BY <1>1, <1>2, PTL DEF Traced, Spec

-----------------------------------------------------------------------------
(* No edge dangles. *)

(* Where the edges of the parts lead. *)
LEMMA CatalogueIsClosed ==
  ASSUME NEW u, NEW e \in DOMAIN Catalogue(u).edges
  PROVE  e[1] \in DOMAIN Catalogue(u).nodes /\ e[2] \in DOMAIN Catalogue(u).nodes
<1> DEFINE subs == DOMAIN Plant[u]
           pairs == {p \in subs \X UNION {Plant[u][s] : s \in subs} : p[2] \in Plant[u][p[1]]}
           sensors == {p[2] : p \in pairs}
           bands == {k \in sensors : <<u, k>> \in Governed}
           N == {EquipmentId(u)} \cup {SubsystemId(u, s) : s \in subs}
                  \cup {SensorId(u, k) : k \in sensors} \cup {ThresholdId(u, k) : k \in bands}
<1>1. DOMAIN Catalogue(u).nodes = N
  BY DEF Catalogue, Plain
<1>2. \/ \E s \in subs : e = <<EquipmentId(u), SubsystemId(u, s), "has_subsystem">>
      \/ \E p \in pairs : e = <<SubsystemId(u, p[1]), SensorId(u, p[2]), "has_sensor">>
      \/ \E k \in bands : e = <<SensorId(u, k), ThresholdId(u, k), "governed_by">>
  BY DEF Catalogue, Plain
<1>3. \A p \in pairs : p[1] \in subs /\ p[2] \in sensors
  OBVIOUS
<1>4. bands \subseteq sensors
  OBVIOUS
<1>. HIDE DEF subs, pairs, sensors, bands
<1>5. e[1] \in N /\ e[2] \in N
  BY <1>2, <1>3, <1>4
<1>. QED BY <1>1, <1>5

LEMMA ModelIsClosed ==
  ASSUME NEW r
  PROVE  /\ \A e \in DOMAIN ModelPart(r).edges : {e[1], e[2]} \subseteq DOMAIN ModelPart(r).nodes
         /\ \A p \in r.patterns : PatternId(p) \in DOMAIN ModelPart(r).nodes
BY DEF ModelPart, Plain

LEMMA FindingLeads ==
  ASSUME NEW g, NEW c, NEW f, NEW r
  PROVE  LET h == Upsert(FindingPart(g, c, f), SuggestPart(f, r))
         IN  /\ ConditionId(f.identity) \in DOMAIN h.nodes
             /\ \A e \in DOMAIN h.edges :
                  /\ e[1] = ConditionId(f.identity)
                  /\ \/ e[2] = TargetId(f)
                     \/ \E t \in f.by : e[2] = ConditionId(t)
                     \/ \E p \in r.patterns : e[2] = PatternId(p)
                     \/ e[2] \in DOMAIN h.nodes
<1> DEFINE own == [nodes |-> [n \in {ConditionId(f.identity)} |-> FoldCondition(c, f)], edges |-> <<>>]
           links == Plain({}, {<<ConditionId(f.identity), TargetId(f), "observed_on">>}
                           \cup {<<ConditionId(f.identity), ConditionId(t), "triggered_by">> : t \in f.by})
           ev == Evidence(g, f)
           sug == SuggestPart(f, r)
           h == Upsert(Upsert(Upsert(own, links), ev), sug)
<1>1. DOMAIN own.edges = {}
  OBVIOUS
<1>2. \A e \in DOMAIN links.edges :
        e[1] = ConditionId(f.identity) /\ (e[2] = TargetId(f) \/ \E t \in f.by : e[2] = ConditionId(t))
  BY DEF Plain
<1>3. \A e \in DOMAIN ev.edges : e[1] = ConditionId(f.identity) /\ e[2] \in DOMAIN ev.nodes
  <2>1. /\ DOMAIN ev.nodes = {ArtifactRefId(a) : a \in Cited(f)}
        /\ DOMAIN ev.edges \subseteq {EvidenceEdge(f, a) : a \in Cited(f)}
    BY DEF Evidence
  <2>2. \A a : EvidenceEdge(f, a)[1] = ConditionId(f.identity) /\ EvidenceEdge(f, a)[2] = ArtifactRefId(a)
    BY DEF EvidenceEdge
  <2>. HIDE DEF ev
  <2>. QED BY <2>1, <2>2
<1>4. \A e \in DOMAIN sug.edges : e[1] = ConditionId(f.identity) /\ \E p \in r.patterns : e[2] = PatternId(p)
  BY DEF SuggestPart, Plain
<1>5. Upsert(FindingPart(g, c, f), SuggestPart(f, r)) = h
  BY DEF FindingPart
<1>. HIDE DEF own, links, ev, sug
<1>6. /\ DOMAIN h.edges = DOMAIN own.edges \cup DOMAIN links.edges \cup DOMAIN ev.edges \cup DOMAIN sug.edges
      /\ DOMAIN ev.nodes \subseteq DOMAIN h.nodes
  BY UpsertRows
<1>7. ConditionId(f.identity) \in DOMAIN h.nodes
  BY <1>5, FindingWrites
<1>. QED BY <1>1, <1>2, <1>3, <1>4, <1>5, <1>6, <1>7

(* Rows only come. *)
LEMMA GraphGrows ==
  ASSUME [Next]_vars PROVE DOMAIN graph.nodes \subseteq DOMAIN graph'.nodes
<1>1. CASE UNCHANGED vars
  BY <1>1 DEF vars, tables
<1>2. ASSUME NEW w \in Workers, Begin(w) \/ RunStep(w) PROVE DOMAIN graph.nodes \subseteq DOMAIN graph'.nodes
  <2>1. UNCHANGED graph \/ graph' = Visible(w)
    BY <1>2 DEF Begin, RunStep, SaveAsset, ReadCondition, WriteFinding, WriteModel, RecordModel, CommitRun, tables
  <2>. QED BY <2>1, UpsertRows DEF Visible
<1>3. ASSUME NEW r \in Requests, Judge(r) \/ RequestStep(r) PROVE DOMAIN graph.nodes \subseteq DOMAIN graph'.nodes
  <2>1. UNCHANGED graph \/ graph' = Visible(r)
    BY <1>3 DEF Judge, RequestStep, Record, ProjectVerdict, Reply, tables
  <2>. QED BY <2>1, UpsertRows DEF Visible
<1>4. ASSUME NEW p \in Procs, Abort(p) PROVE DOMAIN graph.nodes \subseteq DOMAIN graph'.nodes
  BY <1>4 DEF Abort, tables
<1>. QED BY <1>1, <1>2, <1>3, <1>4 DEF Next

LEMMA OthersChain ==
  ASSUME Chains, NEW v \in Workers, Stays(v), DOMAIN graph.nodes \subseteq DOMAIN graph'.nodes
  PROVE  Chaining(v)'
<1>1. Left(v)' = Left(v) /\ DOMAIN Visible(v).nodes \subseteq DOMAIN Visible(v)'.nodes
  BY UpsertRows DEF Left, Visible, Stays
<1>2. SUFFICES ASSUME pc[v] = "project" PROVE Chaining(v)'
  BY DEF Chaining, Stays
<1>3. /\ \A e \in DOMAIN tx[v].edges :
           {e[1], e[2]} \subseteq DOMAIN Visible(v).nodes \cup {ConditionId(f.identity) : f \in Left(v)}
      /\ \A p \in todo[v].result.patterns : PatternId(p) \in DOMAIN tx[v].nodes
  BY <1>2 DEF Chains, Chaining
<1>. QED BY <1>1, <1>3 DEF Chaining, Stays

LEMMA OthersJudge ==
  ASSUME Chains, NEW r \in Requests, pc'[r] = pc[r], job'[r] = job[r],
         DOMAIN graph.nodes \subseteq DOMAIN graph'.nodes
  PROVE  Judging(r)'
BY DEF Chains, Judging

(* What a rule's conclusion rests on is in the graph, or is projected later by
   the same run. *)
LEMMA TriggersAreThere ==
  ASSUME Typed, Folds, NEW w \in Workers, pc[w] = "project", NEW f \in FoundIn(job[w]), NEW t \in f.by
  PROVE  ConditionId(t) \in DOMAIN Visible(w).nodes \cup {ConditionId(g.identity) : g \in Left(w)}
<1>0. Planned(w) /\ Folding(w) /\ job[w] \in Frames /\ Knows(graph, findings, Identities)
  BY DEF Folds, Working, Typed, Stages
<1>1. PICK i \in DOMAIN job[w].found : t = job[w].found[i].identity
  BY <1>0, TriggersAreFound
<1> DEFINE g == job[w].found[i]
<1>2. g \in FoundIn(job[w]) /\ t = g.identity
  BY <1>1 DEF FoundIn
<1>3. g \in AllFindings /\ t \in IdentitiesOf(job[w].unit) /\ t \in Identities
  BY <1>0, <1>2, FramesAreOfUnits DEF IdentitiesOf, Identities, AllFindings
<1>4. g \in news[w].findings \/ OfIdentity(t) # {}
  BY <1>0, <1>1 DEF Planned
<1>. HIDE DEF g
<1>5. CASE OfIdentity(t) # {}
  <2>1. ConditionId(t) \in DOMAIN graph.nodes
    BY <1>0, <1>3, <1>5 DEF Knows, Of, OfIdentity
  <2>. QED BY <2>1, UpsertRows DEF Visible
<1>6. CASE g \in news[w].findings
  <2>1. PICK P \in SUBSET news[w].findings :
          /\ news[w].findings \subseteq P \cup Left(w)
          /\ Knows(Visible(w), findings \cup P, IdentitiesOf(job[w].unit))
    BY DEF Folds, Folding
  <2>2. CASE g \in Left(w)
    BY <1>2, <2>2
  <2>3. CASE g \in P
    <3>1. Of(findings \cup P, t) # {}
      BY <1>2, <2>3 DEF Of
    <3>. QED BY <1>3, <2>1, <3>1 DEF Knows
  <2>. QED BY <1>6, <2>1, <2>2, <2>3
<1>. QED BY <1>4, <1>5, <1>6

LEMMA WriteFindingChains ==
  ASSUME Typed, Folds, Chains, NEW w \in Workers, WriteFinding(w) PROVE Chaining(w)'
<1>0. /\ pc[w] = "project" /\ todo[w].left # {} /\ job[w] \in Frames
      /\ Working(w) /\ Planned(w) /\ Chaining(w)
      /\ Write(w, FindingRows(w)) /\ UNCHANGED <<graph, pc, job>>
  BY DEF Folds, Chains, WriteFinding, At, tables, Typed, Stages, Working
<1> DEFINE f == NextFinding(w)
           rows == FindingRows(w)
           old == DOMAIN Visible(w).nodes \cup {ConditionId(g.identity) : g \in Left(w)}
           new == DOMAIN Visible(w)'.nodes \cup {ConditionId(g.identity) : g \in Left(w)'}
<1>1. f \in FoundIn(job[w]) /\ f \in AllFindings /\ f.unit = job[w].unit
  BY <1>0, NextIsNew, FramesAreOfUnits
<1>2. /\ tx'[w] = Upsert(tx[w], rows) /\ Visible(w)' = Upsert(Visible(w), rows)
      /\ DOMAIN tx[w].nodes \subseteq DOMAIN tx'[w].nodes
  BY <1>0, WriteShows
<1>3. /\ ConditionId(f.identity) \in DOMAIN rows.nodes
      /\ \A e \in DOMAIN rows.edges :
           /\ e[1] = ConditionId(f.identity)
           /\ \/ e[2] = TargetId(f)
              \/ \E t \in f.by : e[2] = ConditionId(t)
              \/ \E p \in todo[w].result.patterns : e[2] = PatternId(p)
              \/ e[2] \in DOMAIN rows.nodes
  BY FindingLeads DEF FindingRows
<1>4. DOMAIN Visible(w)'.nodes = DOMAIN Visible(w).nodes \cup DOMAIN rows.nodes
  BY <1>2, UpsertRows
<1>5. Left(w) \subseteq Left(w)' \cup {f}
  BY FindingLeaves
<1>6. old \subseteq new
  BY <1>3, <1>4, <1>5
<1>7. TargetId(f) \in old
  <2>1. TargetId(f) \in DOMAIN Catalogue(job[w].unit).nodes
    BY <1>1, TargetsAreInPlant
  <2>2. TargetId(f) \in DOMAIN tx[w].nodes
    BY <1>0, <2>1 DEF Working
  <2>. QED BY <2>2, UpsertRows DEF Visible
<1>8. \A t \in f.by : ConditionId(t) \in old
  BY <1>0, <1>1, TriggersAreThere
<1>9. \A p \in todo[w].result.patterns : PatternId(p) \in DOMAIN tx[w].nodes /\ PatternId(p) \in old
  BY <1>0, UpsertRows DEF Chaining, Visible
<1>10. \A e \in DOMAIN tx[w].edges : e[1] \in old /\ e[2] \in old
  BY <1>0 DEF Chaining
<1>11. DOMAIN tx'[w].edges = DOMAIN tx[w].edges \cup DOMAIN rows.edges
  BY <1>2, UpsertRows
<1>12. DOMAIN rows.nodes \subseteq new
  BY <1>4
<1>13. todo'[w].result = todo[w].result
  BY <1>0 DEF WriteFinding, Folds, Planned
<1>. HIDE DEF f, rows, old, new
<1>14. \A e \in DOMAIN tx'[w].edges : e[1] \in new /\ e[2] \in new
  BY <1>3, <1>6, <1>7, <1>8, <1>9, <1>10, <1>11, <1>12
<1>15. \A p \in todo'[w].result.patterns : PatternId(p) \in DOMAIN tx'[w].nodes
  BY <1>2, <1>9, <1>13
<1>. QED BY <1>14, <1>15 DEF Chaining, new

LEMMA RunChains ==
  ASSUME Typed, Folds, Chains, NEW w \in Workers, Begin(w) \/ RunStep(w) PROVE Chains'
<1>0. w \in Procs /\ w \notin Requests /\ Mover(w) /\ Working(w) /\ Chaining(w)
  BY ProcsAreDistinct DEF Procs, Mover, Chains, Folds
<1>1. \A v \in Workers \ {w} : Stays(v)
  BY <1>0, OthersRest
<1>2. \A r \in Requests : pc'[r] = pc[r] /\ job'[r] = job[r]
  BY <1>0, OthersRest DEF Procs
<1>3. DOMAIN graph.nodes \subseteq DOMAIN graph'.nodes
  BY GraphGrows DEF Next
<1>4. SUFFICES Chaining(w)' /\ ChainsAreClosed'
  BY <1>1, <1>2, <1>3, OthersChain, OthersJudge DEF Chains
<1>5. UNCHANGED graph => ChainsAreClosed'
  BY DEF Chains, ChainsAreClosed
<1>6. CASE Begin(w)
  BY <1>0, <1>5, <1>6 DEF Begin, tables, Chaining, Typed, Shape
<1>7. CASE SaveAsset(w)
  <2>1. /\ UNCHANGED <<graph, todo>> /\ Waiting(w) /\ todo[w].result.patterns = {}
        /\ Write(w, Catalogue(job[w].unit)) /\ pc[w] = "save"
    BY <1>0, <1>7 DEF SaveAsset, tables, Working, OfEngines
  <2>2. tx'[w] = Upsert(Empty, Catalogue(job[w].unit))
    BY <2>1, WriteShows DEF Waiting
  <2>e. DOMAIN Empty.edges = {}
    BY DEF Empty
  <2>3. /\ DOMAIN tx'[w].edges = DOMAIN Catalogue(job[w].unit).edges
        /\ DOMAIN Catalogue(job[w].unit).nodes \subseteq DOMAIN Visible(w)'.nodes
    <3>1. DOMAIN tx'[w].edges = DOMAIN Empty.edges \cup DOMAIN Catalogue(job[w].unit).edges
      BY <2>2, UpsertRows
    <3>2. DOMAIN Catalogue(job[w].unit).nodes \subseteq DOMAIN tx'[w].nodes
      BY <2>2, UpsertRows
    <3>3. Visible(w)' = Upsert(graph', tx'[w])
      BY DEF Visible
    <3>4. DOMAIN tx'[w].nodes \subseteq DOMAIN Visible(w)'.nodes
      BY <3>3, UpsertRows
    <3>. QED BY <2>e, <3>1, <3>2, <3>4
  <2>4. \A e \in DOMAIN tx'[w].edges : {e[1], e[2]} \subseteq DOMAIN Visible(w)'.nodes
    BY <2>3, CatalogueIsClosed
  <2>. QED BY <1>5, <2>1, <2>4 DEF Chaining
<1>8. CASE ReadCondition(w)
  <2>1. UNCHANGED <<graph, pc, tx, todo, news>>
    BY <1>8 DEF ReadCondition, tables
  <2>2. Visible(w)' = Visible(w) /\ Left(w)' = Left(w)
    BY <2>1 DEF Visible, Left
  <2>. QED BY <1>0, <1>5, <2>1, <2>2 DEF Chaining
<1>9. CASE WriteFinding(w)
  BY <1>5, <1>9, WriteFindingChains DEF WriteFinding, tables
<1>10. CASE WriteModel(w)
  <2> DEFINE r == Head(todo[w].results)
  <2>1. UNCHANGED <<graph, pc>> /\ Write(w, ModelPart(r)) /\ pc[w] = "project"
    BY <1>10 DEF WriteModel, ToModel, At, tables
  <2>2. todo'[w].result = r
    BY <1>10 DEF WriteModel, TakeResult, Folds
  <2>3. Left(w) \subseteq Left(w)'
    BY <1>10, ModelLeaves
  <2>4. tx'[w] = Upsert(tx[w], ModelPart(r)) /\ Visible(w)' = Upsert(Visible(w), ModelPart(r))
    BY <2>1, WriteShows
  <2>. HIDE DEF r
  <2>5. /\ DOMAIN tx'[w].edges = DOMAIN tx[w].edges \cup DOMAIN ModelPart(r).edges
        /\ DOMAIN tx'[w].nodes = DOMAIN tx[w].nodes \cup DOMAIN ModelPart(r).nodes
        /\ DOMAIN Visible(w)'.nodes = DOMAIN Visible(w).nodes \cup DOMAIN ModelPart(r).nodes
    BY <2>4, UpsertRows
  <2>6. \A e \in DOMAIN tx[w].edges :
          {e[1], e[2]} \subseteq DOMAIN Visible(w).nodes \cup {ConditionId(f.identity) : f \in Left(w)}
    BY <1>0, <2>1 DEF Chaining
  <2>7. \A e \in DOMAIN tx'[w].edges :
          {e[1], e[2]} \subseteq DOMAIN Visible(w)'.nodes \cup {ConditionId(f.identity) : f \in Left(w)'}
    BY <2>3, <2>5, <2>6, ModelIsClosed
  <2>8. \A p \in todo'[w].result.patterns : PatternId(p) \in DOMAIN tx'[w].nodes
    BY <2>2, <2>5, ModelIsClosed
  <2>. QED BY <1>5, <2>1, <2>7, <2>8 DEF Chaining
<1>11. CASE RecordModel(w)
  <2>1. UNCHANGED <<graph, pc, tx>> /\ pc[w] = "project" /\ todo[w].left = {} /\ Planned(w)
    BY <1>0, <1>11 DEF RecordModel, ToRecord, At, tables, Working
  <2>2. /\ todo'[w].result = Nothing.result /\ todo'[w].left = todo[w].left
        /\ todo'[w].results = todo[w].results
    BY <1>11, <2>1 DEF RecordModel, FinishResult, Folds, Planned
  <2>3. news'[w].findings = news[w].findings
    <3>1. PICK new : news' = [news EXCEPT ![w].models = new]
      BY <1>11 DEF RecordModel
    <3>. QED BY <1>0, <3>1 DEF Typed, Shape, NewsFields
  <2>4. Left(w)' = Left(w) /\ Visible(w)' = Visible(w)
    BY <2>1, <2>2, <2>3 DEF Left, Visible
  <2>5. todo'[w].result.patterns = {}
    BY <2>2 DEF Nothing
  <2>. QED BY <1>0, <1>5, <2>1, <2>4, <2>5 DEF Chaining
<1>12. CASE CommitRun(w)
  <2>u. graph' = Upsert(graph, tx[w])
    BY <1>12 DEF CommitRun, Visible
  <2>1. graph' = Visible(w) /\ pc[w] = "project" /\ Left(w) = {}
    BY <1>12 DEF CommitRun, ToModel, ToRecord, At, Left
  <2>2. pc'[w] = "idle"
    BY <1>0, <1>12 DEF CommitRun, Typed, Shape
  <2>3. \A e \in DOMAIN tx[w].edges : {e[1], e[2]} \subseteq DOMAIN graph'.nodes
    BY <1>0, <2>1 DEF Chaining
  <2>4. DOMAIN graph'.edges = DOMAIN graph.edges \cup DOMAIN tx[w].edges
    BY <2>u, UpsertRows
  <2>5. ChainsAreClosed'
    BY <1>3, <2>3, <2>4 DEF Chains, ChainsAreClosed
  <2>. QED BY <2>2, <2>5 DEF Chaining
<1>. QED BY <1>6, <1>7, <1>8, <1>9, <1>10, <1>11, <1>12 DEF RunStep

LEMMA RequestChains ==
  ASSUME Typed, Given, Folds, Chains, NEW r \in Requests, Judge(r) \/ RequestStep(r) PROVE Chains'
<1>0. r \in Procs /\ r \notin Workers /\ Mover(r) /\ Pending(r) /\ Judging(r)
  BY ProcsAreDistinct DEF Procs, Mover, Given, Chains
<1>1. \A v \in Workers : Stays(v)
  BY <1>0, OthersRest
<1>2. \A q \in Requests \ {r} : pc'[q] = pc[q] /\ job'[q] = job[q]
  BY <1>0, OthersRest DEF Procs
<1>3. DOMAIN graph.nodes \subseteq DOMAIN graph'.nodes
  BY GraphGrows DEF Next
<1>4. SUFFICES Judging(r)' /\ ChainsAreClosed'
  BY <1>1, <1>2, <1>3, OthersChain, OthersJudge DEF Chains
<1>5. UNCHANGED graph => ChainsAreClosed'
  BY DEF Chains, ChainsAreClosed
<1>6. CASE Judge(r)
  <2>1. UNCHANGED graph
    BY <1>6 DEF Judge, tables
  <2>2. PICK i \in Asked, a \in Authors, v \in Verdicts :
          LET known == {f \in findings : f.identity = i}
          IN  IF known # {} /\ \A f \in known : f.origin = "learned"
              THEN /\ job' = [job EXCEPT ![r] = [identity |-> i, author |-> a, verdict |-> v, at |-> now]]
                   /\ pc' = [pc EXCEPT ![r] = "record"]
              ELSE pc' = [pc EXCEPT ![r] = "done"]
    BY <1>6 DEF Judge
  <2>3. CASE {f \in findings : f.identity = i} # {} /\ job' = [job EXCEPT ![r] = [identity |-> i, author |-> a, verdict |-> v, at |-> now]]
    <3>1. PICK f \in findings : f.identity = i
      BY <2>3
    <3>2. i \in Identities
      BY <3>1 DEF Typed, Recorded, Identities
    <3>3. ConditionId(i) \in DOMAIN graph.nodes
      BY <3>1, <3>2 DEF Folds, Knows, Of
    <3>4. job'[r].identity = i
      BY <1>0, <2>3 DEF Typed, Shape
    <3>. QED BY <1>5, <2>1, <3>3, <3>4 DEF Judging
  <2>4. CASE pc' = [pc EXCEPT ![r] = "done"]
    <3>1. pc'[r] = "done"
      BY <1>0, <2>4 DEF Typed, Shape
    <3>. QED BY <1>5, <2>1, <3>1 DEF Judging
  <2>. QED BY <2>2, <2>3, <2>4
<1>7. CASE Record(r) \/ ProjectVerdict(r)
  <2>1. UNCHANGED <<graph, job>> /\ pc[r] \in {"record", "project"}
    BY <1>7 DEF Record, ProjectVerdict, tables
  <2>. QED BY <1>0, <1>5, <2>1 DEF Judging
<1>8. CASE Reply(r)
  <2>1. graph' = Upsert(graph, VerdictPart(job[r])) /\ pc[r] = "reply"
    BY <1>0, <1>8 DEF Reply, Visible, Pending
  <2>2. pc'[r] = "done"
    BY <1>0, <1>8 DEF Reply, Typed, Shape
  <2>3. ConditionId(job[r].identity) \in DOMAIN graph.nodes
    BY <1>0, <2>1 DEF Judging
  <2>4. /\ DOMAIN VerdictPart(job[r]).nodes = {ValidationId(job[r].identity)}
        /\ \A e \in DOMAIN VerdictPart(job[r]).edges :
             e[1] = ConditionId(job[r].identity) /\ e[2] = ValidationId(job[r].identity)
    BY DEF VerdictPart
  <2>5. /\ DOMAIN graph'.nodes = DOMAIN graph.nodes \cup DOMAIN VerdictPart(job[r]).nodes
        /\ DOMAIN graph'.edges = DOMAIN graph.edges \cup DOMAIN VerdictPart(job[r]).edges
    BY <2>1, UpsertRows
  <2>6. ChainsAreClosed'
    BY <2>3, <2>4, <2>5 DEF Chains, ChainsAreClosed
  <2>. QED BY <2>2, <2>6 DEF Judging
<1>. QED BY <1>6, <1>7, <1>8 DEF RequestStep

LEMMA AbortChains ==
  ASSUME Typed, Folds, Chains, NEW p \in Procs, Abort(p) PROVE Chains'
<1>1. /\ \A v \in Workers \ {p} : Stays(v)
      /\ \A r \in Requests \ {p} : pc'[r] = pc[r] /\ job'[r] = job[r]
  BY OthersRest DEF Mover, Procs
<1>2. UNCHANGED graph
  BY DEF Abort, tables
<1>3. pc'[p] \in {"idle", "done"}
  BY DEF Abort, Typed, Shape
<1>4. (p \in Workers => Chaining(p)') /\ (p \in Requests => Judging(p)')
  BY <1>3 DEF Chaining, Judging
<1>5. ChainsAreClosed'
  BY <1>2 DEF Chains, ChainsAreClosed
<1>. QED BY <1>1, <1>2, <1>4, <1>5, OthersChain, OthersJudge DEF Chains

(* A reasoning chain can be walked to its end (the schema has no foreign key that
   says so): no committed edge dangles, however runs overlap and fail. *)
THEOREM ChainsCanBeWalked == Spec => []ChainsAreClosed
<1>1. Init => Typed /\ Given /\ Folds
  BY InitTyped, InitGiven, InitFolds
<1>2. Init => Chains
  BY DEF Init, Chains, ChainsAreClosed, Chaining, Judging, Empty, Procs
<1>3. Typed /\ Given /\ Folds /\ Chains /\ [Next]_vars => Typed' /\ Given' /\ Folds' /\ Chains'
  <2>. SUFFICES ASSUME Typed, Given, Folds, Chains, [Next]_vars PROVE Chains'
    BY NextTyped, NextGiven, NextFolds
  <2>1. CASE UNCHANGED vars
    <3>1. /\ \A v \in Workers : Stays(v)
          /\ UNCHANGED <<graph, pc, job>>
      BY <2>1 DEF vars, tables, Stays
    <3>2. ChainsAreClosed'
      BY <3>1 DEF Chains, ChainsAreClosed
    <3>. QED BY <3>1, <3>2, OthersChain, OthersJudge DEF Chains
  <2>. QED BY <2>1, RunChains, RequestChains, AbortChains DEF Next
<1>. QED BY <1>1, <1>2, <1>3, PTL DEF Chains, Spec

-----------------------------------------------------------------------------
(* Nobody waits in a circle. *)

\* The rows that a run of the frame f may have written when it has projected the
\* models M; nobody else writes them but a run that has one of M too.
RunNode(f, M, n) ==
  \/ n \in DOMAIN Catalogue(f.unit).nodes
  \/ \E i \in IdentitiesOf(f.unit) : n = ConditionId(i)
  \/ \E c \in Citations(f) : n = ArtifactRefId(c[2]) /\ c[1] \in M \cup {NoModel}
  \/ \E r \in ResultsOf(f) : r.model \in M /\ (n = ModelId(r.model) \/ \E p \in r.patterns : n = PatternId(p))
RunEdge(f, M, e) ==
  \/ e[1] \in DOMAIN Catalogue(f.unit).nodes
  \/ \E i \in IdentitiesOf(f.unit) : e[1] = ConditionId(i) /\ e[3] # "validated_by"
  \/ \E r \in ResultsOf(f) : r.model \in M /\ \E p \in r.patterns :
       e = <<PatternId(p), ModelId(r.model), "discovered_by">>
RunRows(f, M, g) ==
  /\ \A n \in DOMAIN g.nodes : RunNode(f, M, n)
  /\ \A e \in DOMAIN g.edges : RunEdge(f, M, e)

\* The models that are left come in order, after those that are projected.
Queued(w) ==
  /\ \A i, j \in DOMAIN todo[w].results : i < j => Earlier(todo[w].results[i].model, todo[w].results[j].model)
  /\ \A i \in DOMAIN todo[w].results : \A m \in ModelsIn(tx[w]) : Earlier(m, todo[w].results[i].model)

(* What makes NoWaitCycle inductive: a run's rows are those of its unit and of the
   models it has projected, and it projects them in the one order. *)
Locking(w) ==
  /\ pc[w] # "idle" => Queued(w)
  /\ pc[w] = "project" => RunRows(job[w], ModelsIn(tx[w]), tx[w])
Locks == \A w \in Workers : Locking(w)

LEMMA MoreModelsMoreRows ==
  ASSUME NEW f, NEW M, NEW N, M \subseteq N, NEW g, RunRows(f, M, g) PROVE RunRows(f, N, g)
<1>1. \A n : RunNode(f, M, n) => RunNode(f, N, n)
  BY DEF RunNode
<1>2. \A e : RunEdge(f, M, e) => RunEdge(f, N, e)
  BY DEF RunEdge
<1>. QED BY <1>1, <1>2 DEF RunRows

LEMMA RowsTogether ==
  ASSUME NEW f, NEW M, NEW g, NEW h, RunRows(f, M, g), RunRows(f, M, h) PROVE RunRows(f, M, Upsert(g, h))
BY UpsertRows DEF RunRows

(* The rows of the parts a run writes. *)
LEMMA CatalogueRows == ASSUME NEW f, NEW M PROVE RunRows(f, M, Catalogue(f.unit))
BY CatalogueIsClosed DEF RunRows, RunNode, RunEdge

LEMMA ModelRows ==
  ASSUME NEW f, NEW r \in ResultsOf(f) PROVE RunRows(f, {r.model}, ModelPart(r))
<1>1. DOMAIN ModelPart(r).nodes = {ModelId(r.model)} \cup {PatternId(p) : p \in r.patterns}
  BY DEF ModelPart, Plain
<1>2. DOMAIN ModelPart(r).edges = {<<PatternId(p), ModelId(r.model), "discovered_by">> : p \in r.patterns}
  BY DEF ModelPart, Plain
<1>3. \A n \in DOMAIN ModelPart(r).nodes : RunNode(f, {r.model}, n)
  BY <1>1 DEF RunNode
<1>4. \A e \in DOMAIN ModelPart(r).edges : RunEdge(f, {r.model}, e)
  BY <1>2 DEF RunEdge
<1>. QED BY <1>3, <1>4 DEF RunRows

LEMMA RowsOfFinding ==
  ASSUME Typed, Folds, Traced, NEW w \in Workers, pc[w] = "project", todo[w].left # {}
  PROVE  RunRows(job[w], ModelsIn(tx[w]), FindingRows(w))
<1> DEFINE f == NextFinding(w)
           c == seen[w][1]
           r == todo[w].result
           own == [nodes |-> [n \in {ConditionId(f.identity)} |-> FoldCondition(c, f)], edges |-> <<>>]
           links == Plain({}, {<<ConditionId(f.identity), TargetId(f), "observed_on">>}
                           \cup {<<ConditionId(f.identity), ConditionId(t), "triggered_by">> : t \in f.by})
           ev == Evidence(Visible(w), f)
           sug == SuggestPart(f, r)
           M == ModelsIn(tx[w])
<1>1. /\ f.identity \in IdentitiesOf(job[w].unit)
      /\ Working(w) /\ Planned(w) /\ Tracing(w) /\ job[w] \in Frames
      /\ NextIndex(w) \in todo[w].left
  BY NextIsNew DEF Folds, Working, Traced, Typed, Stages
<1>2. /\ NextIndex(w) \in DOMAIN r.findings /\ f = r.findings[NextIndex(w)]
      /\ r \in ResultsOf(job[w]) \cup {OfEngines(job[w])}
  <2>1. NextIndex(w) \in DOMAIN r.findings
    BY <1>1 DEF Planned, Changed
  <2>2. r # Nothing.result
    <3>1. DOMAIN Nothing.result.findings = {}
      BY DEF Nothing
    <3>. QED BY <2>1, <3>1
  <2>. QED BY <1>1, <2>1, <2>2 DEF Planned, NextFinding
<1>3. \A a \in Cited(f) : <<r.model, a>> \in Citations(job[w])
  <2>1. \A a \in Cited(f) : <<r.model, a>> \in CitationsOf(r)
    BY <1>2 DEF CitationsOf
  <2>2. CASE r = OfEngines(job[w])
    BY <2>1, <2>2 DEF Citations
  <2>3. CASE r \in ResultsOf(job[w])
    BY <2>1, <2>3 DEF Citations, ResultsOf
  <2>. QED BY <1>2, <2>2, <2>3
<1>4. r.model \in M \cup {NoModel}
  BY <1>1 DEF Tracing
<1>5. FindingRows(w) = Upsert(Upsert(Upsert(own, links), ev), sug)
  BY DEF FindingRows, FindingPart
<1>6. RunRows(job[w], M, own)
  <2>1. DOMAIN own.nodes = {ConditionId(f.identity)} /\ DOMAIN own.edges = {}
    OBVIOUS
  <2>. QED BY <1>1, <2>1 DEF RunRows, RunNode
<1>7. RunRows(job[w], M, links)
  <2>1. DOMAIN links.nodes = {} /\ \A e \in DOMAIN links.edges : e[1] = ConditionId(f.identity) /\ e[3] # "validated_by"
    BY DEF Plain
  <2>. QED BY <1>1, <2>1 DEF RunRows, RunEdge
<1>8. RunRows(job[w], M, sug)
  <2>1. DOMAIN sug.nodes = {} /\ \A e \in DOMAIN sug.edges : e[1] = ConditionId(f.identity) /\ e[3] # "validated_by"
    BY DEF Plain, SuggestPart
  <2>. QED BY <1>1, <2>1 DEF RunRows, RunEdge
<1>9. RunRows(job[w], M, ev)
  <2>1. DOMAIN ev.nodes = {ArtifactRefId(a) : a \in Cited(f)}
    BY DEF Evidence
  <2>2. \A e \in DOMAIN ev.edges : e[1] = ConditionId(f.identity) /\ e[3] # "validated_by"
    <3>1. DOMAIN ev.edges \subseteq {EvidenceEdge(f, a) : a \in Cited(f)}
      BY DEF Evidence
    <3>2. \A a : EvidenceEdge(f, a)[1] = ConditionId(f.identity) /\ EvidenceEdge(f, a)[3] # "validated_by"
      BY DEF EvidenceEdge
    <3>. HIDE DEF ev
    <3>. QED BY <3>1, <3>2
  <2>3. ASSUME NEW n \in DOMAIN ev.nodes PROVE RunNode(job[w], M, n)
    <3>1. PICK a \in Cited(f) : n = ArtifactRefId(a)
      BY <2>1
    <3>2. <<r.model, a>>[1] = r.model /\ <<r.model, a>>[2] = a
      OBVIOUS
    <3>. QED BY <1>3, <1>4, <3>1, <3>2 DEF RunNode
  <2>. QED BY <1>1, <2>2, <2>3 DEF RunRows, RunEdge
<1>. HIDE DEF f, c, r, own, links, ev, sug, M
<1>. QED BY <1>5, <1>6, <1>7, <1>8, <1>9, RowsTogether DEF M

(* What two runs of different units both write, they write for one model. *)
LEMMA CatalogueTags ==
  ASSUME NEW u, NEW n \in DOMAIN Catalogue(u).nodes
  PROVE  n[2] = u /\ n[1] \in {"equipment", "subsystem", "sensor", "threshold"}
<1>1. \/ n = EquipmentId(u)
      \/ \E x : n = SubsystemId(u, x) \/ n = SensorId(u, x) \/ n = ThresholdId(u, x)
  BY DEF Catalogue, Plain
<1>. QED BY <1>1 DEF EquipmentId, SubsystemId, SensorId, ThresholdId

LEMMA RunTags ==
  /\ \A x : ConditionId(x)[1] = "condition" /\ ConditionId(x)[2] = x
  /\ \A x : ArtifactRefId(x)[1] = "artifact" /\ ArtifactRefId(x)[2] = x
  /\ \A x : ModelId(x)[1] = "model" /\ ModelId(x)[2] = x
  /\ \A x : PatternId(x)[1] = "pattern" /\ PatternId(x)[2] = x
BY DEF ConditionId, ArtifactRefId, ModelId, PatternId

LEMMA ConditionsApart ==
  ASSUME NEW u, NEW v, u # v, NEW i \in IdentitiesOf(u) PROVE i \notin IdentitiesOf(v)
BY IdentitiesAreHashes DEF IdentitiesOf

LEMMA PatternsApart ==
  ASSUME NEW f \in Frames, NEW g \in Frames, f.unit # g.unit,
         NEW r \in ResultsOf(f), NEW s \in ResultsOf(g), NEW p \in r.patterns, p \in s.patterns
  PROVE  r.model = s.model
<1>1. PICK i \in DOMAIN Results(f) : r = Results(f)[i]
  BY DEF ResultsOf
<1>2. PICK j \in DOMAIN Results(g) : s = Results(g)[j]
  BY DEF ResultsOf
<1>3. Results(f)[i].patterns \cap Results(g)[j].patterns # {}
  BY <1>1, <1>2
<1>. QED BY <1>1, <1>2, <1>3, SharedRowsAreOfModels

LEMMA NodesApart ==
  ASSUME NEW f \in Frames, NEW g \in Frames, f.unit # g.unit, NEW M, NEW N, NEW n,
         RunNode(f, M, n), RunNode(g, N, n)
  PROVE  M \cap N # {}
<1>1. CASE n \in DOMAIN Catalogue(f.unit).nodes
  <2>1. n[2] = f.unit /\ n[1] \in {"equipment", "subsystem", "sensor", "threshold"}
    BY <1>1, CatalogueTags
  <2>2. n \notin DOMAIN Catalogue(g.unit).nodes
    BY <2>1, CatalogueTags
  <2>. QED BY <2>1, <2>2, RunTags DEF RunNode
<1>2. ASSUME NEW i \in IdentitiesOf(f.unit), n = ConditionId(i) PROVE FALSE
  <2>1. n[1] = "condition" /\ n[2] = i
    BY <1>2, RunTags
  <2>2. n \notin DOMAIN Catalogue(g.unit).nodes
    BY <2>1, CatalogueTags
  <2>3. i \notin IdentitiesOf(g.unit)
    BY ConditionsApart
  <2>. QED BY <2>1, <2>2, <2>3, RunTags DEF RunNode
<1>3. ASSUME NEW c \in Citations(f), n = ArtifactRefId(c[2]), c[1] \in M \cup {NoModel} PROVE M \cap N # {}
  <2>1. n[1] = "artifact" /\ n[2] = c[2]
    BY <1>3, RunTags
  <2>2. n \notin DOMAIN Catalogue(g.unit).nodes
    BY <2>1, CatalogueTags
  <2>3. PICK d \in Citations(g) : n = ArtifactRefId(d[2]) /\ d[1] \in N \cup {NoModel}
    BY <2>1, <2>2, RunTags DEF RunNode
  <2>4. c[2] = d[2]
    BY <2>1, <2>3, RunTags
  <2>5. c[1] = d[1] /\ c[1] # NoModel
    BY <2>4, SharedRowsAreOfModels
  <2>. QED BY <1>3, <2>3, <2>5
<1>4. ASSUME NEW r \in ResultsOf(f), r.model \in M, n = ModelId(r.model) PROVE M \cap N # {}
  <2>1. n[1] = "model" /\ n[2] = r.model
    BY <1>4, RunTags
  <2>2. n \notin DOMAIN Catalogue(g.unit).nodes
    BY <2>1, CatalogueTags
  <2>3. PICK s \in ResultsOf(g) : s.model \in N /\ n = ModelId(s.model)
    BY <2>1, <2>2, RunTags DEF RunNode
  <2>. QED BY <1>4, <2>1, <2>3, RunTags
<1>5. ASSUME NEW r \in ResultsOf(f), r.model \in M, NEW p \in r.patterns, n = PatternId(p) PROVE M \cap N # {}
  <2>1. n[1] = "pattern" /\ n[2] = p
    BY <1>5, RunTags
  <2>2. n \notin DOMAIN Catalogue(g.unit).nodes
    BY <2>1, CatalogueTags
  <2>3. PICK s \in ResultsOf(g) : s.model \in N /\ \E q \in s.patterns : n = PatternId(q)
    BY <2>1, <2>2, RunTags DEF RunNode
  <2>4. p \in s.patterns
    BY <2>1, <2>3, RunTags
  <2>5. r.model = s.model
    BY <2>4, PatternsApart
  <2>. QED BY <1>5, <2>3, <2>5
<1>. QED BY <1>1, <1>2, <1>3, <1>4, <1>5 DEF RunNode

LEMMA EdgesApart ==
  ASSUME NEW f \in Frames, NEW g \in Frames, f.unit # g.unit, NEW M, NEW N, NEW e,
         RunEdge(f, M, e), RunEdge(g, N, e)
  PROVE  M \cap N # {}
<1>0. \A p, m : <<PatternId(p), ModelId(m), "discovered_by">>[1] = PatternId(p)
  OBVIOUS
<1>1. CASE e[1] \in DOMAIN Catalogue(f.unit).nodes
  <2>1. e[1][2] = f.unit /\ e[1][1] \in {"equipment", "subsystem", "sensor", "threshold"}
    BY <1>1, CatalogueTags
  <2>2. e[1] \notin DOMAIN Catalogue(g.unit).nodes
    BY <2>1, CatalogueTags
  <2>. QED BY <1>0, <2>1, <2>2, RunTags DEF RunEdge
<1>2. ASSUME NEW i \in IdentitiesOf(f.unit), e[1] = ConditionId(i) PROVE FALSE
  <2>1. e[1][1] = "condition" /\ e[1][2] = i
    BY <1>2, RunTags
  <2>2. e[1] \notin DOMAIN Catalogue(g.unit).nodes
    BY <2>1, CatalogueTags
  <2>3. i \notin IdentitiesOf(g.unit)
    BY ConditionsApart
  <2>. QED BY <1>0, <2>1, <2>2, <2>3, RunTags DEF RunEdge
<1>3. ASSUME NEW r \in ResultsOf(f), r.model \in M, NEW p \in r.patterns,
             e = <<PatternId(p), ModelId(r.model), "discovered_by">>
      PROVE  M \cap N # {}
  <2>1. e[1] = PatternId(p) /\ e[1][1] = "pattern" /\ e[1][2] = p
    BY <1>0, <1>3, RunTags
  <2>2. e[1] \notin DOMAIN Catalogue(g.unit).nodes
    BY <2>1, CatalogueTags
  <2>3. PICK s \in ResultsOf(g) : s.model \in N /\ \E q \in s.patterns : e[1] = PatternId(q)
    BY <1>0, <2>1, <2>2, RunTags DEF RunEdge
  <2>4. p \in s.patterns
    BY <2>1, <2>3, RunTags
  <2>5. r.model = s.model
    BY <2>4, PatternsApart
  <2>. QED BY <1>3, <2>3, <2>5
<1>. QED BY <1>1, <1>2, <1>3 DEF RunEdge

LEMMA PlacesInOrder ==
  ASSUME NEW n \in Nat, NEW l \in Nat, n <= l, NEW i \in Nat, NEW j \in Nat, i < j
  PROVE  (IF i <= n THEN i ELSE l + (i - n)) < (IF j <= n THEN j ELSE l + (j - n))
OBVIOUS

\* What stands in rs stands in s, in the same order.
InOrderOf(rs, s) ==
  \A i, j \in DOMAIN rs : i < j => \E x, y \in DOMAIN s : x < y /\ rs[i] = s[x] /\ rs[j] = s[y]

(* A prefix of one sequence and perhaps another after it keep their order. *)
LEMMA PrefixKeepsOrder ==
  ASSUME NEW S, NEW a \in Seq(S), NEW b \in Seq(S), NEW n \in 0 .. Len(a),
         NEW rs \in {SubSeq(a, 1, n), SubSeq(a, 1, n) \o b}
  PROVE  InOrderOf(rs, a \o b)
<1> DEFINE all == a \o b
           ran == SubSeq(a, 1, n)
<1>1. /\ Len(a) \in Nat /\ Len(b) \in Nat /\ n \in Nat /\ n <= Len(a)
      /\ DOMAIN all = 1 .. Len(a) + Len(b)
      /\ \A k \in 1 .. Len(a) : all[k] = a[k]
      /\ \A k \in 1 .. Len(b) : all[Len(a) + k] = b[k]
  BY ConcatParts
<1>2. /\ ran \in Seq(S) /\ Len(ran) = n /\ DOMAIN ran = 1 .. n
      /\ \A k \in 1 .. n : ran[k] = a[k]
  BY <1>1
<1>3. rs = ran \/ rs = ran \o b
  OBVIOUS
<1>. HIDE DEF all, ran
<1>4. CASE rs = ran
  <2>1. \A k \in 1 .. n : k \in DOMAIN all /\ rs[k] = all[k]
    <3>1. 1 .. n \subseteq 1 .. Len(a) /\ 1 .. Len(a) \subseteq 1 .. Len(a) + Len(b)
      BY <1>1
    <3>2. \A k \in 1 .. n : all[k] = a[k] /\ ran[k] = a[k]
      BY <1>1, <1>2, <3>1
    <3>. QED BY <1>1, <1>4, <3>1, <3>2
  <2>2. DOMAIN rs = 1 .. n
    BY <1>2, <1>4
  <2>3. ASSUME NEW i \in DOMAIN rs, NEW j \in DOMAIN rs, i < j
        PROVE  \E x, y \in DOMAIN all : x < y /\ rs[i] = all[x] /\ rs[j] = all[y]
    BY <2>1, <2>2, <2>3
  <2>. QED BY <2>3 DEF all, InOrderOf
<1>5. CASE rs = ran \o b
  <2> DEFINE Place(k) == IF k <= n THEN k ELSE Len(a) + (k - n)
  <2>1. /\ DOMAIN rs = 1 .. n + Len(b)
        /\ \A k \in 1 .. n : rs[k] = ran[k]
        /\ \A k \in 1 .. Len(b) : rs[n + k] = b[k]
    BY <1>2, <1>5, ConcatParts
  <2>2. ASSUME NEW k \in 1 .. n + Len(b) PROVE Place(k) \in DOMAIN all /\ rs[k] = all[Place(k)]
    <3>1. CASE k <= n
      <4>1. k \in 1 .. n /\ k \in 1 .. Len(a) /\ k \in 1 .. Len(a) + Len(b)
        BY <1>1, <3>1
      <4>2. rs[k] = all[k] /\ k \in DOMAIN all
        BY <1>1, <1>2, <2>1, <4>1
      <4>3. Place(k) = k
        BY <3>1
      <4>. QED BY <4>2, <4>3
    <3>2. CASE ~(k <= n)
      <4>1. k - n \in 1 .. Len(b) /\ n + (k - n) = k
        BY <1>1, <3>2
      <4>2. rs[n + (k - n)] = b[k - n] /\ all[Len(a) + (k - n)] = b[k - n]
        BY <1>1, <2>1, <4>1
      <4>3. Len(a) + (k - n) \in DOMAIN all
        BY <1>1, <4>1
      <4>. QED BY <3>2, <4>1, <4>2, <4>3
    <3>. QED BY <3>1, <3>2
  <2>3. ASSUME NEW i \in 1 .. n + Len(b), NEW j \in 1 .. n + Len(b), i < j PROVE Place(i) < Place(j)
    <3>1. i \in Nat /\ j \in Nat
      BY <1>1
    <3>. QED BY <1>1, <2>3, <3>1, PlacesInOrder
  <2>. HIDE DEF Place
  <2>4. SUFFICES ASSUME NEW i \in DOMAIN rs, NEW j \in DOMAIN rs, i < j
                 PROVE  \E x, y \in DOMAIN all : x < y /\ rs[i] = all[x] /\ rs[j] = all[y]
    BY DEF all, InOrderOf
  <2>5. i \in 1 .. n + Len(b) /\ j \in 1 .. n + Len(b)
    BY <2>1
  <2>6. /\ Place(i) \in DOMAIN all /\ rs[i] = all[Place(i)]
        /\ Place(j) \in DOMAIN all /\ rs[j] = all[Place(j)]
    BY <2>2, <2>5
  <2>. QED BY <2>3, <2>4, <2>5, <2>6
<1>. QED BY <1>3, <1>4, <1>5

(* The models of a run come in the order in which _learn runs them. *)
LEMMA RunsAreInOrder ==
  ASSUME NEW f \in Frames, NEW rs \in LearnedResults(f), NEW i \in DOMAIN rs, NEW j \in DOMAIN rs, i < j
  PROVE  Earlier(rs[i].model, rs[j].model)
<1> DEFINE P == {f.patterns[k] : k \in DOMAIN f.patterns}
           F == {f.forecast[k] : k \in DOMAIN f.forecast}
<1>1. f.patterns \in Seq(P) /\ f.forecast \in Seq(F)
  BY ResultsAreSequences
<1>. HIDE DEF P, F
<1>2. f.patterns \in Seq(P \cup F) /\ f.forecast \in Seq(P \cup F)
  BY <1>1, SeqGrows
<1>3. PICK n \in 0 .. Len(f.patterns) :
         rs = SubSeq(f.patterns, 1, n) \/ rs = SubSeq(f.patterns, 1, n) \o f.forecast
  BY DEF LearnedResults
<1>4. PICK x \in DOMAIN Results(f) : \E y \in DOMAIN Results(f) :
        x < y /\ rs[i] = Results(f)[x] /\ rs[j] = Results(f)[y]
  <2> DEFINE a == f.patterns
             b == f.forecast
             S == P \cup F
  <2>1. a \in Seq(S) /\ b \in Seq(S) /\ n \in 0 .. Len(a) /\ rs \in {SubSeq(a, 1, n), SubSeq(a, 1, n) \o b}
    BY <1>2, <1>3
  <2>2. Results(f) = a \o b
    BY DEF Results
  <2>. HIDE DEF a, b, S
  <2>3. InOrderOf(rs, a \o b)
    BY <2>1, PrefixKeepsOrder
  <2>. QED BY <2>2, <2>3 DEF InOrderOf
<1>. QED BY <1>4, ModelsAreOrdered

LEMMA TailParts ==
  ASSUME NEW S, NEW s \in Seq(S), s # <<>>
  PROVE  \A k \in DOMAIN Tail(s) : k \in Nat \ {0} /\ k + 1 \in DOMAIN s /\ Tail(s)[k] = s[k + 1]
OBVIOUS

(* A step that leaves a run's rows and its results. *)
LEMMA OthersLock ==
  ASSUME Locks, NEW v \in Workers, tx'[v] = tx[v], pc'[v] = pc[v], job'[v] = job[v],
         todo'[v].results = todo[v].results
  PROVE  Locking(v)'
<1>1. Locking(v)
  BY DEF Locks
<1>2. Queued(v) => Queued(v)'
  BY DEF Queued, ModelsIn
<1>3. RunRows(job[v], ModelsIn(tx[v]), tx[v]) => RunRows(job[v], ModelsIn(tx[v]), tx[v])'
  BY DEF RunRows, RunNode, RunEdge, ModelsIn
<1>. QED BY <1>1, <1>2, <1>3 DEF Locking

LEMMA RunLocks ==
  ASSUME Typed, Folds, Traced, Locks, NEW w \in Workers, Begin(w) \/ RunStep(w) PROVE Locks'
<1>0. /\ w \in Procs /\ Mover(w) /\ Tracing(w) /\ Working(w) /\ Locking(w)
      /\ pc[w] # "idle" => job[w] \in Frames
  BY DEF Procs, Mover, Traced, Folds, Locks, Typed, Stages
<1>1. \A v \in Workers \ {w} : Stays(v)
  BY <1>0, OthersRest
<1>2. SUFFICES Locking(w)'
  BY <1>1, OthersLock DEF Locks, Stays
<1>3. pc = [q \in Procs |-> pc[q]]
  BY DEF Typed, Shape
<1>4. CASE Begin(w)
  <2>1. UNCHANGED tx /\ Waiting(w) /\ pc'[w] = "save"
    BY <1>0, <1>3, <1>4 DEF Begin, Working
  <2>2. PICK f \in Frames : \E rs \in LearnedResults(f) : \E left :
          todo' = [todo EXCEPT ![w] = [result |-> OfEngines(f), left |-> left, results |-> rs]]
    BY <1>4 DEF Begin
  <2>3. PICK rs \in LearnedResults(f) : todo'[w].results = rs
    BY <2>2 DEF Folds
  <2>4. ModelsIn(tx'[w]) = {}
    BY <2>1, EmptyHasNoModels DEF Waiting
  <2>. QED BY <2>1, <2>3, <2>4, RunsAreInOrder DEF Locking, Queued
<1>5. CASE SaveAsset(w)
  <2>1. /\ UNCHANGED <<graph, todo, job>> /\ Waiting(w) /\ pc[w] = "save"
        /\ Write(w, Catalogue(job[w].unit))
    BY <1>0, <1>5 DEF SaveAsset, tables, Working
  <2>2. tx'[w] = Upsert(Empty, Catalogue(job[w].unit))
    BY <2>1, WriteShows DEF Waiting
  <2>3. ModelsIn(tx'[w]) = {}
    <3>1. ModelsIn(tx'[w]) = ModelsIn(Empty) \cup ModelsIn(Catalogue(job[w].unit))
      BY <2>2, ModelsTogether
    <3>. QED BY <3>1, EmptyHasNoModels, CatalogueHasNoModels
  <2>4. RunRows(job[w], {}, tx'[w])
    <3>1. RunRows(job[w], {}, Empty)
      BY DEF RunRows, Empty
    <3>. QED BY <2>2, <3>1, CatalogueRows, RowsTogether
  <2>5. \A i, j \in DOMAIN todo[w].results : i < j => Earlier(todo[w].results[i].model, todo[w].results[j].model)
    BY <1>0, <2>1 DEF Locking, Queued
  <2>. QED BY <2>1, <2>3, <2>4, <2>5 DEF Locking, Queued
<1>6. CASE ReadCondition(w)
  BY <1>0, <1>6, OthersLock DEF ReadCondition
<1>7. CASE WriteFinding(w)
  <2>1. /\ UNCHANGED <<graph, pc, job>> /\ Write(w, FindingRows(w)) /\ pc[w] = "project" /\ todo[w].left # {}
        /\ Planned(w)
    BY <1>0, <1>7 DEF WriteFinding, At, tables, Working
  <2>2. todo'[w].results = todo[w].results
    BY <1>7, <2>1 DEF WriteFinding, Folds, Planned
  <2>3. tx'[w] = Upsert(tx[w], FindingRows(w))
    BY <2>1, WriteShows
  <2>4. ModelsIn(tx'[w]) = ModelsIn(tx[w])
    <3>1. ModelsIn(tx'[w]) = ModelsIn(tx[w]) \cup ModelsIn(FindingRows(w))
      BY <2>3, ModelsTogether
    <3>2. ModelsIn(FindingRows(w)) = {}
      BY FindingHasNoModels DEF FindingRows
    <3>. QED BY <3>1, <3>2
  <2>5. RunRows(job[w], ModelsIn(tx[w]), tx'[w])
    <3>1. RunRows(job[w], ModelsIn(tx[w]), FindingRows(w))
      BY <2>1, RowsOfFinding
    <3>2. RunRows(job[w], ModelsIn(tx[w]), tx[w])
      BY <1>0, <2>1 DEF Locking
    <3>. QED BY <2>3, <3>1, <3>2, RowsTogether
  <2>6. Queued(w)'
    BY <1>0, <2>1, <2>2, <2>4 DEF Locking, Queued
  <2>. QED BY <2>1, <2>4, <2>5, <2>6 DEF Locking
<1>8. CASE WriteModel(w)
  <2> DEFINE r == Head(todo[w].results)
             M == ModelsIn(tx[w])
             N == M \cup {r.model}
  <2>1. /\ UNCHANGED <<graph, pc, job>> /\ Write(w, ModelPart(r)) /\ pc[w] = "project"
        /\ todo[w].results # <<>> /\ Planned(w) /\ job[w] \in Frames /\ Queued(w) /\ RunRows(job[w], M, tx[w])
    BY <1>0, <1>8 DEF WriteModel, ToModel, At, tables, Working, Locking
  <2>2. r \in ResultsOf(job[w])
    BY <2>1, TakeHead DEF Planned
  <2>3. todo'[w].results = Tail(todo[w].results)
    BY <1>8, <2>1 DEF WriteModel, TakeResult, Folds
  <2>4. tx'[w] = Upsert(tx[w], ModelPart(r))
    BY <2>1, WriteShows
  <2>5. ModelsIn(tx'[w]) = N
    BY <2>4, ModelsTogether, ModelPartHasModel
  <2>6. RunRows(job[w], N, tx'[w])
    <3>1. RunRows(job[w], {r.model}, ModelPart(r))
      BY <2>2, ModelRows
    <3>2. RunRows(job[w], N, ModelPart(r)) /\ RunRows(job[w], N, tx[w])
      BY <2>1, <3>1, MoreModelsMoreRows
    <3>. QED BY <2>4, <3>2, RowsTogether
  <2>7. Queued(w)'
    <3>1. /\ todo[w].results \in Seq(ResultsOf(job[w])) /\ r = todo[w].results[1] /\ 1 \in DOMAIN todo[w].results
          /\ DOMAIN todo[w].results \subseteq Nat
      BY <2>1 DEF Planned
    <3>2. \A k \in DOMAIN todo'[w].results :
            /\ k \in Nat \ {0} /\ k + 1 \in DOMAIN todo[w].results
            /\ todo'[w].results[k] = todo[w].results[k + 1]
      BY <2>1, <2>3, <3>1, TailParts
    <3>. HIDE DEF r
    <3>3. \A k \in DOMAIN todo'[w].results : \A m \in N : Earlier(m, todo'[w].results[k].model)
      BY <2>1, <3>1, <3>2 DEF Queued
    <3>4. ASSUME NEW i \in DOMAIN todo'[w].results, NEW j \in DOMAIN todo'[w].results, i < j
          PROVE  Earlier(todo'[w].results[i].model, todo'[w].results[j].model)
      <4>1. i + 1 < j + 1
        BY <3>2, <3>4
      <4>. QED BY <2>1, <3>2, <4>1 DEF Queued
    <3>. QED BY <2>5, <3>3, <3>4 DEF Queued
  <2>. QED BY <2>1, <2>5, <2>6, <2>7 DEF Locking
<1>9. CASE RecordModel(w)
  <2>1. UNCHANGED <<tx, pc, job>> /\ Planned(w)
    BY <1>0, <1>9 DEF RecordModel, ToRecord, At, Working
  <2>2. todo'[w].results = todo[w].results
    BY <1>9, <2>1 DEF RecordModel, FinishResult, Folds, Planned
  <2>. QED BY <2>1, <2>2, OthersLock
<1>10. CASE CommitRun(w)
  <2>1. pc'[w] = "idle"
    BY <1>0, <1>3, <1>10 DEF CommitRun
  <2>. QED BY <2>1 DEF Locking
<1>. QED BY <1>4, <1>5, <1>6, <1>7, <1>8, <1>9, <1>10 DEF RunStep

LEMMA NextLocks == Typed /\ Given /\ Folds /\ Traced /\ Locks /\ [Next]_vars => Locks'
<1>. SUFFICES ASSUME Typed, Given, Folds, Traced, Locks, [Next]_vars PROVE Locks'
  OBVIOUS
<1>1. CASE UNCHANGED vars
  BY <1>1, OthersLock DEF vars, tables, Locks
<1>2. ASSUME NEW r \in Requests, Judge(r) \/ RequestStep(r) PROVE Locks'
  <2>1. r \in Procs /\ r \notin Workers /\ Mover(r)
    BY <1>2, ProcsAreDistinct DEF Procs, Mover
  <2>2. \A v \in Workers : Stays(v)
    BY <2>1, OthersRest
  <2>. QED BY <2>2, OthersLock DEF Locks, Stays
<1>3. ASSUME NEW p \in Procs, Abort(p) PROVE Locks'
  <2>1. \A v \in Workers \ {p} : Stays(v)
    BY <1>3, OthersRest DEF Mover
  <2>2. p \in Workers => pc'[p] = "idle"
    BY <1>3 DEF Abort, Typed, Shape
  <2>. QED BY <2>1, <2>2, OthersLock DEF Locks, Stays, Locking
<1>. QED BY <1>1, <1>2, <1>3, RunLocks DEF Next

(* Which rows are waited for: none of a request's, and a run's only by a run that
   comes to a model which that run has projected. *)
LEMMA VerdictsAreOfRequests ==
  ASSUME NEW f, NEW M, NEW g, RunRows(f, M, g), NEW l
  PROVE  /\ DOMAIN g.nodes \cap DOMAIN VerdictPart(l).nodes = {}
         /\ DOMAIN g.edges \cap DOMAIN VerdictPart(l).edges = {}
<1> DEFINE n == ValidationId(l.identity)
           e == VerdictEdge(l.identity)
<1>1. DOMAIN VerdictPart(l).nodes = {n} /\ DOMAIN VerdictPart(l).edges = {e}
  BY DEF VerdictPart, VerdictEdge
<1>2. n[1] = "validation" /\ e[1][1] = "condition" /\ e[3] = "validated_by"
  BY DEF ValidationId, VerdictEdge, ConditionId
<1>. HIDE DEF n, e
<1>3. ~RunNode(f, M, n)
  <2>1. n \notin DOMAIN Catalogue(f.unit).nodes
    BY <1>2, CatalogueTags
  <2>. QED BY <1>2, <2>1, RunTags DEF RunNode
<1>4. ~RunEdge(f, M, e)
  <2>1. e[1] \notin DOMAIN Catalogue(f.unit).nodes
    BY <1>2, CatalogueTags
  <2>2. \A p, m : e # <<PatternId(p), ModelId(m), "discovered_by">>
    <3>1. \A p, m : <<PatternId(p), ModelId(m), "discovered_by">>[1][1] = "pattern"
      BY RunTags
    <3>. QED BY <1>2, <3>1
  <2>. QED BY <1>2, <2>1, <2>2 DEF RunEdge
<1>. QED BY <1>1, <1>3, <1>4 DEF RunRows

LEMMA WhoIsWaitedFor ==
  ASSUME Typed, Folds, NEW p, NEW q \in Workers, WaitsFor(p, q) PROVE pc[q] = "project"
<1>1. Working(q) /\ pc[q] \in {"idle", "save", "project"}
  BY DEF Folds, Typed, Stages
<1>2. Waiting(q) => FALSE
  BY DEF Waiting, WaitsFor, Empty
<1>. QED BY <1>1, <1>2 DEF Working

LEMMA RequestsEnd ==
  ASSUME Typed, Given, Folds, Locks, NEW r \in Requests, NEW q \in Procs \ {r}, WaitsFor(r, q)
  PROVE  q \in Requests /\ \A p \in Procs \ {q} : ~WaitsFor(q, p)
<1>1. r \notin Workers /\ NextModels(r) = {}
  BY ProcsAreDistinct DEF NextModels
<1>2. DOMAIN Empty.nodes = {} /\ DOMAIN Empty.edges = {}
  BY DEF Empty
<1>3. NextRows(r) = VerdictPart(job[r])
  BY <1>1, <1>2 DEF NextRows, WaitsFor
<1>4. q \notin Workers
  <2>1. ASSUME q \in Workers PROVE FALSE
    <3>1. pc[q] = "project"
      BY <2>1, WhoIsWaitedFor
    <3>2. RunRows(job[q], ModelsIn(tx[q]), tx[q])
      BY <2>1, <3>1 DEF Locks, Locking
    <3>. QED BY <1>1, <1>3, <3>2, VerdictsAreOfRequests DEF WaitsFor
  <2>. QED BY <2>1
<1>5. q \in Requests /\ Pending(q)
  BY <1>4 DEF Procs, Given
<1>6. pc[q] = "reply"
  BY <1>1, <1>2, <1>3, <1>5 DEF Pending, WaitsFor
<1>7. NextRows(q) = Empty /\ NextModels(q) = {}
  BY <1>4, <1>6 DEF NextRows, NextModels
<1>. QED BY <1>2, <1>5, <1>7 DEF WaitsFor

LEMMA ModelHeld ==
  ASSUME NEW f, NEW M, NEW g, RunRows(f, M, g), NEW m \in ModelsIn(g) PROVE ModelId(m) \in DOMAIN g.nodes
<1>1. PICK n \in DOMAIN g.nodes : n[1] = "model" /\ n[2] = m
  BY DEF ModelsIn
<1>2. n \notin DOMAIN Catalogue(f.unit).nodes
  BY <1>1, CatalogueTags
<1>3. PICK r \in ResultsOf(f) : n = ModelId(r.model)
  BY <1>1, <1>2, RunTags DEF RunRows, RunNode
<1>4. r.model = m
  BY <1>1, <1>3, RunTags
<1>. QED BY <1>3, <1>4

LEMMA RunsAreApart ==
  ASSUME Typed, Folds, Locks, NEW v \in Workers, NEW w \in Workers, v # w, pc[v] = "project", pc[w] = "project"
  PROVE  /\ job[v] \in Frames /\ job[w] \in Frames /\ job[v].unit # job[w].unit
         /\ ModelsIn(tx[v]) \cap ModelsIn(tx[w]) = {}
<1>1. /\ Working(v) /\ Working(w) /\ v \in Procs /\ w \in Procs
      /\ job[v] \in Frames /\ job[w] \in Frames
      /\ RunRows(job[v], ModelsIn(tx[v]), tx[v]) /\ RunRows(job[w], ModelsIn(tx[w]), tx[w])
  BY DEF Folds, Procs, Typed, Stages, Locks, Locking
<1>2. \A u : EquipmentId(u) \in DOMAIN Catalogue(u).nodes
  BY DEF Catalogue, Plain
<1>3. EquipmentId(job[v].unit) \in DOMAIN tx[v].nodes /\ EquipmentId(job[w].unit) \in DOMAIN tx[w].nodes
  BY <1>1, <1>2 DEF Working
<1>4. DOMAIN tx[v].nodes \cap DOMAIN tx[w].nodes = {}
  BY <1>1 DEF Typed, Apart
<1>5. job[v].unit # job[w].unit
  BY <1>3, <1>4
<1>6. \A m \in ModelsIn(tx[v]) : ModelId(m) \in DOMAIN tx[v].nodes
  BY <1>1, ModelHeld
<1>7. \A m \in ModelsIn(tx[w]) : ModelId(m) \in DOMAIN tx[w].nodes
  BY <1>1, ModelHeld
<1>. QED BY <1>1, <1>4, <1>5, <1>6, <1>7

\* A run that comes to a model.
Heading(w) == pc[w] = "project" /\ ToModel(w)
HeadOf(w) == Head(todo[w].results).model

LEMMA RunsWaitForModels ==
  ASSUME Typed, Folds, Traced, Locks, NEW v \in Workers, NEW w \in Workers, v # w,
         pc[v] = "project", pc[w] = "project", WaitsFor(v, w)
  PROVE  Heading(v) /\ HeadOf(v) \in ModelsIn(tx[w])
<1> DEFINE f == job[v]
           g == job[w]
           M == ModelsIn(tx[v])
           N == ModelsIn(tx[w])
<1>1. f \in Frames /\ g \in Frames /\ f.unit # g.unit /\ M \cap N = {}
  BY RunsAreApart
<1>2. RunRows(g, N, tx[w]) /\ Tracing(v) /\ Tracing(w) /\ Planned(v)
  BY DEF Locks, Locking, Traced, Folds, Working
<1>3. ASSUME NEW L, NEW h, RunRows(f, L, h),
             DOMAIN tx[w].nodes \cap DOMAIN h.nodes # {} \/ DOMAIN tx[w].edges \cap DOMAIN h.edges # {}
      PROVE  L \cap N # {}
  <2>1. CASE DOMAIN tx[w].nodes \cap DOMAIN h.nodes # {}
    <3>1. PICK n : n \in DOMAIN tx[w].nodes /\ n \in DOMAIN h.nodes
      BY <2>1
    <3>2. RunNode(f, L, n) /\ RunNode(g, N, n)
      BY <1>2, <1>3, <3>1 DEF RunRows
    <3>. QED BY <1>1, <3>2, NodesApart
  <2>2. CASE DOMAIN tx[w].edges \cap DOMAIN h.edges # {}
    <3>1. PICK e : e \in DOMAIN tx[w].edges /\ e \in DOMAIN h.edges
      BY <2>2
    <3>2. RunEdge(f, L, e) /\ RunEdge(g, N, e)
      BY <1>2, <1>3, <3>1 DEF RunRows
    <3>. QED BY <1>1, <3>2, EdgesApart
  <2>. QED BY <1>3, <2>1, <2>2
<1>4. ~(NextModels(v) \cap news[w].models # {})
  <2>1. NextModels(v) # {} => NextModels(v) = {todo[v].result.model} /\ todo[v].result.model # NoModel
    BY DEF NextModels, ToRecord
  <2>2. NextModels(v) \subseteq M
    BY <1>2, <2>1 DEF Tracing
  <2>3. news[w].models \subseteq N
    BY <1>2 DEF Tracing
  <2>. QED BY <1>1, <2>2, <2>3
<1>5. DOMAIN tx[w].nodes \cap DOMAIN NextRows(v).nodes # {} \/ DOMAIN tx[w].edges \cap DOMAIN NextRows(v).edges # {}
  BY <1>4 DEF WaitsFor
<1>6. CASE At(v, FALSE) /\ seen[v] # <<>>
  <2>1. todo[v].left # {} /\ ~ToModel(v) /\ v \notin Requests
    BY <1>6, ProcsAreDistinct DEF At, ToModel
  <2>2. NextRows(v) = FindingRows(v)
    BY <1>6, <2>1 DEF NextRows
  <2>3. RunRows(f, M, FindingRows(v))
    BY <2>1, RowsOfFinding
  <2>. QED BY <1>1, <1>3, <1>5, <2>2, <2>3
<1>7. CASE ToModel(v)
  <2> DEFINE r == Head(todo[v].results)
  <2>1. todo[v].left = {} /\ todo[v].results # <<>> /\ v \notin Requests /\ ~At(v, FALSE)
    BY <1>7, ProcsAreDistinct DEF At, ToModel
  <2>2. NextRows(v) = ModelPart(r)
    BY <1>7, <2>1 DEF NextRows
  <2>3. r \in ResultsOf(f)
    BY <1>2, <2>1, TakeHead DEF Planned
  <2>. HIDE DEF r
  <2>4. RunRows(f, {r.model}, ModelPart(r))
    BY <2>3, ModelRows
  <2>5. {r.model} \cap N # {}
    BY <1>3, <1>5, <2>2, <2>4
  <2>. QED BY <1>7, <2>5 DEF r, Heading, HeadOf
<1>8. CASE ~(At(v, FALSE) /\ seen[v] # <<>>) /\ ~ToModel(v)
  <2>1. NextRows(v) = Empty
    BY <1>8, ProcsAreDistinct DEF NextRows
  <2>. QED BY <1>5, <2>1 DEF Empty
<1>. QED BY <1>6, <1>7, <1>8

(* A run that comes to a model which another has projected is waited for, if at
   all, by runs that come to a model before that one. *)
LEMMA WaitingGoesUp ==
  ASSUME Typed, Folds, Traced, Locks, NEW v \in Workers, NEW w \in Workers,
         Heading(w), HeadOf(v) \in ModelsIn(tx[w])
  PROVE  Earlier(HeadOf(v), HeadOf(w))
<1>1. Queued(w) /\ Planned(w) /\ todo[w].results # <<>>
  BY DEF Heading, ToModel, Locks, Locking, Folds, Working
<1>2. 1 \in DOMAIN todo[w].results /\ Head(todo[w].results) = todo[w].results[1]
  BY <1>1 DEF Planned
<1>. QED BY <1>1, <1>2 DEF Queued, HeadOf

LEMMA GreatestIndex ==
  ASSUME NEW l \in Nat, NEW X \in SUBSET (1 .. l), X # {} PROVE \E x \in X : \A y \in X : y <= x
<1> DEFINE D == {l - x : x \in X}
<1>1. \A x \in X : x \in Nat /\ l - x \in Nat
  OBVIOUS
<1>2. D \in SUBSET Nat /\ D # {}
  BY <1>1
<1>3. PICK x \in X : \A e \in D : l - x <= e
  <2>. HIDE DEF D
  <2>1. (CHOOSE m \in D : \A k \in D : m <= k) \in D
        /\ \A k \in D : (CHOOSE m \in D : \A j \in D : m <= j) <= k
    BY <1>2, LeastIndex
  <2>. QED BY <2>1 DEF D
<1>4. ASSUME NEW y \in X PROVE y <= x
  <2>1. l - x <= l - y /\ x \in Nat /\ y \in Nat
    BY <1>1, <1>3
  <2>. QED BY <1>3, <2>1
<1>. QED BY <1>4

LEMMA LocksSay == Typed /\ Given /\ Folds /\ Traced /\ Locks => NoWaitCycle
<1>. SUFFICES ASSUME Typed, Given, Folds, Traced, Locks,
                     NEW S \in SUBSET {p \in Procs : Open(p)}, S # {},
                     \A p \in S : \E q \in S \ {p} : WaitsFor(p, q)
              PROVE  FALSE
  BY DEF NoWaitCycle
<1>1. S \subseteq Workers
  <2>1. SUFFICES ASSUME NEW r \in S, r \in Requests PROVE FALSE
    BY DEF Procs
  <2>2. PICK q \in S \ {r} : WaitsFor(r, q)
    OBVIOUS
  <2>3. \A p \in Procs \ {q} : ~WaitsFor(q, p)
    BY <2>1, <2>2, RequestsEnd
  <2>. QED BY <2>2, <2>3
<1> DEFINE T == {w \in S : pc[w] = "project"}
<1>2. \A v \in S : \E w \in T \ {v} : WaitsFor(v, w)
  BY <1>1, WhoIsWaitedFor
<1>3. \A v \in T : \E w \in T : Heading(v) /\ HeadOf(v) \in ModelsIn(tx[w])
  BY <1>1, <1>2, RunsWaitForModels
<1>4. \A v \in T : \E w \in T : Earlier(HeadOf(v), HeadOf(w))
  BY <1>1, <1>3, WaitingGoesUp
<1>5. T # {}
  BY <1>2
<1> DEFINE X == {x \in DOMAIN ModelOrder : \E v \in T : ModelOrder[x] = HeadOf(v)}
<1>. HIDE DEF T
<1>6. DOMAIN ModelOrder = 1 .. Len(ModelOrder) /\ Len(ModelOrder) \in Nat
  BY ModelsAreOrdered
<1>7. X # {}
  BY <1>4, <1>5 DEF Earlier
<1>8. PICK x \in X : \A y \in X : y <= x
  BY <1>6, <1>7, GreatestIndex
<1>9. PICK v \in T : ModelOrder[x] = HeadOf(v)
  OBVIOUS
<1>10. PICK w \in T : Earlier(HeadOf(v), HeadOf(w))
  BY <1>4
<1>11. PICK a \in DOMAIN ModelOrder, b \in DOMAIN ModelOrder :
          a < b /\ ModelOrder[a] = HeadOf(v) /\ ModelOrder[b] = HeadOf(w)
  BY <1>10 DEF Earlier
<1>12. a = x /\ b \in X
  BY <1>9, <1>11, ModelsAreOrdered
<1>. QED BY <1>6, <1>8, <1>11, <1>12

(* Runs of different units wait for each other's rows, and engineers for each
   other's verdicts, but never in a circle: whoever fails and however many run,
   some open transaction can go on. *)
THEOREM NobodyWaitsInACircle == Spec => []NoWaitCycle
<1>1. Init => Typed /\ Given /\ Folds /\ Traced
  BY InitTyped, InitGiven, InitFolds, InitTraced
<1>2. Init => Locks
  BY DEF Init, Locks, Locking, Procs
<1>3. Typed /\ Given /\ Folds /\ Traced /\ Locks /\ [Next]_vars
        => Typed' /\ Given' /\ Folds' /\ Traced' /\ Locks'
  BY NextTyped, NextGiven, NextFolds, NextTraced, NextLocks
<1>. QED BY <1>1, <1>2, <1>3, LocksSay, PTL DEF Spec
=============================================================================
