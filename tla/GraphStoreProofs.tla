-------------------------- MODULE GraphStoreProofs --------------------------
(* Proofs about KnowledgeGraph and GraphStore, for any plant, frames, processes
   and verdicts: the fold of a condition does not depend on the order, open
   transactions write different rows, and the verdict that is shown was given. *)
EXTENDS GraphStore, TLAPS, WellFoundedInduction

-----------------------------------------------------------------------------
(* The fold. *)

FindingSet == [id : Nat, identity : STRING, start : Nat, end : Nat, severity : STRING]
ConditionSet ==
  [ids : SUBSET Nat, first : Nat, last : Nat, latest : Nat, latestEnd : Nat, severity : STRING]

(* Two findings of a condition may be projected in either order: what the node
   says in the end is the same (_fold_condition: "order-independent"). *)
THEOREM FoldIsOrderIndependent ==
  ASSUME NEW c \in ConditionSet, NEW f \in FindingSet, NEW g \in FindingSet, f.id = g.id => f = g
  PROVE  FoldCondition(FoldCondition(c, f), g) = FoldCondition(FoldCondition(c, g), f)
BY SMTT(60) DEF FoldCondition, Newer, Earliest, Latest, ConditionSet, FindingSet

(* A finding that is projected twice counts once ("idempotently"). *)
THEOREM FoldIsIdempotent ==
  ASSUME NEW c \in ConditionSet, NEW f \in FindingSet
  PROVE  FoldCondition(FoldCondition(c, f), f) = FoldCondition(c, f)
BY DEF FoldCondition, Newer, Earliest, Latest, ConditionSet, FindingSet

-----------------------------------------------------------------------------
(* The rows of a part. *)

LEMMA UpsertRows ==
  ASSUME NEW g, NEW h
  PROVE  /\ DOMAIN Upsert(g, h).nodes = DOMAIN g.nodes \cup DOMAIN h.nodes
         /\ DOMAIN Upsert(g, h).edges = DOMAIN g.edges \cup DOMAIN h.edges
         /\ \A n \in DOMAIN h.nodes : Upsert(g, h).nodes[n] = h.nodes[n]
         /\ \A n \in DOMAIN g.nodes \ DOMAIN h.nodes : Upsert(g, h).nodes[n] = g.nodes[n]
         /\ \A e \in DOMAIN h.edges : Upsert(g, h).edges[e] = h.edges[e]
         /\ \A e \in DOMAIN g.edges \ DOMAIN h.edges : Upsert(g, h).edges[e] = g.edges[e]
BY DEF Upsert, Over

VerdictEdge(i) == <<ConditionId(i), ValidationId(i), "validated_by">>
NoVerdicts(g) ==
  /\ \A i \in Identities : ValidationId(i) \notin DOMAIN g.nodes
  /\ \A i \in Identities : VerdictEdge(i) \notin DOMAIN g.edges

LEMMA EmptyHasNoVerdicts == NoVerdicts(Empty)
BY DEF NoVerdicts, Empty

LEMMA UpsertHasNoVerdicts ==
  ASSUME NEW g, NEW h, NoVerdicts(g), NoVerdicts(h) PROVE NoVerdicts(Upsert(g, h))
BY UpsertRows DEF NoVerdicts

(* A run writes catalogue, conditions, artifacts, models and patterns. *)
LEMMA CatalogueHasNoVerdicts == ASSUME NEW u PROVE NoVerdicts(Catalogue(u))
BY DEF NoVerdicts, Catalogue, Plain, ValidationId, VerdictEdge, EquipmentId, SubsystemId, SensorId, ThresholdId

LEMMA ModelHasNoVerdicts == ASSUME NEW r PROVE NoVerdicts(ModelPart(r))
BY DEF NoVerdicts, ModelPart, Plain, ValidationId, VerdictEdge, ModelId, PatternId

LEMMA FindingHasNoVerdicts ==
  ASSUME NEW g, NEW c, NEW f, NEW r
  PROVE  NoVerdicts(Upsert(FindingPart(g, c, f), SuggestPart(f, r)))
<1> DEFINE own == [nodes |-> [n \in {ConditionId(f.identity)} |-> FoldCondition(c, f)], edges |-> <<>>]
           links == Plain({}, {<<ConditionId(f.identity), TargetId(f), "observed_on">>}
                           \cup {<<ConditionId(f.identity), ConditionId(t), "triggered_by">> : t \in f.by})
<1>1. NoVerdicts(own)
  BY DEF NoVerdicts, ConditionId, ValidationId
<1>2. NoVerdicts(links)
  BY DEF NoVerdicts, Plain, VerdictEdge
<1>3. NoVerdicts(Evidence(g, f))
  BY DEF NoVerdicts, Evidence, EvidenceEdge, ArtifactRefId, ValidationId, VerdictEdge
<1>4. NoVerdicts(SuggestPart(f, r))
  BY DEF NoVerdicts, SuggestPart, Plain, VerdictEdge
<1>5. FindingPart(g, c, f) = Upsert(Upsert(own, links), Evidence(g, f))
  BY DEF FindingPart
<1>. HIDE DEF own, links
<1>. QED BY <1>1, <1>2, <1>3, <1>4, <1>5, UpsertHasNoVerdicts

-----------------------------------------------------------------------------
(* Types, and the rows of open transactions. *)

NewsFields == {"findings", "models", "labels"}
Shape ==
  /\ DOMAIN tx = Procs
  /\ DOMAIN job = Procs
  /\ DOMAIN news = Procs /\ \A p \in Procs : DOMAIN news[p] = NewsFields
  /\ pc = [p \in Procs |-> pc[p]]

Stages ==
  /\ \A w \in Workers :
       /\ pc[w] \in {"idle", "save", "project"}
       /\ IF pc[w] = "idle" THEN job[w] = NoFrame ELSE job[w] \in Frames
  /\ \A r \in Requests :
       /\ pc[r] \in {"idle", "record", "project", "reply", "done"}
       /\ pc[r] = "idle" => job[r] = NoFrame
       /\ pc[r] \in {"record", "project", "reply"} => job[r] \in LabelSet
  /\ now \in Nat /\ faults \in 0 .. MaxFaults

Apart ==
  \A p, q \in Procs : p # q => DOMAIN tx[p].nodes \cap DOMAIN tx[q].nodes = {}

Recorded ==
  /\ findings \subseteq AllFindings /\ completed \subseteq Frames
  /\ \A p \in Procs : news[p].findings \subseteq AllFindings

Typed == Shape /\ Stages /\ Apart /\ Recorded

LEMMA WriteIsApart ==
  ASSUME Typed, NEW p \in Procs, NEW part, Write(p, part)
  PROVE  /\ DOMAIN tx' = Procs
         /\ tx'[p] = Upsert(tx[p], part)
         /\ \A q \in Procs \ {p} : tx'[q] = tx[q]
         /\ Apart'
<1>1. /\ DOMAIN tx' = Procs
      /\ tx'[p] = Upsert(tx[p], part)
      /\ \A q \in Procs \ {p} : tx'[q] = tx[q]
  BY DEF Write, Typed, Shape
<1>2. DOMAIN tx'[p].nodes = DOMAIN tx[p].nodes \cup DOMAIN part.nodes
  BY <1>1, UpsertRows
<1>3. \A q \in Procs \ {p} : DOMAIN tx[q].nodes \cap DOMAIN part.nodes = {}
  BY DEF Write, Blocked
<1>. QED BY <1>1, <1>2, <1>3 DEF Typed, Apart

LEMMA ClearIsApart ==
  ASSUME Typed, NEW p \in Procs, Clear(p)
  PROVE  /\ DOMAIN tx' = Procs
         /\ DOMAIN news' = Procs /\ \A q \in Procs : DOMAIN news'[q] = NewsFields
         /\ tx'[p] = Empty /\ news'[p] = NoNews
         /\ \A q \in Procs \ {p} : tx'[q] = tx[q] /\ news'[q] = news[q]
         /\ Apart'
<1>1. /\ DOMAIN tx' = Procs
      /\ tx'[p] = Empty
      /\ \A q \in Procs \ {p} : tx'[q] = tx[q]
  BY DEF Clear, Typed, Shape
<1>2. /\ news'[p] = NoNews
      /\ \A q \in Procs \ {p} : news'[q] = news[q]
      /\ DOMAIN news' = Procs
  BY DEF Clear, Typed, Shape
<1>3. DOMAIN news' = Procs /\ \A q \in Procs : DOMAIN news'[q] = NewsFields
  BY <1>2 DEF Typed, Shape, NoNews, NewsFields
<1>4. DOMAIN tx'[p].nodes = {}
  BY <1>1 DEF Empty
<1>. QED BY <1>1, <1>2, <1>3, <1>4 DEF Typed, Apart

LEMMA ConcatParts ==
  ASSUME NEW S, NEW a \in Seq(S), NEW b \in Seq(S)
  PROVE  /\ Len(a) \in Nat /\ Len(b) \in Nat
         /\ DOMAIN (a \o b) = 1 .. Len(a) + Len(b)
         /\ \A k \in 1 .. Len(a) : (a \o b)[k] = a[k]
         /\ \A k \in 1 .. Len(b) : (a \o b)[Len(a) + k] = b[k]
OBVIOUS

LEMMA SeqGrows ==
  ASSUME NEW A, NEW B, A \subseteq B, NEW s \in Seq(A) PROVE s \in Seq(B)
OBVIOUS

(* What the models of a run find is among the findings of its frame. *)
LEMMA LearnedOfFrame ==
  ASSUME NEW f \in Frames, NEW rs \in LearnedResults(f)
  PROVE  UNION {{rs[i].findings[j] : j \in DOMAIN rs[i].findings} : i \in DOMAIN rs} \subseteq Learned(f)
<1> DEFINE P == {f.patterns[i] : i \in DOMAIN f.patterns}
           F == {f.forecast[i] : i \in DOMAIN f.forecast}
<1>1. f.patterns \in Seq(P) /\ f.forecast \in Seq(F)
  BY ResultsAreSequences
<1>. HIDE DEF P, F
<1>2. f.patterns \in Seq(P \cup F) /\ f.forecast \in Seq(P \cup F)
  BY <1>1, SeqGrows
<1>3. PICK n \in 0 .. Len(f.patterns) :
         rs = SubSeq(f.patterns, 1, n) \/ rs = SubSeq(f.patterns, 1, n) \o f.forecast
  BY DEF LearnedResults
<1>4. \A i \in DOMAIN rs : \E k \in DOMAIN (f.patterns \o f.forecast) :
        rs[i] = (f.patterns \o f.forecast)[k]
  <2> DEFINE a == f.patterns
             b == f.forecast
             S == P \cup F
  <2>1. a \in Seq(S) /\ b \in Seq(S)
    BY <1>2
  <2>2. n \in 0 .. Len(a) /\ (rs = SubSeq(a, 1, n) \/ rs = SubSeq(a, 1, n) \o b)
    BY <1>3
  <2>3. ASSUME NEW i \in DOMAIN rs PROVE \E k \in DOMAIN (a \o b) : rs[i] = (a \o b)[k]
    <3>. HIDE DEF a, b, S
    <3>1. /\ Len(a) \in Nat /\ Len(b) \in Nat
          /\ DOMAIN (a \o b) = 1 .. Len(a) + Len(b)
          /\ \A k \in 1 .. Len(a) : (a \o b)[k] = a[k]
          /\ \A k \in 1 .. Len(b) : (a \o b)[Len(a) + k] = b[k]
      BY <2>1, ConcatParts
    <3> DEFINE ran == SubSeq(a, 1, n)
    <3>2. /\ ran \in Seq(S) /\ Len(ran) = n /\ DOMAIN ran = 1 .. n
          /\ \A k \in 1 .. n : ran[k] = a[k]
      BY <2>1, <2>2, <3>1
    <3>3. (rs = ran \/ rs = ran \o b) /\ n <= Len(a) /\ n \in Nat
      BY <2>2, <3>1
    <3>. HIDE DEF ran
    <3>4. CASE rs = ran
      <4>1. i \in DOMAIN (a \o b) /\ rs[i] = (a \o b)[i]
        BY <2>3, <3>1, <3>2, <3>3, <3>4
      <4>. QED BY <4>1
    <3>5. CASE rs = ran \o b
      <4>1. /\ i \in 1 .. n + Len(b)
            /\ \A k \in 1 .. n : rs[k] = a[k]
            /\ \A k \in 1 .. Len(b) : rs[n + k] = b[k]
        BY <2>1, <2>3, <3>2, <3>5, ConcatParts
      <4>2. CASE i \in 1 .. n
        <5>1. i \in DOMAIN (a \o b) /\ rs[i] = (a \o b)[i]
          BY <3>1, <3>3, <4>1, <4>2
        <5>. QED BY <5>1
      <4>3. CASE i \notin 1 .. n
        <5>0. i - n \in 1 .. Len(b) /\ i = n + (i - n)
          BY <3>1, <3>3, <4>1, <4>3
        <5>1. PICK m \in 1 .. Len(b) : i = n + m
          BY <5>0
        <5>2. rs[i] = (a \o b)[Len(a) + m]
          <6>1. rs[n + m] = b[m]
            BY <4>1
          <6>2. (a \o b)[Len(a) + m] = b[m]
            BY <3>1
          <6>. QED BY <5>1, <6>1, <6>2
        <5>3. Len(a) + m \in DOMAIN (a \o b)
          BY <3>1
        <5>. QED BY <5>2, <5>3
      <4>. QED BY <4>2, <4>3
    <3>. QED BY <3>3, <3>4, <3>5
  <2>. QED BY <2>3
<1>5. SUFFICES ASSUME NEW i \in DOMAIN rs, NEW j \in DOMAIN rs[i].findings
               PROVE  rs[i].findings[j] \in Learned(f)
  OBVIOUS
<1>6. PICK k \in DOMAIN Results(f) : rs[i] = Results(f)[k]
  BY <1>4 DEF Results
<1>7. rs[i].findings[j] \in {Results(f)[k].findings[m] : m \in DOMAIN Results(f)[k].findings}
  BY <1>6
<1>. QED BY <1>7 DEF Learned

LEMMA InitTyped == Init => Typed
BY FaultsAreCounted DEF Init, Typed, Shape, Stages, Apart, Recorded, Procs, NoNews, NewsFields, Empty

LEMMA BeginTyped == ASSUME Typed, NEW w \in Workers, Begin(w) PROVE Typed'
<1>0. PICK f \in Frames \ completed : \E rs \in LearnedResults(f) :
        LET learned == UNION {{rs[i].findings[j] : j \in DOMAIN rs[i].findings} : i \in DOMAIN rs}
            all == {f.found[i] : i \in DOMAIN f.found} \cup learned
        IN  /\ \E quiet : news' = [news EXCEPT ![w].findings = all \ quiet]
            /\ job' = [job EXCEPT ![w] = f]
  BY DEF Begin
<1>1. PICK rs \in LearnedResults(f) :
        LET learned == UNION {{rs[i].findings[j] : j \in DOMAIN rs[i].findings} : i \in DOMAIN rs}
            all == {f.found[i] : i \in DOMAIN f.found} \cup learned
        IN  /\ \E quiet : news' = [news EXCEPT ![w].findings = all \ quiet]
            /\ job' = [job EXCEPT ![w] = f]
  BY <1>0
<1> DEFINE learned == UNION {{rs[i].findings[j] : j \in DOMAIN rs[i].findings} : i \in DOMAIN rs}
           all == {f.found[i] : i \in DOMAIN f.found} \cup learned
<1>2. PICK quiet : news' = [news EXCEPT ![w].findings = all \ quiet]
  BY <1>1
<1>3. all \subseteq AllFindings
  <2>1. learned \subseteq Learned(f)
    BY LearnedOfFrame
  <2>. QED BY <2>1 DEF AllFindings, FoundIn
<1>. HIDE DEF learned, all
<1>4. /\ w \in Procs /\ w \notin Requests /\ job'[w] = f
      /\ \A p \in Procs \ {w} : job'[p] = job[p]
      /\ DOMAIN job' = Procs
  BY <1>1, ProcsAreDistinct DEF Typed, Shape, Procs
<1>5. pc'[w] = "save" /\ (\A p \in Procs \ {w} : pc'[p] = pc[p]) /\ pc' = [p \in Procs |-> pc'[p]]
  BY <1>4 DEF Begin, Typed, Shape
<1>6. UNCHANGED <<tables, tx, now, faults>>
  BY DEF Begin
<1>7. /\ news'[w].findings = all \ quiet
      /\ \A p \in Procs \ {w} : news'[p] = news[p]
      /\ DOMAIN news' = Procs /\ \A p \in Procs : DOMAIN news'[p] = NewsFields
  BY <1>2, <1>4 DEF Typed, Shape, NewsFields
<1>8. Shape'
  BY <1>4, <1>5, <1>6, <1>7 DEF Typed, Shape
<1>9. Stages'
  BY <1>4, <1>5, <1>6 DEF Typed, Stages, Procs
<1>10. Apart' /\ Recorded'
  BY <1>3, <1>6, <1>7 DEF Typed, Apart, Recorded, tables
<1>. QED BY <1>8, <1>9, <1>10 DEF Typed

(* A step of a run that goes on with its transaction. *)
LEMMA RunGoesOn ==
  ASSUME Typed, NEW w \in Workers,
         Write(w, Catalogue(job[w].unit)) \/ Write(w, FindingRows(w))
           \/ Write(w, ModelPart(Head(todo[w].results))) \/ UNCHANGED tx,
         pc[w] # "idle", pc' = pc \/ pc' = [pc EXCEPT ![w] = "project"],
         (\E m : news' = [news EXCEPT ![w].models = m]) \/ UNCHANGED news,
         UNCHANGED <<tables, job, now, faults>>
  PROVE  Typed'
<1>1. w \in Procs /\ w \notin Requests
  BY ProcsAreDistinct DEF Procs
<1>2. DOMAIN tx' = Procs /\ Apart'
  <2>1. CASE UNCHANGED tx
    BY <2>1 DEF Typed, Shape, Apart
  <2>2. CASE Write(w, Catalogue(job[w].unit))
    BY <1>1, <2>2, WriteIsApart
  <2>3. CASE Write(w, FindingRows(w))
    BY <1>1, <2>3, WriteIsApart
  <2>4. CASE Write(w, ModelPart(Head(todo[w].results)))
    BY <1>1, <2>4, WriteIsApart
  <2>. QED BY <2>1, <2>2, <2>3, <2>4
<1>3. /\ \A p \in Procs : news'[p].findings = news[p].findings
      /\ DOMAIN news' = Procs /\ \A p \in Procs : DOMAIN news'[p] = NewsFields
  <2>1. CASE UNCHANGED news
    BY <2>1 DEF Typed, Shape
  <2>2. CASE \E m : news' = [news EXCEPT ![w].models = m]
    <3>1. PICK m : news' = [news EXCEPT ![w].models = m]
      BY <2>2
    <3>. QED BY <1>1, <3>1 DEF Typed, Shape, NewsFields
  <2>. QED BY <2>1, <2>2
<1>4. /\ pc' = [p \in Procs |-> pc'[p]]
      /\ pc'[w] \in {"save", "project"} /\ \A p \in Procs \ {w} : pc'[p] = pc[p]
  BY <1>1 DEF Typed, Shape, Stages
<1>5. Shape'
  BY <1>2, <1>3, <1>4 DEF Typed, Shape
<1>6. Stages'
  BY <1>1, <1>4 DEF Typed, Stages, Procs
<1>7. Recorded'
  BY <1>3 DEF Typed, Recorded, tables
<1>. QED BY <1>2, <1>5, <1>6, <1>7 DEF Typed

LEMMA CommitTyped == ASSUME Typed, NEW w \in Workers, CommitRun(w) PROVE Typed'
<1>1. w \in Procs /\ w \notin Requests
  BY ProcsAreDistinct DEF Procs
<1>2. Clear(w)
  BY DEF CommitRun
<1>3. /\ pc' = [p \in Procs |-> pc'[p]] /\ DOMAIN job' = Procs
      /\ pc'[w] = "idle" /\ job'[w] = NoFrame
      /\ \A p \in Procs \ {w} : pc'[p] = pc[p] /\ job'[p] = job[p]
      /\ now' = now /\ faults' = faults
  BY <1>1 DEF CommitRun, Typed, Shape
<1>4. Shape' /\ Apart'
  BY <1>1, <1>2, <1>3, ClearIsApart DEF Shape
<1>5. Stages'
  BY <1>1, <1>3 DEF Typed, Stages, Procs
<1>6. Recorded'
  <2>1. completed' \subseteq Frames
    BY DEF CommitRun, At, Typed, Stages, Recorded
  <2>2. findings' \subseteq AllFindings
    BY <1>1 DEF CommitRun, Typed, Recorded
  <2>3. \A p \in Procs : news'[p].findings \subseteq AllFindings
    BY <1>1, <1>2, ClearIsApart DEF Typed, Recorded, NoNews
  <2>. QED BY <2>1, <2>2, <2>3 DEF Recorded
<1>. QED BY <1>4, <1>5, <1>6 DEF Typed

LEMMA JudgeTyped == ASSUME Typed, NEW r \in Requests, Judge(r) PROVE Typed'
<1>1. r \in Procs /\ r \notin Workers
  BY ProcsAreDistinct DEF Procs
<1>2. UNCHANGED <<tables, tx, news, faults>> /\ pc[r] = "idle"
  BY DEF Judge
<1>3. PICK i \in Asked, a \in Authors, v \in Verdicts :
        \/ /\ job' = [job EXCEPT ![r] = [identity |-> i, author |-> a, verdict |-> v, at |-> now]]
           /\ now' = now + 1
           /\ pc' = [pc EXCEPT ![r] = "record"]
        \/ pc' = [pc EXCEPT ![r] = "done"] /\ UNCHANGED <<job, now>>
  BY DEF Judge
<1>4. now \in Nat
  BY DEF Typed, Stages
<1>5. /\ pc' = [p \in Procs |-> pc'[p]] /\ DOMAIN job' = Procs
      /\ \A p \in Procs \ {r} : pc'[p] = pc[p] /\ job'[p] = job[p]
      /\ now' \in Nat
      /\ (pc'[r] = "record" /\ job'[r] \in LabelSet) \/ pc'[r] = "done"
  BY <1>1, <1>3, <1>4 DEF Typed, Shape, LabelSet
<1>6. Shape'
  BY <1>2, <1>5 DEF Typed, Shape
<1>7. Stages'
  BY <1>1, <1>2, <1>5 DEF Typed, Stages, Procs
<1>8. Apart' /\ Recorded'
  BY <1>2 DEF Typed, Apart, Recorded, tables
<1>. QED BY <1>6, <1>7, <1>8 DEF Typed

LEMMA RecordTyped == ASSUME Typed, NEW r \in Requests, Record(r) PROVE Typed'
<1>1. r \in Procs /\ r \notin Workers
  BY ProcsAreDistinct DEF Procs
<1>2. UNCHANGED <<tables, job, tx, now, faults>> /\ pc[r] = "record"
  BY DEF Record
<1>3. /\ \A p \in Procs : news'[p].findings = news[p].findings
      /\ DOMAIN news' = Procs /\ \A p \in Procs : DOMAIN news'[p] = NewsFields
  <2>1. PICK new : news' = [news EXCEPT ![r].labels = new]
    BY DEF Record
  <2>. QED BY <1>1, <2>1 DEF Typed, Shape, NewsFields
<1>4. /\ pc' = [p \in Procs |-> pc'[p]]
      /\ pc'[r] = "project" /\ \A p \in Procs \ {r} : pc'[p] = pc[p]
  BY <1>1 DEF Record, Typed, Shape
<1>5. Shape'
  BY <1>2, <1>3, <1>4 DEF Typed, Shape
<1>6. Stages'
  BY <1>1, <1>2, <1>4 DEF Typed, Stages, Procs
<1>7. Apart' /\ Recorded'
  BY <1>2, <1>3 DEF Typed, Apart, Recorded, tables
<1>. QED BY <1>5, <1>6, <1>7 DEF Typed

LEMMA ProjectVerdictTyped == ASSUME Typed, NEW r \in Requests, ProjectVerdict(r) PROVE Typed'
<1>1. r \in Procs /\ r \notin Workers
  BY ProcsAreDistinct DEF Procs
<1>2. UNCHANGED <<tables, job, news, now, faults>> /\ pc[r] = "project" /\ Write(r, VerdictPart(job[r]))
  BY DEF ProjectVerdict
<1>3. DOMAIN tx' = Procs /\ Apart'
  BY <1>1, <1>2, WriteIsApart
<1>4. /\ pc' = [p \in Procs |-> pc'[p]]
      /\ pc'[r] = "reply" /\ \A p \in Procs \ {r} : pc'[p] = pc[p]
  BY <1>1 DEF ProjectVerdict, Typed, Shape
<1>5. Shape'
  BY <1>2, <1>3, <1>4 DEF Typed, Shape
<1>6. Stages'
  BY <1>1, <1>2, <1>4 DEF Typed, Stages, Procs
<1>7. Recorded'
  BY <1>2 DEF Typed, Recorded, tables
<1>. QED BY <1>3, <1>5, <1>6, <1>7 DEF Typed

LEMMA ReplyTyped == ASSUME Typed, NEW r \in Requests, Reply(r) PROVE Typed'
<1>1. r \in Procs /\ r \notin Workers
  BY ProcsAreDistinct DEF Procs
<1>2. Clear(r) /\ UNCHANGED <<findings, completed, job, now, faults>>
  BY DEF Reply
<1>3. /\ pc' = [p \in Procs |-> pc'[p]]
      /\ pc'[r] = "done" /\ \A p \in Procs \ {r} : pc'[p] = pc[p]
  BY <1>1 DEF Reply, Typed, Shape
<1>4. Shape' /\ Apart'
  BY <1>1, <1>2, <1>3, ClearIsApart DEF Typed, Shape
<1>5. Stages'
  BY <1>1, <1>2, <1>3 DEF Typed, Stages, Procs
<1>6. Recorded'
  <2>1. \A p \in Procs : news'[p].findings \subseteq AllFindings
    BY <1>1, <1>2, ClearIsApart DEF Typed, Recorded, NoNews
  <2>. QED BY <1>2, <2>1 DEF Typed, Recorded
<1>. QED BY <1>4, <1>5, <1>6 DEF Typed

LEMMA AbortTyped == ASSUME Typed, NEW p \in Procs, Abort(p) PROVE Typed'
<1>1. Clear(p) /\ UNCHANGED <<tables, now>> /\ faults' \in 0 .. MaxFaults
  BY FaultsAreCounted DEF Abort, Typed, Stages
<1>2. /\ pc' = [q \in Procs |-> pc'[q]] /\ DOMAIN job' = Procs
      /\ pc'[p] = (IF p \in Workers THEN "idle" ELSE "done") /\ job'[p] = NoFrame
      /\ \A q \in Procs \ {p} : pc'[q] = pc[q] /\ job'[q] = job[q]
  BY DEF Abort, Typed, Shape
<1>3. Shape' /\ Apart'
  BY <1>1, <1>2, ClearIsApart DEF Typed, Shape
<1>4. Stages'
  BY <1>1, <1>2, ProcsAreDistinct DEF Typed, Stages, Procs
<1>5. Recorded'
  <2>1. \A q \in Procs : news'[q].findings \subseteq AllFindings
    BY <1>1, ClearIsApart DEF Typed, Recorded, NoNews
  <2>. QED BY <1>1, <2>1 DEF Typed, Recorded, tables
<1>. QED BY <1>3, <1>4, <1>5 DEF Typed

LEMMA NextTyped == Typed /\ [Next]_vars => Typed'
<1>. SUFFICES ASSUME Typed, [Next]_vars PROVE Typed'
  OBVIOUS
<1>1. CASE UNCHANGED vars
  BY <1>1 DEF vars, tables, Typed, Shape, Stages, Apart, Recorded
<1>2. ASSUME NEW w \in Workers, Begin(w) PROVE Typed'
  BY <1>2, BeginTyped
<1>3. ASSUME NEW w \in Workers, RunStep(w) PROVE Typed'
  <2>1. CASE SaveAsset(w)
    BY <2>1, RunGoesOn DEF SaveAsset
  <2>2. CASE ReadCondition(w)
    BY <2>2, RunGoesOn DEF ReadCondition, At
  <2>3. CASE WriteFinding(w)
    BY <2>3, RunGoesOn DEF WriteFinding, At
  <2>4. CASE WriteModel(w)
    BY <2>4, RunGoesOn DEF WriteModel, ToModel, At
  <2>5. CASE RecordModel(w)
    BY <2>5, RunGoesOn DEF RecordModel, ToRecord, At
  <2>6. CASE CommitRun(w)
    BY <2>6, CommitTyped
  <2>. QED BY <1>3, <2>1, <2>2, <2>3, <2>4, <2>5, <2>6 DEF RunStep
<1>4. ASSUME NEW r \in Requests, Judge(r) PROVE Typed'
  BY <1>4, JudgeTyped
<1>5. ASSUME NEW r \in Requests, RequestStep(r) PROVE Typed'
  BY <1>5, RecordTyped, ProjectVerdictTyped, ReplyTyped DEF RequestStep
<1>6. ASSUME NEW p \in Procs, Abort(p) PROVE Typed'
  BY <1>6, AbortTyped
<1>. QED BY <1>1, <1>2, <1>3, <1>4, <1>5, <1>6 DEF Next

LEMMA TypedOK == Typed => TypeOK
BY JobsAreDistinct DEF Typed, Shape, Stages, Apart, Recorded, TypeOK, Open, Procs

(* Types, and open transactions write different rows, for any number of runs
   and requests. *)
THEOREM GraphTypeCorrect == Spec => []TypeOK
<1>1. Init => Typed
  BY InitTyped
<1>2. Typed /\ [Next]_vars => Typed'
  BY NextTyped
<1>. QED BY <1>1, <1>2, TypedOK, PTL DEF Spec

-----------------------------------------------------------------------------
(* The verdict that the graph shows was given. *)

Silent(w) == NoVerdicts(tx[w]) /\ news[w].labels = {}

Pending(r) ==
  /\ tx[r] = IF pc[r] = "reply" THEN VerdictPart(job[r]) ELSE Empty
  /\ pc[r] \notin {"project", "reply"} => news[r].labels = {}
  /\ pc[r] \in {"project", "reply"} =>
       /\ news[r].labels \subseteq {job[r]}
       /\ news[r].labels = {} => Labelled(job[r].identity, job[r].author, job[r].verdict)
  /\ pc[r] \in {"record", "project", "reply"} => job[r].at < now

Linked ==
  \A i \in Identities : ValidationId(i) \in DOMAIN graph.nodes => VerdictEdge(i) \in DOMAIN graph.edges

Dated == labels \subseteq LabelSet /\ \A l \in labels : l.at < now

(* What makes VerdictsAreBacked inductive: a run's rows hold no verdict, a
   request's rows hold the one it was asked to record, whose label is stored
   already or commits with them. *)
Given ==
  /\ Dated
  /\ \A w \in Workers : Silent(w)
  /\ \A r \in Requests : Pending(r)
  /\ Linked /\ VerdictsAreBacked

LEMMA InitGiven == Init => Given
BY EmptyHasNoVerdicts
   DEF Init, Given, Linked, Dated, Silent, Pending, VerdictsAreBacked, Procs, NoNews, Empty

(* What a transaction does leaves the others alone. *)
LEMMA OthersStay ==
  ASSUME Typed, Given, NEW p \in Procs,
         \A q \in Procs \ {p} : /\ tx'[q] = tx[q] /\ news'[q] = news[q]
                                /\ pc'[q] = pc[q] /\ job'[q] = job[q],
         labels \subseteq labels', now' \in Nat, now <= now'
  PROVE  /\ \A w \in Workers \ {p} : Silent(w)'
         /\ \A r \in Requests \ {p} : Pending(r)'
<1>1. \A w \in Workers \ {p} : Silent(w)'
  BY DEF Given, Silent, NoVerdicts, Procs
<1>2. ASSUME NEW r \in Requests \ {p} PROVE Pending(r)'
  <2>1. /\ tx'[r] = tx[r] /\ news'[r] = news[r] /\ pc'[r] = pc[r] /\ job'[r] = job[r]
        /\ Pending(r)
    BY DEF Given, Procs
  <2>2. pc[r] \in {"record", "project", "reply"} => job[r].at < now'
    <3>1. pc[r] \in {"record", "project", "reply"} => job[r].at \in Nat
      BY DEF Typed, Stages, LabelSet
    <3>2. now \in Nat
      BY DEF Typed, Stages
    <3>. QED BY <2>1, <3>1, <3>2 DEF Pending
  <2>3. \A i, a, v : Labelled(i, a, v) => Labelled(i, a, v)'
    BY DEF Labelled
  <2>4. (pc[r] \in {"project", "reply"} /\ news[r].labels = {})
          => Labelled(job[r].identity, job[r].author, job[r].verdict)'
    <3>1. (pc[r] \in {"project", "reply"} /\ news[r].labels = {})
          => \E l \in labels : /\ l.identity = job[r].identity /\ l.author = job[r].author
                               /\ l.verdict = job[r].verdict
      BY <2>1 DEF Pending, Labelled
    <3>. QED BY <2>1, <3>1 DEF Labelled
  <2>. QED BY <2>1, <2>2, <2>4 DEF Pending
<1>. QED BY <1>1, <1>2

(* A run, whatever it does before its commit. *)
LEMMA RunGiven ==
  ASSUME Typed, Given, NEW w \in Workers,
         Write(w, Catalogue(job[w].unit)) \/ Write(w, FindingRows(w))
           \/ Write(w, ModelPart(Head(todo[w].results))) \/ UNCHANGED tx,
         news'[w].labels = news[w].labels,
         \A q \in Procs \ {w} : news'[q] = news[q] /\ pc'[q] = pc[q] /\ job'[q] = job[q],
         UNCHANGED <<graph, labels, now>>
  PROVE  Given'
<1>1. w \in Procs /\ w \notin Requests /\ Silent(w)
  BY ProcsAreDistinct DEF Procs, Given
<1>2. (\A q \in Procs \ {w} : tx'[q] = tx[q]) /\ NoVerdicts(tx'[w])
  <2>1. CASE UNCHANGED tx
    BY <1>1, <2>1 DEF Silent
  <2>2. ASSUME NEW part, Write(w, part), NoVerdicts(part)
        PROVE  (\A q \in Procs \ {w} : tx'[q] = tx[q]) /\ NoVerdicts(tx'[w])
    <3>1. tx'[w] = Upsert(tx[w], part) /\ \A q \in Procs \ {w} : tx'[q] = tx[q]
      BY <1>1, <2>2, WriteIsApart
    <3>2. NoVerdicts(Upsert(tx[w], part))
      BY <1>1, <2>2, UpsertHasNoVerdicts DEF Silent
    <3>. QED BY <3>1, <3>2
  <2>3. CASE Write(w, Catalogue(job[w].unit))
    BY <2>2, <2>3, CatalogueHasNoVerdicts
  <2>4. CASE Write(w, FindingRows(w))
    BY <2>2, <2>4, FindingHasNoVerdicts DEF FindingRows
  <2>5. CASE Write(w, ModelPart(Head(todo[w].results)))
    BY <2>2, <2>5, ModelHasNoVerdicts
  <2>. QED BY <2>1, <2>3, <2>4, <2>5
<1>3. Silent(w)'
  BY <1>1, <1>2 DEF Silent, NoVerdicts
<1>4. now \in Nat /\ now' = now /\ labels' = labels /\ graph' = graph
  BY DEF Typed, Stages
<1>5. (\A v \in Workers \ {w} : Silent(v)') /\ (\A r \in Requests \ {w} : Pending(r)')
  BY <1>1, <1>2, <1>4, OthersStay
<1>6. Dated' /\ Linked' /\ VerdictsAreBacked'
  BY <1>4 DEF Given, Dated, Linked, VerdictsAreBacked, Labelled
<1>. QED BY <1>1, <1>3, <1>5, <1>6 DEF Given

LEMMA CommitGiven == ASSUME Typed, Given, NEW w \in Workers, CommitRun(w) PROVE Given'
<1>1. w \in Procs /\ w \notin Requests /\ NoVerdicts(tx[w])
  BY ProcsAreDistinct DEF Procs, Given, Silent
<1>2. /\ Clear(w) /\ UNCHANGED <<labels, now>> /\ graph' = Upsert(graph, tx[w])
      /\ \A q \in Procs \ {w} : pc'[q] = pc[q] /\ job'[q] = job[q]
  BY <1>1 DEF CommitRun, Visible, Typed, Shape
<1>3. /\ tx'[w] = Empty /\ news'[w] = NoNews
      /\ \A q \in Procs \ {w} : tx'[q] = tx[q] /\ news'[q] = news[q]
  BY <1>1, <1>2, ClearIsApart
<1>4. Silent(w)'
  BY <1>3, EmptyHasNoVerdicts DEF Silent, NoVerdicts, NoNews
<1>5. now \in Nat /\ now' = now /\ labels' = labels
  BY <1>2 DEF Typed, Stages
<1>6. (\A v \in Workers \ {w} : Silent(v)') /\ (\A r \in Requests \ {w} : Pending(r)')
  BY <1>1, <1>2, <1>3, <1>5, OthersStay
<1>7. ASSUME NEW i \in Identities
      PROVE  /\ (ValidationId(i) \in DOMAIN graph'.nodes) = (ValidationId(i) \in DOMAIN graph.nodes)
             /\ ValidationId(i) \in DOMAIN graph.nodes =>
                  graph'.nodes[ValidationId(i)] = graph.nodes[ValidationId(i)]
             /\ VerdictEdge(i) \in DOMAIN graph.edges =>
                  /\ VerdictEdge(i) \in DOMAIN graph'.edges
                  /\ graph'.edges[VerdictEdge(i)] = graph.edges[VerdictEdge(i)]
  BY <1>1, <1>2, UpsertRows DEF NoVerdicts
<1>8. Dated'
  BY <1>5 DEF Given, Dated
<1>9. Linked'
  BY <1>7 DEF Given, Linked
<1>10. VerdictsAreBacked'
  <2>1. ASSUME NEW i \in Identities, ValidationId(i) \in DOMAIN graph'.nodes
        PROVE  LET v == graph'.nodes[ValidationId(i)]
               IN  /\ \E l \in labels' : l.identity = i /\ l.author = v.author /\ l.verdict = v.verdict
                   /\ graph'.edges[VerdictEdge(i)].verdict = v.verdict
    <3>1. /\ ValidationId(i) \in DOMAIN graph.nodes /\ VerdictEdge(i) \in DOMAIN graph.edges
          /\ graph'.nodes[ValidationId(i)] = graph.nodes[ValidationId(i)]
          /\ graph'.edges[VerdictEdge(i)] = graph.edges[VerdictEdge(i)]
      BY <1>7, <2>1 DEF Given, Linked
    <3>. QED BY <1>5, <3>1 DEF Given, VerdictsAreBacked, Labelled, VerdictEdge
  <2>2. ASSUME NEW i \in Identities, ValidationId(i) \notin DOMAIN graph'.nodes
        PROVE  \A l \in labels' : l.identity # i
    BY <1>5, <1>7, <2>2 DEF Given, VerdictsAreBacked
  <2>. QED BY <2>1, <2>2 DEF VerdictsAreBacked, Labelled, VerdictEdge
<1>. QED BY <1>1, <1>4, <1>6, <1>8, <1>9, <1>10 DEF Given

(* A request. *)
LEMMA JudgeGiven == ASSUME Typed, Given, NEW r \in Requests, Judge(r) PROVE Given'
<1>1. r \in Procs /\ r \notin Workers /\ Pending(r) /\ now \in Nat
  BY ProcsAreDistinct DEF Procs, Given, Typed, Stages
<1>2. UNCHANGED <<graph, labels, tx, news>> /\ pc[r] = "idle"
  BY DEF Judge, tables
<1>3. /\ \A q \in Procs \ {r} : pc'[q] = pc[q] /\ job'[q] = job[q]
      /\ now' \in Nat /\ now <= now'
      /\ pc'[r] \in {"record", "done"}
      /\ pc'[r] = "record" => job'[r].at < now'
  <2>1. PICK i \in Asked, a \in Authors, v \in Verdicts :
        \/ /\ job' = [job EXCEPT ![r] = [identity |-> i, author |-> a, verdict |-> v, at |-> now]]
           /\ now' = now + 1
           /\ pc' = [pc EXCEPT ![r] = "record"]
        \/ pc' = [pc EXCEPT ![r] = "done"] /\ UNCHANGED <<job, now>>
    BY DEF Judge
  <2>. QED BY <1>1, <2>1 DEF Typed, Shape
<1>4. Pending(r)'
  BY <1>1, <1>2, <1>3 DEF Pending
<1>5. (\A w \in Workers \ {r} : Silent(w)') /\ (\A q \in Requests \ {r} : Pending(q)')
  BY <1>1, <1>2, <1>3, OthersStay
<1>6. Linked' /\ VerdictsAreBacked'
  BY <1>2 DEF Given, Linked, VerdictsAreBacked, Labelled
<1>7. Dated'
  <2>1. \A l \in labels : l.at \in Nat
    BY DEF Given, Dated, LabelSet
  <2>. QED BY <1>1, <1>2, <1>3, <2>1 DEF Given, Dated
<1>. QED BY <1>1, <1>4, <1>5, <1>6, <1>7 DEF Given

LEMMA LastExists ==
  ASSUME Given, now \in Nat, NEW i, NEW a, Mine(i, a) # {}
  PROVE  LastOf(Mine(i, a)) \in Mine(i, a)
<1> DEFINE S == Mine(i, a)
           upper == {k \in Nat : \A l \in S : l.at <= k}
<1>1. \A l \in S : l.at \in Nat /\ l.at <= now
  BY DEF Mine, Given, Dated, LabelSet
<1>2. PICK m \in upper : \A k \in upper : <<k, m>> \notin OpToRel(<, Nat)
  <2>1. upper \subseteq Nat /\ upper # {}
    BY <1>1
  <2>. HIDE DEF upper
  <2>. QED BY <2>1, WFMin, NatLessThanWellFounded, Zenon
<1>3. \A k \in upper : ~(k < m)
  <2>1. \A k, n \in Nat : k < n => <<k, n>> \in OpToRel(<, Nat)
    BY Zenon DEF OpToRel
  <2>. QED BY <1>2, <2>1
<1>4. \E l \in S : l.at = m
  <2>. SUFFICES ASSUME \A l \in S : l.at # m PROVE FALSE
    OBVIOUS
  <2>1. PICK l \in S : TRUE
    OBVIOUS
  <2>2. m \in Nat /\ l.at \in Nat /\ l.at < m /\ \A k \in S : k.at <= m - 1
    BY <1>1, <2>1
  <2>3. m - 1 \in upper /\ m - 1 < m
    BY <2>2
  <2>. QED BY <1>3, <2>3
<1>5. \E l \in S : \A k \in S : k.at <= l.at
  BY <1>1, <1>4
<1>. QED BY <1>5 DEF LastOf

LEMMA RecordGiven == ASSUME Typed, Given, NEW r \in Requests, Record(r) PROVE Given'
<1>1. r \in Procs /\ r \notin Workers /\ Pending(r) /\ now \in Nat
  BY ProcsAreDistinct DEF Procs, Given, Typed, Stages
<1>2. UNCHANGED <<graph, labels, tx, job, now>> /\ pc[r] = "record"
  BY DEF Record, tables
<1> DEFINE j == job[r]
           new == IF LatestFor(j.identity, j.author) = j.verdict THEN {} ELSE {j}
<1>3. /\ pc'[r] = "project" /\ news'[r].labels = new
      /\ \A q \in Procs \ {r} : pc'[q] = pc[q] /\ news'[q] = news[q]
  BY <1>1 DEF Record, Typed, Shape, NewsFields
<1>4. new = {} => Labelled(j.identity, j.author, j.verdict)
  <2>1. SUFFICES ASSUME LatestFor(j.identity, j.author) = j.verdict
                 PROVE  Labelled(j.identity, j.author, j.verdict)
    OBVIOUS
  <2>2. j.verdict # NoVerdict
    BY <1>2, VerdictsAreGiven DEF Typed, Stages, LabelSet
  <2>3. Mine(j.identity, j.author) # {} /\ LastOf(Mine(j.identity, j.author)).verdict = j.verdict
    BY <2>1, <2>2 DEF LatestFor
  <2>4. LastOf(Mine(j.identity, j.author)) \in Mine(j.identity, j.author)
    BY <1>1, <2>3, LastExists
  <2>. QED BY <2>3, <2>4 DEF Mine, Labelled
<1>5. new \subseteq {j}
  OBVIOUS
<1>. HIDE DEF new
<1>6. Pending(r)'
  BY <1>1, <1>2, <1>3, <1>4, <1>5 DEF Pending, Labelled
<1>7. (\A w \in Workers \ {r} : Silent(w)') /\ (\A q \in Requests \ {r} : Pending(q)')
  BY <1>1, <1>2, <1>3, OthersStay
<1>8. Dated' /\ Linked' /\ VerdictsAreBacked'
  BY <1>2 DEF Given, Dated, Linked, VerdictsAreBacked, Labelled
<1>. QED BY <1>1, <1>6, <1>7, <1>8 DEF Given

LEMMA ProjectVerdictGiven ==
  ASSUME Typed, Given, NEW r \in Requests, ProjectVerdict(r) PROVE Given'
<1>1. r \in Procs /\ r \notin Workers /\ Pending(r) /\ now \in Nat
  BY ProcsAreDistinct DEF Procs, Given, Typed, Stages
<1>2. UNCHANGED <<graph, labels, news, job, now>> /\ pc[r] = "project" /\ Write(r, VerdictPart(job[r]))
  BY DEF ProjectVerdict, tables
<1>3. /\ pc'[r] = "reply" /\ tx'[r] = Upsert(Empty, VerdictPart(job[r]))
      /\ \A q \in Procs \ {r} : pc'[q] = pc[q] /\ tx'[q] = tx[q]
  <2>1. tx[r] = Empty
    BY <1>1, <1>2 DEF Pending
  <2>. QED BY <1>1, <1>2, <2>1, WriteIsApart DEF ProjectVerdict, Typed, Shape
<1>4. Upsert(Empty, VerdictPart(job[r])) = VerdictPart(job[r])
  <2> DEFINE n == VerdictPart(job[r]).nodes
             e == VerdictPart(job[r]).edges
  <2>1. n = [x \in DOMAIN n |-> n[x]] /\ e = [x \in DOMAIN e |-> e[x]]
    BY DEF VerdictPart
  <2>2. VerdictPart(job[r]) = [nodes |-> n, edges |-> e]
    BY DEF VerdictPart
  <2>. HIDE DEF n, e
  <2>3. Over(n, <<>>) = n /\ Over(e, <<>>) = e
    BY <2>1 DEF Over
  <2>4. Upsert(Empty, VerdictPart(job[r])) = [nodes |-> Over(n, <<>>), edges |-> Over(e, <<>>)]
    BY DEF Upsert, Empty, n, e
  <2>. QED BY <2>2, <2>3, <2>4
<1>5. Pending(r)'
  BY <1>1, <1>2, <1>3, <1>4 DEF Pending, Labelled
<1>6. (\A w \in Workers \ {r} : Silent(w)') /\ (\A q \in Requests \ {r} : Pending(q)')
  BY <1>1, <1>2, <1>3, OthersStay
<1>7. Dated' /\ Linked' /\ VerdictsAreBacked'
  BY <1>2 DEF Given, Dated, Linked, VerdictsAreBacked, Labelled
<1>. QED BY <1>1, <1>5, <1>6, <1>7 DEF Given

LEMMA ReplyGiven == ASSUME Typed, Given, NEW r \in Requests, Reply(r) PROVE Given'
<1>1. r \in Procs /\ r \notin Workers /\ Pending(r) /\ now \in Nat /\ pc[r] = "reply"
  BY ProcsAreDistinct DEF Procs, Given, Typed, Stages, Reply
<1> DEFINE j == job[r]
<1>2. /\ Clear(r) /\ UNCHANGED <<job, now>>
      /\ graph' = Upsert(graph, VerdictPart(j)) /\ labels' = labels \cup news[r].labels
      /\ pc'[r] = "done" /\ \A q \in Procs \ {r} : pc'[q] = pc[q]
  BY <1>1 DEF Reply, Visible, Pending, Typed, Shape
<1>3. /\ tx'[r] = Empty /\ news'[r] = NoNews
      /\ \A q \in Procs \ {r} : tx'[q] = tx[q] /\ news'[q] = news[q]
  BY <1>1, <1>2, ClearIsApart
<1>4. Pending(r)'
  BY <1>2, <1>3 DEF Pending, NoNews
<1>5. (\A w \in Workers \ {r} : Silent(w)') /\ (\A q \in Requests \ {r} : Pending(q)')
  BY <1>1, <1>2, <1>3, OthersStay
<1>6. /\ j \in LabelSet /\ j.at < now /\ news[r].labels \subseteq {j}
      /\ news[r].labels = {} => Labelled(j.identity, j.author, j.verdict)
  BY <1>1 DEF Pending, Typed, Stages
<1>7. Dated'
  BY <1>2, <1>6 DEF Given, Dated
<1>8. \E l \in labels' : l.identity = j.identity /\ l.author = j.author /\ l.verdict = j.verdict
  BY <1>2, <1>6 DEF Labelled
<1>9. /\ DOMAIN VerdictPart(j).nodes = {ValidationId(j.identity)}
      /\ DOMAIN VerdictPart(j).edges = {VerdictEdge(j.identity)}
      /\ VerdictPart(j).nodes[ValidationId(j.identity)] = [verdict |-> j.verdict, author |-> j.author]
      /\ VerdictPart(j).edges[VerdictEdge(j.identity)] = [verdict |-> j.verdict]
  BY DEF VerdictPart, VerdictEdge
<1>10. \A i, k : (ValidationId(i) = ValidationId(k) \/ VerdictEdge(i) = VerdictEdge(k)) => i = k
  BY DEF ValidationId, VerdictEdge
<1>. HIDE DEF j
<1>11. ASSUME NEW i \in Identities, i = j.identity
       PROVE  /\ ValidationId(i) \in DOMAIN graph'.nodes /\ VerdictEdge(i) \in DOMAIN graph'.edges
              /\ graph'.nodes[ValidationId(i)] = [verdict |-> j.verdict, author |-> j.author]
              /\ graph'.edges[VerdictEdge(i)] = [verdict |-> j.verdict]
  BY <1>2, <1>9, <1>11, UpsertRows
<1>12. ASSUME NEW i \in Identities, i # j.identity
       PROVE  /\ (ValidationId(i) \in DOMAIN graph'.nodes) = (ValidationId(i) \in DOMAIN graph.nodes)
              /\ ValidationId(i) \in DOMAIN graph.nodes =>
                  graph'.nodes[ValidationId(i)] = graph.nodes[ValidationId(i)]
              /\ VerdictEdge(i) \in DOMAIN graph.edges =>
                  /\ VerdictEdge(i) \in DOMAIN graph'.edges
                  /\ graph'.edges[VerdictEdge(i)] = graph.edges[VerdictEdge(i)]
  <2>1. ValidationId(i) \notin DOMAIN VerdictPart(j).nodes /\ VerdictEdge(i) \notin DOMAIN VerdictPart(j).edges
    BY <1>9, <1>10, <1>12
  <2>. QED BY <1>2, <2>1, UpsertRows
<1>13. Linked'
  BY <1>11, <1>12 DEF Given, Linked
<1>14. VerdictsAreBacked'
  <2>1. ASSUME NEW i \in Identities, ValidationId(i) \in DOMAIN graph'.nodes
        PROVE  LET v == graph'.nodes[ValidationId(i)]
               IN  /\ \E l \in labels' : l.identity = i /\ l.author = v.author /\ l.verdict = v.verdict
                   /\ graph'.edges[VerdictEdge(i)].verdict = v.verdict
    <3>1. CASE i = j.identity
      BY <1>8, <1>11, <3>1
    <3>2. CASE i # j.identity
      <4>1. /\ ValidationId(i) \in DOMAIN graph.nodes /\ VerdictEdge(i) \in DOMAIN graph.edges
            /\ graph'.nodes[ValidationId(i)] = graph.nodes[ValidationId(i)]
            /\ graph'.edges[VerdictEdge(i)] = graph.edges[VerdictEdge(i)]
        BY <1>12, <2>1, <3>2 DEF Given, Linked
      <4>. QED BY <1>2, <4>1 DEF Given, VerdictsAreBacked, Labelled, VerdictEdge
    <3>. QED BY <3>1, <3>2
  <2>2. ASSUME NEW i \in Identities, ValidationId(i) \notin DOMAIN graph'.nodes
        PROVE  \A l \in labels' : l.identity # i
    <3>1. i # j.identity
      BY <1>11, <2>2
    <3>2. \A l \in labels : l.identity # i
      BY <1>12, <2>2, <3>1 DEF Given, VerdictsAreBacked
    <3>. QED BY <1>2, <1>6, <3>1, <3>2
  <2>. QED BY <2>1, <2>2 DEF VerdictsAreBacked, Labelled, VerdictEdge
<1>. QED BY <1>1, <1>4, <1>5, <1>7, <1>13, <1>14 DEF Given

LEMMA AbortGiven == ASSUME Typed, Given, NEW p \in Procs, Abort(p) PROVE Given'
<1>1. Clear(p) /\ UNCHANGED <<graph, labels, now>> /\ now \in Nat
  BY DEF Abort, tables, Typed, Stages
<1>2. /\ pc'[p] = (IF p \in Workers THEN "idle" ELSE "done")
      /\ \A q \in Procs \ {p} : pc'[q] = pc[q] /\ job'[q] = job[q]
  BY DEF Abort, Typed, Shape
<1>3. /\ tx'[p] = Empty /\ news'[p] = NoNews
      /\ \A q \in Procs \ {p} : tx'[q] = tx[q] /\ news'[q] = news[q]
  BY <1>1, ClearIsApart
<1>4. p \in Workers => Silent(p)'
  BY <1>3, EmptyHasNoVerdicts DEF Silent, NoVerdicts, NoNews
<1>5. p \in Requests => Pending(p)'
  BY <1>2, <1>3, ProcsAreDistinct DEF Pending, NoNews
<1>6. (\A w \in Workers \ {p} : Silent(w)') /\ (\A q \in Requests \ {p} : Pending(q)')
  BY <1>1, <1>2, <1>3, OthersStay
<1>7. Dated' /\ Linked' /\ VerdictsAreBacked'
  BY <1>1 DEF Given, Dated, Linked, VerdictsAreBacked, Labelled
<1>. QED BY <1>4, <1>5, <1>6, <1>7 DEF Given

LEMMA NextGiven == Typed /\ Given /\ [Next]_vars => Given'
<1>. SUFFICES ASSUME Typed, Given, [Next]_vars PROVE Given'
  OBVIOUS
<1>1. CASE UNCHANGED vars
  BY <1>1 DEF vars, tables, Given, Dated, Linked, Silent, NoVerdicts, Pending, VerdictsAreBacked, Labelled
<1>2. ASSUME NEW w \in Workers, Begin(w) \/ RunStep(w) PROVE Given'
  <2>0. w \in Procs
    BY DEF Procs
  <2>1. CASE Begin(w)
    <3>1. PICK new : news' = [news EXCEPT ![w].findings = new]
      BY <2>1 DEF Begin
    <3>2. PICK f : job' = [job EXCEPT ![w] = f]
      BY <2>1 DEF Begin
    <3>3. /\ news'[w].labels = news[w].labels
          /\ \A q \in Procs \ {w} : news'[q] = news[q] /\ job'[q] = job[q]
      BY <2>0, <3>1, <3>2 DEF Typed, Shape, NewsFields
    <3>4. /\ \A q \in Procs \ {w} : pc'[q] = pc[q]
          /\ UNCHANGED <<tx, graph, labels, now>>
      BY <2>0, <2>1 DEF Begin, tables, Typed, Shape
    <3>. QED BY <3>3, <3>4, RunGiven
  <2>2. CASE SaveAsset(w)
    BY <2>2, RunGiven DEF SaveAsset, tables, Typed, Shape
  <2>3. CASE ReadCondition(w)
    BY <2>3, RunGiven DEF ReadCondition, tables
  <2>4. CASE WriteFinding(w)
    BY <2>4, RunGiven DEF WriteFinding, tables
  <2>5. CASE WriteModel(w)
    BY <2>5, RunGiven DEF WriteModel, tables
  <2>6. CASE RecordModel(w)
    <3>1. PICK new : news' = [news EXCEPT ![w].models = new]
      BY <2>6 DEF RecordModel
    <3>2. news'[w].labels = news[w].labels /\ \A q \in Procs \ {w} : news'[q] = news[q]
      BY <2>0, <3>1 DEF Typed, Shape, NewsFields
    <3>. QED BY <2>6, <3>2, RunGiven DEF RecordModel, tables
  <2>7. CASE CommitRun(w)
    BY <2>7, CommitGiven
  <2>. QED BY <1>2, <2>1, <2>2, <2>3, <2>4, <2>5, <2>6, <2>7 DEF RunStep
<1>3. ASSUME NEW r \in Requests, Judge(r) \/ RequestStep(r) PROVE Given'
  BY <1>3, JudgeGiven, RecordGiven, ProjectVerdictGiven, ReplyGiven DEF RequestStep
<1>4. ASSUME NEW p \in Procs, Abort(p) PROVE Given'
  BY <1>4, AbortGiven
<1>. QED BY <1>1, <1>2, <1>3, <1>4 DEF Next

(* The verdict that the graph shows on a condition was given by that author, and
   whoever was recorded is shown: the label and its projection commit together. *)
THEOREM VerdictsCorrect == Spec => []VerdictsAreBacked
<1>1. Init => Typed /\ Given
  BY InitTyped, InitGiven
<1>2. Typed /\ Given /\ [Next]_vars => Typed' /\ Given'
  BY NextTyped, NextGiven
<1>3. Given => VerdictsAreBacked
  BY DEF Given
<1>. QED BY <1>1, <1>2, <1>3, PTL DEF Spec
=============================================================================
