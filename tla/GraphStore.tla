----------------------------- MODULE GraphStore -----------------------------
(* The knowledge graph and the label store in PostgreSQL, and the transactions
   that write them: AnalysisUseCase.run from its claim to its commit, and the
   requests POST /findings/{identity_key}/feedback.  Both are READ COMMITTED;
   an upsert locks its row until the transaction ends, and waits for the lock. *)
EXTENDS KnowledgeGraph

CONSTANTS
  Workers,     \* processes that run analyses
  Requests,    \* feedback requests, each made at most once
  Frames,      \* what may be analysed: [unit, found, patterns, forecast]
  Authors,     \* engineers
  Verdicts,    \* FeedbackVerdict
  Asked,       \* bound: the conditions that engineers judge
  NoFrame,     \* no analysis
  ModelOrder,  \* the models in the order in which _learn runs them
  MaxFaults    \* bound: transactions that fail or die

Procs == Workers \cup Requests
LabelSet == [identity : Asked, author : Authors, verdict : Verdicts, at : Nat]

NoVerdict == "none"
NoModel == "none"

\* What a caller is, what it works on and what it says can be told apart.
ASSUME ProcsAreDistinct == Workers \cap Requests = {}
ASSUME JobsAreDistinct == NoFrame \notin Frames \cup LabelSet
ASSUME VerdictsAreGiven == NoVerdict \notin Verdicts
ASSUME FaultsAreCounted == MaxFaults \in Nat
VARIABLES
  graph,       \* knowledge.kg_node, kg_edge: the committed rows
  findings,    \* application.finding
  registry,    \* application.model_registry: the models
  labels,      \* application.feedback
  completed,   \* engine_run: the completed frames
  pc,          \* where each transaction is
  job,         \* run: the frame it analyses; request: its label, once judged
  tx,          \* the graph rows a transaction has written, not yet committed
  news,        \* its other rows: findings, models, labels
  todo,        \* run: what is left to project, see Nothing
  seen,        \* run: the condition as get_node returned it, <<>> or <<node>>
  now, faults

tables == <<graph, findings, registry, labels, completed>>
vars == <<tables, pc, job, tx, news, todo, seen, now, faults>>

NoNews == [findings |-> {}, models |-> {}, labels |-> {}]

Results(f) == f.patterns \o f.forecast
Learned(f) == UNION {{Results(f)[i].findings[j] : j \in DOMAIN Results(f)[i].findings} :
                       i \in DOMAIN Results(f)}
FoundIn(f) == {f.found[i] : i \in DOMAIN f.found} \cup Learned(f)
AllFindings == UNION {FoundIn(f) : f \in Frames}
Identities == {f.identity : f \in AllFindings}

\* Findings and results come in sequences, and each result names its model.
ASSUME ResultsAreSequences ==
  \A f \in Frames :
    /\ DOMAIN f.found \subseteq Nat
    /\ f.patterns \in Seq({f.patterns[i] : i \in DOMAIN f.patterns})
    /\ f.forecast \in Seq({f.forecast[i] : i \in DOMAIN f.forecast})
    /\ \A i \in DOMAIN Results(f) :
         Results(f)[i].model # NoModel /\ DOMAIN Results(f)[i].findings \subseteq Nat
\* finding_id is a hash of the identity and the frame, identity_key one of the
\* unit and what is the matter with it.
ASSUME FindingsAreTyped ==
  \A f \in AllFindings : f.id \in Nat \ {0} /\ f.start \in Nat /\ f.end \in Nat
ASSUME IdsAreHashes == \A f, g \in AllFindings : f.id = g.id => f = g
ASSUME IdentitiesAreHashes == \A f, g \in AllFindings : f.identity = g.identity => f.unit = g.unit
ASSUME FramesAreOfUnits == \A f \in Frames : \A g \in FoundIn(f) : g.unit = f.unit
\* A finding is about the unit or a part of it, and what the rules conclude rests
\* on findings of the same frame.
ASSUME TargetsAreInPlant == \A f \in AllFindings : TargetId(f) \in DOMAIN Catalogue(f.unit).nodes
ASSUME TriggersAreFound ==
  \A f \in Frames : \A g \in FoundIn(f) : g.by \subseteq {f.found[i].identity : i \in DOMAIN f.found}

\* The findings of engines and rules are those of a result without model.
OfEngines(f) == [model |-> NoModel, patterns |-> {}, findings |-> f.found]

\* Two runs of different units write few rows in common: what the engines cite is
\* named for the unit or the finding, a pattern for the unit, and the artifacts of
\* a model are cited by what that model found.  _learn runs the models in one order.
CitationsOf(r) == {<<r.model, a>> : a \in UNION {Cited(r.findings[j]) : j \in DOMAIN r.findings}}
Citations(f) ==
  CitationsOf(OfEngines(f)) \cup UNION {CitationsOf(Results(f)[i]) : i \in DOMAIN Results(f)}
Earlier(m, n) ==
  \E x, y \in DOMAIN ModelOrder : x < y /\ ModelOrder[x] = m /\ ModelOrder[y] = n

ASSUME SharedRowsAreOfModels ==
  \A f, g \in Frames : f.unit # g.unit =>
    /\ \A c \in Citations(f), d \in Citations(g) : c[2] = d[2] => c[1] = d[1] /\ c[1] # NoModel
    /\ \A i \in DOMAIN Results(f), j \in DOMAIN Results(g) :
         Results(f)[i].patterns \cap Results(g)[j].patterns # {} => Results(f)[i].model = Results(g)[j].model
ASSUME ModelsAreOrdered ==
  /\ ModelOrder \in Seq({ModelOrder[n] : n \in DOMAIN ModelOrder})
  /\ \A x, y \in DOMAIN ModelOrder : ModelOrder[x] = ModelOrder[y] => x = y
  /\ \A f \in Frames :
       /\ \A i \in DOMAIN Results(f) : \E x \in DOMAIN ModelOrder : ModelOrder[x] = Results(f)[i].model
       /\ \A i, j \in DOMAIN Results(f) : i < j => Earlier(Results(f)[i].model, Results(f)[j].model)

\* What is left to project, in order: of the result at hand the findings at the
\* indices "left" and then its row in the registry, and the results after it.
Nothing == [result |-> [model |-> NoModel, patterns |-> {}, findings |-> <<>>], left |-> {}, results |-> <<>>]
Changed(r, new) == {i \in DOMAIN r.findings : r.findings[i] \in new}

Init ==
  /\ graph = Empty /\ findings = {} /\ registry = {} /\ labels = {} /\ completed = {}
  /\ pc = [p \in Procs |-> "idle"]
  /\ job = [p \in Procs |-> NoFrame]
  /\ tx = [p \in Procs |-> Empty]
  /\ news = [p \in Procs |-> NoNews]
  /\ todo = [w \in Workers |-> Nothing]
  /\ seen = [w \in Workers |-> <<>>]
  /\ now = 0 /\ faults = 0

Open(p) == pc[p] \notin {"idle", "done"}

\* A row of this part was written by another open transaction.
Blocked(p, part) ==
  \E q \in Procs \ {p} : \/ DOMAIN tx[q].nodes \cap DOMAIN part.nodes # {}
                         \/ DOMAIN tx[q].edges \cap DOMAIN part.edges # {}

\* Mutant: no lock is kept until the transaction ends.
WriteUnlocked(p, part) == tx' = [tx EXCEPT ![p] = Upsert(@, part)]
Write(p, part) ==
  /\ ~Blocked(p, part)
  /\ tx' = [tx EXCEPT ![p] = Upsert(@, part)]

\* What a transaction reads: the committed rows and its own.
Visible(p) == Upsert(graph, tx[p])

-----------------------------------------------------------------------------
(* The run. *)

\* _learn: the second model runs only if the first did not raise, the forecaster
\* in any case; each may fail.
LearnedResults(f) ==
  LET ran == {SubSeq(f.patterns, 1, n) : n \in 0 .. Len(f.patterns)}
  IN  ran \cup {s \o f.forecast : s \in ran}

\* The claim, Phase B and the view: a condition the view does not know has
\* changed; whether a known one changed materially is left open.
Begin(w) ==
  /\ pc[w] = "idle"
  /\ \E f \in Frames \ completed : \E rs \in LearnedResults(f) :
       /\ \A v \in Workers \ {w} : job[v] # f
       /\ LET learned == UNION {{rs[i].findings[j] : j \in DOMAIN rs[i].findings} : i \in DOMAIN rs}
              all == {f.found[i] : i \in DOMAIN f.found} \cup learned
              known == {g \in all : g.identity \in {h.identity : h \in findings}}
          IN  \E quiet \in SUBSET known :
                /\ todo' = [todo EXCEPT ![w] =
                              [result |-> OfEngines(f), left |-> Changed(OfEngines(f), all \ quiet), results |-> rs]]
                /\ news' = [news EXCEPT ![w].findings = all \ quiet]
       /\ job' = [job EXCEPT ![w] = f]
  /\ pc' = [pc EXCEPT ![w] = "save"]
  /\ UNCHANGED <<tables, tx, seen, now, faults>>

\* assets.save, findings.add_many, seed_catalog: the first rows that runs of one
\* unit have in common.
SaveAsset(w) ==
  /\ pc[w] = "save"
  /\ Write(w, Catalogue(job[w].unit))
  /\ pc' = [pc EXCEPT ![w] = "project"]
  /\ UNCHANGED <<tables, job, news, todo, seen, now, faults>>

At(w, finished) == pc[w] = "project" /\ (finished <=> todo[w].left = {})
NextIndex(w) == CHOOSE i \in todo[w].left : \A j \in todo[w].left : i <= j
NextFinding(w) == todo[w].result.findings[NextIndex(w)]

\* get_node: what is committed, or written by this run.
ReadCondition(w) ==
  /\ At(w, FALSE) /\ seen[w] = <<>>
  /\ LET id == ConditionId(NextFinding(w).identity)
         nodes == Visible(w).nodes
     IN  seen' = [seen EXCEPT ![w] = <<IF id \in DOMAIN nodes THEN nodes[id] ELSE Unseen>>]
  /\ UNCHANGED <<tables, pc, job, tx, news, todo, now, faults>>

\* The rest of _project_one; the suggestions of a learned finding lie in the
\* unit's own rows, so they are written with it.
FindingRows(w) ==
  Upsert(FindingPart(Visible(w), seen[w][1], NextFinding(w)), SuggestPart(NextFinding(w), todo[w].result))
WriteFinding(w) ==
  /\ At(w, FALSE) /\ seen[w] # <<>>
  /\ Write(w, FindingRows(w))
  /\ seen' = [seen EXCEPT ![w] = <<>>]
  /\ todo' = [todo EXCEPT ![w].left = @ \ {NextIndex(w)}]
  /\ UNCHANGED <<tables, pc, job, news, now, faults>>

\* A result's model and patterns, before its findings that changed.
ToModel(w) == At(w, TRUE) /\ todo[w].result.model = NoModel /\ todo[w].results # <<>>
TakeResult(w) ==
  LET r == Head(todo[w].results)
  IN  todo' = [todo EXCEPT ![w] =
                 [result |-> r, left |-> Changed(r, news[w].findings), results |-> Tail(@.results)]]
\* Mutant: a model is only recorded, and has no node in the graph.
WriteNoModel(w) ==
  /\ ToModel(w) /\ TakeResult(w)
  /\ UNCHANGED <<tables, pc, job, tx, news, seen, now, faults>>
WriteModel(w) ==
  /\ ToModel(w) /\ TakeResult(w)
  /\ Write(w, ModelPart(Head(todo[w].results)))
  /\ UNCHANGED <<tables, pc, job, news, seen, now, faults>>

ToRecord(w) == At(w, TRUE) /\ todo[w].result.model # NoModel
FinishResult(w) == todo' = [todo EXCEPT ![w].result = Nothing.result]
\* Mutant: only a model that found something is recorded.
RecordModelWithFindings(w) ==
  /\ ToRecord(w) /\ FinishResult(w)
  /\ news' = [news EXCEPT ![w].models =
                @ \cup {m \in {todo[w].result.model} : todo[w].result.findings # <<>>}]
  /\ UNCHANGED <<tables, pc, job, tx, seen, now, faults>>

\* models.save: a row that exists is kept; one that another run is inserting is
\* waited for.
RecordModel(w) ==
  /\ ToRecord(w) /\ FinishResult(w)
  /\ \A v \in Workers \ {w} : todo[w].result.model \notin news[v].models
  /\ news' = [news EXCEPT ![w].models = @ \cup ({todo[w].result.model} \ registry)]
  /\ UNCHANGED <<tables, pc, job, tx, seen, now, faults>>

Clear(p) ==
  /\ tx' = [tx EXCEPT ![p] = Empty]
  /\ news' = [news EXCEPT ![p] = NoNews]

CommitRun(w) ==
  /\ At(w, TRUE) /\ ~ToModel(w) /\ ~ToRecord(w)
  /\ graph' = Visible(w)
  /\ findings' = findings \cup news[w].findings
  /\ registry' = registry \cup news[w].models
  /\ completed' = completed \cup {job[w]}
  /\ pc' = [pc EXCEPT ![w] = "idle"]
  /\ job' = [job EXCEPT ![w] = NoFrame]
  /\ todo' = [todo EXCEPT ![w] = Nothing]
  /\ Clear(w)
  /\ UNCHANGED <<labels, seen, now, faults>>

-----------------------------------------------------------------------------
(* The feedback request. *)

Mine(i, a) == {l \in labels : l.identity = i /\ l.author = a}
LastOf(S) == CHOOSE l \in S : \A m \in S : m.at <= l.at
LatestFor(i, a) == IF Mine(i, a) = {} THEN NoVerdict ELSE LastOf(Mine(i, a)).verdict

\* findings.latest: unknown is 404, a measurement is 400; otherwise the verdict
\* is stamped with the time.
Judge(r) ==
  /\ pc[r] = "idle"
  /\ \E i \in Asked, a \in Authors, v \in Verdicts :
       LET known == {f \in findings : f.identity = i}
       IN  IF known # {} /\ \A f \in known : f.origin = "learned"
           THEN /\ job' = [job EXCEPT ![r] = [identity |-> i, author |-> a, verdict |-> v, at |-> now]]
                /\ now' = now + 1
                /\ pc' = [pc EXCEPT ![r] = "record"]
           ELSE /\ pc' = [pc EXCEPT ![r] = "done"]
                /\ UNCHANGED <<job, now>>
  /\ UNCHANGED <<tables, tx, news, todo, seen, faults>>

\* feedback.record: the same verdict of the same author is not stored again.
Record(r) ==
  /\ pc[r] = "record"
  /\ news' = [news EXCEPT ![r].labels =
                IF LatestFor(job[r].identity, job[r].author) = job[r].verdict THEN {} ELSE {job[r]}]
  /\ pc' = [pc EXCEPT ![r] = "project"]
  /\ UNCHANGED <<tables, job, tx, todo, seen, now, faults>>

\* Mutant: the projector has a session of its own, which commits each write.
ProjectVerdictAlone(r) ==
  /\ pc[r] = "project"
  /\ ~Blocked(r, VerdictPart(job[r]))
  /\ graph' = Upsert(graph, VerdictPart(job[r]))
  /\ pc' = [pc EXCEPT ![r] = "reply"]
  /\ UNCHANGED <<findings, registry, labels, completed, job, tx, news, todo, seen, now, faults>>

\* FeedbackProjector.project, whether or not a row was stored.
ProjectVerdict(r) ==
  /\ pc[r] = "project"
  /\ Write(r, VerdictPart(job[r]))
  /\ pc' = [pc EXCEPT ![r] = "reply"]
  /\ UNCHANGED <<tables, job, news, todo, seen, now, faults>>

\* The response echoes the stored row; leaving the unit of work commits.
Reply(r) ==
  /\ pc[r] = "reply"
  /\ graph' = Visible(r)
  /\ labels' = labels \cup news[r].labels
  /\ pc' = [pc EXCEPT ![r] = "done"]
  /\ Clear(r)
  /\ UNCHANGED <<findings, registry, completed, job, todo, seen, now, faults>>

\* An exception or a crash: the transaction is rolled back and its locks are free.
Abort(p) ==
  /\ Open(p) /\ faults < MaxFaults
  /\ faults' = faults + 1
  /\ pc' = [pc EXCEPT ![p] = IF p \in Workers THEN "idle" ELSE "done"]
  /\ job' = [job EXCEPT ![p] = NoFrame]
  /\ todo' = [w \in Workers |-> IF w = p THEN Nothing ELSE todo[w]]
  /\ seen' = [w \in Workers |-> IF w = p THEN <<>> ELSE seen[w]]
  /\ Clear(p)
  /\ UNCHANGED <<tables, now>>

-----------------------------------------------------------------------------
\* A transaction that has begun goes on when the rows it needs are free.
RunStep(w) ==
  SaveAsset(w) \/ ReadCondition(w) \/ WriteFinding(w) \/ WriteModel(w) \/ RecordModel(w) \/ CommitRun(w)
RequestStep(r) == Record(r) \/ ProjectVerdict(r) \/ Reply(r)

Next ==
  \/ \E w \in Workers : Begin(w)
  \/ \E r \in Requests : Judge(r)
  \/ \E w \in Workers : RunStep(w)
  \/ \E r \in Requests : RequestStep(r)
  \/ \E p \in Procs : Abort(p)

Spec == Init /\ [][Next]_vars

-----------------------------------------------------------------------------
\* The type invariant: every transaction has a stage, a job exactly while it is
\* open, and an open row of the graph belongs to one transaction only.
TypeOK ==
  /\ pc \in [Procs -> {"idle", "save", "project", "record", "reply", "done"}]
  /\ \A w \in Workers : job[w] \in Frames \cup {NoFrame}
  /\ \A p \in Procs : Open(p) <=> job[p] # NoFrame /\ pc[p] # "done"
  /\ \A p, q \in Procs : p # q => DOMAIN tx[p].nodes \cap DOMAIN tx[q].nodes = {}
  /\ findings \subseteq AllFindings /\ completed \subseteq Frames
  /\ faults \in 0 .. MaxFaults

OfIdentity(i) == {f \in findings : f.identity = i}
Conditions == {i \in Identities : ConditionId(i) \in DOMAIN graph.nodes}

\* Read-then-fold loses no observation (projector.py: "order-independent ...
\* idempotently"): what the graph knows of a condition, and each evidence edge,
\* is a function of its recorded findings, whatever runs wrote them in whatever
\* order, overlapping or failing on the way.
ConditionsAreFolds ==
  /\ Conditions = {f.identity : f \in findings}
  /\ \A i \in Conditions :
       /\ graph.nodes[ConditionId(i)] = ConditionOf(OfIdentity(i))
       /\ \A a \in UNION {Cited(f) : f \in OfIdentity(i)} :
            graph.edges[<<ConditionId(i), ArtifactRefId(a), "has_evidence">>]
              = EvidenceOf(OfIdentity(i), a)

\* A reasoning chain can be walked: no committed edge leads to, or starts at, a
\* node that is not there (the schema has no foreign key that says so, and
\* neighbors drops such a target silently).
ChainsAreClosed ==
  \A e \in DOMAIN graph.edges : {e[1], e[2]} \subseteq DOMAIN graph.nodes

Labelled(i, a, v) == \E l \in labels : l.identity = i /\ l.author = a /\ l.verdict = v

\* The verdict that the graph shows was given by that author, and a condition
\* that anyone has judged shows one: the label and the graph commit together.
VerdictsAreBacked ==
  \A i \in Identities :
    IF ValidationId(i) \in DOMAIN graph.nodes
    THEN LET v == graph.nodes[ValidationId(i)]
         IN  /\ Labelled(i, v.author, v.verdict)
             /\ graph.edges[<<ConditionId(i), ValidationId(i), "validated_by">>].verdict = v.verdict
    ELSE \A l \in labels : l.identity # i

\* "Every learned output is traceable to the exact model version that made it":
\* the models in the graph are the models in the registry, also those that found
\* nothing and those whose row another unit's run was inserting.
ModelsAreTraceable ==
  {n[2] : n \in {m \in DOMAIN graph.nodes : m[1] = "model"}} = registry

\* The graph rows that a transaction writes next, and the model it inserts.
NextRows(p) ==
  CASE p \in Workers /\ pc[p] = "save" -> Catalogue(job[p].unit)
    [] p \in Workers /\ At(p, FALSE) /\ seen[p] # <<>> -> FindingRows(p)
    [] p \in Workers /\ ToModel(p) -> ModelPart(Head(todo[p].results))
    [] p \in Requests /\ pc[p] = "project" -> VerdictPart(job[p])
    [] OTHER -> Empty
NextModels(p) == IF p \in Workers /\ ToRecord(p) THEN {todo[p].result.model} ELSE {}

WaitsFor(p, q) ==
  \/ DOMAIN tx[q].nodes \cap DOMAIN NextRows(p).nodes # {}
  \/ DOMAIN tx[q].edges \cap DOMAIN NextRows(p).edges # {}
  \/ NextModels(p) \cap news[q].models # {}

\* Runs of different units write the same model and artifact rows and wait for
\* each other, but never in a circle: of any open transactions, one waits for
\* none of the others (so each ends, for each has finitely many steps).
NoWaitCycle ==
  \A S \in (SUBSET {p \in Procs : Open(p)}) \ {{}} :
    \E p \in S : \A q \in S \ {p} : ~WaitsFor(p, q)

\* PostgresFeedbackRepository: "a double-clicked thumbs-up must not fabricate a
\* second label".
OneLabelPerVerdict ==
  \A l, m \in labels :
    /\ l.identity = m.identity /\ l.author = m.author /\ l.verdict = m.verdict
    /\ l.at < m.at
    => \E x \in Mine(l.identity, l.author) : l.at < x.at /\ x.at < m.at /\ x.verdict # l.verdict
=============================================================================
