----------------------------- MODULE AnalysisRun -----------------------------
(***************************************************************************)
(* AnalysisUseCase.run for one unit: load and compute without a            *)
(* transaction, then one PostgreSQL transaction (READ COMMITTED) that      *)
(* claims (unit, input_hash), reads the current view and the newest        *)
(* alerts, decides, saves the artifacts to disk, and persists.             *)
(*                                                                         *)
(* Several processes run it: the analysis worker's cycle (Workers), and    *)
(* the requests POST /analyze and POST /readings of the API.  Runs of      *)
(* other units read and write other rows, so one unit is enough.           *)
(*                                                                         *)
(* The input hash of the frame after the n-th batch of readings is n; what *)
(* the pure engines find in that frame is readings[n], a function from the *)
(* observed conditions to their severity and evidence value.               *)
(***************************************************************************)
EXTENDS AlertPolicy, Integers, Sequences

CONSTANTS
  Workers,            \* processes that run one cycle after another
  Callers,            \* API request threads, one analysis per request
  NoProc,             \* "nobody holds the lock"
  Observations,       \* what the engines can find in a frame
  LearnedIdentities,  \* the conditions only Phase B finds
  LearningEnabled,    \* Settings.learning_enabled
  LearnInterval,      \* Settings.learning_interval_minutes, in clock units
  Tolerance,          \* _VALUE_REL_TOL, in percent
  NumArtifacts,       \* files one run writes, one per engine
  MaxReadings,        \* bound: batches of readings the plant sends
  Pause,              \* how long nothing happens in a Wait step
  MaxClock,           \* bound: the last time Wait advances the clock
  MaxFaults,          \* bound: exceptions and crashes
  MaxCalls            \* bound: analyses the API is asked for

Procs  == Workers \cup Callers

Severities == {"info", "warning", "critical"}
Contents   == [sev : Severities, value : Nat]

ASSUME RunAssumption ==
  /\ NoProc \notin Procs
  /\ \A obs \in Observations :
       DOMAIN obs \subseteq Identities /\ obs \in [DOMAIN obs -> Contents]
  /\ LearnedIdentities \subseteq Identities
  /\ LearningEnabled \in BOOLEAN
  /\ {LearnInterval, Tolerance, NumArtifacts} \subseteq Nat
  /\ {MaxReadings, Pause, MaxClock, MaxFaults, MaxCalls} \subseteq Nat

VARIABLES
  readings,   \* sensor_history.reading: the batches received, as observations
  runs,       \* application.engine_run: the committed rows
  findings,   \* application.finding: append-only rows
  alerts,     \* application.alert: <<condition, created_at>> -> row
  artifacts,  \* the artifact directory: engine -> input hash of the file
  assetLock,  \* who holds the row lock on application.asset
  pc,         \* where each process is in AnalysisUseCase.run
  txn,        \* the local variables of each process's run
  clock,      \* the time
  faults,     \* how many failures happened
  calls       \* how many analyses the API was asked for

tables == <<runs, findings, alerts>>
budget == <<faults, calls>>
vars   == <<readings, tables, artifacts, assetLock, pc, txn, clock, budget>>

(***************************************************************************)
(* The current view: PostgresFindingRepository.current.                    *)
(***************************************************************************)
FindingRow == [identity : Identities, hash : Nat, sev : Severities,
               value : Nat, produced : Nat]

LatestRun == CHOOSE r \in runs : \A s \in runs : s.started <= r.started

(* Mutant: without the filter on the latest run. *)
EveryIdentity == Identities

(* "latest.ids IS NULL OR jsonb_array_length(latest.ids) = 0": with no     *)
(* completed run, or one that observed nothing, nothing is filtered out.   *)
ListedIdentities ==
  IF runs = {} THEN Identities
  ELSE IF LatestRun.observed = {} THEN Identities ELSE LatestRun.observed

Newest(rows) ==
  CHOOSE f \in rows : \A g \in rows :
    \/ g.produced < f.produced
    \/ g.produced = f.produced /\ g.hash <= f.hash

View ==
  LET of(i) == {f \in findings : f.identity = i}
  IN  [i \in {j \in ListedIdentities : of(j) # {}} |-> Newest(of(i))]

(* PostgresAlertRepository.latest_by_identity. *)
LatestAlert ==
  [i \in Identities |->
     LET ids == {id \in DOMAIN alerts : id[1] = i}
     IN  IF ids = {} THEN NoAlert
         ELSE alerts[CHOOSE id \in ids : \A o \in ids : o[2] <= id[2]]]

Critical(view) == {i \in DOMAIN view : view[i].sev = "critical"}

(* finding_delta._same_value: a move relative to the greater of the two. *)
SameValue(a, b) ==
  100 * (a - b) <= Tolerance * a /\ 100 * (b - a) <= Tolerance * b

(* Mutant: only a rise of the value counts. *)
MaterialRise(old, new) ==
  old.sev # new.sev \/ 100 * (new.value - old.value) > Tolerance * new.value

(* finding_delta.is_material_change: wording, severity and evidence. *)
Material(old, new) == old.sev # new.sev \/ ~SameValue(old.value, new.value)

Changed(view, found) ==
  {i \in DOMAIN found : i \in DOMAIN view => Material(view[i], found[i])}

(***************************************************************************)
(* Phase B.  AnalysisUseCase._should_learn reads                           *)
(* engine_run.learned, which neither begin() nor complete() writes: the    *)
(* column keeps its default, FALSE.                                        *)
(***************************************************************************)
LearnedColumnDefault == FALSE

LearnedRuns == {r \in runs : r.learned}

ShouldLearn(now) ==
  /\ LearningEnabled
  /\ \A r \in LearnedRuns : now - r.started >= LearnInterval

Within(f, S) == [i \in DOMAIN f \cap S |-> f[i]]

(***************************************************************************)
(* The run in progress of a process.                                       *)
(***************************************************************************)
NoTxn == [hash |-> 0, produced |-> 0, started |-> 0, found |-> <<>>,
          view |-> <<>>, fresh |-> <<>>, saved |-> 0]

(* Between the INSERT of its engine_run row and commit or rollback. *)
OpenPcs == {"owned", "learned", "viewed", "decided", "locked"}
Open(p) == pc[p] \in OpenPcs

Goto(p, from, to) == pc[p] = from /\ pc' = [pc EXCEPT ![p] = to]

(***************************************************************************)
(* Time.  Every datetime.now() returns a new instant.  A replayed run      *)
(* stores nothing, so the instants only it knew are given back: idle       *)
(* cycles of the worker do not use up the clock.                           *)
(***************************************************************************)
Now == clock + 1

ClockAfterReplay(p) ==
  IF txn[p].started = clock /\ txn[p].produced = clock - 1
  THEN clock - 2 ELSE clock

Wait ==
  /\ clock + Pause <= MaxClock
  /\ clock' = clock + Pause
  /\ UNCHANGED <<readings, tables, artifacts, assetLock, pc, txn, budget>>

(* The plant: a batch of readings is stored and the frame changes. *)
NewReadings(obs) ==
  /\ Len(readings) < MaxReadings
  /\ readings' = Append(readings, obs)
  /\ UNCHANGED <<tables, artifacts, assetLock, pc, txn, clock, budget>>

(***************************************************************************)
(* AnalysisUseCase.run, one action per step another process can see or     *)
(* come between.                                                           *)
(***************************************************************************)

(* self._source.load(unit): the frame as it is now. *)
Load(p) ==
  /\ Len(readings) > 0
  /\ Goto(p, "idle", "loaded")
  /\ txn' = [txn EXCEPT ![p].hash = Len(readings)]
  /\ IF p \in Callers THEN calls < MaxCalls /\ calls' = calls + 1
                      ELSE UNCHANGED calls
  /\ UNCHANGED <<readings, tables, artifacts, assetLock, clock, faults>>

(* The engines, the assembler and the rules; findings carry produced_at. *)
Compute(p) ==
  /\ Goto(p, "loaded", "computed")
  /\ txn' = [txn EXCEPT ![p].produced = Now]
  /\ clock' = Now
  /\ UNCHANGED <<readings, tables, artifacts, assetLock, budget>>

(* started = _now(). *)
Start(p) ==
  /\ Goto(p, "computed", "started")
  /\ txn' = [txn EXCEPT ![p].started = Now]
  /\ clock' = Now
  /\ UNCHANGED <<readings, tables, artifacts, assetLock, budget>>

Completed(hash) == \E r \in runs : r.hash = hash

(* Mutant: SELECT, then INSERT, without the unique index. *)
NeverClaimed(hash) == FALSE

Claimed(hash) == \E q \in Procs : Open(q) /\ txn[q].hash = hash

(* runs.begin: INSERT .. ON CONFLICT (unit, input_hash) DO NOTHING.  It    *)
(* waits for an open transaction that inserted the same key.               *)
Claim(p) ==
  /\ Goto(p, "started", "owned")
  /\ ~Completed(txn[p].hash)
  /\ ~Claimed(txn[p].hash)
  /\ UNCHANGED <<readings, tables, artifacts, assetLock, txn, clock, budget>>

(* Not the owner: return, the run is a replay. *)
Replay(p) ==
  /\ Goto(p, "started", "idle")
  /\ Completed(txn[p].hash)
  /\ clock' = ClockAfterReplay(p)
  /\ txn' = [txn EXCEPT ![p] = NoTxn]
  /\ UNCHANGED <<readings, tables, artifacts, assetLock, budget>>

(* _should_learn and _learn: a model that fails is skipped, not the run. *)
Learn(p) ==
  LET seen       == readings[txn[p].hash]
      derived    == Identities \ LearnedIdentities
      find(kept) == txn' = [txn EXCEPT ![p].found = Within(seen, derived \cup kept)]
  IN  /\ Goto(p, "owned", "learned")
      /\ \/ ShouldLearn(txn[p].started) /\ find(LearnedIdentities) /\ UNCHANGED faults
         \/ /\ ShouldLearn(txn[p].started)
            /\ faults < MaxFaults
            /\ faults' = faults + 1
            /\ \E kept \in SUBSET LearnedIdentities : find(kept)
         \/ ~ShouldLearn(txn[p].started) /\ find({}) /\ UNCHANGED faults
      /\ UNCHANGED <<readings, tables, artifacts, assetLock, clock, calls>>

(* existing = uow.findings.current(unit). *)
ReadView(p) ==
  /\ Goto(p, "learned", "viewed")
  /\ txn' = [txn EXCEPT ![p].view = View]
  /\ UNCHANGED <<readings, tables, artifacts, assetLock, clock, budget>>

(* policy.decide(.., latest=uow.alerts.latest_by_identity(unit), ..). *)
DecideAlerts(p) ==
  /\ Goto(p, "viewed", "decided")
  /\ txn' = [txn EXCEPT ![p].fresh =
               Decide(Critical(txn[p].view), Critical(txn[p].found),
                      LatestAlert, txn[p].started)]
  /\ UNCHANGED <<readings, tables, artifacts, assetLock, clock, budget>>

(* Mutant: one artifact too many. *)
SaveOneMore(p) ==
  LET next == txn[p].saved + 1
  IN  /\ pc[p] = "decided"
      /\ next <= NumArtifacts + 1
      /\ artifacts' = [artifacts EXCEPT ![next] = txn[p].hash]
      /\ txn' = [txn EXCEPT ![p].saved = next]
      /\ UNCHANGED <<readings, tables, assetLock, pc, clock, budget>>

(* self._artifacts.save(r): a file, outside the transaction. *)
SaveArtifact(p) ==
  LET next == txn[p].saved + 1
  IN  /\ pc[p] = "decided"
      /\ next <= NumArtifacts
      /\ artifacts' = [artifacts EXCEPT ![next] = txn[p].hash]
      /\ txn' = [txn EXCEPT ![p].saved = next]
      /\ UNCHANGED <<readings, tables, assetLock, pc, clock, budget>>

(* Mutant: the artifacts of all engines need not be there. *)
LockEarly(p) ==
  /\ assetLock = NoProc
  /\ Goto(p, "decided", "locked")
  /\ assetLock' = p
  /\ UNCHANGED <<readings, tables, artifacts, txn, clock, budget>>

(* assets.save: the upsert takes the unit's row until the end. *)
LockAsset(p) ==
  /\ txn[p].saved = NumArtifacts
  /\ assetLock = NoProc
  /\ Goto(p, "decided", "locked")
  /\ assetLock' = p
  /\ UNCHANGED <<readings, tables, artifacts, txn, clock, budget>>

(* findings.add_many(changed): ON CONFLICT (finding_id) DO NOTHING, where  *)
(* the id is made of the condition and the input hash.                     *)
NewFindings(p) ==
  LET t == txn[p]
  IN  {[identity |-> i, hash |-> t.hash, sev |-> t.found[i].sev,
        value |-> t.found[i].value, produced |-> t.produced] :
         i \in {j \in Changed(t.view, t.found) :
                  \A f \in findings : f.identity # j \/ f.hash # t.hash}}

RunRow(p) ==
  [hash |-> txn[p].hash, started |-> txn[p].started,
   observed |-> DOMAIN txn[p].found, learned |-> LearnedColumnDefault]

AlertIds(p) == {<<i, txn[p].started>> : i \in DOMAIN txn[p].fresh}

(* The writes of the transaction, visible from its commit on. *)
Commit(p) ==
  /\ Goto(p, "locked", "committed")
  /\ findings' = findings \cup NewFindings(p)
  /\ runs' = runs \cup {RunRow(p)}
  /\ alerts' = [id \in DOMAIN alerts \cup AlertIds(p) |->
                  IF id \in DOMAIN alerts THEN alerts[id]
                                          ELSE txn[p].fresh[id[1]]]
  /\ assetLock' = NoProc
  /\ txn' = [txn EXCEPT ![p] = NoTxn]
  /\ UNCHANGED <<readings, artifacts, clock, budget>>

(* The run ends early: its process is idle again. *)
Fail(p) ==
  /\ pc[p] \notin {"idle", "committed"}
  /\ faults < MaxFaults
  /\ faults' = faults + 1
  /\ pc' = [pc EXCEPT ![p] = "idle"]
  /\ txn' = [txn EXCEPT ![p] = NoTxn]
  /\ UNCHANGED <<readings, runs, alerts, artifacts, clock, calls>>

FreeLock(p) == IF assetLock = p THEN NoProc ELSE assetLock

(* Mutants: __exit__ commits whatever happened; or leaves the session open *)
(* and the row locked.                                                     *)
AbortCommits(p) ==
  /\ Fail(p)
  /\ assetLock' = FreeLock(p)
  /\ findings' = IF pc[p] = "locked" THEN findings \cup NewFindings(p) ELSE findings
AbortKeepsLock(p) == Fail(p) /\ UNCHANGED <<assetLock, findings>>

(* An exception at any step, or a crash: the transaction rolls back, and   *)
(* with it the claim.  The files already saved stay.                       *)
Abort(p) == Fail(p) /\ assetLock' = FreeLock(p) /\ UNCHANGED findings

(* After the commit: the alerts are delivered and run() returns. *)
Leave(p) ==
  /\ Goto(p, "committed", "idle")
  /\ UNCHANGED <<readings, runs, findings, artifacts, assetLock, txn, clock, budget>>

Return(p) == Leave(p) /\ UNCHANGED alerts

-----------------------------------------------------------------------------
Init ==
  /\ readings = <<>>
  /\ runs = {} /\ findings = {} /\ alerts = <<>>
  /\ artifacts = [e \in 1..NumArtifacts |-> 0]
  /\ assetLock = NoProc
  /\ pc = [p \in Procs |-> "idle"]
  /\ txn = [p \in Procs |-> NoTxn]
  /\ clock = 0
  /\ faults = 0 /\ calls = 0

(* The steps of run() between Load and the return. *)
RunStep(p) ==
  \/ Compute(p) \/ Start(p) \/ Claim(p) \/ Replay(p) \/ Learn(p)
  \/ ReadView(p) \/ DecideAlerts(p) \/ SaveArtifact(p) \/ LockAsset(p)
  \/ Commit(p)

Environment == Wait \/ \E obs \in Observations : NewReadings(obs)

Next ==
  \/ Environment
  \/ \E p \in Procs : Load(p) \/ RunStep(p) \/ Abort(p) \/ Return(p)

Spec == Init /\ [][Next]_vars

(* The worker starts a cycle again and again; a run that started goes on.  *)
(* Nothing promises that the API is called, or that a run fails.           *)
Fairness ==
  /\ \A p \in Procs : WF_vars(RunStep(p) \/ Return(p))
  /\ \A p \in Workers : WF_vars(Load(p))

FairSpec == Spec /\ Fairness

-----------------------------------------------------------------------------
(***************************************************************************)
(* Properties.                                                             *)
(***************************************************************************)
PartialView(f, Row) == DOMAIN f \subseteq Identities /\ f \in [DOMAIN f -> Row]

RunRows == [hash : Nat, started : Nat, observed : SUBSET Identities, learned : BOOLEAN]

TxnFields == {"hash", "produced", "started", "found", "view", "fresh", "saved"}

TxnOK(t) ==
  /\ DOMAIN t = TxnFields
  /\ {t.hash, t.produced, t.started} \subseteq Nat
  /\ t.saved \in 0..NumArtifacts
  /\ PartialView(t.found, Contents)
  /\ PartialView(t.view, FindingRow)
  /\ PartialView(t.fresh, AlertRow)

(* The type invariant: what the tables, the local variables of the runs    *)
(* and the lock can hold.                                                  *)
TypeOK ==
  /\ readings \in Seq(Observations)
  /\ runs \subseteq RunRows
  /\ findings \subseteq FindingRow
  /\ DOMAIN alerts \subseteq Identities \X Nat
  /\ alerts \in [DOMAIN alerts -> AlertRow]
  /\ artifacts \in [1..NumArtifacts -> Nat]
  /\ assetLock \in Procs \cup {NoProc}
  /\ pc \in [Procs -> OpenPcs \cup {"idle", "loaded", "computed", "started", "committed"}]
  /\ DOMAIN txn = Procs /\ \A p \in Procs : TxnOK(txn[p])
  /\ clock \in Nat /\ faults \in 0..MaxFaults /\ calls \in 0..MaxCalls

(* However many processes analyse the same data at once, and whichever of  *)
(* them fail and retry, one run per input commits, and nobody works on an  *)
(* input that is already done: the UNIQUE (unit, input_hash) claim of      *)
(* PostgresEngineRunRepository.begin.                                      *)
OneRunPerInput ==
  /\ \A r, s \in runs : r.hash = s.hash => r = s
  /\ \A p \in Procs : Open(p) => ~Completed(txn[p].hash)
  /\ \A p, q \in Procs :
       Open(p) /\ Open(q) /\ txn[p].hash = txn[q].hash => p = q

(* What a run saw, by which an alert on condition i is justified. *)
CriticalIn(r, i) == i \in r.observed /\ readings[r.hash][i].sev = "critical"

AlertJustified(kind, i, r) ==
  IF kind = "resolved" THEN ~CriticalIn(r, i) ELSE CriticalIn(r, i)

(* "Either everything commits or nothing does": no finding and no alert    *)
(* outlives the rollback of the run that made it, whatever step failed; an *)
(* alert's cause is in the committed run that decided it.                  *)
AllOrNothing ==
  /\ \A f \in findings : \E r \in runs :
       r.hash = f.hash /\ f.identity \in r.observed
  /\ \A id \in DOMAIN alerts : \E r \in runs :
       r.started = id[2] /\ AlertJustified(alerts[id].kind, id[1], r)

(* The current view is the latest run: it shows what that run observed, no *)
(* condition more or less, and each at its severity and within the         *)
(* tolerance of its value, although unchanged findings are not recorded    *)
(* again and values may drift a little every run (finding_delta and        *)
(* PostgresFindingRepository.current).                                     *)
ViewIsLatestRun ==
  runs # {} /\ LatestRun.observed # {} =>
    /\ DOMAIN View = LatestRun.observed
    /\ \A i \in DOMAIN View :
         LET seen == readings[LatestRun.hash][i]
         IN  View[i].sev = seen.sev /\ SameValue(View[i].value, seen.value)

(* Detection and notification do not diverge: a condition has an open      *)
(* alert (triggered, perhaps reminded, not resolved) exactly while the     *)
(* current view shows it critical (alerting/__init__.py).                  *)
AlarmsMatchView ==
  \A i \in Identities : IsOpen(LatestAlert[i]) <=> i \in Critical(View)

(* "New critical (was not critical, now is) -> TRIGGERED" (case 1 of       *)
(* alerting/policy.py), from one run to the next.                          *)
NewCriticalIsTriggered ==
  \A r \in runs, i \in Identities :
    LET before == {s \in runs : s.started < r.started}
        wasCritical == \E s \in before :
          (\A q \in before : q.started <= s.started) /\ CriticalIn(s, i)
    IN  CriticalIn(r, i) /\ ~wasCritical =>
          /\ <<i, r.started>> \in DOMAIN alerts
          /\ alerts[<<i, r.started>>].kind = "triggered"

(* "Phase B is throttled" (application/analysis_use_case.py): two runs     *)
(* that both carry the learned models' conditions are an interval apart.   *)
PhaseBThrottled ==
  \A r, s \in runs :
    /\ r.started < s.started
    /\ r.observed \cap LearnedIdentities # {}
    /\ s.observed \cap LearnedIdentities # {}
    => s.started - r.started >= LearnInterval

(* The artifact directory and the database tell the same story as long as  *)
(* no run failed: between two runs of one process all its files are those  *)
(* of the latest run, although replays and runs that never committed could *)
(* have written some of them.                                              *)
ArtifactsMatchView ==
  (faults = 0 /\ \A p \in Procs : ~Open(p)) =>
    \A e \in 1..NumArtifacts :
      artifacts[e] = IF runs = {} THEN 0 ELSE LatestRun.hash

(* Every batch of readings is eventually covered by a completed run, of it *)
(* or of a later batch, however the runs of the worker and of the API      *)
(* interleave and fail (workers/analysis_worker.py).                       *)
EventuallyAnalysed ==
  \A n \in 1..MaxReadings :
    Len(readings) >= n ~> \E r \in runs : r.hash >= n

(***************************************************************************)
(* The alert table as incidents: a condition's incident is open, closed or *)
(* was never raised by its newest alert, and the inbox is meant to hear    *)
(* all but the suppressed ones.                                            *)
(***************************************************************************)
Audible(i) == {id \in DOMAIN alerts : id[1] = i /\ alerts[id].status # "suppressed"}

LastWord(i) ==
  IF Audible(i) = {} THEN "none"
  ELSE alerts[CHOOSE id \in Audible(i) : \A o \in Audible(i) : o[2] <= id[2]].kind

IncidentState(last) ==
  IF last = NoAlert THEN "never" ELSE IF IsOpen(last) THEN "open" ELSE "closed"

Promise == INSTANCE Incident WITH
  incident <- [i \in Identities |-> [state |-> IncidentState(LatestAlert[i]),
                                     word  |-> LastWord(i),
                                     at    |-> LatestAlert[i].at]]

(* With one process, the runs keep the promise of Incident: each condition *)
(* is triggered, reminded and resolved in this order, a flapping one       *)
(* quietly, and "resolved" is only meant for those who were told.          *)
KeepsPromise == Promise!Spec
=============================================================================
