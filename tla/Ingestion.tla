------------------------------ MODULE Ingestion ------------------------------
(***************************************************************************)
(* How readings get in, and how they come to be analysed.  Two ways feed   *)
(* sensor_history: the gateways' POST /readings (api/routers/ingest.py),   *)
(* and one of two services of the deployment, the feeder:                  *)
(*                                                                         *)
(*   batch  the worker, which loads the processed CSVs into an empty       *)
(*          database and then analyses every unit, cycle after cycle       *)
(*          (workers/analysis_worker.py, application/bootstrap.py)         *)
(*   sim, sim-reset  the simulator, which appends a row per unit and tick  *)
(*          to CSV files and tails them past a watermark                   *)
(*          (simulation/live.py), after a restart resuming or wiping       *)
(*                                                                         *)
(* A row of readings is known by its tick; sensors are left out, and so is *)
(* what ReadingValidation rejects: nothing of it is stored.  An analysis   *)
(* run is what AnalysisRun shows it to be: a frame is completed once.      *)
(***************************************************************************)
EXTENDS Naturals, FiniteSets

CONSTANTS
  Units,       \* the units of the catalog
  CsvUnits,    \* those with a processed CSV (_UNIT_FILE_MAP)
  Gateways,    \* API threads that serve POST /readings
  Feeder,      \* the worker or the simulator
  Profiles,    \* the deployments considered, of the three above
  Backfill,    \* SimulatorConfig.backfill_days, in ticks
  MaxTick,     \* bound: ticks of the clock
  MaxPosts,    \* bound: requests of the gateways
  MaxCrashes,  \* bound: the feeder dies
  MaxLosses    \* bound: the database is lost

Procs == Gateways \cup {Feeder}
Ticks == 1..MaxTick

ASSUME IngestionAssumption ==
  /\ CsvUnits \subseteq Units /\ Feeder \notin Gateways
  /\ Profiles \subseteq {"batch", "sim", "sim-reset"}
  /\ Backfill \in Nat /\ Backfill < MaxTick
  /\ {MaxTick, MaxPosts, MaxCrashes, MaxLosses} \subseteq Nat

VARIABLES
  profile,    \* which feeder is deployed
  tick,       \* the time
  csv,        \* the CSV files: unit -> the ticks of its rows, {} for no file
  stored,     \* sensor_reading: unit -> ticks
  watermark,  \* ingest_watermark: unit -> newest tick, 0 for no row
  identity,   \* unit_sensor: the units whose columns are known
  completed,  \* engine_run: unit -> the frames with a completed run
  pc,         \* where each process is
  job,        \* its local variables
  posts, crashes, losses

history == <<stored, watermark, identity>>
bounds  == <<posts, crashes, losses>>
vars    == <<profile, tick, csv, history, completed, pc, job, bounds>>

(* todo: the units still to be done; unit, fresh: what is being written;   *)
(* written: the units that got data; frame: what an analysis loaded.       *)
NoJob == [todo |-> {}, unit |-> {}, fresh |-> {}, written |-> {}, frame |-> {}]

Available == {u \in Units : stored[u] # {}}

Goto(p, from, to, j) ==
  /\ pc[p] = from
  /\ pc' = [pc EXCEPT ![p] = to]
  /\ job' = [job EXCEPT ![p] = j]

Newest(S) == CHOOSE t \in S : \A s \in S : s <= t

(* Mutant: the watermark is the newest of the last batch. *)
WriteOverwriting(u, accepted) ==
  /\ stored' = [stored EXCEPT ![u] = @ \cup accepted]
  /\ watermark' = [watermark EXCEPT ![u] =
       IF accepted = {} THEN @ ELSE Newest(accepted)]

(* DbReadingSink.write: one transaction; INSERT .. ON CONFLICT DO NOTHING, *)
(* and the watermark becomes the GREATEST.                                 *)
WriteReadings(u, accepted) ==
  /\ stored' = [stored EXCEPT ![u] = @ \cup accepted]
  /\ watermark' = [watermark EXCEPT ![u] =
       IF accepted = {} \/ Newest(accepted) <= @ THEN @ ELSE Newest(accepted)]

-----------------------------------------------------------------------------
(***************************************************************************)
(* The feeder starts.                                                      *)
(***************************************************************************)

(* _maybe_bootstrap: only into a database without any readings. *)
StartWorker ==
  /\ profile = "batch"
  /\ IF Available = {}
     THEN Goto(Feeder, "down", "ingesting", [NoJob EXCEPT !.todo = CsvUnits])
     ELSE Goto(Feeder, "down", "analysing", [NoJob EXCEPT !.todo = Available])
  /\ UNCHANGED <<profile, tick, csv, history, completed, bounds>>

StartSimulator ==
  /\ profile # "batch"
  /\ Goto(Feeder, "down", IF profile = "sim-reset" THEN "wiping" ELSE "seeding",
          [NoJob EXCEPT !.todo = CsvUnits])
  /\ UNCHANGED <<profile, tick, csv, history, completed, bounds>>

(* Mutant: the watermark is forgotten in the TRUNCATE. *)
WipeButWatermark ==
  /\ Goto(Feeder, "wiping", "wiped", job[Feeder])
  /\ stored' = [u \in Units |-> {}]
  /\ identity' = {}
  /\ UNCHANGED <<profile, tick, csv, watermark, completed, bounds>>

(* _wipe: one transaction per store. *)
WipeHistory ==
  /\ Goto(Feeder, "wiping", "wiped", job[Feeder])
  /\ stored' = [u \in Units |-> {}]
  /\ watermark' = [u \in Units |-> 0]
  /\ identity' = {}
  /\ UNCHANGED <<profile, tick, csv, completed, bounds>>

WipeResults ==
  /\ Goto(Feeder, "wiped", "seeding", job[Feeder])
  /\ completed' = [u \in Units |-> {}]
  /\ UNCHANGED <<profile, tick, csv, history, bounds>>

(* The for loop of a stage takes the next unit; after the last one, the    *)
(* next stage starts.                                                      *)
Done(u) == [job[Feeder] EXCEPT !.todo = @ \ {u}]

(* Mutant: the backfill has one row too many. *)
SeedOneMore(u) ==
  /\ u \in job[Feeder].todo
  /\ Goto(Feeder, "seeding", "seeding", Done(u))
  /\ csv' = [csv EXCEPT ![u] = (tick - Backfill - 1)..tick]
  /\ UNCHANGED <<profile, tick, history, completed, bounds>>

(* seed: an existing file is kept, unless the start is a reset. *)
Seed(u) ==
  LET keep == csv[u] # {} /\ profile = "sim"
  IN  /\ u \in job[Feeder].todo
      /\ Goto(Feeder, "seeding", "seeding", Done(u))
      /\ csv' = IF keep THEN csv ELSE [csv EXCEPT ![u] = (tick - Backfill)..tick]
      /\ UNCHANGED <<profile, tick, history, completed, bounds>>

(***************************************************************************)
(* ingest_and_analyse and bootstrap_units: per unit, the identity, then    *)
(* the rows.                                                               *)
(***************************************************************************)
Ingest(from) ==
  /\ job[Feeder].todo = {}
  /\ Goto(Feeder, from, "ingesting", [NoJob EXCEPT !.todo = CsvUnits])
  /\ UNCHANGED <<profile, tick, csv, history, completed, bounds>>

(* upsert_asset. *)
Identify(u) ==
  /\ u \in job[Feeder].todo
  /\ Goto(Feeder, "ingesting", "tailing", [job[Feeder] EXCEPT !.unit = {u}])
  /\ identity' = identity \cup {u}
  /\ UNCHANGED <<profile, tick, csv, stored, watermark, completed, bounds>>

(* The rows past the watermark; the bootstrap takes all. *)
Fresh(u) == {t \in csv[u] : profile = "batch" \/ t > watermark[u]}

Tail(u) ==
  /\ job[Feeder].unit = {u}
  /\ IF Fresh(u) = {} /\ profile # "batch"
     THEN Goto(Feeder, "tailing", "ingesting", Done(u))
     ELSE Goto(Feeder, "tailing", "writing", [job[Feeder] EXCEPT !.fresh = Fresh(u)])
  /\ UNCHANGED <<profile, tick, csv, history, completed, bounds>>

(* sink.write. *)
Write(u) ==
  /\ job[Feeder].unit = {u}
  /\ Goto(Feeder, "writing", "ingesting",
          [Done(u) EXCEPT !.written = @ \cup {u}, !.fresh = {}])
  /\ WriteReadings(u, job[Feeder].fresh)
  /\ UNCHANGED <<profile, tick, csv, identity, completed, bounds>>

(* Mutant: the worker, too, only takes units it wrote to. *)
StartCycleWritten(from) ==
  /\ job[Feeder].todo = {}
  /\ from = "waiting" => profile = "batch"
  /\ Goto(Feeder, from, "analysing", [NoJob EXCEPT !.todo = job[Feeder].written])
  /\ UNCHANGED <<profile, tick, csv, history, completed, bounds>>

(* The worker's cycle takes every unit with readings; the simulator only   *)
(* those that just got some.                                               *)
StartCycle(from) ==
  /\ job[Feeder].todo = {}
  /\ from = "waiting" => profile = "batch"
  /\ Goto(Feeder, from, "analysing",
          [NoJob EXCEPT !.todo = IF profile = "batch" THEN Available
                                                      ELSE job[Feeder].written])
  /\ UNCHANGED <<profile, tick, csv, history, completed, bounds>>

CycleEnds ==
  /\ job[Feeder].todo = {}
  /\ Goto(Feeder, "analysing", "waiting", NoJob)
  /\ UNCHANGED <<profile, tick, csv, history, completed, bounds>>

(***************************************************************************)
(* AnalysisUseCase.run, by the feeder or a gateway's thread.               *)
(***************************************************************************)

(* DbTimeSeriesSource.load: needs readings and the unit's identity. *)
Loadable(u) == stored[u] # {} /\ u \in identity

LoadFrame(p, u) ==
  /\ u \in job[p].todo /\ Loadable(u)
  /\ Goto(p, "analysing", "running", [job[p] EXCEPT !.unit = {u}, !.frame = stored[u]])
  /\ UNCHANGED <<profile, tick, csv, history, completed, bounds>>

(* IngestionError: the worker logs it and takes the next unit, a request   *)
(* fails, the simulator ends.                                              *)
LoadFails(p, u) ==
  /\ u \in job[p].todo /\ ~Loadable(u)
  /\ IF p = Feeder /\ profile # "batch"
     THEN Goto(p, "analysing", "down", NoJob)
     ELSE Goto(p, "analysing", "analysing", [job[p] EXCEPT !.todo = @ \ {u}])
  /\ UNCHANGED <<profile, tick, csv, history, completed, bounds>>

(* The run commits; it is a replay if the frame was completed before. *)
Complete(p, u) ==
  /\ job[p].unit = {u}
  /\ Goto(p, "running", "analysing",
          [job[p] EXCEPT !.todo = @ \ {u}, !.unit = {}, !.frame = {}])
  /\ completed' = [completed EXCEPT ![u] = @ \cup {job[p].frame}]
  /\ UNCHANGED <<profile, tick, csv, history, bounds>>

(***************************************************************************)
(* The simulator's tick, the gateways, and what goes wrong.                *)
(***************************************************************************)
Tick ==
  /\ profile # "batch" /\ tick < MaxTick
  /\ tick' = tick + 1
  /\ Goto(Feeder, "waiting", "appending", [NoJob EXCEPT !.todo = CsvUnits])
  /\ UNCHANGED <<profile, csv, history, completed, bounds>>

(* append_tick. *)
AppendRow(u) ==
  /\ u \in job[Feeder].todo
  /\ Goto(Feeder, "appending", "appending", Done(u))
  /\ csv' = [csv EXCEPT ![u] = @ \cup {tick}]
  /\ UNCHANGED <<profile, tick, history, completed, bounds>>

(* POST /readings with one row of readings, or none that is accepted;      *)
(* analyze asks for a run at once, if something was written.  No gateway   *)
(* posts for a simulated unit: the simulator is for demos.                 *)
Post(g, u, accepted, analyze) ==
  /\ posts < MaxPosts
  /\ profile = "batch" \/ u \notin CsvUnits
  /\ posts' = posts + 1
  /\ WriteReadings(u, accepted)
  /\ IF analyze /\ accepted # {}
     THEN Goto(g, "waiting", "analysing", [NoJob EXCEPT !.todo = {u}])
     ELSE Goto(g, "waiting", "waiting", NoJob)
  /\ UNCHANGED <<profile, tick, csv, identity, completed, crashes, losses>>

Respond(g) ==
  /\ job[g].todo = {}
  /\ Goto(g, "analysing", "waiting", NoJob)
  /\ UNCHANGED <<profile, tick, csv, history, completed, bounds>>

(* The feeder dies, at any step. *)
Crash ==
  /\ pc[Feeder] # "down"
  /\ crashes < MaxCrashes
  /\ crashes' = crashes + 1
  /\ Goto(Feeder, pc[Feeder], "down", NoJob)
  /\ UNCHANGED <<profile, tick, csv, history, completed, posts, losses>>

(* The database volume is lost while no container runs; the CSVs are not.  *)
LoseDatabase ==
  /\ pc[Feeder] = "down" /\ \A g \in Gateways : pc[g] = "waiting"
  /\ losses < MaxLosses
  /\ losses' = losses + 1
  /\ stored' = [u \in Units |-> {}]
  /\ watermark' = [u \in Units |-> 0]
  /\ identity' = {}
  /\ completed' = [u \in Units |-> {}]
  /\ UNCHANGED <<profile, tick, csv, pc, job, posts, crashes>>

-----------------------------------------------------------------------------
Init ==
  /\ profile \in Profiles
  /\ tick = Backfill + 1
  /\ csv = [u \in CsvUnits |-> IF profile = "batch" THEN 1..tick ELSE {}]
  /\ stored = [u \in Units |-> {}]
  /\ watermark = [u \in Units |-> 0]
  /\ identity = {}
  /\ completed = [u \in Units |-> {}]
  /\ pc = [p \in Procs |-> IF p = Feeder THEN "down" ELSE "waiting"]
  /\ job = [p \in Procs |-> NoJob]
  /\ posts = 0 /\ crashes = 0 /\ losses = 0

Start == StartWorker \/ StartSimulator

FeederStep ==
  \/ WipeHistory \/ WipeResults
  \/ \E u \in CsvUnits : Seed(u) \/ Identify(u) \/ Tail(u) \/ Write(u) \/ AppendRow(u)
  \/ Ingest("seeding") \/ Ingest("appending")
  \/ StartCycle("ingesting") \/ StartCycle("waiting") \/ CycleEnds

Analyse(p) == \E u \in Units : LoadFrame(p, u) \/ LoadFails(p, u) \/ Complete(p, u)

Next ==
  \/ Start \/ FeederStep \/ Tick \/ Crash \/ LoseDatabase
  \/ \E p \in Procs : Analyse(p)
  \/ \E g \in Gateways, u \in Units, analyze \in BOOLEAN :
       \/ Post(g, u, {}, analyze)
       \/ \E t \in Ticks : Post(g, u, {t}, analyze)
  \/ \E g \in Gateways : Respond(g)

Spec == Init /\ [][Next]_vars

(* Compose restarts the worker, and it loops; it does not restart the      *)
(* simulator.                                                              *)
Fairness ==
  /\ WF_vars(StartWorker)
  /\ WF_vars(FeederStep \/ Analyse(Feeder))

FairSpec == Spec /\ Fairness

-----------------------------------------------------------------------------
(***************************************************************************)
(* Properties.                                                             *)
(***************************************************************************)
FeederPcs == {"down", "wiping", "wiped", "seeding", "ingesting", "tailing", "writing",
              "analysing", "running", "appending", "waiting"}

Jobs == [todo : SUBSET Units, unit : SUBSET Units, fresh : SUBSET Ticks,
         written : SUBSET Units, frame : SUBSET Ticks]

TypeOK ==
  /\ profile \in Profiles /\ tick \in (Backfill + 1)..MaxTick
  /\ csv \in [CsvUnits -> SUBSET Ticks]
  /\ stored \in [Units -> SUBSET Ticks]
  /\ watermark \in [Units -> 0..MaxTick]
  /\ identity \subseteq Units
  /\ completed \in [Units -> SUBSET SUBSET Ticks]
  /\ pc \in [Procs -> FeederPcs]
  /\ job \in [Procs -> Jobs]
  /\ posts \in 0..MaxPosts /\ crashes \in 0..MaxCrashes /\ losses \in 0..MaxLosses

(* The watermark is the newest stored reading, although readings arrive    *)
(* late, twice and from several writers, and the tables are wiped or lost  *)
(* (DbReadingSink: both in one transaction).                               *)
WatermarkIsNewest ==
  \A u \in Units :
    /\ \A t \in stored[u] : t <= watermark[u]
    /\ watermark[u] # 0 => watermark[u] \in stored[u]

(* "The CSVs are the recovery source" (LiveSimulator.seed): whenever the   *)
(* simulator has ingested, the database holds every row of the CSVs,       *)
(* whatever crash, loss of the database or reset came before.              *)
RecoveredFromCsv ==
  profile # "batch" /\ pc[Feeder] = "waiting" =>
    \A u \in CsvUnits : csv[u] \subseteq stored[u]

(* In batch mode the readings of a unit whose columns are known do not     *)
(* stay without an analysis, however late and by whomever they were stored *)
(* (workers/analysis_worker.py).                                           *)
Unanalysed(u) == profile = "batch" /\ Loadable(u) /\ stored[u] \notin completed[u]

EventuallyCompleted == \A u \in Units : Unanalysed(u) ~> ~Unanalysed(u)
=============================================================================
