--------------------------- MODULE IngestionProofs ---------------------------
(***************************************************************************)
(* Proofs about Ingestion, for any units, gateways, requests, crashes and  *)
(* losses: types, the watermark, and that the CSVs are a recovery source.  *)
(***************************************************************************)
EXTENDS Ingestion, TLAPS, WellFoundedInduction

(* A set of ticks that is not empty has a newest one. *)
LEMMA NewestExists ==
  ASSUME NEW S, S \subseteq Ticks, S # {}
  PROVE  Newest(S) \in S /\ \A s \in S : s <= Newest(S)
<1> DEFINE upper == {k \in Nat : \A s \in S : s <= k}
<1>1. MaxTick \in upper /\ \A s \in S : s \in Nat /\ s >= 1
  BY IngestionAssumption DEF Ticks
<1>2. PICK m \in upper : \A k \in upper : <<k, m>> \notin OpToRel(<, Nat)
  <2>1. upper \subseteq Nat /\ upper # {}
    BY <1>1
  <2>. HIDE DEF upper
  <2>. QED BY <2>1, WFMin, NatLessThanWellFounded, Zenon
<1>3. \A k \in upper : ~(k < m)
  <2>1. \A k, n \in Nat : k < n => <<k, n>> \in OpToRel(<, Nat)
    BY Zenon DEF OpToRel
  <2>. QED BY <1>2, <2>1
<1>4. m \in S
  <2>. SUFFICES ASSUME m \notin S PROVE FALSE
    OBVIOUS
  <2>1. m \in Nat /\ m >= 1 /\ \A s \in S : s <= m - 1
    BY <1>1
  <2>2. m - 1 \in upper /\ m - 1 < m
    BY <2>1
  <2>. QED BY <1>3, <2>2
<1>. QED BY <1>4 DEF Newest

(* Writing readings, by whom and in what order ever, keeps the watermark   *)
(* on the newest one.                                                      *)
LEMMA WriteKeepsWatermark ==
  ASSUME TypeOK, NEW u \in Units, NEW accepted \in SUBSET Ticks, WriteReadings(u, accepted)
  PROVE  /\ stored' \in [Units -> SUBSET Ticks] /\ watermark' \in [Units -> 0..MaxTick]
         /\ \A v \in Units \ {u} : stored'[v] = stored[v] /\ watermark'[v] = watermark[v]
         /\ stored'[u] = stored[u] \cup accepted
         /\ watermark'[u] \in {watermark[u]} \cup accepted
         /\ watermark'[u] >= watermark[u]
         /\ \A t \in accepted : t <= watermark'[u]
<1>1. /\ stored \in [Units -> SUBSET Ticks] /\ watermark \in [Units -> 0..MaxTick]
      /\ watermark[u] \in 0..MaxTick
  BY DEF TypeOK
<1>2. CASE accepted = {}
  BY <1>1, <1>2 DEF WriteReadings
<1>3. CASE accepted # {}
  <2>1. /\ Newest(accepted) \in accepted /\ Newest(accepted) \in Ticks
        /\ \A t \in accepted : t <= Newest(accepted)
    BY <1>3, NewestExists
  <2> DEFINE new == IF Newest(accepted) <= watermark[u] THEN watermark[u] ELSE Newest(accepted)
  <2>2. /\ watermark' = [watermark EXCEPT ![u] = new]
        /\ stored' = [stored EXCEPT ![u] = stored[u] \cup accepted]
    BY <1>3 DEF WriteReadings
  <2>3. /\ new \in 0..MaxTick /\ new >= watermark[u]
        /\ new \in {watermark[u]} \cup accepted /\ \A t \in accepted : t <= new
    BY <1>1, <2>1, IngestionAssumption DEF Ticks
  <2>. HIDE DEF new
  <2>. QED BY <1>1, <2>2, <2>3
<1>. QED BY <1>2, <1>3

(* What every local step of a process does to pc and job. *)
LEMMA GotoType ==
  ASSUME TypeOK, NEW p \in Procs, NEW from, NEW to \in FeederPcs, NEW j \in Jobs,
         Goto(p, from, to, j)
  PROVE  pc' \in [Procs -> FeederPcs] /\ job' \in [Procs -> Jobs]
BY DEF Goto, TypeOK

(* The process-local states that the steps use. *)
LEMMA JobUpdates ==
  /\ NoJob \in Jobs
  /\ \A j \in Jobs, U \in SUBSET Units, V \in SUBSET Units, T \in SUBSET Ticks :
       /\ [j EXCEPT !.todo = U] \in Jobs
       /\ [j EXCEPT !.unit = U] \in Jobs
       /\ [j EXCEPT !.fresh = T] \in Jobs
       /\ [j EXCEPT !.unit = U, !.frame = T] \in Jobs
       /\ [j EXCEPT !.todo = U, !.unit = V, !.frame = T] \in Jobs
       /\ [[j EXCEPT !.todo = U] EXCEPT !.written = V, !.fresh = T] \in Jobs
<1>1. NoJob \in Jobs
  BY DEF NoJob, Jobs
<1>2. ASSUME NEW j \in Jobs, NEW U \in SUBSET Units, NEW V \in SUBSET Units, NEW T \in SUBSET Ticks
      PROVE  /\ [j EXCEPT !.todo = U] \in Jobs
             /\ [j EXCEPT !.unit = U] \in Jobs
             /\ [j EXCEPT !.fresh = T] \in Jobs
             /\ [j EXCEPT !.unit = U, !.frame = T] \in Jobs
             /\ [j EXCEPT !.todo = U, !.unit = V, !.frame = T] \in Jobs
             /\ [[j EXCEPT !.todo = U] EXCEPT !.written = V, !.fresh = T] \in Jobs
  BY DEF Jobs
<1>. QED BY <1>1, <1>2

-----------------------------------------------------------------------------
(***************************************************************************)
(* Types and the watermark.                                                *)
(***************************************************************************)
TypeInv == TypeOK /\ WatermarkIsNewest

LEMMA IngestionInit == Init => TypeInv
BY IngestionAssumption DEF Init, TypeInv, TypeOK, WatermarkIsNewest, FeederPcs, Jobs, NoJob, Ticks, Procs

(* The steps that write readings. *)
LEMMA WritersType ==
  ASSUME TypeInv,
         NEW u \in Units, NEW accepted \in SUBSET Ticks, WriteReadings(u, accepted),
         pc' \in [Procs -> FeederPcs], job' \in [Procs -> Jobs],
         posts' \in 0..MaxPosts,
         UNCHANGED <<profile, tick, csv, identity, completed, crashes, losses>>
  PROVE  TypeInv'
<1>. USE DEF TypeInv
<1>1. TypeOK'
  BY WriteKeepsWatermark DEF TypeOK
<1>2. ASSUME NEW v \in Units
      PROVE  /\ \A t \in stored'[v] : t <= watermark'[v]
             /\ watermark'[v] # 0 => watermark'[v] \in stored'[v]
  <2>1. CASE v # u
    BY <2>1, WriteKeepsWatermark DEF WatermarkIsNewest
  <2>2. CASE v = u
    <3>1. /\ watermark[u] \in Nat /\ watermark'[u] \in Nat
          /\ \A t \in stored[u] : t \in Nat /\ t <= watermark[u]
          /\ watermark[u] # 0 => watermark[u] \in stored[u]
      BY <1>1 DEF TypeOK, WatermarkIsNewest, Ticks
    <3>2. /\ stored'[u] = stored[u] \cup accepted
          /\ watermark'[u] \in {watermark[u]} \cup accepted
          /\ watermark'[u] >= watermark[u]
          /\ \A t \in accepted : t <= watermark'[u]
      BY WriteKeepsWatermark
    <3>. QED BY <2>2, <3>1, <3>2
  <2>. QED BY <2>1, <2>2
<1>. QED BY <1>1, <1>2 DEF WatermarkIsNewest

(* The steps that forget the history. *)
LEMMA WipersType ==
  ASSUME TypeInv,
         stored' = [u \in Units |-> {}], watermark' = [u \in Units |-> 0], identity' = {},
         pc' \in [Procs -> FeederPcs], job' \in [Procs -> Jobs],
         completed' \in [Units -> SUBSET SUBSET Ticks],
         losses' \in 0..MaxLosses,
         UNCHANGED <<profile, tick, csv, posts, crashes>>
  PROVE  TypeInv'
BY IngestionAssumption DEF TypeInv, TypeOK, WatermarkIsNewest

(* The steps that leave the readings alone. *)
LEMMA OthersType ==
  ASSUME TypeInv, UNCHANGED <<stored, watermark>>,
         pc' \in [Procs -> FeederPcs], job' \in [Procs -> Jobs],
         tick' \in (Backfill + 1)..MaxTick,
         csv' \in [CsvUnits -> SUBSET Ticks], identity' \subseteq Units,
         completed' \in [Units -> SUBSET SUBSET Ticks],
         crashes' \in 0..MaxCrashes,
         UNCHANGED <<profile, posts, losses>>
  PROVE  TypeInv'
BY DEF TypeInv, TypeOK, WatermarkIsNewest

(* What is in a process's job is of the right kind, whatever it does next. *)
LEMMA JobParts ==
  ASSUME TypeOK, NEW p \in Procs
  PROVE  /\ job[p] \in Jobs /\ pc[p] \in FeederPcs
         /\ job[p].todo \subseteq Units /\ job[p].unit \subseteq Units
         /\ job[p].fresh \subseteq Ticks /\ job[p].written \subseteq Units
         /\ job[p].frame \subseteq Ticks
BY DEF TypeOK, Jobs

LEMMA FeederIsProc == Feeder \in Procs /\ Gateways \subseteq Procs /\ CsvUnits \subseteq Units
BY IngestionAssumption DEF Procs

(* The feeder's steps, up to the analysis. *)
LEMMA StartType == ASSUME TypeInv, Start PROVE TypeInv'
<1>. USE FeederIsProc
<1>1. TypeOK /\ CsvUnits \in SUBSET Units /\ Available \in SUBSET Units
  BY DEF TypeInv, Available
<1>2. {"ingesting", "analysing", "wiping", "seeding"} \subseteq FeederPcs
  BY DEF FeederPcs
<1>3. CASE StartWorker
  <2>1. pc' \in [Procs -> FeederPcs] /\ job' \in [Procs -> Jobs]
    BY <1>1, <1>2, <1>3, GotoType, JobUpdates DEF StartWorker
  <2>. QED BY <1>1, <1>3, <2>1, OthersType DEF StartWorker, history, bounds, TypeOK
<1>4. CASE StartSimulator
  <2>1. pc' \in [Procs -> FeederPcs] /\ job' \in [Procs -> Jobs]
    BY <1>1, <1>2, <1>4, GotoType, JobUpdates DEF StartSimulator
  <2>. QED BY <1>1, <1>4, <2>1, OthersType DEF StartSimulator, history, bounds, TypeOK
<1>. QED BY <1>3, <1>4 DEF Start

LEMMA WipeType == ASSUME TypeInv, WipeHistory \/ WipeResults PROVE TypeInv'
<1>. USE FeederIsProc
<1>1. TypeOK /\ job[Feeder] \in Jobs /\ {"wiped", "seeding"} \subseteq FeederPcs
  BY JobParts DEF TypeInv, FeederPcs
<1>2. pc' \in [Procs -> FeederPcs] /\ job' \in [Procs -> Jobs]
  BY <1>1, GotoType DEF WipeHistory, WipeResults
<1>3. CASE WipeHistory
  BY <1>1, <1>2, <1>3, WipersType DEF WipeHistory, bounds, TypeOK
<1>4. CASE WipeResults
  <2>1. completed' \in [Units -> SUBSET SUBSET Ticks]
    BY <1>4 DEF WipeResults
  <2>. QED BY <1>1, <1>2, <1>4, <2>1, OthersType DEF WipeResults, history, bounds, TypeOK
<1>. QED BY <1>3, <1>4

LEMMA DoneType ==
  ASSUME TypeOK, NEW u \in Units
  PROVE  Done(u) \in Jobs
<1>1. job[Feeder] \in Jobs /\ job[Feeder].todo \ {u} \in SUBSET Units
  BY JobParts, FeederIsProc
<1>2. Done(u) = [job[Feeder] EXCEPT !.todo = job[Feeder].todo \ {u}]
  BY DEF Done
<1>. QED BY <1>1, <1>2, JobUpdates

LEMMA CsvType ==
  ASSUME TypeInv, NEW u \in CsvUnits, Seed(u) \/ AppendRow(u)
  PROVE  TypeInv'
<1>. USE FeederIsProc
<1>1. TypeOK /\ Done(u) \in Jobs /\ {"seeding", "appending"} \subseteq FeederPcs
  BY DoneType DEF TypeInv, FeederPcs
<1>2. pc' \in [Procs -> FeederPcs] /\ job' \in [Procs -> Jobs]
  BY <1>1, GotoType DEF Seed, AppendRow
<1>3. tick \in Ticks /\ (tick - Backfill)..tick \subseteq Ticks
  BY <1>1, IngestionAssumption DEF TypeOK, Ticks
<1>4. csv' \in [CsvUnits -> SUBSET Ticks]
  <2>1. CASE AppendRow(u)
    BY <1>1, <1>3, <2>1 DEF AppendRow, TypeOK
  <2>2. CASE Seed(u)
    BY <1>1, <1>3, <2>2 DEF Seed, TypeOK
  <2>. QED BY <2>1, <2>2
<1>. QED BY <1>1, <1>2, <1>4, OthersType DEF Seed, AppendRow, history, bounds, TypeOK

LEMMA IngestType ==
  ASSUME TypeInv, Ingest("seeding") \/ Ingest("appending")
  PROVE  TypeInv'
<1>. USE FeederIsProc
<1>1. TypeOK /\ CsvUnits \in SUBSET Units /\ "ingesting" \in FeederPcs
  BY DEF TypeInv, FeederPcs
<1>2. pc' \in [Procs -> FeederPcs] /\ job' \in [Procs -> Jobs]
  BY <1>1, GotoType, JobUpdates DEF Ingest
<1>. QED BY <1>1, <1>2, OthersType DEF Ingest, history, bounds, TypeOK

LEMMA TailType ==
  ASSUME TypeInv, NEW u \in CsvUnits, Identify(u) \/ Tail(u)
  PROVE  TypeInv'
<1>. USE FeederIsProc
<1>1. /\ TypeOK /\ job[Feeder] \in Jobs /\ Done(u) \in Jobs
      /\ {"ingesting", "tailing", "writing"} \subseteq FeederPcs
  BY DoneType, JobParts DEF TypeInv, FeederPcs
<1>2. {u} \in SUBSET Units /\ Fresh(u) \in SUBSET Ticks
  BY <1>1 DEF Fresh, TypeOK
<1>3. pc' \in [Procs -> FeederPcs] /\ job' \in [Procs -> Jobs]
  BY <1>1, <1>2, GotoType, JobUpdates DEF Identify, Tail
<1>4. CASE Identify(u)
  BY <1>1, <1>3, <1>4, OthersType DEF Identify, bounds, TypeOK
<1>5. CASE Tail(u)
  BY <1>1, <1>3, <1>5, OthersType DEF Tail, history, bounds, TypeOK
<1>. QED BY <1>4, <1>5

LEMMA WriteType == ASSUME TypeInv, NEW u \in CsvUnits, Write(u) PROVE TypeInv'
<1>. USE FeederIsProc
<1>1. TypeOK /\ Done(u) \in Jobs /\ "ingesting" \in FeederPcs /\ job[Feeder].fresh \in SUBSET Ticks
  BY DoneType, JobParts DEF TypeInv, FeederPcs
<1>2. Done(u).written \cup {u} \in SUBSET Units
  BY <1>1 DEF Jobs
<1>3. [Done(u) EXCEPT !.written = @ \cup {u}, !.fresh = {}] \in Jobs
  BY <1>1, <1>2, JobUpdates DEF Jobs
<1>4. pc' \in [Procs -> FeederPcs] /\ job' \in [Procs -> Jobs]
  BY <1>1, <1>3, GotoType DEF Write
<1>. QED BY <1>1, <1>4, WritersType DEF Write, bounds, TypeOK

LEMMA CycleType ==
  ASSUME TypeInv, StartCycle("ingesting") \/ StartCycle("waiting") \/ CycleEnds \/ Tick
  PROVE  TypeInv'
<1>. USE FeederIsProc
<1>1. /\ TypeOK /\ {"analysing", "waiting", "appending"} \subseteq FeederPcs
      /\ {Available, job[Feeder].written, CsvUnits} \subseteq SUBSET Units
  BY JobParts DEF TypeInv, FeederPcs, Available
<1>2. pc' \in [Procs -> FeederPcs] /\ job' \in [Procs -> Jobs]
  BY <1>1, GotoType, JobUpdates DEF StartCycle, CycleEnds, Tick
<1>3. tick' \in (Backfill + 1)..MaxTick
  BY <1>1, IngestionAssumption DEF StartCycle, CycleEnds, Tick, TypeOK
<1>. QED BY <1>1, <1>2, <1>3, OthersType DEF StartCycle, CycleEnds, Tick, history, bounds, TypeOK

(* An analysis by any process. *)
LEMMA AnalyseType == ASSUME TypeInv, NEW p \in Procs, Analyse(p) PROVE TypeInv'
<1>1. PICK u \in Units : LoadFrame(p, u) \/ LoadFails(p, u) \/ Complete(p, u)
  BY DEF Analyse
<1>2. /\ TypeOK /\ {"running", "analysing", "down"} \subseteq FeederPcs
      /\ job[p] \in Jobs /\ job[p].todo \ {u} \in SUBSET Units
      /\ {u} \in SUBSET Units /\ stored[u] \in SUBSET Ticks
      /\ job[p].frame \in SUBSET Ticks
  BY JobParts DEF TypeInv, TypeOK, FeederPcs
<1>3. /\ [job[p] EXCEPT !.unit = {u}, !.frame = stored[u]] \in Jobs
      /\ [job[p] EXCEPT !.todo = job[p].todo \ {u}] \in Jobs
      /\ [job[p] EXCEPT !.todo = job[p].todo \ {u}, !.unit = {}, !.frame = {}] \in Jobs
      /\ NoJob \in Jobs
  BY <1>2, JobUpdates
<1>4. CASE LoadFrame(p, u)
  <2>1. pc' \in [Procs -> FeederPcs] /\ job' \in [Procs -> Jobs]
    BY <1>2, <1>3, <1>4, GotoType DEF LoadFrame
  <2>. QED BY <1>2, <1>4, <2>1, OthersType DEF LoadFrame, history, bounds, TypeOK
<1>5. CASE LoadFails(p, u)
  <2>1. pc' \in [Procs -> FeederPcs] /\ job' \in [Procs -> Jobs]
    BY <1>2, <1>3, <1>5, GotoType DEF LoadFails
  <2>. QED BY <1>2, <1>5, <2>1, OthersType DEF LoadFails, history, bounds, TypeOK
<1>6. CASE Complete(p, u)
  <2>1. pc' \in [Procs -> FeederPcs] /\ job' \in [Procs -> Jobs]
    BY <1>2, <1>3, <1>6, GotoType DEF Complete
  <2>2. completed' \in [Units -> SUBSET SUBSET Ticks]
    BY <1>2, <1>6 DEF Complete, TypeOK
  <2>. QED BY <1>2, <1>6, <2>1, <2>2, OthersType DEF Complete, history, bounds, TypeOK
<1>. QED BY <1>1, <1>4, <1>5, <1>6

(* The gateways. *)
LEMMA PostType ==
  ASSUME TypeInv, NEW g \in Gateways, NEW u \in Units, NEW accepted \in SUBSET Ticks,
         NEW analyze \in BOOLEAN, Post(g, u, accepted, analyze)
  PROVE  TypeInv'
<1>. USE FeederIsProc
<1>1. TypeOK /\ {"analysing", "waiting"} \subseteq FeederPcs /\ {u} \in SUBSET Units
  BY DEF TypeInv, FeederPcs
<1>2. pc' \in [Procs -> FeederPcs] /\ job' \in [Procs -> Jobs]
  BY <1>1, GotoType, JobUpdates DEF Post
<1>3. posts' \in 0..MaxPosts
  BY <1>1, IngestionAssumption DEF Post, TypeOK
<1>. QED BY <1>1, <1>2, <1>3, WritersType DEF Post

LEMMA RespondType == ASSUME TypeInv, NEW g \in Gateways, Respond(g) PROVE TypeInv'
<1>. USE FeederIsProc
<1>1. TypeOK /\ "waiting" \in FeederPcs
  BY DEF TypeInv, FeederPcs
<1>2. pc' \in [Procs -> FeederPcs] /\ job' \in [Procs -> Jobs]
  BY <1>1, GotoType, JobUpdates DEF Respond
<1>. QED BY <1>1, <1>2, OthersType DEF Respond, history, bounds, TypeOK

(* What goes wrong. *)
LEMMA FaultType == ASSUME TypeInv, Crash \/ LoseDatabase PROVE TypeInv'
<1>. USE FeederIsProc
<1>1. TypeOK /\ "down" \in FeederPcs
  BY DEF TypeInv, FeederPcs
<1>2. CASE Crash
  <2>1. pc' \in [Procs -> FeederPcs] /\ job' \in [Procs -> Jobs]
    BY <1>1, <1>2, GotoType, JobUpdates DEF Crash
  <2>2. crashes' \in 0..MaxCrashes
    BY <1>1, <1>2, IngestionAssumption DEF Crash, TypeOK
  <2>. QED BY <1>1, <1>2, <2>1, <2>2, OthersType DEF Crash, history, TypeOK
<1>3. CASE LoseDatabase
  <2>1. losses' \in 0..MaxLosses /\ completed' \in [Units -> SUBSET SUBSET Ticks]
    BY <1>1, <1>3, IngestionAssumption DEF LoseDatabase, TypeOK
  <2>. QED BY <1>1, <1>3, <2>1, WipersType DEF LoseDatabase, TypeOK
<1>. QED BY <1>2, <1>3

(* Every step keeps the types and the watermark. *)
LEMMA IngestionNext == TypeInv /\ [Next]_vars => TypeInv'
<1>. SUFFICES ASSUME TypeInv, [Next]_vars PROVE TypeInv'
  OBVIOUS
<1>1. CASE Start
  BY <1>1, StartType
<1>2. CASE FeederStep
  <2>1. \A u \in CsvUnits : Seed(u) \/ AppendRow(u) => TypeInv'
    BY CsvType
  <2>2. \A u \in CsvUnits : Identify(u) \/ Tail(u) => TypeInv'
    BY TailType
  <2>3. \A u \in CsvUnits : Write(u) => TypeInv'
    BY WriteType
  <2>. QED BY <1>2, <2>1, <2>2, <2>3, WipeType, IngestType, CycleType DEF FeederStep
<1>3. CASE Tick
  BY <1>3, CycleType
<1>4. CASE Crash \/ LoseDatabase
  BY <1>4, FaultType
<1>5. CASE \E p \in Procs : Analyse(p)
  BY <1>5, AnalyseType
<1>6. ASSUME NEW g \in Gateways, NEW u \in Units, NEW analyze \in BOOLEAN,
             \/ Post(g, u, {}, analyze)
             \/ \E t \in Ticks : Post(g, u, {t}, analyze)
      PROVE  TypeInv'
  <2>1. \A accepted \in SUBSET Ticks : Post(g, u, accepted, analyze) => TypeInv'
    BY PostType
  <2>2. {} \in SUBSET Ticks /\ \A t \in Ticks : {t} \in SUBSET Ticks
    OBVIOUS
  <2>. QED BY <1>6, <2>1, <2>2
<1>7. CASE \E g \in Gateways : Respond(g)
  BY <1>7, RespondType
<1>8. CASE UNCHANGED vars
  BY <1>8, OthersType DEF vars, history, bounds, TypeInv, TypeOK
<1>. QED BY <1>1, <1>2, <1>3, <1>4, <1>5, <1>6, <1>7, <1>8 DEF Next

(* The variables keep their types. *)
THEOREM IngestionTypeCorrect == Spec => []TypeOK
<1>1. TypeInv => TypeOK
  BY DEF TypeInv
<1>. QED BY <1>1, IngestionInit, IngestionNext, PTL DEF Spec

(* The watermark is the newest stored reading of its unit, however many    *)
(* writers there are and in whatever order readings arrive.                *)
THEOREM WatermarkCorrect == Spec => []WatermarkIsNewest
<1>1. TypeInv => WatermarkIsNewest
  BY DEF TypeInv
<1>. QED BY <1>1, IngestionInit, IngestionNext, PTL DEF Spec

-----------------------------------------------------------------------------
(***************************************************************************)
(* The CSVs are the recovery source.  RecoveredFromCsv is not inductive:   *)
(* it needs that the rows up to the watermark are in the database, that    *)
(* the watermark is behind every row still to be written, and what has     *)
(* been done when the loop over the units is half way.                     *)
(***************************************************************************)
Before(u) ==
  /\ csv[u] \subseteq 1..tick /\ watermark[u] <= tick
  /\ \A t \in csv[u] : t <= watermark[u] => t \in stored[u]
  /\ profile = "sim" /\ csv[u] = {} => watermark[u] = 0

During(u) ==
  /\ profile = "sim-reset" /\ pc[Feeder] \in {"wiped", "seeding"} => watermark[u] = 0
  /\ pc[Feeder] = "appending" /\ u \in job[Feeder].todo => watermark[u] < tick
  /\ pc[Feeder] = "writing" /\ u \in job[Feeder].unit => job[Feeder].fresh = Fresh(u)

After(u) ==
  /\ pc[Feeder] \in {"ingesting", "tailing", "writing"} /\ u \notin job[Feeder].todo =>
       csv[u] \subseteq stored[u]
  /\ pc[Feeder] \in {"analysing", "running", "waiting"} => csv[u] \subseteq stored[u]

Recoverable(u) == Before(u) /\ During(u) /\ After(u)

RecoverInv == profile # "batch" => \A u \in CsvUnits : Recoverable(u)

LEMMA RecoverInit == Init => RecoverInv
BY IngestionAssumption, FeederIsProc
DEF Init, RecoverInv, Recoverable, Before, During, After

(* A step of another process does not touch the feeder, its files and the  *)
(* readings of its units.                                                  *)
LEMMA RecoverOthers ==
  ASSUME RecoverInv,
         pc'[Feeder] = pc[Feeder], job'[Feeder] = job[Feeder], UNCHANGED <<profile, tick, csv>>,
         \A u \in CsvUnits : stored'[u] = stored[u] /\ watermark'[u] = watermark[u]
  PROVE  RecoverInv'
BY DEF RecoverInv, Recoverable, Before, During, After, Fresh

(* The feeder's steps change its program counter and its job.              *)
LEMMA FeederGoes ==
  ASSUME TypeOK, NEW from, NEW to, NEW j, Goto(Feeder, from, to, j)
  PROVE  pc[Feeder] = from /\ pc'[Feeder] = to /\ job'[Feeder] = j
BY FeederIsProc DEF Goto, TypeOK

LEMMA OtherGoes ==
  ASSUME TypeOK, NEW p, p # Feeder, NEW from, NEW to, NEW j, Goto(p, from, to, j)
  PROVE  pc'[Feeder] = pc[Feeder] /\ job'[Feeder] = job[Feeder]
BY FeederIsProc DEF Goto, TypeOK

(* A step of the feeder that leaves history and files alone, to a place    *)
(* about which nothing is promised.                                        *)
LEMMA RecoverAnywhere ==
  ASSUME TypeOK, RecoverInv, UNCHANGED <<profile, tick, csv, history>>,
         \/ pc'[Feeder] \in {"down", "wiping"}
         \/ pc'[Feeder] = "seeding" /\ profile # "sim-reset"
         \/ pc'[Feeder] = "ingesting" /\ job'[Feeder].todo = CsvUnits
         \/ profile = "batch"
  PROVE  RecoverInv'
BY DEF RecoverInv, Recoverable, Before, During, After, Fresh, history

LEMMA RecoverStart == ASSUME TypeOK, RecoverInv, Start PROVE RecoverInv'
<1>1. CASE StartWorker
  BY <1>1, RecoverAnywhere DEF StartWorker, history
<1>2. CASE StartSimulator
  <2>1. pc'[Feeder] = IF profile = "sim-reset" THEN "wiping" ELSE "seeding"
    BY <1>2, FeederGoes DEF StartSimulator
  <2>. QED BY <1>2, <2>1, RecoverAnywhere DEF StartSimulator, history
<1>. QED BY <1>1, <1>2 DEF Start

LEMMA RecoverWipe ==
  ASSUME TypeOK, RecoverInv, WipeHistory \/ WipeResults \/ LoseDatabase
  PROVE  RecoverInv'
<1>1. CASE WipeHistory \/ LoseDatabase
  <2>1. pc'[Feeder] \in {"wiped", "down"}
    BY <1>1, FeederGoes DEF WipeHistory, LoseDatabase
  <2>2. \A u \in CsvUnits : stored'[u] = {} /\ watermark'[u] = 0
    BY <1>1, FeederIsProc DEF WipeHistory, LoseDatabase
  <2>3. UNCHANGED <<profile, tick, csv>> /\ tick >= 1
    BY <1>1, IngestionAssumption DEF WipeHistory, LoseDatabase, TypeOK
  <2>. QED BY <2>1, <2>2, <2>3, IngestionAssumption
           DEF RecoverInv, Recoverable, Before, During, After, TypeOK
<1>2. CASE WipeResults
  <2>1. pc[Feeder] = "wiped" /\ pc'[Feeder] = "seeding" /\ job'[Feeder] = job[Feeder]
    BY <1>2, FeederGoes DEF WipeResults
  <2>. QED BY <1>2, <2>1 DEF WipeResults, history, RecoverInv, Recoverable, Before, During, After
<1>. QED BY <1>1, <1>2

LEMMA RecoverSeed == ASSUME TypeOK, RecoverInv, NEW u \in CsvUnits, Seed(u) PROVE RecoverInv'
<1>1. /\ pc[Feeder] = "seeding" /\ pc'[Feeder] = "seeding"
      /\ UNCHANGED <<profile, tick, stored, watermark>>
  BY FeederGoes DEF Seed, history
<1>2. \A v \in CsvUnits \ {u} : csv'[v] = csv[v]
  BY DEF Seed, TypeOK
<1>3. \/ csv'[u] = csv[u]
      \/ csv'[u] = (tick - Backfill)..tick /\ ~(csv[u] # {} /\ profile = "sim")
  <2>1. CASE csv[u] # {} /\ profile = "sim"
    BY <2>1 DEF Seed
  <2>2. CASE ~(csv[u] # {} /\ profile = "sim")
    <3>1. csv' = [csv EXCEPT ![u] = (tick - Backfill)..tick] /\ u \in DOMAIN csv
      BY <2>2 DEF Seed, TypeOK
    <3>. QED BY <2>2, <3>1
  <2>. QED BY <2>1, <2>2
<1>4. /\ tick \in Nat /\ tick >= Backfill + 1 /\ Backfill \in Nat
      /\ \A v \in CsvUnits : watermark[v] \in Nat
  BY IngestionAssumption DEF TypeOK
<1>5. SUFFICES ASSUME profile \in {"sim", "sim-reset"}, NEW v \in CsvUnits PROVE Recoverable(v)'
  BY <1>1, IngestionAssumption DEF RecoverInv, TypeOK
<1>6. Recoverable(v)
  BY <1>5 DEF RecoverInv
<1>7. CASE csv'[v] = csv[v]
  BY <1>1, <1>6, <1>7 DEF Recoverable, Before, During, After
<1>8. CASE csv'[v] # csv[v]
  <2>1. watermark[v] = 0
    BY <1>1, <1>2, <1>3, <1>5, <1>6, <1>8 DEF Recoverable, Before, During
  <2>2. csv'[v] = (tick - Backfill)..tick /\ csv'[v] \subseteq 1..tick
    BY <1>2, <1>3, <1>4, <1>8
  <2>3. Before(v)'
    BY <1>1, <1>4, <2>1, <2>2 DEF Before
  <2>. QED BY <1>1, <1>6, <2>1, <2>3 DEF Recoverable, During, After
<1>. QED BY <1>7, <1>8

LEMMA RecoverTick ==
  ASSUME TypeOK, RecoverInv, NEW u \in CsvUnits, Tick \/ AppendRow(u)
  PROVE  RecoverInv'
<1>1. SUFFICES ASSUME profile # "batch", NEW v \in CsvUnits PROVE Recoverable(v)'
  BY DEF RecoverInv, Tick, AppendRow
<1>2. /\ Recoverable(v) /\ tick \in Nat /\ watermark[v] \in Nat
      /\ UNCHANGED <<profile, stored, watermark>>
  BY <1>1, IngestionAssumption DEF RecoverInv, TypeOK, Tick, AppendRow, history
<1>3. CASE Tick
  <2>1. pc'[Feeder] = "appending" /\ tick' = tick + 1 /\ csv' = csv
    BY <1>3, FeederGoes DEF Tick
  <2>. QED BY <1>2, <2>1 DEF Recoverable, Before, During, After
<1>4. CASE AppendRow(u)
  <2>1. /\ pc[Feeder] = "appending" /\ pc'[Feeder] = "appending" /\ tick' = tick
        /\ job'[Feeder].todo = job[Feeder].todo \ {u}
        /\ u \in job[Feeder].todo
    <3>1. job[Feeder] \in Jobs
      BY JobParts, FeederIsProc
    <3>. QED BY <1>4, <3>1, FeederGoes DEF AppendRow, Done, Jobs
  <2>2. csv'[v] = IF v = u THEN csv[v] \cup {tick} ELSE csv[v]
    BY <1>4 DEF AppendRow, TypeOK
  <2>3. v = u => watermark[v] < tick
    BY <1>2, <2>1 DEF Recoverable, During
  <2>. QED BY <1>2, <2>1, <2>2, <2>3 DEF Recoverable, Before, During, After
<1>. QED BY <1>3, <1>4

LEMMA RecoverTail ==
  ASSUME TypeOK, RecoverInv, NEW u \in CsvUnits, Identify(u) \/ Tail(u)
  PROVE  RecoverInv'
<1>1. SUFFICES ASSUME profile # "batch", NEW v \in CsvUnits PROVE Recoverable(v)'
  BY DEF RecoverInv, Identify, Tail
<1>2. /\ Recoverable(v) /\ watermark[v] \in Nat /\ csv[v] \subseteq Nat /\ job[Feeder] \in Jobs
      /\ UNCHANGED <<profile, tick, csv, stored, watermark>>
  BY <1>1, JobParts, FeederIsProc, IngestionAssumption
  DEF RecoverInv, TypeOK, Identify, Tail, history, Ticks
<1>3. CASE Identify(u)
  <2>1. /\ pc[Feeder] = "ingesting" /\ pc'[Feeder] = "tailing"
        /\ job'[Feeder].todo = job[Feeder].todo
    BY <1>2, <1>3, FeederGoes DEF Identify, Jobs
  <2>. QED BY <1>2, <2>1 DEF Recoverable, Before, During, After
<1>4. CASE Tail(u) /\ Fresh(u) = {}
  <2>1. /\ pc[Feeder] = "tailing" /\ pc'[Feeder] = "ingesting"
        /\ job'[Feeder].todo = job[Feeder].todo \ {u}
    BY <1>1, <1>2, <1>4, FeederGoes DEF Tail, Done, Jobs
  <2>2. v = u => csv[v] \subseteq stored[v]
    BY <1>2, <1>4 DEF Fresh, Recoverable, Before
  <2>. QED BY <1>2, <2>1, <2>2 DEF Recoverable, Before, During, After
<1>5. CASE Tail(u) /\ Fresh(u) # {}
  <2>1. /\ pc[Feeder] = "tailing" /\ pc'[Feeder] = "writing"
        /\ job'[Feeder].todo = job[Feeder].todo /\ job'[Feeder].unit = {u}
        /\ job'[Feeder].fresh = Fresh(u)
    <3>1. Goto(Feeder, "tailing", "writing", [job[Feeder] EXCEPT !.fresh = Fresh(u)])
      BY <1>5 DEF Tail
    <3>2. job[Feeder].unit = {u}
      BY <1>5 DEF Tail
    <3>. QED BY <1>2, <3>1, <3>2, FeederGoes DEF Jobs
  <2>2. Fresh(u)' = Fresh(u)
    BY <1>2 DEF Fresh
  <2>. QED BY <1>2, <2>1, <2>2 DEF Recoverable, Before, During, After
<1>. QED BY <1>3, <1>4, <1>5

(* A write brings the rows past the watermark, and the watermark with them. *)
LEMMA RecoverWrite == ASSUME TypeOK, RecoverInv, NEW u \in CsvUnits, Write(u) PROVE RecoverInv'
<1>1. SUFFICES ASSUME profile # "batch", NEW v \in CsvUnits PROVE Recoverable(v)'
  BY DEF RecoverInv, Write
<1>2. /\ Recoverable(v) /\ watermark[v] \in Nat /\ csv[v] \subseteq Nat /\ tick \in Nat
      /\ job[Feeder] \in Jobs /\ u \in Units /\ v \in Units /\ job[Feeder].fresh \in SUBSET Ticks
      /\ UNCHANGED <<profile, tick, csv>>
  BY <1>1, JobParts, FeederIsProc, IngestionAssumption DEF RecoverInv, TypeOK, Write, Ticks
<1>3. /\ pc[Feeder] = "writing" /\ pc'[Feeder] = "ingesting"
      /\ job'[Feeder].todo = job[Feeder].todo \ {u} /\ job[Feeder].unit = {u}
  <2>1. /\ Goto(Feeder, "writing", "ingesting", [Done(u) EXCEPT !.written = @ \cup {u}, !.fresh = {}])
        /\ job[Feeder].unit = {u}
    BY DEF Write
  <2>2. Done(u) \in Jobs /\ Done(u).todo = job[Feeder].todo \ {u}
    BY <1>2, DoneType DEF Done, Jobs
  <2>. QED BY <2>1, <2>2, FeederGoes DEF Jobs
<1>4. WriteReadings(u, job[Feeder].fresh)
  BY DEF Write
<1>5. CASE v # u
  <2>1. stored'[v] = stored[v] /\ watermark'[v] = watermark[v]
    BY <1>2, <1>4, <1>5, WriteKeepsWatermark
  <2>. QED BY <1>2, <1>3, <1>5, <2>1 DEF Recoverable, Before, During, After
<1>6. CASE v = u
  <2>1. job[Feeder].fresh = {t \in csv[u] : t > watermark[u]}
    BY <1>1, <1>2, <1>3, <1>6 DEF Recoverable, During, Fresh
  <2>2. /\ stored'[u] = stored[u] \cup job[Feeder].fresh
        /\ watermark'[u] \in {watermark[u]} \cup job[Feeder].fresh
    BY <1>2, <1>4, WriteKeepsWatermark
  <2>3. csv[u] \subseteq stored'[u]
    BY <1>2, <1>6, <2>1, <2>2 DEF Recoverable, Before
  <2>4. watermark'[u] <= tick /\ (profile = "sim" /\ csv[u] = {} => watermark'[u] = 0)
    BY <1>2, <1>6, <2>1, <2>2 DEF Recoverable, Before
  <2>. QED BY <1>2, <1>3, <1>6, <2>3, <2>4 DEF Recoverable, Before, During, After
<1>. QED BY <1>5, <1>6

(* After the last unit, the loop has brought every row. *)
LEMMA RecoverCycle ==
  ASSUME TypeOK, RecoverInv, StartCycle("ingesting") \/ StartCycle("waiting") \/ CycleEnds
  PROVE  RecoverInv'
<1>1. UNCHANGED <<profile, tick, csv, stored, watermark>>
  BY DEF StartCycle, CycleEnds, history
<1>2. SUFFICES ASSUME profile # "batch", NEW v \in CsvUnits PROVE Recoverable(v)'
  BY <1>1 DEF RecoverInv
<1>3. Recoverable(v)
  BY <1>2 DEF RecoverInv
<1>4. CASE StartCycle("ingesting")
  <2>1. pc[Feeder] = "ingesting" /\ job[Feeder].todo = {} /\ pc'[Feeder] = "analysing"
    BY <1>4, FeederGoes DEF StartCycle
  <2>. QED BY <1>1, <1>3, <2>1 DEF Recoverable, Before, During, After
<1>5. CASE StartCycle("waiting")
  BY <1>2, <1>5 DEF StartCycle
<1>6. CASE CycleEnds
  <2>1. pc[Feeder] = "analysing" /\ pc'[Feeder] = "waiting"
    BY <1>6, FeederGoes DEF CycleEnds
  <2>. QED BY <1>1, <1>3, <2>1 DEF Recoverable, Before, During, After
<1>. QED BY <1>4, <1>5, <1>6

LEMMA RecoverAnalyse ==
  ASSUME TypeOK, RecoverInv, NEW p \in Procs, Analyse(p)
  PROVE  RecoverInv'
<1>1. PICK u \in Units : LoadFrame(p, u) \/ LoadFails(p, u) \/ Complete(p, u)
  BY DEF Analyse
<1>2. UNCHANGED <<profile, tick, csv, stored, watermark>>
  BY <1>1 DEF LoadFrame, LoadFails, Complete, history
<1>3. CASE p # Feeder
  <2>1. pc'[Feeder] = pc[Feeder] /\ job'[Feeder] = job[Feeder]
    BY <1>1, <1>3, OtherGoes DEF LoadFrame, LoadFails, Complete
  <2>. QED BY <1>2, <2>1, RecoverOthers
<1>4. CASE p = Feeder
  <2>1. /\ pc[Feeder] \in {"analysing", "running"}
        /\ pc'[Feeder] \in {"analysing", "running", "down"}
    BY <1>1, <1>4, FeederGoes DEF LoadFrame, LoadFails, Complete
  <2>. QED BY <1>2, <2>1 DEF RecoverInv, Recoverable, Before, During, After
<1>. QED BY <1>3, <1>4

(* The gateways do not write to the simulated units. *)
LEMMA RecoverGateway ==
  ASSUME TypeOK, RecoverInv, NEW g \in Gateways, NEW u \in Units, NEW accepted \in SUBSET Ticks,
         NEW analyze \in BOOLEAN, Post(g, u, accepted, analyze) \/ Respond(g)
  PROVE  RecoverInv'
<1>1. g # Feeder /\ UNCHANGED <<profile, tick, csv>>
  BY IngestionAssumption DEF Post, Respond
<1>2. pc'[Feeder] = pc[Feeder] /\ job'[Feeder] = job[Feeder]
  BY <1>1, OtherGoes DEF Post, Respond
<1>3. CASE Respond(g)
  BY <1>1, <1>2, <1>3, RecoverOthers DEF Respond, history
<1>4. CASE Post(g, u, accepted, analyze) /\ profile = "batch"
  BY <1>1, <1>4 DEF RecoverInv
<1>5. CASE Post(g, u, accepted, analyze) /\ u \notin CsvUnits
  <2>1. \A v \in CsvUnits : stored'[v] = stored[v] /\ watermark'[v] = watermark[v]
    BY <1>5, FeederIsProc, WriteKeepsWatermark DEF Post
  <2>. QED BY <1>1, <1>2, <2>1, RecoverOthers
<1>. QED BY <1>3, <1>4, <1>5 DEF Post

(* Every step keeps the recovery invariant. *)
LEMMA RecoverNext == TypeOK /\ RecoverInv /\ [Next]_vars => RecoverInv'
<1>. SUFFICES ASSUME TypeOK, RecoverInv, [Next]_vars PROVE RecoverInv'
  OBVIOUS
<1>1. CASE Start
  BY <1>1, RecoverStart
<1>2. CASE FeederStep
  <2>1. \A u \in CsvUnits : Seed(u) => RecoverInv'
    BY RecoverSeed
  <2>2. \A u \in CsvUnits : AppendRow(u) => RecoverInv'
    BY RecoverTick
  <2>3. \A u \in CsvUnits : Identify(u) \/ Tail(u) => RecoverInv'
    BY RecoverTail
  <2>4. \A u \in CsvUnits : Write(u) => RecoverInv'
    BY RecoverWrite
  <2>5. Ingest("seeding") \/ Ingest("appending") => RecoverInv'
    <3>. SUFFICES ASSUME Ingest("seeding") \/ Ingest("appending") PROVE RecoverInv'
      OBVIOUS
    <3>1. pc'[Feeder] = "ingesting" /\ job'[Feeder].todo = CsvUnits
      BY FeederGoes DEF Ingest, NoJob
    <3>. QED BY <3>1, RecoverAnywhere DEF Ingest
  <2>. QED BY <1>2, <2>1, <2>2, <2>3, <2>4, <2>5, RecoverWipe, RecoverCycle DEF FeederStep
<1>3. CASE Tick
  <2>1. CASE CsvUnits = {}
    BY <2>1, <1>3 DEF RecoverInv, Tick
  <2>2. CASE CsvUnits # {}
    BY <1>3, <2>2, RecoverTick
  <2>. QED BY <2>1, <2>2
<1>4. CASE Crash
  <2>1. pc'[Feeder] = "down"
    BY <1>4, FeederGoes DEF Crash
  <2>. QED BY <1>4, <2>1, RecoverAnywhere DEF Crash
<1>5. CASE LoseDatabase
  BY <1>5, RecoverWipe
<1>6. CASE \E p \in Procs : Analyse(p)
  BY <1>6, RecoverAnalyse
<1>7. ASSUME NEW g \in Gateways, NEW u \in Units, NEW analyze \in BOOLEAN,
             \/ Post(g, u, {}, analyze)
             \/ \E t \in Ticks : Post(g, u, {t}, analyze)
      PROVE  RecoverInv'
  <2>1. \A accepted \in SUBSET Ticks : Post(g, u, accepted, analyze) => RecoverInv'
    BY RecoverGateway
  <2>2. {} \in SUBSET Ticks /\ \A t \in Ticks : {t} \in SUBSET Ticks
    OBVIOUS
  <2>. QED BY <1>7, <2>1, <2>2
<1>8. CASE \E g \in Gateways : Respond(g)
  <2>1. PICK g \in Gateways : Respond(g)
    BY <1>8
  <2>2. pc'[Feeder] = pc[Feeder] /\ job'[Feeder] = job[Feeder]
    BY <2>1, IngestionAssumption, OtherGoes DEF Respond
  <2>. QED BY <2>1, <2>2, RecoverOthers DEF Respond, history
<1>9. CASE UNCHANGED vars
  BY <1>9, RecoverOthers DEF vars, history
<1>. QED BY <1>1, <1>2, <1>3, <1>4, <1>5, <1>6, <1>7, <1>8, <1>9 DEF Next

(* The CSVs are the recovery source: whenever the simulator waits for the  *)
(* next tick, the database has every row of the files, whatever crashes,   *)
(* resets and losses of the database came before.                          *)
THEOREM RecoveryCorrect == Spec => []RecoveredFromCsv
<1>1. RecoverInv => RecoveredFromCsv
  BY DEF RecoverInv, Recoverable, After, RecoveredFromCsv
<1>2. Init => RecoverInv
  BY RecoverInit
<1>. QED BY <1>1, <1>2, RecoverNext, IngestionTypeCorrect, PTL DEF Spec
=============================================================================
