------------------------ MODULE SequentialRunProofs ------------------------
(***************************************************************************)
(* Proofs about AnalysisRun when the runs of a unit come one after another *)
(* (one process: the worker alone, or requests that never overlap): the    *)
(* view is the latest run, the alarms match the view, the artifacts match  *)
(* both, and the alert table keeps the promise of Incident.  For every set *)
(* of conditions, every observation, tolerance, interval and bound.        *)
(*                                                                         *)
(* With two processes these are false (README, section 4): a run may       *)
(* commit what it decided from a view that another has replaced.           *)
(***************************************************************************)
EXTENDS AnalysisRunProofs

(* The runs of the unit do not overlap. *)
OneProcess == \A p, q \in Procs : p = q

(* Every frame shows at least one condition that Phase A finds: no         *)
(* analysis ends with nothing, which PostgresFindingRepository.current     *)
(* could not tell from "no run yet".                                       *)
AlwaysFinds == \A obs \in Observations : DOMAIN obs \ LearnedIdentities # {}

(* What is committed is from before the instant n. *)
Older(n) ==
  /\ \A r \in runs : r.started < n
  /\ \A f \in findings : f.produced < n
  /\ \A id \in DOMAIN alerts : id[2] < n

(* The instants of a run in progress come after all that is committed, in  *)
(* the order in which it took them.                                        *)
InOrder(p) ==
  /\ pc[p] = "computed" => txn[p].produced <= clock /\ Older(txn[p].produced)
  /\ pc[p] \in OpenPcs \cup {"started"} =>
       /\ txn[p].produced < txn[p].started /\ txn[p].started <= clock
       /\ Older(txn[p].produced)

OrderInv == Older(clock + 1) /\ \A p \in Procs : InOrder(p)

(* From ReadView to Commit nobody else changes what the run read. *)
ReadsCurrent(p) ==
  /\ pc[p] \in {"viewed", "decided", "locked"} => txn[p].view = View
  /\ pc[p] \in {"decided", "locked"} =>
       txn[p].fresh = Decide(Critical(txn[p].view), Critical(txn[p].found),
                             LatestAlert, txn[p].started)

ViewInv == ViewIsLatestRun /\ \A p \in Procs : ReadsCurrent(p)

(* Every completed run, and every run that found its findings, found one.  *)
FoundInv ==
  /\ \A r \in runs : r.observed # {}
  /\ \A p \in Procs :
       pc[p] \in {"learned", "viewed", "decided", "locked"} => DOMAIN txn[p].found # {}

(* An incident that is open was announced, unless quietly; one that is     *)
(* not open has nobody waiting for its resolution.                         *)
Consistent(last, word) ==
  IF IsOpen(last) /\ last.status # "suppressed"
  THEN word = last.kind ELSE word \in {"none", "resolved"}

(* An alert's time is that of the run that created it, which is after 0.   *)
IncidentInv ==
  /\ \A id \in DOMAIN alerts : alerts[id].at = id[2] /\ id[2] > 0
  /\ \A i \in Identities : Consistent(LatestAlert[i], LastWord(i))

(* The files on disk are those of the latest run, up to those the run in   *)
(* progress has replaced.                                                  *)
DoneHash == IF runs = {} THEN 0 ELSE LatestRun.hash

FilesInv ==
  faults = 0 =>
    /\ (\A p \in Procs : ~Open(p)) => \A e \in 1..NumArtifacts : artifacts[e] = DoneHash
    /\ \A p \in Procs : Open(p) =>
         \A e \in 1..NumArtifacts :
           artifacts[e] = IF e <= txn[p].saved THEN txn[p].hash ELSE DoneHash
    /\ \A p \in Procs :
         /\ pc[p] \notin {"decided", "locked"} => txn[p].saved = 0
         /\ pc[p] = "locked" => txn[p].saved = NumArtifacts

-----------------------------------------------------------------------------
(***************************************************************************)
(* The order of the instants.                                              *)
(***************************************************************************)

(* What is older than one instant is older than a later one. *)
LEMMA OlderLater ==
  ASSUME TypeInv, NEW m \in Nat, NEW n \in Nat, m <= n, Older(m)
  PROVE  Older(n)
<1>1. /\ \A r \in runs : r.started \in Nat
      /\ \A f \in findings : f.produced \in Nat
      /\ \A id \in DOMAIN alerts : id[2] \in Nat
  BY DEF TypeInv, TypeOK, RunRows, FindingRow
<1>. QED BY <1>1 DEF Older

(* A step of p that stores nothing and keeps its instants, or starts over. *)
LEMMA OrderKept ==
  ASSUME TypeInv, OrderInv, NEW p \in Procs, NEW to,
         pc' = [pc EXCEPT ![p] = to],
         \A q \in Procs : q # p => txn'[q] = txn[q],
         \/ to \notin OpenPcs \cup {"computed", "started"}
         \/ /\ to \in OpenPcs
            /\ pc[p] \in OpenPcs \cup {"started"}
            /\ txn'[p].produced = txn[p].produced
            /\ txn'[p].started = txn[p].started,
         UNCHANGED <<runs, findings, alerts, clock>>
  PROVE  OrderInv'
<1>1. Older(clock + 1)' /\ \A n : Older(n) => Older(n)'
  BY DEF OrderInv, Older
<1>2. ASSUME NEW q \in Procs, q # p PROVE InOrder(q)'
  <2>1. InOrder(q) /\ txn'[q] = txn[q] /\ pc'[q] = pc[q]
    BY <1>2 DEF OrderInv, TypeInv, TypeOK
  <2>. QED BY <2>1 DEF InOrder, Older
<1>3. InOrder(p)'
  <2>1. pc'[p] = to
    BY DEF TypeInv, TypeOK
  <2>2. InOrder(p)
    BY DEF OrderInv
  <2>. QED BY <2>1, <2>2 DEF InOrder, OpenPcs, Older
<1>. QED BY <1>1, <1>2, <1>3 DEF OrderInv

(* Time passes, and a new instant is after all that is committed. *)
LEMMA OrderClock == ASSUME TypeInv, OrderInv, OneProcess, NEW p \in Procs,
                           Compute(p) \/ Start(p)
                    PROVE  OrderInv'
<1>1. \A q \in Procs : q = p
  BY DEF OneProcess
<1>2. clock \in Nat /\ clock' = clock + 1 /\ UNCHANGED <<runs, findings, alerts>>
  BY DEF TypeInv, TypeOK, Compute, Start, Now, tables
<1>3. Older(clock + 1) /\ Older(clock + 2)
  BY <1>2, OlderLater DEF OrderInv
<1>4. Older(clock + 1)' /\ \A n : Older(n) => Older(n)'
  <2>1. clock' + 1 = clock + 2
    BY <1>2
  <2>. QED BY <1>2, <1>3, <2>1 DEF Older
<1>5. CASE Compute(p)
  <2>1. pc'[p] = "computed" /\ txn'[p].produced = clock + 1
    BY <1>5 DEF Compute, Goto, Now, TypeInv, TypeOK, TxnOK, TxnFields
  <2>. QED BY <1>1, <1>2, <1>3, <1>4, <2>1 DEF OrderInv, InOrder, OpenPcs
<1>6. CASE Start(p)
  <2>1. /\ pc[p] = "computed" /\ pc'[p] = "started"
        /\ txn'[p].started = clock + 1 /\ txn'[p].produced = txn[p].produced
        /\ txn[p].produced \in Nat
    BY <1>6 DEF Start, Goto, Now, TypeInv, TypeOK, TxnOK, TxnFields
  <2>2. txn[p].produced <= clock /\ Older(txn[p].produced)
    BY <2>1 DEF OrderInv, InOrder
  <2>. QED BY <1>1, <1>2, <1>4, <2>1, <2>2 DEF OrderInv, InOrder, OpenPcs
<1>. QED BY <1>5, <1>6

(* A replay gives back only the two instants that it took last. *)
LEMMA OrderReplay == ASSUME TypeInv, OrderInv, OneProcess, NEW p \in Procs, Replay(p)
                     PROVE  OrderInv'
<1>1. \A q \in Procs : q = p
  BY DEF OneProcess
<1>2. /\ clock \in Nat /\ txn[p].produced \in Nat /\ txn[p].started \in Nat
      /\ UNCHANGED <<runs, findings, alerts>> /\ pc'[p] = "idle" /\ pc[p] = "started"
  BY DEF TypeInv, TypeOK, TxnOK, Replay, Goto, tables
<1>3. InOrder(p)'
  BY <1>2 DEF InOrder, OpenPcs
<1>4. Older(clock' + 1)
  <2>1. CASE txn[p].started = clock /\ txn[p].produced = clock - 1
    <3>1. Older(txn[p].produced)
      BY <1>2 DEF OrderInv, InOrder
    <3>2. clock' + 1 = txn[p].produced
      BY <1>2, <2>1 DEF Replay, ClockAfterReplay
    <3>. QED BY <3>1, <3>2
  <2>2. CASE ~(txn[p].started = clock /\ txn[p].produced = clock - 1)
    BY <2>2 DEF Replay, ClockAfterReplay, OrderInv
  <2>. QED BY <2>1, <2>2
<1>5. Older(clock + 1)'
  BY <1>2, <1>4 DEF Older
<1>. QED BY <1>1, <1>3, <1>5 DEF OrderInv

(* The rows a run commits are from its own instants. *)
LEMMA OrderCommit == ASSUME TypeInv, OrderInv, OneProcess, NEW p \in Procs, Commit(p)
                     PROVE  OrderInv'
<1>1. \A q \in Procs : q = p
  BY DEF OneProcess
<1>2. /\ clock \in Nat /\ clock' = clock /\ txn[p].produced \in Nat /\ txn[p].started \in Nat
      /\ pc'[p] = "committed" /\ pc[p] = "locked"
  BY DEF TypeInv, TypeOK, TxnOK, Commit, Goto
<1>3. txn[p].produced < clock + 1 /\ txn[p].started < clock + 1
  BY <1>2 DEF OrderInv, InOrder, OpenPcs
<1>4. Older(clock + 1)
  BY DEF OrderInv
<1>5. \A r \in runs' : r.started < clock + 1
  BY <1>3, <1>4 DEF Commit, RunRow, Older
<1>6. \A f \in findings' : f.produced < clock + 1
  BY <1>3, <1>4 DEF Commit, NewFindings, Older
<1>7. \A id \in DOMAIN alerts' : id[2] < clock + 1
  <2>1. DOMAIN alerts' = DOMAIN alerts \cup AlertIds(p)
    BY DEF Commit
  <2>. QED BY <1>3, <1>4, <2>1 DEF AlertIds, Older
<1>8. Older(clock + 1)'
  BY <1>2, <1>5, <1>6, <1>7 DEF Older
<1>9. InOrder(p)'
  BY <1>2 DEF InOrder, OpenPcs
<1>. QED BY <1>1, <1>8, <1>9 DEF OrderInv

(* OrderInv is inductive for one process: one case per action. *)
LEMMA OrderStep == OneProcess /\ TypeInv /\ OrderInv /\ [Next]_vars => OrderInv'
<1>. SUFFICES ASSUME OneProcess, TypeInv, OrderInv, [Next]_vars PROVE OrderInv'
  OBVIOUS
<1>1. CASE Environment \/ UNCHANGED vars
  <2>1. /\ UNCHANGED <<runs, findings, alerts, pc, txn>>
        /\ clock \in Nat /\ clock' \in Nat /\ clock <= clock'
    BY <1>1, RunAssumption DEF Environment, Wait, NewReadings, vars, tables, TypeInv, TypeOK
  <2>2. Older(clock' + 1)
    BY <2>1, OlderLater DEF OrderInv
  <2>3. Older(clock + 1)'
    BY <2>1, <2>2 DEF Older
  <2>4. ASSUME NEW p \in Procs PROVE InOrder(p)'
    <3>1. txn[p].produced \in Nat /\ txn[p].started \in Nat
      BY DEF TypeInv, TypeOK, TxnOK
    <3>2. InOrder(p)
      BY DEF OrderInv
    <3>. QED BY <2>1, <3>1, <3>2 DEF InOrder, Older
  <2>. QED BY <2>3, <2>4 DEF OrderInv
<1>2. ASSUME NEW p \in Procs, Load(p) PROVE OrderInv'
  BY <1>2, OrderKept DEF Load, Goto, TypeInv, TypeOK, OpenPcs, tables
<1>3. ASSUME NEW p \in Procs, Claim(p) PROVE OrderInv'
  BY <1>3, OrderKept DEF Claim, Goto, TypeInv, TypeOK, OpenPcs, tables
<1>4. ASSUME NEW p \in Procs, Learn(p) PROVE OrderInv'
  <2>1. PICK f : txn' = [txn EXCEPT ![p].found = f]
    BY <1>4 DEF Learn
  <2>2. txn'[p].produced = txn[p].produced /\ txn'[p].started = txn[p].started
    BY <2>1 DEF TypeInv, TypeOK, TxnOK, TxnFields
  <2>. QED BY <1>4, <2>1, <2>2, OrderKept DEF Learn, Goto, TypeInv, TypeOK, OpenPcs, tables
<1>5. ASSUME NEW p \in Procs, ReadView(p) PROVE OrderInv'
  BY <1>5, OrderKept DEF ReadView, Goto, TypeInv, TypeOK, TxnOK, TxnFields, OpenPcs, tables
<1>6. ASSUME NEW p \in Procs, DecideAlerts(p) PROVE OrderInv'
  BY <1>6, OrderKept DEF DecideAlerts, Goto, TypeInv, TypeOK, TxnOK, TxnFields, OpenPcs, tables
<1>7. ASSUME NEW p \in Procs, SaveArtifact(p) PROVE OrderInv'
  <2>1. pc' = [pc EXCEPT ![p] = "decided"] /\ pc[p] = "decided"
    BY <1>7 DEF SaveArtifact, TypeInv, TypeOK
  <2>2. /\ txn'[p].produced = txn[p].produced /\ txn'[p].started = txn[p].started
        /\ \A q \in Procs : q # p => txn'[q] = txn[q]
    BY <1>7 DEF SaveArtifact, TypeInv, TypeOK, TxnOK, TxnFields
  <2>. QED BY <1>7, <2>1, <2>2, OrderKept DEF SaveArtifact, OpenPcs, tables
<1>8. ASSUME NEW p \in Procs, LockAsset(p) PROVE OrderInv'
  BY <1>8, OrderKept DEF LockAsset, Goto, TypeInv, TypeOK, OpenPcs, tables
<1>9. ASSUME NEW p \in Procs, Abort(p) PROVE OrderInv'
  <2>1. /\ UNCHANGED <<runs, findings, alerts, clock>>
        /\ pc' = [pc EXCEPT ![p] = "idle"] /\ txn' = [txn EXCEPT ![p] = NoTxn]
    BY <1>9 DEF Abort, Fail
  <2>. QED BY <2>1, OrderKept DEF TypeInv, TypeOK, OpenPcs
<1>10. ASSUME NEW p \in Procs, Return(p) PROVE OrderInv'
  BY <1>10, OrderKept DEF Return, Leave, Goto, TypeInv, TypeOK, OpenPcs
<1>. QED BY <1>1, <1>2, <1>3, <1>4, <1>5, <1>6, <1>7, <1>8, <1>9, <1>10,
            OrderClock, OrderReplay, OrderCommit DEF Next, RunStep

-----------------------------------------------------------------------------
(***************************************************************************)
(* The view is the latest run.                                             *)
(***************************************************************************)

(* Of runs that started before some instant, one started last. *)
LEMMA LatestIsRun ==
  ASSUME TypeInv, OrderInv, runs # {}
  PROVE  LatestRun \in runs /\ \A r \in runs : r.started <= LatestRun.started
<1> DEFINE times == {r.started : r \in runs}
<1>1. PICK last \in times : \A t \in times : t <= last
  <2>1. times \in SUBSET Nat /\ times # {}
    BY DEF TypeInv, TypeOK, RunRows
  <2>2. clock + 1 \in Nat /\ \A r \in runs : r.started \in Nat /\ r.started < clock + 1
    BY DEF OrderInv, Older, TypeInv, TypeOK, RunRows
  <2>3. \A t \in times : t <= clock + 1
    BY <2>2
  <2>. HIDE DEF times
  <2>. QED BY <2>1, <2>2, <2>3, GreatestNatural
<1>2. PICK r \in runs : r.started = last
  OBVIOUS
<1>3. \A s \in runs : s.started <= r.started
  BY <1>1, <1>2
<1>. QED BY <1>2, <1>3 DEF LatestRun

(* What the view shows of a condition is the newest row on it. *)
LEMMA ViewShows ==
  ASSUME NEW i \in DOMAIN View
  PROVE  /\ i \in ListedIdentities
         /\ \E f \in findings : f.identity = i
         /\ View[i] = Newest({f \in findings : f.identity = i})
BY DEF View

(* A row newer than all others is the newest. *)
LEMMA NewestIsNew ==
  ASSUME NEW rows, NEW f, f.produced \in Nat, f.hash \in Nat,
         \A g \in rows : g.produced \in Nat /\ g.produced < f.produced
  PROVE  Newest(rows \cup {f}) = f
<1> DEFINE Top(x) == \A g \in rows \cup {f} :
             \/ g.produced < x.produced
             \/ g.produced = x.produced /\ g.hash <= x.hash
<1>1. Top(f)
  OBVIOUS
<1>2. \A x \in rows \cup {f} : Top(x) => x = f
  OBVIOUS
<1>. QED BY <1>1, <1>2 DEF Newest

(* The run that commits is the latest. *)
LEMMA CommitIsLatest ==
  ASSUME TypeInv, OrderInv, NEW p \in Procs, Commit(p)
  PROVE  LatestRun' = RunRow(p) /\ runs' # {}
<1>1. /\ txn[p].produced < txn[p].started /\ Older(txn[p].produced)
      /\ txn[p].produced \in Nat /\ txn[p].started \in Nat
  BY DEF OrderInv, InOrder, OpenPcs, Commit, Goto, TypeInv, TypeOK, TxnOK
<1>2. runs' = runs \cup {RunRow(p)} /\ RunRow(p).started = txn[p].started
  BY DEF Commit, RunRow
<1>3. \A r \in runs : r.started \in Nat /\ r.started < txn[p].started
  BY <1>1 DEF Older, TypeInv, TypeOK, RunRows
<1>4. \A s \in runs' : s.started <= RunRow(p).started
  BY <1>1, <1>2, <1>3
<1>5. \A r \in runs' : (\A s \in runs' : s.started <= r.started) => r = RunRow(p)
  BY <1>1, <1>2, <1>3
<1>. QED BY <1>2, <1>4, <1>5 DEF LatestRun

(* No row is there already under an id the run is about to use: its input  *)
(* was never analysed, and rows come with their runs.                      *)
LEMMA IdsAreNew ==
  ASSUME TypeInv, AtomicInv, OneRunPerInput, NEW p \in Procs, Open(p)
  PROVE  \A f \in findings : f.hash # txn[p].hash
BY DEF AtomicInv, AllOrNothing, OneRunPerInput, Completed

(* The row a run stores for a condition. *)
RowOf(p, i) ==
  [identity |-> i, hash |-> txn[p].hash, sev |-> txn[p].found[i].sev,
   value |-> txn[p].found[i].value, produced |-> txn[p].produced]

(* After a commit the newest row on what it found is what it found, but    *)
(* for a drift within the tolerance.                                       *)
LEMMA CommitNewest ==
  ASSUME TypeInv, AtomicInv, OneRunPerInput, OrderInv, ViewInv,
         NEW p \in Procs, Commit(p), NEW i \in DOMAIN txn[p].found
  PROVE  LET rows == {f \in findings' : f.identity = i}
         IN  /\ rows # {}
             /\ Newest(rows).sev = txn[p].found[i].sev
             /\ SameValue(Newest(rows).value, txn[p].found[i].value)
<1> DEFINE t == txn[p]
           old == {f \in findings : f.identity = i}
           rows == {f \in findings' : f.identity = i}
<1>1. /\ TxnOK(t) /\ Open(p) /\ pc[p] = "locked"
      /\ t.view = View /\ Older(t.produced)
  BY DEF TypeInv, TypeOK, Commit, Goto, Open, OpenPcs, ViewInv, ReadsCurrent, OrderInv, InOrder
<1>2. t.found[i].sev \in Severities /\ t.found[i].value \in Nat
      /\ t.produced \in Nat /\ t.hash \in Nat
  BY <1>1 DEF TxnOK, PartialView, Contents
<1>3. findings' = findings \cup {RowOf(p, j) : j \in Changed(t.view, t.found)}
  <2>1. {j \in Changed(t.view, t.found) : \A f \in findings : f.identity # j \/ f.hash # t.hash}
          = Changed(t.view, t.found)
    BY <1>1, IdsAreNew
  <2>. QED BY <2>1 DEF Commit, NewFindings, RowOf
<1>4. CASE i \in Changed(t.view, t.found)
  <2>1. rows = old \cup {RowOf(p, i)}
    BY <1>3, <1>4 DEF RowOf
  <2>2. \A f \in old : f.produced \in Nat /\ f.produced < RowOf(p, i).produced
    BY <1>1 DEF Older, RowOf, TypeInv, TypeOK, FindingRow
  <2>3. Newest(rows) = RowOf(p, i)
    <3>1. RowOf(p, i).produced \in Nat /\ RowOf(p, i).hash \in Nat
      BY <1>2 DEF RowOf
    <3>. HIDE DEF rows, old
    <3>. QED BY <2>1, <2>2, <3>1, NewestIsNew
  <2>4. SameValue(t.found[i].value, t.found[i].value)
    BY <1>2, RunAssumption DEF SameValue
  <2>. QED BY <2>1, <2>3, <2>4 DEF RowOf
<1>5. CASE i \notin Changed(t.view, t.found)
  <2>1. i \in DOMAIN t.view /\ ~Material(t.view[i], t.found[i])
    BY <1>5 DEF Changed
  <2>2. rows = old
    BY <1>3, <1>5 DEF RowOf
  <2>3. old # {} /\ View[i] = Newest(old)
    BY <1>1, <2>1, ViewShows
  <2>. QED BY <1>1, <2>1, <2>2, <2>3 DEF Material
<1>. QED BY <1>4, <1>5

(* A commit that found something: the view is what it found. *)
LEMMA CommitView ==
  ASSUME TypeInv, AtomicInv, OneRunPerInput, OrderInv, ViewInv,
         NEW p \in Procs, Commit(p), DOMAIN txn[p].found # {}
  PROVE  /\ DOMAIN View' = DOMAIN txn[p].found
         /\ \A i \in DOMAIN txn[p].found :
              /\ View'[i].sev = txn[p].found[i].sev
              /\ SameValue(View'[i].value, txn[p].found[i].value)
<1>1. ListedIdentities' = DOMAIN txn[p].found
  <2>1. LatestRun' = RunRow(p) /\ runs' # {} /\ RunRow(p).observed = DOMAIN txn[p].found
    BY CommitIsLatest DEF RunRow
  <2>. QED BY <2>1 DEF ListedIdentities
<1>2. View' = [i \in {j \in ListedIdentities' : {f \in findings' : f.identity = j} # {}} |->
                 Newest({f \in findings' : f.identity = i})]
  BY DEF View
<1>. QED BY <1>1, <1>2, CommitNewest

(* The view is that of the latest run after every commit. *)
LEMMA CommitShowsRun ==
  ASSUME TypeInv, AtomicInv, OneRunPerInput, OrderInv, ViewInv, OneProcess,
         NEW p \in Procs, Commit(p)
  PROVE  ViewInv'
<1>1. LatestRun' = RunRow(p)
  BY CommitIsLatest
<1>2. /\ RunRow(p).observed = DOMAIN txn[p].found /\ RunRow(p).hash = txn[p].hash
      /\ UNCHANGED readings /\ pc[p] = "locked" /\ pc'[p] = "committed"
  BY DEF RunRow, Commit, Goto, TypeInv, TypeOK
<1>3. \A i \in DOMAIN txn[p].found : txn[p].found[i] = readings[txn[p].hash][i]
  BY <1>2 DEF AtomicInv, SeenBy
<1>4. ViewIsLatestRun'
  <2>1. SUFFICES ASSUME DOMAIN txn[p].found # {} PROVE ViewIsLatestRun'
    BY <1>1, <1>2 DEF ViewIsLatestRun
  <2>2. /\ DOMAIN View' = DOMAIN txn[p].found
        /\ \A i \in DOMAIN txn[p].found :
             /\ View'[i].sev = txn[p].found[i].sev
             /\ SameValue(View'[i].value, txn[p].found[i].value)
    BY <2>1, CommitView
  <2>. QED BY <1>1, <1>2, <1>3, <2>2 DEF ViewIsLatestRun, SameValue
<1>5. \A q \in Procs : ReadsCurrent(q)'
  BY <1>2 DEF OneProcess, ReadsCurrent
<1>. QED BY <1>4, <1>5 DEF ViewInv

(* A step that stores nothing leaves what is read from the tables alone. *)
LEMMA SameTables ==
  ASSUME UNCHANGED <<runs, findings, alerts>>
  PROVE  LatestRun' = LatestRun /\ View' = View /\ LatestAlert' = LatestAlert
<1>1. LatestRun' = LatestRun
  BY DEF LatestRun
<1>2. ListedIdentities' = ListedIdentities
  BY <1>1 DEF ListedIdentities
<1>3. View' = View
  BY <1>2 DEF View
<1>4. LatestAlert' = LatestAlert
  BY DEF LatestAlert
<1>. QED BY <1>1, <1>3, <1>4

(* What was read of a stored batch is read again after more have come. *)
LEMMA ViewKept ==
  ASSUME TypeInv, OrderInv, ViewIsLatestRun, UNCHANGED <<runs, findings, alerts>>,
         \A n \in 1..Len(readings) : readings'[n] = readings[n]
  PROVE  ViewIsLatestRun'
<1>1. SUFFICES ASSUME runs # {} PROVE ViewIsLatestRun'
  BY DEF ViewIsLatestRun
<1>2. LatestRun' = LatestRun /\ View' = View
  BY SameTables
<1>3. readings'[LatestRun.hash] = readings[LatestRun.hash]
  BY <1>1, LatestIsRun DEF TypeInv, InRange
<1>. QED BY <1>1, <1>2, <1>3 DEF ViewIsLatestRun, SameValue

(* A step of the one process that stores nothing. *)
LEMMA ViewLocal ==
  ASSUME TypeInv, OrderInv, ViewInv, OneProcess, NEW p \in Procs,
         UNCHANGED <<readings, runs, findings, alerts>>, ReadsCurrent(p)'
  PROVE  ViewInv'
<1>1. ViewIsLatestRun'
  BY ViewKept DEF ViewInv
<1>. QED BY <1>1 DEF ViewInv, OneProcess

(* ViewInv is inductive for one process: one case per action. *)
LEMMA ViewStep ==
  /\ OneProcess /\ TypeInv /\ AtomicInv /\ OneRunPerInput /\ OrderInv
  /\ ViewInv /\ [Next]_vars
  => ViewInv'
<1>. SUFFICES ASSUME OneProcess, TypeInv, AtomicInv, OneRunPerInput, OrderInv,
                     ViewInv, [Next]_vars
              PROVE  ViewInv'
  OBVIOUS
<1>1. CASE Environment \/ UNCHANGED vars
  <2>1. /\ UNCHANGED <<runs, findings, alerts, pc, txn>>
        /\ \A n \in 1..Len(readings) : readings'[n] = readings[n]
    BY <1>1 DEF Environment, Wait, NewReadings, vars, tables, TypeInv, TypeOK
  <2>2. ViewIsLatestRun'
    BY <2>1, ViewKept DEF ViewInv
  <2>3. View' = View /\ LatestAlert' = LatestAlert
    BY <2>1, SameTables
  <2>. QED BY <2>1, <2>2, <2>3 DEF ViewInv, ReadsCurrent, Critical
<1>2. ASSUME NEW p \in Procs,
             Load(p) \/ Compute(p) \/ Start(p) \/ Claim(p) \/ Replay(p) \/ Learn(p)
      PROVE  ViewInv'
  <2>1. UNCHANGED <<readings, runs, findings, alerts>>
    BY <1>2 DEF Load, Compute, Start, Claim, Replay, Learn, tables
  <2>2. pc'[p] \notin {"viewed", "decided", "locked"}
    BY <1>2 DEF Load, Compute, Start, Claim, Replay, Learn, Goto, TypeInv, TypeOK
  <2>. QED BY <2>1, <2>2, ViewLocal DEF ReadsCurrent
<1>3. ASSUME NEW p \in Procs, Abort(p) \/ Return(p) PROVE ViewInv'
  <2>1. UNCHANGED <<readings, runs, findings, alerts>>
    BY <1>3 DEF Abort, Fail, Return, Leave
  <2>2. pc'[p] = "idle"
    BY <1>3 DEF Abort, Fail, Return, Leave, Goto, TypeInv, TypeOK
  <2>. QED BY <2>1, <2>2, ViewLocal DEF ReadsCurrent
<1>4. ASSUME NEW p \in Procs, ReadView(p) PROVE ViewInv'
  <2>1. UNCHANGED <<readings, runs, findings, alerts>> /\ View' = View
    BY <1>4, SameTables DEF ReadView, tables
  <2>2. pc'[p] = "viewed" /\ txn'[p].view = View
    BY <1>4 DEF ReadView, Goto, TypeInv, TypeOK, TxnOK, TxnFields
  <2>. QED BY <2>1, <2>2, ViewLocal DEF ReadsCurrent
<1>5. ASSUME NEW p \in Procs, DecideAlerts(p) PROVE ViewInv'
  <2>1. /\ UNCHANGED <<readings, runs, findings, alerts>>
        /\ View' = View /\ LatestAlert' = LatestAlert
    BY <1>5, SameTables DEF DecideAlerts, tables
  <2>2. /\ pc[p] = "viewed" /\ txn[p].view = View /\ pc'[p] = "decided"
    BY <1>5 DEF DecideAlerts, Goto, TypeInv, TypeOK, ViewInv, ReadsCurrent
  <2>3. /\ txn'[p].view = txn[p].view /\ txn'[p].found = txn[p].found
        /\ txn'[p].started = txn[p].started
        /\ txn'[p].fresh = Decide(Critical(txn[p].view), Critical(txn[p].found),
                                  LatestAlert, txn[p].started)
    BY <1>5 DEF DecideAlerts, TypeInv, TypeOK, TxnOK, TxnFields
  <2>4. ReadsCurrent(p)'
    BY <2>1, <2>2, <2>3 DEF ReadsCurrent, Critical
  <2>. QED BY <2>1, <2>4, ViewLocal
<1>6. ASSUME NEW p \in Procs, SaveArtifact(p) \/ LockAsset(p) PROVE ViewInv'
  <2>1. /\ UNCHANGED <<readings, runs, findings, alerts>>
        /\ View' = View /\ LatestAlert' = LatestAlert
    BY <1>6, SameTables DEF SaveArtifact, LockAsset, tables
  <2>2. /\ pc[p] = "decided"
        /\ txn'[p].view = txn[p].view /\ txn'[p].found = txn[p].found
        /\ txn'[p].started = txn[p].started /\ txn'[p].fresh = txn[p].fresh
    BY <1>6 DEF SaveArtifact, LockAsset, Goto, TypeInv, TypeOK, TxnOK, TxnFields
  <2>3. ReadsCurrent(p)'
    BY <2>1, <2>2 DEF ViewInv, ReadsCurrent, Critical
  <2>. QED BY <2>1, <2>3, ViewLocal
<1>. QED BY <1>1, <1>2, <1>3, <1>4, <1>5, <1>6, CommitShowsRun DEF Next, RunStep

(* What holds of one process, in one formula. *)
SequentialInv == TypeInv /\ AtomicInv /\ OneRunPerInput /\ OrderInv /\ ViewInv

(* The database is empty at first. *)
LEMMA SequentialInit == Init => SequentialInv
<1>. SUFFICES ASSUME Init PROVE SequentialInv
  OBVIOUS
<1>1. AtomicInv /\ OneRunPerInput
  BY DEF Init, AtomicInv, AllOrNothing, SeenBy, JustifiedBy, OneRunPerInput, Open, OpenPcs
<1>2. OrderInv
  BY DEF Init, OrderInv, Older, InOrder, OpenPcs
<1>3. ViewInv
  BY DEF Init, ViewInv, ViewIsLatestRun, ReadsCurrent
<1>. QED BY <1>1, <1>2, <1>3, TypeInit DEF SequentialInv

(* SequentialInv is inductive for one process. *)
LEMMA SequentialStep == OneProcess /\ SequentialInv /\ [Next]_vars => SequentialInv'
BY TypeStep, AtomicStep, OneRunStep, OrderStep, ViewStep DEF SequentialInv, TypeInv

(* When the runs of a unit do not overlap, the current view is what the    *)
(* latest run observed, whatever fails and however often unchanged         *)
(* findings are left out (PostgresFindingRepository.current).              *)
THEOREM ViewFollowsRuns == ASSUME OneProcess PROVE Spec => []ViewIsLatestRun
<1>1. SequentialInv /\ [Next]_vars => SequentialInv'
  BY SequentialStep
<1>2. SequentialInv => ViewIsLatestRun
  BY DEF SequentialInv, ViewInv
<1>. QED BY <1>1, <1>2, SequentialInit, PTL DEF Spec

-----------------------------------------------------------------------------
(***************************************************************************)
(* Every run finds something.                                              *)
(***************************************************************************)

(* A step of p that stores no run. *)
LEMMA FoundLocal ==
  ASSUME TypeInv, FoundInv, OneProcess, NEW p \in Procs, UNCHANGED runs,
         pc'[p] \in {"learned", "viewed", "decided", "locked"} => DOMAIN txn'[p].found # {}
  PROVE  FoundInv'
BY DEF FoundInv, OneProcess

(* FoundInv is inductive when every frame shows a finding of Phase A. *)
LEMMA FoundStep ==
  OneProcess /\ AlwaysFinds /\ TypeInv /\ FoundInv /\ [Next]_vars => FoundInv'
<1>. SUFFICES ASSUME OneProcess, AlwaysFinds, TypeInv, FoundInv, [Next]_vars
              PROVE  FoundInv'
  OBVIOUS
<1>1. CASE Environment \/ UNCHANGED vars
  BY <1>1 DEF Environment, Wait, NewReadings, vars, tables, FoundInv
<1>2. ASSUME NEW p \in Procs,
             Load(p) \/ Compute(p) \/ Start(p) \/ Claim(p) \/ Replay(p)
      PROVE  FoundInv'
  <2>1. UNCHANGED runs
    BY <1>2 DEF Load, Compute, Start, Claim, Replay, tables
  <2>2. pc'[p] \notin {"learned", "viewed", "decided", "locked"}
    BY <1>2 DEF Load, Compute, Start, Claim, Replay, Goto, TypeInv, TypeOK
  <2>. QED BY <2>1, <2>2, FoundLocal
<1>3. ASSUME NEW p \in Procs, Abort(p) \/ Return(p) PROVE FoundInv'
  <2>1. UNCHANGED runs /\ pc'[p] = "idle"
    BY <1>3 DEF Abort, Fail, Return, Leave, Goto, TypeInv, TypeOK
  <2>. QED BY <2>1, FoundLocal
<1>4. ASSUME NEW p \in Procs, Learn(p) PROVE FoundInv'
  <2> DEFINE seen == readings[txn[p].hash]
             derived == Identities \ LearnedIdentities
  <2>1. PICK kept : txn' = [txn EXCEPT ![p].found = Within(seen, derived \cup kept)]
    BY <1>4 DEF Learn
  <2>2. seen \in Observations
    BY <1>4 DEF Learn, Goto, TypeInv, TypeOK, InRange, Working
  <2>3. DOMAIN Within(seen, derived \cup kept) # {}
    BY <2>2, RunAssumption DEF AlwaysFinds, Within
  <2>4. txn'[p].found = Within(seen, derived \cup kept)
    <3>. HIDE DEF seen, derived
    <3>. QED BY <2>1 DEF TypeInv, TypeOK, TxnOK, TxnFields
  <2>. QED BY <1>4, <2>3, <2>4, FoundLocal DEF Learn, tables
<1>5. ASSUME NEW p \in Procs,
             ReadView(p) \/ DecideAlerts(p) \/ SaveArtifact(p) \/ LockAsset(p)
      PROVE  FoundInv'
  <2>1. UNCHANGED runs /\ pc[p] \in {"learned", "viewed", "decided", "locked"}
    BY <1>5 DEF ReadView, DecideAlerts, SaveArtifact, LockAsset, Goto, tables
  <2>2. txn'[p].found = txn[p].found
    BY <1>5 DEF ReadView, DecideAlerts, SaveArtifact, LockAsset, TypeInv, TypeOK, TxnOK, TxnFields
  <2>. QED BY <2>1, <2>2, FoundLocal DEF FoundInv
<1>6. ASSUME NEW p \in Procs, Commit(p) PROVE FoundInv'
  <2>1. RunRow(p).observed # {} /\ runs' = runs \cup {RunRow(p)}
    BY <1>6 DEF FoundInv, Commit, Goto, RunRow
  <2>2. pc'[p] = "committed"
    BY <1>6 DEF Commit, Goto, TypeInv, TypeOK
  <2>. QED BY <2>1, <2>2 DEF FoundInv, OneProcess
<1>. QED BY <1>1, <1>2, <1>3, <1>4, <1>5, <1>6 DEF Next, RunStep

-----------------------------------------------------------------------------
(***************************************************************************)
(* The alarms match the view.                                              *)
(***************************************************************************)

(* Of a condition's alerts, one was created last. *)
LEMMA NewestId ==
  ASSUME TypeInv, OrderInv, NEW ids \in SUBSET (DOMAIN alerts), ids # {}
  PROVE  LET last == CHOOSE id \in ids : \A o \in ids : o[2] <= id[2]
         IN  last \in ids /\ \A o \in ids : o[2] <= last[2]
<1> DEFINE times == {id[2] : id \in ids}
<1>1. PICK m \in times : \A t \in times : t <= m
  <2>1. times \in SUBSET Nat /\ times # {}
    BY DEF TypeInv, TypeOK
  <2>2. clock + 1 \in Nat /\ \A id \in ids : id[2] \in Nat /\ id[2] < clock + 1
    BY DEF OrderInv, Older, TypeInv, TypeOK
  <2>3. \A t \in times : t <= clock + 1
    BY <2>2
  <2>. HIDE DEF times
  <2>. QED BY <2>1, <2>2, <2>3, GreatestNatural
<1>2. PICK id \in ids : id[2] = m
  OBVIOUS
<1>3. \A o \in ids : o[2] <= id[2]
  BY <1>1, <1>2
<1>. QED BY <1>2, <1>3

(* An alert created after all others of a set is the last of them. *)
LEMMA NewIdIsLast ==
  ASSUME NEW ids, NEW new, new[2] \in Nat,
         \A o \in ids : o[2] \in Nat /\ o[2] < new[2]
  PROVE  (CHOOSE id \in ids \cup {new} : \A o \in ids \cup {new} : o[2] <= id[2]) = new
<1>1. \A o \in ids \cup {new} : o[2] <= new[2]
  OBVIOUS
<1>2. \A id \in ids \cup {new} : (\A o \in ids \cup {new} : o[2] <= id[2]) => id = new
  OBVIOUS
<1>. QED BY <1>1, <1>2

(* The newest alert of a condition is one of its rows. *)
LEMMA LatestAlertIsRow ==
  ASSUME TypeInv, OrderInv, NEW i \in Identities
  PROVE  \/ LatestAlert[i] = NoAlert /\ \A id \in DOMAIN alerts : id[1] # i
         \/ \E id \in DOMAIN alerts : id[1] = i /\ LatestAlert[i] = alerts[id]
<1> DEFINE ids == {id \in DOMAIN alerts : id[1] = i}
<1>1. CASE ids = {}
  BY <1>1 DEF LatestAlert
<1>2. CASE ids # {}
  <2> DEFINE last == CHOOSE id \in ids : \A o \in ids : o[2] <= id[2]
  <2>1. last \in ids
    BY <1>2, NewestId
  <2>2. LatestAlert[i] = alerts[last]
    BY <1>2 DEF LatestAlert
  <2>. QED BY <2>1, <2>2
<1>. QED BY <1>1, <1>2

(* The instants of a commit are after all alerts. *)
LEMMA CommitIsAfter ==
  ASSUME TypeInv, OrderInv, NEW p \in Procs, Commit(p)
  PROVE  /\ txn[p].started \in Nat /\ txn[p].started > 0
         /\ \A id \in DOMAIN alerts : id[2] \in Nat /\ id[2] < txn[p].started
<1>1. /\ txn[p].produced \in Nat /\ txn[p].started \in Nat
      /\ txn[p].produced < txn[p].started /\ Older(txn[p].produced)
  BY DEF OrderInv, InOrder, OpenPcs, Commit, Goto, TypeInv, TypeOK, TxnOK
<1>2. \A id \in DOMAIN alerts : id[2] \in Nat
  BY DEF TypeInv, TypeOK
<1>. QED BY <1>1, <1>2 DEF Older

(* The rows of the alert table after a commit. *)
LEMMA CommitRows ==
  ASSUME TypeInv, OrderInv, NEW p \in Procs, Commit(p)
  PROVE  /\ DOMAIN alerts' = DOMAIN alerts \cup AlertIds(p)
         /\ \A id \in DOMAIN alerts : alerts'[id] = alerts[id] /\ id \notin AlertIds(p)
         /\ \A i \in DOMAIN txn[p].fresh :
              /\ <<i, txn[p].started>> \in AlertIds(p)
              /\ alerts'[<<i, txn[p].started>>] = txn[p].fresh[i]
<1>1. /\ DOMAIN alerts' = DOMAIN alerts \cup AlertIds(p)
      /\ \A id \in DOMAIN alerts' :
           alerts'[id] = IF id \in DOMAIN alerts THEN alerts[id] ELSE txn[p].fresh[id[1]]
  BY DEF Commit
<1>2. \A id \in AlertIds(p) : id[2] = txn[p].started
  BY DEF AlertIds
<1>3. \A id \in DOMAIN alerts : id \notin AlertIds(p)
  BY <1>2, CommitIsAfter
<1>4. \A i \in DOMAIN txn[p].fresh :
        <<i, txn[p].started>> \in AlertIds(p) /\ <<i, txn[p].started>>[1] = i
  BY DEF AlertIds
<1>. QED BY <1>1, <1>3, <1>4

(* The newest alerts after a commit: those it decided, else the old ones. *)
LEMMA CommitAlert ==
  ASSUME TypeInv, OrderInv, NEW p \in Procs, Commit(p), NEW i \in Identities
  PROVE  LatestAlert'[i] = IF i \in DOMAIN txn[p].fresh THEN txn[p].fresh[i]
                                                      ELSE LatestAlert[i]
<1> DEFINE ids == {id \in DOMAIN alerts : id[1] = i}
           new == <<i, txn[p].started>>
           now == {id \in DOMAIN alerts' : id[1] = i}
           last(S) == CHOOSE id \in S : \A o \in S : o[2] <= id[2]
<1>1. LatestAlert'[i] = IF now = {} THEN NoAlert ELSE alerts'[last(now)]
  BY DEF LatestAlert
<1>2. CASE i \in DOMAIN txn[p].fresh
  <2>1. now = ids \cup {new}
    <3>1. \A id \in AlertIds(p) : id[1] = i => id = new
      BY DEF AlertIds
    <3>2. new \in AlertIds(p) /\ new[1] = i
      BY <1>2 DEF AlertIds
    <3>3. DOMAIN alerts' = DOMAIN alerts \cup AlertIds(p)
      BY CommitRows
    <3>. HIDE DEF new
    <3>. QED BY <3>1, <3>2, <3>3
  <2>2. last(now) = new
    <3>1. new[2] \in Nat /\ \A o \in ids : o[2] \in Nat /\ o[2] < new[2]
      BY CommitIsAfter
    <3>. HIDE DEF ids, new, now
    <3>. QED BY <2>1, <3>1, NewIdIsLast
  <2>3. alerts'[new] = txn[p].fresh[i]
    BY <1>2, CommitRows
  <2>. HIDE DEF new, last
  <2>. QED BY <1>1, <1>2, <2>1, <2>2, <2>3
<1>3. CASE i \notin DOMAIN txn[p].fresh
  <2>1. now = ids
    <3>1. \A id \in AlertIds(p) : id[1] # i
      BY <1>3 DEF AlertIds
    <3>2. DOMAIN alerts' = DOMAIN alerts \cup AlertIds(p)
      BY CommitRows
    <3>. QED BY <3>1, <3>2
  <2>2. LatestAlert[i] = IF ids = {} THEN NoAlert ELSE alerts[last(ids)]
    BY DEF LatestAlert
  <2>3. ids # {} => last(ids) \in ids
    BY NewestId
  <2>4. ids # {} => alerts'[last(ids)] = alerts[last(ids)]
    BY <2>3, CommitRows
  <2>. HIDE DEF last, ids, now
  <2>. QED BY <1>1, <1>3, <2>1, <2>2, <2>4
<1>. QED BY <1>2, <1>3

(* What the policy does about a condition when an open incident and a      *)
(* condition that was critical are the same thing.                         *)
LEMMA DecideCases ==
  ASSUME NEW was, NEW is, NEW latest, NEW now, NEW i,
         IsOpen(latest[i]) <=> i \in was
  PROVE  LET fresh == Decide(was, is, latest, now)
         IN  IF i \in DOMAIN fresh
             THEN \/ /\ i \in is /\ ~IsOpen(latest[i])
                     /\ fresh[i] = Announce(latest[i], now)
                  \/ /\ i \in is /\ IsOpen(latest[i])
                     /\ now - latest[i].at >= Reminder
                     /\ fresh[i] = MakeAlert("reminder", "pending", now)
                  \/ /\ i \notin is /\ IsOpen(latest[i])
                     /\ fresh[i] = Close(latest[i], now)
             ELSE IsOpen(latest[i]) <=> i \in is
<1> DEFINE fresh == Decide(was, is, latest, now)
<1>1. DOMAIN fresh = Alerted(was, is, latest, now)
  BY DEF Decide
<1>2. latest[i] = NoAlert => ~IsOpen(latest[i])
  BY DEF IsOpen, NoAlert
<1>3. MustTrigger(i, was, latest[i]) <=> ~IsOpen(latest[i])
  BY <1>2 DEF MustTrigger
<1>4. CASE i \in DOMAIN fresh
  <2>1. CASE i \notin is
    <3>1. IsOpen(latest[i])
      BY <1>1, <1>4, <2>1 DEF Alerted, MustResolve
    <3>2. fresh[i] = Close(latest[i], now)
      BY <1>4, <2>1 DEF Decide
    <3>. QED BY <1>4, <2>1, <3>1, <3>2
  <2>2. CASE i \in is /\ ~IsOpen(latest[i])
    <3>1. fresh[i] = Announce(latest[i], now)
      BY <1>3, <1>4, <2>2 DEF Decide
    <3>. QED BY <1>4, <2>2, <3>1
  <2>3. CASE i \in is /\ IsOpen(latest[i])
    <3>1. MustRemind(i, was, latest[i], now)
      BY <1>1, <1>3, <1>4, <2>3 DEF Alerted, MustResolve
    <3>2. fresh[i] = MakeAlert("reminder", "pending", now)
      BY <1>3, <1>4, <2>3 DEF Decide
    <3>. QED BY <1>4, <2>3, <3>1, <3>2 DEF MustRemind
  <2>. QED BY <2>1, <2>2, <2>3
<1>5. CASE i \notin DOMAIN fresh
  <2>1. i \in is => IsOpen(latest[i])
    BY <1>1, <1>3, <1>5 DEF Alerted
  <2>2. i \notin is => ~IsOpen(latest[i])
    BY <1>1, <1>5 DEF Alerted, MustResolve
  <2>. QED BY <1>5, <2>1, <2>2
<1>. QED BY <1>4, <1>5

(* A commit makes critical in the view what the run found critical. *)
LEMMA CommitCritical ==
  ASSUME SequentialInv, FoundInv, NEW p \in Procs, Commit(p)
  PROVE  Critical(View)' = Critical(txn[p].found)
<1>1. DOMAIN txn[p].found # {}
  BY DEF FoundInv, Commit, Goto
<1>2. /\ DOMAIN View' = DOMAIN txn[p].found
      /\ \A i \in DOMAIN txn[p].found : View'[i].sev = txn[p].found[i].sev
  BY <1>1, CommitView DEF SequentialInv
<1>. QED BY <1>2 DEF Critical

(* What the run decided, in terms of the incidents as they are. *)
LEMMA CommitDecides ==
  ASSUME SequentialInv, FoundInv, AlarmsMatchView, NEW p \in Procs, Commit(p),
         NEW i \in Identities
  PROVE  LET fresh == txn[p].fresh
             last  == LatestAlert[i]
             now   == txn[p].started
         IN  IF i \in DOMAIN fresh
             THEN \/ /\ i \in Critical(txn[p].found) /\ ~IsOpen(last)
                     /\ fresh[i] = Announce(last, now)
                  \/ /\ i \in Critical(txn[p].found) /\ IsOpen(last)
                     /\ now - last.at >= Reminder
                     /\ fresh[i] = MakeAlert("reminder", "pending", now)
                  \/ /\ i \notin Critical(txn[p].found) /\ IsOpen(last)
                     /\ fresh[i] = Close(last, now)
             ELSE IsOpen(last) <=> i \in Critical(txn[p].found)
<1>1. /\ txn[p].view = View
      /\ txn[p].fresh = Decide(Critical(txn[p].view), Critical(txn[p].found),
                               LatestAlert, txn[p].started)
  BY DEF SequentialInv, ViewInv, ReadsCurrent, Commit, Goto
<1>2. IsOpen(LatestAlert[i]) <=> i \in Critical(txn[p].view)
  BY <1>1 DEF AlarmsMatchView
<1>. QED BY <1>1, <1>2, DecideCases

(* The alarms match the view after every commit. *)
LEMMA CommitMatches ==
  ASSUME SequentialInv, FoundInv, AlarmsMatchView, NEW p \in Procs, Commit(p)
  PROVE  AlarmsMatchView'
<1>1. SUFFICES ASSUME NEW i \in Identities
               PROVE  IsOpen(LatestAlert'[i]) <=> i \in Critical(txn[p].found)
  BY CommitCritical DEF AlarmsMatchView, IsOpen
<1>2. CASE i \in DOMAIN txn[p].fresh
  <2>1. LatestAlert'[i] = txn[p].fresh[i]
    BY <1>2, CommitAlert DEF SequentialInv
  <2>2. /\ \A last, now : IsOpen(Announce(last, now)) /\ ~IsOpen(Close(last, now))
        /\ \A now : IsOpen(MakeAlert("reminder", "pending", now))
    BY DEF Announce, Close, MakeAlert, IsOpen
  <2>3. \/ /\ i \in Critical(txn[p].found)
           /\ txn[p].fresh[i] = Announce(LatestAlert[i], txn[p].started)
        \/ /\ i \in Critical(txn[p].found)
           /\ txn[p].fresh[i] = MakeAlert("reminder", "pending", txn[p].started)
        \/ /\ i \notin Critical(txn[p].found)
           /\ txn[p].fresh[i] = Close(LatestAlert[i], txn[p].started)
    BY <1>2, CommitDecides
  <2>. QED BY <2>1, <2>2, <2>3
<1>3. CASE i \notin DOMAIN txn[p].fresh
  <2>1. LatestAlert'[i] = LatestAlert[i]
    BY <1>3, CommitAlert DEF SequentialInv
  <2>. QED BY <1>3, <2>1, CommitDecides
<1>. QED BY <1>2, <1>3

(* A step that is not a commit stores nothing. *)
LEMMA OnlyCommitStores ==
  ASSUME [Next]_vars, ~\E p \in Procs : Commit(p)
  PROVE  UNCHANGED <<runs, findings, alerts>>
<1>1. CASE Environment \/ UNCHANGED vars
  BY <1>1 DEF Environment, Wait, NewReadings, vars, tables
<1>2. ASSUME NEW p \in Procs, Load(p) \/ RunStep(p) \/ Abort(p) \/ Return(p)
      PROVE  UNCHANGED <<runs, findings, alerts>>
  BY <1>2 DEF RunStep, Load, Compute, Start, Claim, Replay, Learn, ReadView, DecideAlerts,
              SaveArtifact, LockAsset, Abort, Fail, Return, Leave, tables
<1>. QED BY <1>1, <1>2 DEF Next

(* The alarms keep matching the view. *)
LEMMA MatchStep ==
  SequentialInv /\ FoundInv /\ AlarmsMatchView /\ [Next]_vars => AlarmsMatchView'
<1>. SUFFICES ASSUME SequentialInv, FoundInv, AlarmsMatchView, [Next]_vars
              PROVE  AlarmsMatchView'
  OBVIOUS
<1>1. CASE \E p \in Procs : Commit(p)
  BY <1>1, CommitMatches
<1>2. CASE ~\E p \in Procs : Commit(p)
  <2>1. View' = View /\ LatestAlert' = LatestAlert
    BY <1>2, OnlyCommitStores, SameTables
  <2>. QED BY <2>1 DEF AlarmsMatchView, Critical
<1>. QED BY <1>1, <1>2

(* At first there is no run, no view and no alarm. *)
LEMMA MatchInit == Init => FoundInv /\ AlarmsMatchView
<1>. SUFFICES ASSUME Init PROVE FoundInv /\ AlarmsMatchView
  OBVIOUS
<1>1. FoundInv
  BY DEF Init, FoundInv
<1>2. DOMAIN View = {}
  BY DEF Init, View
<1>3. \A i \in Identities : LatestAlert[i] = NoAlert
  BY DEF Init, LatestAlert
<1>4. Critical(View) = {} /\ ~IsOpen(NoAlert)
  BY <1>2 DEF Critical, IsOpen, NoAlert
<1>5. AlarmsMatchView
  BY <1>3, <1>4 DEF AlarmsMatchView
<1>. QED BY <1>1, <1>5

(* Detection and notification do not diverge: when the runs of a unit do   *)
(* not overlap and every frame shows something, a condition has an open    *)
(* alert exactly while the view shows it critical (alerting/__init__.py).  *)
THEOREM AlarmsFollowView ==
  ASSUME OneProcess, AlwaysFinds PROVE Spec => []AlarmsMatchView
<1>1. SequentialInv /\ [Next]_vars => SequentialInv'
  BY SequentialStep
<1>2. SequentialInv /\ FoundInv /\ [Next]_vars => FoundInv'
  BY FoundStep DEF SequentialInv
<1>. QED BY <1>1, <1>2, SequentialInit, MatchInit, MatchStep, PTL DEF Spec

-----------------------------------------------------------------------------
(***************************************************************************)
(* The alert table keeps the promise of Incident.                          *)
(***************************************************************************)

(* The abstract state of an incident, from its newest alert and the last   *)
(* word that is meant to be heard: the refinement mapping of Promise.      *)
Mapped(last, word) == [state |-> IncidentState(last), word |-> word, at |-> last.at]

(* Every alert the policy decides on is a move of the incident, and leaves *)
(* word and incident consistent.                                           *)
LEMMA PolicyMoves ==
  ASSUME NEW last, last = NoAlert \/ last \in AlertRow, NEW word, Consistent(last, word),
         NEW now \in Nat, last.at < now, NEW new,
         \/ ~IsOpen(last) /\ new = Announce(last, now)
         \/ /\ IsOpen(last) /\ now - last.at >= Reminder
            /\ new = MakeAlert("reminder", "pending", now)
         \/ IsOpen(last) /\ new = Close(last, now),
         NEW next, next = IF new.status # "suppressed" THEN new.kind ELSE word
  PROVE  Promise!Move(Mapped(last, word), Mapped(new, next)) /\ Consistent(new, next)
<1> DEFINE c == Mapped(last, word)
           d == Mapped(new, next)
<1>1. /\ IsOpen(last) => c.state = "open" /\ last.kind \in {"triggered", "reminder"}
      /\ ~IsOpen(last) => c.state # "open" /\ (c.state = "closed" <=> last.kind = "resolved")
  BY DEF IsOpen, IncidentState, Mapped, NoAlert, AlertRow, Kinds
<1>2. /\ c.word = word /\ c.at = last.at /\ d.word = next /\ d.at = new.at
      /\ c.at \in Nat
  BY DEF Mapped, NoAlert, AlertRow
<1>3. \A kind \in Kinds, status \in Statuses :
        /\ MakeAlert(kind, status, now) # NoAlert
        /\ MakeAlert(kind, status, now).kind = kind
        /\ MakeAlert(kind, status, now).status = status
        /\ MakeAlert(kind, status, now).at = now
  BY DEF MakeAlert, NoAlert, Kinds
<1>4. CASE ~IsOpen(last) /\ new = Announce(last, now)
  <2> DEFINE status == IF Flapping(last, now) THEN "suppressed" ELSE "pending"
  <2>1. new # NoAlert /\ new.kind = "triggered" /\ new.status = status /\ new.at = now
    BY <1>3, <1>4 DEF Announce, Kinds, Statuses
  <2>2. IsOpen(new) /\ d.state = "open"
    BY <2>1 DEF IsOpen, IncidentState, Mapped
  <2>3. d.word = IF c.state = "closed" /\ d.at - c.at < Cooldown THEN c.word ELSE "triggered"
    BY <1>1, <1>2, <1>4, <2>1 DEF Flapping
  <2>4. Promise!Move(c, d)
    <3>. HIDE DEF c, d
    <3>. QED BY <1>1, <1>2, <1>4, <2>1, <2>2, <2>3 DEF Promise!Move, Promise!Trigger
  <2>5. Consistent(new, next)
    BY <1>4, <2>1, <2>2 DEF Consistent
  <2>. QED BY <2>4, <2>5
<1>5. CASE /\ IsOpen(last) /\ now - last.at >= Reminder
           /\ new = MakeAlert("reminder", "pending", now)
  <2>1. new # NoAlert /\ new.kind = "reminder" /\ new.status = "pending" /\ new.at = now
    BY <1>3, <1>5 DEF Kinds, Statuses
  <2>2. IsOpen(new) /\ d.state = "open"
    BY <2>1 DEF IsOpen, IncidentState, Mapped
  <2>3. Promise!Move(c, d)
    <3>. HIDE DEF c, d
    <3>. QED BY <1>1, <1>2, <1>5, <2>1, <2>2 DEF Promise!Move, Promise!Remind
  <2>4. Consistent(new, next)
    BY <2>1, <2>2 DEF Consistent
  <2>. QED BY <2>3, <2>4
<1>6. CASE IsOpen(last) /\ new = Close(last, now)
  <2> DEFINE status == IF last.status = "suppressed" THEN "suppressed" ELSE "pending"
  <2>1. new # NoAlert /\ new.kind = "resolved" /\ new.status = status /\ new.at = now
    BY <1>3, <1>6 DEF Close, Kinds, Statuses
  <2>2. ~IsOpen(new) /\ d.state = "closed"
    BY <2>1 DEF IsOpen, IncidentState, Mapped
  <2>3. Promise!Worried(c) <=> last.status # "suppressed"
    BY <1>1, <1>2, <1>6 DEF Consistent, Promise!Worried
  <2>4. d.word = IF Promise!Worried(c) THEN "resolved" ELSE c.word
    BY <1>2, <2>1, <2>3
  <2>5. Promise!Move(c, d)
    <3>. HIDE DEF c, d
    <3>. QED BY <1>1, <1>2, <1>6, <2>1, <2>2, <2>4 DEF Promise!Move, Promise!Resolve
  <2>6. Consistent(new, next)
    BY <1>6, <2>1, <2>2 DEF Consistent
  <2>. QED BY <2>5, <2>6
<1>. QED BY <1>4, <1>5, <1>6

(* What the inbox last heard, after a commit. *)
LEMMA CommitWord ==
  ASSUME TypeInv, OrderInv, NEW p \in Procs, Commit(p), NEW i \in Identities
  PROVE  LastWord(i)' = IF i \in DOMAIN txn[p].fresh /\ txn[p].fresh[i].status # "suppressed"
                        THEN txn[p].fresh[i].kind ELSE LastWord(i)
<1> DEFINE ids == Audible(i)
           new == <<i, txn[p].started>>
           now == {id \in DOMAIN alerts' : id[1] = i /\ alerts'[id].status # "suppressed"}
           last(S) == CHOOSE id \in S : \A o \in S : o[2] <= id[2]
<1>1. LastWord(i)' = IF now = {} THEN "none" ELSE alerts'[last(now)].kind
  BY DEF LastWord, Audible
<1>2. LastWord(i) = IF ids = {} THEN "none" ELSE alerts[last(ids)].kind
  BY DEF LastWord
<1>3. ids \subseteq DOMAIN alerts
  BY DEF Audible
<1>4. ids = {id \in DOMAIN alerts : id[1] = i /\ alerts'[id].status # "suppressed"}
  BY CommitRows DEF Audible
<1>5. CASE i \in DOMAIN txn[p].fresh /\ txn[p].fresh[i].status # "suppressed"
  <2>1. now = ids \cup {new}
    <3>1. \A id \in AlertIds(p) : id[1] = i => id = new
      BY DEF AlertIds
    <3>2. new \in AlertIds(p) /\ new[1] = i /\ alerts'[new] = txn[p].fresh[i]
      BY <1>5, CommitRows
    <3>3. DOMAIN alerts' = DOMAIN alerts \cup AlertIds(p)
      BY CommitRows
    <3>. HIDE DEF new, ids
    <3>. QED BY <1>4, <1>5, <3>1, <3>2, <3>3
  <2>2. last(now) = new
    <3>1. new[2] \in Nat /\ \A o \in ids : o[2] \in Nat /\ o[2] < new[2]
      BY <1>3, CommitIsAfter
    <3>. HIDE DEF ids, new, now
    <3>. QED BY <2>1, <3>1, NewIdIsLast
  <2>3. alerts'[new] = txn[p].fresh[i]
    BY <1>5, CommitRows
  <2>. HIDE DEF new, last, now, ids
  <2>. QED BY <1>1, <1>5, <2>1, <2>2, <2>3
<1>6. CASE ~(i \in DOMAIN txn[p].fresh /\ txn[p].fresh[i].status # "suppressed")
  <2>1. now = ids
    <3>1. ASSUME NEW id \in AlertIds(p), id[1] = i
          PROVE  alerts'[id].status = "suppressed"
      <4>1. id = new /\ i \in DOMAIN txn[p].fresh
        BY <3>1 DEF AlertIds
      <4>. QED BY <1>6, <4>1, CommitRows
    <3>2. DOMAIN alerts' = DOMAIN alerts \cup AlertIds(p)
      BY CommitRows
    <3>. HIDE DEF new, ids
    <3>. QED BY <1>4, <3>1, <3>2
  <2>2. ids # {} => last(ids) \in ids
    BY <1>3, NewestId
  <2>3. ids # {} => alerts'[last(ids)] = alerts[last(ids)]
    BY <1>3, <2>2, CommitRows
  <2>. HIDE DEF last, ids, now
  <2>. QED BY <1>1, <1>2, <1>6, <2>1, <2>3
<1>. QED BY <1>5, <1>6

(* A commit moves the incidents it has alerts on, and only those, all at   *)
(* the time of the run.                                                    *)
LEMMA CommitMoves ==
  ASSUME SequentialInv, FoundInv, AlarmsMatchView, IncidentInv,
         NEW p \in Procs, Commit(p), NEW i \in Identities
  PROVE  /\ Consistent(LatestAlert[i], LastWord(i))'
         /\ IF i \in DOMAIN txn[p].fresh
            THEN /\ Promise!Move(Mapped(LatestAlert[i], LastWord(i)),
                                 Mapped(LatestAlert[i], LastWord(i))')
                 /\ Mapped(LatestAlert[i], LastWord(i))'.at = txn[p].started
            ELSE Mapped(LatestAlert[i], LastWord(i))' = Mapped(LatestAlert[i], LastWord(i))
<1> DEFINE last == LatestAlert[i]
           word == LastWord(i)
           now  == txn[p].started
           new  == txn[p].fresh[i]
<1>1. /\ now \in Nat /\ now > 0
      /\ \A id \in DOMAIN alerts : id[2] \in Nat /\ id[2] < now
  BY CommitIsAfter DEF SequentialInv
<1>2. (last = NoAlert \/ last \in AlertRow) /\ last.at < now
  <2>1. CASE last = NoAlert
    BY <1>1, <2>1 DEF NoAlert
  <2>2. CASE last # NoAlert
    <3>1. PICK id \in DOMAIN alerts : last = alerts[id]
      BY <2>2, LatestAlertIsRow DEF SequentialInv
    <3>2. alerts[id] \in AlertRow /\ alerts[id].at = id[2]
      BY DEF SequentialInv, TypeInv, TypeOK, IncidentInv
    <3>. QED BY <1>1, <3>1, <3>2
  <2>. QED BY <2>1, <2>2
<1>3. Consistent(last, word)
  BY DEF IncidentInv
<1>4. /\ LatestAlert'[i] = IF i \in DOMAIN txn[p].fresh THEN new ELSE last
      /\ LastWord(i)' = IF i \in DOMAIN txn[p].fresh /\ new.status # "suppressed"
                        THEN new.kind ELSE word
  BY CommitAlert, CommitWord DEF SequentialInv
<1>5. CASE i \in DOMAIN txn[p].fresh
  <2>1. \/ ~IsOpen(last) /\ new = Announce(last, now)
        \/ /\ IsOpen(last) /\ now - last.at >= Reminder
           /\ new = MakeAlert("reminder", "pending", now)
        \/ IsOpen(last) /\ new = Close(last, now)
    BY <1>5, CommitDecides
  <2>2. new.at = now
    BY <2>1 DEF Announce, Close, MakeAlert
  <2> DEFINE next == IF new.status # "suppressed" THEN new.kind ELSE word
  <2>3. Promise!Move(Mapped(last, word), Mapped(new, next)) /\ Consistent(new, next)
    <3>. HIDE DEF last, word, now, new
    <3>. QED BY <1>1, <1>2, <1>3, <2>1, PolicyMoves
  <2>4. LatestAlert'[i] = new /\ LastWord(i)' = next
    BY <1>4, <1>5
  <2>5. /\ Consistent(LatestAlert[i], LastWord(i))' <=> Consistent(new, next)
        /\ Mapped(LatestAlert[i], LastWord(i))' = Mapped(new, next)
    <3>. HIDE DEF new, next, word, last
    <3>. QED BY <2>4 DEF Consistent, Mapped, IsOpen, IncidentState
  <2>6. Mapped(new, next).at = now
    BY <2>2 DEF Mapped
  <2>. HIDE DEF new, next, word, last
  <2>. QED BY <1>5, <2>3, <2>5, <2>6 DEF word, last
<1>6. CASE i \notin DOMAIN txn[p].fresh
  <2>1. LatestAlert'[i] = LatestAlert[i] /\ LastWord(i)' = LastWord(i)
    BY <1>4, <1>6
  <2>. QED BY <1>3, <1>6, <2>1 DEF Consistent, Mapped, IsOpen, IncidentState
<1>. QED BY <1>5, <1>6

(* A step that stores nothing leaves every incident as it is. *)
LEMMA SameIncidents ==
  ASSUME UNCHANGED <<runs, findings, alerts>>, NEW i
  PROVE  LatestAlert' = LatestAlert /\ LastWord(i)' = LastWord(i)
<1>1. Audible(i)' = Audible(i)
  BY DEF Audible
<1>. QED BY <1>1, SameTables DEF LastWord

(* IncidentInv is inductive. *)
LEMMA IncidentStep ==
  /\ SequentialInv /\ FoundInv /\ AlarmsMatchView /\ IncidentInv /\ [Next]_vars
  => IncidentInv'
<1>. SUFFICES ASSUME SequentialInv, FoundInv, AlarmsMatchView, IncidentInv, [Next]_vars
              PROVE  IncidentInv'
  OBVIOUS
<1>1. ASSUME NEW p \in Procs, Commit(p) PROVE IncidentInv'
  <2>1. \A i \in Identities : Consistent(LatestAlert[i], LastWord(i))'
    BY <1>1, CommitMoves
  <2>2. ASSUME NEW id \in DOMAIN alerts' PROVE alerts'[id].at = id[2] /\ id[2] > 0
    <3>1. CASE id \in DOMAIN alerts
      BY <1>1, <3>1, CommitRows DEF IncidentInv, SequentialInv
    <3>2. CASE id \notin DOMAIN alerts
      <4>1. /\ id \in AlertIds(p) /\ DOMAIN alerts' \subseteq Identities \X Nat
            /\ \A i \in DOMAIN txn[p].fresh :
                 alerts'[<<i, txn[p].started>>] = txn[p].fresh[i]
        <5>1. TypeInv'
          BY <1>1, CommitType DEF SequentialInv
        <5>. QED BY <1>1, <3>2, <5>1, CommitRows DEF SequentialInv, TypeInv, TypeOK
      <4>2. PICK i \in DOMAIN txn[p].fresh : id = <<i, txn[p].started>>
        BY <4>1 DEF AlertIds
      <4>3. i \in Identities /\ alerts'[id] = txn[p].fresh[i]
        BY <4>1, <4>2
      <4>4. txn[p].fresh[i].at = txn[p].started
        <5>1. LatestAlert'[i] = txn[p].fresh[i]
          BY <1>1, <4>3, CommitAlert DEF SequentialInv
        <5>2. Mapped(LatestAlert[i], LastWord(i))'.at = txn[p].started
          BY <1>1, <4>3, CommitMoves
        <5>. QED BY <5>1, <5>2 DEF Mapped
      <4>5. txn[p].started > 0
        BY <1>1, CommitIsAfter DEF SequentialInv
      <4>. QED BY <4>2, <4>3, <4>4, <4>5
    <3>. QED BY <3>1, <3>2
  <2>. QED BY <2>1, <2>2 DEF IncidentInv
<1>2. CASE ~\E p \in Procs : Commit(p)
  <2>1. UNCHANGED <<runs, findings, alerts>>
    BY <1>2, OnlyCommitStores
  <2>2. \A i : LatestAlert' = LatestAlert /\ LastWord(i)' = LastWord(i)
    BY <2>1, SameIncidents
  <2>. QED BY <2>1, <2>2 DEF IncidentInv, Consistent, IsOpen
<1>. QED BY <1>1, <1>2

(* Every step of the runs is a step of the incidents, or leaves them.      *)
LEMMA PromiseStep ==
  ASSUME SequentialInv, FoundInv, AlarmsMatchView, IncidentInv, [Next]_vars
  PROVE  [Promise!Next]_[i \in Identities |-> Mapped(LatestAlert[i], LastWord(i))]
<1> DEFINE Before == [i \in Identities |-> Mapped(LatestAlert[i], LastWord(i))]
<1>1. ASSUME NEW p \in Procs, Commit(p) PROVE Promise!Next
  <2>1. \A i \in Identities :
          IF i \in DOMAIN txn[p].fresh
          THEN /\ Promise!Move(Before[i], Before'[i])
               /\ Before'[i].at = txn[p].started
          ELSE Before'[i] = Before[i]
    BY <1>1, CommitMoves
  <2>. QED BY <2>1 DEF Promise!Next, Mapped
<1>2. CASE ~\E p \in Procs : Commit(p)
  <2>1. \A i : LatestAlert' = LatestAlert /\ LastWord(i)' = LastWord(i)
    BY <1>2, OnlyCommitStores, SameIncidents
  <2>2. Before' = Before
    BY <2>1 DEF Mapped, IncidentState, IsOpen
  <2>. QED BY <2>2
<1>. QED BY <1>1, <1>2

(* With no alert, every incident is one that never was. *)
LEMMA PromiseInit == Init => IncidentInv /\ Promise!Init
<1>. SUFFICES ASSUME Init PROVE IncidentInv /\ Promise!Init
  OBVIOUS
<1>1. \A i \in Identities : LatestAlert[i] = NoAlert
  BY DEF Init, LatestAlert
<1>2. \A i \in Identities : LastWord(i) = "none"
  BY DEF Init, LastWord, Audible
<1>3. IncidentInv
  BY <1>1, <1>2 DEF Init, IncidentInv, Consistent, IsOpen, NoAlert
<1>4. Promise!Init
  BY <1>1, <1>2 DEF Promise!Init, IncidentState, NoAlert
<1>. QED BY <1>3, <1>4

(* The runs of one process keep the promise of the escalation policy: each *)
(* condition is triggered, reminded and resolved in this order, a flapping *)
(* one quietly, and "resolved" is only for those who were told             *)
(* (alerting/policy.py).  The refinement mapping is Mapped.                *)
THEOREM RunsKeepPromise ==
  ASSUME OneProcess, AlwaysFinds PROVE Spec => KeepsPromise
<1>1. SequentialInv /\ [Next]_vars => SequentialInv'
  BY SequentialStep
<1>2. SequentialInv /\ FoundInv /\ [Next]_vars => FoundInv'
  BY FoundStep DEF SequentialInv
<1>3. /\ SequentialInv /\ FoundInv /\ AlarmsMatchView /\ IncidentInv /\ [Next]_vars
      => [Promise!Next]_[i \in Identities |-> [state |-> IncidentState(LatestAlert[i]),
                                               word  |-> LastWord(i),
                                               at    |-> LatestAlert[i].at]]
  BY PromiseStep DEF Mapped
<1>. QED BY <1>1, <1>2, <1>3, SequentialInit, MatchInit, MatchStep, PromiseInit,
            IncidentStep, PTL DEF Spec, KeepsPromise, Promise!Spec

-----------------------------------------------------------------------------
(***************************************************************************)
(* The artifacts match the view.                                           *)
(***************************************************************************)

(* A step of the one process that neither opens nor ends a transaction.    *)
LEMMA FilesLocal ==
  ASSUME TypeInv, FilesInv, OneProcess, NEW p \in Procs,
         UNCHANGED <<runs, findings, alerts, artifacts, faults>>,
         Open(p)' <=> Open(p), txn'[p].saved = txn[p].saved,
         Open(p) => txn'[p].hash = txn[p].hash,
         pc[p] \in {"decided", "locked"} => pc'[p] \in {"decided", "locked"},
         pc'[p] = "locked" => pc[p] = "locked" \/ txn[p].saved = NumArtifacts
  PROVE  FilesInv'
<1>1. DoneHash' = DoneHash
  BY SameTables DEF DoneHash
<1>2. \A q \in Procs : q = p
  BY DEF OneProcess
<1>. QED BY <1>1, <1>2 DEF FilesInv

(* FilesInv is inductive for one process. *)
LEMMA FilesStep == OneProcess /\ SequentialInv /\ FilesInv /\ [Next]_vars => FilesInv'
<1>. SUFFICES ASSUME OneProcess, SequentialInv, FilesInv, [Next]_vars, faults' = 0
              PROVE  FilesInv'
  BY DEF FilesInv
<1>. USE DEF SequentialInv
<1>1. faults \in Nat
  BY DEF TypeInv, TypeOK
<1>2. \A p, q \in Procs : p = q
  BY DEF OneProcess
<1>3. CASE Environment \/ UNCHANGED vars
  <2>1. UNCHANGED <<runs, findings, alerts, artifacts, faults, pc, txn>>
    BY <1>3 DEF Environment, Wait, NewReadings, vars, tables, budget
  <2>2. DoneHash' = DoneHash
    BY <2>1, SameTables DEF DoneHash
  <2>. QED BY <2>1, <2>2 DEF FilesInv, Open
<1>4. ASSUME NEW p \in Procs, Load(p) \/ Compute(p) \/ Start(p) PROVE FilesInv'
  <2>1. UNCHANGED <<runs, findings, alerts, artifacts, faults>>
    BY <1>4 DEF Load, Compute, Start, tables, budget
  <2>2. /\ pc[p] \in {"idle", "loaded", "computed"}
        /\ pc'[p] \in {"loaded", "computed", "started"}
    BY <1>4 DEF Load, Compute, Start, Goto, TypeInv, TypeOK
  <2>3. txn'[p].saved = txn[p].saved
    BY <1>4 DEF Load, Compute, Start, TypeInv, TypeOK, TxnOK, TxnFields
  <2>. QED BY <2>1, <2>2, <2>3, FilesLocal DEF Open, OpenPcs
<1>5. ASSUME NEW p \in Procs, Replay(p) \/ Return(p) PROVE FilesInv'
  <2>1. UNCHANGED <<runs, findings, alerts, artifacts, faults>>
    BY <1>5 DEF Replay, Return, Leave, tables, budget
  <2>2. pc[p] \in {"started", "committed"} /\ pc'[p] = "idle"
    BY <1>5 DEF Replay, Return, Leave, Goto, TypeInv, TypeOK
  <2>3. txn[p].saved = 0
    BY <1>1, <2>1, <2>2 DEF FilesInv
  <2>4. txn'[p].saved = txn[p].saved
    BY <1>5, <2>3 DEF Replay, Return, Leave, NoTxn, TypeInv, TypeOK
  <2>. QED BY <2>1, <2>2, <2>4, FilesLocal DEF Open, OpenPcs
<1>6. ASSUME NEW p \in Procs,
             Learn(p) \/ ReadView(p) \/ DecideAlerts(p) \/ LockAsset(p)
      PROVE  FilesInv'
  <2>1. UNCHANGED <<runs, findings, alerts, artifacts>>
    BY <1>6 DEF Learn, ReadView, DecideAlerts, LockAsset, tables
  <2>2. faults' = faults
    BY <1>1, <1>6 DEF Learn, ReadView, DecideAlerts, LockAsset, budget
  <2>3. /\ pc[p] \in OpenPcs /\ pc'[p] \in OpenPcs
        /\ pc[p] \in {"decided", "locked"} => pc'[p] \in {"decided", "locked"}
        /\ pc'[p] = "locked" => txn[p].saved = NumArtifacts
    BY <1>6 DEF Learn, ReadView, DecideAlerts, LockAsset, Goto, OpenPcs, TypeInv, TypeOK
  <2>4. txn'[p].saved = txn[p].saved /\ txn'[p].hash = txn[p].hash
    <3>1. CASE Learn(p)
      <4>1. PICK f : txn' = [txn EXCEPT ![p].found = f]
        BY <3>1 DEF Learn
      <4>. QED BY <4>1 DEF TypeInv, TypeOK, TxnOK, TxnFields
    <3>2. CASE ReadView(p) \/ DecideAlerts(p) \/ LockAsset(p)
      BY <3>2 DEF ReadView, DecideAlerts, LockAsset, TypeInv, TypeOK, TxnOK, TxnFields
    <3>. QED BY <1>6, <3>1, <3>2
  <2>. QED BY <2>1, <2>2, <2>3, <2>4, FilesLocal DEF Open
<1>7. ASSUME NEW p \in Procs, Claim(p) PROVE FilesInv'
  <2>1. UNCHANGED <<runs, findings, alerts, artifacts, faults, txn>>
    BY <1>7 DEF Claim, tables, budget
  <2>2. DoneHash' = DoneHash
    BY <2>1, SameTables DEF DoneHash
  <2>3. pc[p] = "started" /\ pc'[p] = "owned"
    BY <1>7 DEF Claim, Goto, TypeInv, TypeOK
  <2>4. txn[p].saved = 0 /\ \A e \in 1..NumArtifacts : artifacts[e] = DoneHash
    BY <1>2, <2>1, <2>3 DEF FilesInv, Open, OpenPcs
  <2>. QED BY <1>2, <2>1, <2>2, <2>3, <2>4 DEF FilesInv, Open, OpenPcs
<1>8. ASSUME NEW p \in Procs, SaveArtifact(p) PROVE FilesInv'
  <2>1. UNCHANGED <<runs, findings, alerts, faults, pc>> /\ pc[p] = "decided"
    BY <1>8 DEF SaveArtifact, tables, budget
  <2>2. DoneHash' = DoneHash
    BY <2>1, SameTables DEF DoneHash
  <2>3. /\ txn[p].saved \in Nat /\ txn[p].saved + 1 \in 1..NumArtifacts
        /\ txn'[p].saved = txn[p].saved + 1 /\ txn'[p].hash = txn[p].hash
        /\ artifacts' = [artifacts EXCEPT ![txn[p].saved + 1] = txn[p].hash]
    <3>1. TxnOK(txn[p]) /\ DOMAIN txn = Procs
      BY DEF TypeInv, TypeOK
    <3>2. txn[p].saved \in Nat /\ txn[p].saved + 1 \in 1..NumArtifacts
      BY <1>8, <3>1, RunAssumption DEF SaveArtifact, TxnOK
    <3>3. txn' = [txn EXCEPT ![p].saved = txn[p].saved + 1]
      BY <1>8 DEF SaveArtifact
    <3>4. txn'[p].saved = txn[p].saved + 1 /\ txn'[p].hash = txn[p].hash
      BY <3>1, <3>3 DEF TxnOK, TxnFields
    <3>. QED BY <1>8, <3>2, <3>4 DEF SaveArtifact
  <2>4. \A e \in 1..NumArtifacts :
          artifacts[e] = IF e <= txn[p].saved THEN txn[p].hash ELSE DoneHash
    BY <1>2, <2>1 DEF FilesInv, Open, OpenPcs
  <2>5. \A e \in 1..NumArtifacts :
          artifacts'[e] = IF e <= txn[p].saved + 1 THEN txn[p].hash ELSE DoneHash
    <3>1. artifacts \in [1..NumArtifacts -> Nat]
      BY DEF TypeInv, TypeOK
    <3>2. \A e \in 1..NumArtifacts :
            artifacts'[e] = IF e = txn[p].saved + 1 THEN txn[p].hash ELSE artifacts[e]
      BY <2>3, <3>1
    <3>3. txn[p].saved \in Nat /\ NumArtifacts \in Nat
      BY RunAssumption DEF TypeInv, TypeOK, TxnOK
    <3>. QED BY <2>4, <3>2, <3>3
  <2>. QED BY <1>2, <2>1, <2>2, <2>3, <2>5 DEF FilesInv, Open, OpenPcs
<1>9. ASSUME NEW p \in Procs, Commit(p) PROVE FilesInv'
  <2>1. /\ UNCHANGED <<artifacts, faults>> /\ pc[p] = "locked" /\ pc'[p] = "committed"
        /\ txn'[p] = NoTxn
    BY <1>9 DEF Commit, Goto, TypeInv, TypeOK, budget
  <2>2. DoneHash' = txn[p].hash
    <3>1. LatestRun' = RunRow(p) /\ runs' # {}
      BY <1>9, CommitIsLatest
    <3>. QED BY <3>1 DEF DoneHash, RunRow
  <2>3. \A e \in 1..NumArtifacts : artifacts[e] = txn[p].hash
    <3>1. txn[p].saved = NumArtifacts
      BY <2>1 DEF FilesInv
    <3>2. \A e \in 1..NumArtifacts :
            artifacts[e] = IF e <= txn[p].saved THEN txn[p].hash ELSE DoneHash
      BY <2>1 DEF FilesInv, Open, OpenPcs
    <3>. QED BY <3>1, <3>2, RunAssumption
  <2>. QED BY <1>2, <2>1, <2>2, <2>3 DEF FilesInv, Open, OpenPcs, NoTxn
<1>10. ASSUME NEW p \in Procs, Abort(p) PROVE FilesInv'
  BY <1>1, <1>10 DEF Abort, Fail
<1>. QED BY <1>3, <1>4, <1>5, <1>6, <1>7, <1>8, <1>9, <1>10 DEF Next, RunStep

(* As long as no run of the unit failed, the files on disk are all those   *)
(* of the latest run between two runs, whatever was replayed               *)
(* (AnalysisUseCase.run, artifacts.save).                                  *)
THEOREM ArtifactsFollowRuns == ASSUME OneProcess PROVE Spec => []ArtifactsMatchView
<1>1. SequentialInv /\ [Next]_vars => SequentialInv'
  BY SequentialStep
<1>2. SequentialInv /\ FilesInv /\ [Next]_vars => FilesInv'
  BY FilesStep
<1>3. Init => FilesInv
  BY DEF Init, FilesInv, DoneHash, Open, OpenPcs, NoTxn
<1>4. FilesInv => ArtifactsMatchView
  BY DEF FilesInv, ArtifactsMatchView, DoneHash
<1>. QED BY <1>1, <1>2, <1>3, <1>4, SequentialInit, PTL DEF Spec
=============================================================================
