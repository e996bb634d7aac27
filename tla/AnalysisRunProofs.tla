-------------------------- MODULE AnalysisRunProofs --------------------------
(***************************************************************************)
(* Proofs about AnalysisRun, for every set of processes and conditions and *)
(* every bound: type correctness, one run per input, all or nothing.       *)
(*                                                                         *)
(* TypeOK is not inductive: the newest finding of a condition is a CHOOSE  *)
(* over recorded times, which needs them bounded; a run's hash must be     *)
(* that of a stored batch for readings[hash] to be an observation; and a   *)
(* replay gives back instants only if it took them.  TypeInv adds these.   *)
(***************************************************************************)
EXTENDS AnalysisRun, WellFoundedInduction, TLAPS

(* The order of the naturals, as a set of pairs. *)
Less == {r \in Nat \X Nat : r[1] < r[2]}

(* A bounded non-empty set of naturals has a greatest element. *)
LEMMA GreatestNatural ==
  ASSUME NEW S \in SUBSET Nat, S # {}, NEW b \in Nat, \A x \in S : x <= b
  PROVE  \E m \in S : \A x \in S : x <= m
<1> DEFINE gaps == {k \in Nat : \E x \in S : x + k = b}
<1>1. gaps # {}
  <2>1. PICK x \in S : TRUE
    OBVIOUS
  <2>2. b - x \in gaps
    BY <2>1
  <2>. QED BY <2>2
<1>2. IsWellFoundedOn(Less, Nat)
  BY NatLessThanWellFounded DEF OpToRel, Less
<1>3. PICK least \in gaps : \A g \in gaps : ~(<<g, least>> \in Less)
  <2> HIDE DEF gaps
  <2>1. gaps \subseteq Nat
    BY DEF gaps
  <2>. QED BY <1>1, <1>2, <2>1, WFMin, Zenon
<1>4. ASSUME NEW g \in gaps PROVE least <= g
  <2>1. g \in Nat /\ least \in Nat
    OBVIOUS
  <2>2. ~(<<g, least>> \in Less)
    BY <1>3
  <2>3. <<g, least>> \in Nat \X Nat
    BY <2>1
  <2>. QED BY <2>1, <2>2, <2>3 DEF Less
<1>5. PICK m \in S : m + least = b
  OBVIOUS
<1>6. ASSUME NEW x \in S PROVE x <= m
  <2>1. b - x \in gaps
    OBVIOUS
  <2>2. least <= b - x
    BY <1>4, <2>1
  <2>3. m \in Nat /\ x \in Nat /\ least \in Nat
    OBVIOUS
  <2>. QED BY <1>5, <2>2, <2>3
<1>. QED BY <1>6

(* The recorded findings are not infinitely many in time or in hash. *)
Bounded == \E b \in Nat : \A f \in findings : f.produced <= b /\ f.hash <= b

(* The process is between its load and its commit. *)
Working(p) == pc[p] \notin {"idle", "committed"}

(* A run works on a stored batch; its instants are after 0; and only       *)
(* stored batches were analysed.                                           *)
InRange ==
  /\ \A p \in Procs : Working(p) => txn[p].hash \in 1..Len(readings)
  /\ \A p \in Procs : pc[p] \in {"computed", "started"} => txn[p].produced > 0
  /\ \A r \in runs : r.hash \in 1..Len(readings)

(* The inductive type invariant. *)
TypeInv == TypeOK /\ Bounded /\ InRange

(* A process without a run has well-formed local variables. *)
LEMMA NoTxnOK == TxnOK(NoTxn)
BY RunAssumption DEF TxnOK, NoTxn, TxnFields, PartialView

(* The newest of the recorded findings of a condition exists: of rows      *)
(* whose times and hashes are bounded, CHOOSE finds one (DISTINCT ON of    *)
(* PostgresFindingRepository.current).                                     *)
LEMMA NewestIsRow ==
  ASSUME NEW rows \in SUBSET FindingRow, rows # {}, NEW b \in Nat,
         \A f \in rows : f.produced <= b /\ f.hash <= b
  PROVE  Newest(rows) \in rows
<1> DEFINE times == {f.produced : f \in rows}
<1>1. PICK last \in times : \A t \in times : t <= last
  <2>1. times \in SUBSET Nat /\ times # {}
    BY DEF FindingRow
  <2>2. \A t \in times : t <= b
    OBVIOUS
  <2>. HIDE DEF times
  <2>. QED BY <2>1, <2>2, GreatestNatural
<1> DEFINE hashes == {f.hash : f \in {g \in rows : g.produced = last}}
<1>2. PICK top \in hashes : \A h \in hashes : h <= top
  <2>1. hashes \in SUBSET Nat /\ hashes # {}
    BY <1>1 DEF FindingRow
  <2>2. \A h \in hashes : h <= b
    OBVIOUS
  <2>. HIDE DEF hashes
  <2>. QED BY <2>1, <2>2, GreatestNatural
<1>3. PICK f \in rows : f.produced = last /\ f.hash = top
  BY <1>2
<1>4. ASSUME NEW g \in rows
      PROVE  \/ g.produced < f.produced
             \/ g.produced = f.produced /\ g.hash <= f.hash
  <2>1. g.produced \in Nat /\ f.produced \in Nat
    BY DEF FindingRow
  <2>2. g.produced <= f.produced
    BY <1>1, <1>3
  <2>3. g.produced = f.produced => g.hash <= f.hash
    BY <1>2, <1>3
  <2>. QED BY <2>1, <2>2, <2>3
<1>. QED BY <1>3, <1>4 DEF Newest

(* The current view maps conditions to recorded findings. *)
LEMMA ViewOK == TypeInv => PartialView(View, FindingRow)
<1>. SUFFICES ASSUME TypeInv PROVE PartialView(View, FindingRow)
  OBVIOUS
<1> DEFINE of(i) == {f \in findings : f.identity = i}
<1>1. PICK b \in Nat : \A f \in findings : f.produced <= b /\ f.hash <= b
  BY DEF TypeInv, Bounded
<1>2. \A i : of(i) # {} => i \in Identities /\ Newest(of(i)) \in FindingRow
  <2>1. findings \subseteq FindingRow
    BY DEF TypeInv, TypeOK
  <2>2. ASSUME NEW i, of(i) # {} PROVE Newest(of(i)) \in of(i)
    BY <1>1, <2>1, <2>2, NewestIsRow
  <2>3. \A i : of(i) \subseteq FindingRow
    BY <2>1
  <2>4. \A i : of(i) # {} => i \in Identities
    BY <2>1 DEF FindingRow
  <2>. QED BY <2>2, <2>3, <2>4
<1>. QED BY <1>2 DEF View, PartialView

(* Whatever the policy is asked, it returns alert rows of known            *)
(* conditions.                                                             *)
LEMMA DecideOK ==
  ASSUME NEW was, NEW is, NEW latest, NEW now \in Nat,
         was \subseteq Identities, is \subseteq Identities
  PROVE  PartialView(Decide(was, is, latest, now), AlertRow)
<1>1. Alerted(was, is, latest, now) \subseteq Identities
  BY DEF Alerted
<1>2. \A kind \in Kinds, status \in Statuses : MakeAlert(kind, status, now) \in AlertRow
  BY DEF MakeAlert, AlertRow
<1>3. \A last : Announce(last, now) \in AlertRow /\ Close(last, now) \in AlertRow
  BY <1>2 DEF Announce, Close, Kinds, Statuses
<1>4. MakeAlert("reminder", "pending", now) \in AlertRow
  BY <1>2 DEF Kinds, Statuses
<1>. QED BY <1>1, <1>3, <1>4 DEF Decide, PartialView

(* The empty database is well typed. *)
LEMMA TypeInit == Init => TypeInv
<1>. SUFFICES ASSUME Init PROVE TypeInv
  OBVIOUS
<1>1. TypeOK
  BY NoTxnOK, RunAssumption DEF Init, TypeOK, RunRows, FindingRow, AlertRow
<1>2. Bounded /\ InRange
  BY DEF Init, Bounded, InRange, Working
<1>. QED BY <1>1, <1>2 DEF TypeInv

(* Where a process can be. *)
PcValues == OpenPcs \cup {"idle", "loaded", "computed", "started", "committed"}

(* A step of p that stores nothing keeps the types when it leaves its own  *)
(* variables and the shared ones it writes well formed.                    *)
LEMMA LocalStep ==
  ASSUME TypeInv, NEW p \in Procs, NEW to \in PcValues,
         pc' = [pc EXCEPT ![p] = to],
         DOMAIN txn' = Procs, \A q \in Procs : q # p => txn'[q] = txn[q],
         TxnOK(txn'[p]),
         to \notin {"idle", "committed"} => txn'[p].hash \in 1..Len(readings),
         to \in {"computed", "started"} => txn'[p].produced > 0,
         UNCHANGED <<readings, runs, findings, alerts>>,
         artifacts' \in [1..NumArtifacts -> Nat], assetLock' \in Procs \cup {NoProc},
         clock' \in Nat, faults' \in 0..MaxFaults, calls' \in 0..MaxCalls
  PROVE  TypeInv'
<1>. USE DEF TypeInv
<1>1. TypeOK'
  BY DEF TypeOK, PcValues
<1>2. Bounded'
  BY DEF Bounded
<1>3. InRange'
  BY DEF InRange, TypeOK, Working
<1>. QED BY <1>1, <1>2, <1>3

(* Load keeps the types: the hash is that of a stored batch. *)
LEMMA LoadType == ASSUME TypeInv, NEW p \in Procs, Load(p) PROVE TypeInv'
<1>1. TxnOK(txn'[p]) /\ txn'[p].hash \in 1..Len(readings)
  BY SMTT(30) DEF TypeInv, TypeOK, TxnOK, TxnFields, Load
<1>2. calls' \in 0..MaxCalls
  BY SMTT(30), RunAssumption DEF Load, TypeInv, TypeOK
<1>. QED BY <1>1, <1>2, LocalStep DEF Load, Goto, TypeInv, TypeOK, PcValues, tables

(* Compute keeps the types: the findings' time is a new instant. *)
LEMMA ComputeType == ASSUME TypeInv, NEW p \in Procs, Compute(p) PROVE TypeInv'
<1>1. Now \in Nat /\ Now > 0
  BY DEF TypeInv, TypeOK, Now
<1>2. TxnOK(txn'[p])
  BY SMTT(30), <1>1 DEF TypeInv, TypeOK, TxnOK, TxnFields, Compute
<1>3. txn'[p].hash \in 1..Len(readings) /\ txn'[p].produced > 0
  BY <1>1 DEF TypeInv, TypeOK, InRange, Working, TxnOK, TxnFields, Compute, Goto
<1>. QED BY <1>1, <1>2, <1>3, LocalStep
         DEF Compute, Goto, TypeInv, TypeOK, PcValues, tables, budget

(* Start keeps the types: the run's time is a new instant. *)
LEMMA StartType == ASSUME TypeInv, NEW p \in Procs, Start(p) PROVE TypeInv'
<1>1. Now \in Nat /\ Now > 0
  BY DEF TypeInv, TypeOK, Now
<1>2. TxnOK(txn'[p])
  BY SMTT(30), <1>1 DEF TypeInv, TypeOK, TxnOK, TxnFields, Start
<1>3. txn'[p].hash \in 1..Len(readings) /\ txn'[p].produced > 0
  BY <1>1 DEF TypeInv, TypeOK, InRange, Working, TxnOK, TxnFields, Start, Goto
<1>. QED BY <1>1, <1>2, <1>3, LocalStep
         DEF Start, Goto, TypeInv, TypeOK, PcValues, tables, budget

(* Claim keeps the types. *)
LEMMA ClaimType == ASSUME TypeInv, NEW p \in Procs, Claim(p) PROVE TypeInv'
<1>1. TxnOK(txn'[p]) /\ txn'[p].hash \in 1..Len(readings)
  BY DEF TypeInv, TypeOK, InRange, Working, Claim, Goto
<1>. QED BY <1>1, LocalStep
         DEF Claim, Goto, TypeInv, TypeOK, PcValues, OpenPcs, tables, budget

(* A replay keeps the types: the instants it gives back were taken after   *)
(* 0.                                                                      *)
LEMMA ReplayType == ASSUME TypeInv, NEW p \in Procs, Replay(p) PROVE TypeInv'
<1>1. TxnOK(txn'[p])
  BY NoTxnOK DEF TypeInv, TypeOK, Replay
<1>2. clock' \in Nat
  <2>1. clock \in Nat /\ txn[p].produced \in Nat /\ txn[p].produced > 0
    BY DEF TypeInv, TypeOK, TxnOK, InRange, Replay, Goto
  <2>. QED BY <2>1 DEF Replay, ClockAfterReplay
<1>. QED BY <1>1, <1>2, LocalStep
         DEF Replay, Goto, TypeInv, TypeOK, PcValues, tables, budget

(* Learn keeps the types: what is found is part of an observation. *)
LEMMA LearnType == ASSUME TypeInv, NEW p \in Procs, Learn(p) PROVE TypeInv'
<1> DEFINE seen == readings[txn[p].hash]
<1>1. PICK S : txn' = [txn EXCEPT ![p].found = Within(seen, S)]
  BY DEF Learn
<1>2. txn[p].hash \in 1..Len(readings)
  BY DEF TypeInv, InRange, Working, Learn, Goto
<1>3. seen \in Observations
  BY <1>2 DEF TypeInv, TypeOK
<1>4. PartialView(Within(seen, S), Contents)
  BY <1>3, RunAssumption DEF PartialView, Within
<1>5. TxnOK(txn'[p]) /\ txn'[p].hash \in 1..Len(readings)
  <2>. HIDE DEF seen
  <2>. QED BY <1>1, <1>2, <1>4 DEF TypeInv, TypeOK, TxnOK, TxnFields
<1>6. faults' \in 0..MaxFaults
  BY SMTT(30), RunAssumption DEF Learn, TypeInv, TypeOK
<1>7. DOMAIN txn' = Procs /\ \A q \in Procs : q # p => txn'[q] = txn[q]
  BY <1>1 DEF TypeInv, TypeOK
<1>. QED BY <1>5, <1>6, <1>7, LocalStep
         DEF Learn, Goto, TypeInv, TypeOK, PcValues, OpenPcs, tables, budget

(* ReadView keeps the types: the view is one of recorded findings. *)
LEMMA ReadViewType == ASSUME TypeInv, NEW p \in Procs, ReadView(p) PROVE TypeInv'
<1>1. TxnOK(txn'[p]) /\ txn'[p].hash \in 1..Len(readings)
  BY ViewOK DEF TypeInv, TypeOK, InRange, Working, TxnOK, TxnFields, ReadView, Goto
<1>. QED BY <1>1, LocalStep
         DEF ReadView, Goto, TypeInv, TypeOK, PcValues, OpenPcs, tables, budget

(* DecideAlerts keeps the types: the policy returns alert rows. *)
LEMMA DecideAlertsType == ASSUME TypeInv, NEW p \in Procs, DecideAlerts(p) PROVE TypeInv'
<1>1. TxnOK(txn[p])
  BY DEF TypeInv, TypeOK
<1>2. Critical(txn[p].view) \subseteq Identities /\ Critical(txn[p].found) \subseteq Identities
  BY <1>1 DEF Critical, TxnOK, PartialView
<1>3. PartialView(Decide(Critical(txn[p].view), Critical(txn[p].found),
                         LatestAlert, txn[p].started), AlertRow)
  BY <1>1, <1>2, DecideOK DEF TxnOK
<1>4. TxnOK(txn'[p]) /\ txn'[p].hash \in 1..Len(readings)
  BY <1>1, <1>3 DEF TypeInv, TypeOK, InRange, Working, TxnOK, TxnFields, DecideAlerts, Goto
<1>. QED BY <1>4, LocalStep
         DEF DecideAlerts, Goto, TypeInv, TypeOK, PcValues, OpenPcs, tables, budget

(* SaveArtifact keeps the types: it never saves one file too many. *)
LEMMA SaveArtifactType == ASSUME TypeInv, NEW p \in Procs, SaveArtifact(p) PROVE TypeInv'
<1>1. TxnOK(txn'[p])
  <2>1. txn[p].saved + 1 \in 0..NumArtifacts
    BY SMTT(30), RunAssumption DEF TypeInv, TypeOK, TxnOK, SaveArtifact
  <2>. QED BY <2>1 DEF TypeInv, TypeOK, TxnOK, TxnFields, SaveArtifact
<1>2. artifacts' \in [1..NumArtifacts -> Nat]
  BY RunAssumption DEF TypeInv, TypeOK, TxnOK, SaveArtifact
<1>3. pc' = [pc EXCEPT ![p] = "decided"]
  BY DEF TypeInv, TypeOK, SaveArtifact
<1>4. txn'[p].hash \in 1..Len(readings)
  BY DEF TypeInv, TypeOK, InRange, Working, TxnOK, TxnFields, SaveArtifact
<1>. QED BY <1>1, <1>2, <1>3, <1>4, LocalStep
         DEF SaveArtifact, TypeInv, TypeOK, PcValues, OpenPcs, tables, budget

(* LockAsset keeps the types. *)
LEMMA LockAssetType == ASSUME TypeInv, NEW p \in Procs, LockAsset(p) PROVE TypeInv'
<1>1. TxnOK(txn'[p]) /\ txn'[p].hash \in 1..Len(readings)
  BY DEF TypeInv, TypeOK, InRange, Working, LockAsset, Goto
<1>. QED BY <1>1, LocalStep
         DEF LockAsset, Goto, TypeInv, TypeOK, PcValues, OpenPcs, tables, budget

(* A failure keeps the types, wherever it happens. *)
LEMMA AbortType == ASSUME TypeInv, NEW p \in Procs, Abort(p) PROVE TypeInv'
<1>1. TxnOK(txn'[p])
  BY NoTxnOK DEF TypeInv, TypeOK, Abort, Fail
<1>2. faults' \in 0..MaxFaults
  BY RunAssumption DEF Abort, Fail, TypeInv, TypeOK
<1>. QED BY <1>1, <1>2, LocalStep
         DEF Abort, Fail, FreeLock, TypeInv, TypeOK, PcValues, tables, budget

(* Return keeps the types. *)
LEMMA ReturnType == ASSUME TypeInv, NEW p \in Procs, Return(p) PROVE TypeInv'
BY LocalStep DEF Return, Leave, Goto, TypeInv, TypeOK, PcValues, tables, budget

(* Commit keeps the types: the new rows are rows, and their times and      *)
(* hashes are still bounded.                                               *)
LEMMA CommitType == ASSUME TypeInv, NEW p \in Procs, Commit(p) PROVE TypeInv'
<1>. USE DEF TypeInv
<1> DEFINE t == txn[p]
<1>1. TxnOK(t) /\ t.hash \in 1..Len(readings)
  BY DEF TypeOK, InRange, Working, Commit, Goto
<1>2. NewFindings(p) \subseteq FindingRow
  <2>1. Changed(t.view, t.found) \subseteq DOMAIN t.found
    BY DEF Changed
  <2>2. \A i \in DOMAIN t.found : i \in Identities /\ t.found[i] \in Contents
    BY <1>1 DEF TxnOK, PartialView
  <2>. QED BY <1>1, <2>1, <2>2 DEF NewFindings, FindingRow, Contents, TxnOK
<1>3. RunRow(p) \in RunRows
  BY <1>1 DEF RunRow, RunRows, TxnOK, PartialView, LearnedColumnDefault
<1>4. DOMAIN alerts' \subseteq Identities \X Nat /\ alerts' \in [DOMAIN alerts' -> AlertRow]
  <2>1. AlertIds(p) \subseteq Identities \X Nat
    BY <1>1 DEF AlertIds, TxnOK, PartialView
  <2>2. \A id \in AlertIds(p) : t.fresh[id[1]] \in AlertRow
    BY <1>1 DEF AlertIds, TxnOK, PartialView
  <2>. QED BY <2>1, <2>2 DEF Commit, TypeOK
<1>5. \A q \in Procs : TxnOK(txn'[q])
  BY NoTxnOK DEF Commit, TypeOK
<1>6. TypeOK'
  BY <1>2, <1>3, <1>4, <1>5 DEF Commit, Goto, TypeOK, budget
<1>7. Bounded'
  <2>1. PICK b \in Nat : \A f \in findings : f.produced <= b /\ f.hash <= b
    BY DEF Bounded
  <2>2. t.hash \in Nat /\ t.produced \in Nat
    BY <1>1 DEF TxnOK
  <2> DEFINE c == b + t.hash + t.produced
  <2>3. \A f \in NewFindings(p) : f.produced <= c /\ f.hash <= c
    BY <2>2 DEF NewFindings
  <2>4. \A f \in findings : f.produced <= c /\ f.hash <= c
    BY SMTT(30), <2>1, <2>2 DEF TypeOK, FindingRow
  <2>5. c \in Nat
    BY <2>2
  <2>. HIDE DEF c
  <2>. QED BY <2>3, <2>4, <2>5 DEF Commit, Bounded
<1>8. InRange'
  BY <1>1 DEF InRange, Commit, Goto, RunRow, TypeOK, Working
<1>. QED BY <1>6, <1>7, <1>8

(* New readings and idle time keep the types: a hash that was valid        *)
(* stays so.                                                               *)
LEMMA EnvironmentType == ASSUME TypeInv, Environment PROVE TypeInv'
<1>. USE DEF TypeInv
<1>1. CASE Wait
  <2>1. clock' \in Nat
    BY <1>1, RunAssumption DEF Wait, TypeOK
  <2>2. UNCHANGED <<readings, runs, findings, alerts, artifacts, assetLock, pc, txn, faults, calls>>
    BY <1>1 DEF Wait, tables, budget
  <2>. QED BY <2>1, <2>2 DEF TypeOK, Bounded, InRange, Working
<1>2. ASSUME NEW obs \in Observations, NewReadings(obs) PROVE TypeInv'
  <2>1. readings' \in Seq(Observations) /\ Len(readings') = Len(readings) + 1
    BY <1>2 DEF NewReadings, TypeOK
  <2>2. TypeOK' /\ Bounded'
    BY <1>2, <2>1 DEF NewReadings, TypeOK, Bounded, tables, budget
  <2>3. \A n \in 1..Len(readings) : n \in 1..Len(readings')
    BY <2>1 DEF TypeOK
  <2>4. InRange'
    BY <1>2, <2>3 DEF NewReadings, InRange, Working, tables
  <2>. QED BY <2>2, <2>4
<1>. QED BY <1>1, <1>2 DEF Environment

(* Nothing changes when nothing happens. *)
LEMMA StutterType == ASSUME TypeInv, UNCHANGED vars PROVE TypeInv'
BY DEF TypeInv, TypeOK, Bounded, InRange, Working, vars, tables, budget

(* TypeInv is inductive: one case per action. *)
LEMMA TypeStep == TypeInv /\ [Next]_vars => TypeInv'
<1>. SUFFICES ASSUME TypeInv, [Next]_vars PROVE TypeInv'
  OBVIOUS
<1>1. CASE Environment
  BY <1>1, EnvironmentType
<1>2. CASE UNCHANGED vars
  BY <1>2, StutterType
<1>3. ASSUME NEW p \in Procs, Load(p) \/ RunStep(p) \/ Abort(p) \/ Return(p)
      PROVE  TypeInv'
  BY <1>3, LoadType, ComputeType, StartType, ClaimType, ReplayType, LearnType,
     ReadViewType, DecideAlertsType, SaveArtifactType, LockAssetType, CommitType,
     AbortType, ReturnType DEF RunStep
<1>. QED BY <1>1, <1>2, <1>3 DEF Next

(* The tables, the lock and the local variables of AnalysisUseCase.run     *)
(* keep their types, for any number of processes, conditions and           *)
(* batches.                                                                *)
THEOREM TypeCorrect == Spec => []TypeOK
<1>1. TypeInv => TypeOK
  BY DEF TypeInv
<1>. QED BY TypeInit, TypeStep, <1>1, PTL DEF Spec

-----------------------------------------------------------------------------
(***************************************************************************)
(* One run per input.                                                      *)
(***************************************************************************)

(* A step that neither claims an input nor commits a run.                  *)
LEMMA NoNewClaim ==
  ASSUME TypeOK, OneRunPerInput, NEW p \in Procs, NEW to,
         pc' = [pc EXCEPT ![p] = to],
         \A q \in Procs : q # p => txn'[q] = txn[q],
         to \in OpenPcs => pc[p] \in OpenPcs /\ txn'[p].hash = txn[p].hash,
         UNCHANGED runs
  PROVE  OneRunPerInput'
BY DEF TypeOK, OneRunPerInput, Open, Completed

(* A claim is granted on an input nobody completed and nobody holds. *)
LEMMA ClaimOnce == ASSUME TypeOK, OneRunPerInput, NEW p \in Procs, Claim(p)
                   PROVE  OneRunPerInput'
<1>1. \A q \in Procs : q # p => (Open(q)' <=> Open(q))
  BY DEF TypeOK, Claim, Goto, Open
<1>2. UNCHANGED <<runs, txn>>
  BY DEF Claim, tables
<1>3. ~Completed(txn[p].hash) /\ ~Claimed(txn[p].hash)
  BY DEF Claim
<1>. QED BY <1>1, <1>2, <1>3 DEF OneRunPerInput, Completed, Claimed

(* A run that commits was the only one to hold its input. *)
LEMMA CommitOnce == ASSUME TypeOK, OneRunPerInput, NEW p \in Procs, Commit(p)
                    PROVE  OneRunPerInput'
<1>1. Open(p) /\ ~Open(p)'
  BY DEF Open, OpenPcs, Commit, Goto, TypeOK
<1>2. \A q \in Procs : q # p => (Open(q)' <=> Open(q)) /\ txn'[q] = txn[q]
  BY DEF TypeOK, Commit, Goto, Open
<1>3. runs' = runs \cup {RunRow(p)} /\ RunRow(p).hash = txn[p].hash
  BY DEF Commit, RunRow
<1>. QED BY <1>1, <1>2, <1>3 DEF OneRunPerInput, Completed

(* OneRunPerInput is inductive, given the types: one case per action. *)
LEMMA OneRunStep == TypeOK /\ OneRunPerInput /\ [Next]_vars => OneRunPerInput'
<1>. SUFFICES ASSUME TypeOK, OneRunPerInput, [Next]_vars PROVE OneRunPerInput'
  OBVIOUS
<1>1. CASE Environment \/ UNCHANGED vars
  <2>1. UNCHANGED <<runs, pc, txn>>
    BY <1>1 DEF Environment, Wait, NewReadings, vars, tables
  <2>. QED BY <2>1 DEF OneRunPerInput, Open, Completed
<1>2. ASSUME NEW p \in Procs, Load(p) PROVE OneRunPerInput'
  BY <1>2, NoNewClaim DEF Load, Goto, TypeOK, OpenPcs, tables
<1>3. ASSUME NEW p \in Procs, Compute(p) PROVE OneRunPerInput'
  BY <1>3, NoNewClaim DEF Compute, Goto, TypeOK, OpenPcs, tables
<1>4. ASSUME NEW p \in Procs, Start(p) PROVE OneRunPerInput'
  BY <1>4, NoNewClaim DEF Start, Goto, TypeOK, OpenPcs, tables
<1>5. ASSUME NEW p \in Procs, Replay(p) PROVE OneRunPerInput'
  BY <1>5, NoNewClaim DEF Replay, Goto, TypeOK, OpenPcs, tables
<1>6. ASSUME NEW p \in Procs, Learn(p) PROVE OneRunPerInput'
  <2>1. PICK f : txn' = [txn EXCEPT ![p].found = f]
    BY <1>6 DEF Learn
  <2>2. txn'[p].hash = txn[p].hash
    BY <2>1 DEF TypeOK, TxnOK, TxnFields
  <2>. QED BY <1>6, <2>1, <2>2, NoNewClaim DEF Learn, Goto, TypeOK, OpenPcs, tables
<1>7. ASSUME NEW p \in Procs, ReadView(p) PROVE OneRunPerInput'
  BY <1>7, NoNewClaim DEF ReadView, Goto, TypeOK, TxnOK, TxnFields, OpenPcs, tables
<1>8. ASSUME NEW p \in Procs, DecideAlerts(p) PROVE OneRunPerInput'
  BY <1>8, NoNewClaim DEF DecideAlerts, Goto, TypeOK, TxnOK, TxnFields, OpenPcs, tables
<1>9. ASSUME NEW p \in Procs, SaveArtifact(p) PROVE OneRunPerInput'
  <2>1. pc' = [pc EXCEPT ![p] = "decided"]
    BY <1>9 DEF SaveArtifact, TypeOK
  <2>2. /\ pc[p] \in OpenPcs /\ txn'[p].hash = txn[p].hash
        /\ \A q \in Procs : q # p => txn'[q] = txn[q]
    BY <1>9 DEF SaveArtifact, TypeOK, TxnOK, TxnFields, OpenPcs
  <2>3. UNCHANGED runs
    BY <1>9 DEF SaveArtifact, tables
  <2>. QED BY <2>1, <2>2, <2>3, NoNewClaim
<1>10. ASSUME NEW p \in Procs, LockAsset(p) PROVE OneRunPerInput'
  BY <1>10, NoNewClaim DEF LockAsset, Goto, TypeOK, OpenPcs, tables
<1>11. ASSUME NEW p \in Procs, Abort(p) PROVE OneRunPerInput'
  <2>1. UNCHANGED runs /\ pc' = [pc EXCEPT ![p] = "idle"] /\ txn' = [txn EXCEPT ![p] = NoTxn]
    BY <1>11 DEF Abort, Fail
  <2>. QED BY <2>1, NoNewClaim DEF TypeOK, OpenPcs
<1>12. ASSUME NEW p \in Procs, Return(p) PROVE OneRunPerInput'
  BY <1>12, NoNewClaim DEF Return, Leave, Goto, TypeOK, OpenPcs
<1>. QED BY <1>1, <1>2, <1>3, <1>4, <1>5, <1>6, <1>7, <1>8, <1>9, <1>10, <1>11, <1>12,
            ClaimOnce, CommitOnce DEF Next, RunStep

(* However many processes analyse one input at the same time and however   *)
(* they fail, one run of it commits (PostgresEngineRunRepository.begin).   *)
THEOREM Idempotent == Spec => []OneRunPerInput
<1>1. Init => OneRunPerInput
  BY DEF Init, OneRunPerInput, Open, OpenPcs
<1>. QED BY <1>1, OneRunStep, TypeCorrect, PTL DEF Spec

-----------------------------------------------------------------------------
(***************************************************************************)
(* All or nothing.                                                         *)
(***************************************************************************)
(* What a run holds as its findings is what its frame shows. *)
SeenBy(p) ==
  pc[p] \in {"learned", "viewed", "decided", "locked"} =>
    \A i \in DOMAIN txn[p].found : txn[p].found[i] = readings[txn[p].hash][i]

(* The alerts a run is about to store are those of the row it will         *)
(* store.                                                                  *)
JustifiedBy(p) ==
  pc[p] \in {"decided", "locked"} =>
    \A i \in DOMAIN txn[p].fresh : AlertJustified(txn[p].fresh[i].kind, i, RunRow(p))

(* AllOrNothing says nothing of the runs in progress, whose rows a         *)
(* commit adds; AtomicInv does.                                            *)
AtomicInv == AllOrNothing /\ \A p \in Procs : SeenBy(p) /\ JustifiedBy(p)

(* A step of p that stores nothing. *)
LEMMA StoresNothing ==
  ASSUME TypeInv, AtomicInv, NEW p \in Procs, NEW to,
         pc' = [pc EXCEPT ![p] = to],
         \A q \in Procs : q # p => txn'[q] = txn[q],
         UNCHANGED <<readings, runs, findings, alerts>>,
         SeenBy(p)', JustifiedBy(p)'
  PROVE  AtomicInv'
<1>1. AllOrNothing'
  BY DEF AtomicInv, AllOrNothing, AlertJustified, CriticalIn
<1>2. ASSUME NEW q \in Procs, q # p PROVE SeenBy(q)' /\ JustifiedBy(q)'
  BY SMTT(30), <1>2 DEF TypeInv, TypeOK, AtomicInv, SeenBy, JustifiedBy, AlertJustified, CriticalIn, RunRow
<1>. QED BY <1>1, <1>2 DEF AtomicInv

(* Nothing is claimed of a process outside its transaction's last steps.   *)
LEMMA EarlyStep ==
  ASSUME TypeInv, AtomicInv, NEW p \in Procs, NEW to,
         to \notin {"learned", "viewed", "decided", "locked"},
         pc' = [pc EXCEPT ![p] = to],
         \A q \in Procs : q # p => txn'[q] = txn[q],
         UNCHANGED <<readings, runs, findings, alerts>>
  PROVE  AtomicInv'
<1>1. SeenBy(p)' /\ JustifiedBy(p)'
  BY DEF TypeInv, TypeOK, SeenBy, JustifiedBy
<1>. QED BY <1>1, StoresNothing

(* The policy resolves what is not critical now, and alarms of what is. *)
LEMMA DecideJustified ==
  ASSUME NEW was, NEW is, NEW latest, NEW now, NEW i \in DOMAIN Decide(was, is, latest, now)
  PROVE  IF i \in is THEN Decide(was, is, latest, now)[i].kind \in {"triggered", "reminder"}
                     ELSE Decide(was, is, latest, now)[i].kind = "resolved"
BY DEF Decide, Announce, Close, MakeAlert

(* DecideAlerts: the alerts are justified by what this run found. *)
LEMMA DecideAtomic == ASSUME TypeInv, AtomicInv, NEW p \in Procs, DecideAlerts(p)
                      PROVE  AtomicInv'
<1> DEFINE d == Decide(Critical(txn[p].view), Critical(txn[p].found),
                       LatestAlert, txn[p].started)
<1>1. txn' = [txn EXCEPT ![p].fresh = d] /\ TxnOK(txn[p]) /\ DOMAIN txn = Procs
  BY DEF DecideAlerts, TypeInv, TypeOK
<1>2. /\ txn'[p].fresh = d /\ txn'[p].found = txn[p].found
      /\ txn'[p].hash = txn[p].hash
  <2>. HIDE DEF d
  <2>. QED BY <1>1 DEF TxnOK, TxnFields
<1>3. SeenBy(p)
  BY DEF AtomicInv
<1>4. pc[p] = "viewed" /\ UNCHANGED readings
  BY DEF DecideAlerts, Goto
<1>5. SeenBy(p)'
  <2>. HIDE DEF d
  <2>. QED BY <1>2, <1>3, <1>4 DEF SeenBy
<1>6. \A i : CriticalIn(RunRow(p), i)' <=> i \in Critical(txn[p].found)
  <2>. HIDE DEF d
  <2>. QED BY <1>2, <1>3, <1>4 DEF SeenBy, CriticalIn, RunRow, Critical
<1>7. JustifiedBy(p)'
  <2>1. ASSUME NEW i \in DOMAIN d
        PROVE  IF d[i].kind = "resolved" THEN ~CriticalIn(RunRow(p), i)'
                                         ELSE CriticalIn(RunRow(p), i)'
    <3>1. d[i].kind = "resolved" <=> i \notin Critical(txn[p].found)
      BY DecideJustified
    <3>. QED BY <1>6, <3>1
  <2>. HIDE DEF d
  <2>. QED BY <1>2, <2>1 DEF JustifiedBy, AlertJustified
<1>8. \A q \in Procs : q # p => txn'[q] = txn[q]
  BY <1>1
<1>. QED BY <1>5, <1>7, <1>8, StoresNothing DEF DecideAlerts, Goto, tables

(* Learn: what the run found is part of what the readings show. *)
LEMMA LearnAtomic == ASSUME TypeInv, AtomicInv, NEW p \in Procs, Learn(p)
                     PROVE  AtomicInv'
<1> DEFINE seen == readings[txn[p].hash]
<1>1. PICK S : txn' = [txn EXCEPT ![p].found = Within(seen, S)]
  BY DEF Learn
<1>2. /\ txn'[p].found = Within(seen, S) /\ txn'[p].hash = txn[p].hash
      /\ \A q \in Procs : q # p => txn'[q] = txn[q]
  <2>. HIDE DEF seen
  <2>. QED BY <1>1 DEF TypeInv, TypeOK, TxnOK, TxnFields
<1>3. SeenBy(p)'
  <2>1. UNCHANGED readings
    BY DEF Learn
  <2>2. \A i \in DOMAIN Within(seen, S) : Within(seen, S)[i] = seen[i]
    BY DEF Within
  <2>. QED BY <1>2, <2>1, <2>2 DEF SeenBy
<1>4. JustifiedBy(p)'
  BY DEF JustifiedBy, Learn, Goto, TypeInv, TypeOK
<1>. QED BY <1>2, <1>3, <1>4, StoresNothing DEF Learn, Goto, tables

(* The steps in between leave what was found and decided as it was. *)
LEMMA KeptAtomic ==
  ASSUME TypeInv, AtomicInv, NEW p \in Procs,
         ReadView(p) \/ SaveArtifact(p) \/ LockAsset(p)
  PROVE  AtomicInv'
<1>1. CASE ReadView(p)
  <2>1. txn'[p].found = txn[p].found /\ txn'[p].hash = txn[p].hash
    BY <1>1 DEF ReadView, TypeInv, TypeOK, TxnOK, TxnFields
  <2>2. SeenBy(p)' /\ JustifiedBy(p)'
    BY <1>1, <2>1
       DEF ReadView, Goto, TypeInv, TypeOK, AtomicInv, SeenBy, JustifiedBy
  <2>. QED BY <1>1, <2>2, StoresNothing DEF ReadView, Goto, TypeInv, TypeOK, tables
<1>2. CASE SaveArtifact(p)
  <2>1. /\ txn'[p].found = txn[p].found /\ txn'[p].hash = txn[p].hash
        /\ txn'[p].fresh = txn[p].fresh /\ txn'[p].started = txn[p].started
    BY <1>2 DEF SaveArtifact, TypeInv, TypeOK, TxnOK, TxnFields
  <2>2. pc' = [pc EXCEPT ![p] = "decided"] /\ pc[p] = "decided" /\ UNCHANGED readings
    BY <1>2 DEF SaveArtifact, TypeInv, TypeOK
  <2>3. SeenBy(p)' /\ JustifiedBy(p)'
    BY <2>1, <2>2 DEF TypeInv, TypeOK, AtomicInv, SeenBy, JustifiedBy, RunRow,
                      AlertJustified, CriticalIn
  <2>. QED BY <1>2, <2>2, <2>3, StoresNothing DEF SaveArtifact, TypeInv, TypeOK, tables
<1>3. CASE LockAsset(p)
  <2>1. SeenBy(p)' /\ JustifiedBy(p)'
    BY <1>3 DEF LockAsset, Goto, TypeInv, TypeOK, AtomicInv, SeenBy, JustifiedBy,
                RunRow, AlertJustified, CriticalIn
  <2>. QED BY <1>3, <2>1, StoresNothing DEF LockAsset, Goto, TypeInv, TypeOK, tables
<1>. QED BY <1>1, <1>2, <1>3

(* Commit: the rows it stores come with the run that justifies them. *)
LEMMA CommitAtomic == ASSUME TypeInv, AtomicInv, NEW p \in Procs, Commit(p)
                      PROVE  AtomicInv'
<1>1. SeenBy(p) /\ JustifiedBy(p) /\ pc[p] = "locked" /\ UNCHANGED readings
  BY DEF AtomicInv, Commit, Goto
<1>2. runs' = runs \cup {RunRow(p)} /\ findings' = findings \cup NewFindings(p)
  BY DEF Commit
<1>3. \A f \in findings' : \E r \in runs' : r.hash = f.hash /\ f.identity \in r.observed
  <2>1. \A f \in NewFindings(p) :
          RunRow(p).hash = f.hash /\ f.identity \in RunRow(p).observed
    BY DEF NewFindings, RunRow, Changed
  <2>. QED BY <1>2, <2>1 DEF AtomicInv, AllOrNothing
<1>4. ASSUME NEW id \in DOMAIN alerts'
      PROVE  (\E r \in runs : r.started = id[2] /\ AlertJustified(alerts[id].kind, id[1], r))'
  <2>1. CASE id \in DOMAIN alerts
    <3>1. alerts'[id] = alerts[id]
      BY <2>1 DEF Commit
    <3>2. PICK r \in runs : r.started = id[2] /\ AlertJustified(alerts[id].kind, id[1], r)
      BY <2>1 DEF AtomicInv, AllOrNothing
    <3>. QED BY <1>1, <1>2, <3>1, <3>2 DEF AlertJustified, CriticalIn
  <2>2. CASE id \notin DOMAIN alerts
    <3>1. id \in AlertIds(p) /\ alerts'[id] = txn[p].fresh[id[1]]
      BY <2>2 DEF Commit
    <3>2. id[1] \in DOMAIN txn[p].fresh /\ id[2] = RunRow(p).started
      BY <3>1 DEF AlertIds, RunRow
    <3>3. AlertJustified(txn[p].fresh[id[1]].kind, id[1], RunRow(p))
      BY <1>1, <3>2 DEF JustifiedBy
    <3>. QED BY <1>1, <1>2, <3>1, <3>2, <3>3 DEF AlertJustified, CriticalIn
  <2>. QED BY <2>1, <2>2
<1>5. ASSUME NEW q \in Procs PROVE SeenBy(q)' /\ JustifiedBy(q)'
  <2>1. CASE q = p
    BY <2>1 DEF Commit, Goto, TypeInv, TypeOK, SeenBy, JustifiedBy
  <2>2. CASE q # p
    <3>1. txn'[q] = txn[q] /\ pc'[q] = pc[q] /\ UNCHANGED readings
      BY <2>2 DEF Commit, Goto, TypeInv, TypeOK
    <3>. QED BY <3>1 DEF AtomicInv, SeenBy, JustifiedBy, RunRow, AlertJustified, CriticalIn
  <2>. QED BY <2>1, <2>2
<1>. QED BY <1>3, <1>4, <1>5 DEF AtomicInv, AllOrNothing, AlertJustified, CriticalIn

(* New readings do not change what an earlier frame showed. *)
LEMMA NewReadingsAtomic ==
  ASSUME TypeInv, AtomicInv, NEW obs \in Observations, NewReadings(obs)
  PROVE  AtomicInv'
<1>1. \A n \in 1..Len(readings) : readings'[n] = readings[n]
  BY DEF NewReadings, TypeInv, TypeOK
<1>2. UNCHANGED <<runs, findings, alerts, pc, txn>>
  BY DEF NewReadings, tables
<1>3. \A r \in runs : readings'[r.hash] = readings[r.hash]
  BY <1>1 DEF TypeInv, InRange
<1>4. \A p \in Procs : Working(p) => readings'[txn[p].hash] = readings[txn[p].hash]
  BY <1>1 DEF TypeInv, InRange
<1>5. AllOrNothing'
  BY <1>2, <1>3 DEF AtomicInv, AllOrNothing, AlertJustified, CriticalIn
<1>6. ASSUME NEW p \in Procs PROVE SeenBy(p)' /\ JustifiedBy(p)'
  BY <1>2, <1>4 DEF AtomicInv, SeenBy, JustifiedBy, RunRow, AlertJustified, CriticalIn, Working
<1>. QED BY <1>5, <1>6 DEF AtomicInv

(* AtomicInv is inductive, given TypeInv: one case per action. *)
LEMMA AtomicStep == TypeInv /\ AtomicInv /\ [Next]_vars => AtomicInv'
<1>. SUFFICES ASSUME TypeInv, AtomicInv, [Next]_vars PROVE AtomicInv'
  OBVIOUS
<1>1. CASE Wait \/ UNCHANGED vars
  <2>1. UNCHANGED <<readings, runs, findings, alerts, pc, txn>>
    BY <1>1 DEF Wait, vars, tables
  <2>. QED BY <2>1 DEF AtomicInv, AllOrNothing, SeenBy, JustifiedBy, RunRow,
                       AlertJustified, CriticalIn
<1>2. ASSUME NEW obs \in Observations, NewReadings(obs) PROVE AtomicInv'
  BY <1>2, NewReadingsAtomic
<1>3. ASSUME NEW p \in Procs, Load(p) PROVE AtomicInv'
  BY <1>3, EarlyStep DEF Load, Goto, TypeInv, TypeOK, tables
<1>4. ASSUME NEW p \in Procs, Compute(p) PROVE AtomicInv'
  BY <1>4, EarlyStep DEF Compute, Goto, TypeInv, TypeOK, tables
<1>5. ASSUME NEW p \in Procs, Start(p) PROVE AtomicInv'
  BY <1>5, EarlyStep DEF Start, Goto, TypeInv, TypeOK, tables
<1>6. ASSUME NEW p \in Procs, Claim(p) PROVE AtomicInv'
  BY <1>6, EarlyStep DEF Claim, Goto, TypeInv, TypeOK, tables
<1>7. ASSUME NEW p \in Procs, Replay(p) PROVE AtomicInv'
  BY <1>7, EarlyStep DEF Replay, Goto, TypeInv, TypeOK, tables
<1>8. ASSUME NEW p \in Procs, Abort(p) PROVE AtomicInv'
  <2>1. /\ UNCHANGED <<readings, runs, findings, alerts>>
        /\ pc' = [pc EXCEPT ![p] = "idle"] /\ txn' = [txn EXCEPT ![p] = NoTxn]
    BY <1>8 DEF Abort, Fail
  <2>. QED BY <2>1, EarlyStep DEF TypeInv, TypeOK
<1>9. ASSUME NEW p \in Procs, Return(p) PROVE AtomicInv'
  BY <1>9, EarlyStep DEF Return, Leave, Goto, TypeInv, TypeOK
<1>. QED BY <1>1, <1>2, <1>3, <1>4, <1>5, <1>6, <1>7, <1>8, <1>9, LearnAtomic,
            KeptAtomic, DecideAtomic, CommitAtomic
         DEF Next, RunStep, Environment

(* No finding and no alert without the committed run that made it, however *)
(* many processes run and whatever fails (AnalysisUnitOfWork).             *)
THEOREM Atomic == Spec => []AllOrNothing
<1>1. Init => AtomicInv
  BY DEF Init, AtomicInv, AllOrNothing, SeenBy, JustifiedBy
<1>2. AtomicInv => AllOrNothing
  BY DEF AtomicInv
<1>. QED BY <1>1, <1>2, TypeInit, TypeStep, AtomicStep, PTL DEF Spec
=============================================================================
