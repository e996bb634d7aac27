--------------------------- MODULE MonitoringProofs ---------------------------
(***************************************************************************)
(* Proofs about Monitoring, the runs and the deliveries of one unit        *)
(* together, for one process (OneProcess of SequentialRunProofs): for any  *)
(* conditions, frames, attempts, readings, failed runs and deliveries that *)
(* die.  Each run delivers before the next one begins, so what a delivery  *)
(* read is still so when it overwrites it.                                 *)
(***************************************************************************)
EXTENDS Monitoring, SequentialRunProofs, FiniteSetTheorems

-----------------------------------------------------------------------------
(***************************************************************************)
(* A delivery and the table it works on.                                   *)
(***************************************************************************)
DeliveryTypes ==
  /\ dpc \in [Procs -> {"idle", "sending", "marking", "skipping"}]
  /\ {DOMAIN batch, DOMAIN todo, DOMAIN group, DOMAIN marks, DOMAIN sentOk} = {Procs}
  /\ \A p \in Procs : sentOk[p] \in BOOLEAN
  /\ inbox \in Seq(SUBSET DOMAIN alerts)
  /\ crashes \in Nat
  /\ smtp \in {"configured", "unset"}

(* The alerts of an email that is out, or was tried, and not yet marked. *)
Trying(p) == IF dpc[p] = "marking" THEN group[p] ELSE {}

(* What a delivery holds: the rows it read are as they are in the table,   *)
(* and each is yet to be tried, being tried, or marked with one attempt    *)
(* more; without a mail server none is tried.                              *)
Idle(p) == DOMAIN batch[p] = {} /\ todo[p] = {} /\ DOMAIN marks[p] = {}

Mailing(p) ==
  /\ dpc[p] # "skipping"
  /\ todo[p] \cup Trying(p) \subseteq DOMAIN batch[p]
  /\ todo[p] \cap Trying(p) = {}
  /\ DOMAIN marks[p] = DOMAIN batch[p] \ (todo[p] \cup Trying(p))
  /\ \A a \in DOMAIN marks[p] : \E ok \in BOOLEAN : marks[p][a] = Delivery!Outcome(alerts[a], ok)

Skipping(p) ==
  /\ dpc[p] # "marking" /\ todo[p] = {}
  /\ dpc[p] = "skipping" => group[p] = DOMAIN batch[p] /\ DOMAIN marks[p] = {}
  /\ dpc[p] = "sending" => DOMAIN marks[p] = DOMAIN batch[p]
  /\ \A a \in DOMAIN marks[p] :
       /\ a \in DOMAIN batch[p]
       /\ marks[p][a] = Delivery!Marked(alerts[a], "skipped", alerts[a].attempts)

Delivering(p) ==
  /\ pc[p] = "committed"
  /\ DOMAIN batch[p] = Delivery!Pending
  /\ \A a \in DOMAIN batch[p] : batch[p][a] = alerts[a]
  /\ IF smtp = "configured" THEN Mailing(p) ELSE Skipping(p)

DeliveryInv ==
  /\ DeliveryTypes
  /\ \A p \in Procs : IF dpc[p] = "idle" THEN Idle(p) ELSE Delivering(p)

-----------------------------------------------------------------------------
(***************************************************************************)
(* Which steps touch the alert table.                                      *)
(***************************************************************************)

(* Seen from the runs, all that a delivery does before its commit is       *)
(* nothing, and ending without one is a return.                            *)
LEMMA StepsOfRuns ==
  ASSUME [MonitoringNext]_mvars
  PROVE  [Next]_vars \/ \E p \in Procs : Delivered(p)
<1>1. CASE UNCHANGED mvars
  BY <1>1 DEF mvars, runVars, vars, tables, budget
<1>2. ASSUME NEW p \in Procs, Deliver(p) PROVE UNCHANGED vars
  <2>1. UNCHANGED runVars /\ UNCHANGED alerts
    BY <1>2 DEF Deliver, Delivery!Fetch, Delivery!Send, Delivery!Mark, Delivery!MarkSkipped
  <2>. QED BY <2>1 DEF runVars, vars, tables, budget
<1>3. ASSUME NEW p \in Procs, DeliveryFails(p) PROVE Return(p)
  BY <1>3 DEF DeliveryFails, Delivery!Crash, Return
<1>. QED BY <1>1, <1>2, <1>3 DEF MonitoringNext, Proceed, NothingToDeliver, Next

(* While a process is in its run, its delivery is idle; nobody else is     *)
(* there to deliver.                                                       *)
LEMMA IdleInRun ==
  ASSUME DeliveryInv, NEW p \in Procs, pc[p] # "committed" PROVE dpc[p] = "idle"
BY DEF DeliveryInv, Delivering

-----------------------------------------------------------------------------
(***************************************************************************)
(* The steps of a delivery.                                                *)
(***************************************************************************)

LEMMA FetchDelivers ==
  ASSUME OneProcess, DeliveryInv, NEW p \in Procs, InDelivery(p), Delivery!Fetch(p), UNCHANGED runVars
  PROVE  DeliveryInv'
<1>1. \A q \in Procs : q = p
  BY DEF OneProcess
<1> DEFINE P == Delivery!Pending
           read == [a \in P |-> alerts[a]]
<1>2. /\ UNCHANGED <<alerts, inbox, crashes, smtp, pc, sentOk, marks>>
      /\ dpc[p] = "idle" /\ DOMAIN marks[p] = {}
  BY DEF Delivery!Fetch, runVars, DeliveryInv, Idle
<1>3. batch' = [batch EXCEPT ![p] = read]
  BY DEF Delivery!Fetch
<1>4. /\ todo' = [todo EXCEPT ![p] = IF smtp = "configured" THEN P ELSE {}]
      /\ group' = [group EXCEPT ![p] = IF smtp = "configured" THEN {} ELSE P]
      /\ dpc' = [dpc EXCEPT ![p] = IF smtp = "configured" THEN "sending" ELSE "skipping"]
  BY DEF Delivery!Fetch
<1>5. P' = P
  BY <1>2 DEF Delivery!Pending
<1>6. DOMAIN read = P /\ \A a \in P : read[a] = alerts[a]
  OBVIOUS
<1>. HIDE DEF P, read
<1>7. DeliveryTypes'
  BY <1>2, <1>3, <1>4 DEF DeliveryInv, DeliveryTypes
<1>8. /\ batch'[p] = read
      /\ todo'[p] = IF smtp = "configured" THEN P ELSE {}
      /\ group'[p] = IF smtp = "configured" THEN {} ELSE P
      /\ dpc'[p] = IF smtp = "configured" THEN "sending" ELSE "skipping"
  BY <1>3, <1>4 DEF DeliveryInv, DeliveryTypes
<1>9. IF smtp = "configured" THEN Mailing(p)' ELSE Skipping(p)'
  BY <1>2, <1>6, <1>8 DEF Mailing, Skipping, Trying
<1>10. Delivering(p)'
  <2>1. DOMAIN batch'[p] = Delivery!Pending' /\ \A a \in DOMAIN batch'[p] : batch'[p][a] = alerts'[a]
    BY <1>2, <1>5, <1>6, <1>8 DEF P
  <2>. QED BY <1>2, <1>9, <2>1 DEF Delivering, InDelivery
<1>. QED BY <1>1, <1>7, <1>8, <1>10 DEF DeliveryInv

LEMMA SendDelivers ==
  ASSUME OneProcess, DeliveryInv, NEW p \in Procs, NEW ok \in BOOLEAN, NEW out \in BOOLEAN,
         InDelivery(p), Delivery!Send(p, ok, out), UNCHANGED runVars
  PROVE  DeliveryInv'
<1>1. \A q \in Procs : q = p
  BY DEF OneProcess
<1> DEFINE next == Delivery!FirstGroup(todo[p])
<1>2. /\ UNCHANGED <<alerts, batch, marks, crashes, smtp, pc>>
      /\ dpc[p] = "sending" /\ todo[p] # {}
      /\ group' = [group EXCEPT ![p] = next]
      /\ todo' = [todo EXCEPT ![p] = todo[p] \ next]
      /\ sentOk' = [sentOk EXCEPT ![p] = ok]
      /\ inbox' = IF out THEN Append(inbox, next) ELSE inbox
      /\ dpc' = [dpc EXCEPT ![p] = "marking"]
  BY DEF Delivery!Send, runVars
<1>3. next \subseteq todo[p]
  BY DEF Delivery!FirstGroup
<1>4. Delivering(p) /\ smtp = "configured" /\ Mailing(p)
  BY <1>2 DEF DeliveryInv, Delivering, Skipping
<1>5. next \in SUBSET DOMAIN alerts
  BY <1>3, <1>4 DEF Delivering, Mailing, Delivery!Pending
<1>. HIDE DEF next
<1>6. inbox' \in Seq(SUBSET DOMAIN alerts)
  BY <1>2, <1>5 DEF DeliveryInv, DeliveryTypes
<1>7. DeliveryTypes'
  BY <1>2, <1>6 DEF DeliveryInv, DeliveryTypes
<1>8. /\ group'[p] = next /\ todo'[p] = todo[p] \ next /\ dpc'[p] = "marking"
  BY <1>2 DEF DeliveryInv, DeliveryTypes
<1>9. Mailing(p)'
  BY <1>2, <1>3, <1>4, <1>8 DEF Mailing, Trying, Delivery!Outcome
<1>10. Delivery!Pending' = Delivery!Pending
  BY <1>2 DEF Delivery!Pending
<1>11. Delivering(p)'
  BY <1>2, <1>4, <1>9, <1>10 DEF Delivering
<1>. QED BY <1>1, <1>7, <1>8, <1>11 DEF DeliveryInv

LEMMA MarkDelivers ==
  ASSUME OneProcess, DeliveryInv, NEW p \in Procs, InDelivery(p), Delivery!Mark(p), UNCHANGED runVars
  PROVE  DeliveryInv'
<1>1. \A q \in Procs : q = p
  BY DEF OneProcess
<1> DEFINE new == [a \in group[p] |-> Delivery!Outcome(batch[p][a], sentOk[p])]
<1>2. /\ UNCHANGED <<alerts, batch, todo, group, sentOk, inbox, crashes, smtp, pc>>
      /\ dpc[p] = "marking" /\ dpc' = [dpc EXCEPT ![p] = "sending"]
      /\ marks' = [marks EXCEPT ![p] = Delivery!Update(marks[p], new)]
  BY DEF Delivery!Mark, runVars
<1>3. Delivering(p) /\ smtp = "configured" /\ Mailing(p) /\ sentOk[p] \in BOOLEAN
  BY <1>2 DEF DeliveryInv, DeliveryTypes, Delivering, Skipping
<1>4. DOMAIN new = group[p] /\ \A a \in group[p] : \E ok \in BOOLEAN : new[a] = Delivery!Outcome(alerts[a], ok)
  <2>1. \A a \in group[p] : batch[p][a] = alerts[a]
    BY <1>2, <1>3 DEF Delivering, Mailing, Trying
  <2>. QED BY <1>3, <2>1
<1>. HIDE DEF new
<1>5. /\ DOMAIN Delivery!Update(marks[p], new) = DOMAIN marks[p] \cup group[p]
      /\ \A a \in DOMAIN Delivery!Update(marks[p], new) :
           \E ok \in BOOLEAN : Delivery!Update(marks[p], new)[a] = Delivery!Outcome(alerts[a], ok)
  BY <1>3, <1>4 DEF Delivery!Update, Mailing
<1>6. DeliveryTypes'
  BY <1>2 DEF DeliveryInv, DeliveryTypes
<1>7. marks'[p] = Delivery!Update(marks[p], new) /\ dpc'[p] = "sending"
  BY <1>2 DEF DeliveryInv, DeliveryTypes
<1>8. Mailing(p)'
  <2>1. DOMAIN marks'[p] = DOMAIN batch[p] \ todo[p]
    BY <1>2, <1>3, <1>5, <1>7 DEF Mailing, Trying
  <2>2. \A a \in DOMAIN marks'[p] : \E ok \in BOOLEAN : marks'[p][a] = Delivery!Outcome(alerts'[a], ok)
    BY <1>2, <1>5, <1>7
  <2>3. (\A a \in DOMAIN marks[p] : \E ok \in BOOLEAN : marks[p][a] = Delivery!Outcome(alerts[a], ok))'
    BY <2>2 DEF Delivery!Outcome, Delivery!Marked
  <2>4. todo'[p] = todo[p] /\ Trying(p)' = {} /\ DOMAIN batch'[p] = DOMAIN batch[p]
    BY <1>2, <1>7 DEF Trying
  <2>5. (/\ dpc[p] # "skipping" /\ todo[p] \cup Trying(p) \subseteq DOMAIN batch[p]
         /\ todo[p] \cap Trying(p) = {}
         /\ DOMAIN marks[p] = DOMAIN batch[p] \ (todo[p] \cup Trying(p)))'
    BY <1>3, <1>7, <2>1, <2>4 DEF Mailing
  <2>. QED BY <2>3, <2>5 DEF Mailing
<1>9. Delivery!Pending' = Delivery!Pending
  BY <1>2 DEF Delivery!Pending
<1>10. Delivering(p)'
  BY <1>2, <1>3, <1>8, <1>9 DEF Delivering
<1>. QED BY <1>1, <1>6, <1>7, <1>10 DEF DeliveryInv

LEMMA SkipDelivers ==
  ASSUME OneProcess, DeliveryInv, NEW p \in Procs, InDelivery(p), Delivery!MarkSkipped(p), UNCHANGED runVars
  PROVE  DeliveryInv'
<1>1. \A q \in Procs : q = p
  BY DEF OneProcess
<1> DEFINE row(a) == Delivery!Marked(batch[p][a], "skipped", batch[p][a].attempts)
<1>2. /\ UNCHANGED <<alerts, batch, todo, group, sentOk, inbox, crashes, smtp, pc>>
      /\ dpc[p] = "skipping" /\ dpc' = [dpc EXCEPT ![p] = "sending"]
      /\ marks' = [marks EXCEPT ![p] = [a \in group[p] |-> row(a)]]
  BY DEF Delivery!MarkSkipped, runVars
<1>3. Delivering(p) /\ smtp # "configured" /\ Skipping(p)
  BY <1>2 DEF DeliveryInv, Delivering, Mailing
<1>4. group[p] = DOMAIN batch[p] /\ todo[p] = {}
  BY <1>2, <1>3 DEF Skipping
<1>5. \A a \in group[p] : row(a) = Delivery!Marked(alerts[a], "skipped", alerts[a].attempts)
  BY <1>3, <1>4 DEF Delivering
<1>. HIDE DEF row
<1>6. DeliveryTypes'
  BY <1>2 DEF DeliveryInv, DeliveryTypes
<1>7. marks'[p] = [a \in group[p] |-> row(a)] /\ dpc'[p] = "sending"
  BY <1>2 DEF DeliveryInv, DeliveryTypes
<1>8. Skipping(p)'
  <2>1. DOMAIN marks'[p] = group[p] /\ \A a \in group[p] : marks'[p][a] = row(a)
    BY <1>7
  <2>2. \A a \in group[p] : marks'[p][a] = Delivery!Marked(alerts'[a], "skipped", alerts'[a].attempts)
    BY <1>2, <1>5, <2>1
  <2>3. (\A a \in DOMAIN marks[p] :
           /\ a \in DOMAIN batch[p]
           /\ marks[p][a] = Delivery!Marked(alerts[a], "skipped", alerts[a].attempts))'
    BY <1>2, <1>4, <2>1, <2>2 DEF Delivery!Marked
  <2>4. (/\ dpc[p] # "marking" /\ todo[p] = {}
         /\ dpc[p] = "skipping" => group[p] = DOMAIN batch[p] /\ DOMAIN marks[p] = {}
         /\ dpc[p] = "sending" => DOMAIN marks[p] = DOMAIN batch[p])'
    BY <1>2, <1>4, <1>7, <2>1
  <2>. QED BY <2>3, <2>4 DEF Skipping
<1>9. Delivery!Pending' = Delivery!Pending
  BY <1>2 DEF Delivery!Pending
<1>10. Delivering(p)'
  BY <1>2, <1>3, <1>8, <1>9 DEF Delivering
<1>. QED BY <1>1, <1>6, <1>7, <1>10 DEF DeliveryInv

(* A delivery that is over, however it ended, leaves its process idle.     *)
LEMMA EndDelivers ==
  ASSUME OneProcess, DeliveryInv, NEW p \in Procs, Delivery!Reset(p),
         inbox' = inbox, smtp' = smtp, crashes' \in Nat, DOMAIN alerts' = DOMAIN alerts
  PROVE  DeliveryInv'
<1>1. \A q \in Procs : q = p
  BY DEF OneProcess
<1>2. DeliveryTypes'
  BY DEF DeliveryInv, DeliveryTypes, Delivery!Reset
<1>3. dpc'[p] = "idle" /\ batch'[p] = <<>> /\ todo'[p] = {} /\ marks'[p] = <<>>
  BY DEF DeliveryInv, DeliveryTypes, Delivery!Reset
<1>4. Idle(p)'
  BY <1>3 DEF Idle
<1>. QED BY <1>1, <1>2, <1>3, <1>4 DEF DeliveryInv

(* What a delivery commits: of the rows it read, in their places, only the *)
(* status and the attempts.                                                *)
LEMMA DeliveredRows ==
  ASSUME DeliveryInv, NEW p \in Procs, Delivered(p)
  PROVE  /\ DOMAIN alerts' = DOMAIN alerts /\ DOMAIN marks[p] = DOMAIN batch[p]
         /\ \A a \in DOMAIN alerts : alerts'[a] = IF a \in DOMAIN batch[p] THEN marks[p][a] ELSE alerts[a]
<1>1. /\ alerts' = Delivery!Update(alerts, marks[p]) /\ dpc[p] = "sending" /\ todo[p] = {}
      /\ pc[p] = "committed"
  BY DEF Delivered, Delivery!CommitMarks, Leave, Goto
<1>2. Delivering(p)
  BY <1>1 DEF DeliveryInv
<1>3. DOMAIN marks[p] = DOMAIN batch[p]
  BY <1>1, <1>2 DEF Delivering, Mailing, Skipping, Trying
<1>4. DOMAIN batch[p] \subseteq DOMAIN alerts
  BY <1>2 DEF Delivering, Delivery!Pending
<1>. QED BY <1>1, <1>3, <1>4 DEF Delivery!Update

(* What is a sequence of parts of a set is one of parts of a larger set.   *)
LEMMA SeqsOfMore ==
  ASSUME NEW S, NEW T, S \subseteq T, NEW s \in Seq(SUBSET S) PROVE s \in Seq(SUBSET T)
<1>1. SUBSET S \subseteq SUBSET T
  OBVIOUS
<1>2. \A X, Y : X \subseteq Y => \A x \in Seq(X) : x \in Seq(Y)
  OBVIOUS
<1>. QED BY <1>1, <1>2

(* A step of the runs outside a delivery. *)
LEMMA RunDelivers ==
  ASSUME DeliveryInv, UNCHANGED dispatchVars,
         \A p \in Procs : pc[p] = "committed" /\ dpc[p] # "idle" => pc'[p] = "committed",
         DOMAIN alerts \subseteq DOMAIN alerts',
         (\E p \in Procs : dpc[p] # "idle") => alerts' = alerts
  PROVE  DeliveryInv'
<1>1. UNCHANGED <<dpc, batch, todo, group, sentOk, marks, inbox, crashes, smtp>>
  BY DEF dispatchVars
<1>2. inbox \in Seq(SUBSET DOMAIN alerts')
  BY SeqsOfMore DEF DeliveryInv, DeliveryTypes
<1>3. DeliveryTypes'
  BY <1>1, <1>2 DEF DeliveryInv, DeliveryTypes
<1>4. ASSUME NEW p \in Procs, dpc[p] # "idle" PROVE Delivering(p)'
  <2>1. alerts' = alerts /\ Delivering(p) /\ pc'[p] = "committed"
    BY <1>4 DEF DeliveryInv, Delivering
  <2>2. Delivery!Pending' = Delivery!Pending
    BY <2>1 DEF Delivery!Pending
  <2>. QED BY <1>1, <2>1, <2>2
       DEF Delivering, Mailing, Skipping, Trying, Delivery!Outcome, Delivery!Marked
<1>. QED BY <1>1, <1>3, <1>4 DEF DeliveryInv, Idle

(* DeliveryInv is inductive for one process: one case per action. *)
LEMMA DeliveryStep ==
  ASSUME OneProcess, TypeInv, DeliveryInv, [MonitoringNext]_mvars PROVE DeliveryInv'
<1>1. CASE UNCHANGED mvars
  BY <1>1, RunDelivers DEF mvars, runVars
<1>2. ASSUME NEW p \in Procs, Deliver(p) PROVE DeliveryInv'
  BY <1>2, FetchDelivers, SendDelivers, MarkDelivers, SkipDelivers DEF Deliver
<1>3. ASSUME NEW p \in Procs, Delivered(p) PROVE DeliveryInv'
  <2>1. /\ Delivery!Reset(p) /\ inbox' = inbox /\ smtp' = smtp /\ crashes' = crashes
        /\ DOMAIN alerts' = DOMAIN alerts /\ crashes \in Nat
    BY <1>3, DeliveredRows DEF Delivered, Delivery!CommitMarks, DeliveryInv, DeliveryTypes
  <2>. QED BY <2>1, EndDelivers
<1>4. ASSUME NEW p \in Procs, DeliveryFails(p) PROVE DeliveryInv'
  <2>1. /\ Delivery!Reset(p) /\ inbox' = inbox /\ smtp' = smtp /\ crashes' = crashes + 1
        /\ alerts' = alerts /\ crashes \in Nat
    BY <1>4 DEF DeliveryFails, Delivery!Crash, DeliveryInv, DeliveryTypes
  <2>. QED BY <2>1, EndDelivers
<1>5. ASSUME NEW p \in Procs, NothingToDeliver(p) PROVE DeliveryInv'
  <2>1. UNCHANGED dispatchVars /\ alerts' = alerts /\ dpc[p] = "idle" /\ \A q \in Procs : q = p
    BY <1>5 DEF NothingToDeliver, Return, OneProcess
  <2>. QED BY <2>1, RunDelivers
<1>6. CASE Environment /\ UNCHANGED dispatchVars
  BY <1>6, RunDelivers DEF Environment, Wait, NewReadings, tables
<1>7. ASSUME NEW p \in Procs, (Load(p) \/ RunStep(p) \/ Abort(p)) /\ UNCHANGED dispatchVars
      PROVE  DeliveryInv'
  <2>1. pc[p] # "committed" /\ \A q \in Procs : q = p
    BY <1>7 DEF Load, RunStep, Compute, Start, Claim, Replay, Learn, ReadView, DecideAlerts,
                SaveArtifact, LockAsset, Commit, Abort, Fail, Goto, OneProcess
  <2>2. dpc[p] = "idle"
    BY <2>1, IdleInRun
  <2>3. DOMAIN alerts \subseteq DOMAIN alerts'
    <3>1. CASE Commit(p)
      BY <3>1 DEF Commit
    <3>2. CASE ~Commit(p)
      BY <1>7, <3>2 DEF Load, RunStep, Compute, Start, Claim, Replay, Learn, ReadView, DecideAlerts,
                SaveArtifact, LockAsset, Abort, Fail, tables
    <3>. QED BY <3>1, <3>2
  <2>. QED BY <1>7, <2>1, <2>2, <2>3, RunDelivers
<1>. QED BY <1>1, <1>2, <1>3, <1>4, <1>5, <1>6, <1>7 DEF MonitoringNext, Proceed

-----------------------------------------------------------------------------
(***************************************************************************)
(* What the runs rely on survives the bookkeeping of the deliveries.       *)
(***************************************************************************)

(* A delivery's commit changes the status and the attempts of alerts that  *)
(* are pending, to others than "suppressed".                               *)
LEMMA OnlyBookkeeping ==
  ASSUME TypeInv, DeliveryInv, NEW p \in Procs, Delivered(p), NEW a \in DOMAIN alerts
  PROVE  /\ alerts'[a] \in AlertRow
         /\ alerts'[a].kind = alerts[a].kind /\ alerts'[a].at = alerts[a].at
         /\ alerts'[a].status = "suppressed" <=> alerts[a].status = "suppressed"
         /\ alerts'[a] # alerts[a] => alerts[a].status = "pending"
<1>1. alerts[a] \in AlertRow
  BY DEF TypeInv, TypeOK
<1>2. alerts'[a] = IF a \in DOMAIN batch[p] THEN marks[p][a] ELSE alerts[a]
  BY DeliveredRows
<1>3. CASE a \notin DOMAIN batch[p]
  BY <1>1, <1>2, <1>3
<1>4. CASE a \in DOMAIN batch[p]
  <2>1. Delivering(p) /\ a \in DOMAIN marks[p] /\ a \in Delivery!Pending
    BY <1>4, DeliveredRows DEF DeliveryInv, Delivering, Delivered, Delivery!CommitMarks
  <2>2. \E status \in Statuses \ {"suppressed"}, n \in Nat : marks[p][a] = Delivery!Marked(alerts[a], status, n)
    <3>1. alerts[a].attempts \in Nat /\ alerts[a].attempts + 1 \in Nat
      BY <1>1 DEF AlertRow
    <3>2. CASE smtp = "configured"
      BY <2>1, <3>1, <3>2 DEF Delivering, Mailing, Delivery!Outcome, Statuses
    <3>3. CASE smtp # "configured"
      BY <2>1, <3>1, <3>3 DEF Delivering, Skipping, Statuses
    <3>. QED BY <3>2, <3>3
  <2>3. \A status \in Statuses, n \in Nat :
          LET row == Delivery!Marked(alerts[a], status, n)
          IN  /\ row \in AlertRow /\ row.kind = alerts[a].kind /\ row.at = alerts[a].at
              /\ row.status = status
    BY <1>1 DEF Delivery!Marked, AlertRow
  <2>. QED BY <1>2, <1>4, <2>1, <2>2, <2>3 DEF Delivery!Pending
<1>. QED BY <1>3, <1>4

(* The newest alert and the last word on a condition are then the same, up *)
(* to that bookkeeping.                                                    *)
LEMMA SameStory ==
  ASSUME SequentialInv, DeliveryInv, NEW p \in Procs, Delivered(p), NEW i \in Identities
  PROVE  /\ LatestAlert'[i].kind = LatestAlert[i].kind /\ LatestAlert'[i].at = LatestAlert[i].at
         /\ LatestAlert'[i] = NoAlert <=> LatestAlert[i] = NoAlert
         /\ LatestAlert'[i].status = "suppressed" <=> LatestAlert[i].status = "suppressed"
         /\ LastWord(i)' = LastWord(i)
<1> DEFINE last(S) == CHOOSE id \in S : \A o \in S : o[2] <= id[2]
           ids == {id \in DOMAIN alerts : id[1] = i}
<1>1. TypeInv /\ OrderInv /\ DOMAIN alerts' = DOMAIN alerts
  BY DeliveredRows DEF SequentialInv
<1>2. LatestAlert[i] = IF ids = {} THEN NoAlert ELSE alerts[last(ids)]
  BY DEF LatestAlert
<1>3. LatestAlert'[i] = IF ids = {} THEN NoAlert ELSE alerts'[last(ids)]
  BY <1>1 DEF LatestAlert
<1>4. ids # {} => last(ids) \in DOMAIN alerts
  BY <1>1, NewestId
<1>5. \A row \in AlertRow : row # NoAlert
  BY DEF AlertRow, NoAlert, Kinds
<1>6. \A a \in DOMAIN alerts : alerts[a] \in AlertRow /\ alerts'[a] \in AlertRow
  BY <1>1, OnlyBookkeeping DEF TypeInv, TypeOK
<1>7. Audible(i)' = Audible(i) /\ Audible(i) \subseteq DOMAIN alerts
  BY <1>1, OnlyBookkeeping DEF Audible
<1>8. LastWord(i) = IF Audible(i) = {} THEN "none" ELSE alerts[last(Audible(i))].kind
  BY DEF LastWord
<1>9. LastWord(i)' = IF Audible(i) = {} THEN "none" ELSE alerts'[last(Audible(i))].kind
  BY <1>7 DEF LastWord
<1>10. Audible(i) # {} => last(Audible(i)) \in DOMAIN alerts
  BY <1>1, <1>7, NewestId
<1>. HIDE DEF last, ids
<1>11. LastWord(i)' = LastWord(i)
  BY <1>1, <1>8, <1>9, <1>10, OnlyBookkeeping
<1>. QED BY <1>1, <1>2, <1>3, <1>4, <1>5, <1>6, <1>11, OnlyBookkeeping

LEMMA DeliveredSequential ==
  ASSUME OneProcess, SequentialInv, DeliveryInv, NEW p \in Procs, Delivered(p) PROVE SequentialInv'
<1>1. /\ UNCHANGED <<readings, runs, findings, artifacts, assetLock, txn, clock, faults, calls>>
      /\ pc[p] = "committed" /\ pc' = [pc EXCEPT ![p] = "idle"]
      /\ DOMAIN alerts' = DOMAIN alerts
  BY DeliveredRows DEF Delivered, Leave, Goto, budget
<1>2. \A q \in Procs : q = p
  BY DEF OneProcess
<1>3. pc'[p] = "idle"
  BY <1>1 DEF SequentialInv, TypeInv, TypeOK
<1>4. TypeInv'
  <2>1. alerts' \in [DOMAIN alerts' -> AlertRow] /\ DOMAIN alerts' \subseteq Identities \X Nat
    <3>1. \A a \in DOMAIN alerts : alerts'[a] \in AlertRow
      BY OnlyBookkeeping DEF SequentialInv
    <3>2. alerts' = [a \in DOMAIN alerts' |-> alerts'[a]]
      BY DEF Delivered, Delivery!CommitMarks, Delivery!Update
    <3>. QED BY <1>1, <3>1, <3>2 DEF SequentialInv, TypeInv, TypeOK
  <2>. QED BY <1>1, <1>2, <1>3, <2>1 DEF SequentialInv, TypeInv, TypeOK, Bounded, InRange, Working
<1>5. AtomicInv'
  <2>1. \A a \in DOMAIN alerts : alerts'[a].kind = alerts[a].kind
    BY OnlyBookkeeping DEF SequentialInv
  <2>2. AllOrNothing'
    BY <1>1, <2>1 DEF SequentialInv, AtomicInv, AllOrNothing, AlertJustified, CriticalIn
  <2>. QED BY <1>2, <1>3, <2>2 DEF AtomicInv, SeenBy, JustifiedBy
<1>6. OneRunPerInput'
  BY <1>1, <1>2, <1>3 DEF SequentialInv, OneRunPerInput, Open, OpenPcs, Completed
<1>7. OrderInv'
  BY <1>1, <1>2, <1>3 DEF SequentialInv, OrderInv, Older, InOrder, OpenPcs
<1>8. ViewInv'
  <2>1. LatestRun' = LatestRun
    BY <1>1 DEF LatestRun
  <2>2. ListedIdentities' = ListedIdentities
    BY <1>1, <2>1 DEF ListedIdentities
  <2>3. View' = View
    BY <1>1, <2>2 DEF View
  <2>4. ViewIsLatestRun'
    BY <1>1, <2>1, <2>3 DEF SequentialInv, ViewInv, ViewIsLatestRun, SameValue
  <2>. QED BY <1>2, <1>3, <2>4 DEF ViewInv, ReadsCurrent
<1>. QED BY <1>4, <1>5, <1>6, <1>7, <1>8 DEF SequentialInv

(* The invariants of the runs and of the deliveries, in one formula; it is *)
(* inductive for one process.                                              *)
MonitoringInv == SequentialInv /\ DeliveryInv

LEMMA MonitoringStarts == MonitoringInit => MonitoringInv
<1>. SUFFICES ASSUME MonitoringInit PROVE MonitoringInv
  OBVIOUS
<1>1. SequentialInv
  BY SequentialInit DEF MonitoringInit
<1>2. DeliveryTypes
  BY DEF MonitoringInit, Delivery!DispatchInit, Init, DeliveryTypes
<1>3. \A p \in Procs : dpc[p] = "idle" /\ Idle(p)
  BY DEF MonitoringInit, Delivery!DispatchInit, Idle
<1>. QED BY <1>1, <1>2, <1>3 DEF MonitoringInv, DeliveryInv

LEMMA MonitoringStep == OneProcess /\ MonitoringInv /\ [MonitoringNext]_mvars => MonitoringInv'
<1>. SUFFICES ASSUME OneProcess, MonitoringInv, [MonitoringNext]_mvars PROVE MonitoringInv'
  OBVIOUS
<1>1. SequentialInv'
  BY StepsOfRuns, SequentialStep, DeliveredSequential DEF MonitoringInv
<1>2. DeliveryInv'
  BY DeliveryStep DEF MonitoringInv, SequentialInv
<1>. QED BY <1>1, <1>2 DEF MonitoringInv

-----------------------------------------------------------------------------
(***************************************************************************)
(* An outcome is final.                                                    *)
(***************************************************************************)

(* An outcome, once recorded, is not taken back by a later delivery, nor   *)
(* by the runs that write to the same table: the SELECT takes pending rows *)
(* only, and a process marks what it read before it reads again            *)
(* (AlertDispatcher.dispatch, PostgresAlertRepository.mark).               *)
THEOREM OutcomesAreFinal == ASSUME OneProcess PROVE MonitoringSpec => OutcomeIsFinal
<1> DEFINE Kept == \A a \in DOMAIN alerts : alerts[a].status \in Delivery!Final => alerts'[a] = alerts[a]
<1>1. ASSUME MonitoringInv, [MonitoringNext]_mvars PROVE [Kept]_alerts
  <2>1. ASSUME NEW p \in Procs, Delivered(p) PROVE Kept
    <3>1. \A a \in DOMAIN alerts : alerts'[a] # alerts[a] => alerts[a].status = "pending"
      BY <1>1, <2>1, OnlyBookkeeping DEF MonitoringInv, SequentialInv
    <3>. QED BY <3>1 DEF Delivery!Final
  <2>2. CASE [Next]_vars
    <3>1. ASSUME NEW p \in Procs, Commit(p) PROVE Kept
      BY <1>1, <3>1, CommitRows DEF MonitoringInv, SequentialInv
    <3>. QED BY <2>2, <3>1, OnlyCommitStores
  <2>. QED BY <1>1, <2>1, <2>2, StepsOfRuns
<1>2. MonitoringSpec => [][Kept]_alerts
  BY <1>1, MonitoringStarts, MonitoringStep, PTL DEF MonitoringSpec
<1>. QED BY <1>2 DEF OutcomeIsFinal, Delivery!OutcomeIsFinal

-----------------------------------------------------------------------------
(***************************************************************************)
(* The number of emails.                                                   *)
(***************************************************************************)

(* The alerts whose email was tried in this delivery, which the table does *)
(* not know yet.                                                           *)
Tried(p) == IF smtp = "configured" THEN DOMAIN batch[p] \ todo[p] ELSE {}

(* An alert was emailed as often as the table counts attempts, but for the *)
(* attempt in progress and those of deliveries that died.                  *)
Uncounted(a) == IF \E p \in Procs : a \in Tried(p) THEN 1 ELSE 0

CountInv ==
  \A a \in DOMAIN alerts :
    /\ alerts[a].attempts <= MaxAttempts
    /\ Delivery!Emails(a) <= alerts[a].attempts + crashes + Uncounted(a)

LEMMA EmailsAre ==
  ASSUME NEW a
  PROVE  Delivery!Emails(a) = Cardinality({n \in DOMAIN inbox : a \in inbox[n]})
BY DEF Delivery!Emails, Delivery!Cardinality, Cardinality

LEMMA EmailsAreCounted ==
  ASSUME DeliveryInv, NEW a PROVE Delivery!Emails(a) \in Nat
<1> DEFINE E == {n \in DOMAIN inbox : a \in inbox[n]}
<1>1. Len(inbox) \in Nat /\ DOMAIN inbox = 1..Len(inbox)
  BY DEF DeliveryInv, DeliveryTypes
<1>2. IsFiniteSet(1..Len(inbox))
  BY <1>1, FS_Interval
<1>3. E \subseteq 1..Len(inbox)
  BY <1>1
<1>. HIDE DEF E
<1>4. IsFiniteSet(E) /\ Cardinality(E) \in Nat
  BY <1>2, <1>3, FS_Subset, FS_CardinalityType
<1>. QED BY <1>4, EmailsAre DEF E

(* An email more is one more for those it is about. *)
LEMMA EmailsGrow ==
  ASSUME DeliveryInv, NEW S, inbox' = Append(inbox, S), NEW a
  PROVE  Delivery!Emails(a)' = IF a \in S THEN Delivery!Emails(a) + 1 ELSE Delivery!Emails(a)
<1> DEFINE E == {n \in DOMAIN inbox : a \in inbox[n]}
           F == {n \in DOMAIN inbox' : a \in inbox'[n]}
           new == Len(inbox) + 1
<1>1. /\ Len(inbox) \in Nat /\ DOMAIN inbox = 1..Len(inbox)
      /\ DOMAIN inbox' = 1..new /\ inbox'[new] = S
      /\ \A n \in 1..Len(inbox) : inbox'[n] = inbox[n]
  BY DEF DeliveryInv, DeliveryTypes
<1>2. F = IF a \in S THEN E \cup {new} ELSE E
  <2>1. \A n : n \in 1..new <=> n \in 1..Len(inbox) \/ n = new
    BY <1>1
  <2>. QED BY <1>1, <2>1
<1>3. IsFiniteSet(1..Len(inbox)) /\ E \subseteq 1..Len(inbox) /\ new \notin E
  BY <1>1, FS_Interval
<1>. HIDE DEF E, F, new
<1>4. IsFiniteSet(E)
  BY <1>3, FS_Subset
<1>5. Cardinality(E \cup {new}) = Cardinality(E) + 1
  BY <1>3, <1>4, FS_AddElement
<1>6. Delivery!Emails(a)' = Cardinality(F)
  BY DEF Delivery!Emails, Delivery!Cardinality, Cardinality, F
<1>. QED BY <1>2, <1>5, <1>6, EmailsAre DEF E

(* An alert that no email was about has none. *)
LEMMA NotEmailed ==
  ASSUME DeliveryInv, NEW a, a \notin DOMAIN alerts
  PROVE  Delivery!Emails(a) = 0
<1>1. {n \in DOMAIN inbox : a \in inbox[n]} = {}
  BY DEF DeliveryInv, DeliveryTypes
<1>. QED BY <1>1, EmailsAre, FS_EmptySet

(* A new alert has no attempts. *)
LEMMA FreshIsUntried ==
  ASSUME SequentialInv, NEW p \in Procs, Commit(p), NEW i \in DOMAIN txn[p].fresh
  PROVE  txn[p].fresh[i].attempts = 0
<1>1. txn[p].fresh = Decide(Critical(txn[p].view), Critical(txn[p].found), LatestAlert, txn[p].started)
  BY DEF SequentialInv, ViewInv, ReadsCurrent, Commit, Goto
<1>. QED BY <1>1 DEF Decide, Announce, Close, MakeAlert

(* Nothing is counted anew when neither table nor inbox move, but for what *)
(* a delivery that dies takes back.                                        *)
LEMMA CountKept ==
  ASSUME MonitoringInv, CountInv, UNCHANGED <<alerts, inbox>>,
         \/ crashes' = crashes /\ \A p \in Procs : Tried(p)' = Tried(p)
         \/ crashes' = crashes + 1
  PROVE  CountInv'
<1>1. SUFFICES ASSUME NEW a \in DOMAIN alerts
               PROVE  Delivery!Emails(a) <= alerts[a].attempts + crashes' + Uncounted(a)'
  BY DEF CountInv, Delivery!Emails
<1>2. /\ crashes \in Nat /\ alerts[a].attempts \in Nat /\ Delivery!Emails(a) \in Nat
      /\ Delivery!Emails(a) <= alerts[a].attempts + crashes + Uncounted(a)
  BY EmailsAreCounted
     DEF MonitoringInv, SequentialInv, DeliveryInv, DeliveryTypes, TypeInv, TypeOK, AlertRow, CountInv
<1>3. Uncounted(a) \in {0, 1} /\ Uncounted(a)' \in {0, 1}
  BY DEF Uncounted
<1>4. CASE crashes' = crashes /\ \A p \in Procs : Tried(p)' = Tried(p)
  <2>1. Uncounted(a)' = Uncounted(a)
    BY <1>4 DEF Uncounted
  <2>. QED BY <1>2, <1>4, <2>1
<1>5. CASE crashes' = crashes + 1
  BY <1>2, <1>3, <1>5
<1>. QED BY <1>4, <1>5

LEMMA SendCounts ==
  ASSUME OneProcess, MonitoringInv, CountInv, NEW p \in Procs, NEW ok \in BOOLEAN, NEW out \in BOOLEAN,
         Delivery!Send(p, ok, out)
  PROVE  CountInv'
<1> DEFINE next == Delivery!FirstGroup(todo[p])
<1>1. /\ UNCHANGED <<alerts, batch, crashes, smtp>> /\ dpc[p] = "sending" /\ todo[p] # {}
      /\ todo'[p] = todo[p] \ next /\ next \subseteq todo[p]
      /\ inbox' = inbox \/ inbox' = Append(inbox, next)
  BY DEF Delivery!Send, Delivery!FirstGroup, MonitoringInv, DeliveryInv, DeliveryTypes
<1>2. \A q \in Procs : q = p
  BY DEF OneProcess
<1>3. smtp = "configured" /\ todo[p] \subseteq DOMAIN batch[p]
  BY <1>1 DEF MonitoringInv, DeliveryInv, Delivering, Mailing, Skipping
<1>. HIDE DEF next
<1>4. Tried(p)' = Tried(p) \cup next /\ Tried(p) \cap next = {}
  BY <1>1, <1>3 DEF Tried
<1>5. SUFFICES ASSUME NEW a \in DOMAIN alerts
               PROVE  Delivery!Emails(a)' <= alerts[a].attempts + crashes + Uncounted(a)'
  BY <1>1 DEF CountInv
<1>6. /\ crashes \in Nat /\ alerts[a].attempts \in Nat /\ Delivery!Emails(a) \in Nat
      /\ Delivery!Emails(a) <= alerts[a].attempts + crashes + Uncounted(a)
  BY EmailsAreCounted
     DEF MonitoringInv, SequentialInv, DeliveryInv, DeliveryTypes, TypeInv, TypeOK, AlertRow, CountInv
<1>7. Uncounted(a)' = IF a \in next THEN Uncounted(a) + 1 ELSE Uncounted(a)
  BY <1>2, <1>4 DEF Uncounted
<1>8. CASE inbox' = inbox
  <2>1. Delivery!Emails(a)' = Delivery!Emails(a)
    BY <1>8 DEF Delivery!Emails
  <2>2. Uncounted(a) \in {0, 1}
    BY DEF Uncounted
  <2>. QED BY <1>6, <1>7, <2>1, <2>2
<1>9. CASE inbox' = Append(inbox, next)
  <2>1. Delivery!Emails(a)' = IF a \in next THEN Delivery!Emails(a) + 1 ELSE Delivery!Emails(a)
    BY <1>9, EmailsGrow DEF MonitoringInv
  <2>2. Uncounted(a) \in {0, 1}
    BY DEF Uncounted
  <2>. QED BY <1>6, <1>7, <2>1, <2>2
<1>. QED BY <1>1, <1>8, <1>9

LEMMA DeliveredCounts ==
  ASSUME OneProcess, MonitoringInv, CountInv, NEW p \in Procs, Delivered(p) PROVE CountInv'
<1>1. /\ UNCHANGED <<inbox, crashes, smtp>> /\ dpc[p] = "sending" /\ todo[p] = {}
      /\ DOMAIN alerts' = DOMAIN alerts /\ Idle(p)' /\ Delivering(p)
  <2>1. Delivery!Reset(p) /\ UNCHANGED <<inbox, crashes, smtp>> /\ dpc[p] = "sending" /\ todo[p] = {}
    BY DEF Delivered, Delivery!CommitMarks
  <2>2. batch'[p] = <<>> /\ todo'[p] = {} /\ marks'[p] = <<>>
    BY <2>1 DEF MonitoringInv, DeliveryInv, DeliveryTypes, Delivery!Reset
  <2>3. DOMAIN alerts' = DOMAIN alerts
    BY DeliveredRows DEF MonitoringInv
  <2>4. Idle(p)'
    BY <2>2 DEF Idle
  <2>. QED BY <2>1, <2>3, <2>4 DEF MonitoringInv, DeliveryInv
<1>2. \A q \in Procs : q = p
  BY DEF OneProcess
<1>3. SUFFICES ASSUME NEW a \in DOMAIN alerts
               PROVE  /\ alerts'[a].attempts <= MaxAttempts
                      /\ Delivery!Emails(a) <= alerts'[a].attempts + crashes + Uncounted(a)'
  BY <1>1 DEF CountInv, Delivery!Emails
<1>4. /\ crashes \in Nat /\ alerts[a].attempts \in Nat /\ Delivery!Emails(a) \in Nat
      /\ alerts[a].attempts <= MaxAttempts
      /\ Delivery!Emails(a) <= alerts[a].attempts + crashes + Uncounted(a)
      /\ alerts[a] \in AlertRow
  BY EmailsAreCounted
     DEF MonitoringInv, SequentialInv, DeliveryInv, DeliveryTypes, TypeInv, TypeOK, AlertRow, CountInv
<1>5. Uncounted(a)' = 0
  BY <1>1, <1>2 DEF Uncounted, Tried, Idle
<1>6. Uncounted(a) = IF smtp = "configured" /\ a \in DOMAIN batch[p] THEN 1 ELSE 0
  BY <1>1, <1>2 DEF Uncounted, Tried
<1>7. CASE a \notin DOMAIN batch[p]
  <2>1. alerts'[a] = alerts[a]
    BY <1>7, DeliveredRows DEF MonitoringInv
  <2>. QED BY <1>4, <1>5, <1>6, <1>7, <2>1
<1>8. CASE a \in DOMAIN batch[p] /\ smtp = "configured"
  <2>1. \E ok \in BOOLEAN : alerts'[a] = Delivery!Outcome(alerts[a], ok)
    BY <1>1, <1>8, DeliveredRows DEF MonitoringInv, Delivering, Mailing
  <2>2. alerts'[a].attempts = alerts[a].attempts + 1
    BY <1>4, <2>1 DEF Delivery!Outcome, Delivery!Marked, AlertRow
  <2>3. alerts[a].attempts < MaxAttempts
    BY <1>1, <1>8 DEF Delivering, Delivery!Pending
  <2>. QED BY <1>4, <1>5, <1>6, <1>8, <2>2, <2>3, MonitoringAssumption
<1>9. CASE a \in DOMAIN batch[p] /\ smtp # "configured"
  <2>1. alerts'[a] = Delivery!Marked(alerts[a], "skipped", alerts[a].attempts)
    BY <1>1, <1>9, DeliveredRows DEF MonitoringInv, Delivering, Skipping
  <2>2. alerts'[a].attempts = alerts[a].attempts
    BY <1>4, <2>1 DEF Delivery!Marked, AlertRow
  <2>. QED BY <1>4, <1>5, <1>6, <1>9, <2>2
<1>. QED BY <1>7, <1>8, <1>9

LEMMA CommitCounts ==
  ASSUME OneProcess, MonitoringInv, CountInv, NEW p \in Procs, Commit(p), UNCHANGED dispatchVars
  PROVE  CountInv'
<1>1. UNCHANGED <<batch, todo, inbox, crashes, smtp>>
  BY DEF dispatchVars
<1>2. SUFFICES ASSUME NEW a \in DOMAIN alerts'
               PROVE  /\ alerts'[a].attempts <= MaxAttempts
                      /\ Delivery!Emails(a) <= alerts'[a].attempts + crashes + Uncounted(a)
  BY <1>1 DEF CountInv, Delivery!Emails, Uncounted, Tried
<1>3. CASE a \in DOMAIN alerts
  BY <1>3, CommitRows DEF MonitoringInv, SequentialInv, CountInv
<1>4. CASE a \notin DOMAIN alerts
  <2>1. a \in AlertIds(p)
    BY <1>4, CommitRows DEF MonitoringInv, SequentialInv
  <2>2. PICK i \in DOMAIN txn[p].fresh : a = <<i, txn[p].started>>
    BY <2>1 DEF AlertIds
  <2>3. alerts'[a] = txn[p].fresh[i]
    BY <2>2, CommitRows DEF MonitoringInv, SequentialInv
  <2>4. txn[p].fresh[i].attempts = 0
    BY FreshIsUntried DEF MonitoringInv
  <2>5. Delivery!Emails(a) = 0 /\ crashes \in Nat /\ Uncounted(a) \in {0, 1}
    BY <1>4, NotEmailed DEF MonitoringInv, DeliveryInv, DeliveryTypes, Uncounted
  <2>. QED BY <2>3, <2>4, <2>5, MonitoringAssumption
<1>. QED BY <1>3, <1>4

(* CountInv is inductive for one process. *)
LEMMA CountStep ==
  OneProcess /\ MonitoringInv /\ CountInv /\ [MonitoringNext]_mvars => CountInv'
<1>. SUFFICES ASSUME OneProcess, MonitoringInv, CountInv, [MonitoringNext]_mvars PROVE CountInv'
  OBVIOUS
<1>1. CASE UNCHANGED mvars
  BY <1>1, CountKept DEF mvars, dispatchVars, Tried
<1>2. ASSUME NEW p \in Procs, Deliver(p) PROVE CountInv'
  <2>1. ASSUME Delivery!Fetch(p) PROVE CountInv'
    <3>1. UNCHANGED <<alerts, inbox, crashes, smtp>> /\ dpc[p] = "idle"
      BY <2>1 DEF Delivery!Fetch
    <3>2. Tried(p) = {}
      BY <3>1 DEF MonitoringInv, DeliveryInv, Idle, Tried
    <3>3. smtp = "configured" => DOMAIN batch'[p] = todo'[p]
      BY <2>1 DEF Delivery!Fetch, MonitoringInv, DeliveryInv, DeliveryTypes
    <3>4. Tried(p)' = {}
      BY <3>1, <3>3 DEF Tried
    <3>. QED BY <3>1, <3>2, <3>4, CountKept DEF OneProcess
  <2>2. ASSUME Delivery!Mark(p) \/ Delivery!MarkSkipped(p) PROVE CountInv'
    <3>1. UNCHANGED <<alerts, batch, todo, inbox, crashes, smtp>>
      BY <2>2 DEF Delivery!Mark, Delivery!MarkSkipped
    <3>. QED BY <3>1, CountKept DEF Tried
  <2>. QED BY <1>2, <2>1, <2>2, SendCounts DEF Deliver
<1>3. ASSUME NEW p \in Procs, DeliveryFails(p) PROVE CountInv'
  BY <1>3, CountKept DEF DeliveryFails, Delivery!Crash
<1>4. ASSUME UNCHANGED dispatchVars, UNCHANGED alerts PROVE CountInv'
  BY <1>4, CountKept DEF dispatchVars, Tried
<1>5. CASE Environment /\ UNCHANGED dispatchVars
  BY <1>4, <1>5 DEF Environment, Wait, NewReadings, tables
<1>6. ASSUME NEW p \in Procs, (Load(p) \/ RunStep(p) \/ Abort(p)) /\ UNCHANGED dispatchVars
      PROVE  CountInv'
  <2>1. CASE Commit(p)
    BY <1>6, <2>1, CommitCounts
  <2>2. CASE ~Commit(p)
    BY <1>4, <1>6, <2>2 DEF Load, RunStep, Compute, Start, Claim, Replay, Learn, ReadView, DecideAlerts,
                SaveArtifact, LockAsset, Abort, Fail, tables
  <2>. QED BY <2>1, <2>2
<1>7. ASSUME NEW p \in Procs, NothingToDeliver(p) PROVE CountInv'
  BY <1>4, <1>7 DEF NothingToDeliver, Return
<1>. QED BY <1>1, <1>2, <1>3, <1>5, <1>6, <1>7, DeliveredCounts DEF MonitoringNext, Proceed

(* "Up to 5 attempts" (docs/TECHNICAL-WALKTHROUGH.md): over any number of  *)
(* cycles, an inbox gets an alert at most that often, but for the          *)
(* deliveries that died before their record was committed, whatever the    *)
(* mail server refuses, times out on or takes all the same.                *)
THEOREM AttemptsAreBounded == ASSUME OneProcess PROVE MonitoringSpec => []AtMostMaxAttempts
<1>1. MonitoringInit => CountInv
  BY DEF MonitoringInit, Init, CountInv
<1>2. MonitoringInv /\ CountInv => AtMostMaxAttempts
  <2>. SUFFICES ASSUME MonitoringInv, CountInv, NEW a \in DOMAIN alerts
                PROVE  Delivery!Emails(a) <= MaxAttempts + crashes
    BY DEF AtMostMaxAttempts, Delivery!UpToMaxAttempts
  <2>1. /\ crashes \in Nat /\ alerts[a].attempts \in Nat /\ Delivery!Emails(a) \in Nat
        /\ alerts[a].attempts <= MaxAttempts
        /\ Delivery!Emails(a) <= alerts[a].attempts + crashes + Uncounted(a)
    BY EmailsAreCounted
       DEF MonitoringInv, SequentialInv, DeliveryInv, DeliveryTypes, TypeInv, TypeOK, AlertRow, CountInv
  <2>2. Uncounted(a) = 1 => alerts[a].attempts < MaxAttempts
    <3>1. ASSUME NEW p \in Procs, a \in Tried(p) PROVE alerts[a].attempts < MaxAttempts
      <4>1. Delivering(p)
        BY <3>1 DEF MonitoringInv, DeliveryInv, Idle, Tried
      <4>. QED BY <3>1, <4>1 DEF Tried, Delivering, Delivery!Pending
    <3>. QED BY <3>1 DEF Uncounted
  <2>3. Uncounted(a) \in {0, 1}
    BY DEF Uncounted
  <2>. QED BY <2>1, <2>2, <2>3, MonitoringAssumption
<1>. QED BY <1>1, <1>2, MonitoringStarts, MonitoringStep, CountStep, PTL DEF MonitoringSpec

-----------------------------------------------------------------------------
(***************************************************************************)
(* What is pending is tried by every run.                                  *)
(***************************************************************************)
Since(a) == {r \in runs : r.started >= a[2]}

Busy == IF \E p \in Procs : InDelivery(p) THEN 1 ELSE 0

(* A pending alert has attempts left, so no delivery passes it over; the   *)
(* runs since it was written have tried it, but the one that has yet to,   *)
(* and those that died before recording it.                                *)
Retried(a) ==
  LET n == Cardinality(Since(a))
  IN  /\ alerts[a].attempts < MaxAttempts
      /\ alerts[a].attempts + Busy <= n
      /\ n <= alerts[a].attempts + crashes + Busy

RetryInv == IsFiniteSet(runs) /\ \A a \in Backlog : Retried(a)

LEMMA BusyIsCounted ==
  ASSUME OneProcess PROVE Cardinality({p \in Procs : InDelivery(p)}) = Busy
<1>1. CASE \E p \in Procs : InDelivery(p)
  <2>1. PICK p \in Procs : InDelivery(p)
    BY <1>1
  <2>2. {q \in Procs : InDelivery(q)} = {p}
    BY <2>1 DEF OneProcess
  <2>. QED BY <1>1, <2>2, FS_Singleton DEF Busy
<1>2. CASE ~ \E p \in Procs : InDelivery(p)
  <2>1. {p \in Procs : InDelivery(p)} = {}
    BY <1>2
  <2>. QED BY <1>2, <2>1, FS_EmptySet DEF Busy
<1>. QED BY <1>1, <1>2

LEMMA SinceIsCounted ==
  ASSUME IsFiniteSet(runs), NEW a PROVE IsFiniteSet(Since(a)) /\ Cardinality(Since(a)) \in Nat
<1>1. Since(a) \in SUBSET runs
  BY DEF Since
<1>. QED BY <1>1, FS_Subset, FS_CardinalityType

LEMMA RetryKept ==
  ASSUME RetryInv, UNCHANGED <<runs, alerts, crashes>>, Busy' = Busy PROVE RetryInv'
<1>1. Backlog' = Backlog /\ \A a : Since(a)' = Since(a)
  BY DEF Backlog, Since
<1>. QED BY <1>1 DEF RetryInv, Retried

(* A new run owes an attempt to all that is pending by then. *)
LEMMA CommitRetries ==
  ASSUME OneProcess, MonitoringInv, RetryInv, NEW p \in Procs, Commit(p), UNCHANGED dispatchVars
  PROVE  RetryInv'
<1>1. /\ Busy = 0 /\ Busy' = 1 /\ crashes' = crashes /\ crashes \in Nat
  <2>1. pc[p] = "locked" /\ pc'[p] = "committed" /\ \A q \in Procs : q = p
    BY DEF Commit, Goto, OneProcess, MonitoringInv, SequentialInv, TypeInv, TypeOK
  <2>2. crashes' = crashes /\ crashes \in Nat
    BY DEF dispatchVars, MonitoringInv, DeliveryInv, DeliveryTypes
  <2>. QED BY <2>1, <2>2 DEF Busy, InDelivery
<1>2. /\ txn[p].started \in Nat
      /\ \A id \in DOMAIN alerts : id[2] \in Nat /\ id[2] < txn[p].started
  BY CommitIsAfter DEF MonitoringInv, SequentialInv
<1>3. \A r \in runs : r.started \in Nat /\ r.started < txn[p].started
  <2>1. Older(txn[p].produced) /\ txn[p].produced < txn[p].started
    BY DEF Commit, Goto, OpenPcs, OrderInv, InOrder, MonitoringInv, SequentialInv
  <2>2. txn[p].produced \in Nat /\ \A r \in runs : r.started \in Nat
    BY DEF MonitoringInv, SequentialInv, TypeInv, TypeOK, TxnOK, RunRows
  <2>. QED BY <1>2, <2>1, <2>2 DEF Older
<1>4. /\ runs' = runs \cup {RunRow(p)} /\ RunRow(p).started = txn[p].started
      /\ RunRow(p) \notin runs
  BY <1>2, <1>3 DEF Commit, RunRow
<1>5. IsFiniteSet(runs) /\ IsFiniteSet(runs')
  BY <1>4, FS_AddElement DEF RetryInv
<1>6. SUFFICES ASSUME NEW a \in Backlog' PROVE Retried(a)'
  BY <1>5 DEF RetryInv
<1>7. CASE a \in DOMAIN alerts
  <2>1. alerts'[a] = alerts[a] /\ a \in Backlog
    BY <1>6, <1>7, CommitRows DEF MonitoringInv, SequentialInv, Backlog
  <2>2. alerts[a].attempts \in Nat
    BY <1>7 DEF MonitoringInv, SequentialInv, TypeInv, TypeOK, AlertRow
  <2>3. Since(a)' = Since(a) \cup {RunRow(p)} /\ RunRow(p) \notin Since(a)
    BY <1>2, <1>4, <1>7 DEF Since
  <2>4. Cardinality(Since(a)') = Cardinality(Since(a)) + 1
    BY <1>5, <2>3, SinceIsCounted, FS_AddElement
  <2>5. Cardinality(Since(a)) \in Nat
    BY <1>5, SinceIsCounted
  <2>. QED BY <1>1, <2>1, <2>2, <2>4, <2>5 DEF RetryInv, Retried
<1>8. CASE a \notin DOMAIN alerts
  <2>1. a \in AlertIds(p)
    BY <1>6, <1>8, CommitRows DEF MonitoringInv, SequentialInv, Backlog
  <2>2. PICK i \in DOMAIN txn[p].fresh : a = <<i, txn[p].started>>
    BY <2>1 DEF AlertIds
  <2>3. alerts'[a].attempts = 0
    <3>1. alerts'[a] = txn[p].fresh[i]
      BY <2>2, CommitRows DEF MonitoringInv, SequentialInv
    <3>. QED BY <3>1, FreshIsUntried DEF MonitoringInv
  <2>4. Since(a)' = {RunRow(p)}
    BY <1>2, <1>3, <1>4, <2>2 DEF Since
  <2>5. Cardinality(Since(a)') = 1
    BY <2>4, FS_Singleton
  <2>. QED BY <1>1, <2>3, <2>5, MonitoringAssumption DEF Retried
<1>. QED BY <1>7, <1>8

(* A delivery that ends as it should has tried all that was pending. *)
LEMMA DeliveredRetries ==
  ASSUME OneProcess, MonitoringInv, RetryInv, NEW p \in Procs, Delivered(p) PROVE RetryInv'
<1>1. /\ Busy = 1 /\ Busy' = 0 /\ crashes' = crashes /\ runs' = runs /\ crashes \in Nat
  <2>1. pc[p] = "committed" /\ pc'[p] = "idle" /\ \A q \in Procs : q = p
    BY DEF Delivered, Leave, Goto, OneProcess, MonitoringInv, SequentialInv, TypeInv, TypeOK
  <2>2. crashes' = crashes /\ runs' = runs /\ crashes \in Nat
    BY DEF Delivered, Leave, Delivery!CommitMarks, MonitoringInv, DeliveryInv, DeliveryTypes
  <2>. QED BY <2>1, <2>2 DEF Busy, InDelivery
<1>2. dpc[p] = "sending" /\ todo[p] = {} /\ Delivering(p)
  BY DEF Delivered, Delivery!CommitMarks, MonitoringInv, DeliveryInv
<1>3. SUFFICES ASSUME NEW a \in Backlog' PROVE Retried(a)'
  BY <1>1 DEF RetryInv
<1>4. a \in DOMAIN alerts /\ alerts[a] \in AlertRow /\ alerts'[a].status = "pending"
  BY <1>3, DeliveredRows DEF MonitoringInv, SequentialInv, TypeInv, TypeOK, Backlog
<1>5. a \in DOMAIN batch[p]
  <2>1. ASSUME a \notin DOMAIN batch[p] PROVE FALSE
    <3>1. alerts'[a] = alerts[a]
      BY <1>4, <2>1, DeliveredRows DEF MonitoringInv
    <3>2. a \in Backlog
      BY <1>4, <3>1 DEF Backlog
    <3>3. a \in Delivery!Pending
      BY <1>4, <3>1, <3>2 DEF RetryInv, Retried, Delivery!Pending
    <3>. QED BY <1>2, <2>1, <3>3 DEF Delivering
  <2>. QED BY <2>1
<1>6. a \in Backlog /\ alerts[a].attempts < MaxAttempts
  BY <1>2, <1>5 DEF Delivering, Delivery!Pending, Backlog
<1>7. smtp = "configured"
  <2>1. ASSUME smtp # "configured" PROVE FALSE
    <3>1. alerts'[a] = Delivery!Marked(alerts[a], "skipped", alerts[a].attempts)
      BY <1>2, <1>4, <1>5, <2>1, DeliveredRows DEF MonitoringInv, Delivering, Skipping
    <3>. QED BY <1>4, <3>1 DEF Delivery!Marked, AlertRow
  <2>. QED BY <2>1
<1>8. PICK ok \in BOOLEAN : alerts'[a] = Delivery!Outcome(alerts[a], ok)
  BY <1>2, <1>4, <1>5, <1>7, DeliveredRows DEF MonitoringInv, Delivering, Mailing
<1>9. alerts'[a].attempts = alerts[a].attempts + 1 /\ alerts'[a].attempts < MaxAttempts
  BY <1>4, <1>6, <1>8, MonitoringAssumption DEF Delivery!Outcome, Delivery!Marked, AlertRow
<1>10. alerts[a].attempts \in Nat /\ Since(a)' = Since(a)
  BY <1>1, <1>4 DEF AlertRow, Since
<1>11. Retried(a) /\ Cardinality(Since(a)) \in Nat
  BY <1>6, SinceIsCounted DEF RetryInv
<1>. QED BY <1>1, <1>9, <1>10, <1>11 DEF Retried

(* One that dies has not recorded it. *)
LEMMA FailureRetries ==
  ASSUME OneProcess, MonitoringInv, RetryInv, NEW p \in Procs, DeliveryFails(p) PROVE RetryInv'
<1>1. /\ Busy = 1 /\ Busy' = 0 /\ crashes' = crashes + 1 /\ UNCHANGED <<runs, alerts>>
      /\ crashes \in Nat
  <2>1. pc[p] = "committed" /\ pc'[p] = "idle" /\ \A q \in Procs : q = p
    BY DEF DeliveryFails, Leave, Goto, OneProcess, MonitoringInv, SequentialInv, TypeInv, TypeOK
  <2>2. crashes' = crashes + 1 /\ UNCHANGED <<runs, alerts>> /\ crashes \in Nat
    BY DEF DeliveryFails, Leave, Delivery!Crash, MonitoringInv, DeliveryInv, DeliveryTypes
  <2>. QED BY <2>1, <2>2 DEF Busy, InDelivery
<1>2. SUFFICES ASSUME NEW a \in Backlog PROVE Retried(a)'
  BY <1>1 DEF RetryInv, Backlog
<1>3. alerts[a].attempts \in Nat
  BY DEF Backlog, MonitoringInv, SequentialInv, TypeInv, TypeOK, AlertRow
<1>4. Retried(a) /\ Cardinality(Since(a)) \in Nat /\ Since(a)' = Since(a)
  BY <1>1, SinceIsCounted DEF RetryInv, Since
<1>. QED BY <1>1, <1>3, <1>4 DEF Retried

(* RetryInv is inductive for one process. *)
LEMMA RetryStep ==
  OneProcess /\ MonitoringInv /\ RetryInv /\ [MonitoringNext]_mvars => RetryInv'
<1>. SUFFICES ASSUME OneProcess, MonitoringInv, RetryInv, [MonitoringNext]_mvars PROVE RetryInv'
  OBVIOUS
<1>1. ASSUME UNCHANGED <<runs, alerts, crashes, pc>> PROVE RetryInv'
  BY <1>1, RetryKept DEF Busy, InDelivery
<1>2. CASE UNCHANGED mvars
  BY <1>1, <1>2 DEF mvars, runVars, dispatchVars
<1>3. ASSUME NEW p \in Procs, Deliver(p) PROVE RetryInv'
  BY <1>1, <1>3 DEF Deliver, runVars, Delivery!Fetch, Delivery!Send, Delivery!Mark, Delivery!MarkSkipped
<1>4. CASE Environment /\ UNCHANGED dispatchVars
  BY <1>1, <1>4 DEF Environment, Wait, NewReadings, tables, dispatchVars
<1>5. ASSUME NEW p \in Procs, (Load(p) \/ RunStep(p) \/ Abort(p)) /\ UNCHANGED dispatchVars
      PROVE  RetryInv'
  <2>1. CASE Commit(p)
    BY <1>5, <2>1, CommitRetries
  <2>2. CASE ~Commit(p)
    <3>1. UNCHANGED <<runs, alerts, crashes>>
      BY <1>5, <2>2 DEF Load, RunStep, Compute, Start, Claim, Replay, Learn, ReadView, DecideAlerts,
                  SaveArtifact, LockAsset, Abort, Fail, tables, dispatchVars
    <3>2. pc[p] # "committed" /\ pc'[p] # "committed"
      BY <1>5, <2>2 DEF Load, RunStep, Compute, Start, Claim, Replay, Learn, ReadView, DecideAlerts,
                  SaveArtifact, LockAsset, Abort, Fail, Goto,
                  MonitoringInv, SequentialInv, TypeInv, TypeOK
    <3>3. Busy' = Busy
      BY <3>2 DEF Busy, InDelivery, OneProcess
    <3>. QED BY <3>1, <3>3, RetryKept
  <2>. QED BY <2>1, <2>2
<1>6. ASSUME NEW p \in Procs, NothingToDeliver(p) PROVE RetryInv'
  <2>1. Backlog = {}
    BY <1>6 DEF NothingToDeliver, RetryInv, Retried, Backlog, Delivery!Pending
  <2>2. UNCHANGED <<runs, alerts>>
    BY <1>6 DEF NothingToDeliver, Return, Leave
  <2>. QED BY <2>1, <2>2 DEF RetryInv, Backlog
<1>. QED BY <1>2, <1>3, <1>4, <1>5, <1>6, DeliveredRetries, FailureRetries
     DEF MonitoringNext, Proceed

(* What a failed send can count on (alerting/dispatcher.py, "picks up      *)
(* every pending row (including ones a previous cycle failed to send)"):   *)
(* of one process, each run that committed since an alert was written has  *)
(* tried it exactly once, but for the deliveries that died and the one     *)
(* under way.                                                              *)
THEOREM BacklogIsRetried == ASSUME OneProcess PROVE MonitoringSpec => []RetriedByEveryRun
<1>1. MonitoringInit => RetryInv
  BY FS_EmptySet DEF MonitoringInit, Init, RetryInv, Backlog
<1>2. MonitoringInv /\ RetryInv => RetriedByEveryRun
  <2>. SUFFICES ASSUME MonitoringInv, RetryInv, NEW a \in Backlog
                PROVE  /\ alerts[a].attempts <= Cardinality(Since(a))
                       /\ Cardinality(Since(a)) <=
                            alerts[a].attempts + crashes + Cardinality({p \in Procs : InDelivery(p)})
    BY DEF RetriedByEveryRun, Since
  <2>1. alerts[a].attempts \in Nat /\ Busy \in {0, 1} /\ Cardinality(Since(a)) \in Nat
    BY SinceIsCounted
       DEF Backlog, Busy, RetryInv, MonitoringInv, SequentialInv, TypeInv, TypeOK, AlertRow
  <2>2. Cardinality({p \in Procs : InDelivery(p)}) = Busy
    BY BusyIsCounted
  <2>. QED BY <2>1, <2>2 DEF RetryInv, Retried
<1>. QED BY <1>1, <1>2, MonitoringStarts, MonitoringStep, RetryStep, PTL DEF MonitoringSpec

-----------------------------------------------------------------------------
(***************************************************************************)
(* The runs and deliveries together keep the promise of Incident.          *)
(***************************************************************************)

(* What the promise rests on, between the runs of one process. *)
StoryInv == MonitoringInv /\ FoundInv /\ AlarmsMatchView /\ IncidentInv

(* For the story of an incident, a delivery has not happened. *)
LEMMA DeliveredStory ==
  ASSUME OneProcess, StoryInv, NEW p \in Procs, Delivered(p)
  PROVE  /\ FoundInv' /\ AlarmsMatchView' /\ IncidentInv'
         /\ \A i \in Identities :
              Mapped(LatestAlert[i], LastWord(i))' = Mapped(LatestAlert[i], LastWord(i))
<1>1. SequentialInv /\ DeliveryInv
  BY DEF StoryInv, MonitoringInv
<1>2. /\ UNCHANGED <<readings, runs, findings, txn>> /\ DOMAIN alerts' = DOMAIN alerts
      /\ pc[p] = "committed" /\ pc' = [pc EXCEPT ![p] = "idle"]
  BY <1>1, DeliveredRows DEF Delivered, Leave, Goto
<1>3. \A i \in Identities :
        /\ LatestAlert'[i].kind = LatestAlert[i].kind /\ LatestAlert'[i].at = LatestAlert[i].at
        /\ LatestAlert'[i] = NoAlert <=> LatestAlert[i] = NoAlert
        /\ LatestAlert'[i].status = "suppressed" <=> LatestAlert[i].status = "suppressed"
        /\ LastWord(i)' = LastWord(i)
  BY <1>1, SameStory
<1>4. FoundInv'
  <2>1. pc'[p] = "idle" /\ \A q \in Procs : q = p
    BY <1>1, <1>2 DEF SequentialInv, TypeInv, TypeOK, OneProcess
  <2>. QED BY <1>2, <2>1 DEF StoryInv, FoundInv
<1>5. AlarmsMatchView'
  <2>1. View' = View
    <3>1. ListedIdentities' = ListedIdentities
      BY <1>2 DEF ListedIdentities, LatestRun
    <3>. QED BY <1>2, <3>1 DEF View
  <2>. QED BY <1>3, <2>1 DEF StoryInv, AlarmsMatchView, Critical, IsOpen
<1>6. IncidentInv'
  <2>1. \A i \in Identities : Consistent(LatestAlert[i], LastWord(i))'
    BY <1>3 DEF StoryInv, IncidentInv, Consistent, IsOpen
  <2>2. \A a \in DOMAIN alerts : alerts'[a].at = alerts[a].at
    BY <1>1, OnlyBookkeeping DEF SequentialInv
  <2>. QED BY <1>2, <2>1, <2>2 DEF StoryInv, IncidentInv
<1>7. \A i \in Identities : IncidentState(LatestAlert[i])' = IncidentState(LatestAlert[i])
  BY <1>3 DEF IncidentState, IsOpen
<1>. QED BY <1>3, <1>4, <1>5, <1>6, <1>7 DEF Mapped

LEMMA StoryStep == OneProcess /\ AlwaysFinds /\ StoryInv /\ [MonitoringNext]_mvars => StoryInv'
<1>. SUFFICES ASSUME OneProcess, AlwaysFinds, StoryInv, [MonitoringNext]_mvars PROVE StoryInv'
  OBVIOUS
<1>1. MonitoringInv'
  BY MonitoringStep DEF StoryInv
<1>2. CASE [Next]_vars
  BY <1>1, <1>2, FoundStep, MatchStep, IncidentStep DEF StoryInv, MonitoringInv, SequentialInv
<1>3. CASE \E p \in Procs : Delivered(p)
  BY <1>1, <1>3, DeliveredStory DEF StoryInv
<1>. QED BY <1>2, <1>3, StepsOfRuns

LEMMA StoryStarts == MonitoringInit => StoryInv /\ Promise!Init
BY MonitoringStarts, MatchInit, PromiseInit DEF MonitoringInit, StoryInv

(* "Retried naturally on the next tick" does not disturb the escalation:   *)
(* runs and deliveries of one process together, failures of both included, *)
(* keep the promise of Incident.  A run is a step of it, or none; a        *)
(* delivery is none, for it writes no kind and no time, and turns nothing  *)
(* audible or silent.                                                      *)
THEOREM MonitoringKeepsPromise ==
  ASSUME OneProcess, AlwaysFinds PROVE MonitoringSpec => KeepsPromise
<1> DEFINE Story == [i \in Identities |-> [state |-> IncidentState(LatestAlert[i]),
                                           word  |-> LastWord(i),
                                           at    |-> LatestAlert[i].at]]
<1>1. StoryInv /\ [MonitoringNext]_mvars => StoryInv'
  BY StoryStep
<1>2. ASSUME StoryInv, [MonitoringNext]_mvars PROVE [Promise!Next]_Story
  <2>1. CASE [Next]_vars
    BY <1>2, <2>1, PromiseStep DEF Mapped, StoryInv, MonitoringInv
  <2>2. ASSUME NEW p \in Procs, Delivered(p) PROVE UNCHANGED Story
    BY <1>2, <2>2, DeliveredStory DEF Mapped
  <2>. QED BY <1>2, <2>1, <2>2, StepsOfRuns
<1>. QED BY <1>1, <1>2, StoryStarts, PTL DEF MonitoringSpec, KeepsPromise, Promise!Spec

-----------------------------------------------------------------------------
(***************************************************************************)
(* Nobody is told that it is over who was not told that it was on.         *)
(***************************************************************************)

(* The emails about a condition; whether the last of them is an alarm. *)
Said(i) == {m \in DOMAIN inbox : \E a \in inbox[m] : a[1] = i}

ToldAlarm(i) ==
  \E m \in Said(i) :
    /\ \A o \in Said(i) : o <= m
    /\ \E b \in inbox[m] : b[1] = i /\ alerts[b].kind # "resolved"

IsLatest(a) == \A o \in DOMAIN alerts : o[1] = a[1] => o[2] <= a[2]

(* The alerts that were emailed, whether or not the table knows it. *)
Mailed(a) == alerts[a].status = "sent" \/ \E p \in Procs : a \in Tried(p)

(* Of a condition about which no send has failed: every run's alert is     *)
(* sent before the next run begins, at the first attempt, and what is      *)
(* pending is the newest alert.                                            *)
PromptInv(i) ==
  /\ \A a \in DOMAIN alerts : a[1] = i =>
       /\ alerts[a].status \in {"pending", "sent", "suppressed"}
       /\ alerts[a].status = "pending" =>
            IsLatest(a) /\ alerts[a].attempts = 0 /\ \A p \in Procs : pc[p] = "committed"
  /\ \A p \in Procs : \A a \in DOMAIN marks[p] : a[1] = i => marks[p][a].status = "sent"

(* Who got the newest alert of a condition as an alarm, or is to get it as *)
(* a resolution, was told of the alarm last.                               *)
ToldInv(i) ==
  \A a \in DOMAIN alerts :
    /\ a[1] = i /\ IsLatest(a)
    /\ IF alerts[a].kind = "resolved" THEN alerts[a].status = "pending" /\ ~Mailed(a) ELSE Mailed(a)
    => ToldAlarm(i)

(* The last email about a condition before the n-th was an alarm.          *)
Warned(i, n) ==
  \E m \in ToldBefore(i, n) :
    /\ \A o \in ToldBefore(i, n) : o <= m
    /\ \E b \in inbox[m] : b[1] = i /\ alerts[b].kind # "resolved"

AllWarned(i) ==
  \A n \in DOMAIN inbox : \A a \in inbox[n] :
    a[1] = i /\ alerts[a].kind = "resolved" => Warned(i, n)

StoryOf(i) ==
  /\ AllWarned(i)
  /\ IF smtp = "configured" THEN PromptInv(i) /\ ToldInv(i) ELSE inbox = <<>>

InboxInv == \A i \in Identities : NothingFailed(i) => StoryOf(i)

LEMMA WarnedIsTold == ASSUME MonitoringInv, InboxInv PROVE ResolvedOnlyIfTold
<1>1. SUFFICES ASSUME NEW n \in DOMAIN inbox, NEW a \in inbox[n],
                      alerts[a].kind = "resolved", NothingFailed(a[1])
               PROVE  Warned(a[1], n)
  BY DEF ResolvedOnlyIfTold, Warned
<1>2. a[1] \in Identities
  BY <1>1 DEF MonitoringInv, SequentialInv, TypeInv, TypeOK, DeliveryInv, DeliveryTypes
<1>. QED BY <1>1, <1>2 DEF InboxInv, StoryOf, AllWarned

(* A send that failed, or a delivery that died, is not forgotten. *)
LEMMA FailureStays ==
  ASSUME OneProcess, MonitoringInv, [MonitoringNext]_mvars, NEW i, NothingFailed(i)'
  PROVE  NothingFailed(i)
<1>1. DeliveryInv /\ TypeInv /\ OrderInv /\ \A p, q \in Procs : p = q
  BY DEF MonitoringInv, SequentialInv, OneProcess
<1>2. ASSUME UNCHANGED dispatchVars, \A a \in DOMAIN alerts : a \in DOMAIN alerts' /\ alerts'[a] = alerts[a]
      PROVE  NothingFailed(i)
  BY <1>2 DEF dispatchVars, NothingFailed, Unfailed
<1>3. CASE UNCHANGED mvars \/ (Environment /\ UNCHANGED dispatchVars) \/ \E p \in Procs : NothingToDeliver(p)
  BY <1>2, <1>3 DEF mvars, Environment, Wait, NewReadings, tables, NothingToDeliver, Return
<1>4. ASSUME NEW p \in Procs, (Load(p) \/ RunStep(p) \/ Abort(p)) /\ UNCHANGED dispatchVars
      PROVE  NothingFailed(i)
  <2>1. CASE Commit(p)
    BY <1>1, <1>2, <1>4, <2>1, CommitRows DEF MonitoringInv, SequentialInv
  <2>2. CASE ~Commit(p)
    <3>1. alerts' = alerts
      BY <1>4, <2>2 DEF Load, RunStep, Compute, Start, Claim, Replay, Learn, ReadView, DecideAlerts,
                  SaveArtifact, LockAsset, Abort, Fail, tables
    <3>. QED BY <1>2, <1>4, <3>1
  <2>. QED BY <2>1, <2>2
<1>5. ASSUME NEW p \in Procs, Delivery!Fetch(p), UNCHANGED runVars PROVE NothingFailed(i)
  <2>1. UNCHANGED <<alerts, marks, crashes>> /\ dpc[p] = "idle"
    BY <1>5 DEF Delivery!Fetch
  <2>. QED BY <1>1, <2>1 DEF NothingFailed, Unfailed
<1>6. ASSUME NEW p \in Procs, NEW ok \in BOOLEAN, NEW out \in BOOLEAN,
             Delivery!Send(p, ok, out), UNCHANGED runVars
      PROVE  NothingFailed(i)
  <2>1. UNCHANGED <<alerts, marks, crashes>> /\ dpc[p] = "sending"
    BY <1>6 DEF Delivery!Send
  <2>. QED BY <1>1, <2>1 DEF NothingFailed, Unfailed
<1>7. ASSUME NEW p \in Procs, Delivery!Mark(p), UNCHANGED runVars PROVE NothingFailed(i)
  <2> DEFINE new == [a \in group[p] |-> Delivery!Outcome(batch[p][a], sentOk[p])]
  <2>1. /\ UNCHANGED <<alerts, crashes>> /\ dpc[p] = "marking"
        /\ marks' = [marks EXCEPT ![p] = Delivery!Update(marks[p], new)]
    BY <1>7 DEF Delivery!Mark
  <2>2. Delivering(p) /\ Mailing(p) /\ group[p] \cap DOMAIN marks[p] = {}
    BY <1>1, <2>1 DEF DeliveryInv, Delivering, Mailing, Skipping, Trying
  <2>3. \A a \in group[p] : batch[p][a] = alerts[a] /\ a \in DOMAIN alerts
    BY <2>1, <2>2 DEF Delivering, Mailing, Trying, Delivery!Pending
  <2>4. /\ DOMAIN marks'[p] = DOMAIN marks[p] \cup group[p]
        /\ \A a \in DOMAIN marks[p] : marks'[p][a] = marks[p][a]
        /\ \A a \in group[p] : marks'[p][a] = Delivery!Outcome(alerts[a], sentOk[p])
    <3>1. marks'[p] = Delivery!Update(marks[p], new)
      BY <1>1, <2>1 DEF DeliveryInv, DeliveryTypes
    <3>2. DOMAIN new = group[p] /\ \A a \in group[p] : new[a] = Delivery!Outcome(alerts[a], sentOk[p])
      BY <2>3
    <3>. HIDE DEF new
    <3>. QED BY <2>2, <3>1, <3>2 DEF Delivery!Update
  <2>5. ASSUME NEW a \in group[p], a[1] = i, ~sentOk[p] PROVE FALSE
    <3>1. Unfailed(marks'[p][a])
      BY <2>4, <2>5 DEF NothingFailed, Unfailed
    <3>2. alerts[a] \in AlertRow
      BY <1>1, <2>3, <2>5 DEF TypeInv, TypeOK
    <3>3. alerts[a].attempts \in Nat /\ {"status", "attempts"} \subseteq DOMAIN alerts[a]
      BY <3>2 DEF AlertRow
    <3>4. sentOk[p] = FALSE
      BY <1>1, <2>5 DEF DeliveryInv, DeliveryTypes
    <3>5. marks'[p][a] = Delivery!Outcome(alerts[a], FALSE)
      BY <2>4, <2>5, <3>4
    <3>6. marks'[p][a].status # "sent" /\ marks'[p][a].attempts = alerts[a].attempts + 1
      BY <3>3, <3>5 DEF Delivery!Outcome, Delivery!Marked
    <3>. QED BY <3>1, <3>3, <3>6 DEF Unfailed
  <2>6. crashes = 0 /\ \A a \in DOMAIN alerts : a[1] = i => Unfailed(alerts[a])
    BY <2>1 DEF NothingFailed, Unfailed
  <2>7. \A a \in DOMAIN marks[p] : a[1] = i => Unfailed(marks[p][a])
    BY <2>4 DEF NothingFailed, Unfailed
  <2>. QED BY <1>1, <2>5, <2>6, <2>7 DEF NothingFailed
<1>8. ASSUME NEW p \in Procs, Delivery!MarkSkipped(p), UNCHANGED runVars PROVE NothingFailed(i)
  <2>1. UNCHANGED <<alerts, crashes>> /\ dpc[p] = "skipping"
    BY <1>8 DEF Delivery!MarkSkipped
  <2>2. DOMAIN marks[p] = {}
    BY <1>1, <2>1 DEF DeliveryInv, Delivering, Mailing, Skipping
  <2>. QED BY <1>1, <2>1, <2>2 DEF NothingFailed, Unfailed
<1>9. ASSUME NEW p \in Procs, Delivered(p) PROVE NothingFailed(i)
  <2>1. /\ crashes' = crashes /\ dpc[p] = "sending" /\ todo[p] = {}
        /\ DOMAIN alerts' = DOMAIN alerts /\ DOMAIN marks[p] = DOMAIN batch[p]
        /\ \A a \in DOMAIN alerts : alerts'[a] = IF a \in DOMAIN batch[p] THEN marks[p][a] ELSE alerts[a]
    BY <1>1, <1>9, DeliveredRows DEF Delivered, Delivery!CommitMarks
  <2>2. /\ DOMAIN batch[p] = Delivery!Pending
        /\ IF smtp = "configured" THEN Mailing(p) ELSE Skipping(p)
    BY <1>1, <2>1 DEF DeliveryInv, Delivering
  <2>3. \A a \in DOMAIN batch[p] : a \in DOMAIN alerts /\ alerts[a].status = "pending" /\ alerts[a] \in AlertRow
    BY <1>1, <2>2 DEF Delivery!Pending, TypeInv, TypeOK
  <2>4. \A a \in DOMAIN alerts : a[1] = i => Unfailed(alerts'[a])
    BY <2>1 DEF NothingFailed, Unfailed
  <2>5. \A a \in DOMAIN marks[p] : a[1] = i => Unfailed(marks[p][a])
    BY <2>1, <2>3, <2>4
  <2>6. ASSUME NEW a \in DOMAIN batch[p], a[1] = i PROVE Unfailed(alerts[a])
    <3>1. Unfailed(marks[p][a])
      BY <2>1, <2>5, <2>6
    <3>2. CASE smtp = "configured"
      <4>1. PICK ok \in BOOLEAN : marks[p][a] = Delivery!Outcome(alerts[a], ok)
        BY <2>1, <2>2, <2>6, <3>2 DEF Mailing
      <4>. QED BY <2>3, <2>6, <3>1, <4>1 DEF Unfailed, Delivery!Outcome, Delivery!Marked, AlertRow
    <3>3. CASE smtp # "configured"
      <4>1. marks[p][a] = Delivery!Marked(alerts[a], "skipped", alerts[a].attempts)
        BY <2>1, <2>2, <2>6, <3>3 DEF Skipping
      <4>. QED BY <2>3, <2>6, <3>1, <4>1 DEF Unfailed, Delivery!Marked, AlertRow
    <3>. QED BY <3>2, <3>3
  <2>7. \A a \in DOMAIN alerts : a[1] = i => Unfailed(alerts[a])
    BY <2>1, <2>4, <2>6
  <2>8. crashes = 0
    BY <2>1 DEF NothingFailed
  <2>. QED BY <1>1, <2>1, <2>5, <2>7, <2>8 DEF NothingFailed
<1>10. ASSUME NEW p \in Procs, DeliveryFails(p) PROVE NothingFailed(i)
  <2>1. crashes \in Nat /\ crashes' = crashes + 1 /\ crashes' = 0
    BY <1>1, <1>10 DEF DeliveryFails, Delivery!Crash, DeliveryInv, DeliveryTypes, NothingFailed
  <2>. QED BY <2>1
<1>. QED BY <1>3, <1>4, <1>5, <1>6, <1>7, <1>8, <1>9, <1>10 DEF MonitoringNext, Proceed, Deliver

(* What the inbox says does not change with the bookkeeping, nor with      *)
(* alerts it is not about.                                                 *)
LEMMA InboxKept ==
  ASSUME DeliveryInv, inbox' = inbox, DOMAIN alerts \subseteq DOMAIN alerts',
         \A a \in DOMAIN alerts : alerts'[a].kind = alerts[a].kind
  PROVE  \A i : (AllWarned(i) => AllWarned(i)') /\ (ToldAlarm(i)' <=> ToldAlarm(i))
<1>1. \A n \in DOMAIN inbox : \A a \in inbox[n] : a \in DOMAIN alerts /\ alerts'[a].kind = alerts[a].kind
  BY DEF DeliveryInv, DeliveryTypes
<1>2. \A i : Said(i)' = Said(i) /\ Said(i) \subseteq DOMAIN inbox
  BY DEF Said
<1>3. \A i : ToldAlarm(i)' <=> ToldAlarm(i)
  BY <1>1, <1>2 DEF ToldAlarm
<1>4. \A i, n : ToldBefore(i, n)' = ToldBefore(i, n)
  BY DEF ToldBefore
<1>5. \A n \in DOMAIN inbox : \A i : ToldBefore(i, n) \subseteq DOMAIN inbox
  BY DEF ToldBefore, DeliveryInv, DeliveryTypes
<1>6. \A n \in DOMAIN inbox : \A i : Warned(i, n)' <=> Warned(i, n)
  BY <1>1, <1>4, <1>5 DEF Warned
<1>7. \A i : AllWarned(i) => AllWarned(i)'
  BY <1>1, <1>6 DEF AllWarned
<1>. QED BY <1>3, <1>7

(* A step that writes nothing and sends nothing about the condition, and   *)
(* neither begins nor ends a delivery.                                     *)
LEMMA InboxSame ==
  ASSUME MonitoringInv, NEW i, StoryOf(i), UNCHANGED <<alerts, inbox, smtp>>,
         \A p \in Procs : \A a : a[1] = i => (a \in Tried(p)' <=> a \in Tried(p)),
         smtp = "configured" => PromptInv(i)'
  PROVE  StoryOf(i)'
<1>1. AllWarned(i)' /\ (ToldAlarm(i)' <=> ToldAlarm(i))
  BY InboxKept DEF MonitoringInv, StoryOf
<1>2. \A a \in DOMAIN alerts : (IsLatest(a)' <=> IsLatest(a)) /\ (a[1] = i => (Mailed(a)' <=> Mailed(a)))
  BY DEF IsLatest, Mailed
<1>3. ToldInv(i) => ToldInv(i)'
  BY <1>1, <1>2 DEF ToldInv
<1>. QED BY <1>1, <1>3 DEF StoryOf

(* PromptInv, after a step that writes nothing. *)
LEMMA PromptSame ==
  ASSUME NEW i, PromptInv(i), alerts' = alerts,
         (\A p \in Procs : pc[p] = "committed") /\ (\E a \in DOMAIN alerts : a[1] = i /\ alerts[a].status = "pending")
            => \A p \in Procs : pc'[p] = "committed",
         \A p \in Procs : \A a \in DOMAIN marks'[p] : a[1] = i => marks'[p][a].status = "sent"
  PROVE  PromptInv(i)'
BY DEF PromptInv, IsLatest

(* With one process, pending alerts are of different conditions. *)
LEMMA PendingDiffer ==
  ASSUME TypeInv, NEW a \in DOMAIN alerts, NEW b \in DOMAIN alerts, IsLatest(a), IsLatest(b), a[1] = b[1]
  PROVE  a = b
<1>1. a \in Identities \X Nat /\ b \in Identities \X Nat
  BY DEF TypeInv, TypeOK
<1>2. a[2] <= b[2] /\ b[2] <= a[2]
  BY DEF IsLatest
<1>. QED BY <1>1, <1>2

(* The alerts of one email are of one kind. *)
LEMMA GroupOfAKind ==
  ASSUME TypeInv, NEW S \in SUBSET DOMAIN alerts,
         NEW a \in Delivery!FirstGroup(S), NEW b \in Delivery!FirstGroup(S)
  PROVE  alerts[a].kind = alerts[b].kind
<1>1. a \in S /\ b \in S /\ ~Delivery!Before(a, b) /\ ~Delivery!Before(b, a)
  BY DEF Delivery!FirstGroup
<1>2. alerts[a].kind \in Kinds /\ alerts[b].kind \in Kinds
  BY <1>1 DEF TypeInv, TypeOK, AlertRow
<1>. QED BY <1>1, <1>2 DEF Delivery!Before, Delivery!KindRank, OneUnit, Kinds

(* An email goes to those who are to hear it. *)
LEMMA SendTells ==
  ASSUME OneProcess, MonitoringInv, NEW i \in Identities, StoryOf(i), NothingFailed(i)', NEW p \in Procs,
         NEW ok \in BOOLEAN, NEW out \in BOOLEAN, Delivery!Send(p, ok, out), UNCHANGED runVars
  PROVE  StoryOf(i)'
<1> DEFINE next == Delivery!FirstGroup(todo[p])
           len  == Len(inbox)
<1>1. /\ UNCHANGED <<alerts, batch, marks, crashes, smtp, pc>> /\ dpc[p] = "sending"
      /\ todo[p] # {} /\ todo' = [todo EXCEPT ![p] = todo[p] \ next]
      /\ sentOk' = [sentOk EXCEPT ![p] = ok] /\ group' = [group EXCEPT ![p] = next]
      /\ dpc' = [dpc EXCEPT ![p] = "marking"] /\ (ok => out)
      /\ inbox' = IF out THEN Append(inbox, next) ELSE inbox
      /\ next \subseteq todo[p]
  BY DEF Delivery!Send, Delivery!FirstGroup, runVars
<1>2. \A q \in Procs : q = p
  BY DEF OneProcess
<1>3. /\ smtp = "configured" /\ PromptInv(i) /\ ToldInv(i) /\ AllWarned(i)
      /\ todo[p] \subseteq DOMAIN batch[p] /\ DOMAIN batch[p] = Delivery!Pending
  BY <1>1 DEF MonitoringInv, DeliveryInv, Delivering, Mailing, Skipping, StoryOf
<1>4. \A a \in todo[p] : /\ a \in DOMAIN alerts /\ alerts[a].status = "pending" /\ ~Mailed(a)
                         /\ a[1] = i => IsLatest(a)
  <2>1. \A a \in todo[p] : a \in DOMAIN alerts /\ alerts[a].status = "pending" /\ a \notin Tried(p)
    BY <1>3 DEF Delivery!Pending, Tried
  <2>. QED BY <1>2, <1>3, <2>1 DEF PromptInv, Mailed
<1>5. \A a \in next, b \in next : alerts[a].kind = alerts[b].kind
  <2>1. todo[p] \in SUBSET DOMAIN alerts
    BY <1>4
  <2>. QED BY <2>1, GroupOfAKind DEF MonitoringInv, SequentialInv
<1>6. /\ len \in Nat /\ DOMAIN inbox = 1..len
      /\ out => /\ DOMAIN inbox' = 1..(len + 1)
                /\ inbox'[len + 1] = next /\ \A n \in 1..len : inbox'[n] = inbox[n]
  BY <1>1 DEF MonitoringInv, DeliveryInv, DeliveryTypes
<1>. HIDE DEF next, len
<1>7. /\ todo'[p] = todo[p] \ next /\ sentOk'[p] = ok /\ group'[p] = next /\ dpc'[p] = "marking"
      /\ Tried(p)' = Tried(p) \cup next
  BY <1>1, <1>3 DEF MonitoringInv, DeliveryInv, DeliveryTypes, Tried
<1>8. \A a : Mailed(a)' <=> Mailed(a) \/ a \in next
  BY <1>1, <1>2, <1>7 DEF Mailed
<1>9. (\E a \in next : a[1] = i) => out
  BY <1>1, <1>7 DEF NothingFailed
<1>10. PromptInv(i)'
  <2>1. \A q \in Procs : \A a \in DOMAIN marks'[q] : a[1] = i => marks'[q][a].status = "sent"
    BY <1>1, <1>3 DEF PromptInv
  <2>. QED BY <1>1, <1>3, <2>1, PromptSame
<1>11. CASE ~out
  <2>1. \A a : a[1] = i => (a \in Tried(p)' <=> a \in Tried(p))
    BY <1>7, <1>9, <1>11
  <2>. QED BY <1>1, <1>2, <1>10, <1>11, <2>1, InboxSame
<1>12. CASE out
  <2>1. Said(i)' = IF \E a \in next : a[1] = i THEN Said(i) \cup {len + 1} ELSE Said(i)
    BY <1>6, <1>12 DEF Said
  <2>2. Said(i) \subseteq 1..len
    BY <1>6 DEF Said
  <2>3. AllWarned(i)'
    <3>. SUFFICES ASSUME NEW n \in 1..(len + 1), NEW a \in inbox'[n], a[1] = i, alerts[a].kind = "resolved"
                  PROVE  Warned(i, n)'
      BY <1>1, <1>6, <1>12 DEF AllWarned
    <3>1. ToldBefore(i, n)' = {m \in 1..(n - 1) : \E b \in inbox[m] : b[1] = i}
      BY <1>6, <1>12 DEF ToldBefore
    <3>2. CASE n = len + 1
      <4>1. ToldBefore(i, n)' = Said(i)
        BY <1>6, <3>1, <3>2 DEF Said
      <4>2. a \in todo[p]
        BY <1>1, <1>6, <1>12, <3>2
      <4>3. ToldAlarm(i)
        BY <1>3, <1>4, <4>2 DEF ToldInv
      <4>. QED BY <1>1, <1>6, <1>12, <2>2, <4>1, <4>3 DEF ToldAlarm, Warned
    <3>3. CASE n # len + 1
      <4>1. n \in 1..len /\ inbox'[n] = inbox[n]
        BY <1>6, <1>12, <3>3
      <4>2. ToldBefore(i, n)' = ToldBefore(i, n)
        BY <3>1 DEF ToldBefore
      <4>3. ToldBefore(i, n) \subseteq 1..len
        BY <4>1, <1>6 DEF ToldBefore
      <4>4. Warned(i, n)
        BY <1>3, <1>6, <4>1 DEF AllWarned
      <4>. QED BY <1>1, <1>6, <1>12, <4>2, <4>3, <4>4 DEF Warned
    <3>. QED BY <3>2, <3>3
  <2>4. ToldInv(i)'
    <3>. SUFFICES ASSUME NEW a \in DOMAIN alerts, a[1] = i, IsLatest(a),
                         IF alerts[a].kind = "resolved" THEN alerts[a].status = "pending" /\ ~Mailed(a)'
                                                        ELSE Mailed(a)'
                  PROVE  ToldAlarm(i)'
      BY <1>1 DEF ToldInv, IsLatest
    <3>1. CASE a \in next
      <4>1. alerts[a].kind # "resolved"
        BY <1>8, <3>1
      <4>2. Said(i)' = Said(i) \cup {len + 1}
        BY <2>1, <3>1
      <4>3. \A o \in Said(i)' : o <= len + 1
        BY <1>6, <2>2, <4>2
      <4>. QED BY <1>1, <1>6, <1>12, <3>1, <4>1, <4>2, <4>3 DEF ToldAlarm
    <3>2. CASE a \notin next
      <4>1. \A b \in next : b[1] # i
        BY <1>1, <1>4, <3>2, PendingDiffer DEF MonitoringInv, SequentialInv
      <4>2. Said(i)' = Said(i)
        BY <2>1, <4>1
      <4>3. ToldAlarm(i)
        BY <1>3, <1>8, <3>2 DEF ToldInv
      <4>. QED BY <1>1, <1>6, <1>12, <2>2, <4>2, <4>3 DEF ToldAlarm
    <3>. QED BY <3>1, <3>2
  <2>. QED BY <1>1, <1>3, <1>10, <2>3, <2>4 DEF StoryOf
<1>. QED BY <1>11, <1>12

LEMMA FetchTells ==
  ASSUME OneProcess, MonitoringInv, NEW i \in Identities, StoryOf(i),
         NEW p \in Procs, Delivery!Fetch(p), UNCHANGED runVars
  PROVE  StoryOf(i)'
<1>1. /\ UNCHANGED <<alerts, inbox, crashes, smtp, pc, sentOk, marks>> /\ dpc[p] = "idle"
      /\ dpc' = [dpc EXCEPT ![p] = IF smtp = "configured" THEN "sending" ELSE "skipping"]
  BY DEF Delivery!Fetch, runVars
<1>2. \A q \in Procs : q = p
  BY DEF OneProcess
<1>3. Tried(p) = {}
  BY <1>1 DEF MonitoringInv, DeliveryInv, Idle, Tried
<1>4. smtp = "configured" => DOMAIN batch'[p] = todo'[p]
  BY DEF Delivery!Fetch, MonitoringInv, DeliveryInv, DeliveryTypes
<1>5. Tried(p)' = Tried(p)
  BY <1>1, <1>3, <1>4 DEF Tried
<1>6. PromptInv(i) => PromptInv(i)'
  BY <1>1 DEF PromptInv, IsLatest
<1>. QED BY <1>1, <1>2, <1>5, <1>6, InboxSame DEF StoryOf

(* What went out is recorded as sent. *)
LEMMA MarkTells ==
  ASSUME OneProcess, MonitoringInv, NEW i \in Identities, StoryOf(i), NothingFailed(i),
         NEW p \in Procs, Delivery!Mark(p) \/ Delivery!MarkSkipped(p), UNCHANGED runVars
  PROVE  StoryOf(i)'
<1>1. /\ UNCHANGED <<alerts, batch, todo, inbox, smtp, pc, sentOk>>
      /\ dpc' = [dpc EXCEPT ![p] = "sending"]
  BY DEF Delivery!Mark, Delivery!MarkSkipped, runVars
<1>2. \A q \in Procs : q = p
  BY DEF OneProcess
<1>3. \A q \in Procs : Tried(q)' = Tried(q)
  BY <1>1 DEF Tried
<1>5. ASSUME smtp = "configured" PROVE PromptInv(i)'
  <2>1. Delivery!Mark(p) /\ dpc[p] = "marking" /\ PromptInv(i)
    BY <1>5 DEF Delivery!Mark, Delivery!MarkSkipped, MonitoringInv, DeliveryInv, Delivering, Mailing, StoryOf
  <2>2. /\ \A a \in group[p] : a[1] = i => sentOk[p]
        /\ \A a \in DOMAIN marks[p] : a[1] = i => marks[p][a].status = "sent"
    BY <2>1 DEF PromptInv, NothingFailed
  <2>3. group[p] \subseteq DOMAIN batch[p] /\ \A a \in group[p] : batch[p][a] \in AlertRow
    <3>1. Delivering(p) /\ Mailing(p)
      BY <1>5, <2>1 DEF MonitoringInv, DeliveryInv, Delivering
    <3>2. group[p] \subseteq DOMAIN batch[p]
      BY <2>1, <3>1 DEF Mailing, Trying
    <3>3. \A a \in DOMAIN batch[p] : a \in DOMAIN alerts /\ batch[p][a] = alerts[a]
      BY <3>1 DEF Delivering, Delivery!Pending
    <3>. QED BY <3>2, <3>3 DEF MonitoringInv, SequentialInv, TypeInv, TypeOK
  <2> DEFINE new == [a \in group[p] |-> Delivery!Outcome(batch[p][a], sentOk[p])]
  <2>4. \A a \in group[p] : a[1] = i => new[a].status = "sent"
    BY <2>2, <2>3 DEF Delivery!Outcome, Delivery!Marked, AlertRow
  <2>5. marks'[p] = Delivery!Update(marks[p], new)
    BY <2>1 DEF Delivery!Mark, MonitoringInv, DeliveryInv, DeliveryTypes
  <2>6. DOMAIN new = group[p]
    OBVIOUS
  <2>. HIDE DEF new
  <2>7. \A a \in DOMAIN marks'[p] : a[1] = i => marks'[p][a].status = "sent"
    BY <2>2, <2>4, <2>5, <2>6 DEF Delivery!Update
  <2>. QED BY <1>1, <1>2, <2>1, <2>7 DEF PromptInv, IsLatest
<1>. QED BY <1>1, <1>3, <1>5, InboxSame

(* A delivery leaves nothing pending behind. *)
LEMMA DeliveredTells ==
  ASSUME OneProcess, MonitoringInv, NEW i \in Identities, StoryOf(i), NEW p \in Procs, Delivered(p)
  PROVE  StoryOf(i)'
<1>1. /\ UNCHANGED <<inbox, smtp>> /\ dpc[p] = "sending" /\ todo[p] = {}
      /\ dpc' = [dpc EXCEPT ![p] = "idle"] /\ marks' = [marks EXCEPT ![p] = <<>>]
      /\ DOMAIN alerts' = DOMAIN alerts /\ DOMAIN marks[p] = DOMAIN batch[p]
      /\ \A a \in DOMAIN alerts : alerts'[a] = IF a \in DOMAIN batch[p] THEN marks[p][a] ELSE alerts[a]
  BY DeliveredRows DEF Delivered, Delivery!CommitMarks, Delivery!Reset, MonitoringInv
<1>2. \A q \in Procs : q = p
  BY DEF OneProcess
<1>3. \A a \in DOMAIN alerts : alerts'[a].kind = alerts[a].kind
  BY OnlyBookkeeping DEF MonitoringInv, SequentialInv
<1>4. AllWarned(i)' /\ (ToldAlarm(i)' <=> ToldAlarm(i))
  BY <1>1, <1>3, InboxKept DEF MonitoringInv, StoryOf
<1>5. ASSUME smtp = "configured" PROVE PromptInv(i)' /\ ToldInv(i)'
  <2>1. PromptInv(i) /\ ToldInv(i) /\ DOMAIN batch[p] = Delivery!Pending
    BY <1>1, <1>5 DEF StoryOf, MonitoringInv, DeliveryInv, Delivering
  <2>2. \A a \in DOMAIN alerts : a[1] = i => (a \in DOMAIN batch[p] <=> alerts[a].status = "pending")
    BY <2>1, MonitoringAssumption DEF PromptInv, Delivery!Pending
  <2>3. \A a \in DOMAIN alerts : a[1] = i =>
          alerts'[a].status = IF alerts[a].status = "pending" THEN "sent" ELSE alerts[a].status
    BY <1>1, <2>1, <2>2 DEF PromptInv
  <2>4. dpc'[p] = "idle" /\ DOMAIN marks'[p] = {}
    <3>1. dpc'[p] = "idle" /\ marks'[p] = <<>>
      BY <1>1 DEF MonitoringInv, DeliveryInv, DeliveryTypes
    <3>. QED BY <3>1
  <2>5. PromptInv(i)'
    BY <1>1, <1>2, <2>1, <2>3, <2>4 DEF PromptInv
  <2>6. ASSUME NEW a \in DOMAIN alerts, a[1] = i, IsLatest(a)', alerts'[a].kind # "resolved", Mailed(a)'
        PROVE  ToldAlarm(i)
    <3>1. Tried(p)' = {}
      <4>1. DeliveryInv'
        BY MonitoringStep DEF MonitoringInv, MonitoringNext, Proceed
      <4>. QED BY <2>4, <4>1 DEF DeliveryInv, Idle, Tried
    <3>2. alerts'[a].status = "sent" /\ IsLatest(a)
      BY <1>1, <1>2, <2>6, <3>1 DEF Mailed, IsLatest
    <3>3. Mailed(a)
      BY <1>1, <1>5, <2>2, <2>3, <3>2 DEF Mailed, Tried
    <3>. QED BY <1>3, <2>1, <2>6, <3>2, <3>3 DEF ToldInv
  <2>7. \A a \in DOMAIN alerts : a[1] = i => alerts'[a].status # "pending"
    BY <2>3
  <2>8. ToldInv(i)'
    BY <1>1, <1>4, <2>6, <2>7 DEF ToldInv
  <2>. QED BY <2>5, <2>8
<1>. QED BY <1>1, <1>4, <1>5 DEF StoryOf

(* The newest alert of a condition is the row of its latest id. *)
LEMMA LatestAlertIsLatest ==
  ASSUME TypeInv, OrderInv, NEW i \in Identities, LatestAlert[i] # NoAlert
  PROVE  \E a \in DOMAIN alerts : a[1] = i /\ IsLatest(a) /\ LatestAlert[i] = alerts[a]
<1> DEFINE ids == {id \in DOMAIN alerts : id[1] = i}
           last == CHOOSE id \in ids : \A o \in ids : o[2] <= id[2]
<1>1. ids # {} /\ LatestAlert[i] = alerts[last]
  BY DEF LatestAlert
<1>2. last \in ids /\ \A o \in ids : o[2] <= last[2]
  BY <1>1, NewestId
<1>. QED BY <1>1, <1>2 DEF IsLatest

(* A run announces, reminds, or closes what the inbox was told is on. *)
LEMMA CommitTells ==
  ASSUME OneProcess, StoryInv, NEW i \in Identities, StoryOf(i),
         NEW p \in Procs, Commit(p), UNCHANGED dispatchVars
  PROVE  StoryOf(i)'
<1>1. UNCHANGED <<dpc, batch, todo, sentOk, marks, inbox, smtp>> /\ pc[p] = "locked"
  BY DEF dispatchVars, Commit, Goto
<1>2. SequentialInv /\ TypeInv /\ OrderInv /\ DeliveryInv /\ \A q \in Procs : q = p
  BY DEF StoryInv, MonitoringInv, SequentialInv, OneProcess
<1>3. /\ DOMAIN alerts' = DOMAIN alerts \cup AlertIds(p)
      /\ \A a \in DOMAIN alerts : alerts'[a] = alerts[a] /\ a \notin AlertIds(p)
      /\ \A j \in DOMAIN txn[p].fresh : alerts'[<<j, txn[p].started>>] = txn[p].fresh[j]
  BY <1>2, CommitRows
<1>4. AllWarned(i)' /\ (ToldAlarm(i)' <=> ToldAlarm(i))
  BY <1>1, <1>2, <1>3, InboxKept DEF StoryOf
<1>5. \A q \in Procs : Tried(q) = {} /\ Tried(q)' = {}
  <2>1. dpc[p] = "idle"
    BY <1>1, <1>2, IdleInRun
  <2>. QED BY <1>1, <1>2, <2>1 DEF DeliveryInv, Idle, Tried
<1>6. pc'[p] = "committed" /\ txn[p].fresh \in [DOMAIN txn[p].fresh -> AlertRow]
      /\ DOMAIN txn[p].fresh \subseteq Identities
  BY <1>2 DEF Commit, Goto, TypeInv, TypeOK, TxnOK, PartialView
<1>7. ASSUME NEW a \in DOMAIN alerts', a \notin DOMAIN alerts
      PROVE  /\ a[1] \in DOMAIN txn[p].fresh /\ a = <<a[1], txn[p].started>>
             /\ alerts'[a] = txn[p].fresh[a[1]]
             /\ IsLatest(a)'
  <2>1. PICK j \in DOMAIN txn[p].fresh : a = <<j, txn[p].started>>
    BY <1>3, <1>7 DEF AlertIds
  <2>2. \A o \in DOMAIN alerts' : o[2] <= txn[p].started
    <3>1. \A o \in AlertIds(p) : o[2] = txn[p].started
      BY DEF AlertIds
    <3>2. txn[p].started \in Nat /\ \A o \in DOMAIN alerts : o[2] \in Nat /\ o[2] < txn[p].started
      BY <1>2, CommitIsAfter
    <3>. QED BY <1>3, <3>1, <3>2
  <2>. QED BY <1>3, <2>1, <2>2 DEF IsLatest
<1>8. ASSUME i \in DOMAIN txn[p].fresh
      PROVE  LET new == txn[p].fresh[i]
                 last == LatestAlert[i]
             IN  /\ new.attempts = 0 /\ new.status \in {"pending", "suppressed"}
                 /\ new.kind = "resolved" /\ new.status = "pending" =>
                      IsOpen(last) /\ last.status # "suppressed"
  <2> DEFINE new == txn[p].fresh[i]
             last == LatestAlert[i]
             now  == txn[p].started
  <2>1. \/ new = Announce(last, now)
        \/ new = MakeAlert("reminder", "pending", now)
        \/ IsOpen(last) /\ new = Close(last, now)
    BY <1>6, <1>8, CommitDecides DEF StoryInv, MonitoringInv
  <2>. HIDE DEF new, last, now
  <2>2. /\ new.attempts = 0 /\ new.status \in {"pending", "suppressed"}
        /\ new.kind = "resolved" /\ new.status = "pending" => IsOpen(last) /\ last.status # "suppressed"
    BY <2>1 DEF Announce, Close, MakeAlert
  <2>. QED BY <2>2 DEF new, last
<1>9. ASSUME smtp = "configured" PROVE PromptInv(i)' /\ ToldInv(i)'
  <2>1. PromptInv(i) /\ ToldInv(i)
    BY <1>9 DEF StoryOf
  <2>2. \A a \in DOMAIN alerts : a[1] = i => alerts[a].status \in {"sent", "suppressed"}
    BY <1>1, <2>1 DEF PromptInv
  <2>3. PromptInv(i)'
    <3>1. ASSUME NEW a \in DOMAIN alerts', a[1] = i
          PROVE  /\ alerts'[a].status \in {"pending", "sent", "suppressed"}
                 /\ alerts'[a].status = "pending" => IsLatest(a)' /\ alerts'[a].attempts = 0
      <4>1. CASE a \in DOMAIN alerts
        BY <1>3, <2>2, <3>1, <4>1
      <4>2. CASE a \notin DOMAIN alerts
        BY <1>7, <1>8, <3>1, <4>2
      <4>. QED BY <4>1, <4>2
    <3>. QED BY <1>1, <1>2, <1>6, <2>1, <3>1 DEF PromptInv
  <2>4. ASSUME NEW a \in DOMAIN alerts', a[1] = i, IsLatest(a)',
               IF alerts'[a].kind = "resolved" THEN alerts'[a].status = "pending" /\ ~Mailed(a)'
                                               ELSE Mailed(a)'
        PROVE  ToldAlarm(i)
    <3>1. Mailed(a)' <=> alerts'[a].status = "sent"
      BY <1>5 DEF Mailed
    <3>2. CASE a \in DOMAIN alerts
      <4>1. alerts'[a] = alerts[a] /\ alerts[a].kind # "resolved" /\ alerts[a].status = "sent"
        BY <1>3, <2>2, <2>4, <3>1, <3>2
      <4>2. IsLatest(a) /\ Mailed(a)
        BY <1>3, <2>4, <4>1 DEF IsLatest, Mailed
      <4>. QED BY <2>1, <2>4, <3>2, <4>1, <4>2 DEF ToldInv
    <3>3. CASE a \notin DOMAIN alerts
      <4>1. i \in DOMAIN txn[p].fresh /\ alerts'[a] = txn[p].fresh[i]
        BY <1>7, <2>4, <3>3
      <4>2. IsOpen(LatestAlert[i]) /\ LatestAlert[i].status # "suppressed"
        BY <1>8, <2>4, <3>1, <4>1
      <4>3. LatestAlert[i] # NoAlert
        BY <4>2 DEF IsOpen, NoAlert
      <4>4. PICK b \in DOMAIN alerts : b[1] = i /\ IsLatest(b) /\ LatestAlert[i] = alerts[b]
        BY <1>2, <4>3, LatestAlertIsLatest
      <4>5. alerts[b].kind # "resolved" /\ Mailed(b)
        BY <2>2, <4>2, <4>4 DEF IsOpen, Mailed
      <4>. QED BY <2>1, <4>4, <4>5 DEF ToldInv
    <3>. QED BY <3>2, <3>3
  <2>5. ToldInv(i)'
    BY <1>4, <2>4 DEF ToldInv
  <2>. QED BY <2>3, <2>5
<1>. QED BY <1>1, <1>4, <1>9 DEF StoryOf

(* InboxInv is inductive for one process: of a condition about which no   *)
(* send has failed, none had failed before the step.                       *)
LEMMA InboxStep ==
  OneProcess /\ StoryInv /\ InboxInv /\ [MonitoringNext]_mvars => InboxInv'
<1>. SUFFICES ASSUME OneProcess, StoryInv, InboxInv, [MonitoringNext]_mvars,
                     NEW i \in Identities, NothingFailed(i)'
              PROVE  StoryOf(i)'
  BY DEF InboxInv
<1>1. MonitoringInv /\ \A p, q \in Procs : p = q
  BY DEF StoryInv, OneProcess
<1>2. NothingFailed(i) /\ StoryOf(i)
  BY <1>1, FailureStays DEF InboxInv
<1>3. CASE UNCHANGED mvars
  BY <1>1, <1>2, <1>3, InboxSame, PromptSame DEF mvars, runVars, dispatchVars, Tried, StoryOf, PromptInv
<1>4. ASSUME NEW p \in Procs, Deliver(p) PROVE StoryOf(i)'
  BY <1>1, <1>2, <1>4, SendTells, FetchTells, MarkTells DEF Deliver
<1>5. ASSUME NEW p \in Procs, DeliveryFails(p) PROVE FALSE
  <2>1. crashes \in Nat /\ crashes' = crashes + 1 /\ crashes' = 0
    BY <1>1, <1>5 DEF DeliveryFails, Delivery!Crash, MonitoringInv, DeliveryInv, DeliveryTypes, NothingFailed
  <2>. QED BY <2>1
<1>6. ASSUME NEW p \in Procs, NothingToDeliver(p) PROVE StoryOf(i)'
  <2>1. UNCHANGED dispatchVars /\ alerts' = alerts /\ Delivery!Pending = {}
    BY <1>6 DEF NothingToDeliver, Return
  <2>2. ASSUME PromptInv(i) PROVE \A a \in DOMAIN alerts : a[1] = i => alerts[a].status # "pending"
    BY <2>1, <2>2, MonitoringAssumption DEF PromptInv, Delivery!Pending
  <2>3. PromptInv(i) => PromptInv(i)'
    BY <2>1, <2>2, PromptSame DEF dispatchVars, PromptInv
  <2>. QED BY <1>1, <1>2, <2>1, <2>3, InboxSame DEF dispatchVars, Tried, StoryOf
<1>7. CASE Environment /\ UNCHANGED dispatchVars
  <2>1. UNCHANGED dispatchVars /\ UNCHANGED <<alerts, pc>>
    BY <1>7 DEF Environment, Wait, NewReadings, tables
  <2>2. PromptInv(i) => PromptInv(i)'
    BY <2>1, PromptSame DEF dispatchVars, PromptInv
  <2>. QED BY <1>1, <1>2, <2>1, <2>2, InboxSame DEF dispatchVars, Tried, StoryOf
<1>8. ASSUME NEW p \in Procs, (Load(p) \/ RunStep(p) \/ Abort(p)) /\ UNCHANGED dispatchVars
      PROVE  StoryOf(i)'
  <2>1. CASE Commit(p)
    BY <1>2, <1>8, <2>1, CommitTells
  <2>2. CASE ~Commit(p)
    <3>1. alerts' = alerts
      BY <1>8, <2>2 DEF Load, RunStep, Compute, Start, Claim, Replay, Learn, ReadView, DecideAlerts,
                  SaveArtifact, LockAsset, Abort, Fail, tables
    <3>2. pc[p] # "committed"
      BY <1>8 DEF Load, RunStep, Compute, Start, Claim, Replay, Learn, ReadView, DecideAlerts,
                  SaveArtifact, LockAsset, Commit, Abort, Fail, Goto
    <3>3. PromptInv(i) => PromptInv(i)'
      BY <1>8, <3>1, <3>2, PromptSame DEF dispatchVars, PromptInv
    <3>. QED BY <1>1, <1>2, <1>8, <3>1, <3>3, InboxSame DEF dispatchVars, Tried, StoryOf
  <2>. QED BY <2>1, <2>2
<1>9. ASSUME NEW p \in Procs, Delivered(p) PROVE StoryOf(i)'
  BY <1>1, <1>2, <1>9, DeliveredTells
<1>. QED BY <1>3, <1>4, <1>5, <1>6, <1>7, <1>8, <1>9 DEF MonitoringNext, Proceed

(* "We never email resolved for an alarm nobody received" (alerting/       *)
(* policy.py, case 5), of the inbox itself: as long as no send about a     *)
(* condition has failed and no delivery has died, whatever becomes of      *)
(* other conditions, an email that it is resolved comes right after one    *)
(* that it is critical.                                                    *)
THEOREM ResolvedWereTold ==
  ASSUME OneProcess, AlwaysFinds PROVE MonitoringSpec => []ResolvedOnlyIfTold
<1>1. MonitoringInit => InboxInv
  <2>. SUFFICES ASSUME MonitoringInit, NEW i \in Identities PROVE StoryOf(i)
    BY DEF InboxInv
  <2>1. inbox = <<>> /\ alerts = <<>> /\ \A p \in Procs : marks[p] = <<>>
    BY DEF MonitoringInit, Init, Delivery!DispatchInit
  <2>2. DOMAIN inbox = {} /\ DOMAIN alerts = {} /\ \A p \in Procs : DOMAIN marks[p] = {}
    BY <2>1
  <2>. QED BY <2>1, <2>2 DEF StoryOf, AllWarned, PromptInv, ToldInv
<1>2. StoryInv /\ [MonitoringNext]_mvars => StoryInv'
  BY StoryStep
<1>3. StoryInv /\ InboxInv /\ [MonitoringNext]_mvars => InboxInv'
  BY InboxStep
<1>4. StoryInv /\ InboxInv => ResolvedOnlyIfTold
  BY WarnedIsTold DEF StoryInv
<1>. QED BY <1>1, <1>2, <1>3, <1>4, StoryStarts, PTL DEF MonitoringSpec
=============================================================================
