------------------------------ MODULE Monitoring ------------------------------
(***************************************************************************)
(* The monitoring loop of one unit, end to end: the analysis runs of       *)
(* AnalysisRun, each followed by a delivery of AlertDispatcher over the    *)
(* alert table the runs write.  A run that is a replay returns before the  *)
(* delivery; an exception of the delivery is swallowed.                    *)
(***************************************************************************)
EXTENDS AnalysisRun, FiniteSets

CONSTANTS
  MaxAttempts,   \* MAX_ATTEMPTS
  MaxCrashes     \* bound: deliveries that die

ASSUME MonitoringAssumption == MaxAttempts \in Nat \ {0} /\ MaxCrashes \in Nat

VARIABLES dpc, batch, todo, group, sentOk, marks, inbox, crashes, smtp

OneUnit(a) == 1

Delivery == INSTANCE AlertDispatcher WITH
  Dispatchers <- Procs, Alerts <- Identities \X Nat, UnitOf <- OneUnit,
  outbox <- alerts

dispatchVars == <<dpc, batch, todo, group, sentOk, marks, inbox, crashes, smtp>>
runVars == <<readings, runs, findings, artifacts, assetLock, pc, txn, clock, budget>>
mvars == <<runVars, alerts, dispatchVars>>

(* self._alert_dispatcher.dispatch(), after the commit of the run. *)
InDelivery(p) == pc[p] = "committed"

Deliver(p) ==
  /\ InDelivery(p)
  /\ \/ Delivery!Fetch(p) \/ Delivery!Mark(p) \/ Delivery!MarkSkipped(p)
     \/ \E ok, out \in BOOLEAN : Delivery!Send(p, ok, out)
  /\ UNCHANGED runVars

(* The delivery commits, fails, or finds nothing to send; run() returns. *)
Delivered(p) == Delivery!CommitMarks(p) /\ Leave(p)

(* Mutant: without the try/except around dispatch() the worker ends. *)
DeliveryFailureStops(p) ==
  /\ Delivery!Crash(p)
  /\ pc' = [pc EXCEPT ![p] = "stopped"]
  /\ UNCHANGED <<readings, tables, artifacts, assetLock, txn, clock, budget>>

(* The delivery raises, and run() swallows it. *)
DeliveryFails(p) == Delivery!Crash(p) /\ Leave(p)

(* Mutant: the run returns although there is something to deliver. *)
ReturnUndelivered(p) ==
  /\ dpc[p] = "idle"
  /\ Return(p)
  /\ UNCHANGED dispatchVars

NothingToDeliver(p) ==
  /\ dpc[p] = "idle" /\ Delivery!Pending = {}
  /\ Return(p)
  /\ UNCHANGED dispatchVars

MonitoringInit == Init /\ Delivery!DispatchInit

(* What run() does by itself: it goes on, or returns. *)
Proceed(p) ==
  \/ RunStep(p) /\ UNCHANGED dispatchVars
  \/ Deliver(p) \/ Delivered(p) \/ NothingToDeliver(p)

MonitoringNext ==
  \/ Environment /\ UNCHANGED dispatchVars
  \/ \E p \in Procs :
       \/ (Load(p) \/ Abort(p)) /\ UNCHANGED dispatchVars
       \/ Proceed(p) \/ DeliveryFails(p)

MonitoringSpec == MonitoringInit /\ [][MonitoringNext]_mvars

MonitoringFairness ==
  /\ \A p \in Procs : WF_mvars(Proceed(p))
  /\ \A p \in Workers : WF_mvars(Load(p) /\ UNCHANGED dispatchVars)

FairMonitoring == MonitoringSpec /\ MonitoringFairness

-----------------------------------------------------------------------------
(* The emails about a condition before the n-th, by their place. *)
ToldBefore(i, n) == {m \in 1..(n - 1) : \E a \in inbox[m] : a[1] = i}

(* No send of an alert about the condition has failed so far, as the table *)
(* and the delivery under way know it, and no delivery has died.           *)
Unfailed(row) == row.attempts = IF row.status = "sent" THEN 1 ELSE 0

NothingFailed(i) ==
  /\ crashes = 0
  /\ \A a \in DOMAIN alerts : a[1] = i => Unfailed(alerts[a])
  /\ \A p \in Procs :
       /\ \A a \in DOMAIN marks[p] : a[1] = i => Unfailed(marks[p][a])
       /\ dpc[p] = "marking" /\ (\E a \in group[p] : a[1] = i) => sentOk[p]

(* "We never email resolved for an alarm nobody received" (alerting/       *)
(* policy.py, case 5): when an email says that a condition is resolved,    *)
(* the last email about it before said that it was critical.  After a      *)
(* failed send it need not be so: an alarm that is retried and its end go  *)
(* out in the order of their kinds.                                        *)
ResolvedOnlyIfTold ==
  \A n \in DOMAIN inbox : \A a \in inbox[n] :
    alerts[a].kind = "resolved" /\ NothingFailed(a[1]) =>
      \E m \in ToldBefore(a[1], n) :
        /\ \A o \in ToldBefore(a[1], n) : o <= m
        /\ \E b \in inbox[m] : b[1] = a[1] /\ alerts[b].kind # "resolved"

(* "Up to 5 attempts" (docs/TECHNICAL-WALKTHROUGH.md): one worker, over   *)
(* any number of cycles, emails an alert at most that often, but for the   *)
(* deliveries that died before their record was committed.                 *)
AtMostMaxAttempts == Delivery!UpToMaxAttempts

(* An outcome, once recorded, is not taken back by a later delivery, nor   *)
(* by the analysis runs that write to the same table.                      *)
OutcomeIsFinal == Delivery!OutcomeIsFinal

Backlog == {id \in DOMAIN alerts : alerts[id].status = "pending"}

(* What there is to "Failed sends are retried naturally on the next tick"  *)
(* (alerting/dispatcher.py): every run that commits tries what is pending, *)
(* its own alerts and those of the runs before, once, unless its delivery  *)
(* is under way or has died.                                               *)
RetriedByEveryRun ==
  \A a \in Backlog :
    LET since == Cardinality({r \in runs : r.started >= a[2]})
    IN  /\ alerts[a].attempts <= since
        /\ since <= alerts[a].attempts + crashes + Cardinality({p \in Procs : InDelivery(p)})

(* The claim itself, "because the analysis loop runs every 30 seconds":    *)
(* the committed alerts do not stay pending for ever.  A tick without new  *)
(* readings is a replay, which returns before the delivery.                *)
EventuallyDelivered == Backlog # {} ~> Backlog = {}
=============================================================================
