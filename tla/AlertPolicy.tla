----------------------------- MODULE AlertPolicy -----------------------------
(***************************************************************************)
(* The escalation policy (alerting/policy.py): which alerts one analysis   *)
(* run implies.  Pure: a function of the conditions that were critical     *)
(* before the run, those that are critical now, the newest alert of each   *)
(* condition, and the time.  The payload of an alert (wording, evidence)   *)
(* is left out; its life, kind, status, attempts and creation time, is     *)
(* kept.                                                                   *)
(***************************************************************************)
EXTENDS Naturals

CONSTANTS
  Identities,   \* the conditions of one unit (Finding.identity_key)
  Reminder,     \* AlertPolicy._reminder, in units of the clock
  Cooldown      \* AlertPolicy._cooldown, in units of the clock

ASSUME PolicyAssumption == Reminder \in Nat /\ Cooldown \in Nat

Kinds    == {"triggered", "reminder", "resolved"}
Statuses == {"pending", "sent", "failed", "suppressed", "skipped"}

(* One row of application.alert. *)
AlertRow == [kind : Kinds, status : Statuses, attempts : Nat, at : Nat]

(* "This condition has no alert": dict.get returns None. *)
NoAlert == [kind |-> "none", status |-> "none", attempts |-> 0, at |-> 0]

MakeAlert(kind, status, now) ==
  [kind |-> kind, status |-> status, attempts |-> 0, at |-> now]

(* An alert was raised and the condition was not reported resolved since. *)
IsOpen(last) == last.kind \in {"triggered", "reminder"}

(* Mutant: the cooldown includes its last instant. *)
FlappingInclusive(last, now) == last.kind = "resolved" /\ now - last.at <= Cooldown

(* Edge 4: the condition comes back within the cooldown of its resolution. *)
Flapping(last, now) == last.kind = "resolved" /\ now - last.at < Cooldown

(* Edges 1, 4 and 6: a condition that was not critical, or that nobody     *)
(* ever announced, is announced (quietly when it is flapping).             *)
MustTrigger(i, wasCritical, last) == i \notin wasCritical \/ last = NoAlert

(* Edge 3: still critical, the last word on it is old enough. *)
MustRemind(i, wasCritical, last, now) ==
  /\ ~MustTrigger(i, wasCritical, last)
  /\ IsOpen(last)
  /\ now - last.at >= Reminder

(* Mutant: only the first alarm is closed, not a reminded one. *)
ResolveOnlyTriggered(i, wasCritical, isCritical, last) ==
  i \in wasCritical \ isCritical /\ last.kind = "triggered"

(* Edges 2 and 5: no longer critical, and the incident is still open. *)
MustResolve(i, wasCritical, isCritical, last) ==
  i \in wasCritical \ isCritical /\ IsOpen(last)

(* The rows of the alerts, by the edges above. *)
Announce(last, now) ==
  MakeAlert("triggered", IF Flapping(last, now) THEN "suppressed" ELSE "pending", now)

(* Mutant: every resolution is emailed. *)
CloseAloud(last, now) == MakeAlert("resolved", "pending", now)

Close(last, now) ==
  MakeAlert("resolved",
            IF last.status = "suppressed" THEN "suppressed" ELSE "pending", now)

(***************************************************************************)
(* AlertPolicy.decide: at most one alert per condition.  The result maps   *)
(* each condition that gets an alert to its row.                           *)
(***************************************************************************)
Alerted(wasCritical, isCritical, latest, now) ==
  {i \in isCritical : \/ MustTrigger(i, wasCritical, latest[i])
                      \/ MustRemind(i, wasCritical, latest[i], now)}
  \cup {i \in wasCritical : MustResolve(i, wasCritical, isCritical, latest[i])}

Decide(wasCritical, isCritical, latest, now) ==
  [i \in Alerted(wasCritical, isCritical, latest, now) |->
     CASE i \notin isCritical -> Close(latest[i], now)
       [] i \in isCritical /\ MustTrigger(i, wasCritical, latest[i]) ->
            Announce(latest[i], now)
       [] OTHER -> MakeAlert("reminder", "pending", now)]
=============================================================================
