------------------------------- MODULE Incident -------------------------------
(***************************************************************************)
(* What the escalation promises about each condition, without runs,        *)
(* tables or views (alerting/policy.py, the numbered cases of its          *)
(* docstring): one incident, one story.                                    *)
(*                                                                         *)
(*   state  where the condition is: never alarmed, open, or closed         *)
(*   word   the last thing the inbox is meant to hear about it             *)
(*   at     when the incident last moved                                   *)
(***************************************************************************)
EXTENDS Naturals

CONSTANTS Identities, Reminder, Cooldown

VARIABLE incident

States == {"never", "open", "closed"}
Words  == {"none", "triggered", "reminder", "resolved"}

Worried(c) == c.word \in {"triggered", "reminder"}

(* An alarm is raised; the inbox hears it unless it is flapping. *)
Trigger(c, d) ==
  /\ c.state # "open" /\ d.state = "open"
  /\ d.word = IF c.state = "closed" /\ d.at - c.at < Cooldown
              THEN c.word ELSE "triggered"

(* It has been open for long enough to be told again. *)
Remind(c, d) ==
  /\ c.state = "open" /\ d.state = "open"
  /\ d.at - c.at >= Reminder
  /\ d.word = "reminder"

(* It is over: said to those, and only those, who were told it was on. *)
Resolve(c, d) ==
  /\ c.state = "open" /\ d.state = "closed"
  /\ d.word = IF Worried(c) THEN "resolved" ELSE c.word

Move(c, d) == c.at < d.at /\ (Trigger(c, d) \/ Remind(c, d) \/ Resolve(c, d))

Init == incident = [i \in Identities |-> [state |-> "never", word |-> "none", at |-> 0]]

(* One analysis may move several incidents, all at its own time. *)
Next ==
  /\ \A i \in Identities : incident'[i] = incident[i] \/ Move(incident[i], incident'[i])
  /\ \A i, j \in Identities :
       incident'[i] # incident[i] /\ incident'[j] # incident[j] =>
         incident'[i].at = incident'[j].at

Spec == Init /\ [][Next]_incident
=============================================================================
