--------------------------- MODULE AlertDispatcher ---------------------------
(***************************************************************************)
(* The outbox and its consumer: AlertDispatcher.dispatch (alerting/        *)
(* dispatcher.py) over application.alert.  Every process that finished an  *)
(* analysis runs it, so several may deliver at the same time.  dispatch    *)
(* is one READ COMMITTED transaction: it reads the pending rows without    *)
(* locking them, sends one email per (unit, kind) inside the transaction,  *)
(* and overwrites the rows with what it computed from its first read.      *)
(***************************************************************************)
EXTENDS Naturals, Sequences, FiniteSets

CONSTANTS
  Dispatchers,   \* the processes that deliver
  Alerts,        \* the alerts that may be written (alert_id)
  UnitOf(_),     \* the unit of an alert, numbered in the order of the names
  MaxAttempts,   \* MAX_ATTEMPTS
  MaxCrashes     \* bound: how often a delivery dies or its transaction fails

Kinds    == {"triggered", "reminder", "resolved"}
Statuses == {"pending", "sent", "failed", "suppressed", "skipped"}
Rows     == [kind : Kinds, status : Statuses, attempts : Nat]

ASSUME DispatcherAssumption ==
  /\ \A a \in Alerts : UnitOf(a) \in Nat
  /\ MaxAttempts \in Nat \ {0} /\ MaxCrashes \in Nat

VARIABLES
  outbox,    \* application.alert: the committed rows, alert -> Rows
  dpc,       \* where each dispatcher is in dispatch()
  batch,     \* what its SELECT returned: alert -> Rows
  todo,      \* the alerts of the batch whose group was not yet tried
  group,     \* the alerts of the email it is sending
  sentOk,    \* whether send() returned
  marks,     \* its uncommitted UPDATEs, alert -> Rows; they lock the rows
  inbox,     \* the emails that arrived, each the set of its alerts
  crashes,   \* how many deliveries were cut short
  smtp       \* SmtpMailer.configured, from the settings the processes start with

local == <<dpc, batch, todo, group, sentOk, marks>>
dvars == <<outbox, local, inbox, crashes, smtp>>

(* Mutants: the status is not asked, or the suppressed rows are taken too. *)
PendingByAttempts == {a \in DOMAIN outbox : outbox[a].attempts < MaxAttempts}
PendingOrSuppressed ==
  {a \in DOMAIN outbox : /\ outbox[a].status \in {"pending", "suppressed"}
                         /\ outbox[a].attempts < MaxAttempts}

(* alerts.pending: status = 'pending' AND attempts < max. *)
Pending == {a \in DOMAIN outbox : /\ outbox[a].status = "pending"
                                  /\ outbox[a].attempts < MaxAttempts}

(* sorted by (unit, kind.value): the names of the kinds are in the order   *)
(* reminder < resolved < triggered.                                        *)
KindRank(k) == CASE k = "reminder" -> 1 [] k = "resolved" -> 2 [] OTHER -> 3

Before(a, b) ==
  \/ UnitOf(a) < UnitOf(b)
  \/ UnitOf(a) = UnitOf(b) /\ KindRank(outbox[a].kind) < KindRank(outbox[b].kind)

(* The next group of a batch: its first (unit, kind). *)
FirstGroup(S) == {a \in S : \A b \in S : ~Before(b, a)}

LockedByOther(d, a) == \E e \in Dispatchers \ {d} : a \in DOMAIN marks[e]

(* mark: the row's delivery bookkeeping, from what was read of it. *)
Marked(read, status, n) == [read EXCEPT !.status = status, !.attempts = n]

(* Mutants: failed attempts are not counted; the bound is one too high;    *)
(* an email that failed is recorded as sent.                               *)
OutcomeUncounted(read, ok) ==
  Marked(read, IF ok THEN "sent" ELSE "pending", read.attempts)
OutcomeOneMore(read, ok) ==
  Marked(read, IF ok THEN "sent"
               ELSE IF read.attempts >= MaxAttempts THEN "failed" ELSE "pending",
         read.attempts + 1)
OutcomeAlwaysSent(read, ok) == Marked(read, "sent", read.attempts + 1)

(* The outcome of one attempt. *)
Outcome(read, ok) ==
  LET n == read.attempts + 1
  IN  Marked(read, IF ok THEN "sent"
                   ELSE IF n >= MaxAttempts THEN "failed" ELSE "pending", n)

Update(f, g) == [x \in DOMAIN f \cup DOMAIN g |-> IF x \in DOMAIN g THEN g[x] ELSE f[x]]

-----------------------------------------------------------------------------
DispatchInit ==
  /\ dpc = [d \in Dispatchers |-> "idle"]
  /\ batch = [d \in Dispatchers |-> <<>>]
  /\ todo = [d \in Dispatchers |-> {}]
  /\ group = [d \in Dispatchers |-> {}]
  /\ sentOk = [d \in Dispatchers |-> FALSE]
  /\ marks = [d \in Dispatchers |-> <<>>]
  /\ inbox = <<>>
  /\ crashes = 0
  /\ smtp \in {"configured", "unset"}

(* pending = uow.alerts.pending(..); with nothing to send it returns.  An  *)
(* unconfigured mailer skips the whole batch: one group, no email.         *)
Fetch(d) ==
  /\ dpc[d] = "idle"
  /\ Pending # {}
  /\ batch' = [batch EXCEPT ![d] = [a \in Pending |-> outbox[a]]]
  /\ todo' = [todo EXCEPT ![d] = IF smtp = "configured" THEN Pending ELSE {}]
  /\ group' = [group EXCEPT ![d] = IF smtp = "configured" THEN {} ELSE Pending]
  /\ dpc' = [dpc EXCEPT ![d] = IF smtp = "configured" THEN "sending" ELSE "skipping"]
  /\ UNCHANGED <<outbox, sentOk, marks, inbox, crashes, smtp>>

(* self._mailer.send for the next group.  It returns, and the email is     *)
(* out; it raises, and it is not; or it raises although the server took    *)
(* the message (a timeout on the answer).                                  *)
Send(d, ok, out) ==
  LET next == FirstGroup(todo[d])
  IN  /\ dpc[d] = "sending" /\ todo[d] # {}
      /\ ok => out
      /\ group' = [group EXCEPT ![d] = next]
      /\ todo' = [todo EXCEPT ![d] = @ \ next]
      /\ sentOk' = [sentOk EXCEPT ![d] = ok]
      /\ inbox' = IF out THEN Append(inbox, next) ELSE inbox
      /\ dpc' = [dpc EXCEPT ![d] = "marking"]
      /\ UNCHANGED <<outbox, batch, marks, crashes, smtp>>

(* alerts.mark for every alert of the group: an UPDATE waits for the row   *)
(* lock of another delivery, then overwrites whatever that one wrote.      *)
Mark(d) ==
  /\ dpc[d] = "marking"
  /\ \A a \in group[d] : ~LockedByOther(d, a)
  /\ marks' = [marks EXCEPT ![d] =
       Update(@, [a \in group[d] |-> Outcome(batch[d][a], sentOk[d])])]
  /\ dpc' = [dpc EXCEPT ![d] = "sending"]
  /\ UNCHANGED <<outbox, batch, todo, group, sentOk, inbox, crashes, smtp>>

(* Mutant: nothing is recorded for want of a mail server. *)
SkipSilently(d) ==
  /\ dpc[d] = "skipping"
  /\ dpc' = [dpc EXCEPT ![d] = "sending"]
  /\ UNCHANGED <<outbox, batch, todo, group, sentOk, marks, inbox, crashes, smtp>>

(* Without a mail server the whole batch is recorded as skipped. *)
MarkSkipped(d) ==
  /\ dpc[d] = "skipping"
  /\ \A a \in group[d] : ~LockedByOther(d, a)
  /\ marks' = [marks EXCEPT ![d] =
       [a \in group[d] |-> Marked(batch[d][a], "skipped", batch[d][a].attempts)]]
  /\ dpc' = [dpc EXCEPT ![d] = "sending"]
  /\ UNCHANGED <<outbox, batch, todo, group, sentOk, inbox, crashes, smtp>>

(* Mutant: what is left to do is kept for the next call. *)
ResetKeepsTodo(d) ==
  /\ dpc' = [dpc EXCEPT ![d] = "idle"]
  /\ batch' = [batch EXCEPT ![d] = <<>>]
  /\ group' = [group EXCEPT ![d] = {}]
  /\ sentOk' = [sentOk EXCEPT ![d] = FALSE]
  /\ marks' = [marks EXCEPT ![d] = <<>>]
  /\ UNCHANGED todo

(* The local variables of dispatch() are gone with the call. *)
Reset(d) ==
  /\ dpc' = [dpc EXCEPT ![d] = "idle"]
  /\ batch' = [batch EXCEPT ![d] = <<>>]
  /\ todo' = [todo EXCEPT ![d] = {}]
  /\ group' = [group EXCEPT ![d] = {}]
  /\ sentOk' = [sentOk EXCEPT ![d] = FALSE]
  /\ marks' = [marks EXCEPT ![d] = <<>>]

(* The unit of work ends: the marks become visible, the rows are free. *)
CommitMarks(d) ==
  /\ dpc[d] = "sending" /\ todo[d] = {}
  /\ outbox' = Update(outbox, marks[d])
  /\ Reset(d)
  /\ UNCHANGED <<inbox, crashes, smtp>>

(* The process dies, or a statement or the commit fails: nothing of this   *)
(* delivery is recorded, but the emails it sent are out.                   *)
Crash(d) ==
  /\ dpc[d] # "idle"
  /\ crashes < MaxCrashes
  /\ crashes' = crashes + 1
  /\ Reset(d)
  /\ UNCHANGED <<outbox, inbox, smtp>>

(* A dispatch() that has begun goes on. *)
Continue(d) ==
  \/ \E ok, out \in BOOLEAN : Send(d, ok, out)
  \/ Mark(d) \/ MarkSkipped(d) \/ CommitMarks(d)

DispatchStep(d) == Fetch(d) \/ Continue(d)

(* Environment: an analysis commits its alerts, pending or suppressed. *)
Enqueue(S, kind, status) ==
  /\ S # {} /\ S \cap DOMAIN outbox = {}
  /\ outbox' = Update(outbox,
       [a \in S |-> [kind |-> kind, status |-> status, attempts |-> 0]])
  /\ UNCHANGED <<local, inbox, crashes, smtp>>

Init == outbox = <<>> /\ DispatchInit

Next ==
  \/ \E S \in SUBSET Alerts, kind \in Kinds, status \in {"pending", "suppressed"} :
       Enqueue(S, kind, status)
  \/ \E d \in Dispatchers : DispatchStep(d) \/ Crash(d)

Spec == Init /\ [][Next]_dvars

(* A delivery that began ends: send() has a timeout, and a row lock is     *)
(* held no longer than a delivery lasts.  Whether dispatch() is called     *)
(* again is up to the analysis, and nothing is assumed of it.              *)
FairSpec == Spec /\ \A d \in Dispatchers : WF_dvars(Continue(d))

-----------------------------------------------------------------------------
(***************************************************************************)
(* Properties.                                                             *)
(***************************************************************************)
RowTable(f) == DOMAIN f \subseteq Alerts /\ f \in [DOMAIN f -> Rows]

(* The type invariant; a dispatcher works on alerts it read, and read only *)
(* alerts that are in the outbox.                                          *)
TypeOK ==
  /\ RowTable(outbox)
  /\ dpc \in [Dispatchers -> {"idle", "sending", "marking", "skipping"}]
  /\ todo \in [Dispatchers -> SUBSET Alerts]
  /\ group \in [Dispatchers -> SUBSET Alerts]
  /\ sentOk \in [Dispatchers -> BOOLEAN]
  /\ DOMAIN batch = Dispatchers /\ DOMAIN marks = Dispatchers
  /\ \A d \in Dispatchers :
       /\ RowTable(batch[d]) /\ RowTable(marks[d])
       /\ DOMAIN batch[d] \subseteq DOMAIN outbox
       /\ todo[d] \cup group[d] \cup DOMAIN marks[d] \subseteq DOMAIN batch[d]
  /\ inbox \in Seq(SUBSET Alerts)
  /\ crashes \in 0..MaxCrashes
  /\ smtp \in {"configured", "unset"}

Emailed(a) == \E n \in DOMAIN inbox : a \in inbox[n]

Emails(a) == Cardinality({n \in DOMAIN inbox : a \in inbox[n]})

(* No alert is stuck: the SELECT only takes rows with attempts left, and   *)
(* whatever overwrites whatever, a pending row has some left and a row     *)
(* given up on has none.                                                   *)
AttemptsMatchStatus ==
  \A a \in DOMAIN outbox :
    /\ outbox[a].status = "pending" => outbox[a].attempts < MaxAttempts
    /\ outbox[a].status = "failed" => outbox[a].attempts = MaxAttempts

(* The record does not claim a delivery that did not happen, even when two *)
(* dispatchers overwrite each other or one dies after sending.             *)
SentWasEmailed ==
  \A a \in DOMAIN outbox : outbox[a].status = "sent" => Emailed(a)

(* What the policy suppressed (flapping) never reaches an inbox, and what  *)
(* is skipped for want of a mail server did not either.                    *)
SilentStaysSilent ==
  \A a \in DOMAIN outbox :
    outbox[a].status \in {"suppressed", "skipped"} => ~Emailed(a)

(* "Up to 5 attempts" (docs/TECHNICAL-WALKTHROUGH.md): an inbox never gets *)
(* an alert more often than that, but for deliveries that died.            *)
UpToMaxAttempts ==
  \A a \in DOMAIN outbox : Emails(a) <= MaxAttempts + crashes

(* An outcome, once recorded, is never taken back (holds of one            *)
(* dispatcher at a time).                                                  *)
Final == {"sent", "failed", "suppressed", "skipped"}
OutcomeIsFinal ==
  [][\A a \in DOMAIN outbox :
       outbox[a].status \in Final => outbox'[a] = outbox[a]]_outbox

(* "Every outcome is recorded, none is silent" (alerting/dispatcher.py):   *)
(* as long as dispatch() is called, no alert stays pending for ever,       *)
(* although deliveries fail, die, and overwrite each other's bookkeeping;  *)
(* and no delivery waits for ever for the rows of another.  An alert that  *)
(* is never recorded is one for which dispatch() is not called any more.   *)
Waiting(a) == a \in DOMAIN outbox /\ outbox[a].status = "pending"

RecordedIfCalled ==
  \A a \in Alerts :
    <>[]Waiting(a) => <>[](\A d \in Dispatchers : dpc[d] = "idle")
=============================================================================
