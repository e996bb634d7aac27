------------------------ MODULE AlertDispatcherProofs ------------------------
(***************************************************************************)
(* Proofs about AlertDispatcher, for any number of concurrent dispatchers, *)
(* alerts, units, attempts and crashes: the type invariant, and that the   *)
(* bookkeeping of the outbox never lies, although the dispatchers read     *)
(* without locks and overwrite each other's rows.                          *)
(***************************************************************************)
EXTENDS AlertDispatcher, TLAPS

(* Between two calls of dispatch() nothing is marked. *)
IdleIsClean == \A d \in Dispatchers : dpc[d] = "idle" => DOMAIN marks[d] = {}

(* The inductive type invariant: Mark adds to the marks of its call, so     *)
(* a new call must start with none.                                        *)
TypeInv == TypeOK /\ IdleIsClean

(* It holds initially. *)
LEMMA DispatchTypeInit == Init => TypeInv
BY DispatcherAssumption DEF Init, DispatchInit, TypeInv, TypeOK, IdleIsClean, RowTable

(* An attempt's outcome is a row. *)
LEMMA OutcomeIsRow ==
  ASSUME NEW row \in Rows, NEW ok \in BOOLEAN
  PROVE  Outcome(row, ok) \in Rows
<1>1. row.attempts + 1 \in Nat
  BY DEF Rows
<1>2. \A st \in Statuses, n \in Nat : Marked(row, st, n) \in Rows
  BY DEF Marked, Rows
<1>. QED BY <1>1, <1>2 DEF Outcome, Statuses

(* Overwriting rows of a table by rows gives a table. *)
LEMMA UpdateIsTable ==
  ASSUME NEW f, NEW g, RowTable(f), RowTable(g)
  PROVE  RowTable(Update(f, g)) /\ DOMAIN Update(f, g) = DOMAIN f \cup DOMAIN g
BY DEF RowTable, Update

(* Starting a delivery: what was read is in the outbox. *)
LEMMA FetchType == ASSUME TypeInv, NEW d \in Dispatchers, Fetch(d) PROVE TypeOK'
<1>. USE DEF TypeInv
<1>1. Pending \subseteq DOMAIN outbox /\ Pending \subseteq Alerts
  BY DEF Pending, TypeOK, RowTable
<1>2. RowTable([a \in Pending |-> outbox[a]])
  BY <1>1 DEF TypeOK, RowTable
<1> DEFINE read == [a \in Pending |-> outbox[a]]
<1>3. batch' = [batch EXCEPT ![d] = read] /\ DOMAIN read = Pending
  BY DEF Fetch
<1>4. ASSUME NEW e \in Dispatchers
      PROVE  /\ RowTable(batch'[e]) /\ DOMAIN batch'[e] \subseteq DOMAIN outbox
             /\ todo'[e] \cup group'[e] \cup DOMAIN marks'[e] \subseteq DOMAIN batch'[e]
  <2>1. CASE e = d
    <3>1. batch'[e] = read
      BY <1>3, <2>1 DEF TypeOK
    <3>2. todo'[e] \cup group'[e] \subseteq Pending
      BY <2>1 DEF Fetch, TypeOK
    <3>3. DOMAIN marks'[e] = {}
      BY <2>1 DEF Fetch, TypeOK, IdleIsClean
    <3>. QED BY <1>1, <1>2, <1>3, <3>1, <3>2, <3>3
  <2>2. CASE e # d
    <3>1. /\ batch'[e] = batch[e] /\ todo'[e] = todo[e]
          /\ group'[e] = group[e] /\ marks'[e] = marks[e]
      BY <2>2 DEF Fetch, TypeOK
    <3>. QED BY <3>1 DEF TypeOK
  <2>. QED BY <2>1, <2>2
<1>. HIDE DEF read
<1>. QED BY <1>1, <1>3, <1>4 DEF Fetch, TypeOK

(* Sending one email. *)
LEMMA SendType ==
  ASSUME TypeOK, NEW d \in Dispatchers, NEW ok \in BOOLEAN, NEW out \in BOOLEAN, Send(d, ok, out)
  PROVE  TypeOK'
<1> DEFINE next == FirstGroup(todo[d])
<1>1. next \subseteq todo[d] /\ next \subseteq Alerts
  BY DEF FirstGroup, TypeOK
<1>2. inbox' \in Seq(SUBSET Alerts)
  <2>1. inbox' = Append(inbox, next) \/ inbox' = inbox
    BY DEF Send
  <2>2. inbox \in Seq(SUBSET Alerts) /\ next \in SUBSET Alerts
    BY <1>1 DEF TypeOK
  <2>. HIDE DEF next
  <2>. QED BY <2>1, <2>2
<1>3. group' = [group EXCEPT ![d] = next] /\ todo' = [todo EXCEPT ![d] = todo[d] \ next]
  BY DEF Send
<1>. HIDE DEF next
<1>4. group' \in [Dispatchers -> SUBSET Alerts] /\ todo' \in [Dispatchers -> SUBSET Alerts]
  BY <1>1, <1>3 DEF TypeOK
<1>5. \A e \in Dispatchers : todo'[e] \cup group'[e] \subseteq todo[e] \cup group[e]
  BY <1>1, <1>3 DEF TypeOK
<1>. QED BY <1>2, <1>4, <1>5 DEF Send, TypeOK

(* Recording the outcome of one email, or skipping for want of a server. *)
LEMMA MarkType ==
  ASSUME TypeOK, NEW d \in Dispatchers, Mark(d) \/ MarkSkipped(d)
  PROVE  TypeOK'
<1>1. group[d] \subseteq DOMAIN batch[d] /\ group[d] \subseteq Alerts /\ RowTable(batch[d])
  BY DEF TypeOK
<1>2. CASE Mark(d)
  <2> DEFINE g == [a \in group[d] |-> Outcome(batch[d][a], sentOk[d])]
  <2>1. RowTable(g) /\ DOMAIN g = group[d]
    BY <1>1, OutcomeIsRow DEF RowTable, TypeOK
  <2>2. RowTable(Update(marks[d], g)) /\ DOMAIN Update(marks[d], g) = DOMAIN marks[d] \cup group[d]
    <3>1. RowTable(marks[d])
      BY DEF TypeOK
    <3>. HIDE DEF g
    <3>. QED BY <2>1, <3>1, UpdateIsTable
  <2>3. marks' = [marks EXCEPT ![d] = Update(marks[d], g)]
    BY <1>2 DEF Mark
  <2>. HIDE DEF g
  <2>4. /\ DOMAIN marks' = Dispatchers /\ \A q \in Dispatchers \ {d} : marks'[q] = marks[q]
        /\ RowTable(marks'[d]) /\ DOMAIN marks'[d] \subseteq DOMAIN batch[d]
    BY <1>1, <2>2, <2>3 DEF TypeOK
  <2>5. \A q \in Dispatchers : RowTable(marks'[q]) /\ DOMAIN marks'[q] \subseteq DOMAIN batch[q]
    BY <2>4 DEF TypeOK
  <2>6. UNCHANGED <<outbox, batch, todo, group, sentOk, inbox, crashes, smtp>> /\ dpc' = [dpc EXCEPT ![d] = "sending"]
    BY <1>2 DEF Mark
  <2>. QED BY <2>4, <2>5, <2>6 DEF TypeOK, RowTable
<1>3. CASE MarkSkipped(d)
  <2> DEFINE g == [a \in group[d] |-> Marked(batch[d][a], "skipped", batch[d][a].attempts)]
  <2>1. RowTable(g) /\ DOMAIN g = group[d]
    BY <1>1 DEF RowTable, Rows, Marked, Statuses
  <2>2. marks' = [marks EXCEPT ![d] = g]
    BY <1>3 DEF MarkSkipped
  <2>. HIDE DEF g
  <2>. QED BY <1>1, <1>3, <2>1, <2>2 DEF MarkSkipped, TypeOK
<1>. QED BY <1>2, <1>3

(* The end of a delivery. *)
LEMMA EndType ==
  ASSUME TypeOK, NEW d \in Dispatchers, CommitMarks(d) \/ Crash(d)
  PROVE  TypeOK'
<1>1. RowTable(outbox') /\ DOMAIN outbox \subseteq DOMAIN outbox'
  <2>1. RowTable(outbox) /\ RowTable(marks[d])
    BY DEF TypeOK
  <2>2. outbox' = outbox \/ outbox' = Update(outbox, marks[d])
    BY DEF CommitMarks, Crash
  <2>3. CASE outbox' = outbox
    BY <2>1, <2>3
  <2>4. CASE outbox' = Update(outbox, marks[d])
    BY <2>1, <2>4, UpdateIsTable
  <2>. QED BY <2>2, <2>3, <2>4
<1>2. RowTable(<<>>) /\ DOMAIN <<>> = {}
  BY DEF RowTable
<1>3. crashes' \in 0..MaxCrashes
  BY DispatcherAssumption DEF CommitMarks, Crash, TypeOK
<1>4. Reset(d) /\ UNCHANGED <<inbox, smtp>>
  BY DEF CommitMarks, Crash
<1>. QED BY <1>1, <1>2, <1>3, <1>4 DEF Reset, TypeOK

(* The analysis adds rows. *)
LEMMA EnqueueType ==
  ASSUME TypeOK, NEW S \in SUBSET Alerts, NEW kind \in Kinds,
         NEW status \in {"pending", "suppressed"}, Enqueue(S, kind, status)
  PROVE  TypeOK'
<1> DEFINE g == [a \in S |-> [kind |-> kind, status |-> status, attempts |-> 0]]
<1>1. RowTable(g)
  BY DEF RowTable, Rows, Statuses
<1>2. RowTable(outbox') /\ DOMAIN outbox \subseteq DOMAIN outbox'
  <2>1. outbox' = Update(outbox, g) /\ RowTable(outbox)
    BY DEF Enqueue, TypeOK
  <2>. HIDE DEF g
  <2>. QED BY <1>1, <2>1, UpdateIsTable
<1>. QED BY <1>2 DEF Enqueue, local, TypeOK

(* Every step keeps the types. *)
LEMMA DispatchTypeStep == TypeInv /\ [Next]_dvars => TypeInv'
<1>. SUFFICES ASSUME TypeInv, [Next]_dvars PROVE TypeInv'
  OBVIOUS
<1>1. TypeOK'
  <2>1. CASE UNCHANGED dvars
    BY <2>1 DEF TypeInv, TypeOK, dvars, local
  <2>. QED BY <2>1, FetchType, SendType, MarkType, EndType, EnqueueType
           DEF Next, DispatchStep, Continue, TypeInv
<1>2. IdleIsClean'
  <2>1. ASSUME NEW d \in Dispatchers, Fetch(d) \/ Mark(d) \/ MarkSkipped(d)
        PROVE  IdleIsClean'
    BY <2>1 DEF Fetch, Mark, MarkSkipped, TypeInv, TypeOK, IdleIsClean
  <2>4. ASSUME NEW d \in Dispatchers, NEW ok \in BOOLEAN, NEW out \in BOOLEAN,
               Send(d, ok, out)
        PROVE  IdleIsClean'
    <3>1. dpc' = [dpc EXCEPT ![d] = "marking"] /\ UNCHANGED marks
      BY <2>4 DEF Send
    <3>. QED BY <3>1 DEF TypeInv, TypeOK, IdleIsClean
  <2>2. ASSUME NEW d \in Dispatchers, Reset(d) PROVE IdleIsClean'
    BY <2>2 DEF Reset, TypeInv, TypeOK, IdleIsClean
  <2>3. UNCHANGED <<dpc, marks>> => IdleIsClean'
    BY DEF TypeInv, IdleIsClean
  <2>5. ASSUME NEW d \in Dispatchers, DispatchStep(d) \/ Crash(d) PROVE IdleIsClean'
    <3>1. CASE CommitMarks(d) \/ Crash(d)
      BY <2>2, <3>1 DEF CommitMarks, Crash
    <3>2. CASE \E ok, out \in BOOLEAN : Send(d, ok, out)
      BY <2>4, <3>2
    <3>. QED BY <2>1, <2>5, <3>1, <3>2 DEF DispatchStep, Continue
  <2>6. ASSUME NEW S, NEW kind, NEW status, Enqueue(S, kind, status) PROVE IdleIsClean'
    BY <2>3, <2>6 DEF Enqueue, local
  <2>7. CASE UNCHANGED dvars
    BY <2>3, <2>7 DEF dvars, local
  <2>. QED BY <2>5, <2>6, <2>7 DEF Next
<1>. QED BY <1>1, <1>2 DEF TypeInv

(* The outbox, the dispatchers' local variables and the inbox keep their   *)
(* types, and a dispatcher only works on rows it read from the outbox.     *)
THEOREM DispatchTypeCorrect == Spec => []TypeOK
<1>1. TypeInv => TypeOK
  BY DEF TypeInv
<1>. QED BY <1>1, DispatchTypeInit, DispatchTypeStep, PTL DEF Spec

-----------------------------------------------------------------------------
(***************************************************************************)
(* The bookkeeping.  A row is honest when its status fits its attempts and *)
(* "sent" means that an email with it is out.  Rows move from the outbox   *)
(* to a batch and, as marks, back again, so the marks must be honest, and  *)
(* so must what a dispatcher remembers of the email it has just sent.      *)
(***************************************************************************)
Honest(a, row) ==
  /\ row.status = "pending" => row.attempts < MaxAttempts
  /\ row.status = "failed" => row.attempts = MaxAttempts
  /\ row.status = "sent" => Emailed(a)

HonestWork(d) ==
  /\ \A a \in DOMAIN batch[d] : batch[d][a].attempts < MaxAttempts
                                /\ batch[d][a].status = "pending"
  /\ \A a \in DOMAIN marks[d] : Honest(a, marks[d][a])
  /\ dpc[d] = "marking" /\ sentOk[d] => \A a \in group[d] : Emailed(a)

BooksInv ==
  /\ \A a \in DOMAIN outbox : Honest(a, outbox[a])
  /\ \A d \in Dispatchers : HonestWork(d)

(* Emails stay out: whoever was emailed remains so when the inbox grows.   *)
LEMMA EmailsStay ==
  ASSUME NEW S, S \in SUBSET Alerts, inbox \in Seq(SUBSET Alerts),
         inbox' = inbox \/ inbox' = Append(inbox, S)
  PROVE  /\ \A a : Emailed(a) => Emailed(a)'
         /\ \A a, row : Honest(a, row) => Honest(a, row)'
         /\ inbox' = Append(inbox, S) => \A a \in S : Emailed(a)'
<1>1. \A a : Emailed(a) => Emailed(a)'
  BY DEF Emailed
<1>2. ASSUME inbox' = Append(inbox, S) PROVE \A a \in S : Emailed(a)'
  <2>1. Len(inbox) + 1 \in DOMAIN inbox' /\ inbox'[Len(inbox) + 1] = S
    BY <1>2
  <2>. QED BY <2>1 DEF Emailed
<1>. QED BY <1>1, <1>2 DEF Honest

(* A step of d that leaves the outbox alone. *)
LEMMA OwnBooks ==
  ASSUME TypeInv, BooksInv, NEW d \in Dispatchers, UNCHANGED outbox,
         NEW S \in SUBSET Alerts, inbox' = inbox \/ inbox' = Append(inbox, S),
         \A e \in Dispatchers : e # d =>
           /\ batch'[e] = batch[e] /\ marks'[e] = marks[e] /\ dpc'[e] = dpc[e]
           /\ sentOk'[e] = sentOk[e] /\ group'[e] = group[e],
         HonestWork(d)'
  PROVE  BooksInv'
<1>1. inbox \in Seq(SUBSET Alerts)
  BY DEF TypeInv, TypeOK
<1>2. /\ \A a : Emailed(a) => Emailed(a)'
      /\ \A a, row : Honest(a, row) => Honest(a, row)'
  BY <1>1, EmailsStay
<1>3. ASSUME NEW e \in Dispatchers, e # d PROVE HonestWork(e)'
  BY <1>2, <1>3 DEF BooksInv, HonestWork
<1>. QED BY <1>2, <1>3 DEF BooksInv

(* The SELECT: only pending rows with attempts left are read. *)
LEMMA FetchBooks == ASSUME TypeInv, BooksInv, NEW d \in Dispatchers, Fetch(d)
                    PROVE  BooksInv'
<1> DEFINE read == [a \in Pending |-> outbox[a]]
<1>1. batch'[d] = read /\ dpc'[d] # "marking" /\ DOMAIN marks'[d] = {}
  BY DEF Fetch, TypeInv, TypeOK, IdleIsClean
<1>2. \A a \in Pending : read[a].attempts < MaxAttempts /\ read[a].status = "pending"
  BY DEF Pending
<1>3. DOMAIN read = Pending
  OBVIOUS
<1>4. HonestWork(d)'
  <2>. HIDE DEF read
  <2>. QED BY <1>1, <1>2, <1>3 DEF HonestWork
<1>5. /\ UNCHANGED <<outbox, inbox>>
      /\ \A e \in Dispatchers : e # d =>
           /\ batch'[e] = batch[e] /\ marks'[e] = marks[e] /\ dpc'[e] = dpc[e]
           /\ sentOk'[e] = sentOk[e] /\ group'[e] = group[e]
  BY DEF Fetch, TypeInv, TypeOK
<1>. QED BY <1>4, <1>5, OwnBooks

(* An email that returned is out. *)
LEMMA SendBooks ==
  ASSUME TypeInv, BooksInv, NEW d \in Dispatchers,
         NEW ok \in BOOLEAN, NEW out \in BOOLEAN, Send(d, ok, out)
  PROVE  BooksInv'
<1> DEFINE next == FirstGroup(todo[d])
<1>1. next \in SUBSET Alerts
  BY DEF FirstGroup, TypeInv, TypeOK
<1>2. /\ UNCHANGED <<outbox, batch, marks, smtp>>
      /\ inbox' = IF out THEN Append(inbox, next) ELSE inbox
      /\ group'[d] = next /\ sentOk'[d] = ok /\ (ok => out)
      /\ \A e \in Dispatchers : e # d =>
           dpc'[e] = dpc[e] /\ sentOk'[e] = sentOk[e] /\ group'[e] = group[e]
  BY DEF Send, TypeInv, TypeOK
<1>. HIDE DEF next
<1>3. inbox' = inbox \/ inbox' = Append(inbox, next)
  BY <1>2
<1>4. inbox \in Seq(SUBSET Alerts)
  BY DEF TypeInv, TypeOK
<1>5. \A a, row : Honest(a, row) => Honest(a, row)'
  BY <1>1, <1>3, <1>4, EmailsStay
<1>6. ok => \A a \in next : Emailed(a)'
  BY <1>1, <1>2, <1>3, <1>4, EmailsStay
<1>7. HonestWork(d)'
  BY <1>2, <1>5, <1>6 DEF BooksInv, HonestWork
<1>. QED BY <1>1, <1>2, <1>3, <1>7, OwnBooks

(* The outcome of an attempt is honest. *)
LEMMA OutcomeHonest ==
  ASSUME NEW a, NEW row \in Rows, row.attempts < MaxAttempts, NEW ok \in BOOLEAN,
         ok => Emailed(a)
  PROVE  Honest(a, Outcome(row, ok))
<1> DEFINE n == row.attempts + 1
<1>1. n \in Nat /\ n <= MaxAttempts /\ MaxAttempts \in Nat
  BY DispatcherAssumption DEF Rows
<1>2. \A st : Marked(row, st, n).status = st /\ Marked(row, st, n).attempts = n
  BY DEF Marked, Rows
<1>. QED BY <1>1, <1>2 DEF Outcome, Honest

(* Recording the outcome. *)
LEMMA MarkBooks ==
  ASSUME TypeInv, BooksInv, NEW d \in Dispatchers, Mark(d) \/ MarkSkipped(d)
  PROVE  BooksInv'
<1>1. /\ group[d] \subseteq DOMAIN batch[d] /\ RowTable(batch[d]) /\ HonestWork(d)
      /\ sentOk[d] \in BOOLEAN
  BY DEF TypeInv, TypeOK, BooksInv
<1>2. /\ UNCHANGED <<outbox, inbox, batch, group, sentOk>> /\ dpc'[d] = "sending"
      /\ \A e \in Dispatchers : e # d => marks'[e] = marks[e] /\ dpc'[e] = dpc[e]
  BY DEF Mark, MarkSkipped, TypeInv, TypeOK
<1>3. \A a, row : Honest(a, row)' <=> Honest(a, row)
  BY <1>2 DEF Honest, Emailed
<1>4. \A a \in DOMAIN marks'[d] : Honest(a, marks'[d][a])
  <2>1. CASE Mark(d)
    <3> DEFINE g == [a \in group[d] |-> Outcome(batch[d][a], sentOk[d])]
    <3>1. dpc[d] = "marking" /\ marks'[d] = Update(marks[d], g)
      BY <2>1 DEF Mark, TypeInv, TypeOK
    <3>2. ASSUME NEW a \in group[d] PROVE Honest(a, Outcome(batch[d][a], sentOk[d]))
      <4>1. batch[d][a] \in Rows /\ batch[d][a].attempts < MaxAttempts
        BY <1>1 DEF RowTable, HonestWork
      <4>2. sentOk[d] => Emailed(a)
        BY <1>1, <3>1 DEF HonestWork
      <4>. QED BY <1>1, <4>1, <4>2, OutcomeHonest
    <3>3. DOMAIN g = group[d] /\ \A a \in group[d] : Honest(a, g[a])
      BY <3>2
    <3>4. \A a \in DOMAIN marks[d] : Honest(a, marks[d][a])
      BY <1>1 DEF HonestWork
    <3>. HIDE DEF g
    <3>. QED BY <3>1, <3>3, <3>4 DEF Update
  <2>2. CASE MarkSkipped(d)
    <3> DEFINE row(a) == Marked(batch[d][a], "skipped", batch[d][a].attempts)
    <3>1. marks'[d] = [a \in group[d] |-> row(a)]
      BY <2>2 DEF MarkSkipped, TypeInv, TypeOK
    <3>2. ASSUME NEW a \in group[d] PROVE Honest(a, row(a))
      <4>1. batch[d][a] \in Rows
        BY <1>1 DEF RowTable
      <4>2. row(a).status = "skipped"
        BY <4>1 DEF Marked, Rows
      <4>. QED BY <4>2 DEF Honest
    <3>. HIDE DEF row
    <3>. QED BY <3>1, <3>2
  <2>. QED BY <2>1, <2>2
<1>5. HonestWork(d)'
  BY <1>1, <1>2, <1>3, <1>4 DEF HonestWork
<1>6. {} \in SUBSET Alerts
  OBVIOUS
<1>. QED BY <1>2, <1>5, <1>6, OwnBooks

(* The end of a delivery. *)
LEMMA EndBooks ==
  ASSUME TypeInv, BooksInv, NEW d \in Dispatchers, CommitMarks(d) \/ Crash(d)
  PROVE  BooksInv'
<1>1. Reset(d) /\ UNCHANGED inbox
  BY DEF CommitMarks, Crash
<1>2. outbox' = outbox \/ outbox' = Update(outbox, marks[d])
  BY DEF CommitMarks, Crash
<1>3. \A a, row : Honest(a, row)' <=> Honest(a, row)
  BY <1>1 DEF Honest, Emailed
<1>4. \A a \in DOMAIN outbox' : Honest(a, outbox'[a])
  BY <1>2 DEF BooksInv, HonestWork, Update
<1>5. HonestWork(d)'
  <2>1. dpc'[d] = "idle" /\ DOMAIN batch'[d] = {} /\ DOMAIN marks'[d] = {}
    BY <1>1 DEF Reset, TypeInv, TypeOK
  <2>. QED BY <2>1 DEF HonestWork
<1>6. ASSUME NEW e \in Dispatchers, e # d PROVE HonestWork(e)'
  <2>1. /\ batch'[e] = batch[e] /\ marks'[e] = marks[e] /\ dpc'[e] = dpc[e]
        /\ sentOk'[e] = sentOk[e] /\ group'[e] = group[e]
    BY <1>1, <1>6 DEF Reset, TypeInv, TypeOK
  <2>. QED BY <1>1, <1>3, <2>1 DEF BooksInv, HonestWork, Emailed
<1>. QED BY <1>3, <1>4, <1>5, <1>6 DEF BooksInv

(* New rows have no attempts, and are not sent. *)
LEMMA EnqueueBooks ==
  ASSUME TypeInv, BooksInv, NEW S \in SUBSET Alerts, NEW kind \in Kinds,
         NEW status \in {"pending", "suppressed"}, Enqueue(S, kind, status)
  PROVE  BooksInv'
<1> DEFINE row == [kind |-> kind, status |-> status, attempts |-> 0]
           g   == [a \in S |-> row]
<1>1. UNCHANGED <<local, inbox>> /\ outbox' = Update(outbox, g)
  BY DEF Enqueue
<1>2. \A a : Honest(a, row)
  BY DispatcherAssumption DEF Honest
<1>3. DOMAIN g = S /\ \A a \in S : Honest(a, g[a])
  BY <1>2
<1>. HIDE DEF g
<1>4. \A a \in DOMAIN outbox' : Honest(a, outbox'[a])
  BY <1>1, <1>3 DEF BooksInv, Update
<1>5. \A a, r : Honest(a, r)' <=> Honest(a, r)
  BY <1>1 DEF Honest, Emailed
<1>6. \A d \in Dispatchers : HonestWork(d)'
  BY <1>1, <1>5 DEF BooksInv, HonestWork, Emailed, local
<1>. QED BY <1>4, <1>5, <1>6 DEF BooksInv

(* Every step keeps the books. *)
LEMMA BooksStep == TypeInv /\ BooksInv /\ [Next]_dvars => BooksInv'
<1>. SUFFICES ASSUME TypeInv, BooksInv, [Next]_dvars PROVE BooksInv'
  OBVIOUS
<1>1. CASE UNCHANGED dvars
  BY <1>1 DEF dvars, local, BooksInv, HonestWork, Honest, Emailed
<1>2. ASSUME NEW d \in Dispatchers, DispatchStep(d) \/ Crash(d) PROVE BooksInv'
  BY <1>2, FetchBooks, SendBooks, MarkBooks, EndBooks DEF DispatchStep, Continue
<1>. QED BY <1>1, <1>2, EnqueueBooks DEF Next

(* No alert is stuck: a pending row has attempts left, and a row given up  *)
(* on has none.                                                            *)
THEOREM NoneStuck == Spec => []AttemptsMatchStatus
<1>1. Init => BooksInv
  BY DEF Init, DispatchInit, BooksInv, HonestWork
<1>2. BooksInv => AttemptsMatchStatus
  BY DEF BooksInv, Honest, AttemptsMatchStatus
<1>. QED BY <1>1, <1>2, DispatchTypeInit, DispatchTypeStep, BooksStep, PTL DEF Spec

(* The record never claims a delivery that did not happen. *)
THEOREM SentIsTrue == Spec => []SentWasEmailed
<1>1. Init => BooksInv
  BY DEF Init, DispatchInit, BooksInv, HonestWork
<1>2. BooksInv => SentWasEmailed
  BY DEF BooksInv, Honest, SentWasEmailed
<1>. QED BY <1>1, <1>2, DispatchTypeInit, DispatchTypeStep, BooksStep, PTL DEF Spec

-----------------------------------------------------------------------------
(***************************************************************************)
(* Silence.  A suppressed row is never read, an emailed row was read while *)
(* pending and is not suppressed later, and rows are skipped only where    *)
(* nothing is sent.                                                        *)
(***************************************************************************)
Quiet(row) == row.status # "suppressed" /\ (row.status = "skipped" => smtp = "unset")

SilentWork(d) ==
  /\ \A a \in DOMAIN batch[d] : outbox[a].status # "suppressed"
  /\ \A a \in DOMAIN marks[d] : Quiet(marks[d][a])
  /\ smtp = "configured" => dpc[d] # "skipping"
  /\ smtp = "unset" => todo[d] = {}

SilenceInv ==
  /\ \A a \in DOMAIN outbox : outbox[a].status = "skipped" => smtp = "unset"
  /\ \A a : Emailed(a) => a \in DOMAIN outbox /\ outbox[a].status # "suppressed"
  /\ \A d \in Dispatchers : SilentWork(d)
  /\ smtp = "unset" => inbox = <<>>

(* A step of d that leaves the outbox and the inbox alone. *)
LEMMA OwnSilence ==
  ASSUME SilenceInv, NEW d \in Dispatchers, UNCHANGED <<outbox, inbox, smtp>>,
         \A e \in Dispatchers : e # d =>
           /\ batch'[e] = batch[e] /\ marks'[e] = marks[e]
           /\ dpc'[e] = dpc[e] /\ todo'[e] = todo[e],
         SilentWork(d)'
  PROVE  SilenceInv'
BY DEF SilenceInv, SilentWork, Quiet, Emailed

(* The SELECT reads no suppressed row. *)
LEMMA FetchSilence == ASSUME TypeInv, SilenceInv, NEW d \in Dispatchers, Fetch(d)
                      PROVE  SilenceInv'
<1>1. /\ DOMAIN batch'[d] = Pending /\ DOMAIN marks'[d] = {}
      /\ UNCHANGED <<outbox, inbox, smtp>>
      /\ todo'[d] = (IF smtp = "configured" THEN Pending ELSE {})
      /\ dpc'[d] = IF smtp = "configured" THEN "sending" ELSE "skipping"
  BY DEF Fetch, TypeInv, TypeOK, IdleIsClean
<1>2. \A a \in Pending : outbox[a].status # "suppressed"
  BY DEF Pending
<1>3. SilentWork(d)'
  BY <1>1, <1>2 DEF SilentWork
<1>4. \A e \in Dispatchers : e # d =>
        /\ batch'[e] = batch[e] /\ marks'[e] = marks[e]
        /\ dpc'[e] = dpc[e] /\ todo'[e] = todo[e]
  BY DEF Fetch, TypeInv, TypeOK
<1>. QED BY <1>1, <1>3, <1>4, OwnSilence

(* What is sent was read, so it is not suppressed, and there is a server.  *)
LEMMA SendSilence ==
  ASSUME TypeInv, SilenceInv, NEW d \in Dispatchers,
         NEW ok \in BOOLEAN, NEW out \in BOOLEAN, Send(d, ok, out)
  PROVE  SilenceInv'
<1> DEFINE next == FirstGroup(todo[d])
<1>1. next \subseteq todo[d] /\ todo[d] # {}
  BY DEF FirstGroup, Send
<1>2. smtp = "configured"
  BY <1>1 DEF SilenceInv, SilentWork, TypeInv, TypeOK
<1>3. /\ UNCHANGED <<outbox, batch, marks, smtp>>
      /\ inbox' = inbox \/ inbox' = Append(inbox, next)
      /\ \A e \in Dispatchers : dpc'[e] = dpc[e] \/ dpc'[e] = "marking"
  BY DEF Send, TypeInv, TypeOK
<1>4. \A a \in next : a \in DOMAIN outbox /\ outbox[a].status # "suppressed"
  BY <1>1 DEF SilenceInv, SilentWork, TypeInv, TypeOK
<1>. HIDE DEF next
<1>5. \A a : Emailed(a)' => Emailed(a) \/ a \in next
  BY <1>3 DEF Emailed, TypeInv, TypeOK
<1>. QED BY <1>2, <1>3, <1>4, <1>5 DEF SilenceInv, SilentWork, Quiet

(* What is marked was read. *)
LEMMA MarkSilence ==
  ASSUME TypeInv, SilenceInv, NEW d \in Dispatchers, Mark(d) \/ MarkSkipped(d)
  PROVE  SilenceInv'
<1>1. group[d] \subseteq DOMAIN batch[d] /\ RowTable(batch[d]) /\ SilentWork(d)
  BY DEF TypeInv, TypeOK, SilenceInv
<1>2. /\ UNCHANGED <<outbox, inbox, batch, todo, smtp>> /\ dpc'[d] = "sending"
      /\ \A e \in Dispatchers : e # d => marks'[e] = marks[e] /\ dpc'[e] = dpc[e]
  BY DEF Mark, MarkSkipped, TypeInv, TypeOK
<1>3. \A a \in DOMAIN marks'[d] : Quiet(marks'[d][a])
  <2>1. CASE Mark(d)
    <3> DEFINE g == [a \in group[d] |-> Outcome(batch[d][a], sentOk[d])]
    <3>1. marks'[d] = Update(marks[d], g)
      BY <2>1 DEF Mark, TypeInv, TypeOK
    <3>2. ASSUME NEW a \in group[d] PROVE Quiet(Outcome(batch[d][a], sentOk[d]))
      <4>1. batch[d][a] \in Rows
        BY <1>1 DEF RowTable
      <4>2. \A st, n : Marked(batch[d][a], st, n).status = st
        BY <4>1 DEF Marked, Rows
      <4>. QED BY <4>2 DEF Outcome, Quiet
    <3>3. DOMAIN g = group[d] /\ \A a \in group[d] : Quiet(g[a])
      BY <3>2
    <3>4. \A a \in DOMAIN marks[d] : Quiet(marks[d][a])
      BY <1>1 DEF SilentWork
    <3>. HIDE DEF g
    <3>. QED BY <3>1, <3>3, <3>4 DEF Update
  <2>2. CASE MarkSkipped(d)
    <3> DEFINE row(a) == Marked(batch[d][a], "skipped", batch[d][a].attempts)
    <3>1. marks'[d] = [a \in group[d] |-> row(a)] /\ smtp = "unset"
      BY <1>1, <2>2 DEF MarkSkipped, TypeInv, TypeOK, SilentWork
    <3>2. ASSUME NEW a \in group[d] PROVE row(a).status = "skipped"
      <4>1. batch[d][a] \in Rows
        BY <1>1 DEF RowTable
      <4>. QED BY <4>1 DEF Marked, Rows
    <3>. HIDE DEF row
    <3>. QED BY <3>1, <3>2 DEF Quiet
  <2>. QED BY <2>1, <2>2
<1>4. SilentWork(d)'
  BY <1>1, <1>2, <1>3 DEF SilentWork, Quiet
<1>. QED BY <1>2, <1>4, OwnSilence

(* The outbox takes over the marks. *)
LEMMA EndSilence ==
  ASSUME TypeInv, SilenceInv, NEW d \in Dispatchers, CommitMarks(d) \/ Crash(d)
  PROVE  SilenceInv'
<1>1. Reset(d) /\ UNCHANGED <<inbox, smtp>>
  BY DEF CommitMarks, Crash
<1>2. outbox' = outbox \/ outbox' = Update(outbox, marks[d])
  BY DEF CommitMarks, Crash
<1>3. /\ DOMAIN outbox \subseteq DOMAIN outbox'
      /\ \A a \in DOMAIN outbox' :
           \/ a \in DOMAIN outbox /\ outbox'[a] = outbox[a]
           \/ Quiet(outbox'[a])
  BY <1>2 DEF Update, SilenceInv, SilentWork
<1>4. \A a \in DOMAIN outbox : outbox[a].status # "suppressed" => outbox'[a].status # "suppressed"
  BY <1>3 DEF Quiet
<1>5. \A e \in Dispatchers : SilentWork(e)'
  <2>1. ASSUME NEW e \in Dispatchers, e # d PROVE SilentWork(e)'
    <3>1. /\ batch'[e] = batch[e] /\ marks'[e] = marks[e]
          /\ dpc'[e] = dpc[e] /\ todo'[e] = todo[e]
      BY <1>1, <2>1 DEF Reset, TypeInv, TypeOK
    <3>2. DOMAIN batch[e] \subseteq DOMAIN outbox
      BY DEF TypeInv, TypeOK
    <3>. QED BY <1>1, <1>4, <3>1, <3>2 DEF SilenceInv, SilentWork, Quiet
  <2>2. /\ DOMAIN batch'[d] = {} /\ DOMAIN marks'[d] = {}
        /\ dpc'[d] = "idle" /\ todo'[d] = {}
    BY <1>1 DEF Reset, TypeInv, TypeOK
  <2>3. SilentWork(d)'
    BY <2>2 DEF SilentWork
  <2>. QED BY <2>1, <2>3
<1>. QED BY <1>1, <1>3, <1>4, <1>5 DEF SilenceInv, Emailed, Quiet

(* A new row is not emailed yet, and its neighbours are not touched. *)
LEMMA EnqueueSilence ==
  ASSUME TypeInv, SilenceInv, NEW S \in SUBSET Alerts, NEW kind \in Kinds,
         NEW status \in {"pending", "suppressed"}, Enqueue(S, kind, status)
  PROVE  SilenceInv'
<1> DEFINE row == [kind |-> kind, status |-> status, attempts |-> 0]
           g   == [a \in S |-> row]
<1>1. UNCHANGED <<local, inbox, smtp>> /\ outbox' = Update(outbox, g) /\ S \cap DOMAIN outbox = {}
  BY DEF Enqueue
<1>2. DOMAIN g = S /\ \A a \in S : g[a].status # "skipped"
  OBVIOUS
<1>. HIDE DEF g
<1>3. /\ DOMAIN outbox \subseteq DOMAIN outbox'
      /\ \A a \in DOMAIN outbox : outbox'[a] = outbox[a]
      /\ \A a \in DOMAIN outbox' \ DOMAIN outbox : outbox'[a].status # "skipped"
  BY <1>1, <1>2 DEF Update
<1>4. \A d \in Dispatchers : DOMAIN batch[d] \subseteq DOMAIN outbox
  BY DEF TypeInv, TypeOK
<1>. QED BY <1>1, <1>3, <1>4 DEF SilenceInv, SilentWork, Quiet, Emailed, local

(* Every step keeps silent. *)
LEMMA SilenceStep == TypeInv /\ SilenceInv /\ [Next]_dvars => SilenceInv'
<1>. SUFFICES ASSUME TypeInv, SilenceInv, [Next]_dvars PROVE SilenceInv'
  OBVIOUS
<1>1. CASE UNCHANGED dvars
  BY <1>1 DEF dvars, local, SilenceInv, SilentWork, Quiet, Emailed
<1>2. ASSUME NEW d \in Dispatchers, DispatchStep(d) \/ Crash(d) PROVE SilenceInv'
  BY <1>2, FetchSilence, SendSilence, MarkSilence, EndSilence DEF DispatchStep, Continue
<1>. QED BY <1>1, <1>2, EnqueueSilence DEF Next

(* What the policy suppressed, and what was skipped for want of a mail     *)
(* server, never reached an inbox (dispatcher.py, postgres.py pending).    *)
THEOREM SuppressedIsSilent == Spec => []SilentStaysSilent
<1>1. Init => SilenceInv
  BY DEF Init, DispatchInit, SilenceInv, SilentWork, Emailed
<1>2. SilenceInv => SilentStaysSilent
  BY DEF SilenceInv, SilentStaysSilent, Emailed
<1>. QED BY <1>1, <1>2, DispatchTypeInit, DispatchTypeStep, SilenceStep, PTL DEF Spec
=============================================================================
