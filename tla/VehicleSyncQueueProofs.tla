----------------------- MODULE VehicleSyncQueueProofs -----------------------
(***************************************************************************)
(* Theorems about VehicleSyncQueue, for any set of plates, any finite set  *)
(* of workers and any bounds.                                              *)
(***************************************************************************)
EXTENDS VehicleSyncQueue, FiniteSetTheorems, TLAPS

(***************************************************************************)
(* The inductive invariant.  The table: rows are written by one worker at  *)
(* a time, and never vanish.                                               *)
(***************************************************************************)
TableInv ==
    /\ task \in Table
    /\ own \in [Worker -> Table]
    /\ \A s, t \in Worker, p \in Plate :
          s # t => own[s][p] = NoTask \/ own[t][p] = NoTask
    /\ \A s \in Worker, p \in Plate :
          own[s][p] # NoTask => task[p] # NoTask /\ own[s][p].deleted = task[p].deleted

Asking == {"slot", "take", "call"}
Marking == {"done", "failed"}

\* A run: a worker that asks about a plate holds its row.
RunInv(s) ==
    /\ pc[s] \in Phase
    /\ plate[s] \in Plate \cup {NoPlate}
    /\ snap[s] \in Table
    /\ \A p \in Plate : snap[s][p] # NoTask => task[p] # NoTask
    /\ pc[s] \in Asking \cup Marking => plate[s] \in Plate /\ task[plate[s]] # NoTask
    /\ pc[s] \in Asking => own[s][plate[s]] # NoTask

RunsInv ==
    /\ pc = [s \in Worker |-> pc[s]] /\ plate = [s \in Worker |-> plate[s]]
    /\ snap = [s \in Worker |-> snap[s]]
    /\ \A s \in Worker : RunInv(s)

\* The calls of a minute: only workers that read an empty cache may add one.
Taking == {s \in Worker : pc[s] = "take"}
CallsInv ==
    /\ slot \in BOOLEAN /\ calls \in Nat
    /\ ~slot => calls = 0
    /\ calls + Cardinality(Taking) <= Cardinality(Worker)

RestInv ==
    /\ fleet \subseteq Plate
    /\ edits \in 0..MaxEdits /\ days \in 0..MaxDays /\ crashes \in 0..MaxCrashes

QueueInv == TableInv /\ RunsInv /\ CallsInv /\ RestInv

(***************************************************************************)
(* Rows.                                                                   *)
(***************************************************************************)
\* A row is not the absence of a row.
LEMMA NoTaskIsNoRow == NoTask \notin Row
BY DEF NoTask, Row

\* What queue.py writes is a row, deleted or not as it was before.
LEMMA RowWrites ==
    ASSUME NEW r \in Row
    PROVE  /\ Claimed(r) \in Row /\ Claimed(r).deleted = r.deleted
           /\ ResetRow(r) \in Row /\ ResetRow(r).deleted = r.deleted
           /\ DoneRow(r) \in Row /\ DoneRow(r).deleted = r.deleted
           /\ FailedRow(r) \in Row /\ FailedRow(r).deleted = r.deleted
BY DEF Claimed, ResetRow, DoneRow, FailedRow, Row

\* A table row that exists is a row.
LEMMA TableRow ==
    ASSUME TableInv, NEW p \in Plate, task[p] # NoTask
    PROVE  task[p] \in Row
BY DEF TableInv, Table

\* The row a worker writes to is a row, deleted or not as the committed one.
LEMMA LatestRow ==
    ASSUME TableInv, NEW s \in Worker, NEW p \in Plate, task[p] # NoTask
    PROVE  Latest(s, p) \in Row /\ Latest(s, p).deleted = task[p].deleted
<1>1. CASE own[s][p] = NoTask
  BY <1>1, TableRow DEF Latest
<1>2. CASE own[s][p] # NoTask
  <2>1. own[s][p] \in Row
    BY <1>2 DEF TableInv, Table
  <2>. QED  BY <1>2, <2>1 DEF Latest, TableInv
<1>. QED  BY <1>1, <1>2

(***************************************************************************)
(* The three ways in which a step touches the table.                       *)
(***************************************************************************)
RowsStay == \A p \in Plate : task[p] # NoTask => task'[p] # NoTask

\* A worker writes rows whose locks nobody else has.
LEMMA OwnWrites ==
    ASSUME TableInv, NEW s \in Worker, NEW w \in Table,
           task' = task, own' = [own EXCEPT ![s] = w],
           \A p \in Plate : w[p] # NoTask =>
               /\ task[p] # NoTask /\ w[p].deleted = task[p].deleted
               /\ Free(s, p)
    PROVE  TableInv' /\ RowsStay
<1>1. own' \in [Worker -> Table] /\ task' \in Table
  BY DEF TableInv
<1>2. \A t \in Worker, p \in Plate : t # s /\ w[p] # NoTask => own[t][p] = NoTask
  BY DEF Free, Locked
<1>3. \A t, u \in Worker, p \in Plate :
         t # u => own'[t][p] = NoTask \/ own'[u][p] = NoTask
  BY <1>2 DEF TableInv
<1>4. \A t \in Worker, p \in Plate :
         own'[t][p] # NoTask => task'[p] # NoTask /\ own'[t][p].deleted = task'[p].deleted
  BY DEF TableInv
<1>. QED  BY <1>1, <1>3, <1>4 DEF TableInv, RowsStay

\* A worker lets go of what it has written, without committing it.
LEMMA OwnDrops ==
    ASSUME TableInv, NEW s \in Worker,
           task' = task, own' = [own EXCEPT ![s] = Nothing]
    PROVE  TableInv' /\ RowsStay
<1>1. Nothing \in Table /\ \A p \in Plate : Nothing[p] = NoTask
  BY DEF Nothing, Table
<1>. QED  BY <1>1, OwnWrites

\* A worker commits: no row vanishes, is deleted or is brought back.
LEMMA OwnCommits ==
    ASSUME TableInv, NEW s \in Worker,
           task' = Committed(s), own' = [own EXCEPT ![s] = Nothing]
    PROVE  /\ TableInv' /\ RowsStay
           /\ \A p \in Plate : task[p] # NoTask => task'[p].deleted = task[p].deleted
<1>1. Nothing \in Table /\ \A p \in Plate : Nothing[p] = NoTask
  BY DEF Nothing, Table
<1>2. \A p \in Plate : task'[p] = Latest(s, p)
  BY DEF Committed
<1>3. \A p \in Plate : task[p] # NoTask => task'[p] \in Row /\ task'[p].deleted = task[p].deleted
  BY <1>2, LatestRow
<1>4. \A p \in Plate : task[p] = NoTask => task'[p] = NoTask
  BY <1>2 DEF Latest, TableInv
<1>5. task' \in Table
  BY <1>3, <1>4 DEF Committed, Table
<1>6. RowsStay
  BY <1>3, NoTaskIsNoRow DEF RowsStay
<1>7. own' \in [Worker -> Table]
  BY <1>1 DEF TableInv
<1>8. \A t, u \in Worker, p \in Plate :
         t # u => own'[t][p] = NoTask \/ own'[u][p] = NoTask
  BY <1>1 DEF TableInv
<1>9. \A t \in Worker, p \in Plate :
         own'[t][p] # NoTask => task'[p] # NoTask /\ own'[t][p].deleted = task'[p].deleted
  BY <1>1, <1>3, <1>6 DEF TableInv, RowsStay
<1>. QED  BY <1>3, <1>5, <1>6, <1>7, <1>8, <1>9 DEF TableInv

\* Somebody else writes a row that no worker holds.
LEMMA RowEdits ==
    ASSUME TableInv, NEW p \in Plate, NEW r \in Row, Locked(p) = {},
           task' = [task EXCEPT ![p] = r], own' = own
    PROVE  TableInv' /\ RowsStay
<1>1. \A s \in Worker : own[s][p] = NoTask
  BY DEF Locked
<1>2. task' \in Table /\ \A q \in Plate : q # p => task'[q] = task[q]
  BY DEF TableInv, Table
<1>3. task'[p] = r /\ r # NoTask
  BY NoTaskIsNoRow DEF TableInv, Table
<1>4. RowsStay
  BY <1>2, <1>3 DEF RowsStay
<1>5. \A s \in Worker, q \in Plate :
         own'[s][q] # NoTask => task'[q] # NoTask /\ own'[s][q].deleted = task'[q].deleted
  BY <1>1, <1>2 DEF TableInv
<1>. QED  BY <1>2, <1>4, <1>5 DEF TableInv

(***************************************************************************)
(* The runs.                                                               *)
(***************************************************************************)
\* Only worker s moves.
OnlyRun(s) ==
    /\ pc' = [pc EXCEPT ![s] = pc'[s]] /\ plate' = [plate EXCEPT ![s] = plate'[s]]
    /\ snap' = [snap EXCEPT ![s] = snap'[s]]
    /\ \A t \in Worker : t # s => own'[t] = own[t]

\* A step of worker s leaves the runs of the others as they are.
LEMMA RunsStep ==
    ASSUME RunsInv, RowsStay, NEW s \in Worker, OnlyRun(s), RunInv(s)'
    PROVE  RunsInv'
<1>1. ASSUME NEW t \in Worker, t # s
      PROVE  RunInv(t)'
  <2>1. pc'[t] = pc[t] /\ plate'[t] = plate[t] /\ snap'[t] = snap[t] /\ own'[t] = own[t]
    BY <1>1 DEF RunsInv, OnlyRun
  <2>2. RunInv(t)
    BY DEF RunsInv
  <2>. QED  BY <2>1, <2>2 DEF RunInv, RowsStay
<1>2. /\ pc' = [t \in Worker |-> pc'[t]] /\ plate' = [t \in Worker |-> plate'[t]]
      /\ snap' = [t \in Worker |-> snap'[t]]
  BY DEF RunsInv, OnlyRun
<1>. QED  BY <1>1, <1>2 DEF RunsInv

\* A step of no worker leaves every run as it is.
LEMMA RunsStay ==
    ASSUME RunsInv, RowsStay, UNCHANGED worker
    PROVE  RunsInv'
<1>1. ASSUME NEW t \in Worker
      PROVE  RunInv(t)'
  <2>1. RunInv(t)
    BY DEF RunsInv
  <2>. QED  BY <2>1 DEF RunInv, RowsStay, worker
<1>. QED  BY <1>1 DEF RunsInv, worker

\* The run of one worker, from the invariant.
LEMMA RunOf ==
    ASSUME QueueInv, NEW s \in Worker
    PROVE  /\ RunInv(s)
           /\ pc = [pc EXCEPT ![s] = pc[s]] /\ plate = [plate EXCEPT ![s] = plate[s]]
           /\ snap = [snap EXCEPT ![s] = snap[s]] /\ own = [own EXCEPT ![s] = own[s]]
BY DEF QueueInv, RunsInv, TableInv

\* Nobody has written anything in an empty table.
LEMMA NothingIsEmpty == Nothing \in Table /\ \A p \in Plate : Nothing[p] = NoTask
BY DEF Nothing, Table

(***************************************************************************)
(* The calls of a minute.                                                  *)
(***************************************************************************)
\* The workers that are about to call are finitely many.
LEMMA TakingIsFinite ==
    /\ IsFiniteSet(Taking) /\ Cardinality(Taking) \in Nat
    /\ Cardinality(Worker) \in Nat /\ Cardinality(Taking) <= Cardinality(Worker)
<1>1. Taking \in SUBSET Worker
  BY DEF Taking
<1>. QED  BY <1>1, FS_Subset, FS_CardinalityType, WorkerAssumption

\* A step that sends no worker to the call leaves the count as it is.
LEMMA CallsStep ==
    ASSUME RunsInv, CallsInv, NEW s \in Worker, NEW phase, phase # "take",
           pc' = [pc EXCEPT ![s] = phase], UNCHANGED <<slot, calls>>
    PROVE  CallsInv'
<1>1. \A t \in Worker : pc'[t] = "take" => pc[t] = "take"
  BY DEF RunsInv
<1>2. Taking' \in SUBSET Taking
  BY <1>1 DEF Taking
<1>3. Cardinality(Taking') <= Cardinality(Taking) /\ Cardinality(Taking') \in Nat
  BY <1>2, TakingIsFinite, FS_Subset, FS_CardinalityType
<1>. QED  BY <1>3, TakingIsFinite DEF CallsInv

(***************************************************************************)
(* One lemma per action.                                                   *)
(***************************************************************************)
\* Begin reads the committed table.
LEMMA BeginStep ==
    ASSUME QueueInv, NEW s \in Worker, Begin(s)
    PROVE  QueueInv'
<1>1. RowsStay /\ TableInv'
  BY DEF Begin, QueueInv, TableInv, RowsStay
<1>2. /\ pc'[s] = "reset" /\ snap'[s] = task /\ plate'[s] = plate[s] /\ task' = task
      /\ OnlyRun(s)
  BY DEF Begin, Goto, OnlyRun, QueueInv, RunsInv
<1>3. RunInv(s)'
  BY <1>2, RunOf DEF RunInv, QueueInv, TableInv, Phase, Asking, Marking
<1>4. CallsInv'
  BY CallsStep DEF QueueInv, Begin, Goto
<1>. QED  BY <1>1, <1>2, <1>3, <1>4, RunsStep DEF QueueInv, RestInv, Begin, bounds

\* Reset writes stuck rows it has the locks of.
LEMMA ResetStep ==
    ASSUME QueueInv, NEW s \in Worker, Reset(s)
    PROVE  QueueInv'
<1>1. PICK R \in SUBSET {p \in Plate : p \in Stuck(s) /\ Free(s, p)} :
          own' = [own EXCEPT ![s] = [p \in Plate |->
                     IF p \in R THEN ResetRow(task[p]) ELSE NoTask]]
  BY DEF Reset, Stuck
<1>. DEFINE w == [p \in Plate |-> IF p \in R THEN ResetRow(task[p]) ELSE NoTask]
<1>2. \A p \in R : p \in Plate /\ task[p] # NoTask /\ Free(s, p)
  BY RunOf DEF RunInv, Stuck, Live
<1>3. \A p \in R : ResetRow(task[p]) \in Row /\ ResetRow(task[p]).deleted = task[p].deleted
  BY <1>2, TableRow, RowWrites DEF QueueInv
<1>4. w \in Table
  BY <1>3 DEF Table
<1>5. \A p \in Plate : w[p] # NoTask => /\ task[p] # NoTask /\ w[p].deleted = task[p].deleted
                                        /\ Free(s, p)
  BY <1>2, <1>3
<1>6. task' = task /\ own' = [own EXCEPT ![s] = w]
  BY <1>1 DEF Reset
<1>. HIDE DEF w
<1>7. RowsStay /\ TableInv'
  BY <1>4, <1>5, <1>6, OwnWrites DEF QueueInv
<1>8. pc'[s] = "claim" /\ snap'[s] = snap[s] /\ plate'[s] = plate[s] /\ OnlyRun(s)
  BY <1>6 DEF Reset, Goto, OnlyRun, QueueInv, RunsInv, TableInv
<1>9. RunInv(s)'
  BY <1>6, <1>8, RunOf DEF RunInv, Phase, Asking, Marking
<1>10. CallsInv'
  BY CallsStep DEF QueueInv, Reset, Goto
<1>. QED  BY <1>7, <1>8, <1>9, <1>10, RunsStep DEF QueueInv, RestInv, Reset, bounds

\* Claim writes the row of the plate it will ask about, or nothing.
LEMMA ClaimStep ==
    ASSUME QueueInv, NEW s \in Worker, Claim(s)
    PROVE  QueueInv'
<1>. DEFINE Ends == task' = task /\ plate' = plate /\ pc' = [pc EXCEPT ![s] = "end"]
            Takes(p) == /\ Live(Seen(s, p)) /\ Free(s, p)
                        /\ own' = [own EXCEPT ![s][p] = Claimed(Latest(s, p))]
                        /\ plate' = [plate EXCEPT ![s] = p]
                        /\ pc' = [pc EXCEPT ![s] = "slot"] /\ task' = task
<1>1. \/ Ends /\ (own' = own \/ own' = [own EXCEPT ![s] = Nothing])
      \/ \E p \in Plate : Takes(p)
  BY DEF Claim, ClaimLock, Claimable, Goto
<1>2. /\ snap' = [snap EXCEPT ![s] = Nothing]
      /\ UNCHANGED <<fleet, slot, calls, bounds>>
  BY DEF Claim
<1>3. RestInv'
  BY <1>2 DEF QueueInv, RestInv, bounds
<1>4. CASE Ends /\ (own' = own \/ own' = [own EXCEPT ![s] = Nothing])
  <2>1. RowsStay /\ TableInv'
    <3>1. CASE own' = own
      BY <1>4, <3>1 DEF QueueInv, TableInv, RowsStay
    <3>2. CASE own' = [own EXCEPT ![s] = Nothing]
      BY <1>4, <3>2, OwnDrops DEF QueueInv
    <3>. QED  BY <1>4, <3>1, <3>2
  <2>2. pc'[s] = "end" /\ snap'[s] = Nothing /\ plate'[s] = plate[s] /\ OnlyRun(s)
    BY <1>2, <1>4 DEF OnlyRun, QueueInv, RunsInv, TableInv
  <2>3. RunInv(s)'
    BY <2>2, RunOf, NothingIsEmpty DEF RunInv, Phase, Asking, Marking
  <2>4. CallsInv'
    BY <1>2, <1>4, CallsStep DEF QueueInv
  <2>. QED  BY <1>3, <2>1, <2>2, <2>3, <2>4, RunsStep DEF QueueInv
<1>5. ASSUME NEW p \in Plate, Takes(p)
      PROVE  QueueInv'
  <2>. DEFINE r == Claimed(Latest(s, p))
              w == [own[s] EXCEPT ![p] = r]
  <2>1. task[p] # NoTask
    <3>1. own[s][p] # NoTask \/ snap[s][p] # NoTask
      BY <1>5 DEF Live, Seen
    <3>. QED  BY <3>1, RunOf DEF RunInv, QueueInv, TableInv
  <2>2. r \in Row /\ r.deleted = task[p].deleted
    BY <2>1, LatestRow, RowWrites DEF QueueInv
  <2>3. own[s] \in Table
    BY DEF QueueInv, TableInv
  <2>4. w \in Table /\ w[p] = r /\ \A q \in Plate : q # p => w[q] = own[s][q]
    BY <2>2, <2>3 DEF Table
  <2>5. own' = [own EXCEPT ![s] = w] /\ task' = task
    BY <1>5, <2>3 DEF QueueInv, TableInv
  <2>6. \A q \in Plate : w[q] # NoTask =>
            /\ task[q] # NoTask /\ w[q].deleted = task[q].deleted
            /\ Free(s, q)
    <3>1. \A q \in Plate : own[s][q] # NoTask => Free(s, q)
      BY DEF Free, Locked, QueueInv, TableInv
    <3>. QED  BY <1>5, <2>1, <2>2, <2>4, <3>1 DEF QueueInv, TableInv
  <2>. HIDE DEF w, r
  <2>7. RowsStay /\ TableInv'
    BY <2>4, <2>5, <2>6, OwnWrites DEF QueueInv
  <2>8. pc'[s] = "slot" /\ snap'[s] = Nothing /\ plate'[s] = p /\ OnlyRun(s)
    BY <1>2, <1>5, <2>5 DEF OnlyRun, QueueInv, RunsInv, TableInv
  <2>9. own'[s][p] # NoTask
    BY <2>2, <2>4, <2>5, NoTaskIsNoRow DEF QueueInv, TableInv
  <2>10. RunInv(s)'
    BY <2>1, <2>5, <2>8, <2>9, NothingIsEmpty DEF RunInv, Phase, Asking, Marking
  <2>11. CallsInv'
    BY <1>2, <1>5, CallsStep DEF QueueInv
  <2>. QED  BY <1>3, <2>7, <2>8, <2>10, <2>11, RunsStep DEF QueueInv
<1>. QED  BY <1>1, <1>4, <1>5

\* ReadSlot goes on to the call only when the cache is empty.
LEMMA ReadSlotStep ==
    ASSUME QueueInv, NEW s \in Worker, ReadSlot(s)
    PROVE  QueueInv'
<1>1. RowsStay /\ TableInv'
  BY DEF ReadSlot, QueueInv, TableInv, RowsStay
<1>2. /\ pc[s] = "slot" /\ pc'[s] = (IF slot THEN "failed" ELSE "take")
      /\ snap'[s] = snap[s] /\ plate'[s] = plate[s] /\ UNCHANGED <<task, own>> /\ OnlyRun(s)
  BY DEF ReadSlot, Goto, OnlyRun, QueueInv, RunsInv
<1>3. RunInv(s)'
  BY <1>2, RunOf DEF RunInv, Phase, Asking, Marking
<1>4. CallsInv'
  <2>1. CASE slot
    BY <2>1, CallsStep DEF QueueInv, ReadSlot, Goto
  <2>2. CASE ~slot
    <3>1. Taking' \in SUBSET Worker
      BY DEF Taking
    <3>2. Cardinality(Taking') \in Nat /\ Cardinality(Taking') <= Cardinality(Worker)
      BY <3>1, FS_Subset, FS_CardinalityType, WorkerAssumption
    <3>. QED  BY <2>2, <3>2 DEF QueueInv, CallsInv, ReadSlot
  <2>. QED  BY <2>1, <2>2
<1>. QED  BY <1>1, <1>2, <1>3, <1>4, RunsStep DEF QueueInv, RestInv, ReadSlot, bounds

\* TakeSlot turns one worker that may call into one call.
LEMMA TakeSlotStep ==
    ASSUME QueueInv, NEW s \in Worker, TakeSlot(s)
    PROVE  QueueInv'
<1>1. RowsStay /\ TableInv'
  BY DEF TakeSlot, QueueInv, TableInv, RowsStay
<1>2. /\ pc[s] = "take" /\ pc'[s] = "call"
      /\ snap'[s] = snap[s] /\ plate'[s] = plate[s] /\ UNCHANGED <<task, own>> /\ OnlyRun(s)
  BY DEF TakeSlot, Goto, OnlyRun, QueueInv, RunsInv
<1>3. RunInv(s)'
  BY <1>2, RunOf DEF RunInv, Phase, Asking, Marking
<1>4. CallsInv'
  <2>1. Taking' = Taking \ {s} /\ s \in Taking
    BY <1>2 DEF Taking, OnlyRun, QueueInv, RunsInv
  <2>2. Cardinality(Taking') = Cardinality(Taking) - 1
    BY <2>1, TakingIsFinite, FS_RemoveElement
  <2>3. slot' = TRUE /\ calls' = calls + 1
    BY DEF TakeSlot
  <2>. QED  BY <2>2, <2>3, TakingIsFinite DEF QueueInv, CallsInv
<1>. QED  BY <1>1, <1>2, <1>3, <1>4, RunsStep DEF QueueInv, RestInv, TakeSlot, bounds

\* Answered may commit the claim.
LEMMA AnsweredStep ==
    ASSUME QueueInv, NEW s \in Worker, Answered(s)
    PROVE  QueueInv'
<1>1. \/ task' = Committed(s) /\ own' = [own EXCEPT ![s] = Nothing]
      \/ UNCHANGED <<task, own>>
  BY DEF Answered
<1>2. RowsStay /\ TableInv'
  <2>1. CASE task' = Committed(s) /\ own' = [own EXCEPT ![s] = Nothing]
    BY <2>1, OwnCommits DEF QueueInv
  <2>2. CASE UNCHANGED <<task, own>>
    BY <2>2 DEF QueueInv, TableInv, RowsStay
  <2>. QED  BY <1>1, <2>1, <2>2
<1>3. /\ pc[s] = "call" /\ pc'[s] = "done"
      /\ snap'[s] = snap[s] /\ plate'[s] = plate[s] /\ OnlyRun(s)
  BY DEF Answered, Goto, OnlyRun, QueueInv, RunsInv, TableInv
<1>4. RunInv(s)'
  BY <1>2, <1>3, RunOf DEF RunInv, Phase, Asking, Marking, RowsStay
<1>5. CallsInv'
  BY CallsStep DEF QueueInv, Answered, Goto
<1>. QED  BY <1>2, <1>3, <1>4, <1>5, RunsStep DEF QueueInv, RestInv, Answered, bounds

\* Unanswered changes the phase alone.
LEMMA UnansweredStep ==
    ASSUME QueueInv, NEW s \in Worker, Unanswered(s)
    PROVE  QueueInv'
<1>1. RowsStay /\ TableInv'
  BY DEF Unanswered, QueueInv, TableInv, RowsStay
<1>2. /\ pc[s] = "call" /\ pc'[s] = "failed"
      /\ snap'[s] = snap[s] /\ plate'[s] = plate[s] /\ UNCHANGED <<task, own>> /\ OnlyRun(s)
  BY DEF Unanswered, Goto, OnlyRun, QueueInv, RunsInv
<1>3. RunInv(s)'
  BY <1>2, RunOf DEF RunInv, Phase, Asking, Marking
<1>4. CallsInv'
  BY CallsStep DEF QueueInv, Unanswered, Goto
<1>. QED  BY <1>1, <1>2, <1>3, <1>4, RunsStep DEF QueueInv, RestInv, Unanswered, bounds

\* Mark writes the task of the run, if it gets its lock.
LEMMA MarkStep ==
    ASSUME QueueInv, NEW s \in Worker, Mark(s)
    PROVE  QueueInv'
<1>. DEFINE p == plate[s]
            r == Marked(s)
            w == [own[s] EXCEPT ![p] = r]
<1>1. p \in Plate /\ task[p] # NoTask
  BY RunOf DEF Mark, RunInv, Marking
<1>2. r \in Row /\ r.deleted = task[p].deleted
  BY <1>1, LatestRow, RowWrites DEF QueueInv, Marked
<1>3. own[s] \in Table
  BY DEF QueueInv, TableInv
<1>4. w \in Table /\ w[p] = r /\ \A q \in Plate : q # p => w[q] = own[s][q]
  BY <1>1, <1>2, <1>3 DEF Table
<1>5. task' = task /\ UNCHANGED <<fleet, slot, calls, bounds>>
  BY DEF Mark
<1>6. \/ Free(s, p) /\ own' = [own EXCEPT ![s] = w]
      \/ own' = own
      \/ own' = [own EXCEPT ![s] = Nothing]
  <2>1. [own EXCEPT ![s][p] = r] = [own EXCEPT ![s] = w]
    BY <1>3 DEF QueueInv, TableInv
  <2>. HIDE DEF w, r
  <2>. QED  BY <2>1 DEF Mark, r
<1>. HIDE DEF w, r
<1>7. RowsStay /\ TableInv'
  <2>1. CASE Free(s, p) /\ own' = [own EXCEPT ![s] = w]
    <3>1. \A q \in Plate : own[s][q] # NoTask => Free(s, q)
      BY DEF Free, Locked, QueueInv, TableInv
    <3>2. \A q \in Plate : w[q] # NoTask =>
            /\ task[q] # NoTask /\ w[q].deleted = task[q].deleted
            /\ Free(s, q)
      BY <1>1, <1>2, <1>4, <2>1, <3>1 DEF QueueInv, TableInv
    <3>. QED  BY <1>4, <1>5, <2>1, <3>2, OwnWrites DEF QueueInv
  <2>2. CASE own' = own
    BY <1>5, <2>2 DEF QueueInv, TableInv, RowsStay
  <2>3. CASE own' = [own EXCEPT ![s] = Nothing]
    BY <1>5, <2>3, OwnDrops DEF QueueInv
  <2>. QED  BY <1>6, <2>1, <2>2, <2>3
<1>8. pc'[s] = "end" /\ snap'[s] = snap[s] /\ plate'[s] = plate[s] /\ OnlyRun(s)
  BY <1>6 DEF Mark, Goto, OnlyRun, QueueInv, RunsInv, TableInv
<1>9. RunInv(s)'
  BY <1>5, <1>8, RunOf DEF RunInv, Phase, Asking, Marking
<1>10. CallsInv'
  BY CallsStep DEF QueueInv, Mark, Goto
<1>. QED  BY <1>5, <1>7, <1>8, <1>9, <1>10, RunsStep DEF QueueInv, RestInv, bounds

\* Finish commits.
LEMMA FinishStep ==
    ASSUME QueueInv, NEW s \in Worker, Finish(s)
    PROVE  QueueInv'
<1>1. RowsStay /\ TableInv'
  BY OwnCommits DEF Finish, QueueInv
<1>2. /\ pc'[s] = "idle" /\ snap'[s] = snap[s] /\ plate'[s] = NoPlate /\ OnlyRun(s)
  BY DEF Finish, Goto, OnlyRun, QueueInv, RunsInv, TableInv
<1>3. RunInv(s)'
  BY <1>1, <1>2, RunOf DEF RunInv, Phase, Asking, Marking, RowsStay
<1>4. CallsInv'
  BY CallsStep DEF QueueInv, Finish, Goto
<1>. QED  BY <1>1, <1>2, <1>3, <1>4, RunsStep DEF QueueInv, RestInv, Finish, bounds

\* Crash rolls back.
LEMMA CrashStep ==
    ASSUME QueueInv, NEW s \in Worker, Crash(s)
    PROVE  QueueInv'
<1>1. RowsStay /\ TableInv'
  BY OwnDrops DEF Crash, QueueInv
<1>2. /\ pc'[s] = "idle" /\ snap'[s] = Nothing /\ plate'[s] = NoPlate /\ OnlyRun(s)
  BY DEF Crash, Goto, OnlyRun, QueueInv, RunsInv, TableInv
<1>3. RunInv(s)'
  BY <1>2, RunOf, NothingIsEmpty DEF RunInv, Phase, Asking, Marking
<1>4. CallsInv'
  BY CallsStep DEF QueueInv, Crash, Goto
<1>5. RestInv'
  BY BoundAssumption DEF QueueInv, RestInv, Crash
<1>. QED  BY <1>1, <1>2, <1>3, <1>4, <1>5, RunsStep DEF QueueInv

\* Whoever else writes a row nobody holds leaves the runs as they are.
LEMMA EditStep ==
    ASSUME QueueInv, NEW p \in Plate, NEW r \in Row, Locked(p) = {},
           task' = [task EXCEPT ![p] = r], UNCHANGED <<slot, calls, worker>>
    PROVE  TableInv' /\ RunsInv' /\ CallsInv'
<1>1. RowsStay /\ TableInv'
  BY RowEdits DEF QueueInv, worker
<1>2. RunsInv'
  BY <1>1, RunsStay DEF QueueInv
<1>3. CallsInv'
  BY DEF QueueInv, CallsInv, Taking, worker
<1>. QED  BY <1>1, <1>2, <1>3

\* A task that is made anew is a row.
LEMMA NewTaskIsRow == NewTask \in Row
BY DEF NewTask, Row

\* CreateImmediate, Seed, TenMinutes and NextDay write one row nobody holds.
LEMMA TaskStep ==
    ASSUME QueueInv, NEW p \in Plate,
           CreateImmediate(p) \/ Seed(p) \/ TenMinutes(p) \/ NextDay(p)
    PROVE  QueueInv'
<1>1. task[p] # NoTask => task[p] \in Row
  BY TableRow DEF QueueInv
<1>2. PICK r \in Row : task' = [task EXCEPT ![p] = r]
  <2>1. CASE CreateImmediate(p)
    <3>1. (IF Live(task[p]) THEN [task[p] EXCEPT !.prio = 5, !.due = TRUE] ELSE NewTask) \in Row
      BY <1>1, NewTaskIsRow DEF Live, Row
    <3>. QED  BY <2>1, <3>1 DEF CreateImmediate
  <2>2. CASE Seed(p)
    <3>1. Live(task[p]) => [task[p] EXCEPT !.deleted = TRUE] \in Row
      BY <1>1 DEF Live, Row
    <3>. QED  BY <2>2, <3>1, NewTaskIsRow DEF Seed
  <2>3. CASE TenMinutes(p)
    <3>1. [task[p] EXCEPT !.aged = TRUE] \in Row
      BY <1>1, <2>3 DEF TenMinutes, Row
    <3>. QED  BY <2>3, <3>1 DEF TenMinutes
  <2>4. CASE NextDay(p)
    <3>1. [task[p] EXCEPT !.due = TRUE] \in Row
      BY <1>1, <2>4 DEF NextDay, Live, Row
    <3>. QED  BY <2>4, <3>1 DEF NextDay
  <2>. QED  BY <2>1, <2>2, <2>3, <2>4
<1>3. Locked(p) = {} /\ UNCHANGED <<fleet, slot, calls, worker>>
  BY DEF CreateImmediate, Seed, TenMinutes, NextDay
<1>4. TableInv' /\ RunsInv' /\ CallsInv'
  BY <1>2, <1>3, EditStep
<1>5. RestInv'
  BY <1>3, BoundAssumption DEF QueueInv, RestInv, CreateImmediate, Seed, TenMinutes, NextDay, bounds
<1>. QED  BY <1>4, <1>5 DEF QueueInv

\* EditFleet and Minute leave the tasks and the runs as they are.
LEMMA WorldStep ==
    ASSUME QueueInv, (\E p \in Plate : EditFleet(p)) \/ Minute
    PROVE  QueueInv'
<1>1. UNCHANGED <<task, worker>>
  BY DEF EditFleet, Minute
<1>2. RowsStay /\ TableInv'
  BY <1>1 DEF QueueInv, TableInv, RowsStay, worker
<1>3. RunsInv'
  BY <1>1, <1>2, RunsStay DEF QueueInv
<1>4. CallsInv'
  <2>1. Cardinality(Taking') = Cardinality(Taking)
    BY <1>1 DEF Taking, worker
  <2>2. Cardinality(Taking) \in Nat /\ Cardinality(Worker) \in Nat
    BY TakingIsFinite
  <2>3. CASE \E p \in Plate : EditFleet(p)
    BY <2>1, <2>3 DEF QueueInv, CallsInv, EditFleet
  <2>4. CASE Minute
    <3>1. calls' = 0 /\ slot' \in BOOLEAN
      BY <2>4 DEF Minute
    <3>2. Cardinality(Taking) <= Cardinality(Worker)
      BY TakingIsFinite
    <3>. QED  BY <2>1, <2>2, <3>1, <3>2 DEF CallsInv
  <2>. QED  BY <2>3, <2>4
<1>5. RestInv'
  BY BoundAssumption DEF QueueInv, RestInv, EditFleet, Minute, bounds
<1>. QED  BY <1>2, <1>3, <1>4, <1>5 DEF QueueInv

(***************************************************************************)
(* The invariant, and what it gives.                                       *)
(***************************************************************************)
\* The queue starts with a table of new tasks, and no run.
LEMMA InitInv == Init => QueueInv
<1>. SUFFICES ASSUME Init PROVE QueueInv
  OBVIOUS
<1>1. TableInv
  BY NewTaskIsRow, NothingIsEmpty DEF Init, TableInv, Table
<1>2. RunsInv
  BY NothingIsEmpty DEF Init, RunsInv, RunInv, Phase, Asking, Marking
<1>3. CallsInv
  <2>1. Taking = {}
    BY DEF Init, Taking
  <2>2. Cardinality(Taking) = 0
    BY <2>1, FS_EmptySet
  <2>3. Cardinality(Worker) \in Nat
    BY TakingIsFinite
  <2>4. calls = 0 /\ slot \in BOOLEAN
    BY DEF Init
  <2>. QED  BY <2>2, <2>3, <2>4 DEF CallsInv
<1>4. RestInv
  BY BoundAssumption DEF Init, RestInv
<1>. QED  BY <1>1, <1>2, <1>3, <1>4 DEF QueueInv

\* Every step keeps the invariant.
LEMMA NextInv == QueueInv /\ [Next]_vars => QueueInv'
<1>. SUFFICES ASSUME QueueInv, [Next]_vars PROVE QueueInv'
  OBVIOUS
<1>1. ASSUME NEW s \in Worker, Batch(s)
      PROVE  QueueInv'
  BY <1>1, BeginStep, ResetStep, ClaimStep, ReadSlotStep, TakeSlotStep, AnsweredStep,
     UnansweredStep, MarkStep, FinishStep DEF Batch
<1>2. ASSUME NEW s \in Worker, Crash(s)
      PROVE  QueueInv'
  BY <1>2, CrashStep
<1>3. ASSUME NEW p \in Plate,
             CreateImmediate(p) \/ Seed(p) \/ EditFleet(p) \/ TenMinutes(p) \/ NextDay(p)
      PROVE  QueueInv'
  BY <1>3, TaskStep, WorldStep
<1>4. CASE Minute
  BY <1>4, WorldStep
<1>5. CASE UNCHANGED vars
  BY <1>5 DEF vars, worker, bounds, QueueInv, TableInv, RunsInv, RunInv, CallsInv, Taking, RestInv
<1>. QED  BY <1>1, <1>2, <1>3, <1>4, <1>5 DEF Next

\* QueueInv holds in every state.
LEMMA Invariance == Spec => []QueueInv
BY InitInv, NextInv, PTL DEF Spec

\* Every variable keeps its type; in particular no minute sees more calls of
\* TPF than there are workers (_acquire_rate_limit_slot).
THEOREM TypeCorrect == Spec => []TypeOK
<1>1. QueueInv => TypeOK
  <2>. SUFFICES ASSUME QueueInv PROVE TypeOK
    OBVIOUS
  <2>1. calls \in 0..Cardinality(Worker)
    BY TakingIsFinite DEF QueueInv, CallsInv
  <2>2. pc \in [Worker -> Phase] /\ plate \in [Worker -> Plate \cup {NoPlate}]
        /\ snap \in [Worker -> Table]
    BY DEF QueueInv, RunsInv, RunInv
  <2>. QED  BY <2>1, <2>2 DEF QueueInv, TableInv, CallsInv, RestInv, TypeOK
<1>. QED  BY <1>1, Invariance, PTL

\* No two workers ask TPF about the same plate at the same time: each of them
\* holds the lock of the row it claimed (claim_batch, sync_vehicle_fines).
THEOREM OneCallEach == Spec => []OneCallPerPlate
<1>1. QueueInv => OneCallPerPlate
  <2>. SUFFICES ASSUME QueueInv, NEW s \in Worker, NEW t \in Worker, s # t,
                       pc[s] \in Asking, pc[t] \in Asking, plate[s] = plate[t]
                PROVE  FALSE
    BY DEF OneCallPerPlate, Asking
  <2>1. plate[s] \in Plate /\ own[s][plate[s]] # NoTask /\ own[t][plate[s]] # NoTask
    BY DEF QueueInv, RunsInv, RunInv
  <2>. QED  BY <2>1 DEF QueueInv, TableInv
<1>. QED  BY <1>1, Invariance, PTL

\* Workers neither bring a deleted task back nor delete one (mark_done,
\* mark_failed, reset_stuck_tasks, claim_batch).
THEOREM DeletionsStay == Spec => DeletionIsKept
<1>1. QueueInv /\ [Next]_vars => [KeepsDeletion]_vars
  <2>. SUFFICES ASSUME QueueInv, Next PROVE KeepsDeletion
    OBVIOUS
  <2>1. ASSUME NEW s \in Worker, Batch(s) \/ Crash(s)
        PROVE  KeepsDeletion
    <3>1. CASE task' = task
      BY <3>1 DEF KeepsDeletion
    <3>2. CASE task' = Committed(s) /\ own' = [own EXCEPT ![s] = Nothing]
      BY <3>2, OwnCommits DEF QueueInv, KeepsDeletion
    <3>. QED  BY <2>1, <3>1, <3>2 DEF Batch, Begin, Reset, Claim, ClaimLock, ReadSlot, TakeSlot,
                 Answered, Unanswered, Mark, Finish, Crash
  <2>2. CASE Minute \/ \E p \in Plate :
                CreateImmediate(p) \/ Seed(p) \/ EditFleet(p) \/ TenMinutes(p) \/ NextDay(p)
    BY <2>2 DEF Minute, CreateImmediate, Seed, EditFleet, TenMinutes, NextDay, KeepsDeletion
  <2>. QED  BY <2>1, <2>2 DEF Next
<1>. QED  BY <1>1, Invariance, PTL DEF Spec, DeletionIsKept
=============================================================================
