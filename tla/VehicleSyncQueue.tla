-------------------------- MODULE VehicleSyncQueue --------------------------
(***************************************************************************)
(* The queue of Vehicle Sync Tasks (csf_tz/csf_tz/doctype/                 *)
(* vehicle_sync_task): once a minute a cron job, or a user through the     *)
(* same endpoint, resets stuck tasks, claims one, asks the traffic police  *)
(* (TPF) for the fines of its plate and marks the task done or failed.     *)
(*                                                                         *)
(* A run is one database transaction on InnoDB at REPEATABLE READ: its     *)
(* reads see the table as it was at its first read, its writes change the  *)
(* latest row and lock it until the transaction commits.  A lock that is   *)
(* not had in time, and a deadlock, which rolls the victim back, are       *)
(* exceptions that queue.py logs and swallows.                             *)
(***************************************************************************)
EXTENDS Naturals, FiniteSets

CONSTANTS
    Plate,        \* number plates
    Worker,       \* processes that may run run_vehicle_batch
    Cron,         \* the one the scheduler starts every minute
    MaxEdits,     \* bound: vehicles added or removed, and tasks asked for
    MaxDays,      \* bound: tasks whose day has passed
    MaxCrashes    \* bound: runs killed

ASSUME WorkerAssumption == IsFiniteSet(Worker) /\ Cron \in Worker
ASSUME BoundAssumption == MaxEdits \in Nat /\ MaxDays \in Nat /\ MaxCrashes \in Nat

VARIABLES
    fleet,     \* plates of the current vehicle records
    task,      \* committed Vehicle Sync Task rows, one per plate
    slot,      \* the cache names a TPF call of the last minute
    calls,     \* how many TPF calls the last minute really saw
    pc,        \* where worker s is in run_vehicle_batch
    plate,     \* the plate worker s has claimed, NoPlate before that
    snap,      \* the table as worker s reads it
    own,       \* rows worker s has written and not committed
    edits, days, crashes

worker == <<pc, plate, snap, own>>
bounds == <<edits, days, crashes>>
vars == <<fleet, task, slot, calls, worker, bounds>>

(***************************************************************************)
(* Rows: due says that next_run_at has come, aged that claimed_at is more  *)
(* than ten minutes old.                                                   *)
(***************************************************************************)
Row == [status : {"Pending", "Processing", "Failed"}, prio : {0, 5},
        due : BOOLEAN, aged : BOOLEAN, deleted : BOOLEAN]
NoTask == [status |-> "none"]
Table == [Plate -> Row \cup {NoTask}]
Nothing == [p \in Plate |-> NoTask]
NoPlate == "none"

Phase == {"idle", "reset", "claim", "slot", "take", "call", "done", "failed", "end"}

TypeOK ==
    /\ fleet \subseteq Plate
    /\ task \in Table
    /\ slot \in BOOLEAN /\ calls \in 0..Cardinality(Worker)
    /\ pc \in [Worker -> Phase] /\ plate \in [Worker -> Plate \cup {NoPlate}]
    /\ snap \in [Worker -> Table] /\ own \in [Worker -> Table]
    /\ edits \in 0..MaxEdits /\ days \in 0..MaxDays /\ crashes \in 0..MaxCrashes

Live(r) == r # NoTask /\ ~r.deleted

NewTask == [status |-> "Pending", prio |-> 0, due |-> TRUE, aged |-> FALSE, deleted |-> FALSE]

Init ==
    /\ fleet = Plate
    /\ task = [p \in Plate |-> NewTask]
    /\ slot = FALSE /\ calls = 0
    /\ pc = [s \in Worker |-> "idle"]
    /\ plate = [s \in Worker |-> NoPlate]
    /\ snap = [s \in Worker |-> Nothing] /\ own = [s \in Worker |-> Nothing]
    /\ edits = 0 /\ days = 0 /\ crashes = 0

\* What queue.py writes into a row; the other columns stay as they are.
Claimed(r) == [r EXCEPT !.status = "Processing", !.aged = FALSE]
ResetRow(r) == [r EXCEPT !.status = "Pending", !.due = TRUE, !.aged = FALSE]
DoneRow(r) == [r EXCEPT !.status = "Pending", !.due = FALSE, !.aged = FALSE]
FailedRow(r) == [r EXCEPT !.status = "Failed", !.due = TRUE, !.aged = FALSE]

(***************************************************************************)
(* One run of run_vehicle_batch.                                           *)
(***************************************************************************)
Locked(p) == {s \in Worker : own[s][p] # NoTask}
Free(s, p) == Locked(p) \subseteq {s}

Goto(s, phase) == pc' = [pc EXCEPT ![s] = phase]

\* The row worker s writes to, and the row it reads.
Latest(s, p) == IF own[s][p] # NoTask THEN own[s][p] ELSE task[p]
Seen(s, p) == IF own[s][p] # NoTask THEN own[s][p] ELSE snap[s][p]

\* The table with the writes of worker s.
Committed(s) == [p \in Plate |-> Latest(s, p)]

Begin(s) ==
    /\ pc[s] = "idle"
    /\ snap' = [snap EXCEPT ![s] = task]
    /\ Goto(s, "reset")
    /\ UNCHANGED <<fleet, task, slot, calls, plate, own, bounds>>

Stuck(s) ==
    {p \in Plate : /\ Live(snap[s][p])
                   /\ snap[s][p].status = "Processing" /\ snap[s][p].aged}

\* reset_stuck_tasks: an exception at a locked row leaves the rows before it
\* reset.
Reset(s) ==
    /\ pc[s] = "reset"
    /\ \E R \in SUBSET {p \in Stuck(s) : Free(s, p)} :
          /\ (\A p \in Stuck(s) : Free(s, p)) => R = Stuck(s)
          /\ own' = [own EXCEPT ![s] = [p \in Plate |->
                        IF p \in R THEN ResetRow(task[p]) ELSE NoTask]]
    /\ Goto(s, "claim")
    /\ UNCHANGED <<fleet, task, slot, calls, plate, snap, bounds>>

\* Mutant: failed tasks are never a fallback.
ClaimablePending(s) ==
    {p \in Plate : Live(Seen(s, p)) /\ Seen(s, p).status = "Pending" /\ Seen(s, p).due}
\* Pending tasks come first; failed ones only when no pending one is due.
Claimable(s) ==
    LET Due(status) == {p \in Plate : /\ Live(Seen(s, p))
                                      /\ Seen(s, p).status = status /\ Seen(s, p).due}
    IN  IF Due("Pending") # {} THEN Due("Pending") ELSE Due("Failed")

\* Mutant: the claim is committed at once, so that others may see it.
ClaimLockCommits(s, p) ==
    \/ /\ Free(s, p)
       /\ task' = [Committed(s) EXCEPT ![p] = Claimed(Latest(s, p))]
       /\ own' = [own EXCEPT ![s] = Nothing]
       /\ plate' = [plate EXCEPT ![s] = p]
       /\ Goto(s, "slot")
    \/ /\ ~Free(s, p)
       /\ own' \in {own, [own EXCEPT ![s] = Nothing]}
       /\ Goto(s, "end") /\ UNCHANGED <<task, plate>>
\* The UPDATE of the claim waits for the row's lock, or fails to get it.
ClaimLock(s, p) ==
    \/ /\ Free(s, p)
       /\ own' = [own EXCEPT ![s][p] = Claimed(Latest(s, p))]
       /\ plate' = [plate EXCEPT ![s] = p]
       /\ Goto(s, "slot") /\ UNCHANGED task
    \/ /\ ~Free(s, p)
       /\ own' \in {own, [own EXCEPT ![s] = Nothing]}
       /\ Goto(s, "end") /\ UNCHANGED <<task, plate>>

\* claim_batch with BATCH_SIZE 1, by priority; tasks of one priority are taken
\* in the order of their names, which the model leaves open.
Claim(s) ==
    /\ pc[s] = "claim"
    /\ \/ /\ Claimable(s) = {}
          /\ Goto(s, "end")
          /\ UNCHANGED <<task, plate, own>>
       \/ \E p \in Claimable(s) :
             /\ \A q \in Claimable(s) : Seen(s, q).prio <= Seen(s, p).prio
             /\ ClaimLock(s, p)
    /\ snap' = [snap EXCEPT ![s] = Nothing]
    /\ UNCHANGED <<fleet, slot, calls, bounds>>

\* _acquire_rate_limit_slot reads the cache and then writes it.
ReadSlot(s) ==
    /\ pc[s] = "slot"
    /\ Goto(s, IF slot THEN "failed" ELSE "take")
    /\ UNCHANGED <<fleet, task, slot, calls, plate, snap, own, bounds>>

TakeSlot(s) ==
    /\ pc[s] = "take"
    /\ slot' = TRUE /\ calls' = calls + 1
    /\ Goto(s, "call")
    /\ UNCHANGED <<fleet, task, plate, snap, own, bounds>>

\* sync_vehicle_fines with a usable answer; it commits, the claim included,
\* unless the answer names no reference.
Answered(s) ==
    /\ pc[s] = "call"
    /\ \/ task' = Committed(s) /\ own' = [own EXCEPT ![s] = Nothing]
       \/ UNCHANGED <<task, own>>
    /\ Goto(s, "done")
    /\ UNCHANGED <<fleet, slot, calls, plate, snap, bounds>>

\* TPF limits the rate, cannot be reached, or answers no JSON.
Unanswered(s) ==
    /\ pc[s] = "call"
    /\ Goto(s, "failed")
    /\ UNCHANGED <<fleet, task, slot, calls, plate, snap, own, bounds>>

\* Mutant: the row is saved whole, as it was when it was claimed.
MarkedWhole(s) ==
    LET row == [Latest(s, plate[s]) EXCEPT !.deleted = FALSE]
    IN  IF pc[s] = "done" THEN DoneRow(row) ELSE FailedRow(row)
Marked(s) ==
    LET row == Latest(s, plate[s])
    IN  IF pc[s] = "done" THEN DoneRow(row) ELSE FailedRow(row)

\* mark_done and mark_failed, which swallow a lock they do not get.
Mark(s) ==
    /\ pc[s] \in {"done", "failed"}
    /\ IF Free(s, plate[s])
       THEN own' = [own EXCEPT ![s][plate[s]] = Marked(s)]
       ELSE own' \in {own, [own EXCEPT ![s] = Nothing]}
    /\ Goto(s, "end")
    /\ UNCHANGED <<fleet, task, slot, calls, plate, snap, bounds>>

Finish(s) ==
    /\ pc[s] = "end"
    /\ task' = Committed(s) /\ own' = [own EXCEPT ![s] = Nothing]
    /\ plate' = [plate EXCEPT ![s] = NoPlate] /\ Goto(s, "idle")
    /\ UNCHANGED <<fleet, slot, calls, snap, bounds>>

\* The process is killed, or an exception leaves run_vehicle_batch: what it
\* has not committed is rolled back.
Crash(s) ==
    /\ pc[s] # "idle" /\ crashes < MaxCrashes
    /\ crashes' = crashes + 1
    /\ own' = [own EXCEPT ![s] = Nothing] /\ snap' = [snap EXCEPT ![s] = Nothing]
    /\ plate' = [plate EXCEPT ![s] = NoPlate] /\ Goto(s, "idle")
    /\ UNCHANGED <<fleet, task, slot, calls, edits, days>>

(***************************************************************************)
(* create_sync_task and the daily seed_vehicle_sync_queue.                 *)
(***************************************************************************)
\* A user asks for a plate at once (immediate): a live task is brought forward,
\* a deleted or missing one is made anew.  A task that is read as Failed is
\* left alone, because its insertion breaks on the unique plate; one that fails
\* while the request waits for its lock is still brought forward.
CreateImmediate(p) ==
    /\ edits < MaxEdits /\ Locked(p) = {}
    /\ task' = [task EXCEPT ![p] =
                   IF Live(@) THEN [@ EXCEPT !.prio = 5, !.due = TRUE] ELSE NewTask]
    /\ edits' = edits + 1
    /\ UNCHANGED <<fleet, slot, calls, worker, days, crashes>>

\* Mutant: a task that was deleted is taken for one that exists.
SeedMissingOnly(p) ==
    /\ Locked(p) = {}
    /\ \/ p \in fleet /\ task[p] = NoTask /\ task' = [task EXCEPT ![p] = NewTask]
       \/ p \notin fleet /\ Live(task[p]) /\ task' = [task EXCEPT ![p].deleted = TRUE]
    /\ UNCHANGED <<fleet, slot, calls, worker, bounds>>
\* Each plate on its own: an exception at a locked row ends a run of the seed
\* between two of them, and what it wrote before is still committed.
Seed(p) ==
    /\ Locked(p) = {}
    /\ \/ p \in fleet /\ ~Live(task[p]) /\ task' = [task EXCEPT ![p] = NewTask]
       \/ p \notin fleet /\ Live(task[p]) /\ task' = [task EXCEPT ![p].deleted = TRUE]
    /\ UNCHANGED <<fleet, slot, calls, worker, bounds>>

EditFleet(p) ==
    /\ edits < MaxEdits
    /\ fleet' = IF p \in fleet THEN fleet \ {p} ELSE fleet \cup {p}
    /\ edits' = edits + 1
    /\ UNCHANGED <<task, slot, calls, worker, days, crashes>>

(***************************************************************************)
(* Time.                                                                   *)
(***************************************************************************)
Minute ==
    /\ slot \/ calls > 0
    /\ slot' = FALSE /\ calls' = 0
    /\ UNCHANGED <<fleet, task, worker, bounds>>

TenMinutes(p) ==
    /\ task[p] # NoTask /\ task[p].status = "Processing" /\ ~task[p].aged /\ Locked(p) = {}
    /\ task' = [task EXCEPT ![p].aged = TRUE]
    /\ UNCHANGED <<fleet, slot, calls, worker, bounds>>

NextDay(p) ==
    /\ days < MaxDays /\ Live(task[p]) /\ ~task[p].due /\ Locked(p) = {}
    /\ task' = [task EXCEPT ![p].due = TRUE]
    /\ days' = days + 1
    /\ UNCHANGED <<fleet, slot, calls, worker, edits, crashes>>

Batch(s) ==
    \/ Begin(s) \/ Reset(s) \/ Claim(s) \/ ReadSlot(s) \/ TakeSlot(s)
    \/ Answered(s) \/ Unanswered(s) \/ Mark(s) \/ Finish(s)

Next ==
    \/ \E s \in Worker : Batch(s) \/ Crash(s)
    \/ \E p \in Plate :
          CreateImmediate(p) \/ Seed(p) \/ EditFleet(p) \/ TenMinutes(p) \/ NextDay(p)
    \/ Minute

Spec == Init /\ [][Next]_vars

(***************************************************************************)
(* Properties.                                                             *)
(***************************************************************************)
\* No two workers ask TPF about the same plate at the same time: a claim is
\* not committed before the call, so its row lock is what keeps a second
\* worker with an old view of the table away (claim_batch, sync_vehicle_fines).
OneCallPerPlate ==
    \A s, t \in Worker :
        s # t /\ pc[s] \in {"slot", "take", "call"} /\ pc[t] \in {"slot", "take", "call"} =>
            plate[s] # plate[t]

\* Workers never bring the task of a removed vehicle back, nor delete one: a
\* seed may delete a task between sync_vehicle_fines's commit and the mark, and
\* mark_done, mark_failed and reset_stuck_tasks write their own columns only.
KeepsDeletion ==
    \A p \in Plate :
        task[p] # NoTask /\ task'[p].deleted # task[p].deleted => UNCHANGED worker
DeletionIsKept == [][KeepsDeletion]_vars

\* The scheduler starts the cron job every minute and the seed every day, and
\* the clock goes on.  A seed that waits for a row gets it before a run that
\* asks later: InnoDB grants a lock in the order of the requests.
FairSpec ==
    /\ Spec
    /\ WF_vars(Batch(Cron)) /\ WF_vars(Minute)
    /\ \A s \in Worker \ {Cron} : WF_vars(pc[s] # "idle" /\ Batch(s))
    /\ \A p \in Plate : SF_vars(Seed(p)) /\ WF_vars(TenMinutes(p))

\* TPF answers sooner or later when it is asked about a plate again and again.
PoliceAnswer == \A p \in Plate : SF_vars(plate[Cron] = p /\ Answered(Cron))

\* When TPF answers, no task is overlooked: whatever is due is synced or
\* deleted, failed and stuck tasks included, although failed tasks are only
\* tried when no pending one is due (the order of claim_batch) and a run that
\* hits the rate limit fails its task without a call.
DueIsSynced ==
    PoliceAnswer => \A p \in Plate :
        Live(task[p]) /\ task[p].due ~> ~(Live(task[p]) /\ task[p].due)

\* The queue follows the fleet: after the last change every vehicle has a live
\* task, and no other plate has one (seed_vehicle_sync_queue).
FleetIsTracked == \A p \in Plate : <>[](p \in fleet <=> Live(task[p]))
=============================================================================
