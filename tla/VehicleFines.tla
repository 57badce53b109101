---------------------------- MODULE VehicleFines ----------------------------
(***************************************************************************)
(* The fines of one vehicle: what the traffic police (TPF) list as         *)
(* pending, the Vehicle Fine Records that mirror the list, and the mails   *)
(* about them (vehicle_fine_record.py, vehicle_authority.py).              *)
(*                                                                         *)
(* A call asks TPF for the list and applies the answer to the records it   *)
(* reads.  The queue's worker and web requests (get_fine) do so at the     *)
(* same time; a transaction may have read the records before it asked,     *)
(* or read them long after it was answered.  The daily job tells what has  *)
(* not been told.  Mail leaves at once and is not taken back by a rollback.*)
(***************************************************************************)
EXTENDS Naturals, FiniteSets

CONSTANTS
    Ref,      \* references of fines
    Queue,    \* the worker that holds the vehicle's sync task
    Web       \* web requests to get_fine

Caller == Web \cup {Queue}

ASSUME CallerAssumption == Queue \notin Web

VARIABLES
    issued,   \* fines TPF has issued
    listed,   \* those it lists as pending
    row,      \* committed Vehicle Fine Records
    call,     \* call[s]: the call to TPF session s is in
    job,      \* the daily job send_pending_vehicle_fine_notifications
    alerted,  \* fines a mail "new fine" was sent of
    told      \* told[r]: statuses mails have told of r

vars == <<issued, listed, row, call, job, alerted, told>>

(***************************************************************************)
(* Types.  "": no status was told.  A row keeps status,                    *)
(* authority_notified_on_new and authority_last_notified_status.           *)
(***************************************************************************)
Status == {"PENDING", "PAID"}

Absent == [status |-> "absent"]
Record == [status : Status, notified : BOOLEAN, last : Status \cup {""}]
Fresh == [status |-> "PENDING", notified |-> FALSE, last |-> ""]

\* What a transaction knows of the records: those there are, those not PAID.
View == [known : SUBSET Ref, open : SUBSET Ref]
Unread == [known |-> {}, open |-> {}]

\* heard: the answer has come; read: the records have been read; alone: no
\* other call overlapped with this one so far (only properties look at it).
Busy == [pc : {"call"}, heard : BOOLEAN, ans : SUBSET Ref,
         read : BOOLEAN, view : View, alone : BOOLEAN]
Idle == [pc |-> "idle"]

\* The job works through the rows it read when it began.
Job == [on : BOOLEAN, seen : [Ref -> Record \cup {Absent}], todo : SUBSET Ref]
NoJob == [on |-> FALSE, seen |-> [r \in Ref |-> Absent], todo |-> {}]

TypeOK ==
    /\ issued \subseteq Ref
    /\ listed \subseteq issued
    /\ row \in [Ref -> Record \cup {Absent}]
    /\ call \in [Caller -> Busy \cup {Idle}]
    /\ job \in Job
    /\ alerted \subseteq Ref
    /\ told \in [Ref -> SUBSET Status]

Init ==
    /\ issued = {} /\ listed = {}
    /\ row = [r \in Ref |-> Absent]
    /\ call = [s \in Caller |-> Idle]
    /\ job = NoJob
    /\ alerted = {}
    /\ told = [r \in Ref |-> {}]

(***************************************************************************)
(* TPF.  A fine that was settled does not come back.                       *)
(***************************************************************************)
Issue(r) ==
    /\ r \notin issued
    /\ issued' = issued \cup {r} /\ listed' = listed \cup {r}
    /\ UNCHANGED <<row, call, job, alerted, told>>

Settle(r) ==
    /\ r \in listed
    /\ listed' = listed \ {r}
    /\ UNCHANGED <<issued, row, call, job, alerted, told>>

(***************************************************************************)
(* A call.                                                                 *)
(***************************************************************************)
Present(rows, r) == rows[r] # Absent

ViewOf(rows) == [known |-> {r \in Ref : Present(rows, r)},
                 open |-> {r \in Ref : Present(rows, r) /\ rows[r].status # "PAID"}]

InCall(s) == call[s] # Idle

\* The request goes out; the session's transaction may have read the records.
Ask(s) ==
    /\ ~InCall(s)
    /\ LET alone == \A t \in Caller : ~InCall(t) IN
       \E early \in BOOLEAN :
          call' = [t \in Caller |->
             IF t = s
             THEN [pc |-> "call", heard |-> FALSE, ans |-> {}, read |-> early,
                   view |-> IF early THEN ViewOf(row) ELSE Unread, alone |-> alone]
             ELSE IF InCall(t) THEN [call[t] EXCEPT !.alone = FALSE] ELSE Idle]
    /\ UNCHANGED <<issued, listed, row, job, alerted, told>>

\* TPF's list of this moment.
Hear(s) ==
    /\ InCall(s) /\ ~call[s].heard
    /\ call' = [call EXCEPT ![s].heard = TRUE, ![s].ans = listed]
    /\ UNCHANGED <<issued, listed, row, job, alerted, told>>

\* Nothing changes when TPF cannot be reached, limits the rate, or sends
\* something that cannot be read or entries without any reference.
Unanswered(s) ==
    /\ InCall(s) /\ ~call[s].heard
    /\ call' = [call EXCEPT ![s] = Idle]
    /\ UNCHANGED <<issued, listed, row, job, alerted, told>>

Read(s) ==
    /\ InCall(s) /\ call[s].heard /\ ~call[s].read
    /\ call' = [call EXCEPT ![s].read = TRUE, ![s].view = ViewOf(row)]
    /\ UNCHANGED <<issued, listed, row, job, alerted, told>>

Ready(s) == InCall(s) /\ call[s].heard /\ call[s].read

\* Mutant: every open record is closed, listed or not.
StaleAll(s) == call[s].view.open
\* Mutant: an answer that lists nothing closes nothing.
StaleUnlessEmpty(s) == IF call[s].ans = {} THEN {} ELSE call[s].view.open \ call[s].ans

\* Open records the answer does not name.
Stale(s) == call[s].view.open \ call[s].ans

\* Fines of the answer without a record.
Missing(s) == call[s].ans \ call[s].view.known

Close(rw, tell) == [rw EXCEPT !.status = "PAID", !.last = IF tell THEN "PAID" ELSE @]

\* Mutant: the marker is set although nothing was sent.
NewMarked(rw, status, sent) == [rw EXCEPT !.notified = TRUE, !.last = status]
Notified(rw, status, sent) ==
    IF sent THEN [rw EXCEPT !.notified = TRUE, !.last = status] ELSE rw

\* The records after an answer: closed ones are PAID, tell of them were told;
\* saved ones exist (an insertion that finds the reference taken does
\* nothing), marked of them were notified.
Applied(closed, tell, saved, marked) ==
    [r \in Ref |->
        IF r \in closed THEN Close(row[r], r \in tell)
        ELSE IF r \in saved /\ ~Present(row, r)
             THEN Notified(Fresh, "PENDING", r \in marked)
             ELSE row[r]]

Tell(tell, sent) ==
    /\ alerted' = alerted \cup sent
    /\ told' = [r \in Ref |-> told[r] \cup (IF r \in tell THEN {"PAID"} ELSE {})
                                      \cup (IF r \in sent THEN {"PENDING"} ELSE {})]

\* Notification may be switched off or have no recipients, an insertion or a
\* mail about a new record that raises is logged and passed over.
Apply(s) ==
    /\ Ready(s)
    /\ \E tell \in SUBSET Stale(s), saved \in SUBSET Missing(s) :
       \E sent \in SUBSET {r \in saved : ~Present(row, r)} : \E marked \in SUBSET sent :
          /\ row' = Applied(Stale(s), tell, saved, marked)
          /\ Tell(tell, sent)
    /\ call' = [call EXCEPT ![s] = Idle]
    /\ UNCHANGED <<issued, listed, job>>

\* A mail about a closed record raises, or the process ends, before the
\* commit.  frappe.sendmail commits what was written before it; the marker of
\* the last mail may be lost.
Interrupted(s) ==
    /\ Ready(s)
    /\ \E closed \in SUBSET Stale(s) : \E tell \in SUBSET closed : \E lost \in SUBSET tell :
          /\ Cardinality(lost) < 2
          /\ row' = Applied(closed, tell \ lost, {}, {})
          /\ Tell(tell, {})
    /\ call' = [call EXCEPT ![s] = Idle]
    /\ UNCHANGED <<issued, listed, job>>

(***************************************************************************)
(* The daily job.                                                          *)
(***************************************************************************)
StartJob ==
    /\ ~job.on
    /\ job' = [on |-> TRUE, seen |-> row, todo |-> {r \in Ref : Present(row, r)}]
    /\ UNCHANGED <<issued, listed, row, call, alerted, told>>

\* Mutant: only records that were never notified are looked at.
OutdatedNever(rw) == FALSE
Outdated(rw) == rw.last # "" /\ rw.last # rw.status

Reminded(rw, status, new, change) ==
    LET marked == Notified(rw, status, new) IN
    [marked EXCEPT !.last = IF change THEN status ELSE marked.last]

\* One record, as the job read it; new and change: whether those mails went out.
Remind(r, new, change) ==
    LET rw == job.seen[r] IN
    /\ new => ~rw.notified
    /\ change => Outdated(rw)
    /\ row' = [row EXCEPT ![r] = Reminded(@, rw.status, new, change)]
    /\ alerted' = alerted \cup (IF new THEN {r} ELSE {})
    /\ told' = [told EXCEPT ![r] = @ \cup (IF new \/ change THEN {rw.status} ELSE {})]

JobRow(r) ==
    /\ job.on /\ r \in job.todo
    /\ \E new, change \in BOOLEAN : Remind(r, new, change)
    /\ job' = [job EXCEPT !.todo = @ \ {r}]
    /\ UNCHANGED <<issued, listed, call>>

\* A mail raises, or the process ends after it and before the commit: the
\* rest of the job is left, the marker is lost.
FailJob(r) ==
    /\ job.on /\ r \in job.todo
    /\ LET rw == job.seen[r] IN
       \/ UNCHANGED <<alerted, told>>
       \/ /\ ~rw.notified
          /\ alerted' = alerted \cup {r}
          /\ told' = [told EXCEPT ![r] = @ \cup {rw.status}]
       \/ /\ Outdated(rw)
          /\ told' = [told EXCEPT ![r] = @ \cup {rw.status}]
          /\ UNCHANGED alerted
    /\ job' = NoJob
    /\ UNCHANGED <<issued, listed, row, call>>

EndJob ==
    /\ job.on /\ job.todo = {}
    /\ job' = NoJob
    /\ UNCHANGED <<issued, listed, row, call, alerted, told>>

Next ==
    \/ \E r \in Ref : Issue(r) \/ Settle(r) \/ JobRow(r) \/ FailJob(r)
    \/ \E s \in Caller :
          Ask(s) \/ Hear(s) \/ Unanswered(s) \/ Read(s) \/ Apply(s) \/ Interrupted(s)
    \/ StartJob \/ EndJob

Spec == Init /\ [][Next]_vars

(***************************************************************************)
(* Safety.                                                                 *)
(***************************************************************************)
\* A record says a mail was sent, or names a status as told, only when that
\* mail was sent, although calls and the job overwrite each other's markers
\* from what they read earlier (_notify_vehicle_fine_new, _status_change).
MarkedIsMailed ==
    \A r \in Ref : Present(row, r) =>
        /\ row[r].notified => r \in alerted
        /\ row[r].last # "" => row[r].last \in told[r]

Closes(s, r) ==
    Present(row, r) /\ row[r].status # "PAID" /\ row'[r].status = "PAID" /\ InCall(s) /\ ~InCall(s)'

\* A call that no other call overlapped closes only records of fines TPF no
\* longer lists, however old what it read (sync_vehicle_fines under the one
\* call per plate that the sync queue grants).
SoleCallClosesSettled ==
    [][\A s \in Caller, r \in Ref : Closes(s, r) /\ call[s].alone => r \notin listed]_vars

(***************************************************************************)
(* Liveness.  The queue syncs the vehicle again and again, and the daily   *)
(* job runs again and again; TPF answers, and records and mails go through *)
(* now and then.                                                           *)
(***************************************************************************)
\* The answer is applied without an error.
Applies(s) == Apply(s) /\ Missing(s) \subseteq {r \in Ref : Present(row', r)}

\* The job's turn of r sends every mail that is due.
Reminds(r) ==
    /\ job.on /\ r \in job.todo
    /\ Remind(r, ~job.seen[r].notified, Outdated(job.seen[r]))
    /\ job' = [job EXCEPT !.todo = @ \ {r}]
    /\ UNCHANGED <<issued, listed, call>>

FairSpec ==
    /\ Spec
    /\ WF_vars(Ask(Queue)) /\ SF_vars(Hear(Queue)) /\ WF_vars(Read(Queue))
    /\ SF_vars(Applies(Queue))
    /\ WF_vars(StartJob) /\ WF_vars(EndJob)
    /\ \A r \in Ref : SF_vars(Reminds(r))

\* A fine TPF lists gets a record, or is settled before that, and the record of
\* a fine TPF no longer lists is closed, also when it is made by a call that
\* heard of the fine before it was settled (sync_vehicle_fines).
RecordsFollowTpf ==
    \A r \in Ref :
        /\ r \in listed ~> (Present(row, r) \/ r \notin listed)
        /\ (Present(row, r) /\ r \notin listed) ~> row[r].status = "PAID"

\* Whoever was told of an open fine is told when it is PAID, although the mail
\* of the call may fail and the job may work from an old list.
ClosedIsTold ==
    \A r \in Ref : (Present(row, r) /\ row[r].status = "PAID" /\ row[r].last = "PENDING")
                      ~> "PAID" \in told[r]
=============================================================================
