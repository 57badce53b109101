-------------------------- MODULE AuthorityProofs --------------------------
(***************************************************************************)
(* Theorems about the calls to the authorities: VehicleFines, for any set  *)
(* of references and any set of web requests, and LatraFetch, for any runs *)
(* and tokens and any size of the list and of its pages.                   *)
(***************************************************************************)
EXTENDS MCAuthority, FunctionTheorems, FiniteSetTheorems, TLAPS

(***************************************************************************)
(* The inductive invariant of VehicleFines.                                *)
(***************************************************************************)
\* Records are made only of issued fines, and what a call has seen is there.
CallInv(s) ==
    call[s] # Idle =>
        /\ call[s].ans \subseteq issued
        /\ call[s].view.open \subseteq {r \in Ref : Present(row, r)}
        /\ call[s].alone => \A t \in Caller : t # s => call[t] = Idle
        /\ call[s].alone /\ call[s].heard =>
              \A r \in Ref : Present(row, r) => r \in call[s].ans \/ r \notin listed

RowsInv ==
    /\ \A r \in Ref : Present(row, r) => r \in issued
    /\ \A r \in job.todo : Present(row, r) /\ Present(job.seen, r)

FineInv ==
    /\ TypeOK /\ MarkedIsMailed /\ RowsInv
    /\ \A s \in Caller : CallInv(s)

(***************************************************************************)
(* Records.                                                                *)
(***************************************************************************)
LEMMA AbsentIsNoRecord == Absent \notin Record
BY DEF Absent, Record, Status

LEMMA IdleIsNotBusy == Idle \notin Busy
BY DEF Idle, Busy

LEMMA PresentIsRecord ==
    ASSUME TypeOK, NEW r \in Ref
    PROVE  Present(row, r) <=> row[r] \in Record
BY AbsentIsNoRecord DEF TypeOK, Present

LEMMA InCallIsBusy ==
    ASSUME TypeOK, NEW s \in Caller, call[s] # Idle
    PROVE  /\ call[s] \in Busy
           /\ call[s].pc = "call" /\ call[s].heard \in BOOLEAN /\ call[s].ans \subseteq Ref
           /\ call[s].read \in BOOLEAN /\ call[s].view \in View /\ call[s].alone \in BOOLEAN
BY DEF TypeOK, Busy

\* What closing and notifying make of a record is a record.
LEMMA RecordWrites ==
    ASSUME NEW rw \in Record, NEW b \in BOOLEAN, NEW st \in Status
    PROVE  /\ Close(rw, b) \in Record /\ Close(rw, b).status = "PAID"
           /\ Close(rw, b).notified = rw.notified
           /\ Close(rw, b).last = IF b THEN "PAID" ELSE rw.last
           /\ Notified(rw, st, b) \in Record /\ Notified(rw, st, b).status = rw.status
           /\ Notified(rw, st, b).notified = (b \/ rw.notified)
           /\ Notified(rw, st, b).last = IF b THEN st ELSE rw.last
BY DEF Close, Notified, Record, Status

LEMMA ReminderWrites ==
    ASSUME NEW rw \in Record, NEW st \in Status, NEW new \in BOOLEAN, NEW change \in BOOLEAN
    PROVE  LET rem == Reminded(rw, st, new, change) IN
           /\ rem \in Record /\ rem.notified = (new \/ rw.notified)
           /\ rem.last = IF new \/ change THEN st ELSE rw.last
<1>. DEFINE marked == Notified(rw, st, new)
<1>1. /\ marked \in Record /\ marked.notified = (new \/ rw.notified)
      /\ marked.last = IF new THEN st ELSE rw.last
  BY RecordWrites
<1>2. Reminded(rw, st, new, change) = [marked EXCEPT !.last = IF change THEN st ELSE marked.last]
  BY DEF Reminded
<1>. HIDE DEF marked
<1>. QED  BY <1>1, <1>2 DEF Record

LEMMA FreshIsRecord == Fresh \in Record /\ Fresh.notified = FALSE /\ Fresh.last = "" /\ "PENDING" \in Status
BY DEF Fresh, Record, Status

(***************************************************************************)
(* What an answer does to the records and the mails.                       *)
(***************************************************************************)
LEMMA AppliedKeeps ==
    ASSUME TypeOK, MarkedIsMailed,
           NEW closed \in SUBSET {r \in Ref : Present(row, r)},
           NEW tell, NEW lost \in SUBSET tell, NEW saved \in SUBSET issued,
           NEW sent \in SUBSET Ref, NEW marked \in SUBSET sent,
           tell \subseteq closed,
           row' = Applied(closed, tell \ lost, saved, marked), Tell(tell, sent),
           issued' = issued,
           \A r \in Ref : Present(row, r) => r \in issued
    PROVE  /\ row' \in [Ref -> Record \cup {Absent}]
           /\ alerted' \subseteq Ref /\ told' \in [Ref -> SUBSET Status]
           /\ MarkedIsMailed'
           /\ \A r \in Ref : Present(row, r) => Present(row', r)
           /\ \A r \in Ref : Present(row', r) => r \in issued
           /\ \A r \in Ref : Present(row, r) /\ r \notin closed => row'[r] = row[r]
<1>0. \A r \in Ref : /\ r \in alerted => r \in alerted'
                     /\ r \in sent => r \in alerted' /\ "PENDING" \in told'[r]
                     /\ r \in tell => "PAID" \in told'[r]
                     /\ told[r] \subseteq told'[r]
  BY DEF Tell
<1>1. alerted' \subseteq Ref /\ told' \in [Ref -> SUBSET Status]
  BY DEF Tell, TypeOK, Status
<1>2. ASSUME NEW r \in Ref
      PROVE  /\ row'[r] \in Record \cup {Absent}
             /\ Present(row, r) => row'[r] \in Record
             /\ row'[r] # Absent => r \in issued
             /\ Present(row, r) /\ r \notin closed => row'[r] = row[r]
             /\ row'[r] # Absent /\ row'[r].notified => r \in alerted'
             /\ row'[r] # Absent /\ row'[r].last # "" => row'[r].last \in told'[r]
  <2>1. CASE r \in closed
    <3>1. row[r] \in Record
      BY <2>1, PresentIsRecord
    <3>2. row'[r] = Close(row[r], r \in tell \ lost)
      BY <2>1 DEF Applied
    <3>4. /\ row'[r] \in Record /\ row'[r].notified = row[r].notified
          /\ row'[r].last = IF r \in tell \ lost THEN "PAID" ELSE row[r].last
      BY <3>1, <3>2 DEF Close, Record, Status
    <3>5. Present(row, r)
      BY <2>1
    <3>6. row[r].notified => r \in alerted
      BY <3>5 DEF MarkedIsMailed
    <3>7. row[r].last # "" => row[r].last \in told[r]
      BY <3>5 DEF MarkedIsMailed
    <3>8. r \in issued
      BY <3>5
    <3>9. row'[r].last # "" => row'[r].last \in told'[r]
      BY <1>0, <3>4, <3>7
    <3>. QED  BY <1>0, <2>1, <3>4, <3>6, <3>8, <3>9
  <2>2. CASE r \notin closed /\ r \in saved /\ ~Present(row, r)
    <3>1. row'[r] = Notified(Fresh, "PENDING", r \in marked)
      BY <2>2 DEF Applied
    <3>3. /\ row'[r] \in Record /\ (row'[r].notified => r \in marked)
          /\ row'[r].last = IF r \in marked THEN "PENDING" ELSE ""
      <4>1. CASE r \in marked
        BY <3>1, <4>1 DEF Notified, Fresh, Record, Status
      <4>2. CASE r \notin marked
        <5>1. row'[r] = Fresh
          BY <3>1, <4>2 DEF Notified
        <5>. QED  BY <4>2, <5>1, FreshIsRecord
      <4>. QED  BY <4>1, <4>2
    <3>4. r \in issued
      BY <2>2
    <3>5. row'[r].last # "" => row'[r].last \in told'[r]
      BY <1>0, <3>3
    <3>. QED  BY <1>0, <2>2, <3>3, <3>4, <3>5
  <2>3. CASE r \notin closed /\ ~(r \in saved /\ ~Present(row, r))
    <3>1. row'[r] = row[r]
      BY <2>3 DEF Applied
    <3>2. row[r] \in Record \cup {Absent} /\ (Present(row, r) <=> row[r] \in Record)
      BY PresentIsRecord DEF TypeOK
    <3>. QED  BY <1>0, <2>3, <3>1, <3>2 DEF MarkedIsMailed, Present
  <2>. QED  BY <2>1, <2>2, <2>3
<1>3. row' \in [Ref -> Record \cup {Absent}]
  <2>1. row' = [r \in Ref |-> row'[r]]
    BY DEF Applied
  <2>. QED  BY <1>2, <2>1
<1>4. MarkedIsMailed'
  BY <1>2 DEF MarkedIsMailed, Present
<1>5. \A r \in Ref : /\ Present(row, r) => Present(row', r)
                     /\ Present(row', r) => r \in issued
                     /\ Present(row, r) /\ r \notin closed => row'[r] = row[r]
  BY <1>2, AbsentIsNoRecord DEF Present
<1>. QED  BY <1>1, <1>3, <1>4, <1>5

(***************************************************************************)
(* Steps of a session, and what they leave of the other calls.             *)
(***************************************************************************)
\* A session leaves its call; nothing else is asked or heard.
LEMMA LeavingKeepsCalls ==
    ASSUME FineInv, NEW s \in Caller, call' = [call EXCEPT ![s] = Idle],
           issued' = issued, listed' = listed,
           \A r \in Ref : Present(row, r) => Present(row', r),
           \/ \A r \in Ref : Present(row', r) => Present(row, r)
           \/ call[s] # Idle
    PROVE  call' \in [Caller -> Busy \cup {Idle}] /\ \A t \in Caller : CallInv(t)'
<1>1. call' \in [Caller -> Busy \cup {Idle}]
  BY DEF FineInv, TypeOK
<1>2. ASSUME NEW t \in Caller PROVE CallInv(t)'
  <2>1. CASE t = s
    BY <2>1 DEF CallInv, FineInv, TypeOK
  <2>2. CASE t # s /\ call[t] # Idle
    <3>1. call'[t] = call[t] /\ CallInv(t)
      BY <2>2 DEF FineInv, TypeOK
    <3>2. call[t].alone => call[s] = Idle
      BY <2>2, <3>1 DEF CallInv
    <3>3. \A u \in Caller : call[u] = Idle => call'[u] = Idle
      BY DEF FineInv, TypeOK
    <3>. QED  BY <2>2, <3>1, <3>2, <3>3 DEF CallInv
  <2>3. CASE t # s /\ call[t] = Idle
    BY <2>3 DEF CallInv, FineInv, TypeOK
  <2>. QED  BY <2>1, <2>2, <2>3
<1>. QED  BY <1>1, <1>2

\* A step of one session inside its call leaves the records.
LEMMA CallStep ==
    ASSUME FineInv, NEW s \in Caller, NEW c \in Busy, call[s] # Idle,
           call' = [call EXCEPT ![s] = c],
           UNCHANGED <<issued, listed, row, job, alerted, told>>,
           c.ans \subseteq issued, c.alone = call[s].alone,
           c.view.open \subseteq {r \in Ref : Present(row, r)},
           c.alone /\ c.heard =>
              \A r \in Ref : Present(row, r) => r \in c.ans \/ r \notin listed
    PROVE  FineInv'
<1>1. TypeOK'
  BY DEF FineInv, TypeOK
<1>2. MarkedIsMailed' /\ RowsInv'
  BY DEF FineInv, MarkedIsMailed, RowsInv, Present
<1>3. ASSUME NEW t \in Caller PROVE CallInv(t)'
  <2>1. \A u \in Caller : call[u] = Idle => call'[u] = Idle
    BY DEF FineInv, TypeOK
  <2>2. CASE t = s
    <3>1. call'[s] = c
      BY DEF FineInv, TypeOK
    <3>2. call[s].alone => \A u \in Caller : u # s => call[u] = Idle
      BY DEF FineInv, CallInv
    <3>. QED  BY <2>1, <2>2, <3>1, <3>2 DEF CallInv, Present
  <2>3. CASE t # s
    <3>1. call'[t] = call[t] /\ CallInv(t)
      BY <2>3 DEF FineInv, TypeOK
    <3>. QED  BY <2>1, <3>1 DEF CallInv, Present
  <2>. QED  BY <2>2, <2>3
<1>. QED  BY <1>1, <1>2, <1>3 DEF FineInv

\* A job step writes to records there are, in or out of a call.
LEMMA JobStep ==
    ASSUME FineInv, TypeOK', MarkedIsMailed', UNCHANGED <<issued, listed, call>>,
           \A r \in Ref : Present(row', r) <=> Present(row, r),
           \A r \in job'.todo : Present(row, r) /\ Present(job'.seen, r)
    PROVE  FineInv'
<1>1. RowsInv'
  <2>1. job'.todo \subseteq Ref
    BY DEF TypeOK, Job
  <2>. QED  BY <2>1 DEF FineInv, RowsInv
<1>2. ASSUME NEW s \in Caller PROVE CallInv(s)'
  BY DEF FineInv, CallInv
<1>. QED  BY <1>1, <1>2 DEF FineInv

(***************************************************************************)
(* The invariant holds.                                                    *)
(***************************************************************************)
LEMMA InitInv == Init => FineInv
<1>. SUFFICES ASSUME Init PROVE FineInv
  OBVIOUS
<1>1. TypeOK
  BY DEF Init, TypeOK, NoJob, Job
<1>2. \A r \in Ref : ~Present(row, r)
  BY DEF Init, Present
<1>3. job.todo = {} /\ \A s \in Caller : call[s] = Idle
  BY DEF Init, NoJob
<1>. QED  BY <1>1, <1>2, <1>3 DEF FineInv, MarkedIsMailed, RowsInv, CallInv

LEMMA TpfKeeps ==
    ASSUME FineInv, NEW r \in Ref, Issue(r) \/ Settle(r)
    PROVE  FineInv'
<1>1. /\ issued \subseteq issued' /\ issued' \subseteq Ref /\ listed' \subseteq issued'
      /\ UNCHANGED <<row, call, job, alerted, told>>
      /\ \A q \in Ref : q \in listed' /\ q \in issued => q \in listed
  BY DEF Issue, Settle, FineInv, TypeOK
<1>2. TypeOK' /\ MarkedIsMailed' /\ RowsInv'
  BY <1>1 DEF FineInv, TypeOK, MarkedIsMailed, RowsInv, Present
<1>3. ASSUME NEW s \in Caller PROVE CallInv(s)'
  <2>1. \A q \in Ref : Present(row, q) => q \in issued
    BY DEF FineInv, RowsInv
  <2>. QED  BY <1>1, <2>1 DEF FineInv, CallInv, Present
<1>. QED  BY <1>2, <1>3 DEF FineInv

LEMMA ViewIsView ==
    ViewOf(row) \in View /\ ViewOf(row).open \subseteq {r \in Ref : Present(row, r)}
BY DEF ViewOf, View

LEMMA AskKeeps ==
    ASSUME FineInv, NEW s \in Caller, Ask(s)
    PROVE  FineInv'
<1>. DEFINE alone == \A t \in Caller : ~InCall(t)
<1>1. PICK early \in BOOLEAN : call' = [t \in Caller |->
          IF t = s
          THEN [pc |-> "call", heard |-> FALSE, ans |-> {}, read |-> early,
                view |-> IF early THEN ViewOf(row) ELSE Unread, alone |-> alone]
          ELSE IF InCall(t) THEN [call[t] EXCEPT !.alone = FALSE] ELSE Idle]
  BY DEF Ask
<1>2. UNCHANGED <<issued, listed, row, job, alerted, told>>
  BY DEF Ask
<1>3. call'[s] \in Busy /\ call'[s].ans = {} /\ call'[s].heard = FALSE
      /\ call'[s].view.open \subseteq {r \in Ref : Present(row, r)}
      /\ (call'[s].alone => \A t \in Caller : call[t] = Idle)
  <2>1. (IF early THEN ViewOf(row) ELSE Unread) \in View
        /\ (IF early THEN ViewOf(row) ELSE Unread).open \subseteq {r \in Ref : Present(row, r)}
    BY ViewIsView DEF Unread, View
  <2>2. alone \in BOOLEAN /\ (alone => \A t \in Caller : call[t] = Idle)
    BY DEF InCall
  <2>3. call'[s] = [pc |-> "call", heard |-> FALSE, ans |-> {}, read |-> early,
                    view |-> IF early THEN ViewOf(row) ELSE Unread, alone |-> alone]
    BY <1>1
  <2>. HIDE DEF alone
  <2>. QED  BY <2>1, <2>2, <2>3 DEF Busy
<1>4. ASSUME NEW t \in Caller, t # s, call[t] # Idle
      PROVE  /\ call'[t] \in Busy /\ call'[t].alone = FALSE
             /\ call'[t].ans = call[t].ans /\ call'[t].view = call[t].view
  <2>1. call'[t] = [call[t] EXCEPT !.alone = FALSE]
    BY <1>1, <1>4 DEF InCall
  <2>2. call[t] \in Busy
    BY <1>4, InCallIsBusy DEF FineInv
  <2>. QED  BY <2>1, <2>2 DEF Busy
<1>5. ASSUME NEW t \in Caller, t # s, call[t] = Idle PROVE call'[t] = Idle
  BY <1>1, <1>5 DEF InCall
<1>6. TypeOK'
  <2>1. call' \in [Caller -> Busy \cup {Idle}]
    <3>1. call' = [t \in Caller |-> call'[t]]
      BY <1>1
    <3>2. \A t \in Caller : call'[t] \in Busy \cup {Idle}
      BY <1>3, <1>4, <1>5
    <3>. QED  BY <3>1, <3>2
  <2>. QED  BY <1>2, <2>1 DEF FineInv, TypeOK
<1>7. MarkedIsMailed' /\ RowsInv'
  BY <1>2 DEF FineInv, MarkedIsMailed, RowsInv, Present
<1>8. ASSUME NEW t \in Caller PROVE CallInv(t)'
  <2>1. CASE t = s
    BY <1>2, <1>3, <1>5, <2>1 DEF CallInv, Present
  <2>2. CASE t # s /\ call[t] # Idle
    <3>1. CallInv(t)
      BY DEF FineInv
    <3>2. call'[t].alone = FALSE /\ call'[t].ans = call[t].ans /\ call'[t].view = call[t].view
      BY <1>4, <2>2
    <3>. QED  BY <1>2, <2>2, <3>1, <3>2 DEF CallInv, Present
  <2>3. CASE t # s /\ call[t] = Idle
    BY <1>5, <2>3 DEF CallInv
  <2>. QED  BY <2>1, <2>2, <2>3
<1>. QED  BY <1>6, <1>7, <1>8 DEF FineInv

LEMMA HearReadKeep ==
    ASSUME FineInv, NEW s \in Caller, Hear(s) \/ Read(s)
    PROVE  FineInv'
<1>1. /\ call[s] # Idle /\ call[s] \in Busy /\ CallInv(s)
      /\ UNCHANGED <<issued, listed, row, job, alerted, told>>
      /\ listed \subseteq issued /\ issued \subseteq Ref
  BY InCallIsBusy DEF Hear, Read, InCall, FineInv, TypeOK
<1>2. CASE Hear(s)
  <2>. DEFINE c == [call[s] EXCEPT !.heard = TRUE, !.ans = listed]
  <2>1. call' = [call EXCEPT ![s] = c]
    BY <1>2 DEF Hear
  <2>2. c \in Busy /\ c.ans = listed /\ c.alone = call[s].alone /\ c.view = call[s].view
    BY <1>1 DEF Busy
  <2>3. c.view.open \subseteq {r \in Ref : Present(row, r)}
    BY <1>1, <2>2 DEF CallInv
  <2>. HIDE DEF c
  <2>. QED  BY <1>1, <2>1, <2>2, <2>3, CallStep
<1>3. CASE Read(s)
  <2>. DEFINE c == [call[s] EXCEPT !.read = TRUE, !.view = ViewOf(row)]
  <2>1. call' = [call EXCEPT ![s] = c]
    BY <1>3 DEF Read
  <2>2. /\ c \in Busy /\ c.ans = call[s].ans /\ c.alone = call[s].alone
        /\ c.heard = call[s].heard /\ c.view = ViewOf(row)
    BY <1>1, ViewIsView DEF Busy
  <2>3. c.view.open \subseteq {r \in Ref : Present(row, r)}
    BY <2>2, ViewIsView
  <2>. HIDE DEF c
  <2>4. c.ans \subseteq issued
        /\ (c.alone /\ c.heard =>
              \A r \in Ref : Present(row, r) => r \in c.ans \/ r \notin listed)
    BY <1>1, <2>2 DEF CallInv
  <2>. QED  BY <1>1, <2>1, <2>2, <2>3, <2>4, CallStep
<1>. QED  BY <1>2, <1>3

\* Both ways in which an answer ends a call close records the call saw open and
\* the answer does not name.
Answered(s, closed) ==
    /\ closed \subseteq Stale(s) /\ call[s] # Idle /\ call[s].heard
    /\ call' = [call EXCEPT ![s] = Idle]
    /\ UNCHANGED <<issued, listed, job>>
    /\ row' \in [Ref -> Record \cup {Absent}]
    /\ alerted' \subseteq Ref /\ told' \in [Ref -> SUBSET Status]
    /\ MarkedIsMailed'
    /\ \A r \in Ref : Present(row, r) => Present(row', r)
    /\ \A r \in Ref : Present(row', r) => r \in issued
    /\ \A r \in Ref : Present(row, r) /\ r \notin closed => row'[r] = row[r]

LEMMA StaleIsPresent ==
    ASSUME FineInv, NEW s \in Caller, call[s] # Idle
    PROVE  Stale(s) \subseteq {r \in Ref : Present(row, r)} /\ Missing(s) \subseteq issued
BY DEF FineInv, CallInv, Stale, Missing

LEMMA ApplyAnswers ==
    ASSUME FineInv, NEW s \in Caller, Apply(s)
    PROVE  Answered(s, Stale(s))
<1>1. /\ call[s] # Idle /\ call[s].heard
      /\ call' = [call EXCEPT ![s] = Idle] /\ UNCHANGED <<issued, listed, job>>
  BY DEF Apply, Ready, InCall
<1>2. PICK tell \in SUBSET Stale(s), saved \in SUBSET Missing(s) :
         \E sent \in SUBSET {r \in saved : ~Present(row, r)} : \E marked \in SUBSET sent :
            row' = Applied(Stale(s), tell, saved, marked) /\ Tell(tell, sent)
  BY DEF Apply
<1>21. PICK sent \in SUBSET {r \in saved : ~Present(row, r)} : \E marked \in SUBSET sent :
         row' = Applied(Stale(s), tell, saved, marked) /\ Tell(tell, sent)
  BY <1>2
<1>3. PICK marked \in SUBSET sent :
         row' = Applied(Stale(s), tell, saved, marked) /\ Tell(tell, sent)
  BY <1>21
<1>4. /\ Stale(s) \in SUBSET {r \in Ref : Present(row, r)} /\ saved \in SUBSET issued
      /\ issued \subseteq Ref
  BY <1>1, StaleIsPresent DEF FineInv, TypeOK
<1>5. tell \subseteq Stale(s) /\ sent \in SUBSET Ref /\ {} \in SUBSET tell /\ tell \ {} = tell
  BY <1>4
<1>6. \A r \in Ref : Present(row, r) => r \in issued
  BY DEF FineInv, RowsInv
<1>7. row' = Applied(Stale(s), tell \ {}, saved, marked)
  BY <1>3, <1>5
<1>8. TypeOK /\ MarkedIsMailed /\ Tell(tell, sent)
  BY <1>3 DEF FineInv
<1>9. /\ row' \in [Ref -> Record \cup {Absent}]
      /\ alerted' \subseteq Ref /\ told' \in [Ref -> SUBSET Status]
      /\ MarkedIsMailed'
      /\ \A r \in Ref : Present(row, r) => Present(row', r)
      /\ \A r \in Ref : Present(row', r) => r \in issued
      /\ \A r \in Ref : Present(row, r) /\ r \notin Stale(s) => row'[r] = row[r]
  BY <1>1, <1>4, <1>5, <1>6, <1>7, <1>8, AppliedKeeps
<1>. QED  BY <1>1, <1>9 DEF Answered

LEMMA InterruptedAnswers ==
    ASSUME FineInv, NEW s \in Caller, Interrupted(s)
    PROVE  \E closed \in SUBSET Stale(s) : Answered(s, closed)
<1>1. /\ call[s] # Idle /\ call[s].heard
      /\ call' = [call EXCEPT ![s] = Idle] /\ UNCHANGED <<issued, listed, job>>
  BY DEF Interrupted, Ready, InCall
<1>21. PICK closed \in SUBSET Stale(s) : \E tell \in SUBSET closed : \E lost \in SUBSET tell :
         row' = Applied(closed, tell \ lost, {}, {}) /\ Tell(tell, {})
  BY DEF Interrupted
<1>22. PICK tell \in SUBSET closed : \E lost \in SUBSET tell :
         row' = Applied(closed, tell \ lost, {}, {}) /\ Tell(tell, {})
  BY <1>21
<1>2. PICK lost \in SUBSET tell :
         row' = Applied(closed, tell \ lost, {}, {}) /\ Tell(tell, {})
  BY <1>22
<1>4. closed \in SUBSET {r \in Ref : Present(row, r)}
  BY <1>1, StaleIsPresent
<1>6. \A r \in Ref : Present(row, r) => r \in issued
  BY DEF FineInv, RowsInv
<1>8. TypeOK /\ MarkedIsMailed
  BY DEF FineInv
<1>9. /\ row' \in [Ref -> Record \cup {Absent}]
      /\ alerted' \subseteq Ref /\ told' \in [Ref -> SUBSET Status]
      /\ MarkedIsMailed'
      /\ \A r \in Ref : Present(row, r) => Present(row', r)
      /\ \A r \in Ref : Present(row', r) => r \in issued
      /\ \A r \in Ref : Present(row, r) /\ r \notin closed => row'[r] = row[r]
  <2>1. {} \in SUBSET issued /\ {} \in SUBSET Ref /\ {} \in SUBSET {} /\ tell \subseteq closed
    OBVIOUS
  <2>. QED  BY <1>1, <1>2, <1>4, <1>6, <1>8, <2>1, AppliedKeeps
<1>. QED  BY <1>1, <1>2, <1>9 DEF Answered

LEMMA AnswerKeeps ==
    ASSUME FineInv, NEW s \in Caller, NEW closed, Answered(s, closed)
    PROVE  FineInv'
<1>1. call' \in [Caller -> Busy \cup {Idle}] /\ \A t \in Caller : CallInv(t)'
  BY LeavingKeepsCalls DEF Answered
<1>2. TypeOK' /\ MarkedIsMailed'
  BY <1>1 DEF Answered, FineInv, TypeOK
<1>3. RowsInv'
  <2>1. job.todo \subseteq Ref
    BY DEF FineInv, TypeOK, Job
  <2>2. /\ job' = job /\ issued' = issued
        /\ \A r \in Ref : Present(row, r) => Present(row', r)
        /\ \A r \in Ref : Present(row', r) => r \in issued
    BY DEF Answered
  <2>. QED  BY <2>1, <2>2 DEF FineInv, RowsInv
<1>. QED  BY <1>1, <1>2, <1>3 DEF FineInv

LEMMA UnansweredKeeps ==
    ASSUME FineInv, NEW s \in Caller, Unanswered(s)
    PROVE  FineInv'
<1>1. call' = [call EXCEPT ![s] = Idle] /\ UNCHANGED <<issued, listed, row, job, alerted, told>>
  BY DEF Unanswered
<1>2. \A r \in Ref : Present(row', r) <=> Present(row, r)
  BY <1>1 DEF Present
<1>3. call' \in [Caller -> Busy \cup {Idle}] /\ \A t \in Caller : CallInv(t)'
  BY <1>1, <1>2, LeavingKeepsCalls
<1>. QED  BY <1>1, <1>3 DEF FineInv, TypeOK, MarkedIsMailed, RowsInv, Present

(***************************************************************************)
(* The job.                                                                *)
(***************************************************************************)
LEMMA JobBoundaries ==
    ASSUME FineInv, StartJob \/ EndJob
    PROVE  FineInv'
<1>1. UNCHANGED <<issued, listed, row, call, alerted, told>>
  BY DEF StartJob, EndJob
<1>2. job' \in Job /\ \A r \in job'.todo : Present(row, r) /\ Present(job'.seen, r)
  <2>1. CASE StartJob
    <3>1. job' = [on |-> TRUE, seen |-> row, todo |-> {r \in Ref : Present(row, r)}]
      BY <2>1 DEF StartJob
    <3>2. row \in [Ref -> Record \cup {Absent}]
      BY DEF FineInv, TypeOK
    <3>. QED  BY <3>1, <3>2 DEF Job
  <2>2. CASE EndJob
    BY <2>2 DEF EndJob, NoJob, Job
  <2>. QED  BY <2>1, <2>2
<1>3. TypeOK' /\ MarkedIsMailed'
  BY <1>1, <1>2 DEF FineInv, TypeOK, MarkedIsMailed, Present
<1>. QED  BY <1>1, <1>2, <1>3, JobStep DEF Present

LEMMA SeenIsRecord ==
    ASSUME FineInv, NEW r \in Ref, r \in job.todo
    PROVE  row[r] \in Record /\ job.seen[r] \in Record
<1>1. row[r] # Absent /\ job.seen[r] # Absent
  BY DEF FineInv, RowsInv, Present
<1>2. row[r] \in Record \cup {Absent} /\ job.seen[r] \in Record \cup {Absent}
  BY DEF FineInv, TypeOK, Job
<1>. QED  BY <1>1, <1>2

LEMMA FailJobKeeps ==
    ASSUME FineInv, NEW r \in Ref, FailJob(r)
    PROVE  FineInv'
<1>1. UNCHANGED <<issued, listed, row, call>> /\ job' = NoJob /\ r \in job.todo
  BY DEF FailJob
<1>2. job.seen[r].status \in Status
  BY <1>1, SeenIsRecord DEF Record
<1>3. /\ alerted \subseteq alerted' /\ alerted' \subseteq Ref
      /\ told' \in [Ref -> SUBSET Status] /\ \A q \in Ref : told[q] \subseteq told'[q]
  BY <1>2 DEF FailJob, FineInv, TypeOK
<1>4. NoJob \in Job /\ NoJob.todo = {}
  BY DEF NoJob, Job
<1>5. TypeOK'
  BY <1>1, <1>3, <1>4 DEF FineInv, TypeOK
<1>6. MarkedIsMailed'
  BY <1>1, <1>3 DEF FineInv, MarkedIsMailed, Present
<1>. QED  BY <1>1, <1>4, <1>5, <1>6, JobStep DEF Present

LEMMA JobRowKeeps ==
    ASSUME FineInv, NEW r \in Ref, JobRow(r)
    PROVE  FineInv'
<1>. DEFINE rw == job.seen[r]
<1>1. /\ UNCHANGED <<issued, listed, call>> /\ r \in job.todo
      /\ job' = [job EXCEPT !.todo = @ \ {r}]
  BY DEF JobRow
<1>2. row[r] \in Record /\ rw \in Record /\ rw.status \in Status
  BY <1>1, SeenIsRecord DEF Record
<1>3. PICK new \in BOOLEAN, change \in BOOLEAN : Remind(r, new, change)
  BY DEF JobRow
<1>. DEFINE W == Reminded(row[r], rw.status, new, change)
<1>4. row' = [row EXCEPT ![r] = W] /\ alerted' = alerted \cup (IF new THEN {r} ELSE {})
      /\ told' = [told EXCEPT ![r] = told[r] \cup (IF new \/ change THEN {rw.status} ELSE {})]
  BY <1>3 DEF Remind
<1>6. /\ W \in Record /\ W.notified = (new \/ row[r].notified)
      /\ W.last = IF new \/ change THEN rw.status ELSE row[r].last
  BY <1>2, ReminderWrites
<1>. HIDE DEF W
<1>7. /\ row'[r] = W /\ \A q \in Ref : q # r => row'[q] = row[q]
      /\ row' \in [Ref -> Record \cup {Absent}]
  BY <1>4, <1>6 DEF FineInv, TypeOK
<1>8. /\ alerted \subseteq alerted' /\ alerted' \subseteq Ref
      /\ told' \in [Ref -> SUBSET Status] /\ \A q \in Ref : told[q] \subseteq told'[q]
      /\ new => r \in alerted'
      /\ new \/ change => rw.status \in told'[r]
  BY <1>2, <1>4 DEF FineInv, TypeOK
<1>9. job' \in Job /\ job'.todo = job.todo \ {r} /\ job'.seen = job.seen
  BY <1>1 DEF FineInv, TypeOK, Job
<1>10. TypeOK'
  BY <1>1, <1>7, <1>8, <1>9 DEF FineInv, TypeOK
<1>11. MarkedIsMailed'
  <2>1. ASSUME NEW q \in Ref, Present(row', q)
        PROVE  (row'[q].notified => q \in alerted') /\ (row'[q].last # "" => row'[q].last \in told'[q])
    <3>1. CASE q = r
      <4>1. Present(row, r)
        BY <1>2, AbsentIsNoRecord DEF Present
      <4>2. (row[r].notified => r \in alerted) /\ (row[r].last # "" => row[r].last \in told[r])
        BY <4>1 DEF FineInv, MarkedIsMailed
      <4>. QED  BY <1>6, <1>7, <1>8, <3>1, <4>2
    <3>2. CASE q # r
      BY <1>7, <1>8, <2>1, <3>2 DEF FineInv, MarkedIsMailed, Present
    <3>. QED  BY <3>1, <3>2
  <2>. QED  BY <2>1 DEF MarkedIsMailed
<1>12. \A q \in Ref : Present(row', q) <=> Present(row, q)
  BY <1>2, <1>6, <1>7, AbsentIsNoRecord DEF Present
<1>13. \A q \in job'.todo : Present(row, q) /\ Present(job'.seen, q)
  BY <1>9 DEF FineInv, RowsInv
<1>. QED  BY <1>1, <1>10, <1>11, <1>12, <1>13, JobStep

LEMMA NextKeeps == FineInv /\ [Next]_vars => FineInv'
<1>. SUFFICES ASSUME FineInv, [Next]_vars PROVE FineInv'
  OBVIOUS
<1>1. CASE UNCHANGED vars
  BY <1>1 DEF vars, FineInv, TypeOK, MarkedIsMailed, RowsInv, CallInv, Present
<1>2. ASSUME NEW r \in Ref, Issue(r) \/ Settle(r) PROVE FineInv'
  BY <1>2, TpfKeeps
<1>3. ASSUME NEW r \in Ref, JobRow(r) PROVE FineInv'
  BY <1>3, JobRowKeeps
<1>4. ASSUME NEW r \in Ref, FailJob(r) PROVE FineInv'
  BY <1>4, FailJobKeeps
<1>5. ASSUME NEW s \in Caller, Ask(s) PROVE FineInv'
  BY <1>5, AskKeeps
<1>6. ASSUME NEW s \in Caller, Hear(s) \/ Read(s) PROVE FineInv'
  BY <1>6, HearReadKeep
<1>7. ASSUME NEW s \in Caller, Unanswered(s) PROVE FineInv'
  BY <1>7, UnansweredKeeps
<1>8. ASSUME NEW s \in Caller, Apply(s) PROVE FineInv'
  BY <1>8, ApplyAnswers, AnswerKeeps
<1>9. ASSUME NEW s \in Caller, Interrupted(s) PROVE FineInv'
  BY <1>9, InterruptedAnswers, AnswerKeeps
<1>10. CASE StartJob \/ EndJob
  BY <1>10, JobBoundaries
<1>. QED  BY <1>1, <1>2, <1>3, <1>4, <1>5, <1>6, <1>7, <1>8, <1>9, <1>10 DEF Next

LEMMA Invariance == Spec => []FineInv
<1>. QED  BY InitInv, NextKeeps, PTL DEF Spec

\* Every variable keeps its type, whatever overlaps and fails.
THEOREM TypeCorrect == Spec => []TypeOK
<1>1. FineInv => TypeOK
  BY DEF FineInv
<1>. QED  BY <1>1, Invariance, PTL

\* A record never claims a mail that was not sent (_notify_vehicle_fine_new,
\* _status_change), for any number of web requests.
THEOREM MarkersAreTrue == Spec => []MarkedIsMailed
<1>1. FineInv => MarkedIsMailed
  BY DEF FineInv
<1>. QED  BY <1>1, Invariance, PTL

\* A call that nothing overlaps closes only records of fines TPF has dropped
\* from its list (_handle_vehicle_fines_response), however old what it read.
THEOREM SoleCallIsRight == Spec => SoleCallClosesSettled
<1>. DEFINE A == \A s \in Caller, r \in Ref : Closes(s, r) /\ call[s].alone => r \notin listed
<1>1. FineInv /\ [Next]_vars => [A]_vars
  <2>. SUFFICES ASSUME FineInv, Next, NEW s \in Caller, NEW r \in Ref,
                       Closes(s, r), call[s].alone
                PROVE  r \notin listed
    OBVIOUS
  <2>1. /\ Present(row, r) /\ row[r].status # "PAID" /\ row'[r].status = "PAID"
        /\ call[s] # Idle /\ call'[s] = Idle /\ row' # row /\ call' # call
    BY DEF Closes, InCall
  <2>2. PICK t \in Caller : Apply(t) \/ Interrupted(t)
    BY <2>1 DEF Next, Issue, Settle, JobRow, FailJob, Ask, Hear, Unanswered, Read, StartJob, EndJob
  <2>3. PICK closed \in SUBSET Stale(t) : Answered(t, closed)
    BY <2>2, ApplyAnswers, InterruptedAnswers
  <2>4. t = s
    BY <2>1, <2>3 DEF Answered, FineInv, TypeOK
  <2>5. r \in closed
    BY <2>1, <2>3 DEF Answered
  <2>6. r \notin call[s].ans /\ call[s].heard
    BY <2>3, <2>4, <2>5 DEF Stale, Answered
  <2>. QED  BY <2>1, <2>6 DEF FineInv, CallInv
<1>. QED  BY <1>1, Invariance, PTL DEF Spec, SoleCallClosesSettled

(***************************************************************************)
(* LatraFetch: for any runs, page size and tokens.  What a run has fetched *)
(* is every row that was listed when it began, as far down as its pages    *)
(* reach in the list as it is now: the list grows at the top, so what has  *)
(* been passed is never to be reached again.  rows counts no more than the *)
(* pages hold.                                                             *)
(***************************************************************************)
Reach(p) == p * PageSize

IsRun(r) ==
    r = [pc |-> r.pc, tok |-> r.tok, seen |-> r.seen, own |-> r.own, again |-> r.again,
         page |-> r.page, rows |-> r.rows, got |-> r.got, start |-> r.start]

FetchedInv(r) ==
    /\ r.page \in Nat /\ r.rows \in Nat /\ r.start \in 0..rows
    /\ r.rows <= Reach(r.page)
    /\ \A x \in 1..r.start : x + Reach(r.page) > rows => x \in r.got

RunInv(r) ==
    \/ r = F!Idle
    \/ /\ IsRun(r)
       /\ r.pc = "fetch" => FetchedInv(r)
       /\ r.pc = "write" => 1..r.start \subseteq r.got

PagesInv ==
    /\ rows \in Nat
    /\ run = [s \in F!Session |-> run[s]]
    /\ \A s \in F!Session : RunInv(run[s])

LEMMA ReachGrows ==
    ASSUME NEW p \in Nat
    PROVE  Reach(p) \in Nat /\ Reach(p + 1) \in Nat /\ Reach(p + 1) = Reach(p) + PageSize /\ Reach(0) = 0
BY FetchAssumption DEF Reach, F!SizeAssumption

\* Page p holds the rows between what p and p + 1 pages reach; with fewer rows
\* than a page has, it is the last one.
LEMMA PageHolds ==
    ASSUME rows \in Nat, NEW p \in Nat
    PROVE  /\ \A x \in 1..rows : x + Reach(p) <= rows /\ x + Reach(p + 1) > rows => x \in F!Page(p)
           /\ Cardinality(F!Page(p)) \in 0..PageSize
           /\ Cardinality(F!Page(p)) < PageSize => Reach(p + 1) >= rows
<1>. DEFINE last == F!Smaller(Reach(p + 1), rows) - 1
            span == Reach(p) .. last
<1>1. PageSize \in Nat \ {0} /\ Reach(p) \in Nat /\ Reach(p + 1) = Reach(p) + PageSize
  BY ReachGrows, FetchAssumption DEF F!SizeAssumption
<1>2. last \in Int /\ last < Reach(p + 1) /\ last < rows
      /\ (last = Reach(p + 1) - 1 \/ last = rows - 1)
  BY <1>1 DEF F!Smaller
<1>3. F!Page(p) = {rows - i : i \in span}
  BY DEF F!Page, Reach
<1>. HIDE DEF last
<1>4. ASSUME NEW x \in 1..rows, x + Reach(p) <= rows, x + Reach(p + 1) > rows
      PROVE  x \in F!Page(p)
  <2>1. rows - x \in span /\ rows - (rows - x) = x
    BY <1>1, <1>2, <1>4
  <2>. QED  BY <1>3, <2>1
<1>5. IsFiniteSet(span)
      /\ Cardinality(span) = IF Reach(p) > last THEN 0 ELSE last - Reach(p) + 1
  <2>1. Reach(p) \in Int /\ last \in Int
    BY <1>1, <1>2
  <2>. QED  BY <2>1, FS_Interval, Zenon
<1>6. Cardinality(F!Page(p)) = Cardinality(span)
  <2>. DEFINE f == [i \in span |-> rows - i]
  <2>1. f \in Bijection(span, F!Page(p))
    <3>1. \A i, j \in span : rows - i = rows - j => i = j
      BY <1>1, <1>2
    <3>2. f \in Surjection(span, F!Page(p))
      BY <1>3, Fun_IsSurj
    <3>3. f \in Injection(span, F!Page(p))
      BY <1>3, <3>1, Fun_IsInj
    <3>. QED  BY <3>2, <3>3, Fun_IsBij
  <2>. QED  BY <1>5, <2>1, FS_Bijection DEF ExistsBijection
<1>7. Cardinality(span) \in 0..PageSize /\ (Cardinality(span) < PageSize => Reach(p + 1) >= rows)
  BY <1>1, <1>2, <1>5
<1>. QED  BY <1>4, <1>6, <1>7

(***************************************************************************)
(* Steps.                                                                  *)
(***************************************************************************)
\* The list grows, and the other runs stay as they are.
LEMMA RunStays ==
    ASSUME rows \in Nat, rows' \in Nat, rows' >= rows, NEW r, RunInv(r)
    PROVE  RunInv(r)'
<1>1. CASE r = F!Idle
  BY <1>1 DEF RunInv, F!Idle
<1>2. CASE IsRun(r)
  <2>1. ASSUME FetchedInv(r) PROVE FetchedInv(r)'
    <3>1. Reach(r.page) \in Nat
      BY <2>1, ReachGrows DEF FetchedInv
    <3>. QED  BY <2>1, <3>1 DEF FetchedInv, Reach
  <2>. QED  BY <1>2, <2>1 DEF RunInv, IsRun, F!Idle
<1>. QED  BY <1>1, <1>2 DEF RunInv

\* A step of one run that leaves the list alone.
LEMMA OneRuns ==
    ASSUME PagesInv, NEW s \in F!Session, NEW r, rows' = rows,
           run' = [run EXCEPT ![s] = r], RunInv(r)
    PROVE  PagesInv'
<1>1. rows' \in Nat /\ rows' >= rows /\ rows \in Nat
  BY DEF PagesInv
<1>2. run' = [t \in F!Session |-> IF t = s THEN r ELSE run[t]]
  BY DEF PagesInv
<1>3. ASSUME NEW t \in F!Session PROVE RunInv(run[t])'
  <2>1. run'[t] = (IF t = s THEN r ELSE run[t])
    BY <1>2
  <2>2. RunInv(run'[t])
    BY <2>1 DEF PagesInv
  <2>. QED  BY <2>2 DEF RunInv, FetchedInv, IsRun, Reach, F!Idle
<1>. QED  BY <1>1, <1>2, <1>3 DEF PagesInv

LEMMA FetchingIsRun ==
    ASSUME rows \in Nat, NEW r, IsRun(r), NEW t
    PROVE  RunInv(F!Fetching(r, t)) /\ IsRun(F!Fetching(r, t)) /\ F!Fetching(r, t).pc = "fetch"
<1>1. PICK f : f = F!Fetching(r, t)
  OBVIOUS
<1>2. IsRun(f) /\ f.pc = "fetch" /\ f.page = 0 /\ f.rows = 0 /\ f.start = rows
  BY <1>1 DEF F!Fetching, IsRun
<1>3. FetchedInv(f)
  BY <1>2, ReachGrows DEF FetchedInv
<1>. QED  BY <1>1, <1>2, <1>3 DEF RunInv

\* A run with another step ahead of it than fetching or writing.
LEMMA LookingIsRun ==
    ASSUME NEW r, IsRun(r), r.pc \notin {"fetch", "write"}
    PROVE  RunInv(r)
BY DEF RunInv

LEMMA InIsRun ==
    ASSUME PagesInv, NEW s \in F!Session, F!In(s)
    PROVE  IsRun(run[s]) /\ RunInv(run[s]) /\ rows \in Nat
BY DEF PagesInv, RunInv, F!In, F!Idle

LEMMA DecidedKeeps ==
    ASSUME PagesInv, NEW s \in F!Session, NEW r, IsRun(r), NEW t, F!Decided(s, r, t), rows' = rows
    PROVE  PagesInv'
<1>1. CASE run' = [run EXCEPT ![s] = F!Fetching(r, t)]
  BY <1>1, FetchingIsRun, OneRuns DEF PagesInv
<1>2. ASSUME NEW pc \in {"login", "lock"}, run' = [run EXCEPT ![s] = [r EXCEPT !.pc = pc]]
      PROVE  PagesInv'
  <2>1. IsRun([r EXCEPT !.pc = pc]) /\ [r EXCEPT !.pc = pc].pc = pc
    BY DEF IsRun
  <2>. QED  BY <1>2, <2>1, LookingIsRun, OneRuns
<1>. QED  BY <1>1, <1>2 DEF F!Decided

LEMMA TokenKeeps ==
    ASSUME PagesInv, NEW s \in F!Session,
           F!ReadCache(s) \/ F!Fill(s) \/ F!Acquire(s) \/ F!Login(s) \/ F!Refused(s)
    PROVE  PagesInv'
<1>1. F!In(s)
  BY DEF F!ReadCache, F!Fill, F!Acquire, F!Login, F!Refused, F!At, F!In
<1>2. IsRun(run[s])
  BY <1>1, InIsRun
<1>3. ASSUME NEW pc \in {"fill", "token"}, run' = [run EXCEPT ![s].pc = pc], rows' = rows
      PROVE  PagesInv'
  <2>1. IsRun([run[s] EXCEPT !.pc = pc]) /\ [run[s] EXCEPT !.pc = pc].pc = pc
    BY <1>2 DEF IsRun
  <2>. QED  BY <1>3, <2>1, LookingIsRun, OneRuns
<1>4. CASE F!ReadCache(s)
  BY <1>2, <1>3, <1>4, DecidedKeeps DEF F!ReadCache
<1>5. CASE F!Fill(s)
  <2>1. PICK seen : \E t : F!Decided(s, [run[s] EXCEPT !.seen = seen], t)
    BY <1>5 DEF F!Fill
  <2>2. IsRun([run[s] EXCEPT !.seen = seen])
    BY <1>2 DEF IsRun
  <2>. QED  BY <1>5, <2>1, <2>2, DecidedKeeps DEF F!Fill
<1>6. CASE F!Acquire(s)
  BY <1>3, <1>6 DEF F!Acquire
<1>7. CASE F!Login(s)
  <2>1. PICK t : run' = [run EXCEPT ![s].pc = "store", ![s].tok = t]
    BY <1>7 DEF F!Login
  <2>. PICK r : r = [run[s] EXCEPT !.pc = "store", !.tok = t]
    OBVIOUS
  <2>2. IsRun(r) /\ r.pc = "store"
    BY <1>2 DEF IsRun
  <2>3. run' = [run EXCEPT ![s] = r] /\ rows' = rows
    BY <1>7, <2>1 DEF PagesInv, F!Login
  <2>. QED  BY <2>2, <2>3, LookingIsRun, OneRuns
<1>8. CASE F!Refused(s)
  <2>. PICK r : r = [run[s] EXCEPT !.pc = "lock", !.again = TRUE]
    OBVIOUS
  <2>2. IsRun(r) /\ r.pc = "lock"
    BY <1>2 DEF IsRun
  <2>3. run' = [run EXCEPT ![s] = r] /\ rows' = rows
    BY <1>8 DEF PagesInv, F!Refused
  <2>. QED  BY <2>2, <2>3, LookingIsRun, OneRuns
<1>. QED  BY <1>4, <1>5, <1>6, <1>7, <1>8

LEMMA StoreKeeps ==
    ASSUME PagesInv, NEW s \in F!Session, F!Store(s)
    PROVE  PagesInv'
<1>1. IsRun(run[s]) /\ rows \in Nat
  BY InIsRun DEF F!Store, F!At, F!In
<1>. PICK f : f = F!Fetching(run[s], run[s].tok)
  OBVIOUS
<1>. PICK r : r = [f EXCEPT !.own = run[s].tok]
  OBVIOUS
<1>2. RunInv(f) /\ IsRun(f) /\ f.pc = "fetch"
  BY <1>1, FetchingIsRun
<1>3. run' = [run EXCEPT ![s] = r] /\ rows' = rows
  BY DEF F!Store, PagesInv
<1>4. FetchedInv(f)
  BY <1>2 DEF RunInv, F!Idle
<1>5. IsRun(r) /\ r.pc = "fetch" /\ r.page = f.page /\ r.rows = f.rows /\ r.got = f.got /\ r.start = f.start
  BY <1>2 DEF IsRun
<1>6. RunInv(r)
  BY <1>4, <1>5 DEF RunInv, FetchedInv
<1>. QED  BY <1>3, <1>6, OneRuns

LEMMA SameCount == \A S : F!Cardinality(S) = Cardinality(S)
BY Zenon DEF F!Cardinality, Cardinality

LEMMA FetchKeeps ==
    ASSUME PagesInv, NEW s \in F!Session, F!Fetch(s)
    PROVE  PagesInv'
<1>1. IsRun(run[s]) /\ rows \in Nat /\ RunInv(run[s]) /\ run[s].pc = "fetch" /\ run[s] # F!Idle
  BY InIsRun DEF F!Fetch, F!At, F!In, F!Idle
<1>. DEFINE r == run[s]
            content == F!Page(r.page)
<1>. PICK got : got = r.got \cup content
  OBVIOUS
<1>. PICK count : count = r.rows + Cardinality(content)
  OBVIOUS
<1>. PICK more : more = [r EXCEPT !.page = @ + 1, !.rows = count, !.got = got]
  OBVIOUS
<1>. PICK done : done = [more EXCEPT !.pc = "write", !.tok = F!NoToken, !.seen = F!NoToken,
                                     !.again = FALSE, !.page = 0, !.rows = 0]
  OBVIOUS
<1>2. FetchedInv(r)
  BY <1>1 DEF RunInv
<1>3. run' = [run EXCEPT ![s] = IF F!Last(s, content, count) THEN done ELSE more] /\ rows' = rows
  BY SameCount, Zenon DEF F!Fetch
<1>4. /\ IsRun(more) /\ more.pc = "fetch" /\ more.page = r.page + 1 /\ more.rows = count
      /\ more.got = got /\ more.start = r.start
  BY <1>1 DEF IsRun
<1>5. IsRun(done) /\ done.pc = "write" /\ done.got = got /\ done.start = r.start
  BY <1>4 DEF IsRun
<1>6. /\ r.page \in Nat /\ r.rows \in Nat /\ r.start \in 0..rows /\ r.rows <= Reach(r.page)
      /\ \A x \in 1..r.start : x + Reach(r.page) > rows => x \in r.got
  BY <1>2 DEF FetchedInv
<1>7. /\ Reach(r.page) \in Nat /\ Reach(r.page + 1) \in Nat /\ Reach(r.page + 1) = Reach(r.page) + PageSize
      /\ \A x \in 1..rows : x + Reach(r.page) <= rows /\ x + Reach(r.page + 1) > rows => x \in content
      /\ Cardinality(content) \in 0..PageSize
      /\ Cardinality(content) < PageSize => Reach(r.page + 1) >= rows
  BY <1>1, <1>6, ReachGrows, PageHolds
<1>8. PageSize \in Nat
  BY FetchAssumption DEF F!SizeAssumption
<1>. HIDE DEF r, content
<1>9. count \in Nat /\ count <= Reach(r.page + 1)
  BY <1>6, <1>7, <1>8
<1>10. \A x \in 1..r.start : x + Reach(r.page + 1) > rows => x \in got
  <2>. SUFFICES ASSUME NEW x \in 1..r.start, x + Reach(r.page + 1) > rows PROVE x \in got
    OBVIOUS
  <2>1. x \in 1..rows /\ x \in Nat
    BY <1>1, <1>6
  <2>. QED  BY <1>1, <1>6, <1>7, <2>1
<1>11. CASE F!Last(s, content, count)
  <2>1. Reach(r.page + 1) >= rows
    <3>1. CASE Cardinality(content) < PageSize
      BY <1>7, <3>1
    <3>2. CASE count >= rows
      BY <1>1, <1>7, <1>9, <3>2, SMT
    <3>. QED  BY <1>11, <3>1, <3>2, SameCount DEF F!Last
  <2>2. 1..r.start \subseteq got
    BY <1>1, <1>6, <1>7, <1>10, <2>1
  <2>3. RunInv(done)
    BY <1>5, <2>2 DEF RunInv
  <2>. QED  BY <1>3, <1>11, <2>3, OneRuns
<1>12. CASE ~F!Last(s, content, count)
  <2>1. FetchedInv(more)
    BY <1>4, <1>6, <1>9, <1>10 DEF FetchedInv
  <2>2. RunInv(more)
    BY <1>4, <2>1 DEF RunInv
  <2>. QED  BY <1>3, <1>12, <2>2, OneRuns
<1>. QED  BY <1>11, <1>12

LEMMA EndKeeps ==
    ASSUME PagesInv, NEW s \in F!Session, F!Begin(s) \/ F!Done(s) \/ F!GiveUp(s) \/ F!Abort(s)
    PROVE  PagesInv'
<1>1. CASE F!Begin(s)
  <2>1. PICK seen : run' = [run EXCEPT ![s] =
            [pc |-> "token", tok |-> F!NoToken, seen |-> seen, own |-> F!NoToken, again |-> FALSE,
             page |-> 0, rows |-> 0, got |-> {}, start |-> 0]]
    BY <1>1 DEF F!Begin
  <2>. QED  BY <1>1, <2>1, LookingIsRun, OneRuns DEF F!Begin, IsRun
<1>2. CASE run' = [run EXCEPT ![s] = F!Idle] /\ rows' = rows
  BY <1>2, OneRuns DEF RunInv
<1>. QED  BY <1>1, <1>2 DEF F!Done, F!GiveUp, F!Abort

LEMMA ListKeeps ==
    ASSUME PagesInv, rows' \in Nat, rows' >= rows, UNCHANGED run
    PROVE  PagesInv'
BY RunStays DEF PagesInv

LEMMA PagesKeep == PagesInv /\ [MCNext]_<<part, vars, fetchVars>> => PagesInv'
<1>. SUFFICES ASSUME PagesInv, [MCNext]_<<part, vars, fetchVars>> PROVE PagesInv'
  OBVIOUS
<1>1. CASE UNCHANGED fetchVars
  BY <1>1, ListKeeps DEF PagesInv, fetchVars
<1>2. CASE F!Next
  <2>1. CASE F!List \/ (\E t \in Token : F!Expire(t)) \/ F!Evict
    BY <2>1, ListKeeps DEF PagesInv, F!List, F!Expire, F!Evict
  <2>2. ASSUME NEW s \in F!Session, F!Begin(s) \/ F!Work(s) \/ F!GiveUp(s) \/ F!Abort(s) PROVE PagesInv'
    BY <2>2, TokenKeeps, StoreKeeps, FetchKeeps, EndKeeps DEF F!Work
  <2>. QED  BY <1>2, <2>1, <2>2 DEF F!Next
<1>. QED  BY <1>1, <1>2 DEF MCNext

\* A run that has fetched LATRA's list to its end has every row that was listed
\* when it began, although the list grew between its pages
\* (_fetch_all_offences, _fetch_all_licenses), for any length of the list, page
\* size, tokens and number of runs.
THEOREM FetchedIsWhole == MCSpec => []PagesCoverStart
<1>1. MCInit => PagesInv
  BY DEF MCInit, F!Init, PagesInv, RunInv
<1>2. PagesInv => PagesCoverStart
  BY DEF PagesInv, RunInv, PagesCoverStart, F!PagesCoverStart, F!At, F!Idle
<1>3. MCSpec => MCInit /\ [][MCNext]_<<part, vars, fetchVars>>
  BY PTL DEF MCSpec
<1>. QED  BY <1>1, <1>2, <1>3, PagesKeep, PTL
=============================================================================
