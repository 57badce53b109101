-------------------------- MODULE VfdPostingProofs --------------------------
(***************************************************************************)
(* Theorems about VfdPosting, for any set of invoices, web sessions and    *)
(* terms and any bounds.                                                   *)
(***************************************************************************)
EXTENDS VfdPosting, TLAPS

(***************************************************************************)
(* Steps of a call change req at one session only, to one of these.        *)
(***************************************************************************)
\* A session whose pc is not "idle" is in a call with all its fields.
LEMMA InCallIsBusy ==
    ASSUME TypeOK, NEW s \in Session, req[s].pc # "idle"
    PROVE  req[s] \in Busy
<1>1. req[s] \in Busy \cup {Idle}
  BY DEF TypeOK
<1>2. req[s] # Idle
  BY DEF Idle
<1>. QED  BY <1>1, <1>2

\* A call that begins is well-formed.
LEMMA CallIsBusy ==
    ASSUME NEW i \in Invoice, NEW m \in {"on_submit", "POST"}
    PROVE  Call(i, m) \in Busy
BY AttemptsAssumption DEF Call, Busy

\* Hearing an answer keeps the requests well-formed.
LEMMA HearType ==
    ASSUME TypeOK, NEW s \in Session, req[s].pc = "send", NEW n \in Nat, Hear(s, n)
    PROVE  /\ req' \in [Session -> Busy \cup {Idle}]
           /\ req' = [req EXCEPT ![s] = [req[s] EXCEPT !.pc = "answered", !.ans = n]]
<1>1. req[s] \in Busy
  BY InCallIsBusy
<1>2. [req[s] EXCEPT !.pc = "answered", !.ans = n] \in Busy
  BY <1>1 DEF Busy
<1>3. req' = [req EXCEPT ![s] = [req[s] EXCEPT !.pc = "answered", !.ans = n]]
  BY DEF Hear, TypeOK
<1>. QED  BY <1>2, <1>3 DEF TypeOK

\* A session that raises is idle again.
LEMMA RaiseType ==
    ASSUME TypeOK, NEW s \in Session, Raise(s)
    PROVE  req' \in [Session -> Busy \cup {Idle}]
BY DEF Raise, TypeOK

\* A faulty request ends as a refusal to record, as an exception or as another
\* request, and leaves the requests well-formed.
LEMMA MissCases ==
    ASSUME TypeOK, NEW s \in Session, req[s].pc = "send", NEW f, Miss(s, f)
    PROVE  /\ req' \in [Session -> Busy \cup {Idle}]
           /\ \/ Verdict(terms[req[s].inv].kind, f) = "record" /\ Hear(s, 0)
              \/ Raise(s)
              \/ req' = [req EXCEPT ![s] = [req[s] EXCEPT !.tries = req[s].tries + 1]]
<1>. DEFINE v == Verdict(terms[req[s].inv].kind, f)
<1>1. req[s] \in Busy
  BY InCallIsBusy
<1>2. CASE v = "record" /\ Hear(s, 0)
  BY <1>2, HearType
<1>3. CASE v = "raise" /\ Raise(s)
  BY <1>3, RaiseType
<1>4. CASE /\ v = "retry" /\ req[s].tries + 1 < Attempts
           /\ req' = [req EXCEPT ![s].tries = @ + 1]
  <2>1. [req[s] EXCEPT !.tries = req[s].tries + 1] \in Busy
    BY <1>1, <1>4, AttemptsAssumption DEF Busy
  <2>2. req' = [req EXCEPT ![s] = [req[s] EXCEPT !.tries = req[s].tries + 1]]
    BY <1>4 DEF TypeOK
  <2>. QED  BY <2>1, <2>2 DEF TypeOK
<1>5. CASE v = "retry" /\ req[s].tries + 1 = Attempts /\ Raise(s)
  BY <1>5, RaiseType
<1>. QED  BY <1>2, <1>3, <1>4, <1>5 DEF Miss

\* A cancellation is under way for an invoice, with the row it read.
LEMMA HeldFields ==
    ASSUME TypeOK, NEW w \in Web, held[w].pc # "idle"
    PROVE  held[w].inv \in Invoice /\ held[w].row \in Row
<1>1. held[w] \in Cancellation \cup {Idle}
  BY DEF TypeOK
<1>2. held[w] # Idle
  BY DEF Idle
<1>. QED  BY <1>1, <1>2 DEF Cancellation

\* The three steps of a cancellation change held at one session only.
HeldStep(w) ==
    /\ w \in Web
    /\ \/ \E i \in Invoice : BeginCancel(w, i)
       \/ FinishCancel(w)
       \/ AbandonCancel(w)

\* They leave held well-typed and everything but db alone.
LEMMA HeldStepType ==
    ASSUME TypeOK, NEW w \in Web, HeldStep(w)
    PROVE  /\ held' \in [Web -> Cancellation \cup {Idle}]
           /\ \A v \in Web : v # w => held'[v] = held[v]
           /\ UNCHANGED <<terms, receipts, req, dialog, run, crashes>>
<1>1. CASE \E i \in Invoice : BeginCancel(w, i)
  <2>1. PICK i \in Invoice : BeginCancel(w, i)
    BY <1>1
  <2>2. [pc |-> "cancel", inv |-> i, row |-> db[i]] \in Cancellation
    BY DEF TypeOK, Cancellation
  <2>. QED  BY <2>1, <2>2 DEF BeginCancel, TypeOK
<1>2. CASE FinishCancel(w) \/ AbandonCancel(w)
  BY <1>2 DEF FinishCancel, AbandonCancel, TypeOK
<1>. QED  BY <1>1, <1>2 DEF HeldStep

\* The end of a cancellation writes the row that was read, cancelled.
LEMMA FinishCancelWrites ==
    ASSUME TypeOK, NEW w \in Web, FinishCancel(w)
    PROVE  LET i == held[w].inv IN
           /\ held[w].pc # "idle" /\ i \in Invoice /\ held[w].row \in Row
           /\ db'[i] = [held[w].row EXCEPT !.doc = 2] /\ db' \in [Invoice -> Row]
           /\ \A j \in Invoice : j # i => db'[j] = db[j]
           /\ held'[w] = Idle
<1>. DEFINE i == held[w].inv
<1>1. held[w].pc # "idle"
  BY DEF FinishCancel, TypeOK, Cancellation
<1>2. i \in Invoice /\ held[w].row \in Row
  BY <1>1, HeldFields
<1>3. [held[w].row EXCEPT !.doc = 2] \in Row
  BY <1>2 DEF Row
<1>4. db' = [db EXCEPT ![i] = [held[w].row EXCEPT !.doc = 2]] /\ held' = [held EXCEPT ![w] = Idle]
  BY DEF FinishCancel
<1>. QED  BY <1>1, <1>2, <1>3, <1>4 DEF TypeOK

\* What a provider's post_fiscal_receipt writes is a row.
LEMMA WrittenType ==
    ASSUME NEW k, NEW row \in Row, NEW n \in Nat, NEW m
    PROVE  Written(k, row, n, m) \in Row
BY DEF Written, VfdplusWrite, TotalWrite, SimplifyWrite, DirmWrite, PergamonWrite,
       StatusOf, Outcome, Row, Status

\* The invoice of a call, and the answer it has heard.
LEMMA CallFields ==
    ASSUME TypeOK, NEW s \in Session, req[s].pc # "idle"
    PROVE  /\ req[s].inv \in Invoice /\ req[s].ans \in Nat
           /\ terms[req[s].inv] \in TermsType /\ db[req[s].inv] \in Row
           /\ receipts[req[s].inv] \in 0..MaxReceipts
<1>1. req[s].inv \in Invoice /\ req[s].ans \in Nat
  BY InCallIsBusy DEF Busy
<1>. QED  BY <1>1, TermsAssumption DEF TypeOK

(***************************************************************************)
(* What one request may do: the receipts grow by one and the answer is the *)
(* new number, or they stay and the answer is a receipt already issued, or *)
(* nothing is heard.                                                       *)
(***************************************************************************)
ReqStep(s) ==
    \/ \E n \in Nat : /\ n <= receipts'[req[s].inv]
                      /\ n = 0 => terms[req[s].inv].kind \notin {"vfdplus", "total"}
                      /\ Hear(s, n)
    \/ Raise(s)
    \/ req' = [req EXCEPT ![s] = [req[s] EXCEPT !.tries = req[s].tries + 1]]

\* A faulty request of VFDPlus or Total VFD is never recorded as an answer.
LEMMA MissIsReqStep ==
    ASSUME TypeOK, NEW s \in Session, req[s].pc = "send", NEW f, Miss(s, f),
           receipts'[req[s].inv] \in Nat
    PROVE  req' \in [Session -> Busy \cup {Idle}] /\ ReqStep(s)
<1>. DEFINE k == terms[req[s].inv].kind
<1>1. ASSUME Verdict(k, f) = "record" PROVE k \notin {"vfdplus", "total"}
  BY <1>1 DEF Verdict, VfdplusVerdict, TotalVerdict
<1>2. CASE Verdict(k, f) = "record" /\ Hear(s, 0)
  <2>1. 0 \in Nat /\ 0 <= receipts'[req[s].inv]
    OBVIOUS
  <2>. QED  BY <1>1, <1>2, <2>1, MissCases DEF ReqStep
<1>. QED  BY <1>2, MissCases DEF ReqStep

\* The three actions of a request are such steps.
LEMMA ProviderStep ==
    ASSUME TypeOK, NEW s \in Session,
           Accept(s) \/ ReturnOriginal(s) \/ Decline(s)
    PROVE  /\ req[s].pc = "send"
           /\ req' \in [Session -> Busy \cup {Idle}] /\ ReqStep(s)
           /\ receipts' \in [Invoice -> 0..MaxReceipts]
           /\ \A i \in Invoice : receipts[i] <= receipts'[i]
           /\ \A i \in Invoice : receipts'[i] # receipts[i] =>
                  i = req[s].inv /\ receipts'[i] = receipts[i] + 1
           /\ UNCHANGED <<terms, db, dialog, run, crashes, held>>
<1>. DEFINE i == req[s].inv
<1>1. req[s].pc = "send"
  BY DEF Accept, ReturnOriginal, Decline
<1>2. i \in Invoice /\ receipts[i] \in 0..MaxReceipts
  BY <1>1, CallFields
<1>3. MaxReceipts \in Nat
  BY BoundAssumption
<1>4. CASE Accept(s)
  <2>0. UNCHANGED <<terms, db, dialog, run, crashes, held>>
    BY <1>4 DEF Accept
  <2>1. receipts' = [receipts EXCEPT ![i] = receipts[i] + 1] /\ receipts[i] < MaxReceipts
    BY <1>4 DEF Accept
  <2>2. receipts' \in [Invoice -> 0..MaxReceipts] /\ receipts'[i] = receipts[i] + 1
    BY <1>2, <1>3, <2>1 DEF TypeOK
  <2>3. \A j \in Invoice : receipts[j] \in Nat
    BY <1>3 DEF TypeOK
  <2>4. /\ \A j \in Invoice : receipts[j] <= receipts'[j]
        /\ \A j \in Invoice : receipts'[j] # receipts[j] =>
               j = i /\ receipts'[j] = receipts[j] + 1
    BY <2>1, <2>2, <2>3 DEF TypeOK
  <2>5. CASE Hear(s, receipts[i] + 1)
    <3>1. receipts[i] + 1 \in Nat /\ receipts[i] + 1 <= receipts'[i] /\ receipts[i] + 1 # 0
      BY <1>2, <1>3, <2>2
    <3>2. req' \in [Session -> Busy \cup {Idle}]
      BY <1>1, <2>5, <3>1, HearType
    <3>3. ReqStep(s)
      BY <2>5, <3>1 DEF ReqStep
    <3>. QED  BY <1>1, <2>0, <2>2, <2>4, <3>2, <3>3
  <2>6. CASE \E f \in {"transport", "httpError"} : Miss(s, f)
    <3>1. receipts'[i] \in Nat
      BY <1>2, <2>2, <1>3
    <3>2. req' \in [Session -> Busy \cup {Idle}] /\ ReqStep(s)
      BY <1>1, <2>6, <3>1, MissIsReqStep
    <3>. QED  BY <1>1, <2>0, <2>2, <2>4, <3>2
  <2>. QED  BY <1>4, <2>5, <2>6 DEF Accept
<1>5. CASE ReturnOriginal(s)
  <2>1. receipts' = receipts /\ receipts[i] > 0 /\ Hear(s, 1)
    BY <1>5 DEF ReturnOriginal
  <2>2. 1 \in Nat /\ 1 <= receipts'[i] /\ 1 # 0
    BY <1>2, <1>3, <2>1
  <2>3. req' \in [Session -> Busy \cup {Idle}]
    BY <1>1, <2>1, HearType
  <2>4. ReqStep(s)
    BY <2>1, <2>2 DEF ReqStep
  <2>5. \A j \in Invoice : receipts[j] <= receipts'[j]
    BY <2>1, <1>3 DEF TypeOK
  <2>. QED  BY <1>1, <1>5, <2>1, <2>3, <2>4, <2>5 DEF ReturnOriginal, TypeOK
<1>6. CASE Decline(s)
  <2>1. receipts' = receipts /\ \E f : Miss(s, f)
    BY <1>6 DEF Decline
  <2>2. receipts'[i] \in Nat
    BY <1>2, <1>3, <2>1
  <2>3. req' \in [Session -> Busy \cup {Idle}] /\ ReqStep(s)
    BY <1>1, <2>1, <2>2, MissIsReqStep
  <2>4. \A j \in Invoice : receipts[j] <= receipts'[j]
    BY <2>1, <1>3 DEF TypeOK
  <2>. QED  BY <1>1, <1>6, <2>1, <2>3, <2>4 DEF Decline, TypeOK
<1>. QED  BY <1>4, <1>5, <1>6

(***************************************************************************)
(* Type correctness.                                                       *)
(***************************************************************************)
\* Between two runs of the cron job nothing is selected.
LEMMA NoRunType == NoRun \in Run
BY DEF NoRun, Run

\* The initial states are well-typed.
LEMMA InitType == Init => TypeOK
<1>1. Draft \in Row
  BY DEF Draft, Row, Status
<1>2. 0 \in 0..MaxReceipts /\ 0 \in 0..MaxCrashes
  BY BoundAssumption
<1>. QED  BY <1>1, <1>2, NoRunType DEF Init, TypeOK

\* Every step keeps every variable in its type.
LEMMA TypeStep ==
    ASSUME TypeOK, [Next]_vars
    PROVE  TypeOK'
<1>1. ASSUME NEW i \in Invoice, Submit(i) PROVE TypeOK'
  <2>1. [db[i] EXCEPT !.doc = 1] \in Row
    BY DEF TypeOK, Row
  <2>2. db' = [db EXCEPT ![i] = [db[i] EXCEPT !.doc = 1]]
    BY <1>1 DEF Submit, TypeOK
  <2>. QED  BY <1>1, <2>1, <2>2 DEF Submit, TypeOK
<1>2. ASSUME NEW i \in Invoice, Preview(i) PROVE TypeOK'
  BY <1>2 DEF Preview, TypeOK
<1>3. ASSUME NEW i \in Invoice, CloseDialog(i) PROVE TypeOK'
  BY <1>3 DEF CloseDialog, TypeOK
<1>4. ASSUME NEW i \in Invoice, Cancel(i) PROVE TypeOK'
  <2>1. [db[i] EXCEPT !.doc = 2] \in Row
    BY DEF TypeOK, Row
  <2>2. db' = [db EXCEPT ![i] = [db[i] EXCEPT !.doc = 2]]
    BY <1>4 DEF Cancel, TypeOK
  <2>. QED  BY <1>4, <2>1, <2>2 DEF Cancel, TypeOK
<1>5. ASSUME NEW i \in Invoice, PostInvoice(i) PROVE TypeOK'
  <2>1. req' \in [Session -> Busy \cup {Idle}]
    BY <1>5, CallIsBusy DEF PostInvoice, TypeOK
  <2>2. run' \in Run
    BY <1>5 DEF PostInvoice, TypeOK, Run
  <2>. QED  BY <1>5, <2>1, <2>2 DEF PostInvoice, TypeOK
<1>6. ASSUME NEW w \in Web, NEW i \in Invoice, SubmitAndPost(w, i) PROVE TypeOK'
  BY <1>6, CallIsBusy DEF SubmitAndPost, TypeOK
<1>7. ASSUME NEW w \in Web, NEW i \in Invoice, Generate(w, i) PROVE TypeOK'
  BY <1>7, CallIsBusy DEF Generate, TypeOK
<1>8. ASSUME NEW w \in Web, NEW i \in Invoice, ConfirmPreview(w, i) PROVE TypeOK'
  BY <1>8, CallIsBusy DEF ConfirmPreview, TypeOK
<1>9. ASSUME NEW s \in Session, Accept(s) \/ ReturnOriginal(s) \/ Decline(s) PROVE TypeOK'
  BY <1>9, ProviderStep DEF TypeOK
<1>10. ASSUME NEW s \in Session, Finish(s) PROVE TypeOK'
  <2>. DEFINE i == req[s].inv
              row == IF req[s].method = "on_submit" /\ ~terms[i].split
                     THEN [db[i] EXCEPT !.doc = 1] ELSE db[i]
  <2>1. i \in Invoice /\ req[s].ans \in Nat /\ db[i] \in Row
    BY <1>10, CallFields DEF Finish
  <2>2. row \in Row
    BY <2>1 DEF Row
  <2>3. Written(terms[i].kind, row, req[s].ans, req[s].method) \in Row
    BY <2>1, <2>2, WrittenType
  <2>4. db' \in [Invoice -> Row]
    BY <1>10, <2>3 DEF Finish, TypeOK
  <2>. QED  BY <1>10, <2>4, RaiseType DEF Finish, TypeOK
<1>11. ASSUME NEW s \in Session, Rollback(s) PROVE TypeOK'
  BY <1>11, RaiseType DEF Rollback, TypeOK
<1>12. ASSUME NEW k \in Kind, SelectCompany(k) PROVE TypeOK'
  <2>1. run' \in Run
    BY <1>12 DEF SelectCompany, Selected, TypeOK, Run
  <2>. QED  BY <1>12, <2>1 DEF SelectCompany, TypeOK
<1>13. CASE StartRun
  <2>1. \A i \in Invoice : terms[i].kind \in Kind
    BY TermsAssumption DEF TypeOK, TermsType
  <2>. QED  BY <1>13, <2>1 DEF StartRun, TypeOK, Run
<1>14. CASE EndRun
  BY <1>14, NoRunType DEF EndRun, TypeOK
<1>15. CASE CrashRun
  <2>1. crashes' \in 0..MaxCrashes
    BY <1>15, BoundAssumption DEF CrashRun, TypeOK
  <2>2. req' \in [Session -> Busy \cup {Idle}]
    BY <1>15 DEF CrashRun, TypeOK
  <2>. QED  BY <1>15, <2>1, <2>2, NoRunType DEF CrashRun, TypeOK
<1>16. ASSUME NEW w \in Web, NEW i \in Invoice, CommitThenPost(w, i) PROVE TypeOK'
  <2>1. [db[i] EXCEPT !.doc = 1] \in Row
    BY DEF TypeOK, Row
  <2>2. db' = [db EXCEPT ![i] = [db[i] EXCEPT !.doc = 1]]
    BY <1>16 DEF CommitThenPost, TypeOK
  <2>3. req' \in [Session -> Busy \cup {Idle}]
    BY <1>16, CallIsBusy DEF CommitThenPost, TypeOK
  <2>. QED  BY <1>16, <2>1, <2>2, <2>3 DEF CommitThenPost, TypeOK
<1>17. ASSUME NEW w \in Web, HeldStep(w) PROVE TypeOK'
  <2>1. db' \in [Invoice -> Row]
    BY <1>17, FinishCancelWrites DEF HeldStep, BeginCancel, AbandonCancel, TypeOK
  <2>. QED  BY <1>17, <2>1, HeldStepType DEF TypeOK
<1>18. CASE UNCHANGED vars
  BY <1>18 DEF vars, TypeOK
<1>. QED  BY <1>1, <1>2, <1>3, <1>4, <1>5, <1>6, <1>7, <1>8, <1>9, <1>10, <1>11, <1>12,
             <1>13, <1>14, <1>15, <1>16, <1>17, <1>18 DEF Next, HeldStep

\* Rows, calls, the run and the counters keep their types in every execution:
\* in particular no call makes more than Attempts requests.
THEOREM TypeCorrect == Spec => []TypeOK
<1>1. Init => TypeOK
  BY InitType
<1>2. TypeOK /\ [Next]_vars => TypeOK'
  BY TypeStep
<1>. QED  BY <1>1, <1>2, PTL DEF Spec

(***************************************************************************)
(* Success is fiscalised.  A row is written from an answer, so the         *)
(* inductive invariant also says what an answer waiting to be written is   *)
(* worth: a receipt TRA holds, or a refusal of a provider that records it. *)
(***************************************************************************)
FiscalRow(i) ==
    /\ db[i].rct <= receipts[i]
    /\ i \in Honest /\ db[i].status = "Success" => db[i].rct > 0 /\ db[i].info = "accepted"

FiscalAnswer(s) ==
    req[s].pc = "answered" =>
        /\ req[s].ans <= receipts[req[s].inv]
        /\ req[s].ans = 0 => terms[req[s].inv].kind \notin {"vfdplus", "total"}

\* A cancellation holds a row without a receipt number.
FiscalHeld(w) ==
    held[w].pc # "idle" =>
        /\ held[w].row.rct = 0
        /\ held[w].inv \in Honest => held[w].row.status # "Success"

FiscalInv ==
    /\ TypeOK
    /\ \A i \in Invoice : FiscalRow(i)
    /\ \A s \in Session : FiscalAnswer(s)
    /\ \A w \in Web : FiscalHeld(w)

\* The receipts and the numbers in the rows are natural numbers.
LEMMA Numbers ==
    ASSUME TypeOK, NEW i \in Invoice
    PROVE  receipts[i] \in Nat /\ db[i].rct \in Nat
BY BoundAssumption DEF TypeOK, Row

\* A step that leaves receipts, answers, receipt numbers and statuses alone,
\* and at most ends or begins calls, keeps the invariant.
LEMMA QuietStep ==
    ASSUME FiscalInv, TypeOK', UNCHANGED <<terms, receipts, held>>,
           \A i \in Invoice : db'[i].rct = db[i].rct /\ db'[i].status = db[i].status
                              /\ db'[i].info = db[i].info,
           \A s \in Session : req'[s] = req[s] \/ req'[s].pc # "answered"
    PROVE  FiscalInv'
<1>1. ASSUME NEW i \in Invoice PROVE FiscalRow(i)'
  BY <1>1 DEF FiscalInv, FiscalRow, Honest
<1>2. ASSUME NEW s \in Session PROVE FiscalAnswer(s)'
  BY <1>2 DEF FiscalInv, FiscalAnswer
<1>3. ASSUME NEW w \in Web PROVE FiscalHeld(w)'
  BY <1>3 DEF FiscalInv, FiscalHeld, Honest
<1>. QED  BY <1>1, <1>2, <1>3 DEF FiscalInv

\* A request, whatever becomes of it, keeps the invariant.
LEMMA RequestKeepsFiscal ==
    ASSUME FiscalInv, TypeOK', NEW s \in Session, Accept(s) \/ ReturnOriginal(s) \/ Decline(s)
    PROVE  FiscalInv'
<1>0. /\ TypeOK /\ req[s].pc = "send" /\ ReqStep(s) /\ UNCHANGED <<terms, db, held>>
      /\ \A i \in Invoice : receipts[i] <= receipts'[i]
      /\ req[s].inv \in Invoice
  BY ProviderStep, CallFields DEF FiscalInv
<1>1. ASSUME NEW i \in Invoice PROVE FiscalRow(i)'
  <2>1. receipts[i] \in Nat /\ receipts'[i] \in Nat /\ db[i].rct \in Nat
    BY <1>0, Numbers, BoundAssumption DEF TypeOK
  <2>2. db[i].rct <= receipts'[i]
    BY <1>0, <2>1 DEF FiscalInv, FiscalRow
  <2>. QED  BY <1>0, <2>2 DEF FiscalInv, FiscalRow, Honest
<1>2. ASSUME NEW r \in Session, r # s PROVE FiscalAnswer(r)'
  <2>1. req'[r] = req[r]
    BY <1>0, <1>2 DEF ReqStep, Hear, Raise, TypeOK
  <2>2. ASSUME req[r].pc = "answered" PROVE req[r].ans <= receipts'[req[r].inv]
    <3>1. req[r].inv \in Invoice /\ req[r].ans \in Nat
      BY <1>0, <2>2, CallFields
    <3>2. receipts[req[r].inv] \in Nat /\ receipts'[req[r].inv] \in Nat
      BY <1>0, <3>1, Numbers, BoundAssumption DEF TypeOK
    <3>3. req[r].ans <= receipts[req[r].inv] /\ receipts[req[r].inv] <= receipts'[req[r].inv]
      BY <1>0, <2>2, <3>1 DEF FiscalInv, FiscalAnswer
    <3>. QED  BY <3>1, <3>2, <3>3
  <2>. QED  BY <1>0, <2>1, <2>2 DEF FiscalInv, FiscalAnswer
<1>3. FiscalAnswer(s)'
  <2>1. req[s] \in Busy
    BY <1>0, InCallIsBusy
  <2>2. CASE \E n \in Nat : /\ n <= receipts'[req[s].inv]
                            /\ n = 0 => terms[req[s].inv].kind \notin {"vfdplus", "total"}
                            /\ Hear(s, n)
    <3>1. PICK n \in Nat : /\ n <= receipts'[req[s].inv]
                           /\ n = 0 => terms[req[s].inv].kind \notin {"vfdplus", "total"}
                           /\ Hear(s, n)
      BY <2>2
    <3>2. req'[s] = [req[s] EXCEPT !.pc = "answered", !.ans = n]
      <4>1. req' = [req EXCEPT ![s] = [req[s] EXCEPT !.pc = "answered", !.ans = n]]
        BY <1>0, <3>1, HearType
      <4>. QED  BY <1>0, <4>1 DEF TypeOK
    <3>3. req'[s].inv = req[s].inv /\ req'[s].ans = n
      BY <2>1, <3>2 DEF Busy
    <3>. QED  BY <1>0, <3>1, <3>3 DEF FiscalAnswer
  <2>3. CASE Raise(s)
    BY <1>0, <2>3 DEF Raise, FiscalAnswer, Idle, TypeOK
  <2>4. CASE req' = [req EXCEPT ![s] = [req[s] EXCEPT !.tries = req[s].tries + 1]]
    <3>1. req'[s].pc = "send"
      BY <1>0, <2>1, <2>4 DEF Busy, TypeOK
    <3>. QED  BY <3>1 DEF FiscalAnswer
  <2>. QED  BY <1>0, <2>2, <2>3, <2>4 DEF ReqStep
<1>4. ASSUME NEW w \in Web PROVE FiscalHeld(w)'
  BY <1>0, <1>4 DEF FiscalInv, FiscalHeld, Honest
<1>. QED  BY <1>1, <1>2, <1>3, <1>4 DEF FiscalInv

\* Writing an answer keeps the invariant: the row gets the number that was
\* heard, and Success only with a receipt, unless the provider is Simplify.
LEMMA FinishKeepsFiscal ==
    ASSUME FiscalInv, TypeOK', NEW s \in Session, Finish(s)
    PROVE  FiscalInv'
<1>. DEFINE i == req[s].inv
            n == req[s].ans
            m == req[s].method
            row == IF m = "on_submit" /\ ~terms[i].split
                   THEN [db[i] EXCEPT !.doc = 1] ELSE db[i]
<1>0. /\ TypeOK /\ i \in Invoice /\ n \in Nat /\ terms[i].kind \in Kind
      /\ req[s].pc = "answered" /\ UNCHANGED <<terms, receipts, held>> /\ Raise(s)
      /\ db' = [db EXCEPT ![i] = Written(terms[i].kind, row, n, m)]
  BY CallFields DEF Finish, FiscalInv, TermsType
<1>1. n <= receipts[i] /\ (n = 0 => terms[i].kind \notin {"vfdplus", "total"})
  BY <1>0 DEF FiscalInv, FiscalAnswer
<1>2. /\ row \in Row /\ row.rct = db[i].rct
  BY <1>0, SMTT(60) DEF TypeOK, Row
<1>3. db[i].rct \in Nat /\ receipts[i] \in Nat /\ db[i].rct <= receipts[i]
  BY <1>0, Numbers DEF FiscalInv, FiscalRow
<1>4. ASSUME NEW j \in Invoice, j = i PROVE FiscalRow(j)'
  <2>. DEFINE new == Written(terms[i].kind, row, n, m)
  <2>1. new.rct <= receipts[i]
    BY <1>0, <1>1, <1>2, <1>3
       DEF Written, VfdplusWrite, TotalWrite, SimplifyWrite, DirmWrite, PergamonWrite, Row
  <2>2. ASSUME terms[i].kind # "simplify", new.status = "Success"
        PROVE  new.rct > 0 /\ new.info = "accepted"
    <3>1. CASE n = 0
      BY <1>0, <1>1, <1>2, <2>2, <3>1, SMTT(60)
         DEF Written, DirmWrite, PergamonWrite, StatusOf, Kind, Row
    <3>2. CASE n > 0
      BY <1>0, <1>2, <2>2, <3>2
         DEF Written, VfdplusWrite, TotalWrite, DirmWrite, PergamonWrite, Outcome, Kind, Row
    <3>. QED  BY <1>0, <3>1, <3>2, SMTT(60)
  <2>3. db'[i] = new
    BY <1>0 DEF TypeOK
  <2>. QED  BY <1>0, <1>4, <2>1, <2>2, <2>3 DEF FiscalRow, Honest
<1>5. ASSUME NEW j \in Invoice, j # i PROVE FiscalRow(j)'
  <2>1. db'[j] = db[j]
    BY <1>0, <1>5 DEF TypeOK
  <2>. QED  BY <1>0, <1>5, <2>1 DEF FiscalInv, FiscalRow, Honest
<1>6. ASSUME NEW r \in Session PROVE FiscalAnswer(r)'
  <2>1. req'[r] = req[r] \/ req'[r] = Idle
    BY <1>0, <1>6 DEF Raise, TypeOK
  <2>. QED  BY <1>0, <1>6, <2>1 DEF FiscalInv, FiscalAnswer, Idle
<1>7. ASSUME NEW w \in Web PROVE FiscalHeld(w)'
  BY <1>0, <1>7 DEF FiscalInv, FiscalHeld, Honest
<1>. QED  BY <1>4, <1>5, <1>6, <1>7 DEF FiscalInv

\* A cancellation begins with a row that has no number, hence is no Success,
\* and ends by writing it: the invariant is kept.
LEMMA CancelKeepsFiscal ==
    ASSUME FiscalInv, TypeOK', NEW w \in Web, HeldStep(w)
    PROVE  FiscalInv'
<1>0. /\ TypeOK /\ UNCHANGED <<terms, receipts, req>>
      /\ \A v \in Web : v # w => held'[v] = held[v]
  BY HeldStepType DEF FiscalInv
<1>1. ASSUME NEW s \in Session PROVE FiscalAnswer(s)'
  BY <1>0, <1>1 DEF FiscalInv, FiscalAnswer
<1>2. ASSUME NEW v \in Web, v # w PROVE FiscalHeld(v)'
  BY <1>0, <1>2 DEF FiscalInv, FiscalHeld, Honest
<1>3. CASE \E i \in Invoice : BeginCancel(w, i)
  <2>1. PICK i \in Invoice : BeginCancel(w, i)
    BY <1>3
  <2>2. /\ db[i].rct = 0 /\ UNCHANGED db
        /\ held'[w].inv = i /\ held'[w].row = db[i]
    BY <1>0, <2>1 DEF BeginCancel, MayCancel, TypeOK
  <2>3. FiscalHeld(w)'
    BY <1>0, <2>2 DEF FiscalHeld, FiscalInv, FiscalRow, Honest
  <2>4. ASSUME NEW j \in Invoice PROVE FiscalRow(j)'
    BY <1>0, <2>2, <2>4 DEF FiscalInv, FiscalRow, Honest
  <2>. QED  BY <1>1, <1>2, <2>3, <2>4 DEF FiscalInv
<1>4. CASE FinishCancel(w)
  <2>. DEFINE i == held[w].inv
  <2>1. /\ held[w].pc # "idle" /\ i \in Invoice /\ held[w].row \in Row
        /\ db'[i] = [held[w].row EXCEPT !.doc = 2] /\ held'[w] = Idle
        /\ \A j \in Invoice : j # i => db'[j] = db[j]
    BY <1>0, <1>4, FinishCancelWrites
  <2>2. db'[i].rct = held[w].row.rct /\ db'[i].status = held[w].row.status
    BY <2>1 DEF Row
  <2>3. FiscalHeld(w)
    BY DEF FiscalInv
  <2>4. receipts[i] \in Nat
    BY <1>0, <2>1, Numbers
  <2>5. ASSUME NEW j \in Invoice, j = i PROVE FiscalRow(j)'
    <3>1. db'[j].rct = 0 /\ (j \in Honest => db'[j].status # "Success")
      BY <2>1, <2>2, <2>3, <2>5 DEF FiscalHeld
    <3>2. 0 <= receipts'[j] /\ Honest' = Honest
      BY <1>0, <2>4, <2>5 DEF Honest
    <3>. QED  BY <3>1, <3>2 DEF FiscalRow
  <2>6. ASSUME NEW j \in Invoice, j # i PROVE FiscalRow(j)'
    BY <1>0, <2>1, <2>6 DEF FiscalInv, FiscalRow, Honest
  <2>7. FiscalHeld(w)'
    BY <2>1 DEF FiscalHeld, Idle
  <2>. QED  BY <1>1, <1>2, <2>5, <2>6, <2>7 DEF FiscalInv
<1>5. CASE AbandonCancel(w)
  <2>1. held'[w] = Idle /\ UNCHANGED db
    BY <1>0, <1>5 DEF AbandonCancel, TypeOK
  <2>2. FiscalHeld(w)'
    BY <2>1 DEF FiscalHeld, Idle
  <2>3. ASSUME NEW j \in Invoice PROVE FiscalRow(j)'
    BY <1>0, <2>1, <2>3 DEF FiscalInv, FiscalRow, Honest
  <2>. QED  BY <1>1, <1>2, <2>2, <2>3 DEF FiscalInv
<1>. QED  BY <1>3, <1>4, <1>5 DEF HeldStep

\* Every step keeps the invariant.
LEMMA FiscalStep ==
    ASSUME FiscalInv, [Next]_vars
    PROVE  FiscalInv'
<1>0. TypeOK /\ TypeOK'
  BY TypeStep DEF FiscalInv
<1>1. ASSUME NEW s \in Session, NEW i \in Invoice, NEW m,
             req' = [req EXCEPT ![s] = Call(i, m)]
      PROVE  \A r \in Session : req'[r] = req[r] \/ req'[r].pc # "answered"
  BY <1>0, <1>1 DEF Call, TypeOK
<1>2. ASSUME NEW s \in Session, req' = [req EXCEPT ![s] = Idle]
      PROVE  \A r \in Session : req'[r] = req[r] \/ req'[r].pc # "answered"
  BY <1>0, <1>2 DEF Idle, TypeOK
<1>3. ASSUME NEW i \in Invoice, NEW d \in 0..2, db' = [db EXCEPT ![i].doc = d]
      PROVE  \A j \in Invoice : db'[j].rct = db[j].rct /\ db'[j].status = db[j].status
                                /\ db'[j].info = db[j].info
  BY <1>0, <1>3 DEF TypeOK, Row
<1>4. ASSUME NEW i \in Invoice, Submit(i) \/ Cancel(i) PROVE FiscalInv'
  BY <1>0, <1>3, <1>4, QuietStep DEF Submit, Cancel
<1>5. ASSUME NEW i \in Invoice, Preview(i) \/ CloseDialog(i) PROVE FiscalInv'
  BY <1>0, <1>5, QuietStep DEF Preview, CloseDialog
<1>6. ASSUME NEW i \in Invoice, PostInvoice(i) PROVE FiscalInv'
  BY <1>0, <1>1, <1>6, QuietStep DEF PostInvoice, Session
<1>7. ASSUME NEW w \in Web, NEW i \in Invoice,
             SubmitAndPost(w, i) \/ Generate(w, i) \/ ConfirmPreview(w, i)
      PROVE  FiscalInv'
  BY <1>0, <1>1, <1>7, QuietStep DEF SubmitAndPost, Generate, ConfirmPreview, Session
<1>8. ASSUME NEW s \in Session, Accept(s) \/ ReturnOriginal(s) \/ Decline(s) PROVE FiscalInv'
  BY <1>0, <1>8, RequestKeepsFiscal
<1>9. ASSUME NEW s \in Session, Finish(s) PROVE FiscalInv'
  BY <1>0, <1>9, FinishKeepsFiscal
<1>10. ASSUME NEW s \in Session, Rollback(s) PROVE FiscalInv'
  BY <1>0, <1>2, <1>10, QuietStep DEF Rollback, Raise
<1>11. ASSUME NEW k \in Kind, SelectCompany(k) PROVE FiscalInv'
  BY <1>0, <1>11, QuietStep DEF SelectCompany
<1>12. CASE StartRun \/ EndRun
  BY <1>0, <1>12, QuietStep DEF StartRun, EndRun
<1>13. CASE CrashRun
  BY <1>0, <1>2, <1>13, QuietStep DEF CrashRun, Session
<1>14. ASSUME NEW w \in Web, NEW i \in Invoice, CommitThenPost(w, i) PROVE FiscalInv'
  <2>1. \A r \in Session : req'[r] = req[r] \/ req'[r].pc # "answered"
    BY <1>1, <1>14 DEF CommitThenPost, Session
  <2>2. db' = [db EXCEPT ![i].doc = 1] /\ UNCHANGED <<terms, receipts, held>>
    BY <1>14 DEF CommitThenPost
  <2>. QED  BY <1>0, <1>3, <2>1, <2>2, QuietStep
<1>15. ASSUME NEW w \in Web, HeldStep(w) PROVE FiscalInv'
  BY <1>0, <1>15, CancelKeepsFiscal
<1>16. CASE UNCHANGED vars
  BY <1>0, <1>16, QuietStep DEF vars
<1>. QED  BY <1>4, <1>5, <1>6, <1>7, <1>8, <1>9, <1>10, <1>11, <1>12, <1>13, <1>14, <1>15,
             <1>16 DEF Next, HeldStep

\* It holds in the initial states.
LEMMA FiscalInit == Init => FiscalInv
<1>1. ASSUME Init, NEW i \in Invoice PROVE FiscalRow(i)
  <2>1. Draft.rct = 0 /\ Draft.status # "Success"
    BY DEF Draft
  <2>2. db[i] = Draft /\ receipts[i] = 0
    BY <1>1 DEF Init
  <2>. QED  BY <2>1, <2>2 DEF FiscalRow
<1>2. ASSUME Init, NEW s \in Session PROVE FiscalAnswer(s)
  BY <1>2 DEF Init, FiscalAnswer, Idle
<1>3. ASSUME Init, NEW w \in Web PROVE FiscalHeld(w)
  BY <1>3 DEF Init, FiscalHeld, Idle
<1>. QED  BY <1>1, <1>2, <1>3, InitType DEF FiscalInv

\* The invariant holds in every execution.
LEMMA FiscalInvariant == Spec => []FiscalInv
<1>1. Init => FiscalInv
  BY FiscalInit
<1>2. FiscalInv /\ [Next]_vars => FiscalInv'
  BY FiscalStep
<1>. QED  BY <1>1, <1>2, PTL DEF Spec

\* For every provider but Simplify, whatever sessions, retries, lost answers,
\* crashes and rollbacks do, the books say Success only for an invoice that
\* TRA holds a receipt of, and name a receipt that exists.
THEOREM FiscalisedWhenSuccess == Spec => []SuccessIsFiscalised
<1>1. FiscalInv => SuccessIsFiscalised
  <2>1. ASSUME FiscalInv, NEW i \in Honest, db[i].status = "Success"
        PROVE  db[i].rct \in 1..receipts[i] /\ db[i].info = "accepted"
    <3>1. i \in Invoice
      BY DEF Honest
    <3>2. receipts[i] \in Nat /\ db[i].rct \in Nat
      BY <2>1, <3>1, Numbers DEF FiscalInv
    <3>. QED  BY <2>1, <3>1, <3>2 DEF FiscalInv, FiscalRow
  <2>. QED  BY <2>1 DEF SuccessIsFiscalised
<1>. QED  BY <1>1, FiscalInvariant, PTL

(***************************************************************************)
(* Fiscalisation implements FiscalLedger.                                  *)
(***************************************************************************)
\* The receipt numbers the ledger speaks of, and the cancellations under way.
NumberOf(i) == IF i \in Honest THEN db[i].rct ELSE 0
Books == [i \in Invoice |-> NumberOf(i)]
Leaving == {i \in Invoice : Cancelling(i)}

\* The numbers stay where the rows do, and the cancellations where held does.
LEMMA BooksStay ==
    ASSUME UNCHANGED terms, \A i \in Invoice : db'[i].rct = db[i].rct
    PROVE  Books' = Books
BY DEF Books, NumberOf, Honest

LEMMA LeavingStays ==
    ASSUME UNCHANGED held
    PROVE  Leaving' = Leaving
BY DEF Leaving, Cancelling

\* A step that leaves the receipts, their numbers and the cancellations alone
\* is a stutter of the ledger.
LEMMA LedgerStutter ==
    ASSUME UNCHANGED <<terms, receipts, held>>,
           \A i \in Invoice : db'[i].rct = db[i].rct
    PROVE  UNCHANGED Ledger!ledgerVars
<1>1. Books' = Books /\ Leaving' = Leaving
  BY BooksStay, LeavingStays
<1>. QED  BY <1>1 DEF Ledger!ledgerVars, Books, NumberOf, Leaving

\* A request issues a receipt or is a stutter of the ledger.
LEMMA RequestIssues ==
    ASSUME TypeOK, NEW s \in Session, Accept(s) \/ ReturnOriginal(s) \/ Decline(s)
    PROVE  [Ledger!Next]_(Ledger!ledgerVars)
<1>. DEFINE i == req[s].inv
<1>1. i \in Invoice /\ UNCHANGED <<terms, db, held>>
  BY ProviderStep, CallFields
<1>2. Books' = Books /\ Leaving' = Leaving
  BY <1>1, BooksStay, LeavingStays
<1>3. CASE receipts' = [receipts EXCEPT ![i] = receipts[i] + 1]
  BY <1>1, <1>2, <1>3 DEF Ledger!Next, Ledger!Issue, Books, NumberOf, Leaving
<1>4. CASE receipts' = receipts
  BY <1>2, <1>4 DEF Ledger!ledgerVars, Books, NumberOf, Leaving
<1>. QED  BY <1>3, <1>4 DEF Accept, ReturnOriginal, Decline

\* The beginning of a cancellation begins it in the ledger, too; its end takes
\* at most the number of its own invoice away.
LEMMA CancelEnds ==
    ASSUME FiscalInv, NEW w \in Web, HeldStep(w)
    PROVE  [Ledger!Next]_(Ledger!ledgerVars)
<1>0. /\ TypeOK /\ UNCHANGED <<terms, receipts>> /\ Honest' = Honest
      /\ \A v \in Web : v # w => held'[v] = held[v]
  BY HeldStepType DEF FiscalInv, Honest
<1>1. CASE \E i \in Invoice : BeginCancel(w, i)
  <2>1. PICK i \in Invoice : BeginCancel(w, i)
    BY <1>1
  <2>2. /\ db[i].rct = 0 /\ UNCHANGED db /\ held[w] = Idle
        /\ held'[w].pc = "cancel" /\ held'[w].inv = i
    BY <1>0, <2>1 DEF BeginCancel, MayCancel, Free, TypeOK
  <2>3. \A j \in Invoice : Cancelling(j)' <=> (Cancelling(j) \/ j = i)
    <3>1. held[w].pc = "idle" /\ held'[w].pc # "idle"
      BY <2>2 DEF Idle
    <3>2. ASSUME NEW j \in Invoice, Cancelling(j)' PROVE Cancelling(j) \/ j = i
      BY <1>0, <2>2, <3>2 DEF Cancelling
    <3>3. ASSUME NEW j \in Invoice, Cancelling(j) PROVE Cancelling(j)'
      BY <1>0, <3>1, <3>3 DEF Cancelling
    <3>4. Cancelling(i)'
      BY <2>2, <3>1 DEF Cancelling
    <3>. QED  BY <3>2, <3>3, <3>4
  <2>4. Leaving' = Leaving \cup {i}
    BY <2>3 DEF Leaving
  <2>5. Books' = Books /\ Books[i] = 0
    BY <1>0, <2>2, BooksStay DEF Books, NumberOf
  <2>. QED  BY <1>0, <2>4, <2>5 DEF Ledger!Next, Ledger!Begin, Books, NumberOf, Leaving
<1>2. CASE FinishCancel(w) \/ AbandonCancel(w)
  <2>. DEFINE i == held[w].inv
  <2>1. held[w].pc # "idle" /\ held'[w] = Idle /\ i \in Invoice
    <3>1. held[w].pc # "idle" /\ held'[w] = Idle
      BY <1>0, <1>2 DEF FinishCancel, AbandonCancel, TypeOK, Cancellation
    <3>. QED  BY <1>0, <3>1, HeldFields
  <2>2. \A j \in Invoice : j # i => (Cancelling(j)' <=> Cancelling(j))
    BY <1>0, <2>1 DEF Cancelling, Idle
  <2>3. i \in Leaving
    BY <2>1 DEF Leaving, Cancelling
  <2>4. Leaving' \in {Leaving, Leaving \ {i}}
    BY <2>2, <2>3 DEF Leaving
  <2>5. Books' \in {Books, [Books EXCEPT ![i] = 0]}
    <3>1. CASE AbandonCancel(w)
      BY <1>0, <3>1, BooksStay DEF AbandonCancel
    <3>2. CASE FinishCancel(w)
      <4>1. /\ db'[i] = [held[w].row EXCEPT !.doc = 2] /\ held[w].row \in Row
            /\ \A j \in Invoice : j # i => db'[j] = db[j]
        BY <1>0, <3>2, FinishCancelWrites
      <4>2. db'[i].rct = 0
        BY <2>1, <4>1 DEF FiscalInv, FiscalHeld, Row
      <4>3. \A j \in Invoice : NumberOf(j)' = IF j = i THEN 0 ELSE NumberOf(j)
        BY <1>0, <4>1, <4>2 DEF NumberOf
      <4>4. Books' = [Books EXCEPT ![i] = 0]
        BY <2>1, <4>3 DEF Books
      <4>. QED  BY <4>4
    <3>. QED  BY <1>2, <3>1, <3>2
  <2>. QED  BY <1>0, <2>1, <2>3, <2>4, <2>5 DEF Ledger!Next, Ledger!End, Books, NumberOf, Leaving
<1>. QED  BY <1>1, <1>2 DEF HeldStep

\* Writing an answer records a receipt that TRA has issued, or records nothing:
\* a refusal leaves the receipt number of DIRM and Pergamon alone.
LEMMA FinishRecords ==
    ASSUME FiscalInv, NEW s \in Session, Finish(s)
    PROVE  [Ledger!Next]_(Ledger!ledgerVars)
<1>. DEFINE i == req[s].inv
            n == req[s].ans
            m == req[s].method
            row == IF m = "on_submit" /\ ~terms[i].split
                   THEN [db[i] EXCEPT !.doc = 1] ELSE db[i]
            new == Written(terms[i].kind, row, n, m)
<1>0. /\ TypeOK /\ i \in Invoice /\ n \in Nat /\ terms[i].kind \in Kind
      /\ UNCHANGED <<terms, receipts, held>> /\ receipts[i] \in Nat /\ Honest' = Honest
      /\ n <= receipts[i] /\ (n = 0 => terms[i].kind \notin {"vfdplus", "total"})
      /\ db' = [db EXCEPT ![i] = new]
  BY CallFields, Numbers DEF Finish, FiscalInv, FiscalAnswer, TermsType, Honest
<1>1. row \in Row /\ row.rct = db[i].rct
  <2>1. db[i] \in Row
    BY <1>0, SMTT(60) DEF TypeOK
  <2>. QED  BY <2>1 DEF Row
<1>2. i \in Honest => (new.rct = n /\ n > 0) \/ new.rct = db[i].rct
  BY <1>0, <1>1 DEF Honest, Kind, Row,
                    Written, VfdplusWrite, TotalWrite, DirmWrite, PergamonWrite
<1>3. \A j \in Invoice : db'[j].rct = IF j = i THEN new.rct ELSE db[j].rct
  BY <1>0, SMTT(60) DEF TypeOK
<1>4. Leaving' = Leaving
  BY <1>0, LeavingStays
<1>5. CASE i \in Honest /\ new.rct = n /\ n > 0
  <2>1. \A j \in Invoice : NumberOf(j)' = IF j = i THEN n ELSE NumberOf(j)
    BY <1>0, <1>3, <1>5, ZenonT(60) DEF NumberOf
  <2>2. Books' = [Books EXCEPT ![i] = n]
    BY <1>0, <2>1 DEF Books
  <2>3. n \in 1..receipts[i]
    BY <1>0, <1>5
  <2>. QED  BY <1>0, <1>4, <2>2, <2>3, ZenonT(60)
            DEF Ledger!Next, Ledger!Record, Books, NumberOf, Leaving
<1>6. CASE i \notin Honest \/ new.rct = db[i].rct
  <2>1. ASSUME NEW j \in Invoice, j \in Honest PROVE db'[j].rct = db[j].rct
    BY <1>3, <1>6, <2>1
  <2>2. Books' = Books
    BY <1>0, <2>1 DEF Books, NumberOf
  <2>. QED  BY <1>0, <1>4, <2>2 DEF Ledger!ledgerVars, Books, NumberOf, Leaving
<1>. QED  BY <1>2, <1>5, <1>6

\* The detailed specification implements the abstract one: TRA never takes a
\* receipt back, and the receipt number in the books (of every provider but
\* Simplify) is only ever replaced by one of a receipt TRA has issued, or lost
\* to a cancellation that was begun before there was one
\* (check_cancel_delivery_note commits after validate_cancel has looked).
THEOREM ImplementsLedger == Spec => LedgerSpec
<1>1. Init => Ledger!Init
  <2>. SUFFICES ASSUME Init PROVE Ledger!Init
    OBVIOUS
  <2>1. \A i \in Invoice : db[i].rct = 0 /\ ~Cancelling(i)
    BY DEF Init, Draft, Cancelling, Idle
  <2>. QED  BY <2>1 DEF Init, Ledger!Init
<1>2. FiscalInv /\ [Next]_vars => [Ledger!Next]_(Ledger!ledgerVars)
  <2>. SUFFICES ASSUME FiscalInv, [Next]_vars PROVE [Ledger!Next]_(Ledger!ledgerVars)
    OBVIOUS
  <2>0. TypeOK
    BY DEF FiscalInv
  <2>1. ASSUME NEW i \in Invoice, NEW d \in 0..2, db' = [db EXCEPT ![i].doc = d]
        PROVE  \A j \in Invoice : db'[j].rct = db[j].rct
    BY <2>0, <2>1 DEF TypeOK, Row
  <2>2. ASSUME NEW i \in Invoice, Submit(i) \/ Cancel(i) PROVE UNCHANGED Ledger!ledgerVars
    BY <2>1, <2>2, LedgerStutter DEF Submit, Cancel
  <2>3. ASSUME NEW i \in Invoice, Preview(i) \/ CloseDialog(i) \/ PostInvoice(i)
        PROVE  UNCHANGED Ledger!ledgerVars
    BY <2>3, LedgerStutter DEF Preview, CloseDialog, PostInvoice
  <2>4. ASSUME NEW w \in Web, NEW i \in Invoice,
               SubmitAndPost(w, i) \/ Generate(w, i) \/ ConfirmPreview(w, i)
        PROVE  UNCHANGED Ledger!ledgerVars
    BY <2>4, LedgerStutter DEF SubmitAndPost, Generate, ConfirmPreview
  <2>5. ASSUME NEW s \in Session, Accept(s) \/ ReturnOriginal(s) \/ Decline(s)
        PROVE  [Ledger!Next]_(Ledger!ledgerVars)
    BY <2>0, <2>5, RequestIssues
  <2>6. ASSUME NEW s \in Session, Finish(s) PROVE [Ledger!Next]_(Ledger!ledgerVars)
    BY <2>6, FinishRecords
  <2>7. ASSUME NEW s \in Session, Rollback(s) PROVE UNCHANGED Ledger!ledgerVars
    BY <2>7, LedgerStutter DEF Rollback
  <2>8. ASSUME NEW k \in Kind, SelectCompany(k) PROVE UNCHANGED Ledger!ledgerVars
    BY <2>8, LedgerStutter DEF SelectCompany
  <2>9. CASE StartRun \/ EndRun \/ CrashRun
    BY <2>9, LedgerStutter DEF StartRun, EndRun, CrashRun
  <2>10. ASSUME NEW w \in Web, NEW i \in Invoice, CommitThenPost(w, i)
         PROVE  UNCHANGED Ledger!ledgerVars
    BY <2>1, <2>10, LedgerStutter DEF CommitThenPost
  <2>11. ASSUME NEW w \in Web, HeldStep(w) PROVE [Ledger!Next]_(Ledger!ledgerVars)
    BY <2>11, CancelEnds
  <2>12. CASE UNCHANGED vars
    BY <2>12, LedgerStutter DEF vars
  <2>. QED  BY <2>2, <2>3, <2>4, <2>5, <2>6, <2>7, <2>8, <2>9, <2>10, <2>11, <2>12
            DEF Next, HeldStep
<1>. QED  BY <1>1, <1>2, FiscalInvariant, PTL DEF Spec, LedgerSpec, Ledger!Spec

(***************************************************************************)
(* Invoices outside VFD.  An open dialog and the list of a cron run        *)
(* outlive the checks they passed, so the invariant covers them too.       *)
(***************************************************************************)
Outside(i) == terms[i].exempt \/ terms[i].early

Untouched(i) ==
    /\ receipts[i] = 0
    /\ i \notin dialog
    /\ i \notin run.todo
    /\ \A s \in Session : ~InCall(s, i)

OutsideInv ==
    /\ TypeOK
    /\ \A i \in Invoice : Outside(i) => Untouched(i)

\* A step that opens dialogs, selects invoices, begins calls and issues
\* receipts only for invoices inside VFD keeps the invariant.
LEMMA InsideStep ==
    ASSUME OutsideInv, TypeOK', UNCHANGED terms,
           \A i \in Invoice : receipts'[i] = receipts[i] \/ ~Outside(i),
           \A i \in dialog' : i \in dialog \/ ~Outside(i),
           \A i \in run'.todo : i \in run.todo \/ ~Outside(i),
           \A s \in Session : req'[s] = req[s] \/ req'[s] = Idle \/ ~Outside(req'[s].inv)
    PROVE  OutsideInv'
<1>1. ASSUME NEW i \in Invoice, Outside(i) PROVE Untouched(i)'
  <2>1. Untouched(i)
    BY <1>1 DEF OutsideInv
  <2>2. receipts'[i] = 0 /\ i \notin dialog' /\ i \notin run'.todo
    BY <1>1, <2>1 DEF Untouched
  <2>3. ASSUME NEW s \in Session, req'[s].pc # "idle" PROVE req'[s].inv # i
    <3>1. req'[s] # Idle
      BY <2>3 DEF Idle
    <3>. QED  BY <1>1, <2>1, <2>3, <3>1 DEF Untouched, InCall
  <2>. QED  BY <2>2, <2>3 DEF Untouched, InCall
<1>2. \A i \in Invoice : Outside(i)' => Outside(i)
  BY DEF Outside
<1>. QED  BY <1>1, <1>2 DEF OutsideInv

\* Every step keeps the invariant.
LEMMA OutsideStep ==
    ASSUME OutsideInv, [Next]_vars
    PROVE  OutsideInv'
<1>0. TypeOK /\ TypeOK'
  BY TypeStep DEF OutsideInv
<1>1. ASSUME NEW s \in Session, req[s].pc # "idle"
      PROVE  req[s].inv \in Invoice /\ ~Outside(req[s].inv)
  BY <1>0, <1>1, CallFields DEF OutsideInv, Untouched, InCall
<1>2. ASSUME NEW s \in Session, NEW i \in Invoice, NEW m, ~Outside(i),
             req' = [req EXCEPT ![s] = Call(i, m)]
      PROVE  \A r \in Session : req'[r] = req[r] \/ req'[r] = Idle \/ ~Outside(req'[r].inv)
  BY <1>0, <1>2 DEF Call, TypeOK
<1>3. ASSUME NEW s \in Session, req' = [req EXCEPT ![s] = Idle]
      PROVE  \A r \in Session : req'[r] = req[r] \/ req'[r] = Idle
  BY <1>0, <1>3 DEF TypeOK
<1>4. ASSUME NEW i \in Invoice, Submit(i) \/ Cancel(i) \/ CloseDialog(i) PROVE OutsideInv'
  BY <1>0, <1>4, InsideStep DEF Submit, Cancel, CloseDialog
<1>5. ASSUME NEW i \in Invoice, Preview(i) PROVE OutsideInv'
  BY <1>0, <1>5, InsideStep DEF Preview, MayGenerate, Outside
<1>6. ASSUME NEW i \in Invoice, PostInvoice(i) PROVE OutsideInv'
  <2>1. ~Outside(i)
    BY <1>6 DEF PostInvoice, OutsideInv, Untouched
  <2>2. \A j \in run'.todo : j \in run.todo
    BY <1>0, <1>6 DEF PostInvoice, TypeOK, Run
  <2>3. UNCHANGED <<terms, receipts, dialog>>
    BY <1>6 DEF PostInvoice
  <2>4. req' = [req EXCEPT ![Scheduler] = Call(i, "POST")] \/ req' = req
    BY <1>6 DEF PostInvoice
  <2>5. \A r \in Session : req'[r] = req[r] \/ req'[r] = Idle \/ ~Outside(req'[r].inv)
    BY <1>2, <2>1, <2>4 DEF Session
  <2>. QED  BY <1>0, <2>2, <2>3, <2>5, InsideStep
<1>7. ASSUME NEW w \in Web, NEW i \in Invoice,
             SubmitAndPost(w, i) \/ Generate(w, i) \/ ConfirmPreview(w, i)
      PROVE  OutsideInv'
  <2>1. ~Outside(i)
    BY <1>7 DEF SubmitAndPost, Generate, ConfirmPreview, MayGenerate, Autogenerated,
                Outside, OutsideInv, Untouched
  <2>2. UNCHANGED <<terms, receipts, dialog, run>>
        /\ \E m : req' = [req EXCEPT ![w] = Call(i, m)]
    BY <1>7 DEF SubmitAndPost, Generate, ConfirmPreview
  <2>. QED  BY <1>0, <1>2, <2>1, <2>2, InsideStep DEF Session
<1>8. ASSUME NEW s \in Session, Accept(s) \/ ReturnOriginal(s) \/ Decline(s) PROVE OutsideInv'
  <2>0. /\ req[s].pc = "send" /\ ReqStep(s) /\ UNCHANGED <<terms, db, dialog, run>>
        /\ \A i \in Invoice : receipts'[i] # receipts[i] => i = req[s].inv
    BY <1>0, <1>8, ProviderStep
  <2>1. req[s] \in Busy /\ ~Outside(req[s].inv)
    BY <1>0, <1>1, <2>0, InCallIsBusy
  <2>2. ASSUME NEW n \in Nat, Hear(s, n) PROVE req'[s].inv = req[s].inv
    <3>1. req' = [req EXCEPT ![s] = [req[s] EXCEPT !.pc = "answered", !.ans = n]]
      BY <1>0, <2>0, <2>2, HearType
    <3>. QED  BY <1>0, <2>1, <3>1 DEF Busy, TypeOK
  <2>3. ASSUME req' = [req EXCEPT ![s] = [req[s] EXCEPT !.tries = req[s].tries + 1]]
        PROVE  req'[s].inv = req[s].inv
    BY <1>0, <2>1, <2>3 DEF Busy, TypeOK
  <2>4. req'[s] = Idle \/ req'[s].inv = req[s].inv
    BY <1>0, <2>0, <2>2, <2>3 DEF ReqStep, Raise, TypeOK
  <2>5. \A r \in Session : r # s => req'[r] = req[r]
    BY <1>0, <2>0 DEF ReqStep, Raise, Hear, TypeOK
  <2>. QED  BY <1>0, <2>0, <2>1, <2>4, <2>5, InsideStep
<1>9. ASSUME NEW s \in Session, Finish(s) \/ Rollback(s) PROVE OutsideInv'
  BY <1>0, <1>3, <1>9, InsideStep DEF Finish, Rollback, Raise
<1>10. ASSUME NEW k \in Kind, SelectCompany(k) PROVE OutsideInv'
  <2>1. run'.todo = Selected(k)
    BY <1>0, <1>10 DEF SelectCompany, TypeOK, Run
  <2>. QED  BY <1>0, <1>10, <2>1, InsideStep DEF SelectCompany, Selected, Outside
<1>11. CASE StartRun \/ EndRun
  BY <1>0, <1>11, InsideStep DEF StartRun, EndRun, NoRun
<1>12. CASE CrashRun
  BY <1>0, <1>3, <1>12, InsideStep DEF CrashRun, NoRun, Session
<1>13. ASSUME NEW w \in Web, NEW i \in Invoice, CommitThenPost(w, i) PROVE OutsideInv'
  <2>1. UNCHANGED <<terms, receipts, dialog, run>>
    BY <1>13 DEF CommitThenPost
  <2>2. CASE terms[i].early
    BY <1>0, <1>13, <2>1, <2>2, InsideStep DEF CommitThenPost
  <2>3. CASE ~terms[i].early
    <3>1. ~Outside(i) /\ req' = [req EXCEPT ![w] = Call(i, "on_submit")]
      BY <1>13, <2>3 DEF CommitThenPost, Autogenerated, Outside
    <3>. QED  BY <1>0, <1>2, <2>1, <3>1, InsideStep DEF Session
  <2>. QED  BY <2>2, <2>3
<1>14. ASSUME NEW w \in Web, HeldStep(w) PROVE OutsideInv'
  BY <1>0, <1>14, HeldStepType, InsideStep
<1>15. CASE UNCHANGED vars
  BY <1>0, <1>15, InsideStep DEF vars
<1>. QED  BY <1>4, <1>5, <1>6, <1>7, <1>8, <1>9, <1>10, <1>11, <1>12, <1>13, <1>14, <1>15
          DEF Next, HeldStep

\* An invoice that is not for TRA, or is dated before vfd_start_date, never
\* reaches TRA, by submission, form, preview or cron job, however stale the
\* dialog or the list is that sends it.
THEOREM OutsideStaysOutside == Spec => []OutsideNeverReachesTra
<1>1. Init => OutsideInv
  <2>1. ASSUME Init, NEW i \in Invoice PROVE Untouched(i)
    BY <2>1 DEF Init, Untouched, InCall, Idle, NoRun
  <2>. QED  BY <2>1, InitType DEF OutsideInv
<1>2. OutsideInv /\ [Next]_vars => OutsideInv'
  BY OutsideStep
<1>3. OutsideInv => OutsideNeverReachesTra
  BY DEF OutsideInv, Outside, Untouched, OutsideNeverReachesTra
<1>. QED  BY <1>1, <1>2, <1>3, PTL DEF Spec

(***************************************************************************)
(* What is in a row, a list, a dialog or a call has been submitted: the    *)
(* rows that were attempted, and every call but a submission's own.        *)
(***************************************************************************)
Attempted(row) == row.doc # 0 /\ (row.info # "none" \/ row.doc = 2)

BookRow(i) ==
    /\ db[i].status # "Not Sent" => db[i].info # "none"
    /\ db[i].info # "none" => db[i].doc # 0
    /\ i \in dialog => db[i].doc # 0
    /\ i \in run.todo => Attempted(db[i])

BookCall(s) ==
    req[s].pc # "idle" =>
        /\ req[s].method = "POST" \/ terms[req[s].inv].split => db[req[s].inv].doc # 0
        /\ s = Scheduler => Attempted(db[req[s].inv])

\* A row that a cancellation holds tells of a posting if it tells of an answer.
BookHeld(w) ==
    held[w].pc # "idle" /\ held[w].row.status # "Not Sent" => held[w].row.info # "none"

BookInv ==
    /\ TypeOK
    /\ \A i \in Invoice : BookRow(i)
    /\ \A s \in Session : BookCall(s)
    /\ \A w \in Web : BookHeld(w)

\* A row is left alone, submitted or cancelled, written from an answer, or
\* cancelled by writing an older row back.
RowStep(i) ==
    \/ db'[i] = db[i]
    \/ /\ db'[i].doc # 0 /\ db'[i].info = db[i].info /\ db'[i].status = db[i].status
       /\ db[i].doc = 2 => db'[i].doc = 2
    \/ db'[i].doc # 0 /\ db'[i].info # "none"
    \/ db'[i].doc = 2 /\ (db'[i].status # "Not Sent" => db'[i].info # "none")

\* A call is left alone, ends, goes on for the same invoice, or begins well.
CallStep(s) ==
    \/ req'[s] = req[s]
    \/ req'[s] = Idle
    \/ /\ req[s].pc # "idle"
       /\ req'[s].inv = req[s].inv /\ req'[s].method = req[s].method
    \/ BookCall(s)'

\* What was attempted or submitted remains so.
LEMMA RowStepKeeps ==
    ASSUME NEW i \in Invoice, BookRow(i), RowStep(i)
    PROVE  /\ db'[i].status # "Not Sent" => db'[i].info # "none"
           /\ db'[i].info # "none" => db'[i].doc # 0
           /\ db[i].doc # 0 => db'[i].doc # 0
           /\ Attempted(db[i]) => Attempted(db'[i])
<1>1. CASE db'[i] = db[i]
  BY <1>1 DEF BookRow
<1>2. CASE /\ db'[i].doc # 0 /\ db'[i].info = db[i].info /\ db'[i].status = db[i].status
           /\ db[i].doc = 2 => db'[i].doc = 2
  BY <1>2 DEF BookRow, Attempted
<1>3. CASE db'[i].doc # 0 /\ db'[i].info # "none"
  BY <1>3 DEF Attempted
<1>4. CASE db'[i].doc = 2 /\ (db'[i].status # "Not Sent" => db'[i].info # "none")
  <2>1. db'[i].doc # 0
    <3>1. db'[i].doc = 2
      BY <1>4
    <3>2. 2 # 0
      OBVIOUS
    <3>. QED  BY <3>1, <3>2, Zenon
  <2>. QED  BY <1>4, <2>1 DEF Attempted
<1>. QED  BY <1>1, <1>2, <1>3, <1>4 DEF RowStep

\* A step made of such changes keeps the invariant.
LEMMA BookStep ==
    ASSUME BookInv, TypeOK', UNCHANGED terms,
           \A i \in Invoice : RowStep(i),
           \A i \in dialog' : i \in dialog \/ db'[i].doc # 0,
           \A i \in run'.todo : i \in run.todo \/ (db'[i].doc # 0 /\ db'[i].info # "none"),
           \A s \in Session : CallStep(s),
           \A w \in Web : held'[w] = held[w] \/ BookHeld(w)'
    PROVE  BookInv'
<1>1. ASSUME NEW i \in Invoice PROVE BookRow(i)'
  <2>0. BookRow(i) /\ RowStep(i)
    BY <1>1 DEF BookInv
  <2>1. /\ db'[i].status # "Not Sent" => db'[i].info # "none"
        /\ db'[i].info # "none" => db'[i].doc # 0
        /\ db[i].doc # 0 => db'[i].doc # 0
        /\ Attempted(db[i]) => Attempted(db'[i])
    BY <2>0, RowStepKeeps
  <2>2. i \in dialog' => db'[i].doc # 0
    BY <1>1, <2>0, <2>1 DEF BookRow
  <2>3. i \in run'.todo => Attempted(db'[i])
    BY <1>1, <2>0, <2>1 DEF BookRow, Attempted
  <2>. QED  BY <2>1, <2>2, <2>3 DEF BookRow, Attempted
<1>2. ASSUME NEW s \in Session PROVE BookCall(s)'
  <2>1. CASE BookCall(s)'
    BY <2>1
  <2>2. CASE req'[s] = Idle
    BY <2>2 DEF BookCall, Idle
  <2>3. CASE /\ req[s].pc # "idle"
             /\ req'[s].inv = req[s].inv /\ req'[s].method = req[s].method
    <3>1. req[s].inv \in Invoice
      BY <2>3, CallFields DEF BookInv
    <3>2. BookRow(req[s].inv) /\ RowStep(req[s].inv) /\ BookCall(s)
      BY <3>1 DEF BookInv
    <3>3. /\ db[req[s].inv].doc # 0 => db'[req[s].inv].doc # 0
          /\ Attempted(db[req[s].inv]) => Attempted(db'[req[s].inv])
      BY <3>1, <3>2, RowStepKeeps
    <3>. QED  BY <2>3, <3>2, <3>3 DEF BookCall, Attempted
  <2>4. CASE req'[s] = req[s] /\ req[s].pc # "idle"
    BY <2>3, <2>4
  <2>5. CASE req'[s] = req[s] /\ req[s].pc = "idle"
    BY <2>5 DEF BookCall
  <2>. QED  BY <2>1, <2>2, <2>3, <2>4, <2>5 DEF CallStep
<1>3. ASSUME NEW w \in Web PROVE BookHeld(w)'
  BY <1>3 DEF BookInv, BookHeld
<1>. QED  BY <1>1, <1>2, <1>3 DEF BookInv

\* A request leaves its session in the same call, or idle, and the other
\* sessions alone.
LEMMA RequestKeepsCall ==
    ASSUME TypeOK, NEW s \in Session, Accept(s) \/ ReturnOriginal(s) \/ Decline(s)
    PROVE  /\ \A r \in Session : r # s => req'[r] = req[r]
           /\ req[s].pc # "idle"
           /\ \/ req'[s] = Idle
              \/ req'[s].inv = req[s].inv /\ req'[s].method = req[s].method
<1>0. req[s].pc = "send" /\ ReqStep(s)
  BY ProviderStep
<1>1. req[s] \in Busy
  BY <1>0, InCallIsBusy
<1>2. ASSUME NEW n \in Nat, Hear(s, n)
      PROVE  req'[s].inv = req[s].inv /\ req'[s].method = req[s].method
  <2>1. req' = [req EXCEPT ![s] = [req[s] EXCEPT !.pc = "answered", !.ans = n]]
    BY <1>0, <1>2, HearType
  <2>. QED  BY <1>1, <2>1 DEF Busy, TypeOK
<1>3. ASSUME req' = [req EXCEPT ![s] = [req[s] EXCEPT !.tries = req[s].tries + 1]]
      PROVE  req'[s].inv = req[s].inv /\ req'[s].method = req[s].method
  BY <1>1, <1>3 DEF Busy, TypeOK
<1>4. req'[s] = Idle \/ (req'[s].inv = req[s].inv /\ req'[s].method = req[s].method)
  BY <1>0, <1>2, <1>3 DEF ReqStep, Raise, TypeOK
<1>5. \A r \in Session : r # s => req'[r] = req[r]
  BY <1>0 DEF ReqStep, Raise, Hear, TypeOK
<1>. QED  BY <1>0, <1>4, <1>5

\* Writing an answer leaves the row with a posting, Success or Failed, and of
\* the row's docstatus only a submission's own is changed.
LEMMA FinishWrites ==
    ASSUME TypeOK, NEW s \in Session, Finish(s)
    PROVE  LET i == req[s].inv IN
           /\ \A j \in Invoice : j # i => db'[j] = db[j]
           /\ db'[i].info # "none"
           /\ db'[i].doc = IF req[s].method = "on_submit" /\ ~terms[i].split
                           THEN 1 ELSE db[i].doc
<1>. DEFINE i == req[s].inv
            n == req[s].ans
            m == req[s].method
            row == IF m = "on_submit" /\ ~terms[i].split
                   THEN [db[i] EXCEPT !.doc = 1] ELSE db[i]
            new == Written(terms[i].kind, row, n, m)
<1>0. i \in Invoice /\ n \in Nat /\ db[i] \in Row /\ db' = [db EXCEPT ![i] = new]
  BY CallFields DEF Finish
<1>1. row \in Row
  BY <1>0 DEF Row
<1>2. row.doc = IF m = "on_submit" /\ ~terms[i].split THEN 1 ELSE db[i].doc
  BY <1>0 DEF Row
<1>. HIDE DEF row
<1>3. new.info # "none" /\ new.doc = row.doc
  BY <1>0, <1>1 DEF Written, VfdplusWrite, TotalWrite, SimplifyWrite, DirmWrite, PergamonWrite,
                    Outcome, Row
<1>4. db'[i] = new /\ \A j \in Invoice : j # i => db'[j] = db[j]
  BY <1>0 DEF TypeOK
<1>. HIDE DEF new
<1>. QED  BY <1>2, <1>3, <1>4

\* Every step keeps the invariant.
LEMMA BookNext ==
    ASSUME BookInv, [Next]_vars
    PROVE  BookInv'
<1>0. TypeOK /\ TypeOK' /\ (\A i \in Invoice : BookRow(i)) /\ (\A s \in Session : BookCall(s))
  BY TypeStep DEF BookInv
<1>1. ASSUME NEW w \in Session, NEW i \in Invoice, NEW m,
             req' = [req EXCEPT ![w] = Call(i, m)], UNCHANGED terms,
             m = "POST" \/ terms[i].split => db'[i].doc # 0,
             w = Scheduler => Attempted(db'[i])
      PROVE  \A s \in Session : CallStep(s)
  <2>1. req'[w].inv = i /\ req'[w].method = m
    BY <1>0, <1>1 DEF Call, TypeOK
  <2>2. BookCall(w)'
    BY <1>1, <2>1 DEF BookCall, Attempted
  <2>3. \A s \in Session : s # w => req'[s] = req[s]
    BY <1>0, <1>1 DEF TypeOK
  <2>. QED  BY <2>2, <2>3 DEF CallStep
<1>2. ASSUME NEW s \in Session, req' = [req EXCEPT ![s] = Idle]
      PROVE  \A r \in Session : CallStep(r)
  BY <1>0, <1>2 DEF CallStep, TypeOK
<1>3. ASSUME UNCHANGED req PROVE \A s \in Session : CallStep(s)
  BY <1>3 DEF CallStep
<1>4. ASSUME UNCHANGED db PROVE \A i \in Invoice : RowStep(i)
  BY <1>4 DEF RowStep
<1>5. ASSUME NEW i \in Invoice, NEW d \in 1..2, db' = [db EXCEPT ![i].doc = d],
             db[i].doc # 2
      PROVE  \A j \in Invoice : RowStep(j)
  <2>1. \A j \in Invoice : j # i => db'[j] = db[j]
    BY <1>0, <1>5 DEF TypeOK
  <2>2. db'[i].doc # 0 /\ db'[i].info = db[i].info /\ db'[i].status = db[i].status
    BY <1>0, <1>5 DEF TypeOK, Row
  <2>. QED  BY <1>5, <2>1, <2>2 DEF RowStep
<1>6. ASSUME NEW i \in Invoice, Submit(i) \/ Cancel(i) PROVE BookInv'
  BY <1>0, <1>3, <1>5, <1>6, BookStep DEF Submit, Cancel
<1>7. ASSUME NEW i \in Invoice, Preview(i) \/ CloseDialog(i) PROVE BookInv'
  BY <1>0, <1>3, <1>4, <1>7, BookStep DEF Preview, CloseDialog, MayGenerate
<1>8. ASSUME NEW i \in Invoice, PostInvoice(i) PROVE BookInv'
  <2>1. db[i].doc # 0 /\ Attempted(db[i])
    BY <1>0, <1>8 DEF PostInvoice, BookRow, Attempted
  <2>2. \A j \in run'.todo : j \in run.todo
    BY <1>0, <1>8 DEF PostInvoice, TypeOK, Run
  <2>3. UNCHANGED <<terms, db, dialog, held>>
        /\ (req' = [req EXCEPT ![Scheduler] = Call(i, "POST")] \/ req' = req)
    BY <1>8 DEF PostInvoice
  <2>4. \A s \in Session : CallStep(s)
    BY <1>1, <1>3, <2>1, <2>3 DEF Session
  <2>. QED  BY <1>0, <1>4, <2>2, <2>3, <2>4, BookStep
<1>9. ASSUME NEW w \in Web, NEW i \in Invoice, SubmitAndPost(w, i) PROVE BookInv'
  <2>1. \A s \in Session : CallStep(s)
    BY <1>1, <1>9, SessionAssumption DEF SubmitAndPost, Session
  <2>. QED  BY <1>0, <1>4, <1>9, <2>1, BookStep DEF SubmitAndPost
<1>10. ASSUME NEW w \in Web, NEW i \in Invoice, CommitThenPost(w, i) PROVE BookInv'
  <2>1. /\ db'[i].doc = 1 /\ db' = [db EXCEPT ![i].doc = 1] /\ db[i].doc # 2
        /\ UNCHANGED <<terms, dialog, run, held>>
    BY <1>0, <1>10 DEF CommitThenPost, TypeOK, Row
  <2>2. UNCHANGED req \/ req' = [req EXCEPT ![w] = Call(i, "on_submit")]
    BY <1>10 DEF CommitThenPost
  <2>3. \A s \in Session : CallStep(s)
    BY <1>1, <1>3, <2>1, <2>2, SessionAssumption DEF Session
  <2>4. 1 \in 1..2
    OBVIOUS
  <2>5. \A j \in Invoice : RowStep(j)
    BY <1>5, <2>1, <2>4
  <2>. QED  BY <1>0, <2>1, <2>3, <2>5, BookStep
<1>11. ASSUME NEW w \in Web, NEW i \in Invoice, Generate(w, i) \/ ConfirmPreview(w, i)
       PROVE  BookInv'
  <2>1. db[i].doc # 0
    BY <1>0, <1>11 DEF Generate, MayGenerate, ConfirmPreview, BookRow
  <2>2. req' = [req EXCEPT ![w] = Call(i, "POST")]
        /\ UNCHANGED <<terms, db, dialog, run, held>>
    BY <1>11 DEF Generate, ConfirmPreview
  <2>3. \A s \in Session : CallStep(s)
    BY <1>1, <2>1, <2>2, SessionAssumption DEF Session
  <2>. QED  BY <1>0, <1>4, <2>2, <2>3, BookStep
<1>12. ASSUME NEW s \in Session, Accept(s) \/ ReturnOriginal(s) \/ Decline(s) PROVE BookInv'
  <2>1. UNCHANGED <<terms, db, dialog, run, held>>
    BY <1>0, <1>12, ProviderStep
  <2>2. \A r \in Session : CallStep(r)
    BY <1>0, <1>12, RequestKeepsCall DEF CallStep
  <2>. QED  BY <1>0, <1>4, <2>1, <2>2, BookStep
<1>13. ASSUME NEW s \in Session, Finish(s) PROVE BookInv'
  <2>. DEFINE i == req[s].inv
  <2>1. /\ req[s].pc = "answered" /\ UNCHANGED <<terms, dialog, run, held>>
        /\ req' = [req EXCEPT ![s] = Idle]
    BY <1>13 DEF Finish, Raise
  <2>2. req[s] \in Busy /\ BookCall(s)
    BY <1>0, <2>1, InCallIsBusy
  <2>3. req[s].method = "POST" \/ terms[i].split => db[i].doc # 0
    BY <2>1, <2>2 DEF BookCall
  <2>4. req[s].method \in {"on_submit", "POST"}
    BY <2>2 DEF Busy
  <2>5. db'[i].doc # 0
    BY <1>0, <1>13, <2>3, <2>4, FinishWrites
  <2>6. \A j \in Invoice : RowStep(j)
    BY <1>0, <1>13, <2>5, FinishWrites DEF RowStep
  <2>7. \A r \in Session : CallStep(r)
    BY <1>2, <2>1
  <2>. QED  BY <1>0, <2>1, <2>6, <2>7, BookStep
<1>14. ASSUME NEW s \in Session, Rollback(s) PROVE BookInv'
  <2>1. \A r \in Session : CallStep(r)
    BY <1>2, <1>14 DEF Rollback, Raise
  <2>. QED  BY <1>0, <1>4, <1>14, <2>1, BookStep DEF Rollback
<1>15. ASSUME NEW k \in Kind, SelectCompany(k) PROVE BookInv'
  <2>1. run'.todo = Selected(k)
    BY <1>0, <1>15 DEF SelectCompany, TypeOK, Run
  <2>2. UNCHANGED <<terms, db, dialog, req, held>>
    BY <1>15 DEF SelectCompany
  <2>3. \A i \in Selected(k) : db[i].doc # 0 /\ db[i].info # "none"
    BY <1>0 DEF Selected, BookRow
  <2>. QED  BY <1>0, <1>3, <1>4, <2>1, <2>2, <2>3, BookStep
<1>16. CASE StartRun \/ EndRun
  BY <1>0, <1>3, <1>4, <1>16, BookStep DEF StartRun, EndRun, NoRun
<1>17. CASE CrashRun
  <2>1. \A r \in Session : CallStep(r)
    BY <1>2, <1>17 DEF CrashRun, Session
  <2>. QED  BY <1>0, <1>4, <1>17, <2>1, BookStep DEF CrashRun, NoRun
<1>18. ASSUME NEW w \in Web, HeldStep(w) PROVE BookInv'
  <2>0. /\ UNCHANGED <<terms, dialog, run, req>> /\ BookHeld(w)
        /\ \A v \in Web : v # w => held'[v] = held[v]
    BY <1>0, <1>18, HeldStepType DEF BookInv
  <2>1. CASE \E i \in Invoice : BeginCancel(w, i)
    <3>1. PICK i \in Invoice : BeginCancel(w, i)
      BY <2>1
    <3>2. UNCHANGED db /\ held'[w].row = db[i]
      BY <1>0, <3>1 DEF BeginCancel, TypeOK
    <3>3. BookHeld(w)'
      BY <1>0, <3>2 DEF BookHeld, BookRow
    <3>. QED  BY <1>0, <1>3, <1>4, <2>0, <3>2, <3>3, BookStep
  <2>2. CASE AbandonCancel(w)
    <3>1. UNCHANGED db /\ held'[w] = Idle
      BY <1>0, <2>2 DEF AbandonCancel, TypeOK
    <3>2. BookHeld(w)'
      <4>1. held'[w].pc = "idle"
        BY <3>1 DEF Idle
      <4>. QED  BY <4>1 DEF BookHeld
    <3>. QED  BY <1>0, <1>3, <1>4, <2>0, <3>1, <3>2, BookStep
  <2>3. CASE FinishCancel(w)
    <3>. DEFINE i == held[w].inv
    <3>1. /\ held[w].pc # "idle" /\ i \in Invoice /\ held[w].row \in Row
          /\ db'[i] = [held[w].row EXCEPT !.doc = 2] /\ held'[w] = Idle
          /\ \A j \in Invoice : j # i => db'[j] = db[j]
      BY <1>0, <2>3, FinishCancelWrites
    <3>2. /\ db'[i].doc = 2 /\ db'[i].status = held[w].row.status
          /\ db'[i].info = held[w].row.info
      BY <3>1 DEF Row
    <3>3. \A j \in Invoice : RowStep(j)
      BY <2>0, <3>1, <3>2 DEF RowStep, BookHeld
    <3>4. BookHeld(w)'
      <4>1. held'[w].pc = "idle"
        BY <3>1 DEF Idle
      <4>. QED  BY <4>1 DEF BookHeld
    <3>. QED  BY <1>0, <1>3, <2>0, <3>3, <3>4, BookStep
  <2>. QED  BY <1>18, <2>1, <2>2, <2>3 DEF HeldStep
<1>19. CASE UNCHANGED vars
  BY <1>0, <1>3, <1>4, <1>19, BookStep DEF vars
<1>. QED  BY <1>6, <1>7, <1>8, <1>9, <1>10, <1>11, <1>12, <1>13, <1>14, <1>15, <1>16, <1>17,
             <1>18, <1>19 DEF Next, HeldStep

\* The invariant holds in every execution.
LEMMA BookInvariant == Spec => []BookInv
<1>1. Init => BookInv
  <2>1. ASSUME Init, NEW i \in Invoice PROVE BookRow(i)
    BY <2>1 DEF Init, BookRow, Draft, NoRun
  <2>2. ASSUME Init, NEW s \in Session PROVE BookCall(s)
    BY <2>2 DEF Init, BookCall, Idle
  <2>3. ASSUME Init, NEW w \in Web PROVE BookHeld(w)
    BY <2>3 DEF Init, BookHeld, Idle
  <2>. QED  BY <2>1, <2>2, <2>3, InitType DEF BookInv
<1>2. BookInv /\ [Next]_vars => BookInv'
  BY BookNext
<1>. QED  BY <1>1, <1>2, PTL DEF Spec

\* The cron job sends only invoices an earlier attempt has written a posting
\* for, whatever became of them since its list was read; only a cancellation
\* can meanwhile have put the row of before the attempt back.
THEOREM ScheduledWasAttempted == Spec => []OnlyAttemptedIsScheduled
<1>1. BookInv => OnlyAttemptedIsScheduled
  <2>1. ASSUME BookInv, NEW i \in Invoice, i \in run.todo
        PROVE  Attempted(db[i])
    BY <2>1 DEF BookInv, BookRow
  <2>2. ASSUME BookInv, NEW i \in Invoice, InCall(Scheduler, i)
        PROVE  Attempted(db[i])
    BY <2>2 DEF BookInv, BookCall, InCall, Session
  <2>. QED  BY <2>1, <2>2 DEF OnlyAttemptedIsScheduled, Attempted
<1>. QED  BY <1>1, BookInvariant, PTL

(***************************************************************************)
(* Settled invoices of DIRM and Pergamon.                                  *)
(***************************************************************************)
\* What the check of DIRM and of Pergamon refuses.
LEMMA SettledNotPostable ==
    ASSUME NEW i \in Invoice, terms[i].kind \in {"dirm", "pergamon"}, db[i].status = "Success"
    PROVE  ~Postable(db[i], terms[i])
BY DEF Postable, DirmPostable, PergamonPostable

\* A step that leaves a row alone and lets no session begin a call for its
\* invoice keeps it settled.
LEMMA StaysSettled ==
    ASSUME TypeOK, NEW i \in Invoice, Settled(i), db'[i] = db[i],
           \A s \in Session : req'[s] = req[s] \/ req'[s] = Idle
                              \/ (req[s].pc # "idle" /\ req'[s].inv = req[s].inv)
                              \/ req'[s].inv # i,
           \A w \in Web : held'[w] = held[w] \/ held'[w] = Idle \/ held'[w].inv # i
    PROVE  Settled(i)' /\ db'[i] = db[i]
BY DEF Settled, InCall, Cancelling, Idle

\* Once DIRM or Pergamon has settled an invoice and nobody is in a call for it
\* or has begun to cancel it, nothing sends it again, writes it or cancels it:
\* no stale list, dialog or form.
THEOREM SettledStays == Spec => SettledIsFinal
<1>. DEFINE Kept(i) == terms[i].kind \in {"dirm", "pergamon"} /\ Settled(i) =>
                          Settled(i)' /\ db'[i] = db[i]
<1>1. ASSUME BookInv, FiscalInv, [Next]_vars, NEW i \in Invoice,
             terms[i].kind \in {"dirm", "pergamon"}, Settled(i)
      PROVE  Settled(i)' /\ db'[i] = db[i]
  <2>0. TypeOK
    BY <1>1 DEF BookInv
  <2>1. /\ db[i].status = "Success" /\ db[i].rct > 0 /\ db[i].doc # 0
        /\ ~Postable(db[i], terms[i])
        /\ \A s \in Session : req[s].pc # "idle" => req[s].inv # i
        /\ \A w \in Web : held[w].pc # "idle" => held[w].inv # i
    <3>1. i \in Honest /\ db[i].status = "Success"
      BY <1>1 DEF Honest, Settled
    <3>2. db[i].rct > 0 /\ db[i].info = "accepted"
      BY <1>1, <3>1 DEF FiscalInv, FiscalRow
    <3>3. db[i].doc # 0
      BY <1>1, <3>2 DEF BookInv, BookRow
    <3>. QED  BY <1>1, <3>1, <3>2, <3>3, SettledNotPostable DEF Settled, InCall, Cancelling
  <2>2. ASSUME NEW s \in Session, NEW j \in Invoice, NEW m, j # i,
               req' = [req EXCEPT ![s] = Call(j, m)]
        PROVE  \A r \in Session : req'[r] = req[r] \/ req'[r].inv # i
    BY <2>0, <2>2 DEF Call, TypeOK
  <2>3. ASSUME NEW s \in Session, req' = [req EXCEPT ![s] = Idle]
        PROVE  \A r \in Session : req'[r] = req[r] \/ req'[r] = Idle
    BY <2>0, <2>3 DEF TypeOK
  <2>4. ASSUME NEW j \in Invoice, NEW d, j # i, db' = [db EXCEPT ![j].doc = d]
        PROVE  db'[i] = db[i]
    BY <2>0, <2>4 DEF TypeOK
  <2>5. ASSUME NEW j \in Invoice, Submit(j) \/ Cancel(j) PROVE Settled(i)' /\ db'[i] = db[i]
    <3>1. j # i
      BY <2>1, <2>5 DEF Submit, Cancel, MayCancel
    <3>. QED  BY <1>1, <2>0, <2>4, <2>5, <3>1, StaysSettled DEF Submit, Cancel
  <2>6. ASSUME NEW j \in Invoice, Preview(j) \/ CloseDialog(j)
        PROVE  Settled(i)' /\ db'[i] = db[i]
    BY <1>1, <2>0, <2>6, StaysSettled DEF Preview, CloseDialog
  <2>7. ASSUME NEW j \in Invoice, PostInvoice(j) PROVE Settled(i)' /\ db'[i] = db[i]
    <3>1. CASE Postable(db[j], terms[j])
      <4>1. /\ j # i /\ req' = [req EXCEPT ![Scheduler] = Call(j, "POST")]
            /\ UNCHANGED <<db, held>>
        BY <2>1, <2>7, <3>1 DEF PostInvoice
      <4>. QED  BY <1>1, <2>0, <2>2, <4>1, StaysSettled DEF Session
    <3>2. CASE ~Postable(db[j], terms[j])
      BY <1>1, <2>0, <2>7, <3>2, StaysSettled DEF PostInvoice
    <3>. QED  BY <3>1, <3>2
  <2>8. ASSUME NEW w \in Web, NEW j \in Invoice,
               SubmitAndPost(w, j) \/ Generate(w, j) \/ ConfirmPreview(w, j)
        PROVE  Settled(i)' /\ db'[i] = db[i]
    <3>1. j # i /\ UNCHANGED <<db, held>> /\ \E m : req' = [req EXCEPT ![w] = Call(j, m)]
      BY <2>1, <2>8 DEF SubmitAndPost, Generate, ConfirmPreview
    <3>2. \A r \in Session : req'[r] = req[r] \/ req'[r].inv # i
      BY <2>2, <3>1 DEF Session
    <3>. QED  BY <1>1, <2>0, <3>1, <3>2, StaysSettled
  <2>9. ASSUME NEW w \in Web, NEW j \in Invoice, CommitThenPost(w, j)
        PROVE  Settled(i)' /\ db'[i] = db[i]
    <3>1. j # i /\ db' = [db EXCEPT ![j].doc = 1] /\ UNCHANGED held
      BY <2>1, <2>9 DEF CommitThenPost
    <3>2. UNCHANGED req \/ req' = [req EXCEPT ![w] = Call(j, "on_submit")]
      BY <2>9 DEF CommitThenPost
    <3>3. \A r \in Session : req'[r] = req[r] \/ req'[r].inv # i
      BY <2>2, <3>1, <3>2 DEF Session
    <3>4. db'[i] = db[i]
      BY <2>4, <3>1
    <3>. QED  BY <1>1, <2>0, <3>1, <3>3, <3>4, StaysSettled
  <2>10. ASSUME NEW s \in Session, Accept(s) \/ ReturnOriginal(s) \/ Decline(s)
         PROVE  Settled(i)' /\ db'[i] = db[i]
    <3>1. UNCHANGED <<db, held>>
      BY <2>0, <2>10, ProviderStep
    <3>. QED  BY <1>1, <2>0, <2>10, <3>1, RequestKeepsCall, StaysSettled
  <2>11. ASSUME NEW s \in Session, Finish(s) PROVE Settled(i)' /\ db'[i] = db[i]
    <3>1. req[s].inv # i /\ req' = [req EXCEPT ![s] = Idle] /\ UNCHANGED held
      BY <2>1, <2>11 DEF Finish, Raise
    <3>2. db'[i] = db[i]
      BY <2>0, <2>11, <3>1, FinishWrites
    <3>. QED  BY <1>1, <2>0, <2>3, <3>1, <3>2, StaysSettled
  <2>12. ASSUME NEW s \in Session, Rollback(s) PROVE Settled(i)' /\ db'[i] = db[i]
    BY <1>1, <2>0, <2>3, <2>12, StaysSettled DEF Rollback, Raise
  <2>13. CASE StartRun \/ EndRun \/ \E k \in Kind : SelectCompany(k)
    BY <1>1, <2>0, <2>13, StaysSettled DEF StartRun, EndRun, SelectCompany
  <2>14. CASE CrashRun
    <3>1. \A r \in Session : req'[r] = req[r] \/ req'[r] = Idle
      BY <2>3, <2>14 DEF CrashRun, Session
    <3>2. db'[i] = db[i] /\ UNCHANGED held
      BY <2>14 DEF CrashRun
    <3>. QED  BY <1>1, <2>0, <3>1, <3>2, StaysSettled
  <2>15. ASSUME NEW w \in Web, HeldStep(w) PROVE Settled(i)' /\ db'[i] = db[i]
    <3>0. UNCHANGED req /\ \A v \in Web : v # w => held'[v] = held[v]
      BY <2>0, <2>15, HeldStepType
    <3>1. db'[i] = db[i] /\ (held'[w] = Idle \/ held'[w].inv # i)
      <4>1. ASSUME NEW j \in Invoice, BeginCancel(w, j) PROVE UNCHANGED db /\ held'[w].inv # i
        BY <2>0, <2>1, <4>1 DEF BeginCancel, MayCancel, TypeOK
      <4>2. CASE FinishCancel(w)
        <5>1. /\ held[w].pc # "idle" /\ held'[w] = Idle
              /\ \A j \in Invoice : j # held[w].inv => db'[j] = db[j]
          BY <2>0, <4>2, FinishCancelWrites
        <5>. QED  BY <2>1, <5>1
      <4>3. CASE AbandonCancel(w)
        BY <2>0, <4>3 DEF AbandonCancel, TypeOK
      <4>. QED  BY <2>15, <4>1, <4>2, <4>3 DEF HeldStep
    <3>. QED  BY <1>1, <2>0, <3>0, <3>1, StaysSettled
  <2>16. CASE UNCHANGED vars
    BY <1>1, <2>0, <2>16, StaysSettled DEF vars
  <2>. QED  BY <1>1, <2>5, <2>6, <2>7, <2>8, <2>9, <2>10, <2>11, <2>12, <2>13, <2>14, <2>15,
               <2>16 DEF Next, HeldStep
<1>2. BookInv /\ FiscalInv /\ [Next]_vars => [\A i \in Invoice : Kept(i)]_vars
  BY <1>1
<1>3. [\A i \in Invoice : Kept(i)]_vars => [\A i \in Invoice :
        terms[i].kind \in {"dirm", "pergamon"} /\ Settled(i) => Settled(i)' /\ db'[i] = db[i]]_vars
  OBVIOUS
<1>. QED  BY <1>2, <1>3, BookInvariant, FiscalInvariant, PTL DEF Spec, SettledIsFinal

(***************************************************************************)
(* Invoices submitted together with their receipt.                         *)
(***************************************************************************)
Sealed(i) == Autogenerated(i) /\ ~terms[i].split /\ terms[i].kind \in {"vfdplus", "total"}

\* Such an invoice is a draft or has its receipt; nobody previews or selects
\* it, and only submissions call for it.
SealedRow(i) ==
    /\ db[i].doc = 0 \/ (db[i].doc = 1 /\ db[i].status = "Success" /\ db[i].rct > 0)
    /\ i \notin dialog
    /\ i \notin run.todo
    /\ \A s \in Session : InCall(s, i) => req[s].method = "on_submit"
    /\ ~Cancelling(i)

SealedInv ==
    /\ FiscalInv
    /\ \A i \in Invoice : Sealed(i) => SealedRow(i)

\* Writing the answer of a submission seals the invoice with its receipt.
LEMMA FinishSeals ==
    ASSUME SealedInv, NEW s \in Session, Finish(s), Sealed(req[s].inv)
    PROVE  LET i == req[s].inv IN
           db'[i].doc = 1 /\ db'[i].status = "Success" /\ db'[i].rct > 0
<1>. DEFINE i == req[s].inv
            n == req[s].ans
            row == [db[i] EXCEPT !.doc = 1]
            new == Written(terms[i].kind, row, n, "on_submit")
<1>1. /\ TypeOK /\ req[s].pc = "answered" /\ i \in Invoice /\ n \in Nat /\ db[i] \in Row
      /\ terms[i].kind \in {"vfdplus", "total"} /\ ~terms[i].split
  BY CallFields DEF SealedInv, FiscalInv, Finish, Sealed
<1>2. req[s].method = "on_submit" /\ n # 0
  BY <1>1 DEF SealedInv, SealedRow, InCall, FiscalInv, FiscalAnswer
<1>3. db'[i] = new
  BY <1>1, <1>2 DEF Finish, TypeOK
<1>4. row \in Row /\ row.doc = 1
  BY <1>1 DEF Row
<1>. HIDE DEF row
<1>5. new.doc = 1 /\ new.status = "Success" /\ new.rct = n
  BY <1>1, <1>4 DEF Written, VfdplusWrite, TotalWrite, Row
<1>. QED  BY <1>1, <1>2, <1>3, <1>5

\* A step that leaves the row of i alone, neither previews nor selects it,
\* and begins no call for it but a submission, keeps it sealed.
LEMMA StaysSealed ==
    ASSUME TypeOK, NEW i \in Invoice, SealedRow(i), db'[i] = db[i],
           i \in dialog' => i \in dialog, i \in run'.todo => i \in run.todo,
           \A s \in Session :
               \/ req'[s] = req[s] \/ req'[s] = Idle \/ req'[s].inv # i
               \/ req'[s].method = "on_submit"
               \/ /\ req[s].pc # "idle"
                  /\ req'[s].inv = req[s].inv /\ req'[s].method = req[s].method,
           \A w \in Web : held'[w] = held[w] \/ held'[w] = Idle \/ held'[w].inv # i
    PROVE  SealedRow(i)'
BY DEF SealedRow, InCall, Cancelling, Idle

\* Every step keeps the invariant.
LEMMA SealedStep ==
    ASSUME SealedInv, [Next]_vars
    PROVE  SealedInv'
<1>0. TypeOK /\ FiscalInv /\ FiscalInv' /\ UNCHANGED terms
  <2>1. FiscalInv /\ TypeOK
    BY DEF SealedInv, FiscalInv
  <2>2. ASSUME NEW s \in Session, Accept(s) \/ ReturnOriginal(s) \/ Decline(s)
        PROVE  UNCHANGED terms
    BY <2>1, <2>2, ProviderStep, SMTT(60)
  <2>3. UNCHANGED terms
    BY <2>2, ZenonT(60) DEF Next, vars, Submit, Preview, CloseDialog, Cancel, PostInvoice, SubmitAndPost,
       CommitThenPost, Generate, ConfirmPreview, Finish, Rollback, SelectCompany, StartRun,
       EndRun, CrashRun, BeginCancel, FinishCancel, AbandonCancel
  <2>. QED  BY <2>1, <2>3, FiscalStep
<1>1. SUFFICES ASSUME NEW i \in Invoice, Sealed(i), SealedRow(i) PROVE SealedRow(i)'
  BY <1>0 DEF SealedInv, Sealed, Autogenerated
<1>2. ASSUME NEW s \in Session, NEW j \in Invoice, NEW m, j # i \/ m = "on_submit",
             req' = [req EXCEPT ![s] = Call(j, m)]
      PROVE  \A r \in Session : req'[r] = req[r] \/ req'[r].inv # i \/ req'[r].method = "on_submit"
  BY <1>0, <1>2 DEF Call, TypeOK
<1>3. ASSUME NEW s \in Session, req' = [req EXCEPT ![s] = Idle]
      PROVE  \A r \in Session : req'[r] = req[r] \/ req'[r] = Idle
  BY <1>0, <1>3 DEF TypeOK
<1>4. ~MayGenerate(i) /\ db[i].rct \in Nat
  BY <1>0, <1>1, Numbers DEF MayGenerate, SealedRow
<1>5. ASSUME NEW j \in Invoice, Submit(j) PROVE SealedRow(i)'
  <2>1. j # i
    BY <1>1, <1>5 DEF Submit, Sealed
  <2>2. db'[i] = db[i]
    BY <1>0, <1>5, <2>1 DEF Submit, TypeOK
  <2>. QED  BY <1>0, <1>1, <1>5, <2>2, StaysSealed DEF Submit
<1>6. ASSUME NEW j \in Invoice, Cancel(j) PROVE SealedRow(i)'
  <2>1. j # i
    BY <1>1, <1>4, <1>6 DEF Cancel, MayCancel, SealedRow
  <2>2. db'[i] = db[i]
    BY <1>0, <1>6, <2>1 DEF Cancel, TypeOK
  <2>. QED  BY <1>0, <1>1, <1>6, <2>2, StaysSealed DEF Cancel
<1>7. ASSUME NEW j \in Invoice, Preview(j) \/ CloseDialog(j) PROVE SealedRow(i)'
  BY <1>0, <1>1, <1>4, <1>7, StaysSealed DEF Preview, CloseDialog
<1>8. ASSUME NEW j \in Invoice, PostInvoice(j) PROVE SealedRow(i)'
  <2>1. j # i /\ i \notin run'.todo
    BY <1>0, <1>1, <1>8 DEF PostInvoice, SealedRow, TypeOK, Run
  <2>2. UNCHANGED <<db, dialog, held>>
        /\ (req' = [req EXCEPT ![Scheduler] = Call(j, "POST")] \/ req' = req)
    BY <1>8 DEF PostInvoice
  <2>3. \A r \in Session : req'[r] = req[r] \/ req'[r].inv # i \/ req'[r].method = "on_submit"
    BY <1>2, <2>1, <2>2 DEF Session
  <2>. QED  BY <1>0, <1>1, <2>1, <2>2, <2>3, StaysSealed
<1>9. ASSUME NEW w \in Web, NEW j \in Invoice, SubmitAndPost(w, j) PROVE SealedRow(i)'
  <2>1. \A r \in Session : req'[r] = req[r] \/ req'[r].inv # i \/ req'[r].method = "on_submit"
    BY <1>2, <1>9 DEF SubmitAndPost, Session
  <2>. QED  BY <1>0, <1>1, <1>9, <2>1, StaysSealed DEF SubmitAndPost
<1>10. ASSUME NEW w \in Web, NEW j \in Invoice, CommitThenPost(w, j) PROVE SealedRow(i)'
  <2>1. j # i
    BY <1>1, <1>10 DEF CommitThenPost, Sealed
  <2>2. db'[i] = db[i]
    BY <1>0, <1>10, <2>1 DEF CommitThenPost, TypeOK
  <2>3. UNCHANGED req \/ req' = [req EXCEPT ![w] = Call(j, "on_submit")]
    BY <1>10 DEF CommitThenPost
  <2>4. \A r \in Session : req'[r] = req[r] \/ req'[r].inv # i \/ req'[r].method = "on_submit"
    BY <1>2, <2>3 DEF Session
  <2>. QED  BY <1>0, <1>1, <1>10, <2>2, <2>4, StaysSealed DEF CommitThenPost
<1>11. ASSUME NEW w \in Web, NEW j \in Invoice, Generate(w, j) \/ ConfirmPreview(w, j)
       PROVE  SealedRow(i)'
  <2>1. j # i
    BY <1>1, <1>4, <1>11 DEF Generate, ConfirmPreview, SealedRow
  <2>2. req' = [req EXCEPT ![w] = Call(j, "POST")] /\ UNCHANGED <<db, dialog, run, held>>
    BY <1>11 DEF Generate, ConfirmPreview
  <2>3. \A r \in Session : req'[r] = req[r] \/ req'[r].inv # i \/ req'[r].method = "on_submit"
    BY <1>2, <2>1, <2>2 DEF Session
  <2>. QED  BY <1>0, <1>1, <2>2, <2>3, StaysSealed
<1>12. ASSUME NEW s \in Session, Accept(s) \/ ReturnOriginal(s) \/ Decline(s)
       PROVE  SealedRow(i)'
  <2>1. UNCHANGED <<db, dialog, run, held>>
    BY <1>0, <1>12, ProviderStep
  <2>. QED  BY <1>0, <1>1, <1>12, <2>1, RequestKeepsCall, StaysSealed
<1>13. ASSUME NEW s \in Session, Finish(s) PROVE SealedRow(i)'
  <2>1. req' = [req EXCEPT ![s] = Idle] /\ UNCHANGED <<dialog, run, held>>
    BY <1>13 DEF Finish, Raise
  <2>2. \A r \in Session : req'[r] = req[r] \/ req'[r] = Idle
    BY <1>3, <2>1
  <2>3. CASE req[s].inv # i
    <3>1. db'[i] = db[i]
      BY <1>0, <1>13, <2>3, FinishWrites
    <3>. QED  BY <1>0, <1>1, <2>1, <2>2, <3>1, StaysSealed
  <2>4. CASE req[s].inv = i
    <3>1. db'[i].doc = 1 /\ db'[i].status = "Success" /\ db'[i].rct > 0
      BY <1>1, <1>13, <2>4, FinishSeals
    <3>. QED  BY <1>1, <2>1, <2>2, <3>1 DEF SealedRow, InCall, Cancelling, Idle
  <2>. QED  BY <2>3, <2>4
<1>14. ASSUME NEW s \in Session, Rollback(s) PROVE SealedRow(i)'
  <2>1. \A r \in Session : req'[r] = req[r] \/ req'[r] = Idle
    BY <1>3, <1>14 DEF Rollback, Raise
  <2>. QED  BY <1>0, <1>1, <1>14, <2>1, StaysSealed DEF Rollback
<1>15. ASSUME NEW k \in Kind, SelectCompany(k) PROVE SealedRow(i)'
  <2>1. run'.todo = Selected(k)
    BY <1>0, <1>15 DEF SelectCompany, TypeOK, Run
  <2>2. ASSUME i \in Selected(k) PROVE db[i].doc = 1 /\ db[i].status # "Success"
    BY <2>2 DEF Selected
  <2>3. db[i].doc = 0 \/ db[i].status = "Success"
    BY <1>1 DEF SealedRow
  <2>4. i \notin Selected(k)
    BY <2>2, <2>3
  <2>. QED  BY <1>0, <1>1, <1>15, <2>1, <2>4, StaysSealed DEF SelectCompany
<1>16. CASE StartRun \/ EndRun
  BY <1>0, <1>1, <1>16, StaysSealed DEF StartRun, EndRun, NoRun
<1>17. CASE CrashRun
  <2>1. \A r \in Session : req'[r] = req[r] \/ req'[r] = Idle
    BY <1>3, <1>17 DEF CrashRun, Session
  <2>. QED  BY <1>0, <1>1, <1>17, <2>1, StaysSealed DEF CrashRun, NoRun
<1>18. ASSUME NEW w \in Web, HeldStep(w) PROVE SealedRow(i)'
  <2>0. /\ UNCHANGED <<req, dialog, run>>
        /\ \A v \in Web : v # w => held'[v] = held[v]
    BY <1>0, <1>18, HeldStepType
  <2>1. db'[i] = db[i] /\ (held'[w] = Idle \/ held'[w].inv # i)
    <3>1. ASSUME NEW j \in Invoice, BeginCancel(w, j) PROVE UNCHANGED db /\ held'[w].inv # i
      BY <1>0, <1>1, <3>1 DEF BeginCancel, MayCancel, SealedRow, TypeOK
    <3>2. CASE FinishCancel(w)
      <4>1. /\ held[w].pc # "idle" /\ held'[w] = Idle
            /\ \A j \in Invoice : j # held[w].inv => db'[j] = db[j]
        BY <1>0, <3>2, FinishCancelWrites
      <4>. QED  BY <1>1, <4>1 DEF SealedRow, Cancelling
    <3>3. CASE AbandonCancel(w)
      BY <1>0, <3>3 DEF AbandonCancel, TypeOK
    <3>. QED  BY <1>18, <3>1, <3>2, <3>3 DEF HeldStep
  <2>. QED  BY <1>0, <1>1, <2>0, <2>1, StaysSealed
<1>19. CASE UNCHANGED vars
  BY <1>0, <1>1, <1>19, StaysSealed DEF vars
<1>. QED  BY <1>5, <1>6, <1>7, <1>8, <1>9, <1>10, <1>11, <1>12, <1>13, <1>14, <1>15, <1>16,
             <1>17, <1>18, <1>19 DEF Next, HeldStep

\* With VFDPlus and Total VFD an invoice that is posted in its own submission
\* is a draft or has its receipt, unless the delivery hook has committed it.
THEOREM SubmittedTogether == Spec => []SubmittedWithReceipt
<1>1. Init => SealedInv
  <2>1. ASSUME Init, NEW i \in Invoice PROVE SealedRow(i)
    BY <2>1 DEF Init, SealedRow, Draft, NoRun, InCall, Cancelling, Idle
  <2>2. Init => FiscalInv
    BY FiscalInit
  <2>. QED  BY <2>1, <2>2 DEF SealedInv
<1>2. SealedInv /\ [Next]_vars => SealedInv'
  BY SealedStep
<1>3. SealedInv => SubmittedWithReceipt
  <2>1. ASSUME SealedInv, NEW i \in Invoice, Sealed(i), db[i].doc # 0
        PROVE  db[i].doc = 1 /\ db[i].status = "Success" /\ receipts[i] > 0
    <3>1. db[i].doc = 1 /\ db[i].status = "Success" /\ db[i].rct > 0
      BY <2>1 DEF SealedInv, SealedRow
    <3>2. db[i].rct <= receipts[i] /\ db[i].rct \in Nat /\ receipts[i] \in Nat
      BY <2>1, Numbers DEF SealedInv, FiscalInv, FiscalRow
    <3>. QED  BY <3>1, <3>2
  <2>. QED  BY <2>1 DEF SubmittedWithReceipt, Sealed
<1>. QED  BY <1>1, <1>2, <1>3, PTL DEF Spec
=============================================================================
