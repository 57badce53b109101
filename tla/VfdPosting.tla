----------------------------- MODULE VfdPosting -----------------------------
(***************************************************************************)
(* Fiscalisation of Sales Invoices (csf_tz/vfd_support and the five        *)
(* providers of csf_tz/vfd_providers).                                     *)
(*                                                                         *)
(* A web session submits an invoice (the receipt is then posted inside the *)
(* submitting transaction), asks for a receipt from the form, or confirms  *)
(* the preview dialog.  A cron job posts the invoices an earlier attempt   *)
(* left open.  A session reads the invoice, calls the provider, which may  *)
(* accept, refuse, or lose the call or the answer, and then writes what it *)
(* heard and commits, or is rolled back.  A cancellation that commits on   *)
(* its way ends by writing the row it has read at its beginning.           *)
(***************************************************************************)
EXTENDS Naturals, FiniteSets

CONSTANTS
    Invoice,      \* Sales Invoices
    Web,          \* web sessions
    Scheduler,    \* the background worker running posting_all_vfd_invoices
    Terms,        \* the terms (below) an invoice may have
    Attempts,     \* requests per call of a provider that repeats a request
    MaxReceipts,  \* bound: receipts TRA issues for one invoice
    MaxCrashes    \* bound: how often the cron job is killed

Session == Web \cup {Scheduler}

Kind == {"vfdplus", "total", "simplify", "dirm", "pergamon"}

\* What is fixed before submission: the provider of the invoice's company,
\* whether the invoice is outside VFD (is_not_vfd_invoice or is_return), dated
\* before vfd_start_date, marked is_auto_generate_vfd, whether the company's
\* settings ask for a preview, whether the invoice updates stock, and whether
\* it does or has an item not kept in stock (split), for which
\* check_submit_delivery_note commits the submission before autogenerate_vfd.
TermsType ==
    {t \in [kind : Kind, exempt : BOOLEAN, early : BOOLEAN, auto : BOOLEAN,
            preview : BOOLEAN, split : BOOLEAN, updates : BOOLEAN] : t.updates => t.split}

ASSUME SessionAssumption == Scheduler \notin Web
ASSUME TermsAssumption == Terms \subseteq TermsType
ASSUME AttemptsAssumption == Attempts \in Nat \ {0}
ASSUME BoundAssumption == MaxReceipts \in Nat \ {0} /\ MaxCrashes \in Nat

VARIABLES
    terms,     \* terms[i], never changed
    db,        \* committed Sales Invoice rows
    receipts,  \* receipts[i]: how many receipts TRA holds for i, numbered from 1
    req,       \* req[s]: the provider call session s is in
    dialog,    \* invoices with an open preview dialog
    run,       \* the run of the cron job
    crashes,   \* how often the cron job was killed
    held       \* held[w]: the cancellation web session w is in

vars == <<terms, db, receipts, req, dialog, run, crashes, held>>

(***************************************************************************)
(* Types.  A row keeps docstatus, vfd_status, vfd_rctvnum (0: none) and    *)
(* the outcome in the VFD Provider Posting that vfd_posting_info links.    *)
(***************************************************************************)
Status == {"Not Sent", "Failed", "Success"}

Row == [doc : 0..2, status : Status, rct : Nat, info : {"none", "accepted", "refused"}]

Draft == [doc |-> 0, status |-> "Not Sent", rct |-> 0, info |-> "none"]

\* "send": a request is with the provider; "answered": ans is to be written.
Busy == [pc : {"send", "answered"}, inv : Invoice, method : {"on_submit", "POST"},
         tries : 0..(Attempts - 1), ans : Nat]
Idle == [pc |-> "idle"]

\* A cancellation that has committed: row is the invoice as it was read.
Cancellation == [pc : {"cancel"}, inv : Invoice, row : Row]

\* companies: providers the run has still to visit; todo: invoices selected.
Run == [on : BOOLEAN, companies : SUBSET Kind, todo : SUBSET Invoice]
NoRun == [on |-> FALSE, companies |-> {}, todo |-> {}]

TypeOK ==
    /\ terms \in [Invoice -> Terms]
    /\ db \in [Invoice -> Row]
    /\ receipts \in [Invoice -> 0..MaxReceipts]
    /\ req \in [Session -> Busy \cup {Idle}]
    /\ dialog \subseteq Invoice
    /\ run \in Run
    /\ crashes \in 0..MaxCrashes
    /\ held \in [Web -> Cancellation \cup {Idle}]

Init ==
    /\ terms \in [Invoice -> Terms]
    /\ db = [i \in Invoice |-> Draft]
    /\ receipts = [i \in Invoice |-> 0]
    /\ req = [s \in Session |-> Idle]
    /\ dialog = {}
    /\ run = NoRun
    /\ crashes = 0
    /\ held = [w \in Web |-> Idle]

(***************************************************************************)
(* The providers.  A request that is not answered with a receipt ends in a *)
(* fault: no response, a response with an HTTP error status, or a          *)
(* well-formed refusal.  The sender repeats the request, raises, or hands  *)
(* the refusal to post_fiscal_receipt, which records it.                   *)
(***************************************************************************)
VfdplusVerdict(f) == "retry"
\* Mutant: the last failed request is reported instead of raised.
TotalVerdictSwallow(f) == "record"
TotalVerdict(f) == "retry"
SimplifyVerdict(f) == IF f = "refusal" THEN "record" ELSE "retry"
DirmVerdict(f) ==
    CASE f = "transport" -> "retry" [] f = "httpError" -> "raise" [] OTHER -> "record"
PergamonVerdict(f) == "record"

Verdict(k, f) ==
    CASE k = "vfdplus" -> VfdplusVerdict(f) [] k = "total" -> TotalVerdict(f)
      [] k = "simplify" -> SimplifyVerdict(f) [] k = "dirm" -> DirmVerdict(f)
      [] OTHER -> PergamonVerdict(f)

\* Every 2xx answer of Total VFD is taken as a receipt.
Fault(k) == {"transport", "httpError"} \cup (IF k = "total" THEN {} ELSE {"refusal"})

\* A second request for the same invoice is answered with the first receipt:
\* VFDPlus code 4015, Total VFD status 409, Pergamon's existing receipt.
Deduplicates(k) == k \in {"vfdplus", "total", "pergamon"}

\* The check of a provider's own post_fiscal_receipt on the invoice it read.
\* Mutant: the status is not looked at again.
DirmPostableAnyStatus(row, t) == ~t.exempt
DirmPostable(row, t) == row.status # "Success" /\ ~t.exempt
\* Mutant: only a first attempt passes.
PergamonPostableOnce(row, t) == row.doc = 1 /\ ~t.exempt /\ row.status = "Not Sent"
PergamonPostable(row, t) == row.doc = 1 /\ ~t.exempt /\ row.status # "Success"

Postable(row, t) ==
    /\ t.kind = "dirm" => DirmPostable(row, t)
    /\ t.kind = "pergamon" => PergamonPostable(row, t)

\* The row after post_fiscal_receipt has written answer n (0: refused).
Outcome(n) == IF n > 0 THEN "accepted" ELSE "refused"
StatusOf(n) == IF n > 0 THEN "Success" ELSE "Failed"

VfdplusWrite(row, n) == [row EXCEPT !.status = "Success", !.rct = n, !.info = "accepted"]
TotalWrite(row, n) == [row EXCEPT !.status = "Success", !.rct = n, !.info = "accepted"]
SimplifyWrite(row, n, method) ==
    [row EXCEPT !.status = IF method = "on_submit" THEN StatusOf(n) ELSE "Success",
                !.rct = n, !.info = Outcome(n)]
\* Mutant: a refusal overwrites the receipt number.
DirmWriteClears(row, n) == [row EXCEPT !.status = StatusOf(n), !.rct = n, !.info = Outcome(n)]
DirmWrite(row, n) ==
    [row EXCEPT !.status = StatusOf(n), !.rct = IF n > 0 THEN n ELSE @, !.info = Outcome(n)]
\* Mutant: the status does not depend on the answer.
PergamonWriteSuccess(row, n) == [row EXCEPT !.status = "Success", !.info = Outcome(n)]
PergamonWrite(row, n) ==
    [row EXCEPT !.status = StatusOf(n), !.rct = IF n > 0 THEN n ELSE @, !.info = Outcome(n)]

Written(k, row, n, method) ==
    CASE k = "vfdplus" -> VfdplusWrite(row, n) [] k = "total" -> TotalWrite(row, n)
      [] k = "simplify" -> SimplifyWrite(row, n, method) [] k = "dirm" -> DirmWrite(row, n)
      [] OTHER -> PergamonWrite(row, n)

(***************************************************************************)
(* Web sessions.                                                           *)
(***************************************************************************)
Call(i, method) == [pc |-> "send", inv |-> i, method |-> method, tries |-> 0, ans |-> 0]

InCall(s, i) == req[s].pc # "idle" /\ req[s].inv = i

\* A submission in progress has written the row: a second one waits on it.
Submitting(i) == \E s \in Web : InCall(s, i) /\ req[s].method = "on_submit"

Free(w) == req[w] = Idle /\ held[w] = Idle

Autogenerated(i) == terms[i].auto /\ ~terms[i].exempt

\* Submission of an invoice autogenerate_vfd leaves alone.
Submit(i) ==
    /\ db[i].doc = 0 /\ ~Autogenerated(i)
    /\ db' = [db EXCEPT ![i].doc = 1]
    /\ UNCHANGED <<terms, receipts, req, dialog, run, crashes, held>>

\* Submission that posts the receipt first; before the start date it throws.
SubmitAndPost(w, i) ==
    /\ Free(w) /\ db[i].doc = 0 /\ ~Submitting(i)
    /\ Autogenerated(i) /\ ~terms[i].split /\ ~terms[i].early
    /\ req' = [req EXCEPT ![w] = Call(i, "on_submit")]
    /\ UNCHANGED <<terms, db, receipts, dialog, run, crashes, held>>

\* Submission that the delivery hook commits before the receipt is posted:
\* what goes wrong afterwards, the start date included, leaves it submitted.
CommitThenPost(w, i) ==
    /\ Free(w) /\ db[i].doc = 0
    /\ Autogenerated(i) /\ terms[i].split
    /\ db' = [db EXCEPT ![i].doc = 1]
    /\ req' = IF terms[i].early THEN req ELSE [req EXCEPT ![w] = Call(i, "on_submit")]
    /\ UNCHANGED <<terms, receipts, dialog, run, crashes, held>>

\* The checks of generate_tra_vfd, from a form that showed a submitted invoice
\* and may be stale: the invoice can have been cancelled since.
MayGenerate(i) ==
    /\ db[i].doc # 0 /\ db[i].status # "Success"
    /\ ~terms[i].exempt /\ ~terms[i].early

Generate(w, i) ==
    /\ Free(w) /\ MayGenerate(i) /\ ~terms[i].preview
    /\ Postable(db[i], terms[i])
    /\ req' = [req EXCEPT ![w] = Call(i, "POST")]
    /\ UNCHANGED <<terms, db, receipts, dialog, run, crashes, held>>

Preview(i) ==
    /\ MayGenerate(i) /\ terms[i].preview
    /\ dialog' = dialog \cup {i}
    /\ UNCHANGED <<terms, db, receipts, req, run, crashes, held>>

\* "Send To TRA" calls the provider's post_fiscal_receipt directly.
ConfirmPreview(w, i) ==
    /\ Free(w) /\ i \in dialog /\ Postable(db[i], terms[i])
    /\ req' = [req EXCEPT ![w] = Call(i, "POST")]
    /\ UNCHANGED <<terms, db, receipts, dialog, run, crashes, held>>

CloseDialog(i) ==
    /\ i \in dialog
    /\ dialog' = dialog \ {i}
    /\ UNCHANGED <<terms, db, receipts, req, run, crashes, held>>

MayCancel(row) == row.rct = 0

\* An invoice that updates stock is cancelled in one transaction.
Cancel(i) ==
    /\ db[i].doc = 1 /\ MayCancel(db[i]) /\ terms[i].updates
    /\ db' = [db EXCEPT ![i].doc = 2]
    /\ UNCHANGED <<terms, receipts, req, dialog, run, crashes, held>>

\* For any other, check_cancel_delivery_note commits what it resets once
\* validate_cancel has passed, which gives up the lock on the invoice.
BeginCancel(w, i) ==
    /\ Free(w) /\ db[i].doc = 1 /\ MayCancel(db[i]) /\ ~terms[i].updates
    /\ held' = [held EXCEPT ![w] = [pc |-> "cancel", inv |-> i, row |-> db[i]]]
    /\ UNCHANGED <<terms, db, receipts, req, dialog, run, crashes>>

\* Every field of the invoice is then written as it was read, with docstatus 2,
\* over whatever has been committed in between.
FinishCancel(w) ==
    /\ held[w] # Idle
    /\ db' = [db EXCEPT ![held[w].inv] = [held[w].row EXCEPT !.doc = 2]]
    /\ held' = [held EXCEPT ![w] = Idle]
    /\ UNCHANGED <<terms, receipts, req, dialog, run, crashes>>

\* A later step of the cancellation raises: the invoice stays as it is.
AbandonCancel(w) ==
    /\ held[w] # Idle
    /\ held' = [held EXCEPT ![w] = Idle]
    /\ UNCHANGED <<terms, db, receipts, req, dialog, run, crashes>>

(***************************************************************************)
(* A provider call: one request, its answer, the write.                    *)
(***************************************************************************)
Hear(s, n) == req' = [req EXCEPT ![s].pc = "answered", ![s].ans = n]
Raise(s) == req' = [req EXCEPT ![s] = Idle]

Miss(s, f) ==
    LET v == Verdict(terms[req[s].inv].kind, f) IN
    \/ v = "record" /\ Hear(s, 0)
    \/ v = "raise" /\ Raise(s)
    \/ v = "retry" /\ req[s].tries + 1 < Attempts
       /\ req' = [req EXCEPT ![s].tries = @ + 1]
    \/ v = "retry" /\ req[s].tries + 1 = Attempts /\ Raise(s)

\* TRA issues a receipt, and the answer arrives or is lost.
Accept(s) ==
    /\ req[s].pc = "send"
    /\ LET i == req[s].inv IN
       /\ receipts[i] < MaxReceipts
       /\ receipts[i] = 0 \/ ~Deduplicates(terms[i].kind)
       /\ receipts' = [receipts EXCEPT ![i] = @ + 1]
       /\ \/ Hear(s, receipts[i] + 1)
          \/ \E f \in {"transport", "httpError"} : Miss(s, f)
    /\ UNCHANGED <<terms, db, dialog, run, crashes, held>>

\* The provider returns the receipt it holds already.
ReturnOriginal(s) ==
    /\ req[s].pc = "send"
    /\ receipts[req[s].inv] > 0 /\ Deduplicates(terms[req[s].inv].kind)
    /\ Hear(s, 1)
    /\ UNCHANGED <<terms, db, receipts, dialog, run, crashes, held>>

\* The request is lost or turned down, or an answer of the provider is lost.
Decline(s) ==
    /\ req[s].pc = "send"
    /\ \E f \in Fault(terms[req[s].inv].kind) : Miss(s, f)
    /\ UNCHANGED <<terms, db, receipts, dialog, run, crashes, held>>

\* The answer is written and committed, with the submission it belongs to.
Finish(s) ==
    /\ req[s].pc = "answered"
    /\ LET i == req[s].inv
           row == IF req[s].method = "on_submit" /\ ~terms[i].split
                  THEN [db[i] EXCEPT !.doc = 1] ELSE db[i]
       IN  db' = [db EXCEPT ![i] = Written(terms[i].kind, row, req[s].ans, req[s].method)]
    /\ Raise(s)
    /\ UNCHANGED <<terms, receipts, dialog, run, crashes, held>>

\* The session fails before it commits: a token that cannot be had, a later
\* step of the submission, a killed worker.  Its writes are rolled back; the
\* cron job catches the exception and goes on with its next invoice.
Rollback(s) ==
    /\ req[s].pc # "idle"
    /\ Raise(s)
    /\ UNCHANGED <<terms, db, receipts, dialog, run, crashes, held>>

(***************************************************************************)
(* The cron job posting_all_vfd_invoices.                                  *)
(***************************************************************************)
StartRun ==
    /\ ~run.on
    /\ run' = [on |-> TRUE, companies |-> {terms[i].kind : i \in Invoice}, todo |-> {}]
    /\ UNCHANGED <<terms, db, receipts, req, dialog, crashes, held>>

\* The code's filter is "not in [Not Sent, Success]".
Selected(k) ==
    {i \in Invoice : /\ terms[i].kind = k /\ ~terms[i].exempt /\ ~terms[i].early
                     /\ db[i].doc = 1 /\ db[i].status \notin {"Not Sent", "Success"}}

SelectCompany(k) ==
    /\ run.on /\ run.todo = {} /\ req[Scheduler] = Idle /\ k \in run.companies
    /\ run' = [run EXCEPT !.companies = @ \ {k}, !.todo = Selected(k)]
    /\ UNCHANGED <<terms, db, receipts, req, dialog, crashes, held>>

\* post_invoice reads the invoice again; a provider that refuses it raises,
\* which is logged.
PostInvoice(i) ==
    /\ run.on /\ i \in run.todo /\ req[Scheduler] = Idle
    /\ run' = [run EXCEPT !.todo = @ \ {i}]
    /\ req' = IF Postable(db[i], terms[i])
              THEN [req EXCEPT ![Scheduler] = Call(i, "POST")] ELSE req
    /\ UNCHANGED <<terms, db, receipts, dialog, crashes, held>>

\* Mutant: an exception ends the run with invoices left to post.
EndRunEarly ==
    /\ run.on /\ req[Scheduler] = Idle
    /\ run' = NoRun
    /\ UNCHANGED <<terms, db, receipts, req, dialog, crashes, held>>

EndRun ==
    /\ run.on /\ run.companies = {} /\ run.todo = {} /\ req[Scheduler] = Idle
    /\ run' = NoRun
    /\ UNCHANGED <<terms, db, receipts, req, dialog, crashes, held>>

\* The worker is killed: the rest of the run is forgotten.
CrashRun ==
    /\ run.on /\ crashes < MaxCrashes
    /\ run' = NoRun
    /\ req' = [req EXCEPT ![Scheduler] = Idle]
    /\ crashes' = crashes + 1
    /\ UNCHANGED <<terms, db, receipts, dialog, held>>

Next ==
    \/ \E i \in Invoice : \/ Submit(i) \/ Preview(i) \/ CloseDialog(i) \/ Cancel(i)
                          \/ PostInvoice(i)
    \/ \E w \in Web, i \in Invoice :
          \/ SubmitAndPost(w, i) \/ CommitThenPost(w, i)
          \/ Generate(w, i) \/ ConfirmPreview(w, i) \/ BeginCancel(w, i)
    \/ \E w \in Web : FinishCancel(w) \/ AbandonCancel(w)
    \/ \E s \in Session :
          Accept(s) \/ ReturnOriginal(s) \/ Decline(s) \/ Finish(s) \/ Rollback(s)
    \/ \E k \in Kind : SelectCompany(k)
    \/ StartRun \/ EndRun \/ CrashRun

Spec == Init /\ [][Next]_vars

(***************************************************************************)
(* Safety.                                                                 *)
(***************************************************************************)
\* Simplify's POST branch writes Success whatever the answer was; the other
\* providers' branches tell an accepted receipt from a refusal.
Honest == {i \in Invoice : terms[i].kind # "simplify"}

\* The books say Success only for an invoice TRA holds a receipt of, they name
\* a receipt that exists, and the posting they link tells of an acceptance
\* (the values written by each post_fiscal_receipt, over retries, lost
\* answers, concurrent sessions and rollbacks).
SuccessIsFiscalised ==
    \A i \in Honest : db[i].status = "Success" =>
        db[i].rct \in 1..receipts[i] /\ db[i].info = "accepted"

\* An invoice that is not for TRA, or is dated before vfd_start_date, never
\* reaches TRA, whichever way it is posted (the filters of generate_tra_vfd,
\* autogenerate_vfd, posting_all_vfd_invoices and the providers).
OutsideNeverReachesTra ==
    \A i \in Invoice : terms[i].exempt \/ terms[i].early =>
        receipts[i] = 0 /\ \A s \in Session : ~InCall(s, i)

\* With a provider that raises on every failure, an invoice to be generated
\* automatically is submitted together with its receipt or not at all, and
\* can then no longer be cancelled (autogenerate_vfd, validate_cancel) -
\* unless check_submit_delivery_note has committed the submission before.
SubmittedWithReceipt ==
    \A i \in Invoice :
        Autogenerated(i) /\ ~terms[i].split /\ terms[i].kind \in {"vfdplus", "total"}
            /\ db[i].doc # 0 =>
            db[i].doc = 1 /\ db[i].status = "Success" /\ receipts[i] > 0

\* The cron job posts only invoices an earlier attempt has already written a
\* posting for; one that was never attempted waits for its cashier (the
\* "Not Sent" of posting_all_vfd_invoices' filter), unless a cancellation has
\* meanwhile written back the row of before the attempt.
OnlyAttemptedIsScheduled ==
    \A i \in Invoice :
        (i \in run.todo \/ InCall(Scheduler, i)) =>
            db[i].doc # 0 /\ (db[i].info # "none" \/ db[i].doc = 2)

Cancelling(i) == \E w \in Web : held[w].pc # "idle" /\ held[w].inv = i

\* The books are settled on i: it is Success, and nobody is in a call for it
\* or has begun to cancel it.
Settled(i) ==
    /\ db[i].status = "Success"
    /\ (\A s \in Session : ~InCall(s, i)) /\ ~Cancelling(i)

\* DIRM and Pergamon check an invoice wherever a call begins, so a settled
\* invoice stays settled: no stale list, dialog or form sends it again, and
\* nothing turns it back into Failed or cancels it (validate_postable and
\* validate_cancel).  A cancellation that passed validate_cancel before the
\* receipt was recorded is excluded: SentIsNotCancelled shows what it does.
SettledIsFinal ==
    [][\A i \in Invoice :
        terms[i].kind \in {"dirm", "pergamon"} /\ Settled(i) => Settled(i)' /\ db'[i] = db[i]]_vars

\* The promise of FiscalLedger, for the providers that keep it: the books lose
\* the number of a receipt by a cancellation only, and by none that was begun
\* when they named it.  Terms never change, so Honest stands for a constant
\* set of invoices.
Ledger ==
    INSTANCE FiscalLedger WITH
        issued <- receipts,
        recorded <- [i \in Invoice |-> IF i \in Honest THEN db[i].rct ELSE 0],
        leaving <- {i \in Invoice : Cancelling(i)}
LedgerSpec == Ledger!Spec

(***************************************************************************)
(* Liveness.  Frappe starts the cron job every quarter of an hour and the  *)
(* worker goes on until it is killed: weak fairness of its own steps.      *)
(***************************************************************************)
CronStep ==
    \/ StartRun \/ EndRun
    \/ \E k \in Kind : SelectCompany(k)
    \/ \E i \in Invoice : PostInvoice(i)
    \/ Decline(Scheduler) \/ Accept(Scheduler) \/ ReturnOriginal(Scheduler) \/ Finish(Scheduler)

\* For the second property, a provider that is asked again and again answers
\* at some time, and the worker is not stopped between an answer and its
\* commit for ever.
Answered(s, i) ==
    /\ InCall(s, i)
    /\ Accept(s) \/ ReturnOriginal(s)
    /\ req'[s] # Idle /\ req'[s].pc = "answered" /\ req'[s].ans > 0

Recorded(s, i) == InCall(s, i) /\ Finish(s) /\ req[s].ans > 0

FairSpec ==
    /\ Spec /\ WF_vars(CronStep)
    /\ \A i \in Invoice : SF_vars(Answered(Scheduler, i))
                         /\ SF_vars(Recorded(Scheduler, i))

Open(i) == db[i].doc = 1 /\ db[i].status = "Failed"

\* Every open invoice is posted again by the cron job, or stops being open,
\* even while others of the same run are refused each time ("a rejected
\* invoice must not stop or undo the rest of the run", post_invoice).
OpenIsRetried == \A i \in Invoice : Open(i) ~> (InCall(Scheduler, i) \/ ~Open(i))

\* An invoice whose receipt or refusal was recorded as Failed by Pergamon,
\* perhaps although TRA holds the receipt, ends as Success or cancelled.
OpenIsSettled ==
    \A i \in Invoice : terms[i].kind = "pergamon" /\ Open(i) ~> ~Open(i)

(***************************************************************************)
(* What the repository says and the code does not keep.                    *)
(***************************************************************************)
\* A receipt Simplify refused must leave the invoice Failed: Success only for
\* an invoice TRA holds a receipt of.
SimplifySuccessIsFiscalised ==
    \A i \in Invoice : terms[i].kind = "simplify" /\ db[i].status = "Success" => receipts[i] > 0

\* "This invoice cannot be canceled as it is already sent to TRA"
\* (validate_cancel): an invoice whose receipt number is in the books stays
\* submitted.
SentIsNotCancelled ==
    [][\A i \in Invoice : db[i].doc = 1 /\ db[i].rct > 0 => db'[i].doc = 1]_vars
=============================================================================
