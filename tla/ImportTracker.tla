--------------------------- MODULE ImportTracker ---------------------------
(***************************************************************************)
(* Foreign import tracking (csf_tz/csftz_hooks/exchange_calculations.py    *)
(* and the doctype Foreign Import Transaction): every Purchase Invoice in  *)
(* a foreign currency gets a tracker that gathers the supplier's payments, *)
(* the Landed Cost Vouchers and the exchange differences they cause, and   *)
(* posts a Journal Entry for each difference.                              *)
(*                                                                         *)
(* An action is one request.  The functions catch their exceptions and go  *)
(* on, and a request that ends normally commits, so that what was written  *)
(* before an exception stays written.  A tracker is named by its invoice.  *)
(***************************************************************************)
EXTENDS Integers, FiniteSets, FiniteSetsExt, Functions

CONSTANTS
    Invoice, Payment, Voucher,   \* Purchase Invoices, Payment Entries, Landed Cost Vouchers
    None,
    Amount, Paid,                \* what an invoice asks for, what a payment pays
    Day,                         \* the order of the invoices' dates
    Differs,                     \* <<d, i>>: d's rate differs enough from that of i
    Payable,                     \* <<p, i>>: p pays in the currency of i
    MaxEntries,                  \* bound: Journal Entries made for a tracker
    MaxManual                    \* bound: manual differences of a tracker

Document == Invoice \cup Payment \cup Voucher

ASSUME DocumentAssumption ==
    /\ Invoice \cap Payment = {} /\ Invoice \cap Voucher = {} /\ Payment \cap Voucher = {}
    /\ None \notin Invoice /\ IsFiniteSet(Payment) /\ IsFiniteSet(Voucher)
ASSUME RateAssumption == Differs \subseteq (Payment \cup Voucher) \X Invoice
ASSUME BoundAssumption == MaxEntries \in [Invoice -> Nat] /\ MaxManual \in [Invoice -> Nat]

VARIABLES
    doc,       \* docstatus of the invoices, payments and vouchers
    tracker,   \* the tracker of each invoice
    linked,    \* Payment Entry.foreign_import_tracker
    made,      \* how many Journal Entries were made for a tracker
    posted,    \* those that are submitted
    stuck      \* those whose cancellation failed

entries == <<made, posted, stuck>>
vars == <<doc, tracker, linked, entries>>

Entry == Nat \ {0}
NoEntry == 0

\* A row of exchange_differences; the user entered a manual one.
Difference == [ref : Document, manual : BOOLEAN, entry : Entry \cup {NoEntry}]

Tracker == [doc : {"none", "draft", "submitted", "cancelled"},
            status : {"none", "Draft", "Active", "Completed", "Cancelled"},
            payments : SUBSET Payment, vouchers : SUBSET Voucher,
            differences : SUBSET Difference]

NoTracker == [doc |-> "none", status |-> "none",
              payments |-> {}, vouchers |-> {}, differences |-> {}]

TypeOK ==
    /\ doc \in [Document -> {"draft", "submitted", "cancelled"}]
    /\ tracker \in [Invoice -> Tracker]
    /\ linked \in [Payment -> Invoice \cup {None}]
    /\ made \in [Invoice -> Nat]
    /\ \A i \in Invoice : posted[i] \cup stuck[i] \subseteq 1..made[i] /\ made[i] <= MaxEntries[i]
    /\ posted \in [Invoice -> SUBSET Entry] /\ stuck \in [Invoice -> SUBSET Entry]

Init ==
    /\ doc = [d \in Document |-> "draft"]
    /\ tracker = [i \in Invoice |-> NoTracker]
    /\ linked = [p \in Payment |-> None]
    /\ made = [i \in Invoice |-> 0]
    /\ posted = [i \in Invoice |-> {}] /\ stuck = [i \in Invoice |-> {}]

(***************************************************************************)
(* Saving a tracker.                                                       *)
(***************************************************************************)
TotalPaid(P) == MapThenSumSet(LAMBDA p : Paid[p], P)

\* set_status, run by every save before and after submission.
StatusOf(i, r) ==
    IF r.doc = "draft" THEN "Draft"
    ELSE IF TotalPaid(r.payments) >= Amount[i] THEN "Completed" ELSE "Active"

\* Mutant: a tracker that is Completed stays so.
SavedOnce(i, r) ==
    IF r.status = "Completed" THEN r ELSE [r EXCEPT !.status = StatusOf(i, r)]
Saved(i, r) == [r EXCEPT !.status = StatusOf(i, r)]

Named(r) == r.payments \cup r.vouchers \cup {x.ref : x \in r.differences}
NamedEntries(r) == {x.entry : x \in r.differences} \ {NoEntry}

\* The framework saves no cancelled document and no link to one.
CanSave(i, r) ==
    /\ r.doc \in {"draft", "submitted"}
    /\ \A d \in Named(r) \cup {i} : doc'[d] # "cancelled"
    /\ NamedEntries(r) \subseteq posted'[i]

\* The framework cancels nothing that a submitted tracker still names.
Released(d) ==
    \A i \in Invoice : tracker'[i].doc = "submitted" => d \notin Named(tracker'[i]) \cup {i}

(***************************************************************************)
(* Differences and their Journal Entries.                                  *)
(***************************************************************************)
Row(d, entry) == [ref |-> d, manual |-> FALSE, entry |-> entry]
ManualRow(d, entry) == [ref |-> d, manual |-> TRUE, entry |-> entry]

\* The trackers of I in which d gets an entry: with auto_create_journal_entries
\* off none, else those where its rate differs.
Bookings(d, I) == {{}, {i \in I : <<d, i>> \in Differs}}

\* create_exchange_difference_je, once for each tracker of B.
PostEntries(B) ==
    /\ \A i \in B : made[i] < MaxEntries[i]
    /\ made' = [i \in Invoice |-> IF i \in B THEN made[i] + 1 ELSE made[i]]
    /\ posted' = [i \in Invoice |-> IF i \in B THEN posted[i] \cup {made[i] + 1} ELSE posted[i]]
    /\ UNCHANGED stuck

\* r with the difference of d in tracker i (calculate_payment_exchange_difference,
\* calculate_lcv_exchange_difference), whose entry is the new one if i is in B.
WithDifference(i, r, d, B) ==
    IF <<d, i>> \in Differs
    THEN [r EXCEPT !.differences = @ \cup {Row(d, IF i \in B THEN made[i] + 1 ELSE NoEntry)}]
    ELSE r

WithPayment(i, p) == [tracker[i] EXCEPT !.payments = @ \cup {p}]
WithVoucher(i, v) == [tracker[i] EXCEPT !.vouchers = @ \cup {v}]

\* Cancels the entries S of i one by one; an exception leaves an entry posted.
CancelEntries(i, S) ==
    /\ \E lost \in SUBSET (S \cap posted[i]) :
          /\ posted' = [posted EXCEPT ![i] = @ \ (S \ lost)]
          /\ stuck' = [stuck EXCEPT ![i] = @ \cup lost]
    /\ UNCHANGED made

(***************************************************************************)
(* Purchase Invoices and their trackers.                                   *)
(***************************************************************************)
\* create_import_tracker: the tracker is inserted and submitted; an exception
\* before or between the two leaves none, or a draft.
SubmitInvoice(i) ==
    /\ doc[i] = "draft"
    /\ doc' = [doc EXCEPT ![i] = "submitted"]
    /\ \E r \in {NoTracker, [NoTracker EXCEPT !.doc = "draft", !.status = "Draft"],
                 [NoTracker EXCEPT !.doc = "submitted", !.status = "Active"]} :
          tracker' = [tracker EXCEPT ![i] = r]
    /\ UNCHANGED <<linked, entries>>

\* A user submits a draft; on_submit writes Active over what validate found.
SubmitTracker(i) ==
    /\ tracker[i].doc = "draft"
    /\ tracker' = [tracker EXCEPT ![i].doc = "submitted", ![i].status = "Active"]
    /\ UNCHANGED <<doc, linked, entries>>
    /\ CanSave(i, tracker[i])

\* on_cancel of a tracker.
Cancelled(i) == [tracker[i] EXCEPT !.doc = "cancelled", !.status = "Cancelled"]

\* Mutant: only the entries of the manual rows are cancelled.
CancelTrackerPart(i) ==
    /\ tracker[i].doc = "submitted"
    /\ tracker' = [tracker EXCEPT ![i] = Cancelled(i)]
    /\ CancelEntries(i, {x.entry : x \in {y \in tracker[i].differences : y.manual}})
\* cancel_related_journal_entries goes by the rows of exchange_differences.
CancelTracker(i) ==
    /\ tracker[i].doc = "submitted"
    /\ tracker' = [tracker EXCEPT ![i] = Cancelled(i)]
    /\ CancelEntries(i, NamedEntries(tracker[i]))

\* A user cancels a tracker; the framework refuses while a submitted payment
\* links to it.
CancelTrackerOnly(i) ==
    /\ CancelTracker(i)
    /\ \A p \in Payment : linked[p] = i => doc[p] # "submitted"
    /\ UNCHANGED <<doc, linked>>

\* cancel_import_tracker; a draft is left as it is.  The framework's refusal
\* comes after the tracker is written and is swallowed.
CancelInvoice(i) ==
    /\ doc[i] = "submitted"
    /\ doc' = [doc EXCEPT ![i] = "cancelled"]
    /\ \/ CancelTracker(i)
       \/ tracker[i].doc # "submitted" /\ UNCHANGED <<tracker, entries>>
    /\ Released(i)
    /\ UNCHANGED linked

(***************************************************************************)
(* Payment Entries.                                                        *)
(***************************************************************************)
\* get_open_trackers_for_payment, and the test of the currency.
OpenTrackers(p, refs) ==
    {i \in Invoice : /\ tracker[i].doc = "submitted" /\ tracker[i].status \in {"Active", "Draft"}
                     /\ refs # {} => i \in refs
                     /\ <<p, i>> \in Payable}

\* The payment gets its row, its difference and its link in goal; in failed the
\* entry of the difference cannot be made, when the row is already saved.
LinkPayment(p, failed, goal) ==
    \E B \in Bookings(p, goal) :
        /\ PostEntries(B)
        /\ tracker' = [i \in Invoice |->
              IF i \in failed THEN Saved(i, WithPayment(i, p))
              ELSE IF i \in goal THEN Saved(i, WithDifference(i, WithPayment(i, p), p, B))
              ELSE tracker[i]]
        /\ \A i \in failed \cup goal : CanSave(i, tracker'[i])
        /\ \/ goal = {} /\ UNCHANGED linked
           \/ \E i \in goal : linked' = [linked EXCEPT ![p] = i]

\* Trackers of I where the entry of p may fail, for p has no row there yet.
MayFail(p, I) == {i \in I : p \notin tracker[i].payments /\ <<p, i>> \in Differs}

\* link_payment_to_import_tracker tries the open trackers, the newest first, up
\* to the one where it ends without an exception, stop.
SubmitPayment(p) ==
    /\ doc[p] = "draft"
    /\ doc' = [doc EXCEPT ![p] = "submitted"]
    /\ \E refs \in SUBSET Invoice : \E stop \in OpenTrackers(p, refs) \cup {None} :
          LET tried == {i \in OpenTrackers(p, refs) : stop = None \/ Day[i] > Day[stop]}
          IN  /\ \A i \in tried : p \notin tracker[i].payments
              /\ \E failed \in SUBSET MayFail(p, tried) :
                    LinkPayment(p, failed, {i \in {stop} \ {None} : p \notin tracker[i].payments})

\* manually_link_payment_to_tracker, for a payment of the tracker's supplier in
\* whatever currency and status.  It names the tracker or takes the newest.
LinkManually(p, i) ==
    /\ p \notin tracker[i].payments
    /\ UNCHANGED doc
    /\ \/ LinkPayment(p, {}, {i})
       \/ MayFail(p, {i}) # {} /\ LinkPayment(p, {i}, {})

\* The tracker of i without the rows of d.
WithoutPayment(i, p) ==
    [tracker[i] EXCEPT !.payments = @ \ {p}, !.differences = {x \in @ : x.ref # p}]
WithoutVoucher(i, v) ==
    [tracker[i] EXCEPT !.vouchers = @ \ {v}, !.differences = {x \in @ : x.ref # v}]

\* Mutant: the entries of manual rows are left.
EntriesOfComputed(i, p) ==
    {x.entry : x \in {y \in tracker[i].differences : y.ref = p /\ ~y.manual}}
EntriesOf(i, p) == {x.entry : x \in {y \in tracker[i].differences : y.ref = p}}

\* unlink_payment_from_import_tracker looks at the linked tracker only.  Its
\* entries are cancelled before the rows are removed, and stay so if the save
\* fails.
CancelPayment(p) ==
    /\ doc[p] = "submitted"
    /\ doc' = [doc EXCEPT ![p] = "cancelled"]
    /\ \/ linked[p] = None /\ UNCHANGED <<tracker, entries>>
       \/ \E i \in Invoice :
             /\ linked[p] = i
             /\ CancelEntries(i, EntriesOf(i, p))
             /\ \/ /\ CanSave(i, WithoutPayment(i, p))
                   /\ tracker' = [tracker EXCEPT ![i] = Saved(i, WithoutPayment(i, p))]
                \/ UNCHANGED tracker
    /\ Released(p)
    /\ UNCHANGED linked

(***************************************************************************)
(* Landed Cost Vouchers.                                                   *)
(***************************************************************************)
\* The voucher gets its row in the trackers of I, and its difference but in
\* plain, where it fails.
LinkVoucher(v, I, plain) ==
    \E B \in Bookings(v, I \ plain) :
        /\ PostEntries(B)
        /\ tracker' = [i \in Invoice |->
              IF i \in plain THEN Saved(i, WithVoucher(i, v))
              ELSE IF i \in I THEN Saved(i, WithDifference(i, WithVoucher(i, v), v, B))
              ELSE tracker[i]]
        /\ \A i \in I : CanSave(i, tracker'[i])

\* link_lcv_to_import_tracker, for the trackers of whatever invoices the
\* voucher's receipts name; with enable_lcv_exchange_tracking off every row is
\* plain.
SubmitVoucher(v) ==
    /\ doc[v] = "draft"
    /\ doc' = [doc EXCEPT ![v] = "submitted"]
    /\ \E I \in SUBSET {i \in Invoice : v \notin tracker[i].vouchers} :
       \E plain \in SUBSET {i \in I : <<v, i>> \in Differs} : LinkVoucher(v, I, plain)
    /\ UNCHANGED linked

\* unlink_lcv_from_import_tracker removes the rows from all trackers that have
\* them, but those that fail; it leaves the entries alone.
CancelVoucher(v) ==
    /\ doc[v] = "submitted"
    /\ doc' = [doc EXCEPT ![v] = "cancelled"]
    /\ UNCHANGED entries
    /\ \E I \in SUBSET {i \in Invoice : v \in tracker[i].vouchers} :
          /\ \A i \in I : CanSave(i, WithoutVoucher(i, v))
          /\ tracker' = [i \in Invoice |->
                IF i \in I THEN Saved(i, WithoutVoucher(i, v)) ELSE tracker[i]]
    /\ Released(v)
    /\ UNCHANGED linked

(***************************************************************************)
(* What users and the scheduler do with a tracker.                         *)
(***************************************************************************)
\* create_manual_exchange_entry.
ManualEntry(i, d) ==
    /\ tracker[i].doc = "submitted"
    /\ Cardinality({x \in tracker[i].differences : x.manual}) < MaxManual[i]
    /\ UNCHANGED <<doc, linked>>
    /\ \E B \in {{}, {i}} :
          /\ PostEntries(B)
          /\ tracker' = [tracker EXCEPT ![i] = Saved(i, [tracker[i] EXCEPT !.differences =
                @ \cup {ManualRow(d, IF i \in B THEN made[i] + 1 ELSE NoEntry)}])]
    /\ CanSave(i, tracker'[i])

\* What recalculate_import_differences finds to differ; vouchers count when
\* enable_lcv_exchange_tracking is on.
Recalculated(i) ==
    LET Differing(D) == {d \in D : <<d, i>> \in Differs}
        r == tracker[i]
    IN  {Differing(r.payments), Differing(r.payments \cup r.vouchers)}

\* Mutant: the rows are kept.
KeptRowsAll(i) == tracker[i].differences
\* "Clear existing differences": manual ones go too.
KeptRows(i) == {}

\* New rows for the documents of D, and new entries for those of N.
Redo(i, D, N, f) ==
    /\ made[i] + Cardinality(N) <= MaxEntries[i]
    /\ made' = [made EXCEPT ![i] = @ + Cardinality(N)]
    /\ posted' = [posted EXCEPT ![i] = @ \cup Range(f)]
    /\ tracker' = [tracker EXCEPT ![i] = Saved(i, [tracker[i] EXCEPT !.differences =
          KeptRows(i) \cup {Row(d, IF d \in N THEN f[d] ELSE NoEntry) : d \in D}])]

\* recalculate_import_differences does not cancel the entries of the old rows.
Recalculate(i) ==
    /\ UNCHANGED <<doc, linked, stuck>>
    /\ \E D \in Recalculated(i) : \E N \in {{}, D} :
       \E f \in Bijection(N, made[i] + 1 .. made[i] + Cardinality(N)) : Redo(i, D, N, f)
    /\ CanSave(i, tracker'[i])

\* Mutant: the job saves the trackers it finds, and no status changes.
UpdatePendingSame(i) ==
    /\ tracker[i].doc = "submitted" /\ tracker[i].status = "Active"
    /\ UNCHANGED vars
\* update_pending_transactions, each tracker on its own: an exception at one
\* leaves the others.
UpdatePending(i) ==
    /\ tracker[i].doc = "submitted" /\ tracker[i].status = "Active"
    /\ tracker' = [tracker EXCEPT ![i] = Saved(i, tracker[i])]
    /\ UNCHANGED <<doc, linked, entries>>
    /\ CanSave(i, tracker[i])

Next ==
    \/ \E i \in Invoice :
          \/ SubmitInvoice(i) \/ CancelInvoice(i)
          \/ SubmitTracker(i) \/ CancelTrackerOnly(i)
          \/ Recalculate(i) \/ UpdatePending(i)
          \/ \E p \in Payment : LinkManually(p, i)
          \/ \E d \in Document : ManualEntry(i, d)
    \/ \E p \in Payment : SubmitPayment(p) \/ CancelPayment(p)
    \/ \E v \in Voucher : SubmitVoucher(v) \/ CancelVoucher(v)

Spec == Init /\ [][Next]_vars

(***************************************************************************)
(* Properties.                                                             *)
(***************************************************************************)
\* Every difference a tracker computed is that of a payment or voucher it still
\* has, and no document has two, however often it was linked, unlinked and
\* recalculated.
Matching(r) ==
    LET computed == {x \in r.differences : ~x.manual}
    IN  /\ \A x \in computed : x.ref \in r.payments \cup r.vouchers
        /\ \A x, y \in computed : x.ref = y.ref => x = y
DifferencesMatchRows == \A i \in Invoice : Matching(tracker[i])

\* A cancelled tracker leaves no entry of its rows in the accounts, but those
\* whose cancellation failed (cancel_related_journal_entries).
CancelledLeavesNoEntry ==
    \A i \in Invoice :
        tracker[i].doc = "cancelled" =>
            NamedEntries(tracker[i]) \cap posted[i] \subseteq stuck[i]

\* A tracker is Completed only while the payments it still has pay the invoice
\* (set_status, after links, unlinks and cancelled payments).
CompletedIsPaid ==
    \A i \in Invoice :
        tracker[i].status = "Completed" => TotalPaid(tracker[i].payments) >= Amount[i]

\* A payment that is cancelled takes the entries of its differences along, but
\* those whose cancellation failed, whichever tracker has them and however the
\* payment came there (unlink_payment_from_import_tracker).
TakesItsEntries(p) ==
    \A i \in Invoice : \A x \in tracker[i].differences :
        tracker[i].doc = "submitted" /\ x.ref = p /\ x.entry \in posted'[i] => x.entry \in stuck'[i]
CancelledTakesEntries ==
    \A p \in Payment : doc[p] = "submitted" /\ doc'[p] = "cancelled" => TakesItsEntries(p)
PaymentTakesItsEntries == [][CancelledTakesEntries]_vars

\* The scheduler runs the daily jobs.
FairSpec == Spec /\ \A i \in Invoice : WF_vars(UpdatePending(i))

\* on_submit calls a tracker Active even when it is paid, or its invoice is a
\* return with a negative total; the daily job finds it.
PaidIsCompleted ==
    \A i \in Invoice :
        LET paid == tracker[i].doc = "submitted" /\ TotalPaid(tracker[i].payments) >= Amount[i]
        IN  paid ~> (tracker[i].status = "Completed" \/ ~paid)
=============================================================================
