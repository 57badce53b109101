---------------------------- MODULE PergamonReports ----------------------------
(***************************************************************************)
(* What Pergamon is asked about the receipts it has issued                 *)
(* (pergamon_vfd_settings.py): a manager archives its report of a day or   *)
(* of a period, compared with the Sales Invoices the books call fiscalised *)
(* in it, or compares its register, or one receipt, with them.  A request  *)
(* is a transaction: it reads what was committed when it began, then asks  *)
(* Pergamon, while invoices go on being posted.  Reports of other periods  *)
(* share nothing, so there is one.                                         *)
(***************************************************************************)
EXTENDS Integers, Sequences, FiniteSets, FiniteSetsExt

CONSTANTS
    Invoice, Manager,
    Exact,         \* whether Pergamon's answers say when a receipt was issued
    Charge,        \* what every invoice comes to: equal sums are the hard case
    Tolerance,     \* sums that differ by no more are taken for equal
    Sent,          \* Sent[i]: by how much the payload differs from that
    Issued,        \* Issued[i]: by how much its receipt may
    MaxArchived    \* bound: documents in the archive

\* What the constants are.
ReceiptAssumption ==
    /\ IsFiniteSet(Invoice) /\ Exact \in BOOLEAN
    /\ Charge \in Nat \ {0} /\ Tolerance \in Nat /\ 2 * Tolerance < Charge
    /\ Issued \in [Invoice -> SUBSET Int] /\ Sent \in [Invoice -> (0 - Tolerance)..Tolerance]
    /\ MaxArchived \in Nat

VARIABLES
    invoice,   \* invoice[i]: what the books say of it
    receipt,   \* receipt[i]: what Pergamon has of it
    fetch,     \* fetch[m]: the request manager m makes
    archive    \* the archived reports

vars == <<invoice, receipt, fetch, archive>>

(***************************************************************************)
(* Types.  Of an invoice the books call Success, vfd_date is within the    *)
(* period or outside; the others are open, those cancelled before their    *)
(* receipt arrived among them.  local: the invoices the books call         *)
(* fiscalised in the period, and known: how many reports were archived,    *)
(* when the request began; changed: those saved since; alone: nobody else  *)
(* archived then or since.  matches: the report indicates a match, rather  *)
(* than a difference or numbers not known; back: it replaced one that      *)
(* counted a receipt it lacks.                                             *)
(***************************************************************************)
When == {"within", "outside"}
Book == {"open"} \cup When
NoReceipt == [date |-> "never"]
Receipt == [date : When, amount : UNION {Issued[i] : i \in Invoice}]
Idle == [pc |-> "idle"]
Known == [known : 0..MaxArchived, changed : SUBSET (1..MaxArchived), alone : BOOLEAN]
Asking == [pc : {"ask"}, seen : Known, local : SUBSET Invoice]
Answered == [pc : {"save"}, seen : Known, counted : SUBSET Invoice, matches : BOOLEAN]
Archived == [matches : BOOLEAN, alone : BOOLEAN, counted : SUBSET Invoice, back : BOOLEAN]

TypeOK ==
    /\ invoice \in [Invoice -> Book]
    /\ receipt \in [Invoice -> Receipt \cup {NoReceipt}]
    /\ fetch \in [Manager -> {Idle} \cup Asking \cup Answered]
    /\ archive \in Seq(Archived)

Init ==
    /\ invoice = [i \in Invoice |-> "open"]
    /\ receipt = [i \in Invoice |-> NoReceipt]
    /\ fetch = [m \in Manager |-> Idle] /\ archive = <<>>

(***************************************************************************)
(* Submitted invoices.                                                     *)
(***************************************************************************)
Near(a, b) == a - b \in (0 - Tolerance)..Tolerance

Has(i) == receipt[i] # NoReceipt

\* Pergamon makes one receipt of an invoice, however often it is posted.
Issue(i) ==
    /\ invoice[i] = "open" /\ ~Has(i)
    /\ \E date \in When, amount \in Issued[i] :
          receipt' = [receipt EXCEPT ![i] = [date |-> date, amount |-> amount]]
    /\ UNCHANGED <<invoice, fetch, archive>>

Acceptable(i) == Near(receipt[i].amount, Sent[i])

\* Mutant: the day of the posting is noted, whatever the answer says.
NotedByPosting(i) == When

\* When the answer does not say when the receipt was issued, the posting's day
\* is noted.
Noted(i) == IF Exact THEN {receipt[i].date} ELSE When

\* The answer arrives, to the posting that was first or to a later one.
Record(i) ==
    /\ invoice[i] = "open" /\ Has(i) /\ Acceptable(i)
    /\ \E date \in Noted(i) : invoice' = [invoice EXCEPT ![i] = date]
    /\ UNCHANGED <<receipt, fetch, archive>>

(***************************************************************************)
(* Reports.                                                                *)
(***************************************************************************)
Busy(m) == fetch[m] # Idle

Local == {i \in Invoice : invoice[i] = "within"}

\* Whoever archives beside another is not alone, nor is the other.
Begin(m) ==
    /\ ~Busy(m)
    /\ fetch' = [n \in Manager |->
          IF n = m THEN [pc |-> "ask", local |-> Local,
                         seen |-> [known |-> Len(archive), changed |-> {}, alone |-> \A o \in Manager : ~Busy(o)]]
          ELSE IF Busy(n) THEN [fetch[n] EXCEPT !.seen.alone = FALSE]
          ELSE Idle]
    /\ UNCHANGED <<invoice, receipt, archive>>

\* Numbers and sums are compared, if the answer has both.
Matches(local, counted) ==
    LET total == MapThenSumSet(LAMBDA i : Charge + receipt[i].amount, counted)
    IN Near(total, Cardinality(local) * Charge) /\ Cardinality(counted) = Cardinality(local)

Answer(m) ==
    /\ fetch[m].pc = "ask"
    /\ LET f == fetch[m]
           counted == {i \in Invoice : receipt[i].date = "within"}
       IN \E matches \in {FALSE, Matches(f.local, counted)} :
             fetch' = [fetch EXCEPT ![m] =
                 [pc |-> "save", seen |-> f.seen, counted |-> counted, matches |-> matches]]
    /\ UNCHANGED <<invoice, receipt, archive>>

\* Saving a report compares its modification with the one that was read.
Latest(seen, k) == k \notin seen.changed

\* Report k is saved, as it was archived first or after it was replaced.
Archive(m, k, report) ==
    /\ archive' = IF k \in DOMAIN archive THEN [archive EXCEPT ![k] = report] ELSE Append(archive, report)
    /\ fetch' = [n \in Manager |->
          IF n = m \/ ~Busy(n) THEN Idle
          ELSE IF k <= fetch[n].seen.known THEN [fetch[n] EXCEPT !.seen.changed = @ \cup {k}]
          ELSE fetch[n]]

Save(m) ==
    /\ fetch[m].pc = "save"
    /\ LET f == fetch[m]
           report == [matches |-> f.matches, alone |-> f.seen.alone, counted |-> f.counted, back |-> FALSE]
       IN \/ /\ f.seen.known = 0 /\ Len(archive) < MaxArchived
             /\ Archive(m, Len(archive) + 1, report)
          \/ \E k \in 1..f.seen.known :
                /\ Latest(f.seen, k)
                /\ Archive(m, k, [report EXCEPT !.alone = archive[k].alone,
                                      !.back = archive[k].back \/ ~(archive[k].counted \subseteq f.counted)])
    /\ UNCHANGED <<invoice, receipt>>

\* Pergamon does not answer, or not in a form the code accepts, or the report
\* has changed.
GiveUp(m) ==
    /\ Busy(m)
    /\ fetch' = [fetch EXCEPT ![m] = Idle]
    /\ UNCHANGED <<invoice, receipt, archive>>

Next ==
    \/ \E i \in Invoice : Issue(i) \/ Record(i)
    \/ \E m \in Manager : Begin(m) \/ Answer(m) \/ Save(m) \/ GiveUp(m)

Spec == Init /\ [][Next]_vars

(***************************************************************************)
(* The register and the lookup of one receipt change nothing: what a       *)
(* manager is told of the receipt of i follows from it and the books.      *)
(***************************************************************************)
\* The receipts Pergamon lists, each of an invoice the books have; that one
\* of them is missing proves nothing, the list may be one page of many.
Register == {i \in Invoice : Has(i)}

RowStatus(i) == IF Near(receipt[i].amount, 0) THEN "Verified" ELSE "Mismatch"

\* The manager asks for it by Pergamon's number, as the receipt of j.
Verified(i, j) == i = j /\ Near(receipt[i].amount, 0)

(***************************************************************************)
(* Safety.                                                                 *)
(***************************************************************************)
\* Only numbers and sums are compared, of an older state of the books, and yet
\* a report that matches has every receipt it counts in the books, within its
\* period, for good, if Pergamon says when receipts were issued
\* (fetch_pergamon_zreport, fetch_pergamon_periodic_report).
MatchIsComplete ==
    Exact => \A k \in DOMAIN archive : archive[k].matches =>
                \A i \in archive[k].counted : invoice[i] = "within"

\* A period is archived twice only by managers who archive at the same time, and
\* no report is replaced by an older one.
ArchiveMovesOn ==
    \A k \in DOMAIN archive :
        /\ ~archive[k].back
        /\ archive[k].alone => k = 1

\* The register and the lookup call Verified what a posting would accept or has
\* accepted, and nothing else, but for payloads that differ from their invoice by
\* a rounding (compare_pergamon_invoices, get_pergamon_invoice,
\* post_fiscal_receipt).
RegisterAgrees ==
    \A i \in Register : Sent[i] = 0 =>
        /\ (RowStatus(i) = "Verified") = Acceptable(i)
        /\ \A j \in Invoice : Verified(i, j) = (i = j /\ Acceptable(i))
=============================================================================
