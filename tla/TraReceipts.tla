----------------------------- MODULE TraReceipts -----------------------------
(***************************************************************************)
(* Receipts of other sellers that are verified with the revenue authority  *)
(* (TRA), the TRA TAX Inv records made of them, and the invoices made of   *)
(* the records (tra_tax_inv.py).                                           *)
(*                                                                         *)
(* Both endpoints catch every exception and answer with a message, so the  *)
(* request commits what it had written before the exception.               *)
(***************************************************************************)
EXTENDS Naturals, FiniteSets

CONSTANTS
    Code,        \* verification codes of receipts
    Malformed,   \* those without a time in them
    Session,     \* requests
    MaxInvoices  \* bound: invoices ever made of one receipt

ASSUME CodeAssumption == Malformed \subseteq Code /\ IsFiniteSet(Session) /\ MaxInvoices \in Nat

VARIABLES
    record,   \* record[c]: the TRA TAX Inv of code c
    drafts,   \* drafts[c]: the invoices made of it that are there
    made,     \* made[c]: how many ever were
    party,    \* suppliers and customers made for the receipts
    run,      \* run[s]: the request session s works on
    raced     \* codes whose record changed under an invoice, or was deleted

vars == <<record, drafts, made, party, run, raced>>

(***************************************************************************)
(* Types.  lines: what the receipt lists: nothing that could be read, items*)
(* that are not all in the item master, or items that are.  ref: the       *)
(* invoice that reference_docname names, 0 for none.                       *)
(***************************************************************************)
Kind == {"Purchase Invoice", "Sales Invoice"}
Lines == {"none", "unknown", "known"}
NoRecord == [status |-> "none"]
Record == [status : {"Verified", "Failed"}, lines : Lines, names : SUBSET Kind,
           ref : 0..MaxInvoices]

\* known: whether the transaction reads a record of the code; fresh: the record
\* is as the request read it.
Idle == [pc |-> "idle"]
Verifying == [pc : {"verify"}, code : Code, known : {"yes", "no", "unread"}]
Making == [pc : {"make"}, code : Code, kind : Kind, fresh : BOOLEAN]

TypeOK ==
    /\ record \in [Code -> Record \cup {NoRecord}]
    /\ drafts \in [Code -> SUBSET (1..MaxInvoices)]
    /\ made \in [Code -> 0..MaxInvoices]
    /\ party \subseteq Code \X Kind
    /\ run \in [Session -> {Idle} \cup Verifying \cup Making]
    /\ raced \subseteq Code

Init ==
    /\ record = [c \in Code |-> NoRecord]
    /\ drafts = [c \in Code |-> {}] /\ made = [c \in Code |-> 0]
    /\ party = {}
    /\ run = [s \in Session |-> Idle]
    /\ raced = {}

Present(c) == record[c] # NoRecord

(***************************************************************************)
(* Verifying a receipt.                                                    *)
(***************************************************************************)
ReadsRecord(c) == IF Present(c) THEN "yes" ELSE "no"

\* The request goes to TRA; its transaction may have begun before.
Ask(s, c) ==
    /\ run[s] = Idle
    /\ \E known \in {ReadsRecord(c), "unread"} :
          run' = [run EXCEPT ![s] = [pc |-> "verify", code |-> c, known |-> known]]
    /\ UNCHANGED <<record, drafts, made, party, raced>>

\* What is read off TRA's page: names gives the kinds of invoice for which the
\* receipt names the other party.  A page that says there is no such receipt
\* counts as verified too, and shows nothing.
Page == {[status |-> "Verified", lines |-> l, names |-> n, ref |-> 0] : l \in Lines, n \in SUBSET Kind}

\* TRA is not reached, or the code has no time to ask it with.
NoPage == {[status |-> "Failed", lines |-> "none", names |-> {}, ref |-> 0]}

Answers(c) == NoPage \cup (IF c \in Malformed THEN {} ELSE Page)

\* Whatever the answer, a record is made of it, unless the code has one: the
\* request has read it, or the insertion finds the unique key taken.  An
\* insertion that the user may not make leaves nothing.
Save(s) ==
    /\ run[s].pc = "verify"
    /\ LET c == run[s].code IN
       \/ /\ run[s].known # "yes" /\ ~Present(c)
          /\ \E r \in Answers(c) : record' = [record EXCEPT ![c] = r]
       \/ UNCHANGED record
    /\ run' = [run EXCEPT ![s] = Idle]
    /\ UNCHANGED <<drafts, made, party, raced>>

(***************************************************************************)
(* Making an invoice of a record.                                          *)
(***************************************************************************)
\* Mutant: the record is not asked whether it has an invoice.
FitUnasked(c, kind) == record[c].lines = "known" /\ kind \in record[c].names

\* There is no invoice yet, every item is in the item master, and the receipt
\* names whom the invoice is for.
Fit(c, kind) ==
    /\ record[c].ref = 0
    /\ record[c].lines = "known" /\ kind \in record[c].names

Make(s, c, kind) ==
    /\ run[s] = Idle
    /\ Present(c) /\ Fit(c, kind)
    /\ run' = [run EXCEPT ![s] = [pc |-> "make", code |-> c, kind |-> kind, fresh |-> TRUE]]
    /\ UNCHANGED <<record, drafts, made, party, raced>>

Makers(c) == {s \in Session : run[s].pc = "make" /\ run[s].code = c}

\* Whoever works on a record that changes has an old copy of it.
Outdated(c, runs) ==
    [s \in Session |-> IF s \in Makers(c) /\ runs[s] # Idle THEN [runs[s] EXCEPT !.fresh = FALSE]
                       ELSE runs[s]]

\* Mutant: an old copy of the record is saved all the same.
LinkedAnyway(s, c, n) == Present(c)

\* tra_doc.save refuses an old copy, and one whose record is gone.
Linked(s, c, n) == run[s].fresh /\ Present(c)

\* The party is made if there is none, then the invoice, then the record is
\* linked.  An exception leaves what was done before it.
Insert(s) ==
    /\ run[s].pc = "make"
    /\ LET c == run[s].code
           n == made[c] + 1
           ended == [run EXCEPT ![s] = Idle]
       IN
       \/ /\ party' \in {party, party \cup {<<c, run[s].kind>>}}
          /\ run' = ended
          /\ UNCHANGED <<record, drafts, made, raced>>
       \/ /\ n <= MaxInvoices
          /\ party' = party \cup {<<c, run[s].kind>>}
          /\ made' = [made EXCEPT ![c] = n]
          /\ drafts' = [drafts EXCEPT ![c] = @ \cup {n}]
          /\ IF Linked(s, c, n)
             THEN /\ record' = [record EXCEPT ![c].ref = n]
                  /\ run' = Outdated(c, ended)
                  /\ raced' = IF Makers(c) = {s} THEN raced ELSE raced \cup {c}
             ELSE run' = ended /\ UNCHANGED <<record, raced>>

(***************************************************************************)
(* Users.                                                                  *)
(***************************************************************************)
Changed(c) ==
    /\ run' = Outdated(c, run)
    /\ raced' = IF Makers(c) = {} THEN raced ELSE raced \cup {c}

\* The form is saved; items may be mapped to the item master.
Edit(c) ==
    /\ Present(c)
    /\ record' \in {record, [record EXCEPT ![c].lines = IF @ = "none" THEN @ ELSE "known"]}
    /\ Changed(c)
    /\ UNCHANGED <<drafts, made, party>>

\* A record can be deleted whatever was made of it, which forgets the invoice.
Delete(c) ==
    /\ Present(c)
    /\ record' = [record EXCEPT ![c] = NoRecord]
    /\ run' = Outdated(c, run)
    /\ raced' = raced \cup {c}
    /\ UNCHANGED <<drafts, made, party>>

\* reference_docname is text: it keeps no invoice from being deleted.
Discard(c) ==
    /\ \E n \in drafts[c] : drafts' = [drafts EXCEPT ![c] = @ \ {n}]
    /\ UNCHANGED <<record, made, party, run, raced>>

Next ==
    \/ \E s \in Session :
          \/ Save(s) \/ Insert(s)
          \/ \E c \in Code : Ask(s, c) \/ \E kind \in Kind : Make(s, c, kind)
    \/ \E c \in Code : Edit(c) \/ Delete(c) \/ Discard(c)

Spec == Init /\ [][Next]_vars

(***************************************************************************)
(* Safety.                                                                 *)
(***************************************************************************)
\* A receipt is booked twice only if its record changed under a request that
\* was making an invoice of it, another such request or an edit, or if it was
\* deleted: the request that then cannot link its invoice leaves it behind
\* (create_invoice_from_tra_tax_inv).
SecondInvoiceNeedsRace ==
    \A c \in Code : Cardinality(drafts[c]) > 1 => c \in raced

\* The invoice a record names is never replaced by another, whoever works on
\* the record at the same time.
LinkIsKept ==
    [][\A c \in Code : Present(c) /\ record[c].ref # 0 =>
          record'[c] = NoRecord \/ record'[c].ref = record[c].ref]_vars
=============================================================================
