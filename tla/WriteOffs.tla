------------------------------- MODULE WriteOffs -------------------------------
(***************************************************************************)
(* Writing off what is left of an invoice or of a payment                  *)
(* (create_write_off_jv_si, _pi and _pe of custom_api.py).  A request      *)
(* reads the document, posts a journal entry over what is left, and for a  *)
(* payment sets the entry against it.  Transactions read what was          *)
(* committed when they began.                                              *)
(***************************************************************************)
EXTENDS Integers, FiniteSets

CONSTANTS
    Invoice, Payment,   \* sales or purchase invoices, payment entries
    Clerk,              \* sessions
    Total,              \* what an invoice or a payment comes to
    Nobody

\* What the constants are.
DocumentAssumption == Invoice \cap Payment = {} /\ Nobody \notin Clerk /\ Total \in Nat \ {0}

Doc == Invoice \cup Payment

VARIABLES
    enabled,   \* documents of the kinds whose feature is switched on
    record,    \* record[d]: what the database says of the document
    owed,      \* owed[d]: the ledger's balance for it
    request,   \* request[c]: what clerk c's request has read and written
    lock,      \* lock[d]: who has written the document and not committed
    overtaken  \* invoices of which a journal entry was posted over a later change

vars == <<enabled, record, owed, request, lock, overtaken>>

(***************************************************************************)
(* Types.  left: what is outstanding of an invoice or not allocated of a   *)
(* payment; changes: the time of the last change; balance: the ledger's    *)
(* balance in the transaction's snapshot; plain: not an internal transfer. *)
(***************************************************************************)
Record == [submitted : BOOLEAN, plain : BOOLEAN, left : Int, changes : Nat]
Request == [doc : Doc, submitted : BOOLEAN, left : Int, changes : Nat, balance : Int, posted : BOOLEAN]
None == [doc |-> Nobody]

TypeOK ==
    /\ enabled \subseteq Doc /\ record \in [Doc -> Record] /\ owed \in [Doc -> Int]
    /\ request \in [Clerk -> Request \cup {None}]
    /\ lock \in [Doc -> Clerk \cup {Nobody}] /\ overtaken \subseteq Invoice

Init ==
    /\ enabled \in {{}, Invoice, Payment, Doc}
    /\ record \in [Doc -> [submitted : BOOLEAN, plain : BOOLEAN, left : {Total}, changes : {0}]]
    /\ \A i \in Invoice : record[i].plain
    /\ owed = [d \in Doc |-> IF record[d].submitted THEN Total ELSE 0]
    /\ request = [c \in Clerk |-> None]
    /\ lock = [d \in Doc |-> Nobody] /\ overtaken = {}

(***************************************************************************)
(* A request.  One that may not write off ends without a change.           *)
(***************************************************************************)
Allowed(d) ==
    /\ d \in enabled /\ record[d].left > 0
    /\ d \in Payment => record[d].submitted /\ record[d].plain

Begin(c, d) ==
    /\ request[c] = None /\ Allowed(d)
    /\ request' = [request EXCEPT ![c] =
          [doc |-> d, submitted |-> record[d].submitted, left |-> record[d].left, changes |-> record[d].changes,
           balance |-> owed[d], posted |-> FALSE]]
    /\ UNCHANGED <<enabled, record, owed, lock, overtaken>>

\* Submission of the journal entry writes an invoice's outstanding amount, the
\* balance of the snapshot less the entry, and refuses an invoice that is not
\* submitted.
Post(c, i) ==
    /\ i \in Invoice /\ request[c] # None
    /\ request[c].doc = i /\ ~request[c].posted /\ request[c].submitted
    /\ lock[i] = Nobody
    /\ lock' = [lock EXCEPT ![i] = c]
    /\ request' = [request EXCEPT ![c].posted = TRUE]
    /\ UNCHANGED <<enabled, record, owed, overtaken>>

\* Mutant: saving a payment compares nothing.
OutdatedNever(c) == FALSE

\* Saving a payment compares its modification with the one that was read.
Outdated(c) == record[request[c].doc].changes # request[c].changes

\* The entry is set against all of the payment that was not allocated.
Allocate(c, p) ==
    /\ p \in Payment /\ request[c] # None
    /\ request[c].doc = p /\ ~request[c].posted
    /\ lock[p] = Nobody /\ ~Outdated(c)
    /\ lock' = [lock EXCEPT ![p] = c]
    /\ request' = [request EXCEPT ![c].posted = TRUE]
    /\ UNCHANGED <<enabled, record, owed, overtaken>>

\* A journal entry that is not against the document takes what it is over from
\* the ledger's balance all the same.
Commit(c) ==
    /\ request[c] # None /\ request[c].posted
    /\ LET d == request[c].doc
           left == IF d \in Invoice THEN request[c].balance - request[c].left ELSE 0
       IN /\ record' = [record EXCEPT ![d].left = left, ![d].changes = @ + 1]
          /\ owed' = [owed EXCEPT ![d] = @ - request[c].left]
          /\ overtaken' = IF d \in Invoice /\ Outdated(c) THEN overtaken \cup {d} ELSE overtaken
          /\ lock' = [lock EXCEPT ![d] = Nobody]
    /\ request' = [request EXCEPT ![c] = None]
    /\ UNCHANGED enabled

\* Refused, failed or timed out: the entry and the change are undone.
Abort(c) ==
    /\ request[c] # None
    /\ request' = [request EXCEPT ![c] = None]
    /\ lock' = [d \in Doc |-> IF lock[d] = c THEN Nobody ELSE lock[d]]
    /\ UNCHANGED <<enabled, record, owed, overtaken>>

\* Someone pays part of an invoice, or allocates part of a payment.
Settle(d) ==
    /\ record[d].submitted /\ record[d].left > 0 /\ lock[d] = Nobody
    /\ record' = [record EXCEPT ![d].left = @ - 1, ![d].changes = @ + 1]
    /\ owed' = [owed EXCEPT ![d] = @ - 1]
    /\ UNCHANGED <<enabled, request, lock, overtaken>>

Submit(d) ==
    /\ ~record[d].submitted /\ lock[d] = Nobody
    /\ record' = [record EXCEPT ![d].submitted = TRUE, ![d].changes = @ + 1]
    /\ owed' = [owed EXCEPT ![d] = Total]
    /\ UNCHANGED <<enabled, request, lock, overtaken>>

Next ==
    \/ \E c \in Clerk, d \in Doc : Begin(c, d) \/ Post(c, d) \/ Allocate(c, d)
    \/ \E c \in Clerk : Commit(c) \/ Abort(c)
    \/ \E d \in Doc : Settle(d) \/ Submit(d)

Spec == Init /\ [][Next]_vars

(***************************************************************************)
(* Safety.                                                                 *)
(***************************************************************************)
\* However requests, payments and allocations overlap, a payment is written off
\* once, for what is left of it; an invoice is, unless someone changed what is
\* outstanding after the request had read it, which nothing compares
\* (create_write_off_jv_pe, create_write_off_jv_si).
WrittenOffOnce ==
    /\ \A p \in Payment : record[p].submitted => owed[p] = record[p].left /\ owed[p] >= 0
    /\ \A i \in Invoice \ overtaken : record[i].submitted => owed[i] = record[i].left /\ owed[i] >= 0
=============================================================================
