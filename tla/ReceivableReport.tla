--------------------------- MODULE ReceivableReport ---------------------------
(***************************************************************************)
(* The receivables report (accounts_receivable_multi_currency.py): ledger  *)
(* entries of one customer become rows, one for each voucher or for each   *)
(* payment term of an invoice, with what is outstanding and with payments  *)
(* that are dated after the report.  Its data are one invoice, a return,   *)
(* a payment and a journal entry.                                          *)
(***************************************************************************)
EXTENDS Integers, Sequences, Functions

CONSTANTS
    Price,        \* what the invoice comes to
    MaxEntries,   \* bound: ledger entries after the invoice's own
    MaxFuture     \* bound: payments of the invoice after the report

\* What the constants are.
PriceAssumption == Price \in Nat \ {0} /\ {MaxEntries, MaxFuture} \subseteq Nat

Voucher == {"invoice", "return", "payment", "journal"}
Nothing == "nothing"

VARIABLES
    ledger,    \* the customer's entries, in the order they are read
    asked,     \* what the report is asked for, and what it looks up
    balance,   \* balance[v]: the voucher's row
    at,        \* the entry that is read next, for the first or the second time
    data,      \* the rows shown
    future     \* what is left of each later payment of the invoice

vars == <<ledger, asked, balance, at, data, future>>

(***************************************************************************)
(* Types.  late: the entry is dated after the report.  terms: the amounts  *)
(* of the invoice's payment terms and what its schedule says was paid, in  *)
(* the order they are read; returns: the invoice the return is against.    *)
(***************************************************************************)
Amount == (0 - Price)..Price \ {0}
Entry == [voucher : Voucher, against : Voucher \cup {Nothing}, amount : Amount, late : BOOLEAN]
Term == [invoiced : 1..Price, paid : 0..Price]
Row == [invoiced : Int, paid : Int, credit : Int]

TypeOK ==
    /\ ledger \in Seq(Entry)
    /\ asked \in [future : BOOLEAN, terms : Seq(Term), returns : {"invoice", Nothing}]
    /\ balance \in [Voucher -> Row] /\ at \in 1..2 * Len(ledger) + 1
    /\ data \in Seq([outstanding : Int, future : Int])
    /\ future \in Seq(Int)

\* A return, a payment or an entry in the journal; a return takes off, a
\* refund is against the return.
Legal(e) ==
    \/ e.voucher = "return" /\ e.amount < 0 /\ e.against # "payment" /\ e.against # "journal"
    \/ e.voucher = "payment" /\ e.against \in {"invoice", Nothing} /\ e.amount < 0
    \/ e.voucher = "payment" /\ e.against = "return" /\ e.amount > 0
    \/ e.voucher = "journal" /\ e.against \in {"invoice", Nothing}

Sale(late) == [voucher |-> "invoice", against |-> "invoice", amount |-> Price, late |-> late]

UpTo(n, S) == UNION {[1..m -> S] : m \in 0..n}

Terms == {<<>>} \cup {<<t, u>> : t, u \in Term}

Init ==
    /\ \E late \in BOOLEAN, more \in UpTo(MaxEntries, {e \in Entry : Legal(e)}) :
          ledger = <<Sale(late)>> \o more
    /\ asked \in [future : BOOLEAN, returns : {"invoice", Nothing},
          terms : {ts \in Terms : ts # <<>> =>
                     /\ ts[1].invoiced + ts[2].invoiced = Price
                     /\ \A i \in 1..2 : ts[i].paid <= ts[i].invoiced
                     /\ ts[1].paid >= ts[2].paid}]
    /\ asked.returns = Nothing \/ \E i \in DOMAIN ledger : ledger[i].voucher = "return"
    /\ balance = [v \in Voucher |-> [invoiced |-> 0, paid |-> 0, credit |-> 0]]
    /\ at = 1 /\ data = <<>>
    /\ IF asked.future THEN future \in UpTo(MaxFuture, 1..Price) ELSE future = <<>>

(***************************************************************************)
(* Ledger entries.                                                         *)
(***************************************************************************)
\* With later payments the report also reads late entries that are against
\* nothing.
Chosen(e) == ~e.late \/ (asked.future /\ e.against = Nothing)

Vouchers == {ledger[i].voucher : i \in {j \in DOMAIN ledger : Chosen(ledger[j])}}

\* A payment of a return is one of the invoice the return is against.
Original(e) == IF e.against = "return" /\ asked.returns # Nothing THEN asked.returns ELSE e.against

\* The row an entry goes to: that of the voucher it is against, if there is one.
Target(e) == IF Original(e) \in Vouchers THEN Original(e) ELSE e.voucher

IsInvoice(v) == v \in {"invoice", "return"}

Updated(row, e) ==
    IF e.amount > 0 /\ ~(~IsInvoice(e.voucher) /\ e.against # Nothing) THEN [row EXCEPT !.invoiced = @ + e.amount]
    ELSE IF e.amount < 0 /\ IsInvoice(e.voucher) THEN [row EXCEPT !.credit = @ - e.amount]
    ELSE [row EXCEPT !.paid = @ - e.amount]

UpdateBalance ==
    /\ at <= Len(ledger)
    /\ balance' = IF Chosen(ledger[at]) THEN [balance EXCEPT ![Target(ledger[at])] = Updated(@, ledger[at])]
                  ELSE balance
    /\ at' = at + 1
    /\ UNCHANGED <<ledger, asked, data, future>>

(***************************************************************************)
(* Rows of a voucher.                                                      *)
(***************************************************************************)
Outstanding(row) == row.invoiced - row.paid - row.credit

Smaller(a, b) == IF a < b THEN a ELSE b

Sum(f) == FoldFunction(+, 0, f)

\* The fold over s, from the left.
Folded(op(_, _), base, s) ==
    LET after[n \in 0..Len(s)] == IF n = 0 THEN base ELSE op(after[n - 1], s[n])
    IN after[Len(s)]

Scheduled == Sum([i \in DOMAIN asked.terms |-> asked.terms[i].paid])

\* What was paid goes to the terms of which nothing is paid, then what was
\* credited to the terms that lack anything.
Allocated(acc, term) ==
    LET open == term.invoiced - term.paid
        paid == IF term.paid = 0 THEN Smaller(acc.paid, open) ELSE 0
        credit == Smaller(acc.credit, open - paid)
        rest == open - paid - credit
    IN [paid |-> acc.paid - paid, credit |-> acc.credit - credit,
        rows |-> IF rest > 0 THEN Append(acc.rows, rest) ELSE acc.rows]

Unallocated(row) ==
    [paid |-> row.paid - Scheduled, credit |-> row.credit, rows |-> <<>>]

\* Mutant: what is left over is not shown.
SplitShort(row) == Folded(Allocated, Unallocated(row), asked.terms).rows

\* What is left over makes one more row.
Split(row) ==
    LET end == Folded(Allocated, Unallocated(row), asked.terms)
    IN end.rows \o (IF end.paid > 0 \/ end.credit > 0 THEN <<0 - end.paid - end.credit>> ELSE <<>>)

Shown(v) ==
    IF Outstanding(balance[v]) = 0 THEN <<>>
    ELSE IF v = "invoice" /\ asked.terms # <<>> THEN Split(balance[v])
    ELSE <<Outstanding(balance[v])>>

\* A later payment is compared with the whole of the row, also when another
\* has given to it.
AllocatedFuture(acc, f) ==
    IF acc.remaining <= 0 \/ f = 0 THEN [acc EXCEPT !.left = Append(@, f)]
    ELSE IF f > acc.outstanding THEN
         [acc EXCEPT !.amount = acc.outstanding, !.remaining = 0, !.left = Append(@, f - acc.outstanding)]
    ELSE [acc EXCEPT !.amount = @ + f, !.remaining = acc.outstanding - acc.amount - f, !.left = Append(@, 0)]

\* Later payments name the invoice.
Appended(acc, outstanding) ==
    LET end == Folded(AllocatedFuture,
                   [outstanding |-> outstanding, remaining |-> outstanding, amount |-> 0, left |-> <<>>],
                   acc.future)
    IN [data |-> Append(acc.data, [outstanding |-> outstanding, future |-> end.amount]), future |-> end.left]

\* Vouchers come in the order of their first entries.
First(i) == Chosen(ledger[i]) /\ \A j \in 1..i - 1 : Chosen(ledger[j]) => ledger[j].voucher # ledger[i].voucher

BuildData ==
    /\ at \in Len(ledger) + 1..2 * Len(ledger)
    /\ LET i == at - Len(ledger)
           v == ledger[i].voucher
           rows == IF First(i) THEN Shown(v) ELSE <<>>
           end == IF v = "invoice"
                  THEN Folded(Appended, [data |-> data, future |-> future], rows)
                  ELSE [data |-> data \o [j \in DOMAIN rows |-> [outstanding |-> rows[j], future |-> 0]],
                        future |-> future]
       IN data' = end.data /\ future' = end.future
    /\ at' = at + 1
    /\ UNCHANGED <<ledger, asked, balance>>

Next == UpdateBalance \/ BuildData

Spec == Init /\ [][Next]_vars

(***************************************************************************)
(* Safety.                                                                 *)
(***************************************************************************)
Done == at = 2 * Len(ledger) + 1

\* The schedule holds what was paid up to today, the ledger's entries end with
\* the report's day: of an invoice whose terms were all paid for later on,
\* what is in excess is put nowhere.
KnowsLater ==
    /\ asked.terms # <<>> /\ Scheduled > balance["invoice"].paid
    /\ \A i \in DOMAIN asked.terms : asked.terms[i].paid > 0

\* Whatever vouchers the entries are set against, and whichever terms they are
\* split over, the rows shown come to what the entries chosen come to
\* (update_voucher_balance, allocate_outstanding_based_on_payment_terms).
ShownIsBalance ==
    Done /\ ~KnowsLater =>
        Sum([i \in DOMAIN data |-> data[i].outstanding])
        = Sum([i \in DOMAIN ledger |-> IF Chosen(ledger[i]) THEN ledger[i].amount ELSE 0])

\* One later payment is spread over the rows of its invoice: no row is given
\* more than it lacks, and together they get all of it or all they lack
\* (allocate_future_payments).  Two payments may give a row too much, and one
\* row what is then missing in the next.
FutureFits ==
    Len(future) <= 1 =>
        \A i \in DOMAIN data : data[i].future > 0 =>
            /\ data[i].future <= data[i].outstanding
            /\ \A j \in i + 1..Len(data) : data[j].future > 0 => data[i].future = data[i].outstanding
            /\ future[1] > 0 => data[i].future = data[i].outstanding
=============================================================================
