--------------------------- MODULE ReceivableSummary ---------------------------
(***************************************************************************)
(* The summary of receivables (accounts_receivable_utils.py and            *)
(* accounts_receivable_summary_multi_currency.py): of one customer's       *)
(* ledger entries, summed for each voucher and what it is against, those   *)
(* that stand for themselves become rows, less what is against them.  Its  *)
(* data are an invoice and a later one, a return, a payment, a journal     *)
(* entry and an order.                                                     *)
(***************************************************************************)
EXTENDS Integers, Sequences, FiniteSets, Functions

CONSTANTS
    Price,       \* what the invoice comes to
    MaxOthers    \* bound: entries besides those of invoices

\* What the constants are.
SummaryAssumption == Price \in Nat \ {0} /\ MaxOthers \in Nat

Voucher == {"invoice", "later", "return", "payment", "journal"}
Nothing == "nothing"

VARIABLES
    ledger,     \* entries, those dated after the report included
    returnOf,   \* the invoice the return is of, if it is of one
    todo,       \* entries not looked at yet
    rows,       \* the rows
    total       \* the customer's line in the summary, once there is one

vars == <<ledger, returnOf, todo, rows, total>>

(***************************************************************************)
(* Types.  late: the entry is dated after the report; amount: debit less   *)
(* credit.                                                                 *)
(***************************************************************************)
Amount == (0 - Price)..Price \ {0}
Entry == [voucher : Voucher, against : Voucher \cup {"order", Nothing}, amount : Amount, late : BOOLEAN]
Row == [voucher : Voucher, outstanding : Int, paid : Int, credit : Int]

TypeOK ==
    /\ ledger \subseteq Entry /\ todo \subseteq ledger
    /\ returnOf \in {"invoice", Nothing}
    /\ rows \in Seq(Row)
    /\ total \in Seq([paid : Int, credit : Int, outstanding : Int])

Legal(e) ==
    \/ e.voucher = "invoice" /\ e.against = "invoice" /\ e.amount = Price
    \/ e.voucher = "later" /\ e.against = "later" /\ e.amount = Price /\ e.late
    \/ e.voucher = "return" /\ e.against \in {"invoice", "return"} /\ e.amount < 0
    \/ e.voucher = "payment" /\ e.against \in {"invoice", "later", "order", Nothing} /\ e.amount < 0
    \/ e.voucher = "payment" /\ e.against = "return" /\ e.amount > 0
    \/ e.voucher = "journal" /\ e.against \in {"invoice", "payment", Nothing}

Own(e) == e.voucher \in {"invoice", "later"}

\* All entries of a voucher have one date, and one for each it is against,
\* which is there; no return is dated before its invoice.
Legible(l) ==
    /\ \A e, f \in l : e # f /\ e.voucher = f.voucher => e.against # f.against /\ e.late = f.late
    /\ \A e \in l : e.against \in {f.voucher : f \in l} \cup {Nothing, "order"}
    /\ \A e, f \in l : e.voucher = "return" /\ f.voucher = "invoice" /\ f.late => e.late

Invoices == SUBSET {e \in Entry : Legal(e) /\ Own(e)}
Others ==
    UNION {{Range(s) : s \in [1..n -> {e \in Entry : Legal(e) /\ ~Own(e)}]} : n \in 0..MaxOthers}
Ledgers == {own \cup others : own \in Invoices, others \in Others}

Init ==
    /\ ledger \in {l \in Ledgers : Legible(l)}
    /\ returnOf \in {"invoice", Nothing}
    /\ returnOf = "invoice" => "invoice" \in {e.voucher : e \in ledger}
    /\ \A e \in ledger : e.voucher = "return" /\ e.against = "invoice" => returnOf = "invoice"
    /\ todo = {e \in ledger : ~e.late} /\ rows = <<>>
    /\ total = <<>>

(***************************************************************************)
(* Which entries stand for themselves.                                     *)
(***************************************************************************)
IsReturn(v) == v = "return"
Alone(v) == IsReturn(v) /\ returnOf = Nothing

\* Vouchers that have entries after the report.
FutureVouchers == {e.voucher : e \in {f \in ledger : f.late}}

IsReceivable(e) ==
    \/ e.against \in {Nothing, "order"}
    \/ e.against = e.voucher /\ (e.amount > 0 \/ Alone(e.voucher))
    \/ e.against \in FutureVouchers

(***************************************************************************)
(* What is against an entry: of a return that stands alone also itself.    *)
(***************************************************************************)
Against(e) ==
    {f \in ledger : f.against = e.voucher /\ ~f.late /\ (f # e \/ Alone(f.voucher))}

Sum(f) == FoldFunction(+, 0, f)

SumOf(S) == Sum([f \in S |-> f.amount])

Payments(e) == 0 - SumOf({f \in Against(e) : ~IsReturn(f.voucher)})
Credits(e) == 0 - SumOf({f \in Against(e) : IsReturn(f.voucher)})

Outstanding(e) == (IF Alone(e.voucher) THEN 0 ELSE e.amount) - Payments(e) - Credits(e)

(***************************************************************************)
(* Rows.                                                                   *)
(***************************************************************************)
PaidOf(e) == (IF e.amount > 0 THEN e.amount ELSE 0) - Outstanding(e) - Credits(e)

Look ==
    /\ todo # {}
    /\ LET e == CHOOSE f \in todo : TRUE
       IN /\ todo' = todo \ {e}
          /\ rows' = IF ~IsReceivable(e) \/ Outstanding(e) = 0 THEN rows
                     ELSE Append(rows, [voucher |-> e.voucher, outstanding |-> Outstanding(e),
                                        credit |-> Credits(e), paid |-> PaidOf(e)])
    /\ UNCHANGED <<ledger, returnOf, total>>

\* The summary adds up the columns of the rows.
Total ==
    /\ todo = {} /\ rows # <<>> /\ total = <<>>
    /\ total' = <<[paid |-> Sum([i \in DOMAIN rows |-> rows[i].paid]),
                 credit |-> Sum([i \in DOMAIN rows |-> rows[i].credit]),
                 outstanding |-> Sum([i \in DOMAIN rows |-> rows[i].outstanding])]>>
    /\ UNCHANGED <<ledger, returnOf, todo, rows>>

Next == Look \/ Total

Spec == Init /\ [][Next]_vars

(***************************************************************************)
(* Safety.                                                                 *)
(***************************************************************************)
Till == {e \in ledger : ~e.late}

\* Of a return of an invoice that is against itself, and of what is against a
\* return of an invoice, there is no row; what is against a payment is in each
\* of its rows, and in none if all of the payment is against invoices.
Placed(e) ==
    /\ e.voucher = "return" /\ e.against = "return" => returnOf = Nothing
    /\ e.against = "return" => returnOf = Nothing
    /\ e.against = "payment" => Cardinality({f \in Till : f.voucher = "payment" /\ IsReceivable(f)}) = 1

\* Whatever is set against what, and also with later documents, the rows come
\* to the customer's balance at the report's date, provided every entry has its
\* place (is_receivable_or_payable, get_outstanding_amount).
RowsAreBalance ==
    todo = {} /\ (\A e \in Till : Placed(e)) =>
        /\ Sum([i \in DOMAIN rows |-> rows[i].outstanding]) = SumOf(Till)
        /\ \A i \in DOMAIN total : total[i].outstanding = SumOf(Till)
=============================================================================
