---------------------------- MODULE FiscalPayload ----------------------------
(***************************************************************************)
(* The amounts that the five VFD providers are told of a Sales Invoice     *)
(* (get_payload of each provider, vfd_providers/utils.py), and what the    *)
(* invoice charges.  Amounts are whole cents of the company's currency.    *)
(***************************************************************************)
EXTENDS Integers, Sequences, Functions

CONSTANTS
    MaxRows,   \* bound: rows of an invoice
    Rate,      \* prices of an item
    Qty,       \* quantities of an item
    Inexact,   \* amounts of which nine tenths and a tenth, each rounded to the
               \* cent, do not make the amount when they are added as doubles
    Apart      \* those of which they do not make it to the cent either

\* What the constants are.
AmountAssumption ==
    /\ MaxRows \in Nat /\ Rate \subseteq Nat /\ Qty \subseteq Nat \ {0}
    /\ Apart \subseteq Inexact /\ Inexact \subseteq Nat

Provider == {"VFDPlus", "Total", "Simplify", "DIRM", "Pergamon"}

VARIABLES
    invoice,   \* the invoice, as its form holds it
    provider,  \* whom it is for
    payload    \* what is sent: the total, and the VAT in it that DIRM is told

vars == <<invoice, provider, payload>>

(***************************************************************************)
(* Types.  inclusive: VAT is in the prices; off: there is a discount on    *)
(* the whole invoice; foreign: it is in another currency; rounds: its      *)
(* total is rounded to the shilling; taxed: VAT is charged at all; vat:    *)
(* the settings of VFDPlus or DIRM say that the company has to do with VAT.*)
(***************************************************************************)
TaxCode == {"standard", "other"}
Row == [code : TaxCode, rate : Rate, qty : Qty]
Invoice == [rows : UNION {[1..n -> Row] : n \in 1..MaxRows}, inclusive : BOOLEAN, off : BOOLEAN,
            foreign : BOOLEAN, rounds : BOOLEAN, taxed : BOOLEAN, vat : BOOLEAN]

NoPayload == [state |-> "none"]
Refusal == [state |-> "refused"]

TypeOK ==
    /\ invoice \in Invoice /\ provider \in Provider
    /\ payload.state \in {"none", "refused", "sent"}
    /\ payload.state = "sent" => payload.total \in Nat /\ payload.vat \in Nat

Init ==
    /\ invoice \in Invoice /\ provider \in Provider
    /\ payload = NoPayload

(***************************************************************************)
(* Sums, and rounding to the nearest.                                      *)
(***************************************************************************)
Rounded(n, d) == (2 * n + d) \div (2 * d)
Total(f) == FoldFunction(+, 0, f)
Rows == DOMAIN invoice.rows
Standard == {i \in Rows : invoice.rows[i].code = "standard"}

(***************************************************************************)
(* What the invoice charges: ERPNext's rows and totals.                    *)
(***************************************************************************)
Amount(i) == invoice.rows[i].rate * invoice.rows[i].qty

\* A row's share of the discount, here a tenth; in the currency of the invoice
\* it is another number.
Share(i) == IF invoice.off THEN Amount(i) \div 10 ELSE 0
ShareShown(i) == IF invoice.foreign THEN Share(i) \div 2 ELSE Share(i)

Included == invoice.taxed /\ invoice.inclusive
Net(i) == (IF i \in Standard /\ Included THEN Rounded(Amount(i) * 100, 118) ELSE Amount(i)) - Share(i)

Charged ==
    IF Included /\ ~invoice.off THEN Total([i \in Rows |-> Amount(i)])
    ELSE Total([i \in Rows |-> Net(i)])
         + (IF invoice.taxed THEN Rounded(18 * Total([i \in Standard |-> Net(i)]), 100) ELSE 0)

VatCharged ==
    IF Included THEN Total([i \in Standard |-> Amount(i) - Net(i)])
    ELSE Rounded(18 * Total([i \in Standard |-> Net(i)]), 100)

RoundedTotal == IF invoice.rounds THEN 100 * Rounded(Charged, 100) ELSE Charged

(***************************************************************************)
(* Submission of the invoice.                                              *)
(***************************************************************************)
\* Something is charged, and VAT on every standard row, which may only be
\* remarked on where VFDPlus has VAT.
Valid ==
    /\ Total([i \in Rows |-> Net(i)]) # 0
    /\ Standard = {} \/ invoice.taxed \/ (provider = "VFDPlus" /\ invoice.vat)

(***************************************************************************)
(* Lines.                                                                  *)
(***************************************************************************)
\* Mutant: a row's share of the discount is not looked at.
ExclusiveByNet(i) == Net(i) = Amount(i)

\* A share makes the sum of doubles miss the amount: get_vat_amount compares
\* them as they are, Pergamon's get_line_amount to the cent.
Missed(i) == Share(i) # 0 /\ Amount(i) \in (IF provider = "Pergamon" THEN Apart ELSE Inexact)

\* VAT is not in the price if the row's net and its discount make its amount.
Exclusive(i) == Net(i) + ShareShown(i) = Amount(i) /\ ~Missed(i)

VatAmount(i) == IF i \in Standard /\ Exclusive(i) THEN Rounded(Amount(i) * 118, 100) ELSE Amount(i)

\* Simplify is told a price for one.
UnitPrice(i) == Rounded(VatAmount(i), invoice.rows[i].qty)

Line(i) == IF provider = "Simplify" THEN UnitPrice(i) * invoice.rows[i].qty ELSE VatAmount(i)

\* DIRM is told the VAT in each line, of a company that is registered.
LineVat(i) ==
    IF provider = "DIRM" /\ invoice.vat /\ i \in Standard THEN Rounded(Line(i) * 18, 118) ELSE 0

(***************************************************************************)
(* Payloads.                                                               *)
(***************************************************************************)
Sent == [state |-> "sent", total |-> Total([i \in Rows |-> Line(i)]),
         vat |-> Total([i \in Rows |-> LineVat(i)])]

Distance(a, b) == IF a < b THEN b - a ELSE a - b

\* Pergamon is sent nothing unless the lines make what is to be paid.
Reconciled == provider = "Pergamon" => Distance(Sent.total, RoundedTotal) <= 5

Send ==
    /\ payload = NoPayload /\ Valid /\ Reconciled
    /\ payload' = Sent
    /\ UNCHANGED <<invoice, provider>>

Refuse ==
    /\ payload = NoPayload /\ ~(Valid /\ Reconciled)
    /\ payload' = Refusal
    /\ UNCHANGED <<invoice, provider>>

Next == Send \/ Refuse

Spec == Init /\ [][Next]_vars

(***************************************************************************)
(* Safety.                                                                 *)
(***************************************************************************)
\* Half a cent for each number that is rounded.
Slack == Len(invoice.rows) + (IF provider = "Simplify" THEN Total([i \in Rows |-> invoice.rows[i].qty]) ELSE 0)

\* A row that is charged VAT on top and of which the sum is missed.
MissesVat == invoice.taxed /\ ~invoice.inclusive /\ \E i \in Standard : Missed(i)

\* TRA is never told less than the invoice charges, but for rounding, and no
\* more where there is no discount on the whole invoice and VAT is charged.  A
\* discount breaks the first in two ways, which are left out: in a foreign
\* currency get_vat_amount adds it to amounts in the company's, and in the
\* company's the sum of doubles may miss the amount, so that VAT is taken to be
\* in the price (MissesVat).  DIRM's VAT is what is charged, and Pergamon
\* is told what is to be paid or nothing.
DeclaredIsCharged ==
    payload.state = "sent" =>
        /\ (invoice.foreign /\ invoice.off) \/ MissesVat \/ payload.total + Slack >= Charged
        /\ ~invoice.off /\ invoice.taxed =>
              /\ payload.total <= Charged + Slack
              /\ provider = "DIRM" /\ invoice.vat => Distance(payload.vat, VatCharged) <= Slack
        /\ provider = "Pergamon" => Distance(payload.total, RoundedTotal) <= 5
=============================================================================
