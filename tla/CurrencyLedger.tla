---------------------------- MODULE CurrencyLedger ----------------------------
(***************************************************************************)
(* The general ledger in several currencies (multi_currency_ledger.py):    *)
(* a copy of the general ledger that also gives each entry what its        *)
(* document says in the document's currency, leaves out what that makes    *)
(* even, and lists the other side of a journal entry beneath it.           *)
(***************************************************************************)
EXTENDS GeneralLedger

CONSTANTS
    Foreign,                       \* accounts in a currency that is not the company's
    Paid, Received, GrandTotal     \* what a payment and an invoice say in their currencies

\* What the constants are.
CurrencyAssumption ==
    /\ LedgerAssumption
    /\ Foreign \subseteq Account /\ {Paid, Received, GrandTotal} \subseteq Nat \ {0}

VARIABLES
    document,   \* document[v]: what is looked up for the voucher
    side,       \* side[i]: the side of entry i, both if they are equal
    foreign,    \* what the entries say in a foreign currency, 0 where they say nothing
    failed,     \* the report ended with an exception
    result      \* the lines that are left, and between them the other sides

currencyVars == <<document, side, foreign, failed, result>>

(***************************************************************************)
(* Types.  from, to: the account paid from, or to, is in a foreign         *)
(* currency.  valued: the journal entry moves foreign accounts by a        *)
(* difference of exchange, which is nothing in their currency.             *)
(***************************************************************************)
Document ==
    [type : {"Payment Entry"}, kind : {"Receive", "Pay", "Internal Transfer"}, from : BOOLEAN, to : BOOLEAN]
    \cup [type : {"Invoice"}, foreign : BOOLEAN]
    \cup [type : {"Journal Entry"}, valued : BOOLEAN]
    \cup [type : {"Other"}]

CurrencyTypeOK ==
    /\ TypeOK
    /\ document \in [Voucher -> Document] /\ side \in [DOMAIN entries -> {"debit", "credit", "both"}]
    /\ foreign \in Seq(Nat) /\ failed \in BOOLEAN
    /\ result \in Seq([line : Line, against : Seq(Int)])

\* Dates are looked at as in the general ledger: here all are in the period.
CurrencyInit ==
    /\ document \in [Voucher -> Document]
    /\ \E ledger \in {l \in Ledgers : \A i \in DOMAIN l : l[i].when = 0 /\ ~l[i].opening} :
          /\ side \in [DOMAIN ledger -> {"debit", "credit", "both"}]
          /\ entries = [i \in DOMAIN ledger |->
                [ledger[i] EXCEPT !.amount = CASE side[i] = "debit" -> @ [] side[i] = "credit" -> 0 - @ [] OTHER -> 0]]
    /\ Start
    /\ foreign = <<>> /\ failed = FALSE /\ result = <<>>

(***************************************************************************)
(* What documents say.                                                     *)
(***************************************************************************)
Of(i) == document[entries[i].voucher]

\* A payment says what was received or paid, of a transfer what concerns the
\* side; an invoice what it comes to, to the entry of its party.
Currency(i) ==
    LET d == Of(i)
    IN CASE d.type = "Payment Entry" ->
              IF d.kind = "Receive" \/ (d.kind = "Internal Transfer" /\ side[i] = "debit") THEN d.to ELSE d.from
         [] d.type = "Invoice" -> entries[i].account \in Receivable /\ d.foreign
         [] d.type = "Journal Entry" -> entries[i].account \in Foreign
         [] d.type = "Other" -> FALSE

InAccount(i) == IF entries[i].account \in Foreign /\ Of(i).valued THEN 0 ELSE 2^i

DocAmount(i) ==
    LET d == Of(i)
    IN CASE d.type = "Payment Entry" ->
              IF d.kind = "Receive" \/ (d.kind = "Internal Transfer" /\ side[i] = "debit") THEN Received ELSE Paid
         [] d.type = "Invoice" -> GrandTotal
         [] d.type = "Journal Entry" -> InAccount(i)
         [] d.type = "Other" -> 0

\* The conditions are those of the general ledger.
Found(i) == Chosen(entries[i])

\* The rate is the entry's amount divided by the document's.
Convert ==
    /\ ~failed /\ Len(foreign) < Len(entries)
    /\ LET i == Len(foreign) + 1
           converts == Found(i) /\ Currency(i)
       IN IF converts /\ DocAmount(i) = 0 THEN failed' = TRUE /\ UNCHANGED foreign
          ELSE foreign' = Append(foreign, IF converts THEN DocAmount(i) ELSE 0) /\ UNCHANGED failed
    /\ UNCHANGED <<document, side, result, vars>>

Copied ==
    /\ Len(foreign) = Len(entries) /\ Read
    /\ UNCHANGED currencyVars

Built ==
    /\ Len(foreign) = Len(entries) /\ Build
    /\ UNCHANGED currencyVars

(***************************************************************************)
(* Lines that are left.                                                    *)
(***************************************************************************)
LeftOut(line) == line.row = "entry" /\ side[line.of] = "both" /\ foreign[line.of] # 0

\* The entries of the voucher in one account, or in the others.
In(v, a) == {i \in DOMAIN entries : entries[i].voucher = v /\ entries[i].account = a}
Others(v, a) == {i \in DOMAIN entries : entries[i].voucher = v /\ entries[i].account # a}

\* A journal entry is even: what its rows lack of that is in one more row, of
\* another account.
Rest(v) == 0 - SumOf({i \in DOMAIN entries : entries[i].voucher = v}, LAMBDA i : entries[i].amount)

\* The other rows of a journal entry, if the report is for an account.
Against(line) ==
    IF line.row # "entry" \/ request.account = Nothing THEN <<>>
    ELSE LET e == entries[line.of]
         IN IF Of(line.of).type # "Journal Entry" THEN <<>>
            ELSE [j \in 1..Cardinality(Others(e.voucher, e.account)) |->
                    entries[SetToSortSeq(Others(e.voucher, e.account), <)[j]].amount] \o <<Rest(e.voucher)>>

List ==
    /\ lines # <<>> /\ result = <<>>
    /\ result' = LET left == SelectSeq(lines, LAMBDA line : ~LeftOut(line))
                 IN [i \in DOMAIN left |-> [line |-> left[i], against |-> Against(left[i])]]
    /\ UNCHANGED <<document, side, foreign, failed, vars>>

CurrencyNext == Convert \/ Copied \/ Built \/ List

CurrencySpec == CurrencyInit /\ [][CurrencyNext]_<<vars, currencyVars>>

(***************************************************************************)
(* Safety.                                                                 *)
(***************************************************************************)
\* What is left out makes no difference to the total, unless entries were
\* consolidated into one with equal sides; and beneath an entry of a journal
\* stands the other side of all the journal has in the account
\* (get_result_as_list).
LeftIsWhole ==
    result # <<>> =>
        /\ (Consolidated => \A i \in DOMAIN lines : ~LeftOut(lines[i])) =>
              SumOf({i \in DOMAIN result : result[i].line.row = "entry"}, LAMBDA i : result[i].line.amount)
              = sums[Whole].total
        /\ \A i \in DOMAIN result : result[i].against # <<>> =>
              LET e == entries[result[i].line.of]
              IN FoldLeft(+, 0, result[i].against) = 0 - SumOf(In(e.voucher, e.account), LAMBDA j : entries[j].amount)
=============================================================================
