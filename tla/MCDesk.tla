-------------------------------- MODULE MCDesk --------------------------------
(***************************************************************************)
(* The parts of DeskDocuments, and those that compute something from an    *)
(* input, in one instance for TLC: a behaviour is one of the part that was *)
(* chosen at the start.                                                    *)
(***************************************************************************)
EXTENDS DeskDocuments, TLC

CONSTANTS
    e1, e2,                                            \* entries, and employees
    Receivable, Paper, NoPaper,                        \* GeneralLedger, CurrencyLedger
    MaxLedger, MaxCurrency,
    MaxSlips                                           \* SalaryComparison

VARIABLES
    entries, request, next, totals, shown, lines,
    document, side, foreign, failed, result,
    slip, wanted, stage, chosen, months, pay

ledgerVars == <<entries, request, next, totals, shown, lines>>
currencyVars == <<document, side, foreign, failed, result>>
comparisonVars == <<slip, wanted, stage, chosen, months, pay>>

\* The salary slips that are compared.
SlipOf(state, department, center, pays) ==
    [state |-> state, department |-> department, center |-> center, pays |-> pays]
Plain == ("Basic" :> 2) @@ ("Housing" :> 1)
Taxed == ("Basic" :> 3) @@ ("Transport" :> 1) @@ ("Tax" :> 1)

\* One payload is the invoice's sum, the others are rounded up.
Exactly == CHOOSE i \in FiscalInvoice : TRUE
MCRounding == [i \in FiscalInvoice |-> IF i = Exactly THEN 0 ELSE 1]
MCDifference == [i \in FiscalInvoice |-> IF i = Exactly THEN {0, 2} ELSE {1}]

\* One entry repeats every week, the other every month.
MCBegins == (e1 :> 2) @@ (e2 :> 5)
MCEnds == (e1 :> 7) @@ (e2 :> 13)
MCMonthDays == <<5, 3, 5, 4>>

Ledger == INSTANCE GeneralLedger WITH
    Voucher <- Paper, Nothing <- NoPaper, Filter <- Receivable \cup {CHOOSE v \in Paper : TRUE},
    MaxEntries <- MaxLedger, at <- next, sums <- totals
Currency == INSTANCE CurrencyLedger WITH
    Voucher <- {CHOOSE v \in Paper : TRUE}, Nothing <- NoPaper, Foreign <- Receivable, Filter <- Receivable,
    Paid <- 3, Received <- 5, GrandTotal <- 7, MaxEntries <- MaxCurrency, at <- next, sums <- totals
Comparison == INSTANCE SalaryComparison WITH
    Employee <- {e1, e2}, filters <- wanted, at <- stage, data <- months, totals <- pay,
    Section <- ("Basic" :> "basic") @@ ("Housing" :> "allowances") @@ ("Transport" :> "allowances")
                    @@ ("Tax" :> "deductions"),
    Slip <- {SlipOf("Submitted", "head", "c1", Plain), SlipOf("Submitted", "head", "c2", Taxed),
             SlipOf("Submitted", "branch", "c1", Plain), SlipOf("Submitted", "branch", "c1", Taxed),
             SlipOf("Draft", "head", "c1", Taxed)}

MCInit ==
    /\ part \in {"receipts", "salaries", "offences", "batches", "payloads", "report", "chart", "time",
                "ledger", "currency", "summary", "write-offs", "fiscal", "comparison"}
    /\ DocumentsInit
    /\ CASE part = "ledger" -> Ledger!Init
         [] part = "currency" -> Currency!CurrencyInit
         [] OTHER -> entries = 0 /\ request = 0 /\ next = 0 /\ totals = 0 /\ shown = 0 /\ lines = 0
    /\ part # "currency" => document = 0 /\ side = 0 /\ foreign = 0 /\ failed = 0 /\ result = 0
    /\ IF part = "comparison" THEN Comparison!Init
       ELSE slip = 0 /\ wanted = 0 /\ stage = 0 /\ chosen = 0 /\ months = 0 /\ pay = 0

MCNext ==
    /\ DocumentsNext
    /\ CASE part = "ledger" -> Ledger!Next
         [] part = "currency" -> Currency!CurrencyNext
         [] part = "comparison" -> Comparison!Next
         [] OTHER -> TRUE
    /\ (part # "currency" => Kept("ledger", ledgerVars))
    /\ Kept("currency", currencyVars) /\ Kept("comparison", comparisonVars)

allVars == <<documentVars, ledgerVars, currencyVars, comparisonVars>>

MCSpec == MCInit /\ [][MCNext]_allVars

ASSUME PartsAssumption ==
    /\ Ledger!LedgerAssumption /\ Currency!CurrencyAssumption /\ Comparison!SlipAssumption

(***************************************************************************)
(* The properties of the parts.                                            *)
(***************************************************************************)
\* What reports add up is the ledger's: the rows of the two receivables
\* reports, the lines of the balance chart, and the entries, running balances
\* and totals of the two general ledgers; and the salary slips', in the
\* comparison of two months (build_data, get_account_balances,
\* get_accountwise_gle, get_result_as_list, get_deduction_data).
ReportsAddUp ==
    /\ part = "report" => Report!ShownIsBalance /\ Report!FutureFits
    /\ part = "chart" => Chart!LinesAreBalances
    /\ part = "ledger" => Ledger!RunningEndsAtClosing /\ Ledger!ReportIsLedger
    /\ part = "currency" => Currency!RunningEndsAtClosing /\ Currency!ReportIsLedger /\ Currency!LeftIsWhole
    /\ part = "summary" => Summary!RowsAreBalance
    /\ part = "comparison" => Comparison!RowsAddUp
=============================================================================
