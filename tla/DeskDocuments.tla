----------------------------- MODULE DeskDocuments -----------------------------
(***************************************************************************)
(* The parts of the desk that change documents, in one specification: a    *)
(* behaviour is one of the part that is chosen, and of whatever parts of   *)
(* others are added (MCDesk).  The parts share nothing.  In the first five *)
(* sessions meet, the others are algorithms.  The variables of a part  *)
(* that reads its input at the start are 0 in behaviours of another.       *)
(***************************************************************************)
EXTENDS TraReceipts, Sequences

CONSTANTS
    Repeated, Weekly, Begins, Ends, MonthDays, Week, Lead, LastDay,   \* RepeatedSalaries
    Job, Web, MaxFaults,
    MaxOffences,                                                      \* LatraOffences
    OwedInvoice, Payment, Clerk, Worth, Nobody,                       \* WriteOffs
    FiscalInvoice, Manager, Exact, Charge, Tolerance,                 \* PergamonReports
    Rounding, Difference, MaxArchived,
    MaxRows, MaxBatches, MaxQty, Factors,                             \* BatchSplitting
    Clock, Grace,                                                     \* Overtime
    MaxLines, Rate, Qty, Inexact, Apart,                              \* FiscalPayload
    Account, Days, Money,                                             \* BalanceTimeline
    Price, MaxOthers,                                                 \* ReceivableSummary
    MaxEntries, MaxFuture                                             \* ReceivableReport

VARIABLES
    part,
    today, live, left, copies, works, ran, missed, faults,
    issued, paid, rec, fetcher, broken,
    enabled, written, owed, clerk, lock, overtaken,
    books, register, fetches, archive,
    rows, stock, row, batch, got, used, kept, verdict,
    attendance, hours,
    invoice, provider, payload,
    posted, account, filters, sums, running, chart,
    balances, returnOf, todo, summary, total,
    ledger, asked, balance, at, data, future

salaryVars == <<today, live, left, copies, works, ran, missed, faults>>
offenceVars == <<issued, paid, rec, fetcher, broken>>
writeOffVars == <<enabled, written, owed, clerk, lock, overtaken>>
fiscalVars == <<books, register, fetches, archive>>
batchVars == <<rows, stock, row, batch, got, used, kept, verdict>>
timeVars == <<attendance, hours>>
payloadVars == <<invoice, provider, payload>>
chartVars == <<posted, account, filters, sums, running, chart>>
summaryVars == <<balances, returnOf, todo, summary, total>>
reportVars == <<ledger, asked, balance, at, data, future>>

Salaries == INSTANCE RepeatedSalaries WITH
    Entry <- Repeated, First <- Begins, End <- Ends, made <- copies, run <- works
Latra == INSTANCE LatraOffences WITH run <- fetcher, faults <- broken
Write == INSTANCE WriteOffs WITH Invoice <- OwedInvoice, Total <- Worth, record <- written, request <- clerk
Fiscal == INSTANCE PergamonReports WITH
    Invoice <- FiscalInvoice, Sent <- Rounding, Issued <- Difference,
    invoice <- books, receipt <- register, fetch <- fetches
Batches == INSTANCE BatchSplitting
Time == INSTANCE Overtime WITH Day <- Clock
Payloads == INSTANCE FiscalPayload WITH MaxRows <- MaxLines
Chart == INSTANCE BalanceTimeline WITH LastDay <- Days, Amount <- Money
Summary == INSTANCE ReceivableSummary WITH ledger <- balances, rows <- summary
Report == INSTANCE ReceivableReport

DocumentsInit ==
    /\ Init /\ Salaries!Init /\ Latra!Init
    /\ IF part = "write-offs" THEN Write!Init
       ELSE enabled = 0 /\ written = 0 /\ owed = 0 /\ clerk = 0 /\ lock = 0 /\ overtaken = 0
    /\ IF part = "fiscal" THEN Fiscal!Init
       ELSE books = 0 /\ register = 0 /\ fetches = 0 /\ archive = 0
    /\ IF part = "batches" THEN Batches!Init
       ELSE /\ rows = 0 /\ stock = 0 /\ row = 0 /\ batch = 0
            /\ got = 0 /\ used = 0 /\ kept = 0 /\ verdict = 0
    /\ IF part = "time" THEN Time!Init ELSE attendance = 0 /\ hours = 0
    /\ IF part = "payloads" THEN Payloads!Init ELSE invoice = 0 /\ provider = 0 /\ payload = 0
    /\ IF part = "chart" THEN Chart!Init
       ELSE posted = 0 /\ account = 0 /\ filters = 0 /\ sums = 0 /\ running = 0 /\ chart = 0
    /\ IF part = "summary" THEN Summary!Init
       ELSE balances = 0 /\ returnOf = 0 /\ todo = 0 /\ summary = 0 /\ total = 0
    /\ IF part = "report" THEN Report!Init
       ELSE ledger = 0 /\ asked = 0 /\ balance = 0 /\ at = 0 /\ data = 0 /\ future = 0

Kept(p, v) == part # p => UNCHANGED v

DocumentsNext ==
    /\ UNCHANGED part
    /\ CASE part = "receipts" -> Next
         [] part = "salaries" -> Salaries!Next
         [] part = "offences" -> Latra!Next
         [] part = "write-offs" -> Write!Next
         [] part = "fiscal" -> Fiscal!Next
         [] part = "batches" -> Batches!Next
         [] part = "time" -> Time!Next
         [] part = "payloads" -> Payloads!Next
         [] part = "chart" -> Chart!Next
         [] part = "summary" -> Summary!Next
         [] part = "report" -> Report!Next
         [] OTHER -> TRUE
    /\ Kept("receipts", vars) /\ Kept("salaries", salaryVars) /\ Kept("offences", offenceVars)
    /\ Kept("write-offs", writeOffVars) /\ Kept("fiscal", fiscalVars)
    /\ Kept("batches", batchVars) /\ Kept("time", timeVars) /\ Kept("payloads", payloadVars)
    /\ Kept("chart", chartVars) /\ Kept("summary", summaryVars)
    /\ Kept("report", reportVars)

documentVars == <<part, vars, salaryVars, offenceVars, writeOffVars, fiscalVars, batchVars, timeVars,
                  payloadVars, chartVars, summaryVars, reportVars>>

DocumentsSpec == DocumentsInit /\ [][DocumentsNext]_documentVars

ASSUME DocumentsAssumption ==
    /\ Salaries!DayAssumption /\ Latra!SizeAssumption /\ Latra!WorkerAssumption
    /\ Write!DocumentAssumption /\ Fiscal!ReceiptAssumption
    /\ Batches!BoundAssumption /\ Time!TimeAssumption /\ Payloads!AmountAssumption
    /\ Chart!RangeAssumption /\ Summary!SummaryAssumption /\ Report!PriceAssumption

(***************************************************************************)
(* The properties of the parts.                                            *)
(***************************************************************************)
\* However the job and the button overlap, the drafts made of a repeated
\* salary are one for each week or month, none twice and none left out, and
\* after the day's run no more are lacking than there were days on which the
\* run failed (generate_additional_salary_records).
PeriodsAreDrafted == part = "salaries" => Salaries!EachPeriodOnce /\ Salaries!LacksOnlyMissed

\* While a run has the table of offences to itself, it makes no second record,
\* takes no PAID back, and leaves a record that says what it fetched
\* (update_latra_offences).
LoneRunIsFaithful == Latra!LoneRunIsFaithful

\* However requests, payments and allocations overlap, a payment is written off
\* once, for what is left of it; an invoice is, unless someone changed what is
\* outstanding after the request had read it (create_write_off_jv_pe,
\* create_write_off_jv_si).
WrittenOffOnce == part = "write-offs" => Write!WrittenOffOnce

\* A report that indicates a match counts no receipt the books lack, although
\* they go on while Pergamon is asked and only numbers and sums are compared; the
\* archive holds one report of a period unless managers archive at the same time,
\* and replaces none by an older one; the register and the lookup call Verified
\* what posting accepts (fetch_pergamon_zreport, fetch_pergamon_periodic_report,
\* compare_pergamon_invoices, get_pergamon_invoice).
ReportsFollowPergamon ==
    part = "fiscal" => Fiscal!MatchIsComplete /\ Fiscal!ArchiveMovesOn /\ Fiscal!RegisterAgrees

\* What is divided among rows or kinds is divided without a rest.  No row gets
\* more than it asks for, and one or two rows in the stock unit get all there is
\* for them without drawing more than it holds from any batch (batch_splitting).
\* Of a stay that overlaps its shift every hour counts once, as working hours or
\* as excess, and an approval moves overtime without losing any
\* (process_overtime).
SharesFit ==
    /\ part = "batches" => Batches!RowsFit
    /\ part = "time" => Time!StayIsSplit

\* The payload of each provider declares what the invoice charges: never less
\* but for rounding, unless a discount on the whole invoice makes a row look as
\* if VAT were in its price, and more only for such a discount (get_payload of
\* the five providers).
DeclaredIsCharged == part = "payloads" => Payloads!DeclaredIsCharged
================================================================================
