# CSF TZ: specifications, model checking and proofs

CSF TZ is a Frappe application that adapts ERPNext to Tanzania: fiscal receipts
(VFD), police fines and licences of vehicles, bank payment files, foreign
imports, payroll and tax hooks, and reports. This directory holds TLA+ modules of
its core logic, the TLC configurations that check them, and proofs for TLAPS.

The application has no servers of its own. Its handlers run in web requests,
in document events of ERPNext, and in jobs of Frappe's scheduler; each handler
is one database transaction (MariaDB, InnoDB, REPEATABLE READ), which commits
at the end or rolls back on an exception, unless the code commits in between.
What is hard is therefore the same everywhere: a call to an authority or a bank
cannot be rolled back with the transaction around it, a cron job works on what
it read some time ago, and several sessions handle one document. The pure
algorithms (splitting, payloads, reports) are hard in another way: they add up
amounts over cases that no test lists.

## Inventory

Modelled, at least in part:

| component | state | operations | what is hard | what makes it correct | module |
|---|---|---|---|---|---|
| VFD fiscalisation (`vfd_support`, `vfd_providers`) | Sales Invoice: docstatus, vfd_status, vfd_rctvnum, linked VFD Provider Posting | submit with automatic posting, Generate VFD, preview dialog, cancel, cron job every 15 minutes, five providers | lost answers and retries, rollback after TRA accepted, stale lists and dialogs, five different ideas of a failure | the books never claim more than TRA has issued; what was sent is settled in the end | `VfdPosting`, `FiscalLedger` |
| VFD payloads (`get_payload` of the five providers, `vfd_providers/utils.py`) | an invoice's rows and the amounts sent | build, check, send or refuse | VAT in or on the price, discounts, rounding, foreign currency | TRA is told what the invoice charges | `FiscalPayload` |
| Pergamon reports (`pergamon_vfd_settings.py`) | archived reports, the register | archive a day or a period, compare the register, look up a receipt | books read before Pergamon is asked, only sums and counts compared | a match means that the receipts are in the books | `PergamonReports` |
| Vehicle sync queue (`doctype/vehicle_sync_task`) | task rows, a cached list of recent calls | claim, call, mark, reset of stuck tasks, create, seed | claims by SELECT and UPDATE, a commit in the middle of a run, swallowed lock timeouts, a cache written after it was read | one worker per plate, stuck and failed tasks come back, the queue follows the fleet | `VehicleSyncQueue` |
| Vehicle fines (`doctype/vehicle_fine_record`, `vehicle_authority.py`) | fine records, notifications | store an answer, mark what it does not name as PAID, notify | an answer applied after a later one; mails inside a transaction | a fine is closed only when the police no longer list it; markers tell what was mailed | `VehicleFines` |
| LATRA offences and licences (`doctype/latra_licenses`) | offence records, a token in cache and settings under a lock | fetch page by page, write records, notify | two locks in either order, tokens refused or overwritten by older ones, a list that grows while it is read | a run misses nothing that was listed, makes no second record, takes no PAID back | `LatraFetch`, `LatraOffences` |
| Foreign import tracker (`csftz_hooks/exchange_calculations.py`, `doctype/foreign_import_transaction`) | tracker with payments, vouchers, difference rows; journal entries | create, link and unlink payments and vouchers, recalculate, daily update, manual entry, cancel | rows and journal entries are written by different calls, failures are logged and passed over | differences match the payments and vouchers, cancellations take the entries along, a tracker is closed exactly while it is paid | `ImportTracker` |
| Delivery and withholding of sales (`custom_api.py`) | delivery notes, delivered quantities, delivery status, withholding entries | on submission, from two forms, by the daily job, on cancellation | several makers plan from what they read; ERPNext and the app write the same fields | notes hold what was invoiced, rows and status say what was delivered, a row is withheld once | `SalesDelivery` |
| Batch splitting (`custom_api.py`, batch_splitting) | rows of an item, batches, what was given | pair by pair of row and batch | a batch remembered between rows | no row gets more than it asks for, no batch gives more than it has | `BatchSplitting` |
| Write-offs (`custom_api.py`) | documents, what they owe, journal entries | three requests, beside payments and allocations | a balance read before it is written off | nothing is written off twice | `WriteOffs` |
| Stanbic payments (`stanbic`) | initiation, outbox and inbox files, three kinds of answer | make, submit, transfer every 15 minutes, read answers every 15 minutes | a file written inside a transaction and named by the second, answers read again on each run | a payroll is paid once, a submitted batch reaches the bank, an answer reaches its document | `StanbicPayments` |
| KCB payments (`kcb`) | payment batch, its files, conversation id; details and files at the bank | make from payments or a payroll, save (a new encrypted file each time), submit (details, upload) | the bank is told inside the submission, which may roll back; two makers read before either inserts | what is submitted was uploaded under its own id; a source is paid once | `KcbPayments` |
| TRA receipts (`doctype/tra_tax_inv`) | verified receipts, invoices made of them | verify, make an invoice, edit, delete | exceptions are caught, so half a request commits | a receipt is booked once | `TraReceipts` |
| Repeated additional salaries (`csftz_hooks/additional_salary.py`) | repeating entries, drafts made of them | daily job, button of the form | one exception ends the day's run for everyone; months of different lengths | a draft for each period, none twice, none left out | `RepeatedSalaries` |
| Overtime (`csftz_hooks/attendance.py`) | an attendance | process_overtime | graces, holidays, shifts over midnight | every part of a stay counts once | `Overtime` |
| Receivables in several currencies, and their summary | ledger entries, rows | update balances, split over terms, spread later payments; sum for each voucher | returns against returns, terms paid later, entries against themselves | rows come to the ledger's balance | `ReceivableReport`, `ReceivableSummary` |
| General ledger and ledger in several currencies | entries, sums, lines | read, group, balance | openings, consolidation, entries left out | lines and totals are the ledger's | `GeneralLedger`, `CurrencyLedger` |
| Balance timeline chart | sums for each day and account, lines | add a day's entries | overlap with the opening balance | lines are the balances | `BalanceTimeline` |
| Comparison of two months' salaries | slips, sums, rows, totals | choose, sum in SQL, match the two lists | rows matched by key while they are added | rows add up to the totals | `SalaryComparison` |

Not modelled: VFD provider administration, payroll hooks, the remaining sales,
stock and tax hooks, HR hooks, the other authority lookups, bank charges and bank
APIs, the other reports and the desk's configuration, patches (see "Not
modelled").

The components meet in the database and in `hooks.py`: document events call the
first into a submitting transaction, the scheduler starts the jobs, and both run
at the same time as the desk. `PROJECT.json` lists the hazards of this code line
by line, with the properties that would catch them.

## Modules

Four systems have runs of their own: fiscalisation, the queue, imports, sales.
`MCAuthority` puts `VehicleFines` and `LatraFetch` side by side, `MCBanks` the two
banks, which share nothing, with a specification for each. `DeskDocuments`
composes eleven parts of the desk, `TraReceipts` with its own variables and the
others by INSTANCE, and `MCDesk` adds three more that read and print; the fourteen
share nothing. A variable `part`, chosen at the start, says which part takes
steps, so such a run has as many states as its parts together, not as their
product. Every module stays a specification by itself. The theorems of
`DeskProofs` and `DeskSumsProofs` are about `DeskDocuments`, those of the first
about sessions that meet, those of the second about what is computed.

### FiscalLedger and VfdPosting

`FiscalLedger` is what fiscalisation promises: TRA issues receipts, which are
never taken back, and the books record only the number of a receipt that was
issued. Once they name one they go on naming one, but for a cancellation that
began while they named none and ends after they do. `VfdPosting` is the code.

| model | code |
|---|---|
| `terms[i]` | what is fixed before submission: provider of the company, exempt or return, dated before vfd_start_date, is_auto_generate_vfd, preview, whether the invoice updates stock, and whether `check_submit_delivery_note` commits the submission before it is posted |
| `db[i]` | the committed Sales Invoice row and the outcome its VFD Provider Posting tells of |
| `receipts[i]` | the receipts TRA holds, numbered; known to the code only by answers |
| `req[s]` | the provider call a session is in |
| `dialog`, `run` | open preview dialogs; the companies and the list of invoices of the cron run |
| `Submit`, `SubmitAndPost`, `CommitThenPost` | submission, and `autogenerate_vfd` inside it or after its commit |
| `Generate`, `Preview`, `ConfirmPreview`, `CloseDialog` | `generate_tra_vfd` and the dialog of `sales_invoice.js`, which posts straight to the provider |
| `Accept`, `ReturnOriginal`, `Decline` | one request: a receipt is issued, the existing one is returned, or the request is refused or lost; `Verdict` says what each provider's sender makes of a failure (repeat, raise, record) |
| `Finish`, `Rollback` | the provider's writes (`*Write`) and the commit; or an exception anywhere before it |
| `Cancel` | a cancellation in one transaction, of an invoice that updates stock: `validate_cancel` |
| `BeginCancel`, `FinishCancel`, `AbandonCancel`, `held[w]` | any other cancellation: after `validate_cancel` the hook `check_cancel_delivery_note` commits, and Frappe then writes the whole row as it was read, or the cancellation fails |
| `StartRun`, `SelectCompany`, `PostInvoice`, `EndRun`, `CrashRun` | `posting_all_vfd_invoices` and a killed worker |

Left out: token jobs and read-only screens (they change no invoice), companies
without a provider (nothing is ever called), settings changed while an invoice is
open, and the status "Pending", which no code sets. The writes of
`post_fiscal_receipt` and the commit after them are one action: the row is locked
in between, so nobody sees the difference, and a failure between the two is
`Rollback` from "answered". The commits of `check_cancel_delivery_note` are one,
since none of them writes a field of VFD.

### VehicleSyncQueue

One `Worker` is a process in `run_vehicle_batch`; `Cron` is the scheduler's.

| model | code |
|---|---|
| `task` | committed Vehicle Sync Task rows (`due`: next_run_at has come; `aged`: claimed_at is more than ten minutes old) |
| `snap[s]`, `own[s]` | the table as the transaction reads it; the rows it has written, which are locked |
| `slot`, `calls` | what the cache says of the last minute, and what happened |
| `fleet` | the plates of `get_vehicle_like_records` |
| `Begin`, `Reset`, `Claim`, `ReadSlot`, `TakeSlot`, `Answered`, `Unanswered`, `Mark`, `Finish` | the steps of a run; `Answered` may commit the claim, as `sync_vehicle_fines` does |
| `Crash` | a killed process or an exception that leaves the run: rollback |
| `CreateImmediate`, `Seed` | `create_sync_task` and `seed_vehicle_sync_queue`, one plate at a time |
| `EditFleet`, `Minute`, `TenMinutes`, `NextDay` | vehicles come and go; time |

A worker that needs a lock another one holds waits (it takes no step), or gives
up: queue.py logs the exception and goes on, in a deadlock without its writes.
Tasks of one priority are taken by name in the code and in any order in the
model. Left out: edits of tasks by an administrator (status Paused) and the log
clean-up `clear_old_logs`, which is not registered. The seed reads and writes a
plate in one step; what it decides by an old list is put right by the next seed,
and no safety property depends on it. Priorities are 0 (the seed) and 5 (a
request for an immediate sync).

### VehicleFines

One vehicle. `Queue` is the worker that holds the vehicle's sync task, so it has
one call at a time; each member of `Web` is a request to `get_fine`.

| model | code |
|---|---|
| `issued`, `listed` | what TPF knows: fines it issued, those it lists as pending |
| `row[r]` | the committed Vehicle Fine Record with its two notification markers |
| `call[s]` | a call to TPF: whether the answer has come, and the records as the transaction read them, which may be before the call was made (REPEATABLE READ) |
| `Ask`, `Hear`, `Unanswered`, `Read` | `sync_vehicle_fines` up to its answer |
| `Apply`, `Interrupted` | the rows that are closed, made and told of; a mail that raises stops the loop, and `frappe.sendmail` has committed what was before it |
| `StartJob`, `JobRow`, `FailJob`, `EndJob` | `send_pending_vehicle_fine_notifications`, which decides by the rows it read when it began |
| `alerted`, `told` | the mails that were sent; no rollback takes them back |

Left out: amounts, officers and places of a fine (copied), and vehicles without a
valid plate (never asked about).

### LatraFetch and LatraOffences

Two modules for one pair of endpoints, cut where the list has been fetched: each
is abstract where the other is detailed. `LatraFetch` follows the token
(`_get_token`, `_refresh_token`) and the pages (`_fetch_all_offences`,
`_fetch_all_licenses`) and writes in one step; `LatraOffences` fetches in one
step and follows the writing.

| model | code |
|---|---|
| `good`, `cache`, `setting`, `lock` | tokens LATRA accepts; the one in Redis; the committed one of Latra Settings; `latra_token_refresh` in Redis |
| `run[s]` | the token in use, what the transaction reads (`seen`) and has written (`own`) in the settings, pages and rows fetched |
| `ReadCache`, `Fill`, `Acquire`, `Login`, `Store` | `_get_token` and `_refresh_token`; a written setting stays locked until the run commits |
| `Fetch`, `Refused`, `GiveUp`, `Abort`, `Done` | a page, the first refusal, the ends of a run; a run for offences that is refused twice raises, one for licences returns a message |
| `Expire`, `Evict`, `List` | LATRA refuses a token, the cache forgets it, the list grows at its head |
| `rec[o][s]`, `view`, `wrote` (LatraOffences) | the committed record of offence o made by s; what a run reads, which is as old as its last commit; what it holds locked |
| `Begin`, `Fetch`, `Apply`, `Done`, `Abort` (LatraOffences) | `update_latra_offences`: a mail about a row commits the rows before it |

Left out: licences that expire and their mails, the choice of recipients, the
order and time budget of `sync_all_latra_licenses`. `rec` names records by their
maker because nothing in the code makes them unique.

### ImportTracker

A tracker is named by the invoice it was made for. An action is one document
event, one whitelisted call, or the daily job's turn of one tracker.

| model | code |
|---|---|
| `doc` | docstatus of the Purchase Invoices, Payment Entries and Landed Cost Vouchers |
| `tracker[i]` | Foreign Import Transaction: docstatus, status, and the rows of its three tables |
| `linked[p]` | `Payment Entry.foreign_import_tracker`, the only tracker a cancelled payment is taken from |
| `made`, `posted`, `stuck` | the Journal Entries made for a tracker, numbered; those still submitted; those whose cancellation raised |
| `SubmitInvoice`, `CancelInvoice` | `create_import_tracker`, `cancel_import_tracker` |
| `SubmitTracker`, `CancelTrackerOnly` | the desk's buttons on a tracker |
| `SubmitPayment`, `CancelPayment`, `LinkManually` | `link_payment_to_import_tracker` over all open trackers, `unlink_payment_from_import_tracker`, `manually_link_payment_to_tracker` |
| `SubmitVoucher`, `CancelVoucher` | `link_lcv_to_import_tracker`, `unlink_lcv_from_import_tracker` |
| `ManualEntry`, `Recalculate`, `UpdatePending` | `create_manual_exchange_entry`, `recalculate_import_differences`, `update_pending_transactions` |

The functions catch what goes wrong and log it, and the request commits what was
written before: such an exception is an outcome of the action, never a rollback.
Where nothing catches (a recalculation, a manual entry) the request rolls back
and takes no step. Three rules are Frappe's: no save of a cancelled document or
of a link to one (`CanSave`), no cancellation of a document a submitted one names
(`Released`), and a save runs `set_status` (`Saved`). Whether a rate differs
beyond the threshold (`Differs`) and whether a payment is in the tracker's
currency (`Payable`) are constants; the two switches of Foreign Import Settings
may be either way at each call. Amounts matter only to the status.

Left out: trackers made, edited or deleted by hand, Journal Entries cancelled by
hand, the amounts of differences, and the read-only summary and debug call.
The voucher's rate is that of a site's own field `conversion_rate`, without which
a voucher never differs.

### SalesDelivery

One sales invoice that does not update stock itself.

| model | code |
|---|---|
| `delivered`, `status`, `flag`, `entries` | `delivered_qty` and `csf_tz_wtax_jv_created` of the rows, `delivery_status`, and the Journal Entries made |
| `note` | the bag of draft and submitted notes; a line may be negative, as the code plans it when notes hold too much |
| `plan[s]` | the notes a maker has planned from what it read and not yet saved: the daily job, the invoice's button, a new note's form |
| `form[s]` | the invoice as a user has it on the screen, which the withholding button sends back |
| `Automatic` | `create_delivery_note`: one note per warehouse, in the order of the rows, until a warehouse has nothing pending |
| `SubmitInvoice`, `SubmitInterrupted`, `CancelInvoice` | the hooks of the invoice; `check_submit_delivery_note` and `check_cancel_delivery_note` commit in the middle |
| `SubmitNote`, `CancelNote`, `WriteBack` | ERPNext's quantities and the hook `check_validate_delivery_note`, which on cancellation runs before them |
| `Withhold` | `make_withholding_tax_gl_entries_for_sales` from the form: `db_update` writes whole rows |
| `disturbed`, `behind` | history: which rows, and whether the status, were overwritten out of turn |

### StanbicPayments

One payroll entry. Files are named by the second of their submission
(`outbox[n]`), which is all the name there is: the milliseconds are a constant.

| model | code |
|---|---|
| `StartMaking`, `FinishMaking`, `GiveUpMaking` | `make_payments_initiation`: the cheque number is read long before it is written, and not at all for a call that names the Stanbic setting (`named`) |
| `RemoveNumber` | what the refusal tells the user to do |
| `Submit`, `SubmitRolledBack` | `on_submit` writes the file; a rollback does not remove it |
| `Upload`, `Uploaded`, `UploadCut`, `Download` | `sync_all_stanbank_files`: put, then removed here; got, then removed there |
| `StartReading`, `Skip`, `Store`, `StopAtCancelled`, `StopAtConflict` | `process_download_files`: every run reads all files again and an error of a save ends it |
| `answer[d]` | the three kinds of answer: stored, flagged as changed, applied to the status fields by the save of a submitted document |
| `excuse`, `lost` | history: what can make the bank pay twice; files overwritten before their upload |

### KcbPayments

| model | code |
|---|---|
| `StartMaking`, `FinishMaking`, `GiveUpMaking` | the two `make_kcb_payments_initiation` functions: look for existing batches, then insert |
| `Save`, `file`, `attached` | `before_save` attaches a new encrypted file and leaves the older ones |
| `Attach`, `Supporting` | supporting documents: everything attached but the latest file |
| `Submit`, `FailAfterDetails`, `FailAfterUpload` | `on_submit`: `send_file_details`, then `upload_file`; one action for each point at which it can fail |
| `told`, `given` | what the bank has been sent, which no rollback takes back |

Left out of both banks: reading the contents of an answer, encryption, tokens and
keys; a payroll paid through both banks (`payments.py:283` of either asks its own
batches only). A file is written to Stanbic's outbox in one step.

### The parts of DeskDocuments and MCDesk

Five parts interleave sessions:

| module | state | actions | left out |
|---|---|---|---|
| `TraReceipts` | `record`, `drafts`, `made`, `party`, `run`; `raced` is history | `Ask`, `Save` (verify_receipt), `Make`, `Insert` (create_invoice_from_tra_tax_inv, with an exception after the party or after the invoice), `Edit`, `Delete`, `Discard` (the desk) | what the parser reads off TRA's page is a choice of what matters for the invoice |
| `RepeatedSalaries` | `today`, `live`, `left`, `made`, `run`, `ran`, `missed` | `Begin`, `Make`, `Commit`, `Abort` (generate_additional_salary_records as a transaction), `Submit`, `Stop`, `Leave`, `Tomorrow` | the journal entry of a submission, the hourly base salary; entries repeating quarterly or yearly, which differ from monthly ones in a number |
| `LatraOffences` | see above | | |
| `WriteOffs` | `record`, `owed`, `request`, `lock`; `overtaken` is history | `Begin`, `Post`, `Allocate`, `Commit`, `Abort` (create_write_off_jv_si, _pi, _pe), `Settle`, `Submit` (others) | internal transfers and switched-off features are refusals |
| `PergamonReports` | `invoice`, `receipt`, `fetch`, `archive` | `Issue`, `Record` (a posting as seen from here), `Begin`, `Answer`, `Save`, `GiveUp` (fetch_pergamon_zreport, fetch_pergamon_periodic_report) | TLS options and diagnostics; reports of other periods |

In `RepeatedSalaries` months have the lengths `MonthDays`, which come again and
again, and a date is moved by a month as Frappe's `add_months` does it: the same
day, or the month's last. In `PergamonReports` all invoices come to the same sum,
the hardest case for a report that compares sums and counts. `Exact` says whether
Pergamon's answers carry the date a receipt was issued on; where they do not the
books take the day of the posting, and `MatchIsComplete` says nothing then: the
run and the claim are about `Exact = TRUE`.

Nine parts are algorithms over bounded inputs, chosen in Init; the two ledgers
and `SalaryComparison` are added by `MCDesk`:

| module | what a step is | checked against |
|---|---|---|
| `BatchSplitting` | one pair of row and batch | what was asked for and what was in stock (`RowsFit`) |
| `Overtime` | process_overtime | the parts of the stay (`StayIsSplit`) |
| `FiscalPayload` | a payload sent or refused | what the invoice charges, by ERPNext's arithmetic (`Charged`) |
| `ReceivableReport` | one ledger entry, first for the vouchers, then for the balances; then all rows | the sum of the entries chosen (`ShownIsBalance`), what a later payment can fill (`FutureFits`) |
| `ReceivableSummary` | one entry looked at; the total | the customer's balance at the report's date |
| `BalanceTimeline` | one sum of a day and account | the balance of each day |
| `GeneralLedger` | one entry; then all lines | the ledger's entries, and the running balance of the last line |
| `CurrencyLedger` | the same, with document amounts and the journal's other side | the same, and that what is left out adds up to nothing |
| `SalaryComparison` | slips chosen, sums, rows, totals | the slips' own amounts |

Each of these says in its property where the code does otherwise, and does so on
purpose: a third row finds a batch full again; a discount in a foreign currency,
or one that makes a sum of doubles miss a row's amount, is taken for VAT in the
price; what is in excess of terms that were all paid
later is put nowhere; two later payments may give a row too much (so
`FutureFits` is about one); an account with entries on the chart's first day
counts them twice; rows grouped by two dimensions match many times (so
`RowsAddUp` asks for one at most); net pay counts slips that an exact department
filter leaves out of the amounts, and is compared without them.

`FiscalPayload` counts in whole cents. Of the doubles of the code only what decides
something is kept: `Inexact` are the amounts of which the net and the share of a
discount, each rounded to the cent, do not make the amount when added as doubles,
`Apart` those of which they do not make it to the cent either. `get_vat_amount`
compares the doubles, Pergamon's `get_line_amount` their cents (`Missed`). The
proofs hold whichever amounts these are; the runs have the ones that doubles and a
discount of a tenth give for their amounts.

Left out: ageing, sales persons, groups, finance books, presentation currencies,
cost centres and projects of the ledgers, columns, colours and printed forms; the
payment terms of the summary, whose query quotes the company twice and which
MariaDB refuses. `ReceivableReport` leaves out the order of payment terms by their
due date and what is dropped below a cent, `BatchSplitting` conversion factors
below one.

## Runs

| run | instance | shows |
|---|---|---|
| `VfdSafety` | one invoice of any provider and terms, two web sessions and the cron job, two requests per call, two receipts, one kill | `SuccessIsFiscalised`, `SubmittedWithReceipt`, `SettledIsFinal`, and refinement of `FiscalLedger` (`LedgerSpec`) |
| `VfdRetry` | two invoices of DIRM or Pergamon, one web session, one request per call, one receipt each, one kill | `OpenIsRetried`, `OpenIsSettled` |
| `VfdSimplify` | an invoice of Simplify with a preview | a finding, below |
| `VfdCancel` | an invoice that does not update stock, two web sessions | a finding, below |
| `QueueSafety` | two workers, two plates, one edit of the fleet, one day, one crash | `OneCallPerPlate`, `DeletionIsKept` |
| `QueueLive` | the cron worker, two plates, two edits, one day, one crash | `DueIsSynced`, `FleetIsTracked` |
| `ImportSafety` | an invoice and a newer return of one supplier, a payment that pays the invoice, a voucher, two entries and one manual difference | `DifferencesMatchRows`, `CancelledLeavesNoEntry`, `CompletedIsPaid`, `PaymentTakesItsEntries`, `PaidIsCompleted` |
| `AuthoritySafety` | TPF: one fine, the queue's worker, one web request. LATRA: a run for offences and one for licences, two rows on pages of one, six tokens, one fault | `MarkedIsMailed`, `SoleCallClosesSettled`, `RecordsFollowTpf`, `ClosedIsTold`; `PagesCoverStart`, `RunsFetch` |
| `SalesSafety` | two rows of stock (quantities 2 and 1) in two warehouses and a service, the job and one user, three notes, two entries | `DeliveredIsActual`, `StatusIsActual`, `SoleMakerFits`, `SecondEntryNeedsStaleForm`, `PendingGetsNote` |
| `StanbicSafety` | two initiations, two users, one kind of answer, two seconds, one fault | `PayrollPaidOnce`, `SubmittedReachesBank`, `AnswerApplied` |
| `KcbSafety` | two batches, two payment entries and a payroll, two users, two saves, three submissions | `SubmittedIsUploaded`, `PaidOnce` |
| `Desk` | fourteen parts, one in each behaviour (below) | `SecondInvoiceNeedsRace`, `LinkIsKept` (receipts), `PeriodsAreDrafted` (salaries), `LoneRunIsFaithful` (offences), `WrittenOffOnce` (write-offs), `ReportsFollowPergamon` (fiscal), `SharesFit` (batches, overtime), `DeclaredIsCharged` (payloads), `ReportsAddUp` (the six report modules) |

Each run checks only what it names. The modules' `TypeOK` was checked while they
were written; for nine of them it is proved too, as a theorem or as a part of an
inductive invariant (below).

### Bounds, and why they are enough

Invoices meet only in the cron run, so one invoice is enough for safety and two
for one holding the other back. Two web sessions and the scheduler give every
pair of concurrent callers; two receipts (`MaxReceipts`) are the first case in
which the books could name the wrong one; two requests (`Attempts`) are the first
repetition. In the queue two workers and two plates are the first case of a
contended lock and of one task holding up another; two edits (`MaxEdits`) allow a
vehicle to leave and come back. `QueueSafety` uses symmetry of plates and of
workers, which its specification without fairness does not tell apart. Two
trackers are the first case in which a payment can be in one and linked to
another; the return is open although it is paid, so that a payment finds it
first; two entries are the first case of one that a recalculation left behind
(`MaxEntries`), and one manual difference (`MaxManual`) tells the two kinds of
rows apart. Fines of one vehicle do not meet except in one mail job, so one is
enough; two callers are the first overlap. Of LATRA's list two rows on pages of
one are the first case in which a list that grows moves a row to a page already
read or still to come; with six tokens there always is one that nobody holds to be
given out (TLC would report the choice of one that is not there). In `SalesSafety` quantity 2 can be split
over two notes, three notes let one more be made than fit (`MaxNotes`), and two
entries are the first repetition (`MaxEntries`). `StanbicSafety` has two seconds
so that two submissions may share one or not (`Seconds`), and one fault for each
of its kinds to happen once (`MaxFaults`); the kinds of answer do not meet.
`KcbSafety` has three submissions so that a batch fails once and both can still
be handed in (`MaxAttempts`), and two saves so that an old file is left
(`MaxSaves`); batches and users are symmetric and its properties are invariants.

In `Desk`: two codes, one of them malformed, two requests and three invoices
(`MaxInvoices`) are enough for two invoices of one receipt and one more; a weekly
and a monthly entry with months of 5, 3, 5 and 4 days, of which a short one is
skipped over, one web request beside the job, six days (`LastDay`) and one failed
day (`MaxFaults`) show a draft that comes late and is caught up with; two
offences, the job and a request are the first two runs that overlap; an invoice
and a payment that two clerks write off, worth 2 so that part of it can be paid
in between; two invoices (one whose receipt may differ beyond the tolerance, one
with a payload that rounds) and two managers with room for two archived reports
(`MaxArchived`). The inputs of the algorithms are bounded by `MaxRows`,
`MaxBatches`, `MaxQty`, `Factors` (splitting: the property distinguishes one,
two and three rows), `MaxLines`, `Rate`, `Qty` (payloads: amounts with and
without a cent to round, and of both kinds that a discount makes missed), `Price`, `MaxEntries`, `MaxFuture` and `MaxOthers`
(receivables: a return, a payment and a journal may be there; an invoice is split
into two payment terms, the fewest the code splits, or not at all), `Days`
(chart), `Clock` and `Grace` (overtime), `MaxLedger` and `MaxCurrency` (entries
of the ledgers), `MaxSlips` (comparison: two employees, one new or gone).

`ImportSafety`, `SalesSafety`, `StanbicSafety`, `KcbSafety` and `Desk` say CHECK_DEADLOCK FALSE: an invoice that is cancelled, documents that
are all deleted, a report that is shown, a payload that is sent, end their system.

Every property has a mutant: a definition next to the one it replaces, marked
"Mutant", under which the run reports the property as violated.

### Fairness

Frappe starts a scheduled job again and again and a worker goes on until it is
killed: weak fairness of `CronStep` and of `Batch(Cron)`, and of a worker that
has begun. The clock is weakly fair. Web users owe nothing. Two assumptions go
further and only the properties that need them have them. `OpenIsSettled`
supposes strong fairness of an answer with a receipt and of its commit:
a provider that is asked for ever answers some time, and is not stopped each
time before the commit. `DueIsSynced` supposes the same of TPF
(`PoliceAnswer`); without it the order of `claim_batch` lets one plate that
always fails hold back the failed plates after it. `Seed` is strongly fair:
it waits for a row's lock, and InnoDB grants locks in the order of requests.
`PaidIsCompleted` needs the daily job only, `WF_vars(UpdatePending(i))`.
In `VehicleFines` the queue asks and reads (weak), TPF answers and an answer goes
through without an error now and then (strong, as above), the daily job starts
and ends (weak) and its turn of a record sends its mails now and then (strong);
web requests owe nothing. In `LatraFetch` both kinds of run are begun again and
again and one that has begun goes on or ends (weak): a run that waits is ended by
the timeout of its wait, which is why the two locks are no deadlock. In
`SalesDelivery` the job runs daily and ends (weak) and saves its notes now and
then (strong). In `StanbicPayments` both jobs run every 15 minutes (weak), faults
are bounded, and downloading is not needed. `Desk`, `KcbSafety` and the safety
runs of VFD and the queue use no fairness.

### Findings

- `VfdSimplify`: outside submission, Simplify's `post_fiscal_receipt` writes
  Success whatever the answer was (`simplify_vfd_settings.py:284`), against
  `SPEC.md:209-217` and the Failed status the tests pin for a refusal.
- `VfdCancel`: `check_cancel_delivery_note` commits between `validate_cancel` and
  the write of the cancelled row (`custom_api.py:517`, `hooks.py:179-182`). A
  receipt recorded in between is overwritten, and the invoice is cancelled,
  against "cannot be canceled as it is already sent to TRA"
  (`vfd_support/sales_invoice.py:107`).

Met while modelling, and not runs of their own:

- `get_vat_amount` compares a sum of doubles with `==` (`vfd_providers/utils.py:8`). A
  row of 819.20 that VAT is charged on top of, with a discount of a tenth on the
  invoice, is declared without its VAT, against the comment below that line and the
  test of a discounted row (`tests/test_vfd_providers.py:78`). `FiscalPayload` has
  such rows (`Missed`) and `DeclaredIsCharged` names the invoices it leaves out
  for them (`MissesVat`).
- `_acquire_rate_limit_slot` reads the cache and writes it later, so two workers
  can call TPF in one minute, against `MAX_CALLS_PER_MINUTE = 1` "for this site"
  (`queue.py:8`, `processor.py:61`). `VehicleSyncQueue` counts the calls (`calls`);
  what is proved of them is only that they are no more than the workers.

## Proofs

TLAPS proves the following for every value of the constants under the
assumptions that the modules name (`SessionAssumption`, `TermsAssumption`,
`AttemptsAssumption`, `WorkerAssumption`, `DocumentAssumption`, `RateAssumption`,
`BoundAssumption`, `TimeAssumption`, `CallerAssumption`, `RowAssumption`, `MakerAssumption`,
`NoneAssumption`, `SourceAssumption`, `CodeAssumption`, `SizeAssumption`,
`DayAssumption`, `ReceiptAssumption`, `AmountAssumption`, `RangeAssumption`,
`SummaryAssumption`; TLC evaluates all of them). They say that
sets of sessions are finite, the scheduler is no web session, bounds are numbers.
The bounds themselves are constants too, so nothing depends on their size.

| theorem | property | argument |
|---|---|---|
| `VfdPostingProofs!TypeCorrect` | `TypeOK` | inductive by itself; lemmas for the steps of a call (`InCallIsBusy`, `HearType`, `MissCases`) |
| `VfdPostingProofs!FiscalisedWhenSuccess` | `SuccessIsFiscalised` | `FiscalInv`: besides the property, that an answer in flight names a receipt TRA holds, since it is the answer that is written, and that the row a cancellation will write back is not Success |
| `VfdPostingProofs!ImplementsLedger` | `LedgerSpec` | each step issues a receipt, records one, begins or ends a cancellation, or none of these, by `FiscalInv` before the step; the row of a cancellation names no receipt |
| `VfdPostingProofs!OutsideStaysOutside` | `OutsideNeverReachesTra` | `OutsideInv`: besides the property, that an outside invoice is in no dialog, no list and no call, so no stale one can bring it back |
| `VfdPostingProofs!ScheduledWasAttempted` | `OnlyAttemptedIsScheduled` | `BookInv`: what a call or a cancellation in flight still knows of the row it began from |
| `VfdPostingProofs!SettledStays` | `SettledIsFinal` | `BookInv` and `FiscalInv`, and the writes of each provider by the status they start from; of an invoice that someone has begun to cancel the property says nothing (`VfdCancel`) |
| `VfdPostingProofs!SubmittedTogether` | `SubmittedWithReceipt` | `SealedInv`: a submission in flight holds an unsubmitted row, so its commit is the row's first |
| `VehicleSyncQueueProofs!TypeCorrect` | `TypeOK` | `QueueInv`; its `CallsInv` bounds calls and workers about to call together, by the cardinality of the set of workers |
| `VehicleSyncQueueProofs!OneCallEach` | `OneCallPerPlate` | `QueueInv`: a row has one holder (`TableInv`) and a worker that asks holds its row (`RunInv`), so two that ask hold different rows |
| `VehicleSyncQueueProofs!DeletionsStay` | `DeletionIsKept` | `TableInv`: an uncommitted row is deleted or not as the committed one, so a commit changes nothing of it (`OwnCommits`) |
| `ImportTrackerProofs!TypeCorrect` | `TypeOK` | with `BooksInv`: the entries in the accounts are among those made, within the bound |
| `ImportTrackerProofs!DifferencesMatch` | `DifferencesMatchRows` | inductive per tracker, by `Moves` |
| `ImportTrackerProofs!CompletedWhenPaid` | `CompletedIsPaid` | inductive per tracker, by `Moves`: who changes the payments also sets the status |
| `ImportTrackerProofs!CancelledPaymentTakesEntries` | `PaymentTakesItsEntries` | of a tracker the payment is linked to its entries are cancelled; another tracker that named it would have stopped the cancellation (`Released`) |
| `ImportTrackerProofs!CancelledTakesRows` | `CancelledLeavesNoEntry` | by `Fates`: only an open tracker is rewritten or gets entries, so a cancelled one keeps what its cancellation left; with it `DraftHasNone`, that an unsubmitted invoice has no tracker |
| `AuthorityProofs!TypeCorrect` | `TypeOK` (VehicleFines) | inductive by itself |
| `AuthorityProofs!MarkersAreTrue` | `MarkedIsMailed` | `FineInv`: also the rows the job read when it began tell only what was sent (`RowsInv`), since it writes from them |
| `AuthorityProofs!SoleCallIsRight` | `SoleCallClosesSettled` | `FineInv`: what a lone call will close is not listed (`CallInv`), because no fine gets a record while it is alone and a settled fine is not listed again |
| `AuthorityProofs!FetchedIsWhole` | `PagesCoverStart` | `PagesInv`: every row of the start that is not fetched is still on a page to come, however far the list has moved on; the last page is one with less than a page or reached the list's length |
| `SalesDeliveryProofs!DeliveredMatchesNotes` | `DeliveredIsActual` | `DeliveryInv`: the bag of notes is well-formed (`NotesInv`, `PlansInv`); sums over it are compared (`TakeOne`, `PutSet`, `SameShipped`) |
| `SalesDeliveryProofs!StatusMatchesNotes` | `StatusIsActual` | with `DeliveryInv`: sums of smaller terms are smaller (`SumsCompare`), so the total is all of it exactly if each row is |
| `SalesDeliveryProofs!SoleMakerNeverExceeds` | `SoleMakerFits` | `FitInv`: a plan that nobody overtook still fits the notes there are (`Fits`); what each step does to the sum of a row over the bag (`NotedAfterRemoved`, `NotedAfterReplaced`, `NotedAfterAdded`) |
| `SalesDeliveryProofs!SecondEntryFromStaleForm` | `SecondEntryNeedsStaleForm` | `EntriesInv`: a row has an entry only if it is flagged |
| `BankProofs!InitiationsTyped` | `TypeOK` (StanbicPayments) | inductive by itself |
| `BankProofs!PayrollReachesBankOnce` | `PayrollPaidOnce` | `StanbicInv`: without one of the five excuses one document was made (`MadeInv`) and it has one file, in the outbox, on its way or at the bank (`FilesInv`) |
| `BankProofs!TypeCorrect` | `TypeOK` (KcbPayments) | inductive by itself |
| `BankProofs!UploadedWhenSubmitted` | `SubmittedIsUploaded` | `GivenInv`: what the bank has names a conversation id once |
| `BankProofs!SourcesPaidOnce` | `PaidOnce` | `KcbInv`: without an excuse live batches and plans share no source (`SourcesInv`), and a draft was never uploaded (`DraftsInv`) |
| `DeskProofs!TypeCorrect` | `TypeOK` (TraReceipts) | part of `ReceiptInv` |
| `DeskProofs!OneInvoiceUnlessRaced` | `SecondInvoiceNeedsRace` | `ReceiptInv`: of a record that never changed under a request every copy is fresh and the only invoice is the one it names (`UnracedIsNamed`) |
| `DeskProofs!LinkStays` | `LinkIsKept` | `ReceiptInv`: a fresh copy names no invoice (`FreshHasNoInvoice`), and only fresh copies are saved |
| `DeskProofs!NothingIsWrittenOffTwice` | `WrittenOffOnce` | `OwedInv`: a copy that is not outdated tells what is left (`CopyInv`), and who has posted holds the lock (`PostedInv`) |
| `DeskProofs!LoneRunKeepsFaith` | `LoneRunIsFaithful` | `RunsInv`: what a lone run has gone through it has written or finds as it should be (`GoneInv`), no record is PAID without a payment (`PaidInv`) |
| `DeskProofs!PergamonIsFollowed` | `ReportsFollowPergamon` | `FiscalInv`: the books of the period are among its receipts (`BooksInv`), so equal numbers mean equal sets; a request's reading is a subset of what is there when it saves (`RequestInv`), and what was counted stays counted (`ArchiveInv`) |
| `DeskProofs!EveryPeriodIsDrafted` | `PeriodsAreDrafted` | `SalaryInv`: drafts follow one another (`ChainInv`), a draft in hand is the next one or its entry has changed, which stops it (`HoldInv`), and a repeating entry is at most as many periods behind as days were missed, one less once the day's run is over (`BehindInv`) |
| `DeskSumsProofs!SharesAreWhole` | `SharesFit` | `BatchInv`: a place that was not looked at has nothing yet (`AheadInv`); with two rows, a batch that the second row has before it is used up, untouched, or the one that is remembered, with what is left of it (`MemoryInv`), because the first row begins only its last batch without using it up (`FirstInv`); sums are added and compared term by term (`SumAdds`, `SumGrows`). `TimeInv`: an attendance is split as the formulas say, and those count every part of a stay once (`StayIsAllOfIt`) |
| `DeskSumsProofs!PayloadsDeclareCharges` | `DeclaredIsCharged` | `PayloadInv`: the payload is what was made of the invoice. Rounding is within a half (`RoundedIsNear`), so each line is charged nearly what it declares, by provider and kind of row (`RowIsCharged`, `RowIsNoMore`, `RowVatIsCharged`); a row whose sum is missed loses nothing where VAT is in its price or none is charged (`RowIsCharged`); sums of several terms are compared term by term (`SumsCompareTermwise`) and the tolerance counted (`SumCounts`) |
| `DeskSumsProofs!ChartShowsBalances` | part of `ReportsAddUp` | `ChartInv`: each point of a line is the sum of what was looked at until its day (`LineShows`), and what is left lies on later days (`DayOrder`), so adding a day's sum to all points after it keeps that; the sum over days and accounts may be taken in either order (`SumsTurn`) |
| `DeskSumsProofs!RowsAreOutstanding` | part of `ReportsAddUp` | `SummaryInv`: the rows come to what the entries looked at stand for. All entries together stand for the balance (`AllIsBalance`): each that has its place is a row of its own or against exactly one other (`CountedOnce`) |
| `DeskSumsProofs!ReceivablesAddUp` | part of `ReportsAddUp` | `ReportInv`: the rows of all vouchers come to the entries read (`BalanceInv`), and what is shown to the rows of the vouchers passed (`DataInv`). Of an invoice's two terms that is so because what is left over is never negative but for payments of which only the schedule knows (`SplitComesTo`); each row shown adds its own amount and leaves a later payment that fits (`AppendedGives`, `OneMoreFits`) |

`FetchedIsWhole` is about the composed specification of its run (`MCSpec` of
`MCAuthority`). All but the first three of
`DeskProofs`, and those of `DeskSumsProofs`, are about `DocumentsSpec` of
`DeskDocuments`: every step of `MCDesk` is one of `DocumentsNext`, so what holds of
it holds in the run. `part` never changes, so each is a theorem about its part
alone. The parts take the constants that matter to them from the composing
module's own, which have no values in the proofs: any number of documents, clerks,
entries, managers, rows and batches, and any calendar, day, lead, grace,
tolerance and page size. `InitiationsTyped` and
`PayrollReachesBankOnce` are about `StanbicSpec` of `MCBanks`, its run's.

`Moves` is the lemma the first four of the tracker's theorems share: whatever
the step, a tracker stays, is created, submitted, cancelled, or is saved with
rows that one of the operations changed. It needs no invariant, so each theorem
is an argument about one tracker instead of one about every action.

`OneCallPerPlate` and `DeletionIsKept` are not inductive alone: what keeps a
second worker with an old snapshot away is the lock, and the invariant has to
speak of every holder and every uncommitted row. Each action has one lemma;
the three ways of touching the table (`OwnWrites`, `OwnCommits`, `RowEdits`)
are lemmas of their own.

Induction. The library's induction theorems take an operator as a parameter and
cannot be used with the provers at hand, but the well-foundedness of the finite
subsets of a set is a theorem without one. `Smallest` takes from it that a
non-empty set of numbers has a least member, and `Inductive` that a set of
numbers that has 0 and each successor is all of them. On these rest the sums over
finite sets and bags of `SalesDeliveryProofs` (that the sum a CHOOSE defines
exists, `SumExists`; that sums compare, `SumsCompare`; what is left of one without
a term, `SumWithout`), and in `DeskProofs` that the recursive functions of the
calendar and of the later dates exist (`ChainsExist`, `RecursionExists`), that
months follow each other and a day is in one month (`MonthsFollow`,
`EndsIncrease`, `MonthIsOne`), and that dates that follow move on
(`LaterIsLater`). The sums of `DeskSumsProofs` need less than those of
`SalesDelivery`: a fold takes the elements of a set in an order that depends on the
set alone, so two sums over one set are compared along that order
(`TakeInduction`).

What proving changed in the model. The selection of batches that have not expired
became part of what is read: it can leave any sequence of batches. The calendar of
`RepeatedSalaries` had as many months as the instance needed; its months now
repeat, so that a next date always exists. And `LacksOnlyMissed` is not true of an
entry submitted when its first drafts were already due, which the instance did not
have: it is stated for those that are not (`InTime`). The sums of
`BalanceTimeline` and `ReceivableSummary` are folds over functions
(`FoldFunction`) instead of maps under a fold, and `ReceivableReport` goes along
its terms, payments and rows by a recursive function (`Folded`), which says the
same and can be reasoned about.

Only model-checked:

- liveness (`OpenIsRetried`, `OpenIsSettled`, `DueIsSynced`, `FleetIsTracked`,
  `PaidIsCompleted`, `RecordsFollowTpf`, `ClosedIsTold`, `RunsFetch`,
  `PendingGetsNote`, `SubmittedReachesBank`, `AnswerApplied`): fairness and
  ENABLED are out of the provers' reach;
- three of the six parts of `ReportsAddUp`: the two general ledgers and
  `SalaryComparison`. Their sums go along sequences that are filtered on the way
  (`SelectSeq`, `FoldLeft`), operators whose definitions are recursive and closed
  to the provers.

## Not modelled

- Payroll hooks (`csftz_hooks/payroll.py`, `overrides/salary_slip.py`): HRMS's
  documents and the workflow engine decide what happens, of which the repository
  has calls in a loop.
- The remaining sales, stock and tax hooks: single transactions, or loops over
  ERPNext calls. The budget check (`budget_check.py:24`) calls ERPNext's validator
  for each row, which runs at posting anyway.
- LATRA's notifications of licences that expire; the choice of recipients of all
  mails.
- The token jobs and read-only screens of the VFD providers, VFD provider
  records.
- HR hooks, other authority lookups (cover notes, Z reports), bank charges and the
  thin bank APIs: validations, parsing, conversions of one document.
- Other reports (`salary_register_csf`, `gross_profit_pro` and the like),
  dashboards and desk configuration: queries that print what they read. Patches.

Hazards the list of `PROJECT.json` leaves out, because they are weaker forms of
listed ones or outside the modules: a slip whose error is passed over in
`payroll.py:44`, a payroll paid through both banks (`payments.py:283`), several
Stanbic settings that share one outbox.

## Plan

1. Type correctness of the parts that have it only model-checked (`LatraFetch`,
   `SalesDelivery`, `GeneralLedger`).
2. `GeneralLedger!ReportIsLedger`, with a filter that is defined as a function.
