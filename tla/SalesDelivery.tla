--------------------------- MODULE SalesDelivery ---------------------------
(***************************************************************************)
(* Delivery of one sales invoice (custom_api.py): the draft delivery notes *)
(* made when it is submitted, by the job for pending invoices, from the    *)
(* invoice's button and from the form of a new note; what notes write back *)
(* to its rows and its delivery status; and the withholding tax entries    *)
(* made on submission or from the form.                                    *)
(*                                                                         *)
(* The invoice does not update stock itself, its company has automatic     *)
(* notes and withholding entries switched on.  Each maker of notes reads   *)
(* in the snapshot of its transaction, or in the form the user opened, and *)
(* writes later.  Purchase invoices get withholding entries from a twin of *)
(* the function modelled here.                                             *)
(***************************************************************************)
EXTENDS Integers, FiniteSets, Bags, Functions

CONSTANTS
    Rows,        \* number of rows of the invoice, which are in this order
    Qty,         \* Qty[r]: quantity invoiced
    House,       \* House[r]: warehouse of the row
    Stocked,     \* rows of stock items
    Withheld,    \* rows with a withholding tax rate
    Job,         \* the scheduled job
    Web,         \* users' requests
    MaxNotes,    \* bound: live notes
    MaxEntries   \* bound: entries of one row

Row == 1..Rows
Maker == Web \cup {Job}

ASSUME RowAssumption ==
    /\ Rows \in Nat \ {0} /\ MaxNotes \in Nat /\ MaxEntries \in Nat
    /\ Qty \in [Row -> Nat \ {0}]
    /\ DOMAIN House = Row
    /\ Stocked \subseteq Row /\ Stocked # {} /\ Withheld \subseteq Row
ASSUME MakerAssumption == Job \notin Web

VARIABLES
    doc,        \* docstatus of the invoice
    status,     \* delivery_status of the invoice
    delivered,  \* delivered[r]: delivered_qty of the row
    flag,       \* rows with csf_tz_wtax_jv_created
    entries,    \* entries[r]: withholding entries made
    note,       \* the bag of live delivery notes against the invoice
    plan,       \* plan[s]: notes session s is about to save
    form,       \* form[s]: the invoice as user s has it on the screen
    disturbed,  \* rows whose delivered_qty was overwritten out of turn
    behind      \* the status was computed from rows that were wrong, or before a note
                \* was cancelled

vars == <<doc, status, delivered, flag, entries, note, plan, form, disturbed, behind>>

(***************************************************************************)
(* Types.  Cancelled and deleted notes count for nothing and are left out. *)
(* alone: nothing that adds to the live notes happened since the plan was  *)
(* made (only properties look at it).                                      *)
(***************************************************************************)
Status == {"Not Delivered", "Part Delivered", "Delivered"}

Nothing == [r \in Row |-> 0]
Draft(lines) == [st |-> "draft", qty |-> lines]
NoPlan == [on |-> FALSE, made |-> {}, alone |-> FALSE]
NoForm == [open |-> FALSE, delivered |-> Nothing, flag |-> {}]

TypeOK ==
    /\ doc \in 0..2
    /\ status \in Status
    /\ \A r \in Row : delivered[r] \in 0..Qty[r]
    /\ flag \subseteq Withheld
    /\ entries \in [Row -> 0..MaxEntries]
    /\ IsABag(note) /\ \A m \in DOMAIN note : m.st \in {"draft", "submitted"} /\ m.qty \in [Row -> Int]
    /\ \A s \in Maker : /\ plan[s].on \in BOOLEAN /\ plan[s].alone \in BOOLEAN
                        /\ \A m \in plan[s].made : m \in [Row -> Int]
    /\ \A s \in Web : form[s].open \in BOOLEAN /\ form[s].flag \subseteq Withheld
    /\ disturbed \subseteq Row /\ behind \in BOOLEAN

Init ==
    /\ doc = 0 /\ status = "Not Delivered"
    /\ delivered = Nothing /\ flag = {} /\ entries = Nothing
    /\ note = EmptyBag
    /\ plan = [s \in Maker |-> NoPlan]
    /\ form = [s \in Web |-> NoForm]
    /\ disturbed = {} /\ behind = FALSE

(***************************************************************************)
(* Queries.                                                                *)
(***************************************************************************)
Total(f) == FoldFunction(+, 0, f)

\* The quantity of row r in those of the notes ns that are in one of states.
Count(ns, states, r) ==
    LET with == {m \in DOMAIN ns : m.st \in states /\ m.qty[r] # 0}
    IN  Total([m \in with |-> ns[m] * m.qty[r]])

Shipped(ns, r) == Count(ns, {"submitted"}, r)

\* The row's quantity in all notes that are not cancelled.
Noted(ns, r) == Count(ns, {"draft", "submitted"}, r)

\* Mutant: drafts are not counted.
LeftSubmitted(ns, r) == Qty[r] - Shipped(ns, r)

\* What is left to put into a note; negative when notes hold too much.
Left(ns, r) == Qty[r] - Noted(ns, r)

\* One of the stocked rows is neither delivered nor noted in full.
Pending(ns, d, rows) == \E r \in rows : d[r] # Qty[r] /\ Left(ns, r) > 0

(***************************************************************************)
(* The notes the automatic makers plan: one for each warehouse, in the     *)
(* order of the rows, until a warehouse has nothing pending.               *)
(***************************************************************************)
Same(r) == {q \in Stocked : House[q] = House[r]}

\* The rows at which the list of warehouses gains one.
Leads(ns) == {r \in Stocked : Left(ns, r) # 0 /\ \A q \in Same(r) : q < r => Left(ns, q) = 0}

\* Mutant: the first warehouse only.
ReachedFirst(ns, d) ==
    {r \in Leads(ns) : /\ Pending(ns, d, Same(r))
                       /\ \A q \in Leads(ns) : r <= q}

Reached(ns, d) ==
    {r \in Leads(ns) : \A q \in Leads(ns) :
        q <= r => Pending(ns, d, Same(q))}

\* The lines of a note for the given rows.
Lines(ns, rows) == [r \in Row |-> IF r \in rows THEN Left(ns, r) ELSE 0]

Automatic(ns, d) == {Lines(ns, Same(r)) : r \in Reached(ns, d)}

\* The notes with drafts of the given lines.
Added(ns, made) == ns (+) SetToBag({Draft(l) : l \in made})

Room(made) == BagCardinality(note) + Cardinality(made) <= MaxNotes

\* The notes with m replaced; with m removed.
Replaced(m, new) == (note (-) SetToBag({m})) (+) SetToBag({new})
Removed(m) == note (-) SetToBag({m})

\* The plans of the others after a step that added to the live notes.
Overtaken(s, adds) ==
    [t \in Maker |-> IF t = s THEN NoPlan
                     ELSE [plan[t] EXCEPT !.alone = @ /\ ~adds]]

(***************************************************************************)
(* The invoice.                                                            *)
(***************************************************************************)
\* The hooks make the notes, deliver rows that are not stock, and enter the
\* withholding tax.
\* Mutant: rows that are not stock are left to the notes.
AtSubmissionNone(r) == 0
AtSubmission(r) == IF r \in Stocked THEN 0 ELSE Qty[r]

Submitted ==
    /\ doc = 0
    /\ doc' = 1
    /\ Room(Automatic(note, Nothing))
    /\ note' = Added(note, Automatic(note, Nothing))
    /\ delivered' = [r \in Row |-> AtSubmission(r)]
    /\ status' = IF Stocked = Row THEN "Not Delivered" ELSE "Part Delivered"
    /\ UNCHANGED <<plan, form, disturbed, behind>>

SubmitInvoice ==
    /\ Submitted
    /\ flag' = Withheld
    /\ entries' = [r \in Row |-> IF r \in Withheld THEN 1 ELSE 0]

\* A hook raises after check_submit_delivery_note committed: the invoice stays
\* submitted, without the entries.
SubmitInterrupted ==
    /\ Stocked # Row
    /\ Submitted
    /\ UNCHANGED <<flag, entries>>

\* The rows are reset and committed before the cancellation, which a submitted
\* note, or anything else, may refuse.  Drafts and forms of a cancelled invoice
\* can never be saved again: they are dropped.
CancelInvoice ==
    /\ doc = 1
    /\ status' = "Not Delivered"
    /\ delivered' = Nothing
    /\ \/ /\ \A m \in DOMAIN note : m.st # "submitted"
          /\ doc' = 2 /\ disturbed' = {} /\ behind' = FALSE
          /\ note' = EmptyBag
          /\ plan' = [s \in Maker |-> NoPlan] /\ form' = [s \in Web |-> NoForm]
       \/ /\ doc' = 1 /\ behind' = TRUE
          /\ disturbed' = disturbed \cup {r \in Row : delivered[r] # 0}
          /\ UNCHANGED <<note, plan, form>>
    /\ UNCHANGED <<flag, entries>>

(***************************************************************************)
(* The makers of notes.                                                    *)
(***************************************************************************)
Begin(s, made) ==
    /\ doc = 1 /\ ~plan[s].on
    /\ plan' = [plan EXCEPT ![s] = [on |-> TRUE, made |-> made, alone |-> TRUE]]
    /\ UNCHANGED <<doc, status, delivered, flag, entries, note, form, disturbed, behind>>

\* create_delivery_note reads: the job, or the button of the invoice.
BeginAutomatic(s) == Begin(s, Automatic(note, delivered))

\* A new note's form takes the rows of a pending invoice; the user drops lines
\* that are negative.
BeginManual(s) ==
    /\ Pending(note, delivered, Stocked)
    /\ Begin(s, {Lines(note, {r \in Stocked : Left(note, r) > 0})})

Make(s) ==
    /\ plan[s].on
    /\ Room(plan[s].made)
    /\ note' = Added(note, plan[s].made)
    /\ plan' = Overtaken(s, plan[s].made # {})
    /\ UNCHANGED <<doc, status, delivered, flag, entries, form, disturbed, behind>>

\* The form is closed, or the transaction rolled back.
Abandon(s) ==
    /\ plan[s].on
    /\ plan' = Overtaken(s, FALSE)
    /\ UNCHANGED <<doc, status, delivered, flag, entries, note, form, disturbed, behind>>

(***************************************************************************)
(* The notes.                                                              *)
(***************************************************************************)
\* The status the invoice gets when a note is submitted or cancelled.
StatusOf(d) ==
    IF Total(d) >= Total(Qty) THEN "Delivered"
    ELSE IF Total(d) > 0 THEN "Part Delivered" ELSE "Not Delivered"

RowsOf(m) == {r \in Row : m.qty[r] # 0}

\* Mutant: the note's quantity replaces that of the earlier notes.
WriteBackLast(ns, m) == [r \in Row |-> IF r \in RowsOf(m) THEN m.qty[r] ELSE delivered[r]]

\* ERPNext writes the submitted quantity to the rows of note m.
WriteBack(ns, m) == [r \in Row |-> IF r \in RowsOf(m) THEN Shipped(ns, r) ELSE delivered[r]]

\* ERPNext refuses lines that are not positive, and more than was invoiced.
SubmitNote(m) ==
    /\ m.st = "draft"
    /\ \A r \in RowsOf(m) : m.qty[r] > 0
    /\ note' = Replaced(m, [m EXCEPT !.st = "submitted"])
    /\ \A r \in RowsOf(m) : Shipped(note', r) <= Qty[r]
    /\ delivered' = WriteBack(note', m)
    /\ status' = StatusOf(delivered')
    /\ disturbed' = disturbed \ RowsOf(m)
    /\ behind' = (disturbed' # {})
    /\ UNCHANGED <<doc, flag, entries, plan, form>>

\* The hook runs before the cancellation: the status is that of the rows as
\* they still are.
CancelNote(m) ==
    /\ m.st = "submitted"
    /\ note' = Removed(m)
    /\ delivered' = WriteBack(note', m)
    /\ status' = StatusOf(delivered)
    /\ disturbed' = disturbed \ RowsOf(m)
    /\ behind' = TRUE
    /\ UNCHANGED <<doc, flag, entries, plan, form>>

\* A user lowers a line of a draft, or removes it.
EditNote(m, r) ==
    /\ m.st = "draft" /\ m.qty[r] # 0
    /\ \E q \in {0} \cup 1..(m.qty[r] - 1) :
          /\ \E x \in Row : IF x = r THEN q > 0 ELSE m.qty[x] > 0
          /\ note' = Replaced(m, [m EXCEPT !.qty[r] = q])
    /\ plan' = [s \in Maker |-> [plan[s] EXCEPT !.alone = @ /\ m.qty[r] > 0]]
    /\ UNCHANGED <<doc, status, delivered, flag, entries, form, disturbed, behind>>

DeleteNote(m) ==
    /\ m.st = "draft"
    /\ note' = Removed(m)
    /\ plan' = [s \in Maker |-> [plan[s] EXCEPT !.alone = @ /\ \A r \in Row : m.qty[r] >= 0]]
    /\ UNCHANGED <<doc, status, delivered, flag, entries, form, disturbed, behind>>

(***************************************************************************)
(* Withholding tax entries from the form.                                  *)
(***************************************************************************)
\* The invoice on the screen: the rows that will be written back.
Copy == [open |-> TRUE, flag |-> flag,
         delivered |-> [r \in Row |-> IF r \in Withheld \ flag THEN delivered[r] ELSE 0]]

OpenForm(s) ==
    /\ doc = 1
    /\ form' = [form EXCEPT ![s] = Copy]
    /\ UNCHANGED <<doc, status, delivered, flag, entries, note, plan, disturbed, behind>>

\* Mutant: the flag of the row is not looked at.
DueAlways(s) == Withheld

\* The rows for which the screen shows no entry.
Due(s) == Withheld \ form[s].flag

\* Each gets an entry, in sales and in purchase invoices.
Entered(s) == [r \in Row |-> IF r \in Due(s) THEN entries[r] + 1 ELSE entries[r]]

\* The rows entered are written as they are on the screen.
Withhold(s) ==
    /\ form[s].open /\ doc = 1 /\ Due(s) # {}
    /\ \A r \in Due(s) : entries[r] < MaxEntries
    /\ entries' = Entered(s)
    /\ flag' = flag \cup Due(s)
    /\ delivered' = [r \in Row |-> IF r \in Due(s) THEN form[s].delivered[r] ELSE delivered[r]]
    /\ disturbed' = disturbed \cup {r \in Due(s) : form[s].delivered[r] # delivered[r]}
    /\ UNCHANGED <<doc, status, note, plan, form, behind>>

Next ==
    \/ SubmitInvoice \/ SubmitInterrupted \/ CancelInvoice
    \/ \E s \in Maker : BeginAutomatic(s) \/ Make(s) \/ Abandon(s)
    \/ \E s \in Web : BeginManual(s) \/ OpenForm(s) \/ Withhold(s)
    \/ \E m \in DOMAIN note : \/ SubmitNote(m) \/ CancelNote(m) \/ DeleteNote(m)
                             \/ \E r \in Row : EditNote(m, r)

Spec == Init /\ [][Next]_vars

(***************************************************************************)
(* Safety.                                                                 *)
(***************************************************************************)
Actual(r) == IF r \in Stocked THEN Shipped(note, r) ELSE IF doc = 1 THEN Qty[r] ELSE 0

\* A row's delivered quantity is what submitted notes hold, unless it was
\* overwritten by a refused cancellation or a stale form and no note of the
\* row has been submitted or cancelled since.
DeliveredIsActual == \A r \in Row \ disturbed : delivered[r] = Actual(r)

\* The status sums up the notes when no row was wrong and no note cancelled
\* since it was computed (check_validate_delivery_note).
StatusIsActual ==
    ~behind => status = StatusOf([r \in Row |-> Actual(r)])

\* Notes saved by a maker no other overtook do not hold more than the invoice,
\* unless they did before (create_delivery_note, make_delivery_note).
SoleMakerFits ==
    [][\A s \in Maker, r \in Row :
          plan[s].on /\ plan[s].alone /\ note' # note /\ ~plan'[s].on
             => Noted(note', r) <= Qty[r] \/ Noted(note', r) <= Noted(note, r)]_vars

\* A row gets its second entry only from a form that was opened before the
\* first (make_withholding_tax_gl_entries_for_sales from the front end).
SecondEntryNeedsStaleForm ==
    [][\A r \in Row : entries[r] > 0 /\ entries'[r] > entries[r]
          => \E s \in Web : form[s].open /\ r \in flag \ form[s].flag]_vars

(***************************************************************************)
(* Liveness: the job runs daily, ends, and goes through now and then.      *)
(***************************************************************************)
FairSpec ==
    /\ Spec
    /\ WF_vars(BeginAutomatic(Job)) /\ WF_vars(Make(Job) \/ Abandon(Job))
    /\ SF_vars(Make(Job))

Unnoted(r) == doc = 1 /\ delivered[r] # Qty[r] /\ Noted(note, r) = 0

\* A stocked row that no note holds gets into one, unless the invoice is
\* cancelled, a row was overwritten, or notes hold too much of another row.
PendingGetsNote ==
    \A r \in Stocked :
        Unnoted(r) ~> (~Unnoted(r) \/ disturbed # {} \/ \E q \in Stocked : Left(note, q) < 0)
=============================================================================
