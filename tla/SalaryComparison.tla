--------------------------- MODULE SalaryComparison ---------------------------
(***************************************************************************)
(* The comparison of a month's salary slips with those of the month        *)
(* before (salary_register_summary_with_monthly_comparison.py): of the     *)
(* slips a filter chooses, the components are summed in SQL for each       *)
(* department or cost center, and the two lists are matched row by row     *)
(* into the sections of the report, with their totals.                     *)
(*                                                                         *)
(* Slips are monthly.  The filters for company, currency and employee, and *)
(* the components that count in no total, leave out what is not in the     *)
(* model.  A difference is printed as what its row's two amounts make it.  *)
(***************************************************************************)
EXTENDS Integers, Sequences, SequencesExt, FiniteSetsExt

CONSTANTS
    Employee,    \* who has a slip in a month, or none
    Slip,        \* what slips say
    Section,     \* Section[c]: the section of the component c
    MaxSlips     \* bound: slips of both months

NoSlip == [state |-> "none"]
NoFilter == "everything"
Month == {"previous", "current"}
Sections == {"basic", "allowances", "deductions"}
Dimension == {"department", "center"}

\* What the constants are.
SlipAssumption ==
    /\ MaxSlips \in Nat /\ \A c \in DOMAIN Section : Section[c] \in Sections
    /\ \A s \in Slip : /\ s.state \in {"Draft", "Submitted"}
                       /\ DOMAIN s.pays \subseteq DOMAIN Section
                       /\ \A c \in DOMAIN s.pays : s.pays[c] \in Nat

VARIABLES
    slip,       \* slip[m][e]: the slip of e in the month m
    filters,    \* what the report is asked for
    at,         \* what the report does next
    chosen,     \* chosen[m]: whose slips of the month are in the report
    data,       \* data[x]: the rows and totals of a section
    totals      \* gross pay and net pay of each month

vars == <<slip, filters, at, chosen, data, totals>>

(***************************************************************************)
(* Types.  by: what the rows are for; only: the department or cost center  *)
(* that is asked for, under its dimension.                                 *)
(***************************************************************************)
Amounts == [Month -> Int]
Row == [key : {s[d] : s \in Slip, d \in Dimension} \cup {""}, component : DOMAIN Section, amount : Amounts]
Only == {NoFilter} \cup {s[d] : s \in Slip, d \in Dimension}
Filters == [by : SUBSET Dimension, only : [Dimension -> Only], state : {"Draft", "Submitted"}]

TypeOK ==
    /\ slip \in [Month -> [Employee -> Slip \cup {NoSlip}]]
    /\ filters \in Filters
    /\ at \in Month \cup Sections \cup {"refused", "empty", "done"}
    /\ chosen \in [Month -> SUBSET Employee]
    /\ \A x \in Sections : data[x].rows \in Seq(Row) /\ data[x].total \in Amounts
    /\ totals.gross \in Amounts /\ totals.net \in Amounts

Zero == [m \in Month |-> 0]

Init ==
    /\ slip \in [Month -> [Employee -> Slip \cup {NoSlip}]]
    /\ Cardinality({p \in Month \X Employee : slip[p[1]][p[2]] # NoSlip}) <= MaxSlips
    /\ filters \in Filters
    /\ \A d \in Dimension : filters.only[d] \in {NoFilter} \cup {s[d] : s \in Slip}
    /\ at = "previous"
    /\ chosen = [m \in Month |-> {}]
    /\ data = [x \in Sections |-> [rows |-> <<>>, total |-> Zero]]
    /\ totals = [gross |-> Zero, net |-> Zero]

(***************************************************************************)
(* The slips.                                                              *)
(***************************************************************************)
\* A department or cost center with those below it.
Tree(v) == IF v = "head" THEN {"head", "branch"} ELSE {v}

Choose(m, state) ==
    {e \in Employee :
        /\ slip[m][e].state = state
        /\ \A d \in Dimension :
              filters.only[d] # NoFilter => slip[m][e][d] \in Tree(filters.only[d])}

\* Without a slip of the month before there is no report, not even its columns.
ReadPrevious ==
    /\ at = "previous"
    /\ chosen' = [chosen EXCEPT !["previous"] = Choose("previous", "Submitted")]
    /\ at' = IF chosen'["previous"] = {} THEN "refused" ELSE "current"
    /\ UNCHANGED <<slip, filters, data, totals>>

ReadCurrent ==
    /\ at = "current"
    /\ chosen' = [chosen EXCEPT !["current"] = Choose("current", filters.state)]
    /\ at' = IF chosen'["current"] = {} THEN "empty" ELSE "basic"
    /\ UNCHANGED <<slip, filters, data, totals>>

(***************************************************************************)
(* The sums.  What the rows are for is asked for exactly, without what is  *)
(* below it.                                                               *)
(***************************************************************************)
Pays(m, e, c) == IF c \in DOMAIN slip[m][e].pays THEN slip[m][e].pays[c] ELSE 0

\* The slips of a month that are summed.
Summed(m) ==
    {e \in chosen[m] : \A d \in filters.by : filters.only[d] \in {NoFilter, slip[m][e][d]}}

GroupOf(m, e) == [d \in filters.by |-> slip[m][e][d]]

AmountOf(m, g, c) == MapThenSumSet(LAMBDA e : Pays(m, e, c), {e \in Summed(m) : GroupOf(m, e) = g})

\* The sums of the components in cs, one for each group and component.
Grouped(m, cs) ==
    UNION {{[group |-> GroupOf(m, e), component |-> c, amount |-> AmountOf(m, GroupOf(m, e), c)]
              : c \in cs \cap DOMAIN slip[m][e].pays} : e \in Summed(m)}

Of(x) == {c \in DOMAIN Section : Section[c] = x}

PreviousBasic == Grouped("previous", Of("basic"))
PreviousEarnings == Grouped("previous", Of("allowances"))
PreviousDeductions == Grouped("previous", Of("deductions"))
CurrentBasic == Grouped("current", Of("basic"))
CurrentEarnings == Grouped("current", Of("allowances"))
CurrentDeductions == Grouped("current", Of("deductions"))

(***************************************************************************)
(* The rows.  They are matched by component and one key: the department,   *)
(* also when there are cost centers too.                                   *)
(***************************************************************************)
Key(g) == IF "department" \in filters.by THEN g.group["department"]
          ELSE IF "center" \in filters.by THEN g.group["center"] ELSE ""

Match(f, g) == Key(f) = Key(g) /\ f.component = g.component

RowOf(g, before, now) ==
    [key |-> Key(g), component |-> g.component, amount |-> [previous |-> before, current |-> now]]

\* The first of its key in s.
First(s, i) == \A j \in 1..(i - 1) : ~Match(s[j], s[i])

\* A sum of this month is listed with each sum of the month before that matches.
\* The copies are one dict: all of them show the last.
Listed(g, first, before) ==
    LET matches == SelectSeq(before, LAMBDA f : Match(f, g)) IN
    IF matches # <<>>
    THEN [i \in DOMAIN matches |-> RowOf(g, Last(matches).amount, g.amount)]
    ELSE IF first THEN <<RowOf(g, 0, g.amount)>> ELSE <<>>

Gone(s, i, now) ==
    IF First(s, i) /\ \A j \in DOMAIN now : ~Match(now[j], s[i])
    THEN <<RowOf(s[i], s[i].amount, 0)>> ELSE <<>>

Rows(before, now) ==
    FlattenSeq([i \in DOMAIN now |-> Listed(now[i], First(now, i), before)])
        \o FlattenSeq([i \in DOMAIN before |-> Gone(before, i, now)])

Sum(S) == MapThenSumSet(LAMBDA g : g.amount, S)

Compared(before, now) ==
    [rows |-> Rows(SetToSeq(before), SetToSeq(now)),
     total |-> [previous |-> Sum(before), current |-> Sum(now)]]

Plus(a, b) == [m \in Month |-> a[m] + b[m]]
Minus(a, b) == [m \in Month |-> a[m] - b[m]]

Basic ==
    /\ at = "basic" /\ at' = "allowances"
    /\ data' = [data EXCEPT !["basic"] = Compared(PreviousBasic, CurrentBasic)]
    /\ UNCHANGED <<slip, filters, chosen, totals>>

Earnings ==
    /\ at = "allowances" /\ at' = "deductions"
    /\ data' = [data EXCEPT !["allowances"] = Compared(PreviousEarnings, CurrentEarnings)]
    /\ totals' = [totals EXCEPT !.gross = Plus(data["basic"].total, data'["allowances"].total)]
    /\ UNCHANGED <<slip, filters, chosen>>

Deductions ==
    /\ at = "deductions" /\ at' = "done"
    /\ data' = [data EXCEPT !["deductions"] = Compared(PreviousDeductions, CurrentDeductions)]
    /\ totals' = [totals EXCEPT !.net = Minus(totals.gross, data'["deductions"].total)]
    /\ UNCHANGED <<slip, filters, chosen>>

Next == ReadPrevious \/ ReadCurrent \/ Basic \/ Earnings \/ Deductions

Spec == Init /\ [][Next]_vars

(***************************************************************************)
(* Safety.                                                                 *)
(***************************************************************************)
\* Rows for departments within which there are cost centers match many times,
\* and then add up to nothing.
OneKey == Cardinality(filters.by) <= 1

\* Of whom the amounts leave out the slips that the number of employees counts.
LeftOut(m) ==
    {e \in chosen[m] : \E d \in filters.by : filters.only[d] \notin {NoFilter, slip[m][e][d]}}

Earned(m, e) ==
    MapThenSumSet(LAMBDA c : IF Section[c] = "deductions" THEN 0 - Pays(m, e, c) ELSE Pays(m, e, c),
                  DOMAIN Section)

\* Rows for departments or for cost centers list every component of each once,
\* with the month's sum beside that of the month before, and add up to the
\* section's totals; and the net pay is that of all slips that are counted,
\* unless the department that is asked for has others below it and the rows are
\* for departments (get_basic_data, get_earnings_data, get_deduction_data).
RowsAddUp ==
    at = "done" =>
        /\ OneKey => \A x \in Sections, m \in Month :
              LET rows == data[x].rows IN
              /\ \A i, j \in DOMAIN rows : i # j =>
                    <<rows[i].key, rows[i].component>> # <<rows[j].key, rows[j].component>>
              /\ FoldLeft(+, 0, [i \in DOMAIN rows |-> rows[i].amount[m]]) = data[x].total[m]
        /\ \A m \in Month :
              totals.net[m] = MapThenSumSet(LAMBDA e : Earned(m, e), chosen[m] \ LeftOut(m))
=============================================================================
