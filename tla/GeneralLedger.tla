----------------------------- MODULE GeneralLedger -----------------------------
(***************************************************************************)
(* The general ledger (general_ledger_pro.py): ledger entries are read one *)
(* after the other, added to the opening, the total and the closing of     *)
(* their group and of the report, and shown with a running balance.        *)
(***************************************************************************)
EXTENDS Integers, Sequences, SequencesExt, FiniteSetsExt

CONSTANTS
    Account, Receivable,   \* leaf accounts, and those whose entries name a customer or supplier
    Voucher,
    Filter,                \* bound: accounts and vouchers asked for
    MaxEntries,            \* bound: entries in the ledger
    Nothing                \* no filter

\* What the constants are.
LedgerAssumption == Receivable \subseteq Account /\ Nothing \notin Account /\ MaxEntries \in Nat

VARIABLES
    entries,   \* the ledger, by date
    request,   \* the report's filters
    at,        \* the entry that is looked at next
    sums,      \* sums[k]: what is added up for k, a group or the whole report
    shown,     \* the entries to show, each with what was added to it
    lines      \* the lines of the report

vars == <<entries, request, at, sums, shown, lines>>

(***************************************************************************)
(* Types.  when: the entry is dated before, within or after the dates      *)
(* asked for; amount: debit less credit.  by: "Group by ..." of the form.  *)
(* of: the entry that is shown, 0 for the other lines.                     *)
(***************************************************************************)
When == {0 - 1, 0, 1}
Entry == [account : Account, voucher : Voucher, when : When, opening : BOOLEAN, amount : Int]
By == {"", "Voucher", "Voucher (Consolidated)", "Account", "Party"}
Request == [account : Account \cup {Nothing}, voucher : Voucher \cup {Nothing}, by : By, showOpening : BOOLEAN]

Whole == "report"
Key == Account \cup Voucher \cup {Whole}
Sums == [opening : Int, total : Int, closing : Int]
Line == [key : Key, row : {"opening", "entry", "total", "closing", "gap"}, of : Nat, amount : Int, balance : Int]

TypeOK ==
    /\ entries \in Seq(Entry) /\ request \in Request
    /\ at \in 1..Len(entries) + 1
    /\ sums \in [Key -> Sums]
    /\ shown \in Seq([of : Nat, amount : Int])
    /\ lines \in Seq(Line)

(***************************************************************************)
(* What is asked for.                                                      *)
(***************************************************************************)
Consolidated == request.by = "Voucher (Consolidated)"

Valid(r) ==
    /\ r.account # Nothing => r.by # "Account"
    /\ r.voucher # Nothing => r.by # "Voucher"

\* Entries before the first date are read only for an account or by groups
\* that carry on; opening entries have no date that matters.
BeforeRead == request.account # Nothing \/ request.by \in {"Account", "Party"}

Chosen(e) ==
    /\ request.account \in {Nothing, e.account}
    /\ request.voucher \in {Nothing, e.voucher}
    /\ request.by = "Party" => e.account \in Receivable
    /\ e.when = 0 - 1 => BeforeRead
    /\ e.when = 1 => e.opening

\* Entry i comes to the i-th power of two, so that sums tell entries apart.
\* All of a voucher's entries or none are opening ones.
Ledgers ==
    LET Raw == [account : Account, voucher : Voucher, when : When, opening : BOOLEAN]
    IN {[i \in DOMAIN s |-> [account |-> s[i].account, voucher |-> s[i].voucher, when |-> s[i].when,
                             opening |-> s[i].opening, amount |-> 2^i]] :
          s \in {t \in BoundedSeq(Raw, MaxEntries) : \A i, j \in DOMAIN t : i < j =>
                    /\ t[i].when <= t[j].when
                    /\ t[i].voucher = t[j].voucher => t[i].opening = t[j].opening}}

Start ==
    /\ request \in {r \in Request : Valid(r) /\ {r.account, r.voucher} \subseteq Filter \cup {Nothing}}
    /\ at = 1 /\ shown = <<>> /\ lines = <<>>
    /\ sums = [k \in Key |-> [opening |-> 0, total |-> 0, closing |-> 0]]

Init == entries \in Ledgers /\ Start

(***************************************************************************)
(* Adding up.                                                              *)
(***************************************************************************)
\* The party of an entry goes by its account.
Group(e) == IF request.by \in {"Voucher (Consolidated)", "Account", "Party"} THEN e.account ELSE e.voucher

IsOpening(e) == e.when = 0 - 1 \/ (e.opening /\ ~request.showOpening)

Added(e, field) ==
    [k \in Key |->
        IF k \notin {Group(e), Whole} THEN sums[k]
        ELSE IF field = "opening" THEN [sums[k] EXCEPT !.opening = @ + e.amount, !.closing = @ + e.amount]
        ELSE [sums[k] EXCEPT !.total = @ + e.amount, !.closing = @ + e.amount]]

Same(e, f) == e.account = f.account /\ e.voucher = f.voucher

\* Consolidated, an entry is added to the first of its voucher and account.
Show(i) ==
    LET same == {j \in DOMAIN shown : Same(entries[shown[j].of], entries[i])}
    IN IF Consolidated /\ same # {} THEN [shown EXCEPT ![Min(same)].amount = @ + entries[i].amount]
       ELSE Append(shown, [of |-> i, amount |-> entries[i].amount])

Read ==
    /\ at <= Len(entries)
    /\ LET e == entries[at]
       IN IF ~Chosen(e) THEN UNCHANGED <<sums, shown>>
          ELSE IF IsOpening(e) THEN sums' = Added(e, "opening") /\ UNCHANGED shown
          ELSE IF e.when = 0 THEN sums' = Added(e, "total") /\ shown' = Show(at)
          ELSE UNCHANGED <<sums, shown>>
    /\ at' = at + 1
    /\ UNCHANGED <<entries, request, lines>>

(***************************************************************************)
(* Lines.  Groups come in the order of the entries read, those of the      *)
(* period or before it, and those without an entry to show are left out.   *)
(***************************************************************************)
Groups ==
    LET keys == [i \in DOMAIN entries |-> Group(entries[i])]
        first == {i \in DOMAIN entries : /\ Chosen(entries[i])
                     /\ \A j \in 1..i - 1 : Chosen(entries[j]) => keys[j] # keys[i]}
    IN SelectSeq(SetToSortSeq(first, <), LAMBDA i : \E j \in DOMAIN shown : keys[shown[j].of] = keys[i])

SumLine(k, row) == [key |-> k, row |-> row, of |-> 0, amount |-> sums[k][row], balance |-> 0]

Gap == [key |-> Whole, row |-> "gap", of |-> 0, amount |-> 0, balance |-> 0]

EntryLines(s) ==
    [i \in DOMAIN s |-> [key |-> Group(entries[s[i].of]), row |-> "entry", of |-> s[i].of,
                         amount |-> s[i].amount, balance |-> 0]]

GroupLines(k) ==
    LET rows == EntryLines(SelectSeq(shown, LAMBDA s : Group(entries[s.of]) = k))
    IN IF request.by = "Voucher" THEN <<Gap>> \o rows \o <<SumLine(k, "total")>>
       ELSE <<Gap, SumLine(k, "opening")>> \o rows \o <<SumLine(k, "total"), SumLine(k, "closing")>>

Body ==
    IF Consolidated THEN EntryLines(shown)
    ELSE FoldLeft(LAMBDA acc, i : acc \o GroupLines(Group(entries[i])), <<>>, Groups) \o <<Gap>>

\* Only an entry has a date, and carries the balance of the line before on.
Balanced(acc, line) ==
    LET before == IF line.row = "entry" /\ acc # <<>> THEN Last(acc).balance ELSE 0
    IN Append(acc, [line EXCEPT !.balance = before + line.amount])

Build ==
    /\ at = Len(entries) + 1 /\ lines = <<>>
    /\ lines' = FoldLeft(Balanced, <<>>,
                   <<SumLine(Whole, "opening")>> \o Body \o <<SumLine(Whole, "total"), SumLine(Whole, "closing")>>)
    /\ UNCHANGED <<entries, request, at, sums, shown>>

Next == Read \/ Build

Spec == Init /\ [][Next]_vars

(***************************************************************************)
(* Safety.                                                                 *)
(***************************************************************************)
SumOf(S, amount(_)) == MapThenSumSet(amount, S)

LinesOf(k, row) == {i \in DOMAIN lines : lines[i].key = k /\ lines[i].row = row}

\* The balance of the last entry of a group is the one beneath it says the
\* group closes with, of a voucher that of its entries alone
\* (get_result_as_list).
RunningEndsAtClosing ==
    \A i \in DOMAIN lines :
        lines[i].row = "entry" /\ lines[i + 1].row # "entry" =>
            lines[i].balance = IF Consolidated THEN sums[Whole].closing
                               ELSE IF request.by = "Voucher" THEN sums[lines[i].key].total
                               ELSE sums[lines[i].key].closing

\* Each entry of the period that is asked for, and no other, is in one line,
\* and where entries before it are read the report closes with the balance of
\* what is asked for, if no opening entry is dated after it
\* (get_accountwise_gle, get_conditions).
ReportIsLedger ==
    lines # <<>> =>
        /\ SumOf({i \in DOMAIN lines : lines[i].row = "entry"}, LAMBDA i : lines[i].amount)
           = SumOf({i \in DOMAIN entries : /\ Chosen(entries[i]) /\ entries[i].when = 0
                                           /\ ~entries[i].opening \/ request.showOpening},
                   LAMBDA i : entries[i].amount)
        /\ \A i \in LinesOf(Whole, "closing") :
              BeforeRead /\ (\A j \in DOMAIN entries : ~(entries[j].opening /\ entries[j].when = 1)) =>
                  lines[i].amount = SumOf({j \in DOMAIN entries : Chosen(entries[j])}, LAMBDA j : entries[j].amount)
=============================================================================
