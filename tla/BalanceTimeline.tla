--------------------------- MODULE BalanceTimeline ---------------------------
(***************************************************************************)
(* The dashboard's chart of what bank or cash accounts hold from day to    *)
(* day (multi_account_balance_timeline.py).  Each account starts from a    *)
(* balance ERPNext gives, and ledger entries, summed for each day and      *)
(* account, move the line from their day on.                               *)
(***************************************************************************)
EXTENDS Integers, Functions, FiniteSetsExt

CONSTANTS
    Account,   \* leaf accounts of the company
    LastDay,   \* bound: days on which entries are posted
    Amount     \* what entries of an account come to in a day

\* What the constants are.
RangeAssumption == LastDay \in Nat /\ 0 \in Amount /\ Amount \subseteq Int /\ IsFiniteSet(Account)

Day == 1..LastDay

VARIABLES
    posted,    \* posted[d][a]: what entries of a come to on day d, in its currency
    account,   \* what the account records say
    filters,   \* what the chart is asked for
    sums,      \* days and accounts whose entries are not looked at yet
    running,   \* running[a]: what a holds after the entries looked at
    chart      \* chart[d][a]: the point of a's line on day d

vars == <<posted, account, filters, sums, running, chart>>

(***************************************************************************)
(* Types.  shown: the user may see the account.                            *)
(***************************************************************************)
Kind == {"Bank", "Cash"}
Record == [kind : Kind, disabled : BOOLEAN, shown : BOOLEAN, foreign : BOOLEAN]
Filters == [kind : Kind, inactive : BOOLEAN, from : Day, to : Day]

\* The accounts asked for.
Accounts ==
    {a \in Account :
        /\ account[a].kind = filters.kind /\ account[a].shown
        /\ ~account[a].disabled \/ filters.inactive}

Dates == filters.from..filters.to

TypeOK ==
    /\ posted \in [Day -> [Account -> Amount]]
    /\ account \in [Account -> Record] /\ filters \in Filters
    /\ sums \subseteq Dates \X Accounts
    /\ running \in [Accounts -> Int]
    /\ chart \in [Dates -> [Accounts -> Int]]

Total(f) == FoldFunction(+, 0, f)

(***************************************************************************)
(* The start.                                                              *)
(***************************************************************************)
\* ERPNext's balance of an account at the end of a day, in its currency.
BalanceOn(a, d) == Total([c \in 1..d |-> posted[c][a]])

\* That of the end of the first day, although what is posted on that day is
\* still to be added.
Opening(a) == BalanceOn(a, filters.from)

Init ==
    /\ posted \in [Day -> [Account -> Amount]]
    /\ account \in [Account -> Record]
    /\ filters \in {f \in Filters : f.from <= f.to}
    /\ sums = {p \in Dates \X Accounts : posted[p[1]][p[2]] # 0}
    /\ running = [a \in Accounts |-> Opening(a)]
    /\ chart = [d \in Dates |-> running]

(***************************************************************************)
(* One sum of entries, which is in the company's currency.                 *)
(***************************************************************************)
Net(d, a) == posted[d][a] * (IF account[a].foreign THEN 2 ELSE 1)

Onwards(d) == {c \in Dates : c >= d}

\* Entries come day by day.
Move(d, a) ==
    /\ <<d, a>> \in sums /\ \A p \in sums : d <= p[1]
    /\ sums' = sums \ {<<d, a>>}
    /\ running' = [running EXCEPT ![a] = @ + Net(d, a)]
    /\ chart' = [c \in Dates |-> IF c \in Onwards(d) THEN [chart[c] EXCEPT ![a] = running'[a]] ELSE chart[c]]
    /\ UNCHANGED <<posted, account, filters>>

Next == \E d \in Dates, a \in Accounts : Move(d, a)

Spec == Init /\ [][Next]_vars

(***************************************************************************)
(* What the chart says under its lines.                                    *)
(***************************************************************************)
Latest == chart[filters.to]
TotalBalance == Total(Latest)

\* The most any account holds; no account if none holds more than nothing.
Highest == Max({0} \cup {Latest[a] : a \in Accounts})

(***************************************************************************)
(* Safety.                                                                 *)
(***************************************************************************)
Known(a) == ~account[a].foreign /\ posted[filters.from][a] = 0

\* When all entries are looked at, the line of an account in the company's
\* currency is its balance on each day, and the totals beneath are those of
\* the last day, provided that nothing is posted on the first day: that would
\* be counted twice (get_account_balances, calculate_summary_stats).
LinesAreBalances ==
    sums = {} =>
        /\ \A a \in Accounts : Known(a) => \A d \in Dates : chart[d][a] = BalanceOn(a, d)
        /\ (\A a \in Accounts : Known(a)) =>
              /\ TotalBalance = Total([d \in 1..filters.to |-> Total([a \in Accounts |-> posted[d][a]])])
              /\ \A a \in Accounts : BalanceOn(a, filters.to) <= Highest
=============================================================================
