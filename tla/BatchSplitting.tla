---------------------------- MODULE BatchSplitting ----------------------------
(***************************************************************************)
(* How the rows of one item of a new Sales Invoice are split over the      *)
(* item's batches (custom_api.py, batch_splitting).  An item that has one  *)
(* row is treated apart from one that has several.  Quantities are whole   *)
(* numbers of the stock unit; a row may be in a larger unit, of which a    *)
(* batch gives whole ones only.                                            *)
(***************************************************************************)
EXTENDS Naturals, Sequences, Functions

CONSTANTS
    MaxRows,     \* bound: rows of the item
    MaxBatches,  \* bound: batches of the item
    MaxQty,      \* bound: what a row asks for, and what a batch holds
    Factors      \* conversion factors of the rows' units

\* What the constants are.
BoundAssumption ==
    {MaxRows, MaxBatches, MaxQty} \subseteq Nat /\ Factors \subseteq Nat \ {0}

VARIABLES
    rows,        \* the rows of the item as they were entered
    stock,       \* what is in the batches, as it was read
    row, batch,  \* the pair that is looked at next
    got,         \* got[i][k]: what row i has been given of batch k
    used,        \* batches that are done with
    kept,        \* the batch remembered as begun, and what is said to be left
    verdict      \* whether the invoice goes on

vars == <<rows, stock, row, batch, got, used, kept, verdict>>
input == <<rows, stock>>

(***************************************************************************)
(* Types.                                                                  *)
(***************************************************************************)
Row == [qty : 1..MaxQty, factor : Factors]
Rows == UNION {[1..n -> Row] : n \in 1..MaxRows}
NoBatch == [batch |-> 0, left |-> 0]

\* What the batches hold that are read: those that have expired, or have no date
\* of expiry, are not.
Read == UNION {[1..n -> 0..MaxQty] : n \in 0..MaxBatches}

TypeOK ==
    /\ rows \in Rows /\ stock \in Read
    /\ row \in 1..Len(rows) + 1 /\ batch \in 1..Len(stock) + 1
    /\ got \in [1..Len(rows) -> [1..Len(stock) -> Nat]]
    /\ used \subseteq 1..Len(stock)
    /\ kept \in [batch : 0..Len(stock), left : 0..MaxQty]
    /\ verdict \in {"open", "unsplit", "split", "refused"}

\* Without a batch the rows stay as they are.
Init ==
    /\ rows \in Rows /\ stock \in Read
    /\ row = 1 /\ batch = 1
    /\ got = [i \in 1..Len(rows) |-> [k \in 1..Len(stock) |-> 0]]
    /\ used = {} /\ kept = NoBatch
    /\ verdict = IF stock = <<>> THEN "unsplit" ELSE "open"

(***************************************************************************)
(* One row and one batch.                                                  *)
(***************************************************************************)
Single == Len(rows) = 1
Wanted(i) == rows[i].qty * rows[i].factor
Given(i) == FoldFunction(+, 0, got[i])
Drawn(k) == FoldFunction(+, 0, [i \in 1..Len(rows) |-> got[i][k]])

Smaller(a, b) == IF a < b THEN a ELSE b

\* Whole units of the row that q makes.
Whole(i, q) == (q \div rows[i].factor) * rows[i].factor

Remainder == Wanted(row) - Given(row)
Begun == kept.batch = batch

Open == verdict = "open" /\ row <= Len(rows) /\ batch <= Len(stock)
Skipped == stock[batch] = 0 \/ Given(row) >= Wanted(row) \/ batch \in used

Skip ==
    /\ Open /\ Skipped
    /\ batch' = batch + 1
    /\ UNCHANGED <<input, row, got, used, kept, verdict>>

\* Mutant: what another row has left of the batch is not looked at.
AmountOfFull == Whole(row, Smaller(Remainder, stock[batch]))

Amount == Whole(row, Smaller(Remainder, IF Begun THEN kept.left ELSE stock[batch]))

\* The batch is used up.
UsedUp == Remainder >= stock[batch] \/ (Begun /\ Remainder > kept.left)

\* What an earlier row took of the batch is forgotten.
Left == stock[batch] - Amount

Give ==
    /\ Open /\ ~Skipped
    /\ got' = [got EXCEPT ![row][batch] = Amount]
    /\ IF Single \/ Amount = 0 THEN UNCHANGED <<used, kept>>
       ELSE IF UsedUp THEN used' = used \cup {batch} /\ kept' = NoBatch
       ELSE kept' = [batch |-> batch, left |-> Left] /\ UNCHANGED used
    /\ batch' = batch + 1
    /\ UNCHANGED <<input, row, verdict>>

(***************************************************************************)
(* The end of a row.                                                       *)
(***************************************************************************)
\* Only for a single row is it checked what it got, in stock units, against
\* what it asks for in its own unit.
NextRow ==
    /\ verdict = "open" /\ row <= Len(rows) /\ batch > Len(stock)
    /\ row' = row + 1 /\ batch' = 1
    /\ verdict' = IF Single /\ Given(row) < rows[row].qty THEN "refused"
                  ELSE IF row = Len(rows) THEN "split" ELSE "open"
    /\ UNCHANGED <<input, got, used, kept>>

Next == Skip \/ Give \/ NextRow

Spec == Init /\ [][Next]_vars

(***************************************************************************)
(* Safety.                                                                 *)
(***************************************************************************)
Units == \A i \in 1..Len(rows) : rows[i].factor = 1
Total == FoldFunction(+, 0, [i \in 1..Len(rows) |-> Given(i)])
Asked == FoldFunction(+, 0, [i \in 1..Len(rows) |-> Wanted(i)])
InStock == FoldFunction(+, 0, [k \in 1..Len(stock) |-> stock[k]])

\* No row is given more than it asks for.  With one or two rows, all in the
\* stock unit, no batch is drawn on for more than it holds, the rows get all
\* there is of what they ask for, and a single row gets all or is refused.  A
\* third row, or a larger unit, finds a batch that was begun full again
\* (qty_remain_per_batch_obj), and nothing is said of what is lacking.
RowsFit ==
    /\ \A i \in 1..Len(rows) : Given(i) <= Wanted(i)
    /\ Units /\ Len(rows) <= 2 =>
          /\ \A k \in 1..Len(stock) : Drawn(k) <= stock[k]
          /\ verdict = "split" => Total = Smaller(Asked, InStock)
          /\ verdict = "split" /\ Single => Total = Asked
=============================================================================
