---------------------------- MODULE FiscalLedger ----------------------------
(***************************************************************************)
(* What fiscalisation promises, whatever provider carries it: the revenue  *)
(* authority (TRA) issues receipts for an invoice and never takes one      *)
(* back, and the books name, for an invoice, a receipt that TRA has        *)
(* issued.  Once they name one they never cease to, but for a cancellation *)
(* that began while they named none and ends after they do.                *)
(***************************************************************************)
EXTENDS Naturals

CONSTANT Invoice

VARIABLES
    issued,    \* issued[i]: how many receipts TRA holds for invoice i
    recorded,  \* recorded[i]: the receipt number in the books, 0 for none
    leaving    \* invoices with a cancellation that has begun and not ended

ledgerVars == <<issued, recorded, leaving>>

Init ==
    /\ issued = [i \in Invoice |-> 0]
    /\ recorded = [i \in Invoice |-> 0]
    /\ leaving = {}

\* TRA issues one more receipt for i.
Issue(i) ==
    /\ issued' = [issued EXCEPT ![i] = @ + 1]
    /\ UNCHANGED <<recorded, leaving>>

\* The books take over the number of a receipt that TRA holds.
Record(i) ==
    /\ \E n \in 1..issued[i] : recorded' = [recorded EXCEPT ![i] = n]
    /\ UNCHANGED <<issued, leaving>>

\* A cancellation begins: only of an invoice without a receipt number.
Begin(i) ==
    /\ recorded[i] = 0
    /\ leaving' = leaving \cup {i}
    /\ UNCHANGED <<issued, recorded>>

\* A cancellation ends; the number that was recorded meanwhile may be lost.
\* Another one of the same invoice may still be going on.
End(i) ==
    /\ i \in leaving
    /\ recorded' \in {recorded, [recorded EXCEPT ![i] = 0]}
    /\ leaving' \in {leaving, leaving \ {i}}
    /\ UNCHANGED issued

Next == \E i \in Invoice : Issue(i) \/ Record(i) \/ Begin(i) \/ End(i)

Spec == Init /\ [][Next]_ledgerVars
=============================================================================
