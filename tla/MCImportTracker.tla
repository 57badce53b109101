--------------------------- MODULE MCImportTracker ---------------------------
(* Two invoices, the newer one a return; a payment that pays the
   older one and a voucher. *)
EXTENDS ImportTracker, TLC

CONSTANTS i1, i2, p1, v1

AmountDef == (i1 :> 1) @@ (i2 :> -1)
PaidDef == (p1 :> 1)
DayDef == (i1 :> 1) @@ (i2 :> 2)
DiffersDef == {<<p1, i1>>, <<p1, i2>>, <<v1, i1>>}
MaxEntriesDef == (i1 :> 2) @@ (i2 :> 0)
MaxManualDef == (i1 :> 1) @@ (i2 :> 0)
PayableDef == {<<p1, i1>>, <<p1, i2>>}
==============================================================================
