-------------------------- MODULE MCSalesDelivery --------------------------
(* Instances of SalesDelivery for TLC. *)
EXTENDS SalesDelivery

\* Two rows of stock in two warehouses and a service.
MCQty == <<2, 1, 1>>
MCHouse == <<"A", "B", "A">>
=============================================================================
