------------------------- MODULE MCVehicleSyncQueue -------------------------
(* Instances of VehicleSyncQueue for TLC. *)
EXTENDS VehicleSyncQueue, TLC

\* Plates, and workers under Spec, are interchangeable: only the fairness of
\* FairSpec tells Cron from the others, and safety runs do not use it.
Symmetry == Permutations(Plate) \cup Permutations(Worker)
=============================================================================
