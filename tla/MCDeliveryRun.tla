--------------------------- MODULE MCDeliveryRun ---------------------------
(* Instances of DeliveryRun for model checking. *)
EXTENDS DeliveryRun

RecovererSymmetry == Permutations(Recoverers)
=============================================================================
