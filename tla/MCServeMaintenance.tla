-------------------------- MODULE MCServeMaintenance --------------------------
(* An instance of ServeMaintenance for model checking.                       *)
EXTENDS ServeMaintenance

===============================================================================
