---------------------------- MODULE MCCorrections ----------------------------
(* Instances of Corrections for model checking. *)
EXTENDS Corrections
=============================================================================
