------------------------- MODULE MCLockedTranscript -------------------------
(* Instances of LockedTranscript for model checking. *)
EXTENDS LockedTranscript, TLC

ProcSymmetry == Permutations(Procs)
=============================================================================
