--------------------------- MODULE MCSessionReuse ---------------------------
EXTENDS SessionReuse, TLC

(* Runs other than the root are interchangeable. *)
RunSymmetry == Permutations(Runs \ {Root})
=============================================================================
