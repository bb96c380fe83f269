-------------------------- MODULE MCVerificationGate --------------------------
(* Instances of VerificationGate for model checking. *)
EXTENDS VerificationGate, TLC

VerifierSymmetry == Permutations(Verifiers)
=============================================================================
