---------------------------- MODULE MCAppendLock ----------------------------
(* Instances of AppendLock for model checking: processes are model values. *)
EXTENDS AppendLock, TLC
=============================================================================
