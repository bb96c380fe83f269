----------------------------- MODULE MCRunIdentity -----------------------------
(* An instance of RunIdentity for model checking: writers from two projects  *)
(* whose first names collide.  The second project has no other name today,   *)
(* but may have got one under an older rule.  w3 is about another run.       *)
EXTENDS RunIdentity, TLC

CONSTANTS r1, r2, w1, w2, w3, m1, k1, k2, shared, long1

MCRunOf == [w \in Writers |-> IF w = w3 THEN r2 ELSE r1]
MCKeyOf == [w \in Writers |-> IF w = w2 THEN k2 ELSE k1]
MCChain == k1 :> <<shared, long1>> @@ k2 :> <<shared>>

(* Empty, or naming for every project the name they have in common.          *)
MCCaches == {[k \in Keys |-> x] : x \in {NoBucket, shared}}
================================================================================
