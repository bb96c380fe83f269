--------------------------- MODULE MCWorktreeReclaim ---------------------------
(* Instances of WorktreeReclaim for model checking: the worktree of inner is *)
(* below that of outer, which may be continued.                              *)
EXTENDS WorktreeReclaim, TLC

CONSTANTS outer, inner, next

MCPlace == outer :> outer @@ inner :> inner @@ next :> outer
MCInside == {<<inner, outer>>}
=============================================================================
