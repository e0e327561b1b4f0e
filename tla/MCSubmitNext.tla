----------------------------- MODULE MCSubmitNext ----------------------------
(* Model checking SubmitNext: the blocks that exist.                         *)
EXTENDS SubmitNext

CONSTANTS a, b

(* The block the branches have in common.                                    *)
ForkPoint == <<a>>

(* A main branch of four blocks and a stale one that leaves it for two.      *)
LongBranch == <<a, a, a, a>>

StaleBlock == <<a, b>>

Fork == Ancestors(LongBranch) \cup Ancestors(<<a, b, b>>)

(* The upper block of the stale branch is invalid.                           *)
StaleTop == {<<a, b, b>>}

None == {}
=============================================================================
