-------------------------- MODULE MCLifecycleAudit --------------------------
(* Small instances of LifecycleAudit: two rows of one organisation and     *)
(* pipeline action (so the dedup gate of each can see the other).          *)
EXTENDS LifecycleAudit, TLC

Symmetry == Permutations(Workers)

SameKey == [r \in Rows |-> "org/action"]
=============================================================================
