----------------------------- MODULE MCEventBus -----------------------------
(***************************************************************************)
(* Small instances of EventBus for TLC.                                    *)
(***************************************************************************)
EXTENDS EventBus, TLC

\* The processes are interchangeable; used by the safety run only.
Symmetry == Permutations(Instances)
=============================================================================
