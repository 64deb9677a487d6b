---------------------------- MODULE MCTickLease -----------------------------
(* TLC instance of TickLease. *)
EXTENDS TickLease
=============================================================================
