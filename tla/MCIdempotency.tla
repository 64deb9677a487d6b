---------------------------- MODULE MCIdempotency ----------------------------
(* A small instance of Idempotency: two concurrent sends of one body and,  *)
(* under the same key, a request with another body.                        *)
EXTENDS Idempotency, TLC

CONSTANTS a1, a2, b

Senders == {a1, a2, b}
Body == [c \in Senders |-> IF c = b THEN "B" ELSE "A"]
Symmetry == Permutations({a1, a2})
=============================================================================
