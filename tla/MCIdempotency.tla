--------------------------- MODULE MCIdempotency ---------------------------
(* Instances of Idempotency for TLC.                                       *)
EXTENDS Idempotency, TLC

Interchangeable == Permutations(Caller) \cup Permutations(Request) \cup Permutations(Answer)
=============================================================================
