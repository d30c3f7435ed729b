--------------------------- MODULE MCIdempotency ---------------------------
(* Small instances of Idempotency for TLC. *)
EXTENDS Idempotency

CONSTANTS c1, c2, k1, k2, k3
=============================================================================
