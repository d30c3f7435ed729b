------------------------- MODULE MCResponseWaiters -------------------------
(* A small instance of ResponseWaiters for TLC. *)
EXTENDS ResponseWaiters

CONSTANTS q, m, p
=============================================================================
