---------------------------- MODULE MCWebhooks ----------------------------
(* Small instances of Webhooks for TLC. *)
EXTENDS Webhooks, TLC

CONSTANTS p1, p2, u1, u2, w1, w2, w3

\* Goroutines and UUIDs are interchangeable.
Symmetry == Permutations({p1, p2}) \cup Permutations({w1, w2, w3})
=============================================================================
