---------------------------- MODULE MCSendRetry ----------------------------
(* Small instances of SendRetry for TLC. *)
EXTENDS SendRetry

CONSTANTS s1, s2
=============================================================================
