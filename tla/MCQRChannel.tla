---------------------------- MODULE MCQRChannel ----------------------------
(* QRChannel for TLC; the bounds are in the configuration. *)
EXTENDS QRChannel
=============================================================================
