---------------------------- MODULE MCEventQueue ----------------------------
(* The instance of EventQueue that TLC checks. *)
EXTENDS EventQueue
=============================================================================
