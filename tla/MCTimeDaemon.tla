----------------------------- MODULE MCTimeDaemon -----------------------------
(* Instances of TimeDaemon for TLC. *)
EXTENDS TimeDaemon, TLC
CONSTANTS a, b, c
=============================================================================
