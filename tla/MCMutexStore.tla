---------------------------- MODULE MCMutexStore ----------------------------
(* Instances of MutexStore for TLC. *)
EXTENDS MutexStore
CONSTANTS s1, a, b
=============================================================================
