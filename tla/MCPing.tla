------------------------------- MODULE MCPing -------------------------------
(* Instances of Ping for TLC. *)
EXTENDS Ping

\* Replies to another ping.
OtherPing == {[type |-> "reply", id |-> 8, seq |-> n] : n \in {0, 5}}
=============================================================================
