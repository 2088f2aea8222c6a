---------------------------- MODULE MCEchoServers ----------------------------
(* Instances of EchoServers for TLC. *)
EXTENDS EchoServers

CONSTANTS t1, u1, u2

AllServers == {"epoll", "poll", "select", "accept", "recvfrom"}
=============================================================================
