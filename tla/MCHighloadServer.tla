-------------------------- MODULE MCHighloadServer --------------------------
(* Instances of HighloadServer for TLC. *)
EXTENDS HighloadServer

CONSTANTS c1, c2, c3, w1, w2

TwoClients == {c1, c2}
ThreeClients == {c1, c2, c3}
TwoWorkers == {w1, w2}

\* client.c: a socket per client.
OwnTwo == [c \in TwoClients |-> c]

\* benchmark.c: one socket for all the threads.
Shared == {"bench"}
SharedThree == [c \in ThreeClients |-> "bench"]
=============================================================================
