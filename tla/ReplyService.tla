---------------------------- MODULE ReplyService ----------------------------
(***************************************************************************)
(* What a request/reply server over a lossy transport promises to clients  *)
(* that never have more than one request outstanding: a request is answered*)
(* at most once, only after it was asked, and a request that was lost is   *)
(* never answered later.  HighloadServer implements this specification.    *)
(***************************************************************************)
CONSTANT Clients

VARIABLE state  \* state[c]: what became of the last request of client c

States == {"idle", "pending", "answered", "lost", "left"}

TypeOK == state \in [Clients -> States]

Init == state = [c \in Clients |-> "idle"]

\* A client sends a request; the transport takes it or drops it.
Ask(c) ==
  /\ state[c] = "idle"
  /\ state' \in {[state EXCEPT ![c] = s] : s \in {"pending", "lost"}}

\* The service answers a pending request.
Answer(c) ==
  /\ state[c] = "pending"
  /\ state' = [state EXCEPT ![c] = "answered"]

\* Requests the service still owes an answer are lost together, in a crash.
Lose(S) ==
  /\ \A c \in S : state[c] = "pending"
  /\ state' = [c \in Clients |-> IF c \in S THEN "lost" ELSE state[c]]

\* The client consumes its answer and is free to ask again.
Accept(c) ==
  /\ state[c] = "answered"
  /\ state' = [state EXCEPT ![c] = "idle"]

\* The client stops, whatever became of its request.
Leave(c) ==
  /\ state[c] # "left"
  /\ state' = [state EXCEPT ![c] = "left"]

\* A client's message stops the service: the client leaves, requests are lost.
Next ==
  \/ \E c \in Clients : Ask(c) \/ Answer(c) \/ Accept(c) \/ Leave(c)
  \/ \E S \in SUBSET Clients : Lose(S)

Spec == Init /\ [][Next]_state
=============================================================================
