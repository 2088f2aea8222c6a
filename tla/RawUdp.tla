------------------------------- MODULE RawUdp -------------------------------
(***************************************************************************)
(* udp_raw_tl_, udp_raw_nl_ and udp_raw_dl_socket_server: a client that    *)
(* builds its UDP datagram in a raw socket, below the transport, the       *)
(* network or the link layer, and an ordinary UDP echo server.  A raw      *)
(* socket receives every datagram that reaches the host, the client's own  *)
(* too, and the client waits for one to its port, without a timeout.       *)
(***************************************************************************)
EXTENDS Integers, Sequences

CONSTANTS MaxForeign    \* bound: datagrams of other programs

Layers == {"tl", "nl", "dl"}
VARIABLES
  layer,        \* which client runs
  addressed,    \* this host has the address 192.168.2.1
  rawcln,       \* "start", "wait", "done"
  raw,          \* destination ports of the datagrams in the raw socket
  udpsrv,       \* the server runs
  requests,     \* [port, text, here] of the datagrams in the server's socket:
                \* here if the sender's address is one of this host
  foreign       \* datagrams other programs have sent

rawVars == <<layer, addressed, rawcln, raw, udpsrv, requests, foreign>>

RawInit ==
  /\ layer \in Layers
  /\ addressed \in BOOLEAN
  /\ rawcln = "start"
  /\ raw = <<>>
  /\ udpsrv = TRUE
  /\ requests = <<>>
  /\ foreign = 0

\* A datagram to a port of this host: a copy goes to the raw socket once that
\* is open.
Delivered(port) == raw' = IF rawcln # "start" THEN Append(raw, port) ELSE raw

Request(port, text, here) ==
  requests' = Append(requests, [port |-> port, text |-> text, here |-> here])

\* The tl client's datagram, with no checksum, gets its IP header from the
\* kernel.
SendTl ==
  /\ rawcln = "start" /\ layer = "tl"
  /\ rawcln' = "wait"
  /\ raw' = <<"server">>
  /\ Request("client", "hello", TRUE)
  /\ UNCHANGED <<layer, addressed, udpsrv, foreign>>

\* The nl client's IP header has its length and checksum filled in by the
\* kernel (IP_HDRINCL), and 192.168.2.1 for its source, whatever host this is.
SendNl ==
  /\ rawcln = "start" /\ layer = "nl"
  /\ rawcln' = "wait"
  /\ raw' = <<"server">>
  /\ Request("client", "hello", addressed)
  /\ UNCHANGED <<layer, addressed, udpsrv, foreign>>

\* The dl client's header is sent as it is, with tot_len in the machine's byte
\* order: more than the packet has, and the receiver drops it.
SendDl ==
  /\ rawcln = "start" /\ layer = "dl"
  /\ rawcln' = "wait"
  /\ raw' = <<"server">>
  /\ UNCHANGED <<layer, addressed, udpsrv, requests, foreign>>

\* Mutant of Recv: the client leaves the loop whatever it received.
RecvOnce ==
  /\ rawcln = "wait" /\ layer # "dl" /\ raw # <<>>
  /\ rawcln' = IF Head(raw) = "client" THEN "done" ELSE "left"
  /\ raw' = Tail(raw)
  /\ UNCHANGED <<layer, addressed, udpsrv, requests, foreign>>

\* recvfrom: a datagram to the client's port is printed and ends the client.
Recv ==
  /\ rawcln = "wait" /\ layer # "dl" /\ raw # <<>>
  /\ rawcln' = IF Head(raw) = "client" THEN "done" ELSE "wait"
  /\ raw' = Tail(raw)
  /\ UNCHANGED <<layer, addressed, udpsrv, requests, foreign>>

\* The dl client prints whatever it receives, and never ends.
RecvDl ==
  /\ rawcln = "wait" /\ layer = "dl" /\ raw # <<>>
  /\ raw' = Tail(raw)
  /\ UNCHANGED <<layer, addressed, rawcln, udpsrv, requests, foreign>>

\* The server exits on "exit", or echoes a request to the address it came from.
\* An echo to another host leaves this one, or sendto, from the loopback address
\* that the server is bound to, fails and ends the server.
Serve ==
  /\ udpsrv /\ requests # <<>>
  /\ requests' = Tail(requests)
  /\ LET r == Head(requests)
     IN  \/ r.text = "exit" /\ udpsrv' = FALSE /\ UNCHANGED raw
         \/ r.text # "exit" /\ r.here /\ Delivered(r.port) /\ UNCHANGED udpsrv
         \/ r.text # "exit" /\ ~r.here /\ udpsrv' \in BOOLEAN /\ UNCHANGED raw
  /\ UNCHANGED <<layer, addressed, rawcln, foreign>>

\* Another program sends the server a request, or anyone else a datagram.
Foreign ==
  /\ foreign < MaxForeign
  /\ foreign' = foreign + 1
  /\ \/ \E text \in {"hello", "exit"} : Request("other", text, TRUE) /\ Delivered("server")
     \/ \E port \in {"client", "other"} : Delivered(port) /\ UNCHANGED requests
  /\ UNCHANGED <<layer, addressed, rawcln, udpsrv>>

RawNext == SendTl \/ SendNl \/ SendDl \/ Recv \/ RecvDl \/ Serve \/ Foreign

\* The client and the server are scheduled; datagrams within the host are not
\* lost.
RawFairness == WF_rawVars(Recv \/ RecvDl) /\ WF_rawVars(Serve)

RawSpec == RawInit /\ [][RawNext]_rawVars /\ RawFairness

-----------------------------------------------------------------------------
\* A tl client that waits, and an nl client on the host whose address it gives
\* as its own, gets a datagram to its port, past its own request and the
\* datagrams of others, unless somebody has told the server to exit (client.c
\* 56-80, server.c 39-70).
RawClientEnds ==
  rawcln = "wait" /\ (layer = "tl" \/ (layer = "nl" /\ addressed))
    ~> rawcln = "done" \/ ~udpsrv
=============================================================================
