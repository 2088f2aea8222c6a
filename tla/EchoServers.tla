----------------------------- MODULE EchoServers -----------------------------
(***************************************************************************)
(* The echo servers: tcp_udp_epoll_server, tcp_udp_poll_server,            *)
(* tcp_udp_select_server, tcp_socket_echo_server, udp_socket_echo_server,  *)
(* and their clients.  They differ in how the main thread waits (mux); the *)
(* rest of their code is the same.  A main thread accepts connections and  *)
(* echoes datagrams, one handler thread per connection echoes its stream.  *)
(*                                                                         *)
(* A connection is a pair of byte streams: recv returns whatever has       *)
(* arrived, so two messages in a stream are read as one.                   *)
(***************************************************************************)
EXTENDS Naturals, Sequences

CONSTANTS
  Tcps, Udps,          \* client processes
  TcpTexts, UdpTexts,  \* what they may send: "exit", "" and others
  Muxes,               \* the servers considered
  Backlog,             \* connections waiting for accept (listen's argument)
  SockCap,             \* datagrams the server's UDP socket holds
  MayDie,              \* whether a client may be killed or lose its input
  MayFail,             \* whether system calls of the server may fail
  None, Eof, Merged    \* no message, end of stream, several messages in one recv

Clients == Tcps \cup Udps
Texts == TcpTexts \cup UdpTexts

ASSUME ClientAssumption == Tcps \cap Udps = {}
ASSUME MuxAssumption == Muxes \subseteq {"epoll", "poll", "select", "accept", "recvfrom"}
ASSUME BoundAssumption ==
  Backlog \in Nat /\ SockCap \in Nat /\ MayDie \in BOOLEAN /\ MayFail \in BOOLEAN

\* par tells a client's message from the one before it.
Msg == [par : {0, 1}, text : Texts]

ASSUME TokenAssumption ==
  /\ None \notin Msg /\ Eof \notin Msg /\ Merged \notin Msg
  /\ None # Eof /\ None # Merged /\ Eof # Merged

VARIABLES
  mux,       \* which server this is
  up,        \* the server process runs
  rdl,       \* epoll's list of descriptors that may be ready
  backlog,   \* connections not yet accepted
  udpbuf,    \* datagrams in the UDP socket
  cpc,       \* client: "out" (not started), "idle", "wait" (for the echo), "gone"
  out,       \* the message a client sent last
  got,       \* what a client received last
  toSrv,     \* stream to the server
  toCln,     \* stream, or datagrams, to the client
  conn,      \* client's end: "open", "fin", "late" (sent to after fin), "rst", "abort"
  hpc,       \* handler thread: "none", "recv", "send", "done", "lost" (not created)
  hmsg       \* the message it holds

mainVars == <<up, rdl, backlog, udpbuf>>
clnVars == <<cpc, out, got>>
connVars == <<toSrv, toCln, conn>>
hndlVars == <<hpc, hmsg>>
vars == <<mux, mainVars, clnVars, connVars, hndlVars>>

Init ==
  /\ mux \in Muxes
  /\ up = TRUE
  /\ rdl = <<>>
  /\ backlog = <<>>
  /\ udpbuf = <<>>
  /\ cpc = [c \in Clients |-> IF c \in Tcps THEN "out" ELSE "idle"]
  /\ out = [c \in Clients |-> None]
  /\ got = [c \in Clients |-> None]
  /\ toSrv = [c \in Tcps |-> <<>>]
  /\ toCln = [c \in Clients |-> <<>>]
  /\ conn = [c \in Tcps |-> "open"]
  /\ hpc = [c \in Tcps |-> "none"]
  /\ hmsg = [c \in Tcps |-> None]

-----------------------------------------------------------------------------
(* Waiting *)

Ready(fd) == IF fd = "tcp" THEN backlog # <<>> ELSE udpbuf # <<>>

\* The kernel puts a descriptor at the end of the list when something arrives.
Notify(fd) ==
  rdl' = IF mux = "epoll" /\ \A i \in 1..Len(rdl) : rdl[i] # fd
         THEN Append(rdl, fd) ELSE rdl

\* poll and select: the connections are looked at first.
PollPicks(fd) == Ready(fd) /\ (fd = "udp" => ~Ready("tcp")) /\ UNCHANGED rdl
SelectPicks(fd) == Ready(fd) /\ (fd = "udp" => ~Ready("tcp")) /\ UNCHANGED rdl

\* epoll_wait for one event reports the first descriptor of the list that is
\* ready and moves it to the end.
EpollPicks(fd) ==
  \E i \in 1..Len(rdl) :
    /\ rdl[i] = fd /\ Ready(fd)
    /\ \A j \in 1..(i - 1) : ~Ready(rdl[j])
    /\ rdl' = Append(SubSeq(rdl, i + 1, Len(rdl)), fd)

-----------------------------------------------------------------------------
(* Main thread *)

\* The process ends: every socket is closed, every handler thread ends.
Shutdown ==
  /\ up' = FALSE
  /\ backlog' = <<>>
  /\ udpbuf' = <<>>
  /\ toSrv' = [c \in Tcps |-> <<>>]
  /\ hpc' = [c \in Tcps |-> "done"]
  /\ UNCHANGED <<mux, clnVars, toCln, conn, hmsg>>

\* accept, and a thread for the connection.  Whether pthread_create succeeds is
\* not looked at: without the thread the socket stays open and nobody reads it.
MainAccept ==
  /\ \E at \in {"recv"} \cup (IF MayFail THEN {"lost"} ELSE {}) :
       hpc' = [hpc EXCEPT ![Head(backlog)] = at]
  /\ backlog' = Tail(backlog)
  /\ UNCHANGED <<mux, up, udpbuf, clnVars, connVars, hmsg>>

\* recvfrom, and sendto the address the datagram came from.
MainUdp ==
  /\ Head(udpbuf).msg.text # "exit"
  /\ LET c == Head(udpbuf).cln IN
       toCln' = IF cpc[c] = "gone" THEN toCln
                ELSE [toCln EXCEPT ![c] = Append(@, Head(udpbuf).msg)]
  /\ udpbuf' = Tail(udpbuf)
  /\ UNCHANGED <<mux, up, backlog, clnVars, toSrv, conn, hndlVars>>

\* A datagram "exit" stops the whole server.
MainUdpExit ==
  /\ Head(udpbuf).msg.text = "exit"
  /\ Shutdown

\* The loop of each server.  A failing accept goes unnoticed in the servers with
\* two sockets, whose thread for it ends at once.
Serve(fd) == IF fd = "tcp" THEN MainAccept ELSE MainUdp \/ MainUdpExit

EpollLoop == mux = "epoll" /\ up /\ \E fd \in {"tcp", "udp"} : EpollPicks(fd) /\ Serve(fd)
PollLoop == mux = "poll" /\ up /\ \E fd \in {"tcp", "udp"} : PollPicks(fd) /\ Serve(fd)
SelectLoop == mux = "select" /\ up /\ \E fd \in {"tcp", "udp"} : SelectPicks(fd) /\ Serve(fd)
AcceptLoop == mux = "accept" /\ up /\ Ready("tcp") /\ MainAccept /\ UNCHANGED rdl
RecvfromLoop ==
  mux = "recvfrom" /\ up /\ Ready("udp") /\ (MainUdp \/ MainUdpExit) /\ UNCHANGED rdl

\* epoll_wait, poll, select, recvfrom or sendto fails, or the accept of the
\* server that only accepts.
MainFails ==
  /\ MayFail /\ up
  /\ Shutdown
  /\ UNCHANGED rdl

-----------------------------------------------------------------------------
(* Handler thread of a connection: cln_tcp_hndl, cln_hndl *)

\* What recv returns from a stream.
Recvd(stream) == IF Len(stream) = 1 THEN Head(stream) ELSE Merged

\* Mutant of HandlerRecv: "exit" is echoed like any other message.
HandlerRecvNoExit(c) ==
  /\ hpc[c] = "recv" /\ toSrv[c] # <<>>
  /\ hmsg' = [hmsg EXCEPT ![c] = Recvd(toSrv[c])]
  /\ toSrv' = [toSrv EXCEPT ![c] = <<>>]
  /\ hpc' = [hpc EXCEPT ![c] = "send"]
  /\ UNCHANGED <<mux, mainVars, clnVars, toCln, conn>>

HandlerRecv(c) ==
  /\ hpc[c] = "recv" /\ toSrv[c] # <<>>
  /\ hmsg' = [hmsg EXCEPT ![c] = Recvd(toSrv[c])]
  /\ toSrv' = [toSrv EXCEPT ![c] = <<>>]
  /\ hpc' = [hpc EXCEPT ![c] =
               IF hmsg'[c] \in Msg /\ hmsg'[c].text = "exit" THEN "done" ELSE "send"]
  /\ UNCHANGED <<mux, mainVars, clnVars, toCln, conn>>

\* The client has closed: recv returns 0, which the thread takes for an empty
\* message.
HandlerRecvEof(c) ==
  /\ hpc[c] = "recv" /\ toSrv[c] = <<>>
  /\ conn[c] \in {"fin", "late", "rst"}
  /\ hmsg' = [hmsg EXCEPT ![c] = Eof]
  /\ hpc' = [hpc EXCEPT ![c] = "send"]
  /\ UNCHANGED <<mux, mainVars, clnVars, connVars>>

\* recv returns -1.
HandlerRecvFails(c) ==
  /\ hpc[c] = "recv"
  /\ MayFail \/ conn[c] \in {"rst", "abort"}
  /\ hpc' = [hpc EXCEPT ![c] = "done"]
  /\ toSrv' = [toSrv EXCEPT ![c] = <<>>]
  /\ UNCHANGED <<mux, mainVars, clnVars, toCln, conn, hmsg>>

\* Mutant of HandlerSend: the message is read again instead of being sent.
HandlerSendNothing(c) ==
  /\ hpc[c] = "send" /\ conn[c] \in {"open", "fin", "late"}
  /\ hpc' = [hpc EXCEPT ![c] = "recv"]
  /\ UNCHANGED <<mux, mainVars, clnVars, connVars, hmsg>>

\* Mutant of HandlerSend: the echo is sent twice.
HandlerSendTwice(c) ==
  /\ hpc[c] = "send" /\ conn[c] \in {"open", "fin", "late"}
  /\ toCln' = IF conn[c] = "open" /\ hmsg[c] # Eof
              THEN [toCln EXCEPT ![c] = @ \o <<hmsg[c], hmsg[c]>>] ELSE toCln
  /\ hpc' = [hpc EXCEPT ![c] = "recv"]
  /\ UNCHANGED <<mux, mainVars, clnVars, toSrv, conn, hmsg>>

\* send: nothing for an end of stream; data for a client that has closed is
\* answered with a reset.
HandlerSend(c) ==
  /\ hpc[c] = "send" /\ conn[c] \in {"open", "fin", "late"}
  /\ toCln' = IF conn[c] = "open" /\ hmsg[c] # Eof
              THEN [toCln EXCEPT ![c] = Append(@, hmsg[c])] ELSE toCln
  /\ conn' = IF conn[c] = "fin" /\ hmsg[c] # Eof
             THEN [conn EXCEPT ![c] = "late"] ELSE conn
  /\ hpc' = [hpc EXCEPT ![c] = "recv"]
  /\ UNCHANGED <<mux, mainVars, clnVars, toSrv, hmsg>>

\* send returns -1, on a connection the client aborted or for another reason:
\* the thread ends.
HandlerSendFails(c) ==
  /\ hpc[c] = "send"
  /\ MayFail \/ conn[c] = "abort"
  /\ hpc' = [hpc EXCEPT ![c] = "done"]
  /\ UNCHANGED <<mux, mainVars, clnVars, connVars, hmsg>>

\* send to a connection that was reset raises SIGPIPE, which nothing handles.
HandlerSigpipe(c) ==
  /\ hpc[c] = "send" /\ conn[c] = "rst"
  /\ Shutdown
  /\ UNCHANGED rdl

\* The client's kernel answers data for a closed socket.
ResetArrives(c) ==
  /\ conn[c] = "late"
  /\ conn' = [conn EXCEPT ![c] = "rst"]
  /\ UNCHANGED <<mux, mainVars, clnVars, toSrv, toCln, hndlVars>>

-----------------------------------------------------------------------------
(* Clients *)

SrvClosed(c) == ~up \/ hpc[c] = "done"

NextMsg(c, text) ==
  [par |-> IF out[c] = None THEN 0 ELSE 1 - out[c].par, text |-> text]

\* connect succeeds as soon as the connection is queued for accept.
TcpConnect(c) ==
  /\ cpc[c] = "out" /\ mux # "recvfrom"
  /\ \/ /\ up /\ Len(backlog) < Backlog
        /\ backlog' = Append(backlog, c)
        /\ cpc' = [cpc EXCEPT ![c] = "idle"]
        /\ Notify("tcp")
     \/ /\ ~up
        /\ cpc' = [cpc EXCEPT ![c] = "gone"]
        /\ UNCHANGED <<rdl, backlog>>
  /\ UNCHANGED <<mux, up, udpbuf, out, got, connVars, hndlVars>>

\* send: an empty message is no bytes.  A client that sends "exit" leaves.  A
\* send to a connection the server has closed may succeed or kill the client.
TcpSend(c, text) ==
  /\ cpc[c] = "idle"
  /\ out' = [out EXCEPT ![c] = NextMsg(c, text)]
  /\ toSrv' = IF SrvClosed(c) \/ text = "" THEN toSrv
              ELSE [toSrv EXCEPT ![c] = Append(@, out'[c])]
  /\ \/ text # "exit" /\ cpc' = [cpc EXCEPT ![c] = "wait"]
     \/ /\ text = "exit" \/ SrvClosed(c)
        /\ cpc' = [cpc EXCEPT ![c] = "gone"]
  /\ conn' = IF cpc'[c] = "gone" THEN [conn EXCEPT ![c] = "fin"] ELSE conn
  /\ UNCHANGED <<mux, mainVars, got, toCln, hndlVars>>

TcpRecv(c) ==
  /\ cpc[c] = "wait" /\ toCln[c] # <<>>
  /\ got' = [got EXCEPT ![c] = Recvd(toCln[c])]
  /\ toCln' = [toCln EXCEPT ![c] = <<>>]
  /\ cpc' = [cpc EXCEPT ![c] = "idle"]
  /\ UNCHANGED <<mux, mainVars, out, toSrv, conn, hndlVars>>

\* The server has closed: recv returns 0, an empty message for the client, or
\* -1, which ends the client.
TcpRecvEof(c) ==
  /\ cpc[c] = "wait" /\ toCln[c] = <<>> /\ SrvClosed(c)
  /\ got' = [got EXCEPT ![c] = Eof]
  /\ \E to \in {"idle", "gone"} : cpc' = [cpc EXCEPT ![c] = to]
  /\ UNCHANGED <<mux, mainVars, out, connVars, hndlVars>>

\* fgets fails or the process is killed.  Closing with unread data aborts the
\* connection.
TcpDie(c) ==
  /\ MayDie /\ cpc[c] \in {"idle", "wait"}
  /\ cpc' = [cpc EXCEPT ![c] = "gone"]
  /\ conn' = [conn EXCEPT ![c] = IF toCln[c] # <<>> THEN "abort" ELSE "fin"]
  /\ toCln' = [toCln EXCEPT ![c] = <<>>]
  /\ UNCHANGED <<mux, mainVars, out, got, toSrv, hndlVars>>

\* Another client process starts in place of one that is gone.
NewProcess(c) ==
  /\ up /\ cpc[c] = "gone" /\ hpc[c] \in {"done", "lost"}
  /\ cpc' = [cpc EXCEPT ![c] = "out"]
  /\ out' = [out EXCEPT ![c] = None]
  /\ got' = [got EXCEPT ![c] = None]
  /\ toSrv' = [toSrv EXCEPT ![c] = <<>>]
  /\ toCln' = [toCln EXCEPT ![c] = <<>>]
  /\ conn' = [conn EXCEPT ![c] = "open"]
  /\ hpc' = [hpc EXCEPT ![c] = "none"]
  /\ hmsg' = [hmsg EXCEPT ![c] = None]
  /\ UNCHANGED <<mux, mainVars>>

\* sendto: the datagram is lost when the server is down or its buffer is full.
UdpSend(c, text) ==
  /\ cpc[c] = "idle"
  /\ out' = [out EXCEPT ![c] = NextMsg(c, text)]
  /\ cpc' = [cpc EXCEPT ![c] = IF text = "exit" THEN "gone" ELSE "wait"]
  /\ IF up /\ mux # "accept" /\ Len(udpbuf) < SockCap
     THEN udpbuf' = Append(udpbuf, [cln |-> c, msg |-> out'[c]]) /\ Notify("udp")
     ELSE UNCHANGED <<udpbuf, rdl>>
  /\ UNCHANGED <<mux, up, backlog, got, connVars, hndlVars>>

UdpRecv(c) ==
  /\ cpc[c] = "wait" /\ toCln[c] # <<>>
  /\ got' = [got EXCEPT ![c] = Head(toCln[c])]
  /\ toCln' = [toCln EXCEPT ![c] = Tail(@)]
  /\ cpc' = [cpc EXCEPT ![c] = "idle"]
  /\ UNCHANGED <<mux, mainVars, out, toSrv, conn, hndlVars>>

UdpDie(c) ==
  /\ MayDie /\ cpc[c] \in {"idle", "wait"}
  /\ cpc' = [cpc EXCEPT ![c] = "gone"]
  /\ toCln' = [toCln EXCEPT ![c] = <<>>]
  /\ UNCHANGED <<mux, mainVars, out, got, toSrv, conn, hndlVars>>

-----------------------------------------------------------------------------
Main == EpollLoop \/ PollLoop \/ SelectLoop \/ AcceptLoop \/ RecvfromLoop

Handler(c) == HandlerRecv(c) \/ HandlerRecvEof(c) \/ HandlerSend(c)

Next ==
  \/ Main \/ MainFails
  \/ \E c \in Tcps :
       \/ Handler(c) \/ HandlerRecvFails(c) \/ HandlerSendFails(c)
       \/ HandlerSigpipe(c) \/ ResetArrives(c)
       \/ TcpConnect(c) \/ (\E text \in TcpTexts : TcpSend(c, text))
       \/ TcpRecv(c) \/ TcpRecvEof(c) \/ TcpDie(c) \/ NewProcess(c)
  \/ \E c \in Udps :
       (\E text \in UdpTexts : UdpSend(c, text)) \/ UdpRecv(c) \/ UdpDie(c)

Spec == Init /\ [][Next]_vars

\* Threads are scheduled, a blocking call returns once it can.
Fairness ==
  /\ WF_vars(Main)
  /\ \A c \in Tcps : WF_vars(Handler(c)) /\ WF_vars(TcpRecv(c) \/ TcpRecvEof(c))
  /\ \A c \in Udps : WF_vars(UdpRecv(c))

FairSpec == Spec /\ Fairness

-----------------------------------------------------------------------------
(* Properties *)

\* A client that has an answer has the message it sent last, whole and alone,
\* although recv keeps no boundaries; a TCP client whose server has closed may
\* have read the end of the stream instead (server_core.c 10-44, tcp_client.c
\* 49-76, udp_client.c 43-70).
EchoMatches ==
  \A c \in Clients :
    cpc[c] = "idle" /\ out[c] # None =>
      got[c] = out[c] \/ (c \in Tcps /\ got[c] = Eof /\ SrvClosed(c))

\* While the server runs, a datagram client is answered however many
\* connections keep arriving, when the server waits with epoll or has no other
\* socket (tcp_udp_epoll_server/src/server.c 129-204).
UdpAnswered ==
  \A c \in Udps :
    mux \in {"epoll", "recvfrom"} /\ cpc[c] = "wait" ~> cpc[c] # "wait" \/ ~up

\* A TCP client that has sent something never waits forever: it is answered or
\* learns that the server is gone, unless the thread for its connection could not
\* be created, which the server ignores.  An empty line sends nothing, and its
\* client waits for an echo that nobody owes it (server_core.c 10-44, tcp_client.c
\* 49-76, tcp_udp_epoll_server/src/server.c 144-162).
TcpAnswered ==
  \A c \in Tcps :
    cpc[c] = "wait" /\ out[c].text # "" ~> cpc[c] # "wait" \/ hpc[c] = "lost"

\* The thread of a client that leaves with "exit" ends, whether or not it was
\* running yet when the client left, if it could be created (server_core.c 25-32).
HandlerEnds ==
  \A c \in Tcps :
    cpc[c] = "gone" /\ out[c] # None /\ out[c].text = "exit" ~> hpc[c] \in {"done", "lost"}

\* The server stops only when a datagram asks it to or a call of its main
\* thread fails: a failing recv or send of a handler ends that "client message
\* handler thread" only (server_core.c 14-21, 35-42).
OnlyMainStops ==
  [][up /\ ~up' => MayFail \/ (udpbuf # <<>> /\ Head(udpbuf).msg.text = "exit")]_vars
=============================================================================
