-------------------------- MODULE EchoServersProofs --------------------------
(***************************************************************************)
(* Proofs about the echo servers, for any number of clients, any messages  *)
(* and each way of waiting: a client that has an answer has the message it *)
(* sent last, although a stream keeps no boundaries between messages.      *)
(***************************************************************************)
EXTENDS EchoServers, TLAPS

Datagram == [cln : Udps, msg : Msg]
Held == Msg \cup {None, Eof, Merged}

TypeOK ==
  /\ up \in BOOLEAN
  /\ backlog \in Seq(Tcps)
  /\ udpbuf \in Seq(Datagram)
  /\ cpc \in [Clients -> {"out", "idle", "wait", "gone"}]
  /\ out \in [Clients -> Msg \cup {None}]
  /\ got \in [Clients -> Held]
  /\ toSrv \in [Tcps -> Seq(Msg)]
  /\ toCln \in [Clients -> Seq(Held)]
  /\ conn \in [Tcps -> {"open", "fin", "late", "rst", "abort"}]
  /\ hpc \in [Tcps -> {"none", "recv", "send", "done", "lost"}]
  /\ hmsg \in [Tcps -> Held]

\* A connection waits for accept once, and has no thread before.
Waiting ==
  /\ \A i, j \in 1..Len(backlog) : backlog[i] = backlog[j] => i = j
  /\ \A i \in 1..Len(backlog) : hpc[backlog[i]] = "none" /\ cpc[backlog[i]] # "out"

\* A server that has ended has no threads, and what it had not accepted is gone.
Down == ~up => backlog = <<>> /\ \A c \in Tcps : hpc[c] = "done"

\* Where the bytes of a connection are: nowhere unless the client waits for the
\* echo, and then in one of the two streams or with the thread, alone.
TcpQuiet(c) == toSrv[c] = <<>> /\ toCln[c] = <<>> /\ hpc[c] # "send" /\ conn[c] = "open"

TcpBusy(c) ==
  /\ conn[c] = "open" /\ out[c] # None
  /\ \/ TcpQuiet(c)
     \/ toSrv[c] = <<out[c]>> /\ toCln[c] = <<>> /\ hpc[c] \in {"none", "recv", "lost"}
     \/ toSrv[c] = <<>> /\ toCln[c] = <<>> /\ hpc[c] = "send" /\ hmsg[c] = out[c]
     \/ toSrv[c] = <<>> /\ toCln[c] = <<out[c]>> /\ hpc[c] # "send"

Stream ==
  \A c \in Tcps :
    /\ cpc[c] = "out" => TcpQuiet(c) /\ out[c] = None /\ (up => hpc[c] = "none")
    /\ cpc[c] = "idle" => TcpQuiet(c)
    /\ cpc[c] = "wait" => TcpBusy(c)

\* A datagram client has one datagram on its way at most, the one it waits for.
Asked(c) == \E i \in 1..Len(udpbuf) : udpbuf[i].cln = c

Datagrams ==
  /\ \A i, j \in 1..Len(udpbuf) : udpbuf[i].cln = udpbuf[j].cln => i = j
  /\ \A c \in Udps :
       /\ cpc[c] # "out"
       /\ cpc[c] = "idle" => ~Asked(c) /\ toCln[c] = <<>>
       /\ cpc[c] = "wait" =>
            /\ out[c] # None
            /\ \A i \in 1..Len(udpbuf) : udpbuf[i].cln = c => udpbuf[i].msg = out[c]
            /\ toCln[c] = <<>> \/ (toCln[c] = <<out[c]>> /\ ~Asked(c))

IInv == TypeOK /\ Waiting /\ Down /\ Stream /\ Datagrams /\ EchoMatches

-----------------------------------------------------------------------------
(* Streams and queues *)

\* A stream of one message is read as that message.
LEMMA Single ==
  ASSUME NEW S, NEW m \in S
  PROVE  /\ Append(<<>>, m) = <<m>> /\ <<m>> # <<>> /\ Head(<<m>>) = m
         /\ Tail(<<m>>) = <<>> /\ Recvd(<<m>>) = m /\ <<>> \in Seq(S)
<1>1. Len(<<m>>) = 1 /\ Head(<<m>>) = m /\ Tail(<<m>>) = <<>> /\ Append(<<>>, m) = <<m>>
  OBVIOUS
<1>2. <<m>> # <<>> /\ <<>> \in Seq(S)
  OBVIOUS
<1>3. QED  BY <1>1, <1>2 DEF Recvd

\* What recv returns has the type of a held message.
LEMMA RecvdType ==
  ASSUME NEW q \in Seq(Held), q # <<>>
  PROVE  Recvd(q) \in Held
<1>1. Head(q) \in Held
  OBVIOUS
<1>2. QED  BY <1>1 DEF Recvd, Held

\* The first element of a queue is in its set, and so is what follows it.
LEMMA TailFacts ==
  ASSUME NEW S, NEW q \in Seq(S), q # <<>>
  PROVE  /\ Len(q) \in Nat /\ 1 \in 1..Len(q) /\ Head(q) = q[1] /\ Head(q) \in S
         /\ Tail(q) \in Seq(S) /\ Len(Tail(q)) = Len(q) - 1
         /\ \A i \in 1..Len(Tail(q)) : Tail(q)[i] = q[i + 1] /\ i + 1 \in 1..Len(q)
OBVIOUS

\* The end of a queue after something was appended to it.
LEMMA AppendFacts ==
  ASSUME NEW S, NEW q \in Seq(S), NEW m \in S
  PROVE  /\ Len(q) \in Nat /\ Append(q, m) \in Seq(S) /\ Len(Append(q, m)) = Len(q) + 1
         /\ \A i \in 1..Len(q) : Append(q, m)[i] = q[i]
         /\ Append(q, m)[Len(q) + 1] = m
OBVIOUS

\* A client's next message is a message.
LEMMA NextMsgType ==
  ASSUME TypeOK, NEW c \in Clients, NEW text \in Texts
  PROVE  NextMsg(c, text) \in Msg
<1>1. CASE out[c] = None
  BY <1>1 DEF NextMsg, Msg
<1>2. CASE out[c] # None
  <2>1. out[c] \in Msg
    BY <1>2 DEF TypeOK
  <2>2. 1 - out[c].par \in {0, 1}
    BY <2>1 DEF Msg
  <2>3. QED  BY <1>2, <2>2 DEF NextMsg, Msg
<1>3. QED  BY <1>1, <1>2

-----------------------------------------------------------------------------
(* The inductive invariant *)

\* It holds when the server starts.
LEMMA InvInit == Init => IInv
<1> SUFFICES ASSUME Init PROVE IInv
  OBVIOUS
<1>0. /\ \A c \in Tcps : c \in Clients /\ c \notin Udps
      /\ \A c \in Udps : c \in Clients /\ c \notin Tcps
  BY ClientAssumption DEF Clients
<1>1. TypeOK
  <2>1. /\ up \in BOOLEAN /\ backlog \in Seq(Tcps) /\ udpbuf \in Seq(Datagram)
    BY DEF Init
  <2>2. /\ cpc \in [Clients -> {"out", "idle", "wait", "gone"}]
        /\ out \in [Clients -> Msg \cup {None}] /\ got \in [Clients -> Held]
        /\ hmsg \in [Tcps -> Held]
    BY DEF Init, Held
  <2>3. /\ toSrv \in [Tcps -> Seq(Msg)] /\ toCln \in [Clients -> Seq(Held)]
    BY DEF Init
  <2>4. /\ conn \in [Tcps -> {"open", "fin", "late", "rst", "abort"}]
        /\ hpc \in [Tcps -> {"none", "recv", "send", "done", "lost"}]
    BY DEF Init
  <2>5. QED  BY <2>1, <2>2, <2>3, <2>4 DEF TypeOK
<1>2. Waiting /\ Down
  BY DEF Init, Waiting, Down
<1>3. Stream
  BY <1>0 DEF Init, Stream, TcpQuiet
<1>4. Datagrams
  <2>1. udpbuf = <<>> /\ \A c \in Udps : cpc[c] = "idle" /\ toCln[c] = <<>>
    BY <1>0 DEF Init
  <2>2. QED  BY <2>1 DEF Datagrams, Asked
<1>5. EchoMatches
  BY DEF Init, EchoMatches
<1>6. QED  BY <1>1, <1>2, <1>3, <1>4, <1>5 DEF IInv

\* Steps of the main thread: accept, a datagram, the end of the process.
LEMMA MainStep ==
  ASSUME IInv,
         \/ Shutdown
         \/ backlog # <<>> /\ MainAccept
         \/ udpbuf # <<>> /\ MainUdp
  PROVE  IInv'
<1>T. TypeOK /\ Waiting /\ Down /\ Stream /\ Datagrams /\ EchoMatches
  BY DEF IInv
<1>0. /\ \A c \in Tcps : c \in Clients /\ c \notin Udps
      /\ \A c \in Udps : c \in Clients /\ c \notin Tcps
  BY ClientAssumption DEF Clients
<1>1. CASE Shutdown
  <2>1. TypeOK'
    <3>1. /\ <<>> \in Seq(Msg) /\ <<>> \in Seq(Tcps) /\ <<>> \in Seq(Datagram)
      OBVIOUS
    <3>2. toSrv' \in [Tcps -> Seq(Msg)] /\ backlog' \in Seq(Tcps) /\ udpbuf' \in Seq(Datagram)
      BY <1>1, <3>1 DEF Shutdown
    <3>3. up' \in BOOLEAN
      BY <1>1, Zenon DEF Shutdown
    <3>4. QED  BY <1>1, <1>T, <3>2, <3>3 DEF Shutdown, TypeOK, clnVars
  <2>2. Waiting' /\ Down'
    BY <1>1 DEF Shutdown, Waiting, Down
  <2>3. Stream'
    BY <1>1, <1>T DEF Shutdown, Stream, TcpQuiet, TcpBusy, clnVars
  <2>4. Datagrams'
    BY <1>1, <1>T, <1>0 DEF Shutdown, Datagrams, Asked, clnVars
  <2>5. EchoMatches'
    BY <1>1, <1>T DEF Shutdown, EchoMatches, SrvClosed, clnVars
  <2>6. QED  BY <2>1, <2>2, <2>3, <2>4, <2>5 DEF IInv
<1>2. CASE backlog # <<>> /\ MainAccept
  <2>1. /\ Len(backlog) \in Nat /\ 1 \in 1..Len(backlog) /\ Head(backlog) = backlog[1]
        /\ Head(backlog) \in Tcps /\ backlog' \in Seq(Tcps)
        /\ Len(backlog') = Len(backlog) - 1
        /\ \A i \in 1..Len(backlog') : backlog'[i] = backlog[i + 1] /\ i + 1 \in 1..Len(backlog)
    BY <1>2, <1>T, TailFacts DEF TypeOK, MainAccept
  <2>2. hpc[Head(backlog)] = "none"
    BY <1>T, <2>1 DEF Waiting
  <2>3. /\ \E at \in {"recv", "lost"} : hpc' = [hpc EXCEPT ![Head(backlog)] = at]
        /\ UNCHANGED <<up, udpbuf, cpc, out, got, toSrv, toCln, conn, hmsg>>
    BY <1>2 DEF MainAccept, clnVars, connVars
  <2>4. TypeOK'
    BY <1>T, <2>1, <2>3 DEF TypeOK
  <2>5. \A i \in 1..Len(backlog') : backlog'[i] # Head(backlog) /\ backlog'[i] \in Tcps
    <3>1. \A i \in 1..Len(backlog') : i + 1 # 1
      BY <2>1
    <3>2. QED  BY <1>T, <2>1, <3>1 DEF Waiting
  <2>6. Waiting'
    <3>1. \A i, j \in 1..Len(backlog') : backlog'[i] = backlog'[j] => i = j
      BY <1>T, <2>1 DEF Waiting
    <3>2. \A i \in 1..Len(backlog') : hpc'[backlog'[i]] = "none" /\ cpc'[backlog'[i]] # "out"
      <4>1. \A c \in Tcps : c # Head(backlog) => hpc'[c] = hpc[c]
        BY <1>T, <2>3 DEF TypeOK
      <4>2. \A i \in 1..Len(backlog) : hpc[backlog[i]] = "none" /\ cpc[backlog[i]] # "out"
        BY <1>T DEF Waiting
      <4>3. cpc' = cpc
        BY <2>3
      <4>4. QED  BY <2>1, <2>5, <4>1, <4>2, <4>3
    <3>3. QED  BY <3>1, <3>2 DEF Waiting
  <2>7. Down'
    BY <1>2, <1>T, <2>3 DEF Down
  <2>8. cpc[Head(backlog)] # "out"
    BY <1>T, <2>1 DEF Waiting
  <2>9. Stream'
    BY <1>T, <2>1, <2>2, <2>3, <2>8 DEF Stream, TcpQuiet, TcpBusy, TypeOK
  <2>10. Datagrams'
    BY <1>T, <2>3 DEF Datagrams, Asked
  <2>11. EchoMatches'
    BY <1>T, <1>0, <2>2, <2>3 DEF EchoMatches, SrvClosed, TypeOK
  <2>12. QED  BY <2>4, <2>6, <2>7, <2>9, <2>10, <2>11 DEF IInv
<1>3. CASE udpbuf # <<>> /\ MainUdp
  <2> DEFINE h == Head(udpbuf)
  <2>1. /\ Len(udpbuf) \in Nat /\ 1 \in 1..Len(udpbuf) /\ h = udpbuf[1]
        /\ h \in Datagram /\ udpbuf' \in Seq(Datagram)
        /\ Len(udpbuf') = Len(udpbuf) - 1
        /\ \A i \in 1..Len(udpbuf') : udpbuf'[i] = udpbuf[i + 1] /\ i + 1 \in 1..Len(udpbuf)
    BY <1>3, <1>T, TailFacts DEF TypeOK, MainUdp
  <2>2. PICK d \in Udps, m \in Msg : h.cln = d /\ h.msg = m
    BY <2>1 DEF Datagram
  <2>3. /\ toCln' = IF cpc[d] = "gone" THEN toCln
                    ELSE [toCln EXCEPT ![d] = Append(@, m)]
        /\ UNCHANGED <<up, backlog, cpc, out, got, toSrv, conn, hpc, hmsg>>
    BY <1>3, <2>2 DEF MainUdp, clnVars, hndlVars
  <2>4. d \in Clients /\ toCln[d] \in Seq(Held) /\ m \in Held
    BY <1>0, <1>T, <2>2 DEF TypeOK, Held
  <2>5. TypeOK'
    <3>1. Append(toCln[d], m) \in Seq(Held)
      BY <2>4
    <3>2. toCln' \in [Clients -> Seq(Held)]
      BY <1>T, <2>3, <2>4, <3>1 DEF TypeOK
    <3>3. QED  BY <1>T, <2>1, <2>3, <3>2 DEF TypeOK
  <2>6. Waiting' /\ Down'
    BY <1>T, <2>3 DEF Waiting, Down
  <2>7. \A c \in Clients : c # d => toCln'[c] = toCln[c]
    BY <1>T, <2>3, <2>4 DEF TypeOK
  <2>8. Stream'
    BY <1>T, <1>0, <2>2, <2>3, <2>7 DEF Stream, TcpQuiet, TcpBusy
  <2>9. /\ \A i, j \in 1..Len(udpbuf') : udpbuf'[i].cln = udpbuf'[j].cln => i = j
        /\ \A c \in Udps : Asked(c)' => Asked(c)
        /\ ~Asked(d)'
    <3>1. \A i, j \in 1..Len(udpbuf') : udpbuf'[i].cln = udpbuf'[j].cln => i = j
      BY <1>T, <2>1 DEF Datagrams
    <3>2. \A c \in Udps : Asked(c)' => Asked(c)
      BY <2>1 DEF Asked
    <3>3. \A i \in 1..Len(udpbuf') : i + 1 # 1 /\ udpbuf'[i].cln # udpbuf[1].cln
      BY <1>T, <2>1 DEF Datagrams
    <3>4. QED  BY <2>1, <2>2, <3>1, <3>2, <3>3 DEF Asked
  <2>10. Asked(d)
    BY <2>1, <2>2 DEF Asked
  <2>11. ASSUME NEW c \in Udps
         PROVE  /\ cpc'[c] # "out"
                /\ cpc'[c] = "idle" => ~Asked(c)' /\ toCln'[c] = <<>>
                /\ cpc'[c] = "wait" =>
                     /\ out'[c] # None
                     /\ \A i \in 1..Len(udpbuf') : udpbuf'[i].cln = c => udpbuf'[i].msg = out'[c]
                     /\ toCln'[c] = <<>> \/ (toCln'[c] = <<out'[c]>> /\ ~Asked(c)')
    <3>1. CASE c # d
      <4>1. toCln'[c] = toCln[c]
        BY <1>0, <2>7, <3>1
      <4>2. \A i \in 1..Len(udpbuf') : udpbuf'[i].cln = c /\ cpc[c] = "wait" => udpbuf'[i].msg = out[c]
        BY <1>T, <2>1 DEF Datagrams
      <4>3. QED  BY <1>T, <2>3, <2>9, <4>1, <4>2 DEF Datagrams
    <3>2. CASE c = d
      <4>1. cpc[d] # "idle" /\ cpc[d] # "out"
        BY <1>T, <2>10 DEF Datagrams
      <4>2. CASE cpc[d] = "wait"
        <5>1. m = out[d] /\ toCln[d] = <<>>
          BY <1>T, <2>1, <2>2, <2>10, <4>2 DEF Datagrams
        <5>2. toCln'[d] = <<m>>
          BY <1>T, <2>3, <2>4, <4>2, <5>1, Single DEF TypeOK
        <5>3. \A i \in 1..Len(udpbuf') : udpbuf'[i].cln # d
          BY <2>9 DEF Asked
        <5>4. QED  BY <2>3, <2>9, <3>2, <4>2, <5>1, <5>2, <5>3, TokenAssumption
      <4>3. QED  BY <2>3, <3>2, <4>1, <4>2
    <3>3. QED  BY <3>1, <3>2
  <2>12. Datagrams'
    BY <2>9, <2>11 DEF Datagrams
  <2>13. EchoMatches'
    BY <1>T, <2>3 DEF EchoMatches, SrvClosed
  <2>14. QED  BY <2>5, <2>6, <2>8, <2>12, <2>13 DEF IInv
<1>4. QED  BY <1>1, <1>2, <1>3

\* What a step of one connection's thread or client has to show: the rest of the
\* server and the other clients stay.
OthersStay(c) ==
  /\ UNCHANGED <<up, backlog, udpbuf>>
  /\ \A d \in Clients : d # c => /\ cpc'[d] = cpc[d] /\ out'[d] = out[d]
                                 /\ got'[d] = got[d] /\ toCln'[d] = toCln[d]
  /\ \A d \in Tcps : d # c => /\ toSrv'[d] = toSrv[d] /\ conn'[d] = conn[d]
                              /\ hpc'[d] = hpc[d] /\ hmsg'[d] = hmsg[d]

\* What is left to show then is about c alone.
LEMMA OneConnection ==
  ASSUME IInv, TypeOK', NEW c \in Tcps, OthersStay(c),
         hpc[c] = "none" => hpc'[c] = "none" /\ (cpc'[c] = "out" => cpc[c] = "out"),
         hpc[c] # "none" /\ ~up => hpc'[c] = "done",
         cpc'[c] = "out" => (TcpQuiet(c) /\ out[c] = None /\ (up => hpc[c] = "none"))',
         cpc'[c] = "idle" => TcpQuiet(c)',
         cpc'[c] = "wait" => TcpBusy(c)',
         cpc'[c] = "idle" /\ out'[c] # None =>
           got'[c] = out'[c] \/ (got'[c] = Eof /\ SrvClosed(c)')
  PROVE  IInv'
<1>T. TypeOK /\ Waiting /\ Down /\ Stream /\ Datagrams /\ EchoMatches
  BY DEF IInv
<1>0. /\ \A d \in Tcps : d \in Clients /\ d \notin Udps
      /\ \A d \in Udps : d \in Clients /\ d \notin Tcps
  BY ClientAssumption DEF Clients
<1>1. Waiting'
  <2>1. \A i \in 1..Len(backlog) : backlog[i] \in Tcps /\ backlog[i] \in Clients
    BY <1>T, <1>0 DEF TypeOK
  <2>2. QED  BY <1>T, <2>1 DEF Waiting, OthersStay
<1>2. Down'
  BY <1>T DEF Down, OthersStay
<1>3. Stream'
  <2>1. ASSUME NEW d \in Tcps, d # c
        PROVE  /\ cpc'[d] = "out" => (TcpQuiet(d) /\ out[d] = None /\ (up => hpc[d] = "none"))'
               /\ cpc'[d] = "idle" => TcpQuiet(d)'
               /\ cpc'[d] = "wait" => TcpBusy(d)'
    <3>1. d \in Clients
      BY <1>0
    <3>2. QED  BY <1>T, <2>1, <3>1 DEF Stream, OthersStay, TcpQuiet, TcpBusy
  <2>2. QED  BY <2>1 DEF Stream
<1>4. Datagrams'
  BY <1>T, <1>0 DEF Datagrams, Asked, OthersStay
<1>5. EchoMatches'
  <2>1. ASSUME NEW d \in Clients, d # c, cpc'[d] = "idle", out'[d] # None
        PROVE  got'[d] = out'[d] \/ (d \in Tcps /\ got'[d] = Eof /\ SrvClosed(d)')
    BY <1>T, <2>1 DEF EchoMatches, OthersStay, SrvClosed
  <2>2. QED  BY <2>1 DEF EchoMatches
<1>6. QED  BY <1>1, <1>2, <1>3, <1>4, <1>5 DEF IInv

\* Steps of a connection's thread.
LEMMA HandlerStep ==
  ASSUME IInv, NEW c \in Tcps,
         \/ Handler(c) \/ HandlerRecvFails(c) \/ HandlerSendFails(c) \/ ResetArrives(c)
  PROVE  IInv'
<1>T. TypeOK /\ Waiting /\ Down /\ Stream /\ Datagrams /\ EchoMatches
  BY DEF IInv
<1>0. c \in Clients /\ c \notin Udps
  BY ClientAssumption DEF Clients
<1>a. /\ cpc[c] = "out" => TcpQuiet(c) /\ out[c] = None /\ (up => hpc[c] = "none")
      /\ cpc[c] = "idle" => TcpQuiet(c)
      /\ cpc[c] = "wait" => TcpBusy(c)
      /\ cpc[c] = "idle" /\ out[c] # None => got[c] = out[c] \/ (got[c] = Eof /\ SrvClosed(c))
      /\ ~up => hpc[c] = "done"
  BY <1>T, <1>0 DEF Stream, EchoMatches, Down
<1>1. CASE HandlerRecv(c)
  <2>1. /\ hpc[c] = "recv" /\ toSrv[c] # <<>>
        /\ hmsg' = [hmsg EXCEPT ![c] = Recvd(toSrv[c])]
        /\ toSrv' = [toSrv EXCEPT ![c] = <<>>]
        /\ \E pl \in {"done", "send"} : hpc' = [hpc EXCEPT ![c] = pl]
        /\ UNCHANGED <<up, backlog, udpbuf, cpc, out, got, toCln, conn>>
    BY <1>1 DEF HandlerRecv, mainVars, clnVars
  <2>2. Recvd(toSrv[c]) \in Held
    <3>1. Head(toSrv[c]) \in Msg
      BY <1>T, <2>1, TailFacts DEF TypeOK
    <3>2. QED  BY <3>1 DEF Recvd, Held
  <2>3. TypeOK' /\ OthersStay(c)
    <3>1. toSrv' \in [Tcps -> Seq(Msg)]
      BY <1>T, <2>1 DEF TypeOK
    <3>2. hmsg' \in [Tcps -> Held] /\ hpc' \in [Tcps -> {"none", "recv", "send", "done", "lost"}]
      BY <1>T, <2>1, <2>2 DEF TypeOK
    <3>3. TypeOK'
      BY <1>T, <2>1, <3>1, <3>2 DEF TypeOK
    <3>4. OthersStay(c)
      BY <1>T, <2>1 DEF TypeOK, OthersStay
    <3>5. QED  BY <3>3, <3>4
  <2>4. /\ hmsg'[c] = Recvd(toSrv[c]) /\ toSrv'[c] = <<>> /\ hpc'[c] \in {"done", "send"}
    BY <1>T, <2>1 DEF TypeOK
  <2>5. cpc[c] # "out" /\ cpc[c] # "idle" /\ up
    BY <1>a, <2>1 DEF TcpQuiet
  <2>6. cpc'[c] = "wait" => TcpBusy(c)'
    <3>1. ASSUME cpc[c] = "wait" PROVE TcpBusy(c)'
      <4>1. TcpBusy(c)
        BY <1>a, <3>1
      <4>2. toSrv[c] = <<out[c]>> /\ toCln[c] = <<>> /\ conn[c] = "open" /\ out[c] # None
        BY <2>1, <4>1 DEF TcpBusy, TcpQuiet
      <4>3. hmsg'[c] = out[c]
        BY <2>4, <4>2, Single
      <4>4. QED  BY <2>1, <2>4, <4>2, <4>3 DEF TcpBusy, TcpQuiet
    <3>2. QED  BY <2>1, <3>1
  <2>7. QED  BY <2>1, <2>3, <2>4, <2>5, <2>6, OneConnection
<1>2. CASE HandlerRecvEof(c)
  <2>1. /\ hpc[c] = "recv" /\ conn[c] \in {"fin", "late", "rst"}
        /\ hmsg' = [hmsg EXCEPT ![c] = Eof]
        /\ hpc' = [hpc EXCEPT ![c] = "send"]
        /\ UNCHANGED <<up, backlog, udpbuf, cpc, out, got, toSrv, toCln, conn>>
    BY <1>2 DEF HandlerRecvEof, mainVars, clnVars, connVars
  <2>2. TypeOK' /\ OthersStay(c)
    BY <1>T, <2>1 DEF TypeOK, OthersStay, Held
  <2>3. cpc[c] = "gone" /\ up
    BY <1>a, <1>0, <1>T, <2>1 DEF TcpQuiet, TcpBusy, TypeOK
  <2>4. QED  BY <2>1, <2>2, <2>3, OneConnection
<1>3. CASE HandlerSend(c)
  <2>1. /\ hpc[c] = "send" /\ hpc' = [hpc EXCEPT ![c] = "recv"]
        /\ toCln' = IF conn[c] = "open" /\ hmsg[c] # Eof
                    THEN [toCln EXCEPT ![c] = Append(@, hmsg[c])] ELSE toCln
        /\ conn' = IF conn[c] = "fin" /\ hmsg[c] # Eof
                   THEN [conn EXCEPT ![c] = "late"] ELSE conn
        /\ UNCHANGED <<up, backlog, udpbuf, cpc, out, got, toSrv, hmsg>>
    BY <1>3 DEF HandlerSend, mainVars, clnVars
  <2>2. TypeOK' /\ OthersStay(c)
    <3>1. Append(toCln[c], hmsg[c]) \in Seq(Held)
      BY <1>T, <1>0 DEF TypeOK
    <3>2. toCln' \in [Clients -> Seq(Held)]
      BY <1>T, <1>0, <2>1, <3>1 DEF TypeOK
    <3>3. TypeOK'
      BY <1>T, <2>1, <3>2 DEF TypeOK
    <3>4. OthersStay(c)
      BY <1>T, <2>1 DEF TypeOK, OthersStay
    <3>5. QED  BY <3>3, <3>4
  <2>3. cpc[c] # "out" /\ cpc[c] # "idle" /\ up
    BY <1>a, <2>1 DEF TcpQuiet
  <2>4. ASSUME cpc[c] = "wait" PROVE TcpBusy(c)'
    <3>1. /\ conn[c] = "open" /\ toSrv[c] = <<>> /\ toCln[c] = <<>> /\ hmsg[c] = out[c]
          /\ out[c] # None
      BY <1>a, <2>1, <2>4 DEF TcpBusy, TcpQuiet
    <3>2. out[c] \in Msg /\ hmsg[c] # Eof
      BY <1>T, <1>0, <3>1, TokenAssumption DEF TypeOK
    <3>3. toCln'[c] = Append(<<>>, out[c]) /\ hpc'[c] = "recv" /\ conn'[c] = "open"
      BY <1>T, <1>0, <2>1, <3>1, <3>2 DEF TypeOK
    <3>4. toCln'[c] = <<out[c]>>
      BY <3>2, <3>3, Single
    <3>5. QED  BY <2>1, <3>1, <3>3, <3>4 DEF TcpBusy, TcpQuiet
  <2>5. QED  BY <2>1, <2>2, <2>3, <2>4, OneConnection
<1>4. CASE HandlerRecvFails(c) \/ HandlerSendFails(c)
  <2>1. /\ hpc[c] \in {"recv", "send"} /\ hpc' = [hpc EXCEPT ![c] = "done"]
        /\ \/ hpc[c] = "send" /\ toSrv' = toSrv
           \/ hpc[c] = "recv" /\ toSrv' = [toSrv EXCEPT ![c] = <<>>]
        /\ UNCHANGED <<up, backlog, udpbuf, cpc, out, got, toCln, conn, hmsg>>
    BY <1>4 DEF HandlerRecvFails, HandlerSendFails, mainVars, clnVars, connVars
  <2>2. TypeOK' /\ OthersStay(c)
    <3>1. toSrv' \in [Tcps -> Seq(Msg)]
      <4>1. toSrv \in [Tcps -> Seq(Msg)] /\ <<>> \in Seq(Msg)
        BY <1>T DEF TypeOK
      <4>2. QED  BY <2>1, <4>1
    <3>2. TypeOK'
      BY <1>T, <2>1, <3>1 DEF TypeOK
    <3>3. OthersStay(c)
      BY <1>T, <2>1 DEF TypeOK, OthersStay
    <3>4. QED  BY <3>2, <3>3
  <2>3. /\ hpc'[c] = "done" /\ cpc[c] # "out"
        /\ (hpc[c] = "send" /\ toSrv'[c] = toSrv[c]) \/ (hpc[c] = "recv" /\ toSrv'[c] = <<>>)
    BY <1>T, <1>a, <2>1 DEF TypeOK
  <2>4. cpc[c] = "idle" => TcpQuiet(c)'
    BY <1>a, <2>1, <2>3 DEF TcpQuiet
  <2>5. cpc[c] = "wait" => TcpBusy(c)'
    BY <1>a, <2>1, <2>3 DEF TcpQuiet, TcpBusy
  <2>6. QED  BY <1>a, <2>1, <2>2, <2>3, <2>4, <2>5, OneConnection DEF SrvClosed
<1>5. CASE ResetArrives(c)
  <2>1. /\ conn[c] = "late" /\ conn' = [conn EXCEPT ![c] = "rst"]
        /\ UNCHANGED <<up, backlog, udpbuf, cpc, out, got, toSrv, toCln, hpc, hmsg>>
    BY <1>5 DEF ResetArrives, mainVars, clnVars, hndlVars
  <2>2. TypeOK' /\ OthersStay(c)
    BY <1>T, <2>1 DEF TypeOK, OthersStay
  <2>3. cpc[c] = "gone"
    BY <1>a, <1>0, <1>T, <2>1 DEF TcpQuiet, TcpBusy, TypeOK
  <2>4. QED  BY <1>a, <2>1, <2>2, <2>3, OneConnection
<1>6. QED  BY <1>1, <1>2, <1>3, <1>4, <1>5 DEF Handler

\* Steps of a TCP client.
LEMMA TcpStep ==
  ASSUME IInv, NEW c \in Tcps,
         \/ TcpConnect(c) \/ (\E text \in TcpTexts : TcpSend(c, text))
         \/ TcpRecv(c) \/ TcpRecvEof(c) \/ TcpDie(c) \/ NewProcess(c)
  PROVE  IInv'
<1>T. TypeOK /\ Waiting /\ Down /\ Stream /\ Datagrams /\ EchoMatches
  BY DEF IInv
<1>0. /\ c \in Clients /\ c \notin Udps
      /\ \A d \in Udps : d \in Clients /\ d # c
  BY ClientAssumption DEF Clients
<1>a. /\ cpc[c] = "out" => TcpQuiet(c) /\ out[c] = None /\ (up => hpc[c] = "none")
      /\ cpc[c] = "idle" => TcpQuiet(c)
      /\ cpc[c] = "wait" => TcpBusy(c)
      /\ cpc[c] = "idle" /\ out[c] # None => got[c] = out[c] \/ (got[c] = Eof /\ SrvClosed(c))
      /\ ~up => hpc[c] = "done"
  BY <1>T, <1>0 DEF Stream, EchoMatches, Down
<1>b. /\ out[c] \in Msg \cup {None} /\ toCln[c] \in Seq(Held) /\ toSrv[c] \in Seq(Msg)
      /\ <<>> \in Seq(Held) /\ <<>> \in Seq(Msg)
  BY <1>T, <1>0 DEF TypeOK
<1>1. CASE TcpConnect(c)
  <2>1. /\ cpc[c] = "out"
        /\ UNCHANGED <<up, udpbuf, out, got, toSrv, toCln, conn, hpc, hmsg>>
        /\ \/ up /\ backlog' = Append(backlog, c) /\ cpc' = [cpc EXCEPT ![c] = "idle"]
           \/ ~up /\ backlog' = backlog /\ cpc' = [cpc EXCEPT ![c] = "gone"]
    BY <1>1 DEF TcpConnect, connVars, hndlVars
  <2>2. CASE ~up /\ backlog' = backlog /\ cpc' = [cpc EXCEPT ![c] = "gone"]
    <3>1. TypeOK' /\ OthersStay(c)
      BY <1>T, <2>1, <2>2 DEF TypeOK, OthersStay
    <3>2. cpc'[c] = "gone"
      BY <1>T, <1>0, <2>2 DEF TypeOK
    <3>3. QED  BY <1>a, <2>1, <2>2, <3>1, <3>2, OneConnection
  <2>3. CASE up /\ backlog' = Append(backlog, c) /\ cpc' = [cpc EXCEPT ![c] = "idle"]
    <3>1. /\ Len(backlog) \in Nat /\ backlog' \in Seq(Tcps) /\ Len(backlog') = Len(backlog) + 1
          /\ \A i \in 1..Len(backlog) : backlog'[i] = backlog[i] /\ backlog[i] \in Tcps
          /\ backlog'[Len(backlog) + 1] = c
      BY <1>T, <2>3, AppendFacts DEF TypeOK
    <3>2. TypeOK'
      BY <1>T, <1>0, <2>1, <2>3, <3>1 DEF TypeOK
    <3>3. \A d \in Clients : cpc'[d] = IF d = c THEN "idle" ELSE cpc[d]
      BY <1>T, <1>0, <2>3 DEF TypeOK
    <3>4. \A i \in 1..Len(backlog) : backlog[i] # c /\ backlog[i] \in Clients
      BY <1>T, <2>1, <3>1 DEF Waiting, Clients
    <3>5. Waiting'
      <4>1. \A i \in 1..Len(backlog') : i \in 1..Len(backlog) \/ i = Len(backlog) + 1
        BY <3>1
      <4>2. hpc[c] = "none"
        BY <1>a, <2>1, <2>3
      <4>3. \A i \in 1..Len(backlog') : hpc'[backlog'[i]] = "none" /\ cpc'[backlog'[i]] # "out"
        BY <1>T, <1>0, <2>1, <3>1, <3>3, <3>4, <4>1, <4>2 DEF Waiting
      <4>4. \A i, j \in 1..Len(backlog') : backlog'[i] = backlog'[j] => i = j
        BY <1>T, <3>1, <3>4, <4>1 DEF Waiting
      <4>5. QED  BY <4>3, <4>4 DEF Waiting
    <3>6. Down'
      BY <2>1, <2>3 DEF Down
    <3>7. Stream'
      BY <1>T, <1>a, <2>1, <3>3 DEF Stream, TcpQuiet, TcpBusy, Clients
    <3>8. Datagrams'
      BY <1>T, <1>0, <2>1, <3>3 DEF Datagrams, Asked
    <3>9. EchoMatches'
      BY <1>T, <1>a, <2>1, <3>3 DEF EchoMatches, SrvClosed
    <3>10. QED  BY <3>2, <3>5, <3>6, <3>7, <3>8, <3>9 DEF IInv
  <2>4. QED  BY <2>1, <2>2, <2>3
<1>2. ASSUME NEW text \in TcpTexts, TcpSend(c, text) PROVE IInv'
  <2>1. PICK m \in Msg : m = NextMsg(c, text)
    BY <1>T, <1>0, NextMsgType DEF Texts
  <2>2. /\ cpc[c] = "idle" /\ out' = [out EXCEPT ![c] = m]
        /\ toSrv' = IF SrvClosed(c) \/ text = "" THEN toSrv
                    ELSE [toSrv EXCEPT ![c] = Append(@, m)]
        /\ \/ cpc' = [cpc EXCEPT ![c] = "wait"]
           \/ cpc' = [cpc EXCEPT ![c] = "gone"]
        /\ conn' = IF cpc'[c] = "gone" THEN [conn EXCEPT ![c] = "fin"] ELSE conn
        /\ UNCHANGED <<up, backlog, udpbuf, got, toCln, hpc, hmsg>>
    <3>1. out'[c] = m
      BY <1>2, <1>T, <1>0, <2>1 DEF TcpSend, TypeOK
    <3>2. cpc[c] = "idle" /\ out' = [out EXCEPT ![c] = m]
      BY <1>2, <2>1 DEF TcpSend
    <3>3. toSrv' = IF SrvClosed(c) \/ text = "" THEN toSrv
                   ELSE [toSrv EXCEPT ![c] = Append(@, m)]
      <4>1. toSrv' = IF SrvClosed(c) \/ text = "" THEN toSrv
                     ELSE [toSrv EXCEPT ![c] = Append(@, out'[c])]
        BY <1>2 DEF TcpSend
      <4>2. QED  BY <3>1, <4>1, Zenon
    <3>4. cpc' = [cpc EXCEPT ![c] = "wait"] \/ cpc' = [cpc EXCEPT ![c] = "gone"]
      BY <1>2 DEF TcpSend
    <3>5. /\ conn' = IF cpc'[c] = "gone" THEN [conn EXCEPT ![c] = "fin"] ELSE conn
          /\ UNCHANGED <<up, backlog, udpbuf, got, toCln, hpc, hmsg>>
      BY <1>2 DEF TcpSend, mainVars, hndlVars
    <3>6. QED  BY <3>2, <3>3, <3>4, <3>5
  <2>3. Append(toSrv[c], m) \in Seq(Msg)
    BY <1>b
  <2>4. TypeOK'
    <3>1. toSrv' \in [Tcps -> Seq(Msg)]
      BY <1>T, <2>2, <2>3 DEF TypeOK
    <3>2. QED  BY <1>T, <2>2, <3>1 DEF TypeOK
  <2>5. OthersStay(c)
    BY <1>T, <2>2 DEF TypeOK, OthersStay
  <2>6. /\ out'[c] = m /\ cpc'[c] \in {"wait", "gone"}
        /\ cpc'[c] = "wait" => conn'[c] = conn[c]
        /\ \/ toSrv'[c] = toSrv[c]
           \/ toSrv'[c] = Append(toSrv[c], m) /\ hpc[c] # "done"
    BY <1>T, <1>0, <2>2 DEF TypeOK, SrvClosed
  <2>7. TcpQuiet(c) /\ m # None
    BY <1>a, <2>1, <2>2, TokenAssumption
  <2>8. toSrv'[c] = <<>> \/ (toSrv'[c] = <<m>> /\ hpc[c] \in {"none", "recv", "lost"})
    <3>1. hpc[c] \in {"none", "recv", "done", "lost"}
      BY <1>T, <2>7 DEF TypeOK, TcpQuiet
    <3>2. QED  BY <2>6, <2>7, <3>1, Single DEF TcpQuiet
  <2>9. ASSUME cpc'[c] = "wait" PROVE TcpBusy(c)'
    BY <2>2, <2>6, <2>7, <2>8, <2>9 DEF TcpQuiet, TcpBusy
  <2>10. QED  BY <1>a, <2>2, <2>4, <2>5, <2>6, <2>9, OneConnection
<1>3. CASE TcpRecv(c)
  <2>1. /\ cpc[c] = "wait" /\ toCln[c] # <<>>
        /\ got' = [got EXCEPT ![c] = Recvd(toCln[c])]
        /\ toCln' = [toCln EXCEPT ![c] = <<>>]
        /\ cpc' = [cpc EXCEPT ![c] = "idle"]
        /\ UNCHANGED <<up, backlog, udpbuf, out, toSrv, conn, hpc, hmsg>>
    BY <1>3 DEF TcpRecv, mainVars, hndlVars
  <2>2. Recvd(toCln[c]) \in Held
    BY <1>b, <2>1, RecvdType
  <2>3. TypeOK'
    <3>1. toCln' \in [Clients -> Seq(Held)]
      BY <1>T, <1>b, <2>1 DEF TypeOK
    <3>2. QED  BY <1>T, <2>1, <2>2, <3>1 DEF TypeOK
  <2>4. OthersStay(c)
    BY <1>T, <2>1 DEF TypeOK, OthersStay
  <2>5. /\ toCln[c] = <<out[c]>> /\ toSrv[c] = <<>> /\ hpc[c] # "send" /\ conn[c] = "open"
        /\ out[c] \in Msg
    BY <1>a, <1>b, <2>1 DEF TcpBusy, TcpQuiet
  <2>6. /\ got'[c] = out[c] /\ toCln'[c] = <<>> /\ cpc'[c] = "idle"
    <3>1. Recvd(toCln[c]) = out[c]
      BY <2>5, Single
    <3>2. QED  BY <1>T, <1>0, <2>1, <3>1 DEF TypeOK
  <2>7. TcpQuiet(c)'
    BY <2>1, <2>5, <2>6 DEF TcpQuiet
  <2>8. QED  BY <1>a, <2>1, <2>3, <2>4, <2>6, <2>7, OneConnection
<1>4. CASE TcpRecvEof(c)
  <2>1. /\ cpc[c] = "wait" /\ toCln[c] = <<>> /\ SrvClosed(c)
        /\ got' = [got EXCEPT ![c] = Eof]
        /\ \E to \in {"idle", "gone"} : cpc' = [cpc EXCEPT ![c] = to]
        /\ UNCHANGED <<up, backlog, udpbuf, out, toSrv, toCln, conn, hpc, hmsg>>
    BY <1>4 DEF TcpRecvEof, mainVars, connVars, hndlVars
  <2>2. TypeOK' /\ OthersStay(c)
    <3>1. TypeOK'
      BY <1>T, <2>1 DEF TypeOK, Held
    <3>2. QED  BY <1>T, <2>1, <3>1 DEF TypeOK, OthersStay
  <2>3. got'[c] = Eof /\ cpc'[c] \in {"idle", "gone"} /\ hpc[c] = "done"
    BY <1>T, <1>0, <1>a, <2>1 DEF TypeOK, SrvClosed
  <2>4. TcpQuiet(c)' \/ cpc'[c] # "idle"
    BY <1>a, <2>1, <2>3 DEF TcpBusy, TcpQuiet
  <2>5. QED  BY <2>1, <2>2, <2>3, <2>4, OneConnection DEF SrvClosed
<1>5. CASE TcpDie(c)
  <2>1. /\ cpc[c] \in {"idle", "wait"} /\ cpc' = [cpc EXCEPT ![c] = "gone"]
        /\ conn' = [conn EXCEPT ![c] = IF toCln[c] # <<>> THEN "abort" ELSE "fin"]
        /\ toCln' = [toCln EXCEPT ![c] = <<>>]
        /\ UNCHANGED <<up, backlog, udpbuf, out, got, toSrv, hpc, hmsg>>
    BY <1>5 DEF TcpDie, mainVars, hndlVars
  <2>2. TypeOK'
    <3>1. toCln' \in [Clients -> Seq(Held)]
      BY <1>T, <1>b, <2>1 DEF TypeOK
    <3>2. QED  BY <1>T, <2>1, <3>1 DEF TypeOK
  <2>3. OthersStay(c) /\ cpc'[c] = "gone"
    BY <1>T, <1>0, <2>1 DEF TypeOK, OthersStay
  <2>4. QED  BY <1>a, <2>1, <2>2, <2>3, OneConnection
<1>6. CASE NewProcess(c)
  <2>1. /\ up /\ cpc[c] = "gone" /\ hpc[c] \in {"done", "lost"}
        /\ cpc' = [cpc EXCEPT ![c] = "out"] /\ out' = [out EXCEPT ![c] = None]
        /\ got' = [got EXCEPT ![c] = None] /\ toSrv' = [toSrv EXCEPT ![c] = <<>>]
        /\ toCln' = [toCln EXCEPT ![c] = <<>>] /\ conn' = [conn EXCEPT ![c] = "open"]
        /\ hpc' = [hpc EXCEPT ![c] = "none"] /\ hmsg' = [hmsg EXCEPT ![c] = None]
        /\ UNCHANGED <<up, backlog, udpbuf>>
    BY <1>6 DEF NewProcess, mainVars
  <2>2. TypeOK'
    <3>1. toCln' \in [Clients -> Seq(Held)] /\ toSrv' \in [Tcps -> Seq(Msg)]
      BY <1>T, <1>b, <2>1 DEF TypeOK
    <3>2. /\ out' \in [Clients -> Msg \cup {None}] /\ got' \in [Clients -> Held]
          /\ hmsg' \in [Tcps -> Held]
      BY <1>T, <2>1 DEF TypeOK, Held
    <3>3. QED  BY <1>T, <2>1, <3>1, <3>2 DEF TypeOK
  <2>3. OthersStay(c)
    BY <1>T, <2>1 DEF TypeOK, OthersStay
  <2>4. /\ cpc'[c] = "out" /\ out'[c] = None /\ hpc'[c] = "none"
        /\ TcpQuiet(c)'
    BY <1>T, <1>0, <2>1 DEF TypeOK, TcpQuiet
  <2>5. QED  BY <2>1, <2>2, <2>3, <2>4, OneConnection
<1>7. QED  BY <1>1, <1>2, <1>3, <1>4, <1>5, <1>6

\* Steps of a datagram client.
LEMMA UdpStep ==
  ASSUME IInv, NEW c \in Udps,
         (\E text \in UdpTexts : UdpSend(c, text)) \/ UdpRecv(c) \/ UdpDie(c)
  PROVE  IInv'
<1>T. TypeOK /\ Waiting /\ Down /\ Stream /\ Datagrams /\ EchoMatches
  BY DEF IInv
<1>0. /\ c \in Clients /\ c \notin Tcps
      /\ \A d \in Tcps : d \in Clients /\ d # c
      /\ \A d \in Udps : d \in Clients
  BY ClientAssumption DEF Clients
<1>b. /\ out[c] \in Msg \cup {None} /\ toCln[c] \in Seq(Held) /\ <<>> \in Seq(Held)
  BY <1>T, <1>0 DEF TypeOK
<1>1. ASSUME NEW text \in UdpTexts, UdpSend(c, text) PROVE IInv'
  <2>1. PICK m \in Msg : m = NextMsg(c, text)
    BY <1>T, <1>0, NextMsgType DEF Texts
  <2> DEFINE dg == [cln |-> c, msg |-> m]
  <2>2. /\ cpc[c] = "idle" /\ out' = [out EXCEPT ![c] = m]
        /\ \E to \in {"gone", "wait"} : cpc' = [cpc EXCEPT ![c] = to]
        /\ udpbuf' = udpbuf \/ udpbuf' = Append(udpbuf, dg)
        /\ UNCHANGED <<up, backlog, got, toSrv, toCln, conn, hpc, hmsg>>
    <3>1. out'[c] = m
      BY <1>1, <1>T, <1>0, <2>1 DEF UdpSend, TypeOK
    <3>2. QED  BY <1>1, <2>1, <3>1 DEF UdpSend, connVars, hndlVars
  <2>3. /\ dg \in Datagram /\ udpbuf' \in Seq(Datagram) /\ m # None
    <3>1. dg \in Datagram
      BY DEF Datagram
    <3>2. m # None
      BY <2>1, TokenAssumption
    <3>3. udpbuf \in Seq(Datagram)
      BY <1>T DEF TypeOK
    <3>4. Append(udpbuf, dg) \in Seq(Datagram)
      BY <3>1, <3>3, AppendFacts
    <3>5. QED  BY <2>2, <3>1, <3>2, <3>3, <3>4
  <2>4. TypeOK'
    BY <1>T, <2>2, <2>3 DEF TypeOK
  <2>5. /\ out'[c] = m /\ cpc'[c] \in {"gone", "wait"}
        /\ \A d \in Clients : d # c => cpc'[d] = cpc[d] /\ out'[d] = out[d]
    BY <1>T, <1>0, <2>2 DEF TypeOK
  <2>6. Waiting' /\ Down'
    <3>1. \A i \in 1..Len(backlog) : backlog[i] \in Tcps
      BY <1>T DEF TypeOK
    <3>2. QED  BY <1>T, <1>0, <2>2, <2>5, <3>1 DEF Waiting, Down
  <2>7. Stream'
    BY <1>T, <1>0, <2>2, <2>5 DEF Stream, TcpQuiet, TcpBusy
  <2>8. toCln[c] = <<>> /\ ~Asked(c)
    BY <1>T, <2>2 DEF Datagrams
  <2>9. Datagrams'
    <3>1. CASE udpbuf' = udpbuf
      BY <1>T, <1>0, <2>2, <2>3, <2>5, <2>8, <3>1 DEF Datagrams, Asked
    <3>2. CASE udpbuf' = Append(udpbuf, dg)
      <4>1. /\ Len(udpbuf) \in Nat /\ Len(udpbuf') = Len(udpbuf) + 1
            /\ \A i \in 1..Len(udpbuf) : udpbuf'[i] = udpbuf[i]
            /\ udpbuf'[Len(udpbuf) + 1] = dg
        BY <1>T, <2>3, <3>2, AppendFacts DEF TypeOK
      <4>2. \A i \in 1..Len(udpbuf') : i \in 1..Len(udpbuf) \/ i = Len(udpbuf) + 1
        BY <4>1
      <4>3. dg.cln = c /\ dg.msg = m /\ \A i \in 1..Len(udpbuf) : udpbuf[i].cln # c
        BY <2>8 DEF Asked
      <4>4. \A i, j \in 1..Len(udpbuf') : udpbuf'[i].cln = udpbuf'[j].cln => i = j
        BY <1>T, <4>1, <4>2, <4>3 DEF Datagrams
      <4>5. \A i \in 1..Len(udpbuf') :
              /\ udpbuf'[i].cln = c => udpbuf'[i].msg = m
              /\ udpbuf'[i].cln # c => i \in 1..Len(udpbuf) /\ udpbuf'[i] = udpbuf[i]
        BY <4>1, <4>2, <4>3
      <4>6. \A d \in Udps : d # c => (Asked(d)' => Asked(d))
        BY <4>5 DEF Asked
      <4>7. ASSUME NEW d \in Udps
            PROVE  /\ cpc'[d] # "out"
                   /\ cpc'[d] = "idle" => ~Asked(d)' /\ toCln'[d] = <<>>
                   /\ cpc'[d] = "wait" =>
                        /\ out'[d] # None
                        /\ \A i \in 1..Len(udpbuf') : udpbuf'[i].cln = d => udpbuf'[i].msg = out'[d]
                        /\ toCln'[d] = <<>> \/ (toCln'[d] = <<out'[d]>> /\ ~Asked(d)')
        <5>1. CASE d = c
          BY <2>2, <2>3, <2>5, <2>8, <4>5, <5>1
        <5>2. CASE d # c
          <6>1. cpc'[d] = cpc[d] /\ out'[d] = out[d] /\ toCln'[d] = toCln[d]
            BY <1>0, <2>2, <2>5, <5>2
          <6>2. QED  BY <1>T, <4>5, <4>6, <5>2, <6>1 DEF Datagrams
        <5>3. QED  BY <5>1, <5>2
      <4>8. QED  BY <4>4, <4>7 DEF Datagrams
    <3>3. QED  BY <2>2, <3>1, <3>2
  <2>10. EchoMatches'
    BY <1>T, <2>2, <2>5 DEF EchoMatches, SrvClosed
  <2>11. QED  BY <2>4, <2>6, <2>7, <2>9, <2>10 DEF IInv
<1>2. CASE UdpRecv(c) \/ UdpDie(c)
  <2>1. /\ cpc[c] \in {"idle", "wait"}
        /\ UNCHANGED <<up, backlog, udpbuf, out, toSrv, conn, hpc, hmsg>>
        /\ \/ /\ cpc[c] = "wait" /\ toCln[c] # <<>> /\ cpc' = [cpc EXCEPT ![c] = "idle"]
              /\ got' = [got EXCEPT ![c] = Head(toCln[c])]
              /\ toCln' = [toCln EXCEPT ![c] = Tail(@)]
           \/ /\ cpc' = [cpc EXCEPT ![c] = "gone"] /\ got' = got
              /\ toCln' = [toCln EXCEPT ![c] = <<>>]
    BY <1>2 DEF UdpRecv, UdpDie, mainVars, hndlVars
  <2>2. \/ /\ cpc'[c] = "idle" /\ got'[c] = out[c] /\ toCln'[c] = <<>> /\ ~Asked(c)
           /\ out[c] \in Msg
        \/ cpc'[c] = "gone" /\ got' = got /\ toCln'[c] = <<>>
    <3>1. CASE cpc' = [cpc EXCEPT ![c] = "gone"]
      <4>1. cpc'[c] = "gone"
        BY <1>T, <1>0, <3>1 DEF TypeOK
      <4>2. cpc' # [cpc EXCEPT ![c] = "idle"]
        BY <1>T, <1>0, <4>1 DEF TypeOK
      <4>3. QED  BY <1>T, <1>0, <2>1, <4>1, <4>2 DEF TypeOK
    <3>2. CASE cpc' = [cpc EXCEPT ![c] = "idle"]
      <4>1. cpc'[c] = "idle" /\ cpc' # [cpc EXCEPT ![c] = "gone"]
        BY <1>T, <1>0, <3>2 DEF TypeOK
      <4>2. toCln[c] = <<out[c]>> /\ ~Asked(c) /\ out[c] \in Msg
        BY <1>T, <1>b, <2>1, <4>1 DEF Datagrams
      <4>3. Head(toCln[c]) = out[c] /\ Tail(toCln[c]) = <<>>
        BY <4>2, Single
      <4>4. QED  BY <1>T, <1>0, <2>1, <4>1, <4>2, <4>3 DEF TypeOK
    <3>3. QED  BY <2>1, <3>1, <3>2
  <2>3. \A d \in Clients : d # c => cpc'[d] = cpc[d] /\ got'[d] = got[d] /\ toCln'[d] = toCln[d]
    BY <1>T, <2>1 DEF TypeOK
  <2>4. TypeOK'
    <3>1. cpc' \in [Clients -> {"out", "idle", "wait", "gone"}]
      BY <1>T, <2>1 DEF TypeOK
    <3>2. got' \in [Clients -> Held]
      BY <1>T, <1>0, <2>1, <2>2 DEF TypeOK, Held
    <3>3. toCln' \in [Clients -> Seq(Held)]
      <4>1. toCln' = [toCln EXCEPT ![c] = <<>>]
        BY <1>T, <1>0, <2>1, <2>2 DEF TypeOK
      <4>2. QED  BY <1>T, <1>b, <4>1 DEF TypeOK
    <3>4. QED  BY <1>T, <2>1, <3>1, <3>2, <3>3 DEF TypeOK
  <2>5. Waiting' /\ Down'
    <3>1. \A i \in 1..Len(backlog) : backlog[i] \in Tcps
      BY <1>T DEF TypeOK
    <3>2. QED  BY <1>T, <1>0, <2>1, <2>3, <3>1 DEF Waiting, Down
  <2>6. Stream'
    BY <1>T, <1>0, <2>1, <2>3 DEF Stream, TcpQuiet, TcpBusy
  <2>7. Datagrams'
    BY <1>T, <1>0, <2>1, <2>2, <2>3 DEF Datagrams, Asked
  <2>8. EchoMatches'
    BY <1>T, <2>1, <2>2, <2>3 DEF EchoMatches, SrvClosed
  <2>9. QED  BY <2>4, <2>5, <2>6, <2>7, <2>8 DEF IInv
<1>3. QED  BY <1>1, <1>2

\* Every step preserves the invariant.
LEMMA InvStep == IInv /\ [Next]_vars => IInv'
<1> SUFFICES ASSUME IInv, [Next]_vars PROVE IInv'
  OBVIOUS
<1>1. CASE Main \/ MainFails
  <2>1. \/ Shutdown \/ (backlog # <<>> /\ MainAccept) \/ (udpbuf # <<>> /\ MainUdp)
    BY <1>1 DEF Main, MainFails, EpollLoop, PollLoop, SelectLoop, AcceptLoop, RecvfromLoop,
                EpollPicks, PollPicks, SelectPicks, Ready, Serve, MainUdpExit
  <2>2. QED  BY <2>1, MainStep
<1>2. ASSUME NEW c \in Tcps, HandlerSigpipe(c) PROVE IInv'
  BY <1>2, MainStep DEF HandlerSigpipe
<1>3. CASE UNCHANGED vars
  BY <1>3 DEF IInv, TypeOK, Waiting, Down, Stream, TcpQuiet, TcpBusy, Datagrams, Asked,
              EchoMatches, SrvClosed, vars, mainVars, clnVars, connVars, hndlVars
<1>4. QED  BY <1>1, <1>2, <1>3, HandlerStep, TcpStep, UdpStep DEF Next

\* In every run of every server a client that has an answer has the message it sent
\* last, whole and alone, or has found the connection closed (server_core.c 10-44,
\* tcp_client.c 49-76, udp_client.c 43-70).
THEOREM EchoCorrect == Spec => []EchoMatches
<1>1. IInv => EchoMatches
  BY DEF IInv
<1>2. QED  BY InvInit, InvStep, <1>1, PTL DEF Spec
=============================================================================
