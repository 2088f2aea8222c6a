------------------------ MODULE HighloadServerProofs ------------------------
(***************************************************************************)
(* Proofs about udp_highload_server, for any number of clients and workers *)
(* and any queue capacity: type correctness, that a client's answer is the *)
(* answer to its last request, that a queue with a slot per client never   *)
(* makes a sender wait, and that the server implements ReplyService.       *)
(***************************************************************************)
EXTENDS HighloadServer, FiniteSetTheorems, TLAPS

-----------------------------------------------------------------------------
(* Queues in which no client occurs twice *)

NoDup(s) == \A i, j \in 1..Len(s) : s[i].cln = s[j].cln => i = j

\* Every element of s is the last request of a client that is owed an answer.
AllCurrent(s) ==
  \A i \in 1..Len(s) : s[i].n = sent[s[i].cln] /\ cpc[s[i].cln] # "idle"

\* Appending to a queue adds exactly the client of the new message.
LEMMA HasAppend ==
  ASSUME NEW s \in Seq(Request), NEW r \in Request, NEW c
  PROVE  Has(Append(s, r), c) <=> Has(s, c) \/ r.cln = c
<1>1. /\ Len(Append(s, r)) = Len(s) + 1
      /\ \A i \in 1..Len(s) : Append(s, r)[i] = s[i]
      /\ Append(s, r)[Len(s) + 1] = r
      /\ Len(s) \in Nat
  OBVIOUS
<1>2. QED  BY <1>1 DEF Has

\* Appending the message of a client the queue does not hold keeps it free of
\* duplicates.
LEMMA NoDupAppend ==
  ASSUME NEW s \in Seq(Request), NEW r \in Request, NoDup(s), ~Has(s, r.cln)
  PROVE  NoDup(Append(s, r))
<1>1. /\ Len(Append(s, r)) = Len(s) + 1
      /\ \A i \in 1..Len(s) : Append(s, r)[i] = s[i]
      /\ Append(s, r)[Len(s) + 1] = r
      /\ Len(s) \in Nat
  OBVIOUS
<1>2. QED  BY <1>1 DEF Has, NoDup

\* Taking the oldest message removes its client and nothing else.
LEMMA TailFacts ==
  ASSUME NEW s \in Seq(Request), s # <<>>
  PROVE  /\ Head(s) \in Request /\ Tail(s) \in Seq(Request)
         /\ Has(s, Head(s).cln)
         /\ \A c : Has(Tail(s), c) => Has(s, c)
         /\ NoDup(s) => NoDup(Tail(s)) /\ ~Has(Tail(s), Head(s).cln)
<1>1. /\ Len(s) \in Nat /\ Len(s) > 0
      /\ Len(Tail(s)) = Len(s) - 1
      /\ \A i \in 1..Len(Tail(s)) : Tail(s)[i] = s[i + 1]
      /\ Head(s) = s[1] /\ s[1] \in Request /\ Tail(s) \in Seq(Request)
  OBVIOUS
<1>2. QED  BY <1>1 DEF Has, NoDup

\* An empty queue holds no client.
LEMMA EmptyFacts ==
  NoDup(<<>>) /\ \A c : ~Has(<<>>, c)
BY DEF NoDup, Has

-----------------------------------------------------------------------------
(* Type correctness *)

\* The variables keep their types (server_core.c 50-183, client.c 33-67): in
\* particular what the main thread and the workers put into the kernel queue
\* are requests, never the empty slot of a thread that holds nothing.
Shape ==
  /\ mpc = "put" <=> mreq # None
  /\ \A w \in Workers : wpc[w] = "snd" <=> wreq[w] # None
  /\ ~up => mpc = "recv" /\ sockbuf = <<>> /\ wpc = [w \in Workers |-> "dead"]

TypeInv == TypeOK /\ Shape

\* The types hold when the server starts, whichever queue msgget returns.
LEMMA TypeInit == Init => TypeInv
BY SockAssumption, BoundAssumption, NoneAssumption
DEF Init, TypeInv, TypeOK, Shape, WorkerStart

\* Every step of main, of a worker, of a client and a restart keep the types.
LEMMA TypeStep == TypeInv /\ [Next]_vars => TypeInv'
<1> SUFFICES ASSUME TypeInv, [Next]_vars PROVE TypeInv'
  OBVIOUS
<1> USE SockAssumption, BoundAssumption, NoneAssumption DEF TypeInv, TypeOK, Shape
<1>1. CASE MainNoRequest
  BY <1>1 DEF MainNoRequest, queueVars, clientVars
<1>2. CASE MainRequest
  <2>1. Head(sockbuf) \in Request /\ Tail(sockbuf) \in Seq(Request)
    BY <1>2, TailFacts DEF MainRequest
  <2>2. QED  BY <1>2, <2>1 DEF MainRequest, queueVars, clientVars
<1>3. ASSUME Shutdown PROVE TypeInv'
  <2>0. <<>> \in Seq(Request)
    OBVIOUS
  <2>1. sockbuf' \in Seq(Request) /\ up' \in BOOLEAN
    BY <1>3, <2>0, Zenon DEF Shutdown
  <2>2. Shape'
    BY <1>3 DEF Shutdown
  <2>3. QED  BY <1>3, <2>1, <2>2 DEF Shutdown, queueVars, clientVars
<1>4. CASE MainPut
  <2>1. Append(reqQ, mreq) \in Seq(Request)
    BY <1>4 DEF MainPut
  <2>2. QED  BY <1>4, <2>1 DEF MainPut, clientVars
<1>5. CASE MainNoReply
  BY <1>5 DEF MainNoReply, queueVars, clientVars
<1>6. CASE MainReply
  <2> DEFINE s == SockOf[Head(replQ).cln]
  <2>1. Head(replQ) \in Request /\ Tail(replQ) \in Seq(Request)
    BY <1>6, TailFacts DEF MainReply
  <2>2. s \in Socks /\ Append(inbox[s], Head(replQ)) \in Seq(Request)
    <3>1. Head(replQ).cln \in Clients
      BY <2>1 DEF Request
    <3>2. s \in Socks /\ inbox[s] \in Seq(Request)
      BY <3>1
    <3>3. QED  BY <2>1, <3>2
  <2>3. inbox' \in [Socks -> Seq(Request)]
    BY <1>6, <2>2 DEF MainReply
  <2>4. QED  BY <1>6, <2>1, <2>3 DEF MainReply, clientVars
<1>7. CASE Restart
  BY <1>7 DEF Restart, WorkerStart, queueVars, clientVars
<1>8. ASSUME NEW w \in Workers, WorkerTake(w) PROVE TypeInv'
  <2>1. Head(reqQ) \in Request /\ Tail(reqQ) \in Seq(Request)
    BY <1>8, TailFacts DEF WorkerTake
  <2>2. QED  BY <1>8, <2>1 DEF WorkerTake, clientVars
<1>9. ASSUME NEW w \in Workers, WorkerReply(w) PROVE TypeInv'
  <2>1. Append(replQ, wreq[w]) \in Seq(Request)
    BY <1>9 DEF WorkerReply
  <2>2. QED  BY <1>9, <2>1 DEF WorkerReply, clientVars
<1>10. ASSUME NEW w \in Workers, WorkerFails(w) PROVE TypeInv'
  BY <1>10 DEF WorkerFails, queueVars, clientVars
<1>11. ASSUME NEW c \in Clients, NEW text \in Texts, ClientSend(c, text)
       PROVE  TypeInv'
  <2> DEFINE r == [cln |-> c, n |-> sent[c] + 1, text |-> text]
  <2>1. r \in Request
    BY <1>11 DEF ClientSend, Request
  <2>2. sent' \in [Clients -> 0..MaxSend]
    BY <1>11 DEF ClientSend
  <2>3. sockbuf' \in Seq(Request) /\ (~up => sockbuf' = sockbuf)
    BY <1>11, <2>1 DEF ClientSend
  <2>4. QED  BY <1>11, <2>2, <2>3 DEF ClientSend, serverVars, queueVars
<1>12. ASSUME NEW c \in Clients, ClientRecv(c) PROVE TypeInv'
  <2> DEFINE s == SockOf[c]
  <2>1. s \in Socks /\ inbox[s] \in Seq(Request)
    OBVIOUS
  <2>2. Head(inbox[s]) \in Request /\ Tail(inbox[s]) \in Seq(Request)
    BY <1>12, <2>1, TailFacts DEF ClientRecv
  <2>3. QED  BY <1>12, <2>1, <2>2 DEF ClientRecv, serverVars, queueVars
<1>13. ASSUME NEW c \in Clients, ClientFails(c) PROVE TypeInv'
  BY <1>13 DEF ClientFails, serverVars, queueVars
<1>14. CASE UNCHANGED vars
  BY <1>14 DEF vars, serverVars, queueVars, clientVars
<1>15. QED
  BY <1>1, <1>2, <1>3, <1>4, <1>5, <1>6, <1>7, <1>8, <1>9, <1>10, <1>11, <1>12,
     <1>13, <1>14 DEF Next, Main, Worker, MainExit, MainFails

\* The state keeps its type in every run of the server and its clients
\* (server_core.c 50-183).
THEOREM TypeCorrect == Spec => []TypeOK
<1>1. Spec => []TypeInv
  BY TypeInit, TypeStep, PTL DEF Spec
<1>2. TypeInv => TypeOK
  BY DEF TypeInv
<1>3. QED  BY <1>1, <1>2, PTL

-----------------------------------------------------------------------------
(* A request is in one place only *)

InMain(c) == mreq # None /\ mreq.cln = c
InWorker(c) == \E w \in Workers : wreq[w] # None /\ wreq[w].cln = c
InInbox(c) == Has(inbox[SockOf[c]], c)

\* The request of a client moves through the socket buffer, the main thread,
\* the kernel queue, a worker, the kernel queue again and the client's buffer,
\* and is never in two of them.
Apart(c) ==
  /\ Has(sockbuf, c) =>
       ~InMain(c) /\ ~Has(reqQ, c) /\ ~InWorker(c) /\ ~Has(replQ, c) /\ ~InInbox(c)
  /\ InMain(c) => ~Has(reqQ, c) /\ ~InWorker(c) /\ ~Has(replQ, c) /\ ~InInbox(c)
  /\ Has(reqQ, c) => ~InWorker(c) /\ ~Has(replQ, c) /\ ~InInbox(c)
  /\ InWorker(c) => ~Has(replQ, c) /\ ~InInbox(c)
  /\ Has(replQ, c) => ~InInbox(c)

OnePlace ==
  /\ NoDup(sockbuf) /\ NoDup(reqQ) /\ NoDup(replQ)
  /\ \A s \in Socks : NoDup(inbox[s])
  /\ \A v, w \in Workers :
       wreq[v] # None /\ wreq[w] # None /\ wreq[v].cln = wreq[w].cln => v = w
  /\ \A c \in Clients : Apart(c)

\* What is in flight is the last request of a client still owed an answer.
IsCurrent(r) == r.n = sent[r.cln] /\ cpc[r.cln] # "idle"

Current ==
  /\ AllCurrent(sockbuf) /\ AllCurrent(reqQ) /\ AllCurrent(replQ)
  /\ \A s \in Socks : AllCurrent(inbox[s])
  /\ mreq # None => IsCurrent(mreq)
  /\ \A w \in Workers : wreq[w] # None => IsCurrent(wreq[w])

\* Replies are delivered to the socket of the client they are for.
Routed ==
  \A s \in Socks : \A i \in 1..Len(inbox[s]) : SockOf[inbox[s][i].cln] = s

IInv == TypeInv /\ OnePlace /\ Current /\ Routed /\ AnswerMatches

\* A queue stays current when its oldest message is taken, and when the
\* request of a client still owed an answer is appended.
LEMMA CurrentQueues ==
  ASSUME NEW s \in Seq(Request), AllCurrent(s)
  PROVE  /\ s # <<>> => IsCurrent(Head(s)) /\ AllCurrent(Tail(s))
         /\ \A r \in Request : IsCurrent(r) => AllCurrent(Append(s, r))
<1>1. ASSUME s # <<>>  PROVE IsCurrent(Head(s)) /\ AllCurrent(Tail(s))
  <2>1. /\ Len(s) \in Nat /\ Len(s) > 0
        /\ Len(Tail(s)) = Len(s) - 1
        /\ \A i \in 1..Len(Tail(s)) : Tail(s)[i] = s[i + 1]
        /\ Head(s) = s[1]
    BY <1>1
  <2>2. QED  BY <2>1 DEF AllCurrent, IsCurrent
<1>2. ASSUME NEW r \in Request, IsCurrent(r)  PROVE AllCurrent(Append(s, r))
  <2>1. /\ Len(Append(s, r)) = Len(s) + 1
        /\ \A i \in 1..Len(s) : Append(s, r)[i] = s[i]
        /\ Append(s, r)[Len(s) + 1] = r
        /\ Len(s) \in Nat
    OBVIOUS
  <2>2. QED  BY <1>2, <2>1 DEF AllCurrent, IsCurrent
<1>3. QED  BY <1>1, <1>2

\* A client in a current queue is owed an answer.
LEMMA CurrentClient ==
  ASSUME NEW s \in Seq(Request), AllCurrent(s), NEW c, Has(s, c)
  PROVE  cpc[c] # "idle"
BY DEF AllCurrent, Has

\* The inductive invariant holds when the server starts.
LEMMA InvInit == Init => IInv
<1> SUFFICES ASSUME Init PROVE IInv
  OBVIOUS
<1>1. TypeInv
  BY TypeInit
<1>2. \A s \in Socks : Len(inbox[s]) = 0
  BY DEF Init
<1>3. OnePlace
  BY EmptyFacts, SockAssumption DEF Init, OnePlace, Apart, InMain, InWorker, InInbox
<1>4. Current /\ Routed /\ AnswerMatches
  BY <1>2 DEF Init, Current, Routed, AnswerMatches, AllCurrent
<1>5. QED  BY <1>1, <1>3, <1>4 DEF IInv

\* Every step preserves the inductive invariant, when clients share no socket.
LEMMA InvStep ==
  ASSUME OwnSockets, IInv, [Next]_vars
  PROVE  IInv'
<1>0. TypeInv'
  BY TypeStep DEF IInv
<1>T. TypeOK /\ Shape /\ OnePlace /\ Current /\ Routed /\ AnswerMatches
  BY DEF IInv, TypeInv
<1>a. \A r \in Request : r.cln \in Clients /\ r # None
  BY NoneAssumption DEF Request
<1> DEFINE Goal == OnePlace' /\ Current' /\ Routed' /\ AnswerMatches'
<1>1. ASSUME MainNoRequest \/ MainNoReply \/ Restart \/ UNCHANGED vars
      PROVE  Goal
  <2>1. /\ UNCHANGED <<sockbuf, reqQ, replQ, inbox, mreq, wreq, cpc, sent, got>>
    BY <1>1 DEF MainNoRequest, MainNoReply, Restart, vars, serverVars, queueVars,
                clientVars
  <2>2. QED
    BY <1>T, <2>1 DEF OnePlace, Apart, InMain, InWorker, InInbox, Current, IsCurrent,
                      AllCurrent, Routed, AnswerMatches, Has, NoDup
<1>2. ASSUME MainRequest PROVE Goal
  <2> DEFINE r == Head(sockbuf)
  <2>1. /\ sockbuf # <<>> /\ sockbuf' = Tail(sockbuf) /\ mreq' = r /\ mreq = None
        /\ UNCHANGED <<reqQ, replQ, inbox, wreq, cpc, sent, got>>
    BY <1>2, <1>T DEF MainRequest, Shape, queueVars, clientVars
  <2>2. /\ r \in Request /\ Has(sockbuf, r.cln) /\ NoDup(sockbuf')
        /\ ~Has(sockbuf', r.cln) /\ \A c : Has(sockbuf', c) => Has(sockbuf, c)
    BY <2>1, <1>T, TailFacts DEF TypeOK, OnePlace
  <2>3. IsCurrent(r) /\ AllCurrent(Tail(sockbuf))
    BY <2>1, <1>T, CurrentQueues DEF TypeOK, Current
  <2>4. OnePlace'
    BY <1>T, <1>a, <2>1, <2>2 DEF OnePlace, Apart, InMain, InWorker, InInbox
  <2>5. Current'
    BY <1>T, <2>1, <2>3 DEF Current, IsCurrent, AllCurrent
  <2>6. QED  BY <1>T, <2>1, <2>4, <2>5 DEF Routed, AnswerMatches
<1>3. ASSUME Shutdown PROVE Goal
  <2>1. /\ sockbuf' = <<>> /\ mreq' = None /\ wreq' = [w \in Workers |-> None]
        /\ UNCHANGED <<reqQ, replQ, inbox, cpc, sent, got>>
    BY <1>3 DEF Shutdown, queueVars, clientVars
  <2>2. OnePlace'
    BY <1>T, <2>1, EmptyFacts DEF OnePlace, Apart, InMain, InWorker, InInbox
  <2>3. Current'
    BY <1>T, <2>1 DEF Current, IsCurrent, AllCurrent
  <2>4. QED  BY <1>T, <2>1, <2>2, <2>3 DEF Routed, AnswerMatches
<1>4. ASSUME MainPut PROVE Goal
  <2>1. /\ mreq \in Request /\ reqQ' = Append(reqQ, mreq) /\ mreq' = None
        /\ UNCHANGED <<sockbuf, replQ, inbox, wreq, cpc, sent, got>>
    BY <1>4, <1>T DEF MainPut, Shape, TypeOK, clientVars
  <2>2. InMain(mreq.cln) /\ mreq.cln \in Clients
    BY <2>1, <1>a DEF InMain
  <2>3. NoDup(reqQ') /\ \A c : Has(reqQ', c) <=> Has(reqQ, c) \/ mreq.cln = c
    BY <2>1, <2>2, <1>T, HasAppend, NoDupAppend DEF TypeOK, OnePlace, Apart
  <2>4. AllCurrent(Append(reqQ, mreq))
    BY <2>1, <1>T, <1>a, CurrentQueues DEF TypeOK, Current
  <2>5. OnePlace'
    BY <1>T, <2>1, <2>2, <2>3 DEF OnePlace, Apart, InMain, InWorker, InInbox
  <2>6. Current'
    BY <1>T, <2>1, <2>4 DEF Current, IsCurrent, AllCurrent
  <2>7. QED  BY <1>T, <2>1, <2>5, <2>6 DEF Routed, AnswerMatches
<1>5. ASSUME MainReply PROVE Goal
  <2> DEFINE r == Head(replQ)
  <2>1. /\ replQ # <<>> /\ replQ' = Tail(replQ)
        /\ UNCHANGED <<sockbuf, reqQ, mreq, wreq, cpc, sent, got>>
    BY <1>5 DEF MainReply, clientVars
  <2>2. /\ r \in Request /\ Has(replQ, r.cln) /\ NoDup(replQ')
        /\ ~Has(replQ', r.cln) /\ \A c : Has(replQ', c) => Has(replQ, c)
    BY <2>1, <1>T, TailFacts DEF TypeOK, OnePlace
  <2>3. IsCurrent(r) /\ AllCurrent(Tail(replQ))
    BY <2>1, <1>T, CurrentQueues DEF TypeOK, Current
  <2> DEFINE s == SockOf[r.cln]
  <2>4. r.cln \in Clients /\ s \in Socks /\ inbox[s] \in Seq(Request)
    BY <2>2, <1>a, <1>T, SockAssumption DEF TypeOK
  <2>5. CASE inbox' = inbox
    <3>1. OnePlace'
      BY <1>T, <2>1, <2>2, <2>5 DEF OnePlace, Apart, InMain, InWorker, InInbox
    <3>2. Current'
      BY <1>T, <2>1, <2>3, <2>5 DEF Current, IsCurrent, AllCurrent
    <3>3. QED  BY <1>T, <2>1, <2>5, <3>1, <3>2 DEF Routed, AnswerMatches
  <2>6. CASE inbox' = [inbox EXCEPT ![s] = Append(@, r)]
    <3>1. /\ inbox'[s] = Append(inbox[s], r)
          /\ \A t \in Socks : t # s => inbox'[t] = inbox[t]
      BY <2>6, <2>4, <1>T DEF TypeOK
    <3>2. ~Has(inbox[s], r.cln)
      BY <1>T, <2>2, <2>4 DEF OnePlace, Apart, InInbox
    <3>3. /\ NoDup(inbox'[s])
          /\ \A c : Has(inbox'[s], c) <=> Has(inbox[s], c) \/ r.cln = c
      <4>1. NoDup(inbox[s])
        BY <1>T, <2>4 DEF OnePlace
      <4>2. NoDup(Append(inbox[s], r))
        BY <2>2, <2>4, <3>2, <4>1, NoDupAppend
      <4>3. \A c : Has(Append(inbox[s], r), c) <=> Has(inbox[s], c) \/ r.cln = c
        BY <2>2, <2>4, HasAppend
      <4>4. QED  BY <3>1, <4>2, <4>3
    <3>4. \A c \in Clients : InInbox(c)' <=> InInbox(c) \/ c = r.cln
      BY <3>1, <3>3, <2>4, SockAssumption DEF InInbox
    <3>5. OnePlace'
      <4>1. \A t \in Socks : NoDup(inbox'[t])
        BY <1>T, <3>1, <3>3 DEF OnePlace
      <4>2. \A c \in Clients : Apart(c)'
        BY <1>T, <2>1, <2>2, <2>4, <3>4 DEF OnePlace, Apart, InMain, InWorker
      <4>3. QED  BY <1>T, <2>1, <2>2, <4>1, <4>2 DEF OnePlace
    <3>6. AllCurrent(Append(inbox[s], r))
      BY <2>2, <2>3, <2>4, <1>T, CurrentQueues DEF Current
    <3>7. Current'
      <4>1. \A t \in Socks : AllCurrent(inbox[t])'
        <5> SUFFICES ASSUME NEW t \in Socks PROVE AllCurrent(inbox'[t])
          BY <2>1 DEF AllCurrent
        <5>1. QED  BY <1>T, <3>1, <3>6 DEF Current
      <4>2. QED  BY <1>T, <2>1, <2>3, <4>1 DEF Current, IsCurrent, AllCurrent
    <3>8. Routed'
      <4>1. /\ Len(Append(inbox[s], r)) = Len(inbox[s]) + 1
            /\ \A i \in 1..Len(inbox[s]) : Append(inbox[s], r)[i] = inbox[s][i]
            /\ Append(inbox[s], r)[Len(inbox[s]) + 1] = r
            /\ Len(inbox[s]) \in Nat
        BY <2>2, <2>4
      <4>2. \A i \in 1..Len(inbox'[s]) : SockOf[inbox'[s][i].cln] = s
        <5>1. \A i \in 1..Len(inbox[s]) : SockOf[inbox[s][i].cln] = s
          BY <1>T, <2>4 DEF Routed
        <5>2. ASSUME NEW i \in 1..Len(inbox[s]) + 1
              PROVE  SockOf[Append(inbox[s], r)[i].cln] = s
          <6>1. CASE i = Len(inbox[s]) + 1
            BY <6>1, <4>1
          <6>2. CASE i \in 1..Len(inbox[s])
            BY <6>2, <4>1, <5>1
          <6>3. Len(inbox[s]) \in Nat
            BY <4>1
          <6>4. QED  BY <6>1, <6>2, <6>3
        <5>3. QED  BY <3>1, <4>1, <5>2
      <4>3. ASSUME NEW t \in Socks, t # s
            PROVE  \A i \in 1..Len(inbox'[t]) : SockOf[inbox'[t][i].cln] = t
        BY <1>T, <3>1, <4>3 DEF Routed
      <4>4. QED  BY <4>2, <4>3 DEF Routed
    <3>9. QED  BY <1>T, <2>1, <3>5, <3>7, <3>8 DEF AnswerMatches
  <2>7. QED  BY <1>5, <2>5, <2>6 DEF MainReply
<1>6. ASSUME NEW w \in Workers, WorkerTake(w) PROVE Goal
  <2> DEFINE r == Head(reqQ)
  <2>1. /\ reqQ # <<>> /\ reqQ' = Tail(reqQ) /\ wreq[w] = None
        /\ wreq' = [wreq EXCEPT ![w] = r]
        /\ UNCHANGED <<sockbuf, replQ, inbox, mreq, cpc, sent, got>>
    BY <1>6, <1>T DEF WorkerTake, Shape, clientVars
  <2>2. /\ r \in Request /\ Has(reqQ, r.cln) /\ NoDup(reqQ')
        /\ ~Has(reqQ', r.cln) /\ \A c : Has(reqQ', c) => Has(reqQ, c)
    BY <2>1, <1>T, TailFacts DEF TypeOK, OnePlace
  <2>3. IsCurrent(r) /\ AllCurrent(Tail(reqQ))
    BY <2>1, <1>T, CurrentQueues DEF TypeOK, Current
  <2>4. wreq'[w] = r /\ \A v \in Workers : v # w => wreq'[v] = wreq[v]
    BY <2>1, <1>T DEF TypeOK
  <2>5. \A c : InWorker(c)' <=> InWorker(c) \/ c = r.cln
    BY <2>1, <2>2, <2>4, <1>a DEF InWorker
  <2>6. OnePlace'
    <3>1. ~InWorker(r.cln)
      BY <1>T, <1>a, <2>2 DEF OnePlace, Apart
    <3>2. \A v, u \in Workers :
            wreq'[v] # None /\ wreq'[u] # None /\ wreq'[v].cln = wreq'[u].cln
              => v = u
      BY <1>T, <2>4, <3>1 DEF OnePlace, InWorker
    <3>3. \A c \in Clients : Apart(c)'
      BY <1>T, <2>1, <2>2, <2>5 DEF OnePlace, Apart, InMain, InInbox
    <3>4. QED  BY <1>T, <2>1, <2>2, <3>2, <3>3 DEF OnePlace
  <2>7. Current'
    BY <1>T, <2>1, <2>3, <2>4 DEF Current, IsCurrent, AllCurrent
  <2>8. QED  BY <1>T, <2>1, <2>6, <2>7 DEF Routed, AnswerMatches
<1>7. ASSUME NEW w \in Workers, WorkerReply(w) PROVE Goal
  <2> DEFINE r == wreq[w]
  <2>1. /\ r \in Request /\ replQ' = Append(replQ, r)
        /\ wreq' = [wreq EXCEPT ![w] = None]
        /\ UNCHANGED <<sockbuf, reqQ, inbox, mreq, cpc, sent, got>>
    BY <1>7, <1>T DEF WorkerReply, Shape, TypeOK, clientVars
  <2>2. InWorker(r.cln) /\ r.cln \in Clients
    BY <2>1, <1>a DEF InWorker
  <2>3. NoDup(replQ') /\ \A c : Has(replQ', c) <=> Has(replQ, c) \/ r.cln = c
    BY <2>1, <2>2, <1>T, HasAppend, NoDupAppend DEF TypeOK, OnePlace, Apart
  <2>4. wreq'[w] = None /\ \A v \in Workers : v # w => wreq'[v] = wreq[v]
    BY <2>1, <1>T DEF TypeOK
  <2>5. /\ \A c : InWorker(c)' => InWorker(c)
        /\ \A c : c = r.cln => ~InWorker(c)'
    BY <2>1, <2>4, <1>T, <1>a DEF InWorker, OnePlace
  <2>6. AllCurrent(Append(replQ, r))
    BY <2>1, <1>T, <1>a, CurrentQueues DEF TypeOK, Current
  <2>7. OnePlace'
    <3>1. \A c \in Clients : Apart(c)'
      BY <1>T, <2>1, <2>2, <2>3, <2>5 DEF OnePlace, Apart, InMain, InInbox
    <3>2. QED  BY <1>T, <2>1, <2>3, <2>4, <3>1 DEF OnePlace
  <2>8. Current'
    BY <1>T, <2>1, <2>4, <2>6 DEF Current, IsCurrent, AllCurrent
  <2>9. QED  BY <1>T, <2>1, <2>7, <2>8 DEF Routed, AnswerMatches
<1>8. ASSUME NEW w \in Workers, WorkerFails(w) PROVE Goal
  <2>1. /\ wreq' = [wreq EXCEPT ![w] = None]
        /\ UNCHANGED <<sockbuf, reqQ, replQ, inbox, mreq, cpc, sent, got>>
    BY <1>8 DEF WorkerFails, queueVars, clientVars
  <2>2. \A v \in Workers : wreq'[v] # None => wreq'[v] = wreq[v]
    BY <2>1, <1>T DEF TypeOK
  <2>3. OnePlace'
    BY <1>T, <2>1, <2>2 DEF OnePlace, Apart, InMain, InWorker, InInbox
  <2>4. Current'
    BY <1>T, <2>1, <2>2 DEF Current, IsCurrent, AllCurrent
  <2>5. QED  BY <1>T, <2>1, <2>3, <2>4 DEF Routed, AnswerMatches
<1>b. ASSUME NEW c \in Clients, cpc[c] = "idle"
      PROVE  /\ ~Has(sockbuf, c) /\ ~Has(reqQ, c) /\ ~Has(replQ, c)
             /\ ~InMain(c) /\ ~InWorker(c) /\ \A s \in Socks : ~Has(inbox[s], c)
  BY <1>b, <1>T, CurrentClient DEF Current, IsCurrent, InMain, InWorker, TypeOK
<1>9. ASSUME NEW c \in Clients, NEW text \in Texts, ClientSend(c, text) PROVE Goal
  <2> DEFINE r == [cln |-> c, n |-> sent[c] + 1, text |-> text]
  <2>1. /\ cpc[c] = "idle"
        /\ sent' = [sent EXCEPT ![c] = @ + 1]
        /\ cpc' = [cpc EXCEPT ![c] = IF text = "exit" THEN "gone" ELSE "wait"]
        /\ sockbuf' = sockbuf \/ sockbuf' = Append(sockbuf, r)
        /\ UNCHANGED <<reqQ, replQ, inbox, mreq, wreq, got>>
    BY <1>9 DEF ClientSend, serverVars, queueVars
  <2>2. r \in Request /\ r.cln = c /\ r.n = sent[c] + 1
    BY <1>9, <1>T, BoundAssumption DEF ClientSend, Request, TypeOK
  <2>3. /\ ~Has(sockbuf, c) /\ ~Has(reqQ, c) /\ ~Has(replQ, c)
        /\ ~InMain(c) /\ ~InWorker(c) /\ \A s \in Socks : ~Has(inbox[s], c)
    BY <2>1, <1>b
  <2>4. /\ sent'[c] = sent[c] + 1 /\ cpc'[c] # "idle"
        /\ \A d \in Clients : d # c => sent'[d] = sent[d] /\ cpc'[d] = cpc[d]
    BY <2>1, <1>T DEF TypeOK
  <2>5. NoDup(sockbuf') /\ \A d : Has(sockbuf', d) => Has(sockbuf, d) \/ d = c
    <3>1. NoDup(Append(sockbuf, r))
      BY <2>2, <2>3, <1>T, NoDupAppend DEF TypeOK, OnePlace
    <3>2. \A d : Has(Append(sockbuf, r), d) <=> Has(sockbuf, d) \/ d = c
      BY <2>2, <1>T, HasAppend DEF TypeOK
    <3>3. QED  BY <2>1, <3>1, <3>2, <1>T DEF OnePlace
  <2>6. OnePlace'
    <3>1. ~InInbox(c)
      BY <2>3, SockAssumption DEF InInbox
    <3>2. \A d \in Clients : Apart(d)'
      BY <1>T, <2>1, <2>3, <2>5, <3>1 DEF OnePlace, Apart, InMain, InWorker, InInbox
    <3>3. QED  BY <1>T, <2>1, <2>5, <3>2 DEF OnePlace
  <2>7. ASSUME NEW s \in Seq(Request), AllCurrent(s), ~Has(s, c)
        PROVE  \A i \in 1..Len(s) : s[i].n = sent'[s[i].cln] /\ cpc'[s[i].cln] # "idle"
    <3>1. \A i \in 1..Len(s) : s[i].cln \in Clients /\ s[i].cln # c
      BY <2>7, <1>a DEF Has
    <3>2. QED  BY <3>1, <2>4, <2>7 DEF AllCurrent
  <2>8. Current'
    <3>1. AllCurrent(sockbuf)'
      <4>1. /\ Len(Append(sockbuf, r)) = Len(sockbuf) + 1
            /\ \A i \in 1..Len(sockbuf) : Append(sockbuf, r)[i] = sockbuf[i]
            /\ Append(sockbuf, r)[Len(sockbuf) + 1] = r
            /\ Len(sockbuf) \in Nat
        BY <2>2, <1>T DEF TypeOK
      <4>2. \A i \in 1..Len(sockbuf) :
              sockbuf[i].n = sent'[sockbuf[i].cln] /\ cpc'[sockbuf[i].cln] # "idle"
        BY <2>3, <2>7, <1>T DEF Current, TypeOK
      <4>3. QED  BY <2>1, <2>2, <2>4, <4>1, <4>2 DEF AllCurrent
    <3>2. AllCurrent(reqQ)' /\ AllCurrent(replQ)'
      BY <2>1, <2>3, <2>7, <1>T DEF Current, AllCurrent, TypeOK
    <3>3. \A s \in Socks : AllCurrent(inbox[s])'
      <4>1. \A s \in Socks : inbox[s] \in Seq(Request) /\ AllCurrent(inbox[s])
        BY <1>T DEF Current, TypeOK
      <4>2. QED  BY <2>1, <2>3, <2>7, <4>1 DEF AllCurrent
    <3>4. mreq' # None => IsCurrent(mreq)'
      BY <2>1, <2>3, <2>4, <1>T, <1>a DEF Current, IsCurrent, InMain, TypeOK
    <3>5. \A w \in Workers : wreq'[w] # None => IsCurrent(wreq[w])'
      <4> SUFFICES ASSUME NEW w \in Workers, wreq[w] # None
                   PROVE  wreq[w].n = sent'[wreq[w].cln] /\ cpc'[wreq[w].cln] # "idle"
        BY <2>1 DEF IsCurrent
      <4>1. wreq[w] \in Request /\ wreq[w].cln # c
        BY <2>3, <1>T DEF InWorker, TypeOK
      <4>2. QED  BY <2>4, <4>1, <1>T, <1>a DEF Current, IsCurrent
    <3>6. QED  BY <3>1, <3>2, <3>3, <3>4, <3>5 DEF Current
  <2>9. Routed' /\ AnswerMatches'
    BY <1>T, <2>1, <2>4 DEF Routed, AnswerMatches
  <2>10. QED  BY <2>6, <2>8, <2>9
<1>10. ASSUME NEW c \in Clients, ClientRecv(c) PROVE Goal
  <2> DEFINE s == SockOf[c]
             r == Head(inbox[s])
  <2>1. /\ s \in Socks /\ inbox[s] \in Seq(Request) /\ inbox[s] # <<>>
        /\ got' = [got EXCEPT ![c] = r]
        /\ inbox' = [inbox EXCEPT ![s] = Tail(@)]
        /\ cpc' = [cpc EXCEPT ![c] = "idle"]
        /\ UNCHANGED <<sockbuf, reqQ, replQ, mreq, wreq, sent>>
    BY <1>10, <1>T, SockAssumption DEF ClientRecv, TypeOK, serverVars, queueVars
  <2>2. /\ r \in Request /\ Has(inbox[s], r.cln) /\ NoDup(Tail(inbox[s]))
        /\ ~Has(Tail(inbox[s]), r.cln)
        /\ \A d : Has(Tail(inbox[s]), d) => Has(inbox[s], d)
    BY <2>1, <1>T, TailFacts DEF OnePlace
  <2>3. IsCurrent(r) /\ AllCurrent(Tail(inbox[s]))
    BY <2>1, <1>T, CurrentQueues DEF Current
  <2>4. r.cln = c
    <3>1. Len(inbox[s]) > 0 /\ r = inbox[s][1] /\ Len(inbox[s]) \in Nat
      BY <2>1
    <3>2. SockOf[r.cln] = s
      BY <2>1, <3>1, <1>T DEF Routed
    <3>3. QED  BY <3>2, <2>2, <1>a DEF OwnSockets
  <2>5. /\ inbox'[s] = Tail(inbox[s])
        /\ \A t \in Socks : t # s => inbox'[t] = inbox[t]
        /\ cpc'[c] = "idle" /\ got'[c] = r
        /\ \A d \in Clients : d # c => cpc'[d] = cpc[d] /\ got'[d] = got[d]
    BY <2>1, <1>T DEF TypeOK
  <2>6. /\ ~Has(sockbuf, c) /\ ~Has(reqQ, c) /\ ~Has(replQ, c)
        /\ ~InMain(c) /\ ~InWorker(c)
    BY <2>2, <2>4, <1>T DEF OnePlace, Apart, InInbox
  <2>7. \A t \in Socks : ~Has(inbox'[t], c)
    <3>1. ASSUME NEW t \in Socks, t # s PROVE ~Has(inbox[t], c)
      BY <3>1, <1>T DEF Routed, Has
    <3>2. QED  BY <2>2, <2>4, <2>5, <3>1
  <2>8. OnePlace'
    <3>1. \A t \in Socks : NoDup(inbox'[t])
      BY <1>T, <2>2, <2>5 DEF OnePlace
    <3>2. \A d \in Clients : InInbox(d)' => InInbox(d)
      BY <2>2, <2>5, SockAssumption DEF InInbox
    <3>3. \A d \in Clients : Apart(d)'
      BY <1>T, <2>1, <3>2 DEF OnePlace, Apart, InMain, InWorker
    <3>4. QED  BY <1>T, <2>1, <3>1, <3>3 DEF OnePlace
  <2>9. ASSUME NEW q \in Seq(Request), AllCurrent(q), ~Has(q, c)
        PROVE  \A i \in 1..Len(q) : q[i].n = sent'[q[i].cln] /\ cpc'[q[i].cln] # "idle"
    <3>1. \A i \in 1..Len(q) : q[i].cln \in Clients /\ q[i].cln # c
      BY <2>9, <1>a DEF Has
    <3>2. QED  BY <3>1, <2>1, <2>5, <2>9 DEF AllCurrent
  <2>10. Current'
    <3>1. AllCurrent(sockbuf)' /\ AllCurrent(reqQ)' /\ AllCurrent(replQ)'
      <4>1. /\ sockbuf \in Seq(Request) /\ reqQ \in Seq(Request)
            /\ replQ \in Seq(Request)
            /\ AllCurrent(sockbuf) /\ AllCurrent(reqQ) /\ AllCurrent(replQ)
        BY <1>T DEF Current, TypeOK
      <4>2. AllCurrent(sockbuf)'
        <5>1. \A i \in 1..Len(sockbuf) :
                sockbuf[i].n = sent'[sockbuf[i].cln] /\ cpc'[sockbuf[i].cln] # "idle"
          BY <2>6, <2>9, <4>1
        <5>2. QED  BY <2>1, <5>1 DEF AllCurrent
      <4>3. AllCurrent(reqQ)'
        <5>1. \A i \in 1..Len(reqQ) :
                reqQ[i].n = sent'[reqQ[i].cln] /\ cpc'[reqQ[i].cln] # "idle"
          BY <2>6, <2>9, <4>1
        <5>2. QED  BY <2>1, <5>1 DEF AllCurrent
      <4>4. AllCurrent(replQ)'
        <5>1. \A i \in 1..Len(replQ) :
                replQ[i].n = sent'[replQ[i].cln] /\ cpc'[replQ[i].cln] # "idle"
          BY <2>6, <2>9, <4>1
        <5>2. QED  BY <2>1, <5>1 DEF AllCurrent
      <4>5. QED  BY <4>2, <4>3, <4>4
    <3>2. \A t \in Socks : AllCurrent(inbox[t])'
      <4>1. \A t \in Socks : inbox'[t] \in Seq(Request) /\ AllCurrent(inbox'[t])
        BY <1>T, <2>1, <2>3, <2>5 DEF Current, TypeOK
      <4>2. QED  BY <2>7, <2>9, <4>1 DEF AllCurrent
    <3>3. mreq' # None => IsCurrent(mreq)'
      BY <2>1, <2>5, <2>6, <1>T, <1>a DEF Current, IsCurrent, InMain, TypeOK
    <3>4. \A w \in Workers : wreq'[w] # None => IsCurrent(wreq[w])'
      <4> SUFFICES ASSUME NEW w \in Workers, wreq[w] # None
                   PROVE  wreq[w].n = sent'[wreq[w].cln] /\ cpc'[wreq[w].cln] # "idle"
        BY <2>1 DEF IsCurrent
      <4>1. wreq[w] \in Request /\ wreq[w].cln # c
        BY <2>6, <1>T DEF InWorker, TypeOK
      <4>2. QED  BY <2>1, <2>5, <4>1, <1>T, <1>a DEF Current, IsCurrent
    <3>5. QED  BY <3>1, <3>2, <3>3, <3>4 DEF Current
  <2>11. Routed'
    <3>1. /\ Len(Tail(inbox[s])) = Len(inbox[s]) - 1 /\ Len(inbox[s]) \in Nat
          /\ \A i \in 1..Len(Tail(inbox[s])) : Tail(inbox[s])[i] = inbox[s][i + 1]
      BY <2>1
    <3>2. QED  BY <1>T, <2>1, <2>5, <3>1 DEF Routed
  <2>12. AnswerMatches'
    BY <1>T, <1>a, <2>1, <2>2, <2>3, <2>4, <2>5 DEF AnswerMatches, IsCurrent
  <2>13. QED  BY <2>8, <2>10, <2>11, <2>12
<1>11. ASSUME NEW c \in Clients, ClientFails(c) PROVE Goal
  <2>1. /\ cpc' = [cpc EXCEPT ![c] = "gone"]
        /\ UNCHANGED <<sockbuf, reqQ, replQ, inbox, mreq, wreq, sent, got>>
    BY <1>11 DEF ClientFails, serverVars, queueVars
  <2>2. \A d \in Clients : cpc'[d] = "gone" \/ cpc'[d] = cpc[d]
    BY <2>1, <1>T DEF TypeOK
  <2>3. OnePlace' /\ Routed' /\ AnswerMatches'
    BY <1>T, <2>1, <2>2 DEF OnePlace, Apart, InMain, InWorker, InInbox, Routed,
                            AnswerMatches
  <2>4. ASSUME NEW q \in Seq(Request), AllCurrent(q)
        PROVE  \A i \in 1..Len(q) : q[i].n = sent'[q[i].cln] /\ cpc'[q[i].cln] # "idle"
    <3>1. \A i \in 1..Len(q) : q[i].cln \in Clients
      BY <2>4, <1>a
    <3>2. QED  BY <3>1, <2>1, <2>2, <2>4 DEF AllCurrent
  <2>5. Current'
    <3>1. AllCurrent(sockbuf)' /\ AllCurrent(reqQ)' /\ AllCurrent(replQ)'
      <4>1. /\ sockbuf \in Seq(Request) /\ reqQ \in Seq(Request)
            /\ replQ \in Seq(Request)
            /\ AllCurrent(sockbuf) /\ AllCurrent(reqQ) /\ AllCurrent(replQ)
        BY <1>T DEF Current, TypeOK
      <4>2. AllCurrent(sockbuf)'
        BY <2>1, <2>4, <4>1 DEF AllCurrent
      <4>3. AllCurrent(reqQ)'
        BY <2>1, <2>4, <4>1 DEF AllCurrent
      <4>4. AllCurrent(replQ)'
        BY <2>1, <2>4, <4>1 DEF AllCurrent
      <4>5. QED  BY <4>2, <4>3, <4>4
    <3>2. \A t \in Socks : AllCurrent(inbox[t])'
      <4>1. \A t \in Socks : inbox[t] \in Seq(Request) /\ AllCurrent(inbox[t])
        BY <1>T DEF Current, TypeOK
      <4>2. QED  BY <2>1, <2>4, <4>1 DEF AllCurrent
    <3>3. mreq' # None => IsCurrent(mreq)'
      BY <2>1, <2>2, <1>T, <1>a DEF Current, IsCurrent, TypeOK
    <3>4. \A w \in Workers : wreq'[w] # None => IsCurrent(wreq[w])'
      <4> SUFFICES ASSUME NEW w \in Workers, wreq[w] # None
                   PROVE  wreq[w].n = sent'[wreq[w].cln] /\ cpc'[wreq[w].cln] # "idle"
        BY <2>1 DEF IsCurrent
      <4>1. wreq[w] \in Request
        BY <1>T DEF TypeOK
      <4>2. QED  BY <2>1, <2>2, <4>1, <1>T, <1>a DEF Current, IsCurrent
    <3>5. QED  BY <3>1, <3>2, <3>3, <3>4 DEF Current
  <2>6. QED  BY <2>3, <2>5
<1>12. Goal
  BY <1>1, <1>2, <1>3, <1>4, <1>5, <1>6, <1>7, <1>8, <1>9, <1>10, <1>11
  DEF Next, Main, Worker, MainExit, MainFails
<1>13. QED  BY <1>0, <1>12 DEF IInv

\* The strengthened invariant holds in every run, when every client has a
\* socket of its own.
LEMMA InvHolds ==
  ASSUME OwnSockets
  PROVE  Spec => []IInv
<1>1. IInv /\ [Next]_vars => IInv'
  BY InvStep
<1>2. QED  BY InvInit, <1>1, PTL DEF Spec

\* Every client.c process that has its answer has the answer to the request it
\* sent last, whatever calls fail and however often the server exits and finds
\* its old kernel queue again (server_core.c 50-183, client.c 46-67).
THEOREM AnswerCorrect ==
  ASSUME OwnSockets
  PROVE  Spec => []AnswerMatches
<1>1. IInv => AnswerMatches
  BY DEF IInv
<1>2. QED  BY InvHolds, <1>1, PTL

\* A client whose request is in neither half of the kernel queue leaves a slot
\* free: the queue holds at most one message of each other client.
LEMMA FreeSlot ==
  ASSUME TypeOK, OnePlace, IsFiniteSet(Clients), Cardinality(Clients) <= QCap,
         NEW x \in Clients, ~Has(reqQ, x), ~Has(replQ, x)
  PROVE  QueueHasRoom
<1> DEFINE m == Len(reqQ)
           n == Len(replQ)
           f == [i \in 1..(m + n + 1) |->
                   IF i <= m THEN reqQ[i].cln
                   ELSE IF i <= m + n THEN replQ[i - m].cln ELSE x]
<1>1. m \in Nat /\ n \in Nat /\ QCap \in Nat /\ Cardinality(Clients) \in Nat
  BY FS_CardinalityType, BoundAssumption DEF TypeOK
<1>2. /\ \A i \in 1..m : reqQ[i].cln \in Clients /\ Has(reqQ, reqQ[i].cln)
      /\ \A i \in 1..n : replQ[i].cln \in Clients /\ Has(replQ, replQ[i].cln)
  <2>1. /\ \A i \in 1..m : reqQ[i] \in Request
        /\ \A i \in 1..n : replQ[i] \in Request
    BY DEF TypeOK
  <2>2. QED  BY <2>1 DEF Request, Has
<1>3. f \in [1..(m + n + 1) -> Clients]
  BY <1>1, <1>2
<1>4. ASSUME NEW i \in 1..(m + n + 1), NEW j \in 1..(m + n + 1), f[i] = f[j]
      PROVE  i = j
  <2>1. \A k \in 1..m, l \in 1..n : reqQ[k].cln # replQ[l].cln
    BY <1>2 DEF OnePlace, Apart
  <2>2. /\ \A k \in 1..m : reqQ[k].cln # x
        /\ \A l \in 1..n : replQ[l].cln # x
    BY <1>2
  <2>3. /\ \A k, l \in 1..m : reqQ[k].cln = reqQ[l].cln => k = l
        /\ \A k, l \in 1..n : replQ[k].cln = replQ[l].cln => k = l
    BY DEF OnePlace, NoDup
  <2>4. \A k \in 1..(m + n + 1) :
          \/ k \in 1..m /\ f[k] = reqQ[k].cln
          \/ k > m /\ k - m \in 1..n /\ f[k] = replQ[k - m].cln
          \/ k = m + n + 1 /\ f[k] = x
    BY <1>1
  <2>5. QED  BY <1>1, <1>4, <2>1, <2>2, <2>3, <2>4
<1>5. IsFiniteSet(1..(m + n + 1)) /\ Cardinality(1..(m + n + 1)) = m + n + 1
  <2>1. 1 \in Int /\ m + n + 1 \in Int /\ ~(1 > m + n + 1)
    BY <1>1
  <2>2. /\ IsFiniteSet(1..(m + n + 1))
        /\ Cardinality(1..(m + n + 1)) = (m + n + 1) - 1 + 1
    BY <2>1, FS_Interval
  <2>3. QED  BY <2>2, <1>1
<1>6. ~(Cardinality(Clients) < m + n + 1)
  <2> HIDE DEF f
  <2>1. SUFFICES ASSUME Cardinality(Clients) < Cardinality(1..(m + n + 1))
                 PROVE  FALSE
    BY <1>5
  <2>2. \E i, j \in 1..(m + n + 1) : i # j /\ f[i] = f[j]
    BY <1>3, <1>5, <2>1, FS_PigeonHole
  <2>3. QED  BY <1>4, <2>2
<1>7. QED  BY <1>1, <1>6 DEF QueueHasRoom

\* With at most QCap clients no thread of the server ever waits for room in
\* the queue that requests and replies share, so that the main thread, the only
\* reader of replies, cannot be stuck behind replies (server_core.c 104, 173).
THEOREM Capacity ==
  ASSUME OwnSockets, IsFiniteSet(Clients), Cardinality(Clients) <= QCap
  PROVE  Spec => []NoSenderBlocks
<1>1. ASSUME IInv PROVE NoSenderBlocks
  <2>1. TypeOK /\ Shape /\ OnePlace
    BY <1>1 DEF IInv, TypeInv
  <2>a. \A r \in Request : r.cln \in Clients
    BY DEF Request
  <2>2. CASE mpc = "put"
    <3>1. mreq \in Request /\ InMain(mreq.cln)
      BY <2>1, <2>2 DEF TypeOK, Shape, InMain
    <3>2. ~Has(reqQ, mreq.cln) /\ ~Has(replQ, mreq.cln)
      BY <2>1, <2>a, <3>1 DEF OnePlace, Apart
    <3>3. QED  BY <2>1, <2>a, <3>1, <3>2, FreeSlot DEF NoSenderBlocks
  <2>3. ASSUME NEW w \in Workers, wpc[w] = "snd" PROVE QueueHasRoom
    <3>1. wreq[w] \in Request /\ InWorker(wreq[w].cln)
      BY <2>1, <2>3 DEF TypeOK, Shape, InWorker
    <3>2. ~Has(reqQ, wreq[w].cln) /\ ~Has(replQ, wreq[w].cln)
      BY <2>1, <2>a, <3>1 DEF OnePlace, Apart
    <3>3. QED  BY <2>1, <2>a, <3>1, <3>2, FreeSlot
  <2>4. QED  BY <2>2, <2>3 DEF NoSenderBlocks
<1>2. QED  BY InvHolds, <1>1, PTL
-----------------------------------------------------------------------------
(* The server implements ReplyService *)

\* What became of the last request of c: requestState, client by client.
StateOf(c) ==
  IF cpc[c] = "gone" THEN "left"
  ELSE IF cpc[c] = "idle" THEN "idle"
  ELSE IF inbox[SockOf[c]] # <<>> THEN "answered"
  ELSE IF InServer(c) THEN "pending" ELSE "lost"

\* The refinement mapping is StateOf for every client.
LEMMA StateOfClient ==
  TypeOK => requestState = [c \in Clients |-> StateOf(c)]
<1> SUFFICES ASSUME TypeOK PROVE requestState = [c \in Clients |-> StateOf(c)]
  OBVIOUS
<1>1. \A c \in Clients : cpc[c] \in {"idle", "wait", "gone"}
  BY DEF TypeOK
<1>2. ASSUME NEW c \in Clients
      PROVE  (CASE cpc[c] = "gone" -> "left"
                [] cpc[c] = "idle" -> "idle"
                [] cpc[c] = "wait" /\ inbox[SockOf[c]] # <<>> -> "answered"
                [] cpc[c] = "wait" /\ inbox[SockOf[c]] = <<>> /\ InServer(c) -> "pending"
                [] OTHER -> "lost") = StateOf(c)
  BY <1>1 DEF StateOf
<1>3. QED  BY <1>2 DEF requestState

\* A socket holds answers to its own client only, so that a client whose request
\* is elsewhere, or that has asked for nothing, has an empty one.
LEMMA OwnInbox ==
  ASSUME OwnSockets, IInv, NEW c \in Clients, ~InInbox(c)
  PROVE  inbox[SockOf[c]] = <<>>
<1>1. SockOf[c] \in Socks /\ inbox[SockOf[c]] \in Seq(Request)
  BY SockAssumption DEF IInv, TypeInv, TypeOK
<1>2. ASSUME inbox[SockOf[c]] # <<>> PROVE FALSE
  <2>1. Len(inbox[SockOf[c]]) \in Nat /\ 1 \in 1..Len(inbox[SockOf[c]])
    BY <1>1, <1>2
  <2>2. inbox[SockOf[c]][1] \in Request
    BY <1>1, <2>1
  <2>3. inbox[SockOf[c]][1].cln \in Clients
    BY <2>2 DEF Request
  <2>4. SockOf[inbox[SockOf[c]][1].cln] = SockOf[c]
    BY <1>1, <2>1 DEF IInv, Routed
  <2>5. inbox[SockOf[c]][1].cln = c
    BY <2>3, <2>4 DEF OwnSockets
  <2>6. QED  BY <2>1, <2>5 DEF InInbox, Has
<1>3. QED  BY <1>2

\* A client that is idle has nothing in the server and nothing in its socket.
LEMMA IdleEmpty ==
  ASSUME OwnSockets, IInv, NEW c \in Clients, cpc[c] = "idle"
  PROVE  ~InServer(c) /\ inbox[SockOf[c]] = <<>>
<1>1. TypeOK /\ Current
  BY DEF IInv, TypeInv
<1>2. SockOf[c] \in Socks /\ inbox[SockOf[c]] \in Seq(Request)
  BY <1>1, SockAssumption DEF TypeOK
<1>3. ~Has(sockbuf, c) /\ ~Has(reqQ, c) /\ ~Has(replQ, c)
  BY <1>1, CurrentClient DEF TypeOK, Current
<1>4. ~InInbox(c)
  BY <1>1, <1>2, CurrentClient DEF Current, InInbox
<1>5. ~InServer(c)
  BY <1>1, <1>3 DEF Current, IsCurrent, InServer
<1>6. QED  BY <1>4, <1>5, OwnInbox

\* No request is lost, answered or withdrawn: the clients' states stay.
LEMMA SameStates ==
  ASSUME TypeOK, TypeOK', \A c \in Clients : StateOf(c)' = StateOf(c)
  PROVE  requestState' = requestState
<1>1. requestState = [c \in Clients |-> StateOf(c)]
  BY StateOfClient
<1>2. (requestState = [c \in Clients |-> StateOf(c)])'
  BY StateOfClient, PTL
<1>3. QED  BY <1>1, <1>2

\* The state of one client changes.
LEMMA OneState ==
  ASSUME TypeOK, TypeOK', NEW d \in Clients,
         \A c \in Clients : c # d => StateOf(c)' = StateOf(c)
  PROVE  /\ requestState[d] = StateOf(d)
         /\ requestState' = [requestState EXCEPT ![d] = StateOf(d)']
<1>1. requestState = [c \in Clients |-> StateOf(c)]
  BY StateOfClient
<1>2. (requestState = [c \in Clients |-> StateOf(c)])'
  BY StateOfClient, PTL
<1>3. QED  BY <1>1, <1>2

\* Every step of the server, its workers and its clients is a step of the service
\* or changes nothing the service speaks of.
LEMMA RefinesStep ==
  ASSUME OwnSockets, IInv, IInv', [Next]_vars
  PROVE  [Service!Next]_requestState
<1>T. /\ TypeOK /\ Shape /\ OnePlace /\ Current /\ Routed /\ TypeOK'
      /\ \A c \in Clients : SockOf[c] \in Socks
  BY SockAssumption DEF IInv, TypeInv
<1>a. \A r \in Request : r.cln \in Clients /\ r # None
  BY NoneAssumption DEF Request
<1>1. ASSUME UNCHANGED <<cpc, inbox>>, \A c \in Clients : InServer(c)' <=> InServer(c)
      PROVE  requestState' = requestState
  <2>1. \A c \in Clients : StateOf(c)' = StateOf(c)
    BY <1>1 DEF StateOf
  <2>2. QED  BY <1>T, <2>1, SameStates
<1>2. ASSUME UNCHANGED <<cpc, inbox>>, \A c \in Clients : InServer(c)' => InServer(c)
      PROVE  [Service!Next]_requestState
  <2> DEFINE S == {c \in Clients : StateOf(c) = "pending" /\ StateOf(c)' # "pending"}
  <2>1. \A c \in Clients : /\ c \in S => StateOf(c) = "pending" /\ StateOf(c)' = "lost"
                           /\ c \notin S => StateOf(c)' = StateOf(c)
    BY <1>2 DEF StateOf
  <2>2. requestState = [c \in Clients |-> StateOf(c)]
    BY <1>T, StateOfClient
  <2>3. (requestState = [c \in Clients |-> StateOf(c)])'
    BY <1>T, StateOfClient, PTL
  <2>4. /\ \A c \in S : requestState[c] = "pending"
        /\ requestState' = [c \in Clients |-> IF c \in S THEN "lost" ELSE requestState[c]]
    BY <2>1, <2>2, <2>3
  <2>5. Service!Lose(S) /\ S \in SUBSET Clients
    BY <2>4 DEF Service!Lose
  <2>6. QED  BY <2>5 DEF Service!Next
<1>3. ASSUME MainNoRequest \/ MainNoReply \/ Restart \/ UNCHANGED vars
      PROVE  [Service!Next]_requestState
  <2>1. UNCHANGED <<sockbuf, reqQ, replQ, inbox, mreq, wreq, cpc>>
    BY <1>3 DEF MainNoRequest, MainNoReply, Restart, vars, serverVars, queueVars,
                clientVars
  <2>2. QED  BY <1>1, <2>1 DEF InServer, Has
<1>4. ASSUME MainRequest PROVE [Service!Next]_requestState
  <2>1. /\ sockbuf # <<>> /\ sockbuf' = Tail(sockbuf) /\ mreq' = Head(sockbuf)
        /\ UNCHANGED <<reqQ, replQ, inbox, wreq, cpc>>
    BY <1>4 DEF MainRequest, queueVars, clientVars
  <2>2. /\ mreq' \in Request /\ \A c : Has(sockbuf', c) => Has(sockbuf, c)
        /\ Has(sockbuf, mreq'.cln) /\ mreq' # None /\ mreq = None
    BY <1>4, <2>1, <1>T, <1>a, TailFacts DEF TypeOK, Shape, MainRequest
  <2>3. \A c \in Clients : InServer(c)' => InServer(c)
    BY <2>1, <2>2 DEF InServer
  <2>4. QED  BY <1>2, <2>1, <2>3
<1>5. ASSUME Shutdown PROVE [Service!Next]_requestState
  <2>1. /\ sockbuf' = <<>> /\ mreq' = None /\ wreq' = [w \in Workers |-> None]
        /\ UNCHANGED <<reqQ, replQ, inbox, cpc>>
    BY <1>5 DEF Shutdown, queueVars, clientVars
  <2>2. \A c \in Clients : InServer(c)' => InServer(c)
    BY <2>1, EmptyFacts DEF InServer
  <2>3. QED  BY <1>2, <2>1, <2>2
<1>6. ASSUME MainPut PROVE [Service!Next]_requestState
  <2>1. /\ mreq \in Request /\ reqQ' = Append(reqQ, mreq) /\ mreq' = None
        /\ UNCHANGED <<sockbuf, replQ, inbox, wreq, cpc>>
    BY <1>6, <1>T DEF MainPut, Shape, TypeOK, clientVars
  <2>2. \A c : Has(reqQ', c) <=> Has(reqQ, c) \/ mreq.cln = c
    BY <2>1, <1>T, HasAppend DEF TypeOK
  <2>3. \A c \in Clients : InServer(c)' => InServer(c)
    BY <1>a, <2>1, <2>2 DEF InServer
  <2>4. QED  BY <1>2, <2>1, <2>3
<1>7. ASSUME MainReply PROVE [Service!Next]_requestState
  <2>a. Head(replQ) \in Request
    BY <1>7, <1>T, TailFacts DEF MainReply, TypeOK
  <2>b. PICK d \in Clients : d = Head(replQ).cln
    BY <1>a, <2>a
  <2> DEFINE s == SockOf[d]
  <2>1. /\ replQ # <<>> /\ replQ' = Tail(replQ)
        /\ UNCHANGED <<sockbuf, reqQ, mreq, wreq, cpc>>
        /\ \/ inbox' = inbox
           \/ inbox' = [inbox EXCEPT ![s] = Append(@, Head(replQ))]
    BY <1>7, <2>b DEF MainReply, clientVars
  <2>2. /\ Head(replQ) \in Request /\ Has(replQ, d)
        /\ ~Has(replQ', d) /\ \A c : Has(replQ', c) => Has(replQ, c)
    BY <2>1, <2>b, <1>T, TailFacts DEF TypeOK, OnePlace
  <2>3. \A c \in Clients : InServer(c)' => InServer(c)
    BY <2>1, <2>2 DEF InServer
  <2>4. CASE inbox' = inbox
    BY <1>2, <2>1, <2>3, <2>4
  <2>5. CASE inbox' = [inbox EXCEPT ![s] = Append(@, Head(replQ))]
    <3>1. d \in Clients /\ s \in Socks /\ inbox[s] \in Seq(Request)
      BY <1>T, <1>a, <2>2 DEF TypeOK
    <3>2. inbox'[s] # <<>> /\ \A t \in Socks : t # s => inbox'[t] = inbox[t]
      <4>1. inbox'[s] = Append(inbox[s], Head(replQ))
        BY <2>5, <3>1, <1>T DEF TypeOK
      <4>2. inbox'[s] # <<>>
        <5>1. Len(Append(inbox[s], Head(replQ))) = Len(inbox[s]) + 1 /\ Len(inbox[s]) \in Nat
          BY <2>2, <3>1
        <5>2. Len(inbox'[s]) # 0
          BY <4>1, <5>1
        <5>3. QED  BY <5>2
      <4>3. QED  BY <2>5, <3>1, <4>2, <1>T DEF TypeOK
    <3>3. inbox[s] = <<>> /\ InServer(d)
      <4>1. ~InInbox(d)
        BY <1>T, <2>2, <3>1 DEF OnePlace, Apart
      <4>2. QED  BY <2>2, <3>1, <4>1, OwnInbox DEF InServer
    <3>4. \A c \in Clients : c # d => StateOf(c)' = StateOf(c)
      <4>1. ASSUME NEW c \in Clients, c # d PROVE StateOf(c)' = StateOf(c)
        <5>1. SockOf[c] # s /\ SockOf[c] \in Socks
          BY <1>T, <3>1, <4>1 DEF OwnSockets
        <5>2. Has(replQ', c) <=> Has(replQ, c)
          <6>1. /\ Len(replQ) \in Nat /\ Len(replQ) > 0
                /\ Len(Tail(replQ)) = Len(replQ) - 1
                /\ \A i \in 1..Len(Tail(replQ)) : Tail(replQ)[i] = replQ[i + 1]
                /\ Head(replQ) = replQ[1]
            BY <2>1, <1>T DEF TypeOK
          <6>2. ASSUME NEW i \in 1..Len(replQ), replQ[i].cln = c PROVE Has(Tail(replQ), c)
            <7>1. i - 1 \in 1..Len(Tail(replQ)) /\ Tail(replQ)[i - 1] = replQ[i]
              BY <6>1, <6>2, <4>1, <2>b
            <7>2. QED  BY <6>2, <7>1 DEF Has
          <6>3. QED  BY <2>1, <2>2, <6>2 DEF Has
        <5>3. InServer(c)' <=> InServer(c)
          BY <2>1, <5>2 DEF InServer
        <5>4. inbox'[SockOf[c]] = inbox[SockOf[c]] /\ cpc'[c] = cpc[c]
          BY <2>1, <3>2, <5>1
        <5>5. QED  BY <5>3, <5>4 DEF StateOf
      <4>2. QED  BY <4>1
    <3>5. \/ StateOf(d)' = StateOf(d)
          \/ StateOf(d) = "pending" /\ StateOf(d)' = "answered"
      BY <2>1, <3>2, <3>3 DEF StateOf
    <3>6. CASE StateOf(d)' = StateOf(d)
      BY <1>T, <3>4, <3>6, SameStates
    <3>7. CASE StateOf(d) = "pending" /\ StateOf(d)' = "answered"
      <4>1. Service!Answer(d)
        BY <1>T, <3>1, <3>4, <3>7, OneState DEF Service!Answer
      <4>2. QED  BY <3>1, <4>1 DEF Service!Next
    <3>8. QED  BY <3>5, <3>6, <3>7
  <2>6. QED  BY <2>1, <2>4, <2>5
<1>8. ASSUME NEW w \in Workers, WorkerTake(w) PROVE [Service!Next]_requestState
  <2>1. /\ reqQ # <<>> /\ reqQ' = Tail(reqQ) /\ wreq' = [wreq EXCEPT ![w] = Head(reqQ)]
        /\ UNCHANGED <<sockbuf, replQ, inbox, mreq, cpc>>
    BY <1>8 DEF WorkerTake, clientVars
  <2>2. /\ Has(reqQ, Head(reqQ).cln) /\ \A c : Has(reqQ', c) => Has(reqQ, c)
    BY <2>1, <1>T, TailFacts DEF TypeOK
  <2>3. \A v \in Workers : wreq'[v] = IF v = w THEN Head(reqQ) ELSE wreq[v]
    BY <2>1, <1>T DEF TypeOK
  <2>4. \A c \in Clients : InServer(c)' => InServer(c)
    BY <2>1, <2>2, <2>3 DEF InServer
  <2>5. QED  BY <1>2, <2>1, <2>4
<1>9. ASSUME NEW w \in Workers, WorkerReply(w) PROVE [Service!Next]_requestState
  <2>1. /\ wreq[w] \in Request /\ replQ' = Append(replQ, wreq[w])
        /\ wreq' = [wreq EXCEPT ![w] = None]
        /\ UNCHANGED <<sockbuf, reqQ, inbox, mreq, cpc>>
    BY <1>9, <1>T DEF WorkerReply, Shape, TypeOK, clientVars
  <2>2. \A c : Has(replQ', c) <=> Has(replQ, c) \/ wreq[w].cln = c
    BY <2>1, <1>T, HasAppend DEF TypeOK
  <2>3. \A v \in Workers : wreq'[v] = IF v = w THEN None ELSE wreq[v]
    BY <2>1, <1>T DEF TypeOK
  <2>4. \A c \in Clients : InServer(c)' => InServer(c)
    BY <1>a, <2>1, <2>2, <2>3 DEF InServer
  <2>5. QED  BY <1>2, <2>1, <2>4
<1>10. ASSUME NEW w \in Workers, WorkerFails(w) PROVE [Service!Next]_requestState
  <2>1. /\ wreq' = [wreq EXCEPT ![w] = None]
        /\ UNCHANGED <<sockbuf, reqQ, replQ, inbox, mreq, cpc>>
    BY <1>10 DEF WorkerFails, queueVars, clientVars
  <2>2. \A v \in Workers : wreq'[v] = IF v = w THEN None ELSE wreq[v]
    BY <2>1, <1>T DEF TypeOK
  <2>3. \A c \in Clients : InServer(c)' => InServer(c)
    BY <2>1, <2>2 DEF InServer, Has
  <2>4. QED  BY <1>2, <2>1, <2>3
<1>11. ASSUME NEW d \in Clients, NEW text \in Texts, ClientSend(d, text)
       PROVE  [Service!Next]_requestState
  <2> DEFINE r == [cln |-> d, n |-> sent[d] + 1, text |-> text]
  <2>1. /\ cpc[d] = "idle" /\ cpc' = [cpc EXCEPT ![d] = IF text = "exit" THEN "gone" ELSE "wait"]
        /\ sockbuf' = sockbuf \/ sockbuf' = Append(sockbuf, r)
        /\ UNCHANGED <<reqQ, replQ, inbox, mreq, wreq>>
    BY <1>11 DEF ClientSend, serverVars, queueVars
  <2>2. r \in Request
    BY <1>11, <1>T, BoundAssumption DEF ClientSend, TypeOK, Request
  <2>3. \A c \in Clients : c # d => (InServer(c)' <=> InServer(c))
    <3>1. \A c : c # d => (Has(sockbuf', c) <=> Has(sockbuf, c))
      <4>1. CASE sockbuf' = sockbuf
        BY <4>1
      <4>2. CASE sockbuf' = Append(sockbuf, r)
        <5>1. sockbuf \in Seq(Request) /\ r.cln = d
          BY <1>T DEF TypeOK
        <5>2. QED  BY <2>2, <4>2, <5>1, HasAppend
      <4>3. QED  BY <2>1, <4>1, <4>2
    <3>2. QED  BY <2>1, <3>1 DEF InServer
  <2>4. \A c \in Clients : cpc'[c] = IF c = d THEN (IF text = "exit" THEN "gone" ELSE "wait")
                                     ELSE cpc[c]
    BY <2>1, <1>T DEF TypeOK
  <2>5. \A c \in Clients : c # d => StateOf(c)' = StateOf(c)
    BY <2>1, <2>3, <2>4 DEF StateOf
  <2>6. inbox[SockOf[d]] = <<>>
    BY <2>1, IdleEmpty
  <2>7. StateOf(d) = "idle" /\ StateOf(d)' \in {"left", "pending", "lost"}
    BY <2>1, <2>4, <2>6 DEF StateOf
  <2>8. /\ requestState[d] = "idle"
        /\ requestState' = [requestState EXCEPT ![d] = StateOf(d)']
    BY <1>T, <2>5, <2>7, OneState
  <2>9. Service!Ask(d) \/ Service!Leave(d)
    BY <2>7, <2>8 DEF Service!Ask, Service!Leave
  <2>10. QED  BY <2>9 DEF Service!Next
<1>12. ASSUME NEW d \in Clients, ClientRecv(d) PROVE [Service!Next]_requestState
  <2>1. /\ cpc[d] = "wait" /\ inbox[SockOf[d]] # <<>> /\ cpc' = [cpc EXCEPT ![d] = "idle"]
        /\ inbox' = [inbox EXCEPT ![SockOf[d]] = Tail(@)]
        /\ UNCHANGED <<sockbuf, reqQ, replQ, mreq, wreq>>
    BY <1>12 DEF ClientRecv, serverVars, queueVars
  <2>2. \A c \in Clients : c # d => /\ cpc'[c] = cpc[c]
                                    /\ inbox'[SockOf[c]] = inbox[SockOf[c]]
    BY <2>1, <1>T DEF TypeOK, OwnSockets
  <2>3. \A c \in Clients : InServer(c)' <=> InServer(c)
    BY <2>1 DEF InServer, Has
  <2>4. \A c \in Clients : c # d => StateOf(c)' = StateOf(c)
    BY <2>2, <2>3 DEF StateOf
  <2>5. StateOf(d) = "answered" /\ StateOf(d)' = "idle"
    BY <2>1, <1>T DEF StateOf, TypeOK
  <2>6. Service!Accept(d)
    BY <1>T, <2>4, <2>5, OneState DEF Service!Accept
  <2>7. QED  BY <2>6 DEF Service!Next
<1>13. ASSUME NEW d \in Clients, ClientFails(d) PROVE [Service!Next]_requestState
  <2>1. /\ cpc[d] # "gone" /\ cpc' = [cpc EXCEPT ![d] = "gone"]
        /\ UNCHANGED <<sockbuf, reqQ, replQ, inbox, mreq, wreq>>
    BY <1>13 DEF ClientFails, serverVars, queueVars
  <2>2. \A c \in Clients : cpc'[c] = IF c = d THEN "gone" ELSE cpc[c]
    BY <2>1, <1>T DEF TypeOK
  <2>3. \A c \in Clients : InServer(c)' <=> InServer(c)
    BY <2>1 DEF InServer, Has
  <2>4. \A c \in Clients : c # d => StateOf(c)' = StateOf(c)
    BY <2>1, <2>2, <2>3 DEF StateOf
  <2>5. StateOf(d) # "left" /\ StateOf(d)' = "left"
    BY <2>1, <2>2 DEF StateOf
  <2>6. Service!Leave(d)
    BY <1>T, <2>4, <2>5, OneState DEF Service!Leave
  <2>7. QED  BY <2>6 DEF Service!Next
<1>14. QED
  BY <1>3, <1>4, <1>5, <1>6, <1>7, <1>8, <1>9, <1>10, <1>11, <1>12, <1>13
  DEF Next, Main, Worker, MainExit, MainFails

\* The server keeps the promise of ReplyService to every client that has a socket
\* of its own: one answer per request at most, and none to a request that was lost
\* in a full buffer, with a failed worker or with the process (server_core.c 50-183).
THEOREM Refines ==
  ASSUME OwnSockets
  PROVE  Spec => ImplementsReplyService
<1>1. ASSUME Init PROVE Service!Init
  <2>1. TypeOK /\ \A c \in Clients : cpc[c] = "idle"
    BY <1>1, TypeInit DEF TypeInv, Init
  <2>2. requestState = [c \in Clients |-> StateOf(c)] /\ \A c \in Clients : StateOf(c) = "idle"
    BY <2>1, StateOfClient DEF StateOf
  <2>3. QED  BY <2>2 DEF Service!Init
<1>2. IInv /\ IInv' /\ [Next]_vars => [Service!Next]_requestState
  BY RefinesStep
<1>3. QED  BY <1>1, <1>2, InvHolds, PTL DEF Spec, ImplementsReplyService, Service!Spec
=============================================================================
