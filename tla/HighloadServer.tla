--------------------------- MODULE HighloadServer ---------------------------
(***************************************************************************)
(* udp_highload_server.  One main thread moves datagrams from a            *)
(* non-blocking UDP socket into a System V message queue and replies out   *)
(* of the same queue back to the clients; REPL_THREAD worker threads turn  *)
(* requests into replies.                                                  *)
(*                                                                         *)
(* Requests (type 1) and replies (type 2) share one kernel queue.  msgrcv  *)
(* takes the oldest message of the type it asks for, so the queue is kept  *)
(* as two FIFO sequences that share the capacity QCap.  The queue belongs  *)
(* to the kernel: it survives the exit of the server.                      *)
(***************************************************************************)
EXTENDS Naturals, Sequences, FiniteSets

CONSTANTS
  Clients,     \* client processes (client.c) or threads (benchmark.c)
  Socks,       \* client socket addresses
  SockOf,      \* the socket each client uses
  Workers,     \* the REPL_THREAD reply threads
  Texts,       \* what clients may send: "date" is any request, "exit" stops
  QIds,        \* queue identifiers msgget may return
  QCap,        \* messages the kernel queue holds
  SockCap,     \* datagrams a socket buffer holds
  MaxSend,     \* bound: requests per client
  MaxRestart,  \* bound: restarts of the server process
  MayFail,     \* whether system calls may return errors
  None

ASSUME SockAssumption == SockOf \in [Clients -> Socks]
ASSUME BoundAssumption ==
  /\ QCap \in Nat /\ SockCap \in Nat /\ MaxSend \in Nat /\ MaxRestart \in Nat
  /\ MayFail \in BOOLEAN
ASSUME TextAssumption == Texts \subseteq {"date", "exit"}

\* n numbers the requests of a client; the program has no such field, it lets
\* the properties tell an answer to an old request from one to the last.
Request == [cln : Clients, n : 1..MaxSend, text : Texts]

ASSUME NoneAssumption == None \notin Request

VARIABLES
  up,        \* the server process runs
  qid,       \* identifier of the kernel queue
  sockbuf,   \* receive buffer of the server's socket
  mpc,       \* main thread: "recv", "put" (in msgsnd) or "get"
  mreq,      \* the request in reqs_msg while the main thread is in msgsnd
  reqQ,      \* messages of REQS_MSG_TYPE in the kernel queue
  replQ,     \* messages of REPL_MSG_TYPE in the kernel queue
  wpc,       \* worker: "rcv" (in msgrcv), "snd" (in msgsnd) or "dead"
  wreq,      \* the message a worker holds
  cpc,       \* client: "idle", "wait" (in recvfrom) or "gone"
  inbox,     \* receive buffer of each client socket
  sent,      \* number of requests each client has sent
  got,       \* the reply each client read last
  restarts

serverVars == <<up, mpc, mreq, wpc, wreq>>
queueVars  == <<qid, reqQ, replQ>>
clientVars == <<cpc, sent, got>>
vars == <<serverVars, queueVars, clientVars, sockbuf, inbox, restarts>>

TypeOK ==
  /\ up \in BOOLEAN
  /\ qid \in QIds
  /\ sockbuf \in Seq(Request)
  /\ mpc \in {"recv", "put", "get"}
  /\ mreq \in Request \cup {None}
  /\ reqQ \in Seq(Request)
  /\ replQ \in Seq(Request)
  /\ wpc \in [Workers -> {"rcv", "snd", "dead"}]
  /\ wreq \in [Workers -> Request \cup {None}]
  /\ cpc \in [Clients -> {"idle", "wait", "gone"}]
  /\ inbox \in [Socks -> Seq(Request)]
  /\ sent \in [Clients -> 0..MaxSend]
  /\ got \in [Clients -> Request \cup {None}]
  /\ restarts \in 0..MaxRestart

-----------------------------------------------------------------------------
(* Processes starting and stopping *)

\* A worker refuses to run when its argument, the queue identifier cast to a
\* pointer, is NULL: identifier 0 is valid for msgget and NULL for the worker.
WorkerStart == IF qid = 0 THEN "dead" ELSE "rcv"

Init ==
  /\ up = TRUE
  /\ qid \in QIds
  /\ sockbuf = <<>>
  /\ mpc = "recv"
  /\ mreq = None
  /\ reqQ = <<>>
  /\ replQ = <<>>
  /\ wpc = [w \in Workers |-> WorkerStart]
  /\ wreq = [w \in Workers |-> None]
  /\ cpc = [c \in Clients |-> "idle"]
  /\ inbox = [s \in Socks |-> <<>>]
  /\ sent = [c \in Clients |-> 0]
  /\ got = [c \in Clients |-> None]
  /\ restarts = 0

\* exit() in the main thread: the socket is closed with what it buffers, the
\* workers die with what they hold, the kernel queue stays.
Shutdown ==
  /\ up' = FALSE
  /\ sockbuf' = <<>>
  /\ mpc' = "recv"
  /\ mreq' = None
  /\ wpc' = [w \in Workers |-> "dead"]
  /\ wreq' = [w \in Workers |-> None]
  /\ UNCHANGED <<queueVars, clientVars, inbox, restarts>>

\* Somebody starts the server again; msgget(IPC_CREAT) finds the old queue.
Restart ==
  /\ ~up
  /\ restarts < MaxRestart
  /\ restarts' = restarts + 1
  /\ up' = TRUE
  /\ wpc' = [w \in Workers |-> WorkerStart]
  /\ UNCHANGED <<mpc, mreq, wreq, queueVars, clientVars, sockbuf, inbox>>

-----------------------------------------------------------------------------
(* Main thread: srv_reqs_hndl *)

QueueHasRoom == Len(reqQ) + Len(replQ) < QCap

\* recvfrom returns EAGAIN: the loop goes on to look for a reply.
MainNoRequest ==
  /\ up /\ mpc = "recv" /\ sockbuf = <<>>
  /\ mpc' = "get"
  /\ UNCHANGED <<up, mreq, wpc, wreq, queueVars, clientVars, sockbuf, inbox,
                 restarts>>

\* recvfrom returns a request: it is copied with the client's address.
MainRequest ==
  /\ up /\ mpc = "recv" /\ sockbuf # <<>>
  /\ Head(sockbuf).text # "exit"
  /\ mreq' = Head(sockbuf)
  /\ sockbuf' = Tail(sockbuf)
  /\ mpc' = "put"
  /\ UNCHANGED <<up, wpc, wreq, queueVars, clientVars, inbox, restarts>>

\* recvfrom returns "exit".
MainExit ==
  /\ up /\ mpc = "recv" /\ sockbuf # <<>>
  /\ Head(sockbuf).text = "exit"
  /\ Shutdown

\* msgsnd blocks until the queue, replies included, has room.
MainPut ==
  /\ up /\ mpc = "put"
  /\ QueueHasRoom
  /\ reqQ' = Append(reqQ, mreq)
  /\ mreq' = None
  /\ mpc' = "get"
  /\ UNCHANGED <<up, qid, replQ, wpc, wreq, clientVars, sockbuf, inbox, restarts>>

\* msgrcv(IPC_NOWAIT) returns ENOMSG.
MainNoReply ==
  /\ up /\ mpc = "get" /\ replQ = <<>>
  /\ mpc' = "recv"
  /\ UNCHANGED <<up, mreq, wpc, wreq, queueVars, clientVars, sockbuf, inbox,
                 restarts>>

\* sendto a client's address: dropped when nobody has the socket open or its
\* buffer is full.
Deliverable(s) ==
  /\ \E c \in Clients : SockOf[c] = s /\ cpc[c] # "gone"
  /\ Len(inbox[s]) < SockCap

\* Mutant of MainReply: the reply is copied out of the queue and stays in it.
MainReplyPeeks ==
  /\ up /\ mpc = "get" /\ replQ # <<>>
  /\ LET s == SockOf[Head(replQ).cln] IN
       inbox' = IF Deliverable(s)
                THEN [inbox EXCEPT ![s] = Append(@, Head(replQ))]
                ELSE inbox
  /\ mpc' = "recv"
  /\ UNCHANGED <<up, mreq, queueVars, wpc, wreq, clientVars, sockbuf, restarts>>

\* msgrcv returns a reply, which is sent to the address it carries.
MainReply ==
  /\ up /\ mpc = "get" /\ replQ # <<>>
  /\ replQ' = Tail(replQ)
  /\ LET s == SockOf[Head(replQ).cln] IN
       inbox' = IF Deliverable(s)
                THEN [inbox EXCEPT ![s] = Append(@, Head(replQ))]
                ELSE inbox
  /\ mpc' = "recv"
  /\ UNCHANGED <<up, qid, mreq, reqQ, wpc, wreq, clientVars, sockbuf, restarts>>

\* Any other error of a system call, or of calloc, ends the process.
MainFails ==
  /\ MayFail /\ up
  /\ Shutdown

-----------------------------------------------------------------------------
(* Reply threads: cln_repl_hndl *)

\* Mutant of WorkerTake: the request stays in the queue.
WorkerTakePeeks(w) ==
  /\ up /\ wpc[w] = "rcv" /\ reqQ # <<>>
  /\ wreq' = [wreq EXCEPT ![w] = Head(reqQ)]
  /\ wpc' = [wpc EXCEPT ![w] = "snd"]
  /\ UNCHANGED <<up, mpc, mreq, queueVars, clientVars, sockbuf, inbox, restarts>>

WorkerTake(w) ==
  /\ up /\ wpc[w] = "rcv" /\ reqQ # <<>>
  /\ wreq' = [wreq EXCEPT ![w] = Head(reqQ)]
  /\ reqQ' = Tail(reqQ)
  /\ wpc' = [wpc EXCEPT ![w] = "snd"]
  /\ UNCHANGED <<up, qid, mpc, mreq, replQ, clientVars, sockbuf, inbox, restarts>>

\* Mutant of WorkerReply: the type is not changed to REPL_MSG_TYPE.
WorkerReplyKeepsType(w) ==
  /\ up /\ wpc[w] = "snd"
  /\ QueueHasRoom
  /\ reqQ' = Append(reqQ, wreq[w])
  /\ wreq' = [wreq EXCEPT ![w] = None]
  /\ wpc' = [wpc EXCEPT ![w] = "rcv"]
  /\ UNCHANGED <<up, qid, mpc, mreq, replQ, clientVars, sockbuf, inbox, restarts>>

\* Mutant of WorkerReply: the message is released before it is sent.
WorkerReplyFreed(w) ==
  /\ up /\ wpc[w] = "snd"
  /\ QueueHasRoom
  /\ wreq' = [wreq EXCEPT ![w] = None]
  /\ replQ' = Append(replQ, wreq'[w])
  /\ wpc' = [wpc EXCEPT ![w] = "rcv"]
  /\ UNCHANGED <<up, qid, mpc, mreq, reqQ, clientVars, sockbuf, inbox, restarts>>

\* The request becomes the reply: same address, type REPL_MSG_TYPE.
WorkerReply(w) ==
  /\ up /\ wpc[w] = "snd"
  /\ QueueHasRoom
  /\ replQ' = Append(replQ, wreq[w])
  /\ wreq' = [wreq EXCEPT ![w] = None]
  /\ wpc' = [wpc EXCEPT ![w] = "rcv"]
  /\ UNCHANGED <<up, qid, mpc, mreq, reqQ, clientVars, sockbuf, inbox, restarts>>

\* malloc, msgrcv, get_cur_dt or msgsnd fails: the thread exits, the process
\* goes on without it and without the request it holds.
WorkerFails(w) ==
  /\ MayFail /\ up /\ wpc[w] # "dead"
  /\ wpc' = [wpc EXCEPT ![w] = "dead"]
  /\ wreq' = [wreq EXCEPT ![w] = None]
  /\ UNCHANGED <<up, mpc, mreq, queueVars, clientVars, sockbuf, inbox, restarts>>

-----------------------------------------------------------------------------
(* Clients: client.c, and send_request of benchmark.c *)

\* sendto the server: UDP drops the datagram when the server is down or its
\* socket buffer is full, and the client does not learn of it.  The client
\* then blocks in recvfrom, or leaves when it sent "exit".
ClientSend(c, text) ==
  /\ cpc[c] = "idle"
  /\ sent[c] < MaxSend
  /\ sent' = [sent EXCEPT ![c] = @ + 1]
  /\ cpc' = [cpc EXCEPT ![c] = IF text = "exit" THEN "gone" ELSE "wait"]
  /\ sockbuf' = IF up /\ Len(sockbuf) < SockCap
                THEN Append(sockbuf, [cln |-> c, n |-> sent[c] + 1, text |-> text])
                ELSE sockbuf
  /\ UNCHANGED <<serverVars, queueVars, got, inbox, restarts>>

\* recvfrom returns the oldest datagram of the socket, whoever asked for it.
ClientRecv(c) ==
  /\ cpc[c] = "wait"
  /\ inbox[SockOf[c]] # <<>>
  /\ got' = [got EXCEPT ![c] = Head(inbox[SockOf[c]])]
  /\ inbox' = [inbox EXCEPT ![SockOf[c]] = Tail(@)]
  /\ cpc' = [cpc EXCEPT ![c] = "idle"]
  /\ UNCHANGED <<serverVars, queueVars, sent, sockbuf, restarts>>

\* fgets, sendto or recvfrom fails: the client exits.
ClientFails(c) ==
  /\ MayFail /\ cpc[c] # "gone"
  /\ cpc' = [cpc EXCEPT ![c] = "gone"]
  /\ UNCHANGED <<serverVars, queueVars, sent, got, sockbuf, inbox, restarts>>

-----------------------------------------------------------------------------
Main == MainNoRequest \/ MainRequest \/ MainExit \/ MainPut \/ MainNoReply
          \/ MainReply

Worker(w) == WorkerTake(w) \/ WorkerReply(w)

Next ==
  \/ Main
  \/ MainFails
  \/ Restart
  \/ \E w \in Workers : Worker(w) \/ WorkerFails(w)
  \/ \E c \in Clients : \/ \E text \in Texts : ClientSend(c, text)
                        \/ ClientRecv(c)
                        \/ ClientFails(c)

Spec == Init /\ [][Next]_vars

\* Every thread is scheduled again and again, a blocked msgsnd or msgrcv
\* returns once it can (the kernel wakes the sleepers), a datagram in a
\* client's buffer wakes its recvfrom.  Nothing obliges a client to send,
\* somebody to restart the server, or a call to fail.
Fairness ==
  /\ WF_vars(Main)
  /\ \A w \in Workers : WF_vars(Worker(w))
  /\ \A c \in Clients : WF_vars(ClientRecv(c))

FairSpec == Spec /\ Fairness

-----------------------------------------------------------------------------
(* Properties *)

\* client.c opens a socket per process.
OwnSockets == \A c, d \in Clients : SockOf[c] = SockOf[d] => c = d

\* A client that has its answer has the answer to the request it sent last,
\* although neither the request nor the reply carries an identifier, the
\* workers reorder requests, and the kernel queue outlives the server
\* (server_core.c 128-129, client.c 57-63).
AnswerMatches ==
  \A c \in Clients :
    cpc[c] = "idle" /\ sent[c] > 0 =>
      got[c] # None /\ got[c].cln = c /\ got[c].n = sent[c]

\* With no more clients than the queue has slots, neither the main thread nor
\* a worker ever finds the shared queue full, hence none of them can wait in
\* msgsnd for a slot that only another waiting thread could free
\* (server_core.c 104 and 173).
NoSenderBlocks ==
  (mpc = "put" \/ \E w \in Workers : wpc[w] = "snd") => QueueHasRoom

\* The main thread waits for room in a queue that only it drains of replies,
\* and no worker can take a request: the server never moves again.
Wedged ==
  /\ up /\ mpc = "put"
  /\ ~QueueHasRoom
  /\ \A w \in Workers : wpc[w] = "rcv" => reqQ = <<>>

\* The server never wedges (the benchmark, benchmark.c 33-48, has 10000
\* threads send a request and wait for the reply without a timeout).
NeverWedged == ~Wedged

-----------------------------------------------------------------------------
(* The promise to the clients: HighloadServer implements ReplyService *)

Has(s, c) == \E i \in 1..Len(s) : s[i].cln = c

InServer(c) ==
  \/ Has(sockbuf, c) \/ Has(reqQ, c) \/ Has(replQ, c)
  \/ mreq # None /\ mreq.cln = c
  \/ \E w \in Workers : wreq[w] # None /\ wreq[w].cln = c

\* What became of the last request of c.
requestState ==
  [c \in Clients |->
    CASE cpc[c] = "gone" -> "left"
      [] cpc[c] = "idle" -> "idle"
      [] cpc[c] = "wait" /\ inbox[SockOf[c]] # <<>> -> "answered"
      [] cpc[c] = "wait" /\ inbox[SockOf[c]] = <<>> /\ InServer(c) -> "pending"
      [] OTHER -> "lost"]

Service == INSTANCE ReplyService WITH state <- requestState

\* A client with a socket of its own is answered at most once per request, and
\* a request lost in a full buffer, a failed worker or an exit of the server
\* is never answered afterwards (server_core.c 50-183).
ImplementsReplyService == Service!Spec

\* While the server runs, no worker has failed and the client stays, a request
\* that is in the server is answered; and as long as one worker is left it does
\* not stay there (server_core.c 90-183).
RequestSettles ==
  \A c \in Clients :
    /\ requestState[c] = "pending" ~>
         requestState[c] \in {"answered", "idle", "left"} \/ ~up \/ \E w \in Workers : wpc[w] = "dead"
    /\ requestState[c] = "pending" ~>
         requestState[c] # "pending" \/ ~up \/ \A w \in Workers : wpc[w] = "dead"
=============================================================================
