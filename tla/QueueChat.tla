------------------------------ MODULE QueueChat ------------------------------
(***************************************************************************)
(* queue_chat: one System V queue carries the clients' CONNECTED messages  *)
(* (type SERVER_PID) to the server's thread srv_event_hndl and its answers *)
(* (type: the client's pid) back.  The queue outlives every process.  The  *)
(* second queue and its threads take no part: in the client they are       *)
(* commented out, so cln_msg_hndl waits for a message nobody sends.        *)
(***************************************************************************)
EXTENDS Naturals, Sequences, SequencesExt

CONSTANTS
  Pids,        \* pids of clients; a pid is used again after its process ends
  Slots,       \* messages the kernel's queue holds
  MaxStarts    \* bound on client processes

SERVER_PID == 1

VARIABLES
  exists,      \* the queue has been created
  queue,       \* its messages, oldest first
  srv,         \* the server's thread: "down", "recv" or "send"
  srv_msg,     \* its message
  cln,         \* the process of each pid: where it is and its number
  starts,      \* processes started
  lost         \* processes whose message the server took and lost

chatVars == <<exists, queue, srv, srv_msg, cln, starts, lost>>

NoMsg == [type |-> 0]

ChatInit ==
  /\ exists = FALSE /\ queue = <<>>
  /\ srv = "down" /\ srv_msg = NoMsg
  /\ cln = [p \in Pids |-> [at |-> "none", proc |-> 0]]
  /\ starts = 0 /\ lost = {}

-----------------------------------------------------------------------------
(* msgsnd and msgrcv *)

HasType(type) == \E i \in 1..Len(queue) : queue[i].type = type
FirstOf(type) == SelectInSeq(queue, LAMBDA m : m.type = type)

Put(m) == Len(queue) < Slots /\ queue' = Append(queue, m)
Take(type) == HasType(type) /\ queue' = RemoveAt(queue, FirstOf(type))

-----------------------------------------------------------------------------
(* srv_event_hndl of the server *)

ServerStart ==
  /\ srv = "down"
  /\ srv' = "recv" /\ exists' = TRUE
  /\ UNCHANGED <<queue, srv_msg, cln, starts, lost>>

\* Mutant of ServerRecv: the message goes back under the type it came with.
ServerRecvKeepsType ==
  /\ srv = "recv" /\ Take(SERVER_PID)
  /\ srv_msg' = queue[FirstOf(SERVER_PID)]
  /\ srv' = "send"
  /\ UNCHANGED <<exists, cln, starts, lost>>

\* msgrcv, and srv_msg.pid = srv_msg.data_pid.
ServerRecv ==
  LET m == queue[FirstOf(SERVER_PID)] IN
  /\ srv = "recv" /\ Take(SERVER_PID)
  /\ srv_msg' = [m EXCEPT !.type = m.data_pid]
  /\ srv' = "send"
  /\ UNCHANGED <<exists, cln, starts, lost>>

\* The answer waits for room in the queue the requests come from.
ServerSend ==
  /\ srv = "send" /\ Put(srv_msg)
  /\ srv' = "recv" /\ srv_msg' = NoMsg
  /\ UNCHANGED <<exists, cln, starts, lost>>

\* msgsnd fails, and the loop goes on.
ServerSendFails ==
  /\ srv = "send"
  /\ srv' = "recv" /\ srv_msg' = NoMsg /\ lost' = lost \cup {srv_msg.proc}
  /\ UNCHANGED <<exists, queue, cln, starts>>

\* The loop has no end: a server stops when it is killed, or when msgrcv fails.
ServerKilled ==
  /\ srv # "down"
  /\ srv' = "down" /\ srv_msg' = NoMsg
  /\ lost' = IF srv = "send" THEN lost \cup {srv_msg.proc} ELSE lost
  /\ UNCHANGED <<exists, queue, cln, starts>>

-----------------------------------------------------------------------------
(* srv_event_hndl of the client *)

\* msgget without IPC_CREAT: the client ends unless the queue is there.
ClientStart(p) ==
  /\ exists /\ cln[p].at = "none" /\ starts < MaxStarts
  /\ starts' = starts + 1
  /\ cln' = [cln EXCEPT ![p] = [at |-> "connect", proc |-> starts + 1]]
  /\ UNCHANGED <<exists, queue, srv, srv_msg, lost>>

ClientConnect(p) ==
  /\ cln[p].at = "connect"
  /\ Put([type |-> SERVER_PID, data_pid |-> p, proc |-> cln[p].proc])
  /\ cln' = [cln EXCEPT ![p].at = "wait"]
  /\ UNCHANGED <<exists, srv, srv_msg, starts, lost>>

\* Whatever carries its pid is read and printed, an answer to a process that
\* had the pid before too.
ClientRecv(p) ==
  /\ cln[p].at \in {"wait", "joined"} /\ Take(p)
  /\ cln' = IF queue[FirstOf(p)].proc = cln[p].proc THEN [cln EXCEPT ![p].at = "joined"] ELSE cln
  /\ UNCHANGED <<exists, srv, srv_msg, starts, lost>>

\* A client stops so too, or when its msgsnd fails.
ClientKilled(p) ==
  /\ cln[p].at # "none"
  /\ cln' = [cln EXCEPT ![p].at = "none"]
  /\ UNCHANGED <<exists, queue, srv, srv_msg, starts, lost>>

-----------------------------------------------------------------------------
ChatNext ==
  \/ ServerStart \/ ServerRecv \/ ServerSend \/ ServerSendFails \/ ServerKilled
  \/ \E p \in Pids : ClientStart(p) \/ ClientConnect(p) \/ ClientRecv(p) \/ ClientKilled(p)

\* A process that can go on does; nobody need start, fail or be killed.
ChatFairness == /\ WF_chatVars(ServerRecv) /\ WF_chatVars(ServerSend)
                /\ \A p \in Pids : WF_chatVars(ClientRecv(p))

ChatSpec == ChatInit /\ [][ChatNext]_chatVars /\ ChatFairness

-----------------------------------------------------------------------------
\* A client that has sent its message is answered, over answers left behind by
\* killed processes of the same pid and over restarts of the server, unless the
\* server goes down or loses the message, as long as no more processes have been
\* started than the queue has slots.  With one more, requests and answers nobody
\* takes can fill the queue the server must write to (server core.c 91-106,
\* client core.c 97-113).
ConnectAnswered ==
  \A p \in Pids, n \in 1..MaxStarts :
    cln[p] = [at |-> "wait", proc |-> n]
      ~> cln[p] # [at |-> "wait", proc |-> n] \/ n \in lost \/ srv = "down"
=============================================================================
