-------------------------------- MODULE Sctp --------------------------------
(***************************************************************************)
(* sctp: a client sends a file on one stream of an association and the     *)
(* user's messages on another; the server has a thread per client that     *)
(* writes the file to ./files/client_<address>.  SCTP keeps the order      *)
(* within a stream only.                                                   *)
(***************************************************************************)
EXTENDS Naturals, Sequences

CONSTANTS
  Users,       \* clients
  Addrs,       \* their addresses
  NChunks      \* reads of MAX_MSG_SIZE a file takes

NoFile == 0
ASSUME AddrAssumption == NoFile \notin Addrs

VARIABLES
  addr,        \* the address of each client
  user,        \* each client: where its process and its two threads are
  fileStream, msgStream,   \* sent and not yet received
  cln_info,    \* the address in the structure each handler was given
  hnd,         \* each handler: "none", "new", "loop" or "gone"
  offset,      \* position in the file it has open
  fd,          \* the address whose file that is, NoFile before it is opened
  file         \* the files, by address: the chunks at each position

sctpVars == <<addr, user, fileStream, msgStream, cln_info, hnd, offset, fd, file>>

Chunks(c, n) == [i \in 1..n |-> <<c, i>>]
Hole == <<0, 0>>
Old == <<0, 1>>     \* what an earlier run has left in a file

SctpInit ==
  /\ addr \in [Users -> Addrs]
  /\ user = [c \in Users |-> [at |-> "new", next |-> 1, fileEnd |-> FALSE, msgEnd |-> FALSE]]
  /\ fileStream = [c \in Users |-> <<>>] /\ msgStream = [c \in Users |-> <<>>]
  /\ cln_info = addr
  /\ hnd = [c \in Users |-> "none"]
  /\ offset = [c \in Users |-> 0] /\ fd = [c \in Users |-> NoFile]
  /\ file \in [Addrs -> {<<>>, <<Old>>}]

-----------------------------------------------------------------------------
(* The client *)

Connect(c) ==
  /\ user[c].at = "new" /\ user' = [user EXCEPT ![c].at = "open"]
  /\ UNCHANGED <<addr, fileStream, msgStream, cln_info, hnd, offset, fd, file>>

\* One turn of file_hndl: read, and sctp_sendmsg on FILE_STREAM.  When the server
\* has closed the association, SIGPIPE ends the client.  A failed open or read ends
\* the thread like the end of a shorter file.
file_hndl(c) ==
  /\ user[c].at = "open" /\ ~user[c].fileEnd
  /\ \/ /\ user[c].next > NChunks
        /\ user' = [user EXCEPT ![c].fileEnd = TRUE] /\ UNCHANGED fileStream
     \/ /\ user[c].next <= NChunks /\ hnd[c] = "gone"
        /\ user' = [user EXCEPT ![c].at = "killed"] /\ UNCHANGED fileStream
     \/ /\ user[c].next <= NChunks /\ hnd[c] # "gone"
        /\ fileStream' = [fileStream EXCEPT ![c] = Append(@, <<c, user[c].next>>)]
        /\ user' = [user EXCEPT ![c].next = @ + 1]
  /\ UNCHANGED <<addr, msgStream, cln_info, hnd, offset, fd, file>>

\* One turn of msg_hndl: a line of the user; "exit" is sent like any other and
\* ends the thread, as does the end of the input.
msg_hndl(c) ==
  /\ user[c].at = "open" /\ ~user[c].msgEnd
  /\ \/ /\ hnd[c] # "gone" /\ msgStream[c] = <<>>
        /\ \E line \in {"text", "exit"} :
             /\ msgStream' = [msgStream EXCEPT ![c] = Append(@, line)]
             /\ user' = [user EXCEPT ![c].msgEnd = line = "exit"]
     \/ user' = [user EXCEPT ![c].msgEnd = TRUE] /\ UNCHANGED msgStream
     \/ hnd[c] = "gone" /\ user' = [user EXCEPT ![c].at = "killed"] /\ UNCHANGED msgStream
  /\ UNCHANGED <<addr, fileStream, cln_info, hnd, offset, fd, file>>

\* main has joined both threads.  What was sent is still delivered.
CloseUser(c) ==
  /\ user[c].at = "open" /\ user[c].fileEnd /\ user[c].msgEnd
  /\ user' = [user EXCEPT ![c].at = "closed"]
  /\ UNCHANGED <<addr, fileStream, msgStream, cln_info, hnd, offset, fd, file>>

-----------------------------------------------------------------------------
(* The server *)

\* Mutant of Accept: one structure for all clients.
AcceptShared(c) ==
  /\ user[c].at # "new" /\ hnd[c] = "none"
  /\ cln_info' = [d \in Users |-> addr[c]]
  /\ hnd' = [hnd EXCEPT ![c] = "new"]
  /\ UNCHANGED <<addr, user, fileStream, msgStream, offset, fd, file>>

\* accept, malloc of the client's structure, pthread_create.
Accept(c) ==
  /\ user[c].at # "new" /\ hnd[c] = "none"
  /\ cln_info' = [cln_info EXCEPT ![c] = addr[c]]
  /\ hnd' = [hnd EXCEPT ![c] = "new"]
  /\ UNCHANGED <<addr, user, fileStream, msgStream, offset, fd, file>>

\* open with O_TRUNC; any call before the loop may fail and end the thread.
OpenFile(c) ==
  LET ad == cln_info[c] IN
  /\ hnd[c] = "new"
  /\ \/ /\ file' = [file EXCEPT ![ad] = <<>>]
        /\ fd' = [fd EXCEPT ![c] = ad]
        /\ hnd' = [hnd EXCEPT ![c] = "loop"]
     \/ hnd' = [hnd EXCEPT ![c] = "gone"] /\ UNCHANGED <<file, fd>>
  /\ UNCHANGED <<addr, user, fileStream, msgStream, cln_info, offset>>

\* A file with chunk v written at position n + 1; what lies before is a hole if
\* somebody has cut the file short meanwhile.
WriteAt(f, n, v) ==
  [i \in 1..(IF Len(f) > n THEN Len(f) ELSE n + 1) |->
     IF i = n + 1 THEN v ELSE IF i <= Len(f) THEN f[i] ELSE Hole]

RecvFile(c) ==
  LET ad == fd[c] IN
  /\ hnd[c] = "loop" /\ fileStream[c] # <<>>
  /\ fileStream' = [fileStream EXCEPT ![c] = Tail(@)]
  /\ \/ /\ file' = [file EXCEPT ![ad] = WriteAt(@, offset[c], Head(fileStream[c]))]
        /\ offset' = [offset EXCEPT ![c] = @ + 1]
        /\ UNCHANGED hnd
     \/ hnd' = [hnd EXCEPT ![c] = "gone"] /\ UNCHANGED <<file, offset>>    \* write fails
  /\ UNCHANGED <<addr, user, msgStream, cln_info, fd>>

\* "exit" ends the thread, whatever of the file is still to come.
RecvMsg(c) ==
  /\ hnd[c] = "loop" /\ msgStream[c] # <<>>
  /\ msgStream' = [msgStream EXCEPT ![c] = Tail(@)]
  /\ hnd' = IF Head(msgStream[c]) = "exit" THEN [hnd EXCEPT ![c] = "gone"] ELSE hnd
  /\ UNCHANGED <<addr, user, fileStream, cln_info, offset, fd, file>>

RecvFails(c) ==
  /\ hnd[c] = "loop" /\ hnd' = [hnd EXCEPT ![c] = "gone"]
  /\ UNCHANGED <<addr, user, fileStream, msgStream, cln_info, offset, fd, file>>

\* Once the client has closed and everything is received, sctp_recvmsg returns 0
\* for ever and the thread spins: no step of the model.

SctpNext ==
  \E c \in Users : \/ Connect(c) \/ file_hndl(c) \/ msg_hndl(c) \/ CloseUser(c)
                   \/ Accept(c) \/ OpenFile(c) \/ RecvFile(c) \/ RecvMsg(c)
                   \/ RecvFails(c)

SctpSpec == SctpInit /\ [][SctpNext]_sctpVars

-----------------------------------------------------------------------------
\* From when its handler has opened it, and as long as no other client's has, the
\* file of an address is what the handler has received so far, in order, without
\* a hole and with nothing of an earlier run, whatever the other handlers do at
\* the same time (server_core.c 33-108, server.c 45-63).
FileFaithful ==
  \A c \in Users :
    fd[c] # NoFile /\ (\A d \in Users \ {c} : addr[d] = addr[c] => fd[d] = NoFile)
      => file[addr[c]] = Chunks(c, offset[c])
=============================================================================
