--------------------------- MODULE ProcessesProofs ---------------------------
(***************************************************************************)
(* Proofs about four small programs of several processes or threads, for   *)
(* any number of them: the time daemon's answers and what it may die of,   *)
(* the files of the SCTP server, the text of get_cur_dt and the signals of *)
(* named_pipes.  The programs have nothing in common but their size.       *)
(***************************************************************************)
EXTENDS TimeDaemon, Sctp, ThreadDate, Pipes, TLAPS

-----------------------------------------------------------------------------
(* daemon *)


DaemonTypeOK ==
  /\ dpc \in {"pid", "writepid", "mkdt", "dt", "mask", "wait", "write", "dead", "exited"}
  /\ handled \in Nat /\ dtData \in Nat
  /\ pidData \in BOOLEAN
  /\ cpc \in [Clients -> {"start", "pid", "readpid", "dt", "ready", "read", "gone"}]
  /\ pid \in [Clients -> BOOLEAN]
  /\ asked \in [Clients -> Nat] /\ got \in [Clients -> Nat]

\* One client at most has the pid, and nobody has it while it is in the pipe or
\* still to be written.
OneHolder ==
  /\ \A c, d \in Clients : pid[c] /\ pid[d] => c = d
  /\ dpc \in {"pid", "writepid"} => ~pidData
  /\ pidData \/ dpc \in {"pid", "writepid"} => \A c \in Clients : ~pid[c]

\* How far a client has come.
Places ==
  \A c \in Clients :
    /\ cpc[c] \in {"start", "pid", "readpid"} => ~pid[c]
    /\ cpc[c] \in {"start", "pid", "readpid", "dt"} => asked[c] = 0 /\ got[c] = 0
    /\ cpc[c] \in {"ready", "read"} => DtWriter
    /\ cpc[c] = "read" => pid[c]

\* No request is on its way to the daemon or being answered.
Quiet == "USR1" \notin pending /\ dpc # "write"

Untouched == (\A c \in Clients : ~pid[c]) => Quiet /\ handled = 0 /\ dtData = 0

\* A request of the holder is in one place: pending, being answered, or answered
\* in the pipe.
InStep(c) == got[c] = asked[c] /\ handled = asked[c] /\ dtData = 0 /\ Quiet

InFlight(c) ==
  /\ got[c] + 1 = asked[c]
  /\ \/ /\ handled + 1 = asked[c] /\ dtData = 0
        /\ \/ "USR1" \in pending /\ dpc = "wait"
           \/ "USR1" \notin pending /\ dpc = "write"
     \/ handled = asked[c] /\ dtData = asked[c] /\ Quiet

Holder ==
  \A c \in Clients : pid[c] =>
    /\ cpc[c] \in {"dt", "ready"} => InStep(c)
    /\ cpc[c] = "read" => InFlight(c)
    /\ cpc[c] = "gone" => Quiet \/ got[c] # asked[c]

DaemonAlive == OneHolder /\ Places /\ Untouched /\ Holder

DaemonInv == DaemonTypeOK /\ (Running => DaemonAlive)

-----------------------------------------------------------------------------
(* The inductive invariant *)

\* It holds when the daemon starts.
LEMMA DaemonInvInit == Init => DaemonInv
<1> SUFFICES ASSUME Init PROVE DaemonInv
  OBVIOUS
<1>1. DaemonTypeOK
  BY DEF Init, DaemonTypeOK
<1>2. OneHolder /\ Places /\ Untouched /\ Holder
  BY DEF Init, OneHolder, Places, Untouched, Holder, Quiet
<1>3. QED  BY <1>1, <1>2 DEF DaemonInv, DaemonAlive

\* A daemon that has ended stays so, and every step keeps the types.
LEMMA DaemonTypeStep == DaemonTypeOK /\ [Next]_vars => DaemonTypeOK' /\ (~Running => ~Running')
<1> SUFFICES ASSUME DaemonTypeOK, [Next]_vars PROVE DaemonTypeOK' /\ (~Running => ~Running')
  OBVIOUS
<1> USE DEF DaemonTypeOK, Running, get_cur_dt, daemonVars, pidVars, dtVars, clnVars
<1>1. CASE DaemonStarts
  BY <1>1 DEF DaemonStarts, OpenPid, WritePid, MakeDt, OpenDt, Mask
<1>2. CASE (\E sig \in pending : Wait(sig)) \/ Write
  BY <1>2 DEF Wait, Write
<1>3. CASE Hangup
  BY <1>3 DEF Hangup, Signal
<1>4. ASSUME NEW c \in Clients, Start(c) \/ Opened(c) \/ OpenedDt(c) \/ Leave(c) \/ Die(c)
      PROVE  DaemonTypeOK' /\ (~Running => ~Running')
  <2>1. pidData' \in BOOLEAN
    BY <1>4, Zenon DEF Start, Opened, OpenedDt, Leave, Die
  <2>2. QED  BY <1>4, <2>1 DEF Start, Opened, OpenedDt, Leave, Die
<1>5. ASSUME NEW c \in Clients, ReadPid(c)
      PROVE  DaemonTypeOK' /\ (~Running => ~Running')
  <2>1. pidData' \in BOOLEAN
    BY <1>5, Zenon DEF ReadPid
  <2>2. QED  BY <1>5, <2>1 DEF ReadPid
<1>6. ASSUME NEW c \in Clients, Request(c)
      PROVE  DaemonTypeOK' /\ (~Running => ~Running')
  BY <1>6 DEF Request, Signal
<1>7. ASSUME NEW c \in Clients, ReadDt(c)
      PROVE  DaemonTypeOK' /\ (~Running => ~Running')
  BY <1>7 DEF ReadDt
<1>8. CASE UNCHANGED vars
  BY <1>8 DEF vars
<1>9. QED  BY <1>1, <1>2, <1>3, <1>4, <1>5, <1>6, <1>7, <1>8 DEF Next, Daemon, Client

\* Steps of the daemon, and SIGHUP.
LEMMA DaemonStep ==
  ASSUME DaemonTypeOK, DaemonAlive, Daemon \/ Hangup, Running'
  PROVE  DaemonAlive'
<1> USE DEF DaemonTypeOK, Running, get_cur_dt
<1>1. /\ UNCHANGED <<cpc, pid, asked, got>>
  BY DEF Daemon, DaemonStarts, OpenPid, WritePid, MakeDt, OpenDt, Mask, Wait, Write, Hangup, clnVars
<1>2. CASE DaemonStarts
  <2>1. OneHolder'
    BY <1>1, <1>2 DEF DaemonAlive, OneHolder, Places, DaemonStarts, OpenPid, WritePid, MakeDt, OpenDt, Mask,
                      pidVars
  <2>2. Places'
    BY <1>1, <1>2 DEF DaemonAlive, Places, DaemonStarts, OpenPid, WritePid, MakeDt, OpenDt, Mask, DtWriter
  <2>3. /\ Quiet' = Quiet /\ handled' = handled /\ dtData' = dtData
        /\ dpc # "wait" /\ dpc # "write"
    <3>1. /\ pending' = pending /\ dpc # "write" /\ dpc' # "write" /\ dpc # "wait"
          /\ handled' = handled /\ dtData' = dtData
      BY <1>2 DEF DaemonStarts, OpenPid, WritePid, MakeDt, OpenDt, Mask, dtVars
    <3>2. QED  BY <3>1 DEF Quiet
  <2>4. Untouched' /\ Holder'
    BY <1>1, <2>3 DEF DaemonAlive, Untouched, Holder, InStep, InFlight
  <2>5. QED  BY <2>1, <2>2, <2>4 DEF DaemonAlive
<1>3. CASE (\E sig \in pending : Wait(sig)) \/ Hangup
  <2>1. /\ UNCHANGED <<pidData, handled, dtData>>
        /\ \/ /\ dpc' = dpc
              /\ "USR1" \in pending' <=> "USR1" \in pending
           \/ dpc = "wait" /\ dpc' = "write" /\ "USR1" \in pending /\ "USR1" \notin pending'
    BY <1>3 DEF Wait, Hangup, Signal, pidVars, dtVars
  <2>2. OneHolder' /\ Places'
    BY <1>1, <2>1 DEF DaemonAlive, OneHolder, Places, DtWriter
  <2>3. Untouched' /\ Holder'
    BY <1>1, <2>1 DEF DaemonAlive, Untouched, Holder, InStep, InFlight, Quiet
  <2>4. QED  BY <2>2, <2>3 DEF DaemonAlive
<1>4. CASE Write
  <2>1. /\ UNCHANGED <<pidData, pending>> /\ dpc = "write" /\ dpc' = "wait"
        /\ handled' = handled + 1 /\ dtData' = handled + 1
    BY <1>4 DEF Write, pidVars
  <2>2. OneHolder' /\ Places'
    BY <1>1, <2>1 DEF DaemonAlive, OneHolder, Places, DtWriter
  <2>3. Untouched'
    BY <1>1, <2>1 DEF DaemonAlive, Untouched, Quiet
  <2>4. Holder'
    BY <1>1, <2>1 DEF DaemonAlive, Holder, InStep, InFlight, Quiet
  <2>5. QED  BY <2>2, <2>3, <2>4 DEF DaemonAlive
<1>5. QED  BY <1>2, <1>3, <1>4 DEF Daemon

\* Steps of a client.  The others stay as they are.
LEMMA ClientStep ==
  ASSUME DaemonTypeOK, DaemonTypeOK', DaemonAlive, NEW c \in Clients, Running',
         Start(c) \/ Client(c) \/ Request(c) \/ Leave(c) \/ Die(c)
  PROVE  DaemonAlive'
<1> USE DEF DaemonTypeOK, Running
<1>1. CASE Start(c) \/ Opened(c) \/ OpenedDt(c)
  <2>1. /\ UNCHANGED <<dpc, pending, handled, pidData, dtData, pid, asked, got>>
        /\ \A d \in Clients : d # c => cpc'[d] = cpc[d]
        /\ \/ cpc[c] \in {"start", "pid"} /\ cpc'[c] \in {"pid", "readpid", "gone"}
           \/ cpc[c] = "dt" /\ cpc'[c] = "ready" /\ DtWriter
    BY <1>1 DEF Start, Opened, OpenedDt, daemonVars, pidVars, dtVars
  <2>2. OneHolder' /\ Places'
    BY <2>1 DEF DaemonAlive, OneHolder, Places, DtWriter
  <2>3. Untouched' /\ Holder'
    BY <2>1 DEF DaemonAlive, Places, Untouched, Holder, InStep, InFlight, Quiet
  <2>4. QED  BY <2>2, <2>3 DEF DaemonAlive
<1>2. CASE Leave(c) \/ Die(c)
  <2>1. /\ UNCHANGED <<dpc, pending, handled, dtData, pid, asked, got>>
        /\ \A d \in Clients : d # c => cpc'[d] = cpc[d]
        /\ cpc[c] # "start" /\ cpc'[c] = "gone"
        /\ pidData' => pidData
    BY <1>2 DEF Leave, Die, daemonVars, dtVars
  <2>2. OneHolder' /\ Places'
    BY <2>1 DEF DaemonAlive, OneHolder, Places, DtWriter
  <2>3. Untouched' /\ Holder'
    BY <2>1 DEF DaemonAlive, Places, Untouched, Holder, InStep, InFlight, Quiet
  <2>4. QED  BY <2>2, <2>3 DEF DaemonAlive
<1>3. CASE ReadPid(c)
  <2>1. /\ UNCHANGED <<dpc, pending, handled, dtData, asked, got>>
        /\ \A d \in Clients : d # c => cpc'[d] = cpc[d] /\ pid'[d] = pid[d]
        /\ cpc[c] = "readpid" /\ cpc'[c] \in {"dt", "gone"}
        /\ pid'[c] = pidData /\ ~pidData'
        /\ pidData \/ dpc # "writepid"
    BY <1>3 DEF ReadPid, daemonVars, dtVars
  <2>2. OneHolder'
    BY <2>1 DEF DaemonAlive, OneHolder, Places
  <2>3. Places'
    BY <2>1 DEF DaemonAlive, Places, DtWriter
  <2>4. Untouched' /\ Holder'
    BY <2>1 DEF DaemonAlive, OneHolder, Places, Untouched, Holder, InStep, InFlight, Quiet
  <2>5. QED  BY <2>2, <2>3, <2>4 DEF DaemonAlive
<1>4. CASE Request(c)
  <2>1. /\ UNCHANGED <<handled, pidData, dtData, pid, got>>
        /\ \A d \in Clients : d # c => cpc'[d] = cpc[d] /\ asked'[d] = asked[d]
        /\ cpc[c] = "ready" /\ cpc'[c] = (IF pid[c] THEN "read" ELSE "gone")
        /\ asked'[c] = asked[c] + 1 /\ dpc' = dpc
        /\ pid[c] => pending' = pending \cup {"USR1"} /\ dpc \in {"wait", "write"}
        /\ ~pid[c] => pending' = pending
    BY <1>4 DEF Request, Signal, pidVars, dtVars
  <2>2. OneHolder' /\ Places'
    BY <2>1 DEF DaemonAlive, OneHolder, Places, DtWriter
  <2>3. Untouched'
    BY <2>1 DEF DaemonAlive, Untouched, Quiet
  <2>4. Holder'
    BY <2>1 DEF DaemonAlive, OneHolder, Holder, InStep, InFlight, Quiet
  <2>5. QED  BY <2>2, <2>3, <2>4 DEF DaemonAlive
<1>5. CASE ReadDt(c)
  <2>1. /\ UNCHANGED <<dpc, pending, handled, pidData, pid, asked>>
        /\ \A d \in Clients : d # c => cpc'[d] = cpc[d] /\ got'[d] = got[d]
        /\ cpc[c] = "read" /\ cpc'[c] = "ready" /\ dtData' = 0
        /\ got'[c] = dtData /\ (dtData # 0 \/ ~DtWriter)
    BY <1>5 DEF ReadDt, daemonVars, pidVars
  <2>2. OneHolder' /\ Places'
    BY <2>1 DEF DaemonAlive, OneHolder, Places, DtWriter
  <2>3. pid[c] /\ dtData # 0
    BY <2>1 DEF DaemonAlive, Places
  <2>4. Untouched'
    BY <2>1, <2>3 DEF DaemonAlive, Untouched, Quiet
  <2>5. Holder'
    BY <2>1, <2>3 DEF DaemonAlive, OneHolder, Holder, InStep, InFlight, Quiet
  <2>6. QED  BY <2>2, <2>4, <2>5 DEF DaemonAlive
<1>6. QED  BY <1>1, <1>2, <1>3, <1>4, <1>5 DEF Client

\* Every step preserves the invariant.
LEMMA DaemonInvStep == DaemonInv /\ [Next]_vars => DaemonInv'
<1> SUFFICES ASSUME DaemonInv, [Next]_vars PROVE DaemonInv'
  OBVIOUS
<1>1. DaemonTypeOK /\ DaemonTypeOK' /\ (Running' => Running /\ DaemonAlive)
  BY DaemonTypeStep DEF DaemonInv
<1>2. CASE UNCHANGED vars
  BY <1>1, <1>2 DEF DaemonInv, DaemonAlive, OneHolder, Places, Untouched, Holder, InStep, InFlight, Quiet,
                    DtWriter, Running, vars, daemonVars, pidVars, dtVars, clnVars
<1>3. CASE Next
  BY <1>1, <1>3, DaemonStep, ClientStep DEF Next, DaemonInv
<1>4. QED  BY <1>2, <1>3

-----------------------------------------------------------------------------
(* Theorems *)

\* In every run the client that has the daemon's pid and no request on its way has
\* read the answer to its last request, unless the daemon has ended (daemon.c
\* 121-141, client.c 38-47).
THEOREM OneAnswerEach == Spec => []AnswersInStep
<1>1. DaemonInv => AnswersInStep
  BY DEF DaemonInv, DaemonAlive, Running, Holder, InStep, AnswersInStep
<1>2. QED  BY DaemonInvInit, DaemonInvStep, <1>1, PTL DEF Spec

\* In every run a daemon that waits for signals, or has taken one, ends only by
\* its exit when malloc fails or, killed, when the client it gave its pid to was
\* killed between a request and its answer (daemon.c 43-47, 116-149).
THEOREM CausesOfDeath == Spec => DiesOfKilledClient
<1>1. ASSUME DaemonInv, Next, dpc \in {"wait", "write"}, ~Running'
      PROVE  \/ NoMemory /\ dpc' = "exited"
             \/ dpc = "write" /\ DtReaders = {} /\ dpc' = "dead"
  <2>1. (\E sig \in pending : Wait(sig)) \/ Write \/ dpc' = dpc
    BY <1>1 DEF Next, Daemon, DaemonStarts, OpenPid, WritePid, MakeDt, OpenDt, Mask, Hangup, Signal,
                Client, Start, Opened, ReadPid, OpenedDt, Request, ReadDt, Leave, Die, daemonVars
  <2>2. QED  BY <1>1, <2>1 DEF Wait, Write, get_cur_dt, Running
<1>2. ASSUME DaemonInv, dpc = "write", DtReaders = {}
      PROVE  \E c \in Clients : pid[c] /\ cpc[c] = "gone" /\ got[c] # asked[c]
  <2>1. PICK c \in Clients : pid[c]
    BY <1>2 DEF DaemonInv, DaemonAlive, Running, Untouched, Quiet
  <2>2. cpc[c] \notin {"dt", "ready", "read"}
    BY <1>2 DEF DtReaders, At
  <2>3. cpc[c] = "gone"
    BY <1>2, <2>1, <2>2 DEF DaemonInv, DaemonTypeOK, DaemonAlive, Running, Places
  <2>4. QED  BY <1>2, <2>1, <2>3 DEF DaemonInv, DaemonAlive, Running, Holder, Quiet
<1>3. DaemonInv /\ [Next]_vars =>
        [~Running' /\ dpc \in {"wait", "write"} =>
           \/ NoMemory /\ dpc' = "exited"
           \/ dpc' = "dead" /\ \E c \in Clients : pid[c] /\ cpc[c] = "gone" /\ got[c] # asked[c]]_vars
  BY <1>1, <1>2
<1>4. QED  BY DaemonInvInit, DaemonInvStep, <1>3, PTL DEF Spec, DiesOfKilledClient

-----------------------------------------------------------------------------
(* sctp *)

Chunk == (Users \cup {0}) \X Nat

SctpTypeOK ==
  /\ addr \in [Users -> Addrs] /\ cln_info \in [Users -> Addrs]
  /\ fd \in [Users -> Addrs \cup {NoFile}]
  /\ user \in [Users -> [at : {"new", "open", "killed", "closed"}, next : Nat,
                         fileEnd : BOOLEAN, msgEnd : BOOLEAN]]
  /\ fileStream \in [Users -> Seq(Chunk)]
  /\ hnd \in [Users -> {"none", "new", "loop", "gone"}]
  /\ offset \in [Users -> Nat]
  /\ file \in [Addrs -> Seq(Chunk)]

\* A handler works on the file of its own client's address, and has written
\* nothing before it has opened it.
OwnFile ==
  \A c \in Users :
    /\ cln_info[c] = addr[c]
    /\ hnd[c] = "loop" => fd[c] = addr[c]
    /\ hnd[c] \in {"none", "new"} => fd[c] = NoFile /\ offset[c] = 0

\* The stream continues where the file ends and ends where the client is.
InOrder ==
  \A c \in Users : hnd[c] # "gone" =>
    /\ offset[c] + Len(fileStream[c]) + 1 = user[c].next
    /\ \A i \in 1..Len(fileStream[c]) : fileStream[c][i] = <<c, offset[c] + i>>

SctpInv == SctpTypeOK /\ OwnFile /\ InOrder /\ FileFaithful

\* A file nobody has written to is empty.
LEMMA NoChunks == \A c : Chunks(c, 0) = <<>>
BY DEF Chunks

\* A file with the next chunk written at its end has one chunk more, in order.
LEMMA WriteAtEnd ==
  ASSUME NEW c, NEW n \in Nat
  PROVE  WriteAt(Chunks(c, n), n, <<c, n + 1>>) = Chunks(c, n + 1)
<1>1. Len(Chunks(c, n)) = n /\ \A i \in 1..n : Chunks(c, n)[i] = <<c, i>>
  BY DEF Chunks
<1>2. \A i \in 1..(n + 1) : i = n + 1 \/ i \in 1..n
  OBVIOUS
<1>3. WriteAt(Chunks(c, n), n, <<c, n + 1>>) = [i \in 1..(n + 1) |-> <<c, i>>]
  BY <1>1, <1>2 DEF WriteAt
<1>4. QED  BY <1>3 DEF Chunks

\* A file remains a file when something is written to it.
LEMMA WriteAtType ==
  ASSUME NEW f \in Seq(Chunk), NEW n \in Nat, NEW v \in Chunk
  PROVE  WriteAt(f, n, v) \in Seq(Chunk)
<1>1. Len(f) \in Nat /\ Hole \in Chunk
  BY DEF Hole, Chunk
<1>2. \A i \in Nat : i \in 1..Len(f) => f[i] \in Chunk
  OBVIOUS
<1> DEFINE m == IF Len(f) > n THEN Len(f) ELSE n + 1
<1>3. m \in Nat
  BY <1>1
<1> HIDE DEF m
<1>4. \A i \in 1..m : (IF i = n + 1 THEN v ELSE IF i <= Len(f) THEN f[i] ELSE Hole) \in Chunk
  BY <1>1, <1>2, <1>3
<1>5. [i \in 1..m |-> IF i = n + 1 THEN v ELSE IF i <= Len(f) THEN f[i] ELSE Hole] \in Seq(Chunk)
  BY <1>3, <1>4
<1>6. QED  BY <1>5 DEF WriteAt, m

\* The invariant holds before anybody connects.
LEMMA SctpInvInit == SctpInit => SctpInv
<1> SUFFICES ASSUME SctpInit PROVE SctpInv
  OBVIOUS
<1>1. SctpTypeOK
  <2>1. /\ addr \in [Users -> Addrs] /\ cln_info \in [Users -> Addrs]
        /\ fd \in [Users -> Addrs \cup {NoFile}]
        /\ hnd \in [Users -> {"none", "new", "loop", "gone"}] /\ offset \in [Users -> Nat]
    BY DEF SctpInit
  <2>2. fileStream \in [Users -> Seq(Chunk)] /\ file \in [Addrs -> Seq(Chunk)]
    <3>1. <<>> \in Seq(Chunk) /\ <<Old>> \in Seq(Chunk)
      BY DEF Old, Chunk
    <3>2. QED  BY <3>1 DEF SctpInit
  <2>3. user \in [Users -> [at : {"new", "open", "killed", "closed"}, next : Nat,
                            fileEnd : BOOLEAN, msgEnd : BOOLEAN]]
    BY DEF SctpInit
  <2>4. QED  BY <2>1, <2>2, <2>3 DEF SctpTypeOK
<1>2. OwnFile /\ InOrder
  BY DEF SctpInit, OwnFile, InOrder
<1>3. FileFaithful
  BY DEF SctpInit, FileFaithful
<1>4. QED  BY <1>1, <1>2, <1>3 DEF SctpInv

\* Every step of the clients and of the handlers preserves the invariant.
LEMMA SctpInvStep == SctpInv /\ [SctpNext]_sctpVars => SctpInv'
<1> SUFFICES ASSUME SctpInv, [SctpNext]_sctpVars PROVE SctpInv'
  OBVIOUS
<1>T. SctpTypeOK /\ OwnFile /\ InOrder /\ FileFaithful
  BY DEF SctpInv
<1>1. ASSUME NEW c \in Users, Connect(c) \/ msg_hndl(c) \/ CloseUser(c) PROVE SctpInv'
  <2>1. /\ UNCHANGED <<addr, fileStream, cln_info, hnd, offset, fd, file>>
        /\ \E a \in {"open", "killed", "closed"}, b \in BOOLEAN :
             \/ user' = [user EXCEPT ![c].at = a]
             \/ user' = [user EXCEPT ![c].msgEnd = b]
    BY <1>1, Zenon DEF Connect, msg_hndl, CloseUser
  <2>2. /\ user' \in [Users -> [at : {"new", "open", "killed", "closed"}, next : Nat,
                                fileEnd : BOOLEAN, msgEnd : BOOLEAN]]
        /\ \A d \in Users : user'[d].next = user[d].next
    <3>1. PICK a \in {"open", "killed", "closed"}, b \in BOOLEAN :
                 \/ user' = [user EXCEPT ![c].at = a]
                 \/ user' = [user EXCEPT ![c].msgEnd = b]
      BY <2>1
    <3>2. CASE user' = [user EXCEPT ![c].at = a]
      BY <1>T, <3>2, ZenonT(60) DEF SctpTypeOK
    <3>3. CASE user' = [user EXCEPT ![c].msgEnd = b]
      BY <1>T, <3>3, ZenonT(60) DEF SctpTypeOK
    <3>4. QED  BY <3>1, <3>2, <3>3
  <2>3. SctpTypeOK' /\ OwnFile'
    BY <1>T, <2>1, <2>2 DEF SctpTypeOK, OwnFile
  <2>4. InOrder'
    BY <1>T, <2>1, <2>2 DEF InOrder
  <2>5. FileFaithful'
    BY <1>T, <2>1 DEF FileFaithful, Chunks
  <2>6. QED  BY <2>3, <2>4, <2>5 DEF SctpInv
<1>2. ASSUME NEW c \in Users, file_hndl(c) PROVE SctpInv'
  <2>0. UNCHANGED <<addr, cln_info, hnd, offset, fd, file>>
    BY <1>2 DEF file_hndl
  <2>1. CASE fileStream' = fileStream /\ (user' = [user EXCEPT ![c].fileEnd = TRUE]
                                          \/ user' = [user EXCEPT ![c].at = "killed"])
    <3>1. /\ user' \in [Users -> [at : {"new", "open", "killed", "closed"}, next : Nat,
                                  fileEnd : BOOLEAN, msgEnd : BOOLEAN]]
          /\ \A d \in Users : user'[d].next = user[d].next
      <4>1. CASE user' = [user EXCEPT ![c].fileEnd = TRUE]
        BY <1>T, <4>1, ZenonT(60) DEF SctpTypeOK
      <4>2. CASE user' = [user EXCEPT ![c].at = "killed"]
        BY <1>T, <4>2, ZenonT(60) DEF SctpTypeOK
      <4>3. QED  BY <2>1, <4>1, <4>2
    <3>2. SctpTypeOK' /\ OwnFile'
      BY <1>T, <2>0, <2>1, <3>1 DEF SctpTypeOK, OwnFile
    <3>3. InOrder'
      BY <1>T, <2>0, <2>1, <3>1 DEF InOrder
    <3>4. FileFaithful'
      BY <1>T, <2>0 DEF FileFaithful, Chunks
    <3>5. QED  BY <3>2, <3>3, <3>4 DEF SctpInv
  <2>2. CASE /\ hnd[c] # "gone" /\ user' = [user EXCEPT ![c].next = @ + 1]
             /\ fileStream' = [fileStream EXCEPT ![c] = Append(@, <<c, user[c].next>>)]
    <3>1. PICK n \in Nat : n = user[c].next
      BY <1>T DEF SctpTypeOK
    <3>2. <<c, n>> \in Chunk /\ fileStream[c] \in Seq(Chunk)
      BY <1>T DEF SctpTypeOK, Chunk
    <3>3. /\ Append(fileStream[c], <<c, n>>) \in Seq(Chunk)
          /\ Len(fileStream[c]) \in Nat
          /\ Len(Append(fileStream[c], <<c, n>>)) = Len(fileStream[c]) + 1
          /\ \A i \in 1..Len(fileStream[c]) :
               Append(fileStream[c], <<c, n>>)[i] = fileStream[c][i]
          /\ Append(fileStream[c], <<c, n>>)[Len(fileStream[c]) + 1] = <<c, n>>
      BY <3>2
    <3>4. /\ fileStream'[c] = Append(fileStream[c], <<c, n>>)
          /\ \A d \in Users : d # c => fileStream'[d] = fileStream[d]
          /\ fileStream' \in [Users -> Seq(Chunk)]
      BY <1>T, <2>2, <3>1, <3>3 DEF SctpTypeOK
    <3>5. /\ user' \in [Users -> [at : {"new", "open", "killed", "closed"}, next : Nat,
                                  fileEnd : BOOLEAN, msgEnd : BOOLEAN]]
          /\ user'[c].next = n + 1 /\ \A d \in Users : d # c => user'[d].next = user[d].next
      <4>1. user' = [user EXCEPT ![c].next = n + 1]
        BY <2>2, <3>1
      <4>2. \A d \in Users : d # c => user'[d] = user[d]
        BY <1>T, <4>1 DEF SctpTypeOK
      <4>3. user'[c] = [user[c] EXCEPT !.next = n + 1]
        BY <1>T, <4>1 DEF SctpTypeOK
      <4>4. /\ user[c] \in [at : {"new", "open", "killed", "closed"}, next : Nat,
                            fileEnd : BOOLEAN, msgEnd : BOOLEAN]
            /\ n + 1 \in Nat
        BY <1>T DEF SctpTypeOK
      <4>5. user'[c].next = n + 1
        BY <4>3, <4>4
      <4>6. user' \in [Users -> [at : {"new", "open", "killed", "closed"}, next : Nat,
                                fileEnd : BOOLEAN, msgEnd : BOOLEAN]]
        BY <1>T, <4>1, <4>4 DEF SctpTypeOK
      <4>7. QED  BY <4>2, <4>5, <4>6
    <3>6. SctpTypeOK'
      BY <1>T, <2>0, <3>4, <3>5 DEF SctpTypeOK
    <3>7. InOrder'
      <4>1. /\ offset[c] + Len(fileStream'[c]) + 1 = user'[c].next
            /\ \A i \in 1..Len(fileStream'[c]) : fileStream'[c][i] = <<c, offset[c] + i>>
        <5>1. offset[c] \in Nat /\ n = offset[c] + Len(fileStream[c]) + 1
          BY <1>T, <2>2, <3>1 DEF SctpTypeOK, InOrder
        <5>2. \A i \in 1..Len(fileStream'[c]) :
                i \in 1..Len(fileStream[c]) \/ i = Len(fileStream[c]) + 1
          BY <3>3, <3>4
        <5>3. \A i \in 1..Len(fileStream[c]) : fileStream[c][i] = <<c, offset[c] + i>>
          BY <1>T, <2>2 DEF InOrder
        <5>4. offset[c] + Len(fileStream'[c]) + 1 = user'[c].next
          BY <3>3, <3>4, <3>5, <5>1
        <5>5. ASSUME NEW i \in 1..Len(fileStream'[c])
              PROVE  fileStream'[c][i] = <<c, offset[c] + i>>
          <6>1. CASE i \in 1..Len(fileStream[c])
            BY <3>3, <3>4, <5>3, <6>1
          <6>2. CASE i = Len(fileStream[c]) + 1
            <7>1. n = offset[c] + i
              BY <3>3, <5>1, <6>2
            <7>2. QED  BY <3>3, <3>4, <6>2, <7>1
          <6>3. QED  BY <5>2, <6>1, <6>2
        <5>6. QED  BY <5>4, <5>5
      <4>2. ASSUME NEW d \in Users, hnd[d] # "gone", d # c
            PROVE  /\ offset[d] + Len(fileStream'[d]) + 1 = user'[d].next
                   /\ \A i \in 1..Len(fileStream'[d]) : fileStream'[d][i] = <<d, offset[d] + i>>
        BY <1>T, <3>4, <3>5, <4>2 DEF InOrder
      <4>3. QED  BY <2>0, <4>1, <4>2 DEF InOrder
    <3>8. OwnFile' /\ FileFaithful'
      BY <1>T, <2>0 DEF OwnFile, FileFaithful, Chunks
    <3>9. QED  BY <3>6, <3>7, <3>8 DEF SctpInv
  <2>3. QED  BY <1>2, <2>1, <2>2 DEF file_hndl
<1>3. ASSUME NEW c \in Users, Accept(c) \/ RecvMsg(c) \/ RecvFails(c) PROVE SctpInv'
  <2>1. /\ UNCHANGED <<addr, user, fileStream, offset, fd, file>>
        /\ cln_info' = cln_info \/ cln_info' = [cln_info EXCEPT ![c] = addr[c]]
        /\ \/ hnd' = hnd
           \/ hnd[c] = "none" /\ hnd' = [hnd EXCEPT ![c] = "new"]
           \/ hnd[c] = "loop" /\ hnd' = [hnd EXCEPT ![c] = "gone"]
    BY <1>3 DEF Accept, RecvMsg, RecvFails
  <2>2. SctpTypeOK'
    BY <1>T, <2>1 DEF SctpTypeOK
  <2>3. \A d \in Users : /\ hnd[d] \in {"none", "new"} <=> hnd'[d] \in {"none", "new"}
                         /\ hnd'[d] # "gone" => hnd[d] # "gone"
                         /\ hnd'[d] = "loop" => hnd[d] = "loop"
    BY <1>T, <2>1 DEF SctpTypeOK
  <2>4. OwnFile' /\ InOrder'
    <3>1. \A d \in Users : cln_info'[d] = addr[d]
      BY <1>T, <2>1 DEF SctpTypeOK, OwnFile
    <3>2. OwnFile'
      BY <1>T, <2>1, <2>3, <3>1 DEF OwnFile
    <3>3. InOrder'
      BY <1>T, <2>1, <2>3 DEF InOrder
    <3>4. QED  BY <3>2, <3>3
  <2>5. FileFaithful'
    BY <1>T, <2>1, <2>3 DEF FileFaithful, Chunks
  <2>6. QED  BY <2>2, <2>4, <2>5 DEF SctpInv
<1>4. ASSUME NEW c \in Users, OpenFile(c) PROVE SctpInv'
  <2>1. /\ UNCHANGED <<addr, user, fileStream, cln_info, offset>> /\ hnd[c] = "new"
        /\ cln_info[c] = addr[c] /\ offset[c] = 0
        /\ \/ file' = [file EXCEPT ![addr[c]] = <<>>] /\ fd' = [fd EXCEPT ![c] = addr[c]]
              /\ hnd' = [hnd EXCEPT ![c] = "loop"]
           \/ hnd' = [hnd EXCEPT ![c] = "gone"] /\ UNCHANGED <<file, fd>>
    BY <1>T, <1>4 DEF OpenFile, OwnFile
  <2>2. SctpTypeOK'
    <3>1. <<>> \in Seq(Chunk)
      OBVIOUS
    <3>2. file' \in [Addrs -> Seq(Chunk)]
      BY <1>T, <2>1, <3>1 DEF SctpTypeOK
    <3>3. QED  BY <1>T, <2>1, <3>2 DEF SctpTypeOK
  <2>3. /\ hnd'[c] \in {"loop", "gone"} /\ \A d \in Users : d # c => hnd'[d] = hnd[d]
        /\ \A a \in Addrs : a # addr[c] => file'[a] = file[a]
        /\ file'[addr[c]] = <<>> \/ file' = file
        /\ addr[c] \in Addrs
    BY <1>T, <2>1 DEF SctpTypeOK
  <2>4. OwnFile' /\ InOrder'
    BY <1>T, <2>1, <2>3 DEF SctpTypeOK, OwnFile, InOrder
  <2>5. ASSUME NEW d \in Users, fd'[d] # NoFile,
               \A e \in Users \ {d} : addr[e] = addr[d] => fd'[e] = NoFile
        PROVE  file'[addr[d]] = Chunks(d, offset[d])
    <3>0. fd[c] = NoFile /\ \A e \in Users : e # c => fd'[e] = fd[e]
      BY <1>T, <2>1 DEF SctpTypeOK, OwnFile
    <3>1. CASE d = c
      <4>1. fd' # fd
        BY <2>5, <3>0, <3>1
      <4>2. file'[addr[d]] = <<>>
        BY <1>T, <2>1, <2>3, <3>1, <4>1 DEF SctpTypeOK
      <4>3. QED  BY <2>1, <3>1, <4>2, NoChunks
    <3>2. CASE d # c
      <4>1. fd[d] # NoFile /\ \A e \in Users \ {d} : addr[e] = addr[d] => fd[e] = NoFile
        BY <2>5, <3>0, <3>2
      <4>2. file[addr[d]] = Chunks(d, offset[d])
        BY <1>T, <4>1 DEF FileFaithful
      <4>3. CASE file' = file
        BY <4>2, <4>3
      <4>4. CASE file' # file
        <5>1. fd'[c] = addr[c] /\ addr[c] # NoFile
          BY <1>T, <2>1, <2>3, <4>4, AddrAssumption DEF SctpTypeOK
        <5>2. addr[d] # addr[c] /\ addr[d] \in Addrs
          BY <1>T, <2>5, <3>2, <5>1 DEF SctpTypeOK
        <5>3. QED  BY <2>3, <4>2, <5>2
      <4>5. QED  BY <4>3, <4>4
    <3>3. QED  BY <3>1, <3>2
  <2>6. FileFaithful'
    BY <2>1, <2>5 DEF FileFaithful, Chunks
  <2>7. QED  BY <2>2, <2>4, <2>6 DEF SctpInv
<1>5. ASSUME NEW c \in Users, RecvFile(c) PROVE SctpInv'
  <2>1. PICK q \in Seq(Chunk) : q = fileStream[c]
    BY <1>T DEF SctpTypeOK
  <2>2. PICK n \in Nat : n = offset[c]
    BY <1>T DEF SctpTypeOK
  <2>3. /\ UNCHANGED <<addr, user, cln_info, fd>> /\ hnd[c] = "loop" /\ q # <<>>
        /\ fileStream' = [fileStream EXCEPT ![c] = Tail(q)]
        /\ \/ /\ file' = [file EXCEPT ![addr[c]] = WriteAt(@, n, Head(q))]
              /\ offset' = [offset EXCEPT ![c] = n + 1] /\ hnd' = hnd
           \/ hnd' = [hnd EXCEPT ![c] = "gone"] /\ UNCHANGED <<file, offset>>
    BY <1>T, <1>5, <2>1, <2>2 DEF RecvFile, OwnFile
  <2>4. /\ Len(q) \in Nat /\ Head(q) \in Chunk /\ Tail(q) \in Seq(Chunk)
        /\ Len(Tail(q)) = Len(q) - 1 /\ Head(q) = q[1] /\ 1 \in 1..Len(q)
        /\ \A i \in 1..Len(Tail(q)) : Tail(q)[i] = q[i + 1] /\ i + 1 \in 1..Len(q)
    BY <2>3
  <2>5. /\ n + Len(q) + 1 = user[c].next /\ \A i \in 1..Len(q) : q[i] = <<c, n + i>>
        /\ Head(q) = <<c, n + 1>>
    BY <1>T, <2>1, <2>2, <2>3, <2>4 DEF InOrder
  <2>6. /\ fileStream'[c] = Tail(q) /\ \A d \in Users : d # c => fileStream'[d] = fileStream[d]
        /\ fileStream' \in [Users -> Seq(Chunk)]
    BY <1>T, <2>3, <2>4 DEF SctpTypeOK
  <2>7. CASE hnd' = [hnd EXCEPT ![c] = "gone"] /\ UNCHANGED <<file, offset>>
    <3>1. SctpTypeOK'
      BY <1>T, <2>3, <2>6, <2>7 DEF SctpTypeOK
    <3>2. hnd'[c] = "gone" /\ \A d \in Users : d # c => hnd'[d] = hnd[d]
      BY <1>T, <2>7 DEF SctpTypeOK
    <3>3. OwnFile' /\ InOrder'
      <4>1. OwnFile'
        BY <1>T, <2>3, <2>6, <2>7, <3>2, SMTT(40) DEF OwnFile
      <4>2. InOrder'
        <5> SUFFICES ASSUME NEW d \in Users, hnd'[d] # "gone"
                     PROVE  /\ offset'[d] + Len(fileStream'[d]) + 1 = user'[d].next
                            /\ \A i \in 1..Len(fileStream'[d]) :
                                 fileStream'[d][i] = <<d, offset'[d] + i>>
          BY DEF InOrder
        <5>1. d # c /\ hnd[d] # "gone"
          BY <3>2
        <5>2. fileStream'[d] = fileStream[d] /\ offset'[d] = offset[d]
              /\ user'[d] = user[d]
          BY <2>3, <2>6, <2>7, <5>1
        <5>3. QED  BY <1>T, <5>1, <5>2 DEF InOrder
      <4>3. QED  BY <4>1, <4>2
    <3>4. FileFaithful'
      BY <1>T, <2>3, <2>7, <3>2 DEF FileFaithful, Chunks
    <3>5. QED  BY <3>1, <3>3, <3>4 DEF SctpInv
  <2>8. CASE /\ file' = [file EXCEPT ![addr[c]] = WriteAt(@, n, Head(q))]
             /\ offset' = [offset EXCEPT ![c] = n + 1] /\ hnd' = hnd
    <3>1. addr[c] \in Addrs /\ file[addr[c]] \in Seq(Chunk)
      BY <1>T DEF SctpTypeOK
    <3>2. WriteAt(file[addr[c]], n, Head(q)) \in Seq(Chunk)
      BY <2>4, <3>1, WriteAtType
    <3>3. file' \in [Addrs -> Seq(Chunk)]
      BY <1>T, <2>8, <3>1, <3>2 DEF SctpTypeOK
    <3>4. SctpTypeOK'
      BY <1>T, <2>3, <2>6, <2>8, <3>3, SMTT(30) DEF SctpTypeOK
    <3>5. /\ offset'[c] = n + 1 /\ \A d \in Users : d # c => offset'[d] = offset[d]
          /\ file'[addr[c]] = WriteAt(file[addr[c]], n, Head(q))
          /\ \A a \in Addrs : a # addr[c] => file'[a] = file[a]
      BY <1>T, <2>8, <3>1 DEF SctpTypeOK
    <3>6. OwnFile'
      BY <1>T, <2>3, <2>8, <3>5 DEF OwnFile
    <3>7. InOrder'
      <4>1. /\ n + 1 + Len(Tail(q)) + 1 = user[c].next
            /\ \A i \in 1..Len(Tail(q)) : Tail(q)[i] = <<c, n + 1 + i>>
        <5>1. n + 1 + Len(Tail(q)) + 1 = user[c].next
          BY <2>4, <2>5
        <5>2. ASSUME NEW i \in 1..Len(Tail(q)) PROVE Tail(q)[i] = <<c, n + 1 + i>>
          <6>1. Tail(q)[i] = <<c, n + (i + 1)>>
            BY <2>4, <2>5
          <6>2. n + (i + 1) = n + 1 + i
            BY <2>4
          <6>3. QED  BY <6>1, <6>2
        <5>3. QED  BY <5>1, <5>2
      <4>2. ASSUME NEW d \in Users, hnd[d] # "gone", d # c
            PROVE  /\ offset'[d] + Len(fileStream'[d]) + 1 = user[d].next
                   /\ \A i \in 1..Len(fileStream'[d]) : fileStream'[d][i] = <<d, offset'[d] + i>>
        BY <1>T, <2>6, <3>5, <4>2 DEF InOrder
      <4>3. /\ offset'[c] + Len(fileStream'[c]) + 1 = user[c].next
            /\ \A i \in 1..Len(fileStream'[c]) : fileStream'[c][i] = <<c, offset'[c] + i>>
        BY <2>6, <3>5, <4>1
      <4>4. QED  BY <2>3, <2>8, <4>2, <4>3 DEF InOrder
    <3>8. ASSUME NEW d \in Users, fd[d] # NoFile,
                 \A e \in Users \ {d} : addr[e] = addr[d] => fd[e] = NoFile
          PROVE  file'[addr[d]] = Chunks(d, offset'[d])
      <4>1. file[addr[d]] = Chunks(d, offset[d])
        BY <1>T, <3>8 DEF FileFaithful
      <4>2. CASE d = c
        <5>1. file'[addr[c]] = WriteAt(Chunks(c, n), n, <<c, n + 1>>)
          BY <2>2, <2>5, <3>5, <4>1, <4>2
        <5>2. QED  BY <3>5, <4>2, <5>1, WriteAtEnd
      <4>3. CASE d # c
        <5>1. fd[c] = addr[c] /\ addr[c] # NoFile
          BY <1>T, <2>3, <3>1, AddrAssumption DEF OwnFile
        <5>2. addr[d] # addr[c] /\ addr[d] \in Addrs
          BY <1>T, <3>8, <4>3, <5>1 DEF SctpTypeOK
        <5>3. QED  BY <3>5, <4>1, <4>3, <5>2
      <4>4. QED  BY <4>2, <4>3
    <3>9. FileFaithful'
      BY <2>3, <2>8, <3>8 DEF FileFaithful, Chunks
    <3>10. QED  BY <3>4, <3>6, <3>7, <3>9 DEF SctpInv
  <2>9. QED  BY <2>3, <2>7, <2>8
<1>6. CASE UNCHANGED sctpVars
  BY <1>T, <1>6 DEF SctpInv, SctpTypeOK, OwnFile, InOrder, FileFaithful, Chunks, sctpVars
<1>7. QED  BY <1>1, <1>2, <1>3, <1>4, <1>5, <1>6 DEF SctpNext

\* In every run, once a client's handler has opened it, the file of an address is
\* what the handler has received so far, in order, without a hole and with
\* nothing left of an earlier run, as long as no other client's handler has
\* opened it (server_core.c 33-108, server.c 45-63).
THEOREM FilesFaithful == SctpSpec => []FileFaithful
<1>1. SctpInv => FileFaithful
  BY DEF SctpInv
<1>2. QED  BY SctpInvInit, SctpInvStep, <1>1, PTL DEF SctpSpec

-----------------------------------------------------------------------------
(* get_cur_dt *)

Time == [hour : Nat, min : Nat]
InDate == {"hour", "min", "fmthour", "fmtmin"}

DateTypeOK ==
  /\ clock \in Nat
  /\ specific \in [Threads -> Threads \cup {0}]
  /\ buffer \in [Threads -> Time] /\ tm \in Time
  /\ thread \in [Threads -> [at : {"idle", "making", "get", "use", "gone"} \cup InDate, rt : Nat]]

\* A thread that formats or uses a date does so in its own buffer.
OwnBuffer ==
  \A t \in Threads : /\ specific[t] \in {0, t}
                     /\ thread[t].at \in InDate \cup {"use"} => specific[t] = t

\* A thread that shares localtime's structure with another knows it as a clash;
\* the others find in it, and in their buffer, what they have put there.
Alone ==
  \A t \in Threads : t \notin clash =>
    /\ thread[t].at \in InDate => \A u \in Threads : thread[u].at \in InDate => u = t
    /\ thread[t].at \in {"min", "fmthour", "fmtmin"} => tm.hour = Fields(thread[t].rt).hour
    /\ thread[t].at \in {"fmthour", "fmtmin"} => tm.min = Fields(thread[t].rt).min
    /\ thread[t].at \in {"fmtmin", "use"} => buffer[t].hour = Fields(thread[t].rt).hour
    /\ thread[t].at = "use" => buffer[t].min = Fields(thread[t].rt).min

DateInv == DateTypeOK /\ OwnBuffer /\ Alone

\* A time has its two fields, and nothing else.
LEMMA FieldsType == \A n \in Nat : Fields(n) \in Time
BY DEF Fields, Time

\* The invariant holds before the first call.
LEMMA DateInvInit == DateInit => DateInv
<1> SUFFICES ASSUME DateInit PROVE DateInv
  OBVIOUS
<1>1. Fields(0) \in Time
  BY FieldsType
<1>2. DateTypeOK
  BY <1>1 DEF DateInit, DateTypeOK
<1>3. OwnBuffer /\ Alone
  BY DEF DateInit, OwnBuffer, Alone, InDate
<1>4. QED  BY <1>2, <1>3 DEF DateInv

\* Every step of the clock and of a thread preserves it.
LEMMA DateInvStep == DateInv /\ [DateNext]_dateVars => DateInv'
<1> SUFFICES ASSUME DateInv, [DateNext]_dateVars PROVE DateInv'
  OBVIOUS
<1>T. DateTypeOK /\ OwnBuffer /\ Alone
  BY DEF DateInv
<1>1. CASE Tick
  BY <1>T, <1>1 DEF DateInv, DateTypeOK, OwnBuffer, Alone, Tick, Fields
<1>2. ASSUME NEW t \in Threads, CallOnce(t) \/ make_key(t) \/ Used(t) \/ destructor(t)
      PROVE  DateInv'
  <2>1. /\ UNCHANGED <<clock, buffer, tm, clash>>
        /\ specific' = specific \/ specific' = [specific EXCEPT ![t] = 0]
        /\ \E place \in {"idle", "making", "get", "gone"} : thread' = [thread EXCEPT ![t].at = place]
    BY <1>2 DEF CallOnce, make_key, Used, destructor, Goto
  <2>2. DateTypeOK'
    BY <1>T, <2>1 DEF DateTypeOK
  <2>3. /\ thread'[t].at \in {"idle", "making", "get", "gone"}
        /\ \A u \in Threads : u # t => thread'[u] = thread[u] /\ specific'[u] = specific[u]
        /\ specific'[t] \in {specific[t], 0}
    BY <1>T, <2>1 DEF DateTypeOK
  <2>4. OwnBuffer' /\ Alone'
    BY <1>T, <2>1, <2>3 DEF OwnBuffer, Alone, InDate, Fields
  <2>5. QED  BY <2>2, <2>4 DEF DateInv
<1>3. ASSUME NEW t \in Threads, GetBuffer(t) PROVE DateInv'
  <2>1. /\ UNCHANGED <<clock, buffer, tm>>
        /\ specific' = [specific EXCEPT ![t] = IF @ = 0 THEN t ELSE @]
        /\ thread' = [thread EXCEPT ![t] = [at |-> "hour", rt |-> clock]]
        /\ clash' = IF InTm = {} THEN clash \ {t} ELSE clash \cup InTm \cup {t}
        /\ thread[t].at = "get"
    BY <1>3 DEF GetBuffer
  <2>2. DateTypeOK'
    BY <1>T, <2>1 DEF DateTypeOK, InDate
  <2>3. /\ thread'[t].at = "hour" /\ specific'[t] = t
        /\ \A u \in Threads : u # t => thread'[u] = thread[u] /\ specific'[u] = specific[u]
    BY <1>T, <2>1 DEF DateTypeOK, OwnBuffer
  <2>4. OwnBuffer'
    BY <1>T, <2>3 DEF OwnBuffer
  <2>5. \A u \in Threads : u \in InTm <=> thread[u].at \in InDate
    BY DEF InTm, InDate
  <2>6. ASSUME NEW u \in Threads, u \notin clash'
        PROVE  \/ u = t /\ \A v \in Threads : thread[v].at \notin InDate
               \/ u # t /\ u \notin clash /\ thread[u].at \notin InDate
    BY <2>1, <2>5, <2>6
  <2>7. Alone'
    BY <1>T, <2>1, <2>3, <2>6 DEF Alone, InDate, Fields
  <2>8. QED  BY <2>2, <2>4, <2>7 DEF DateInv
<1>4. ASSUME NEW t \in Threads, localtime(t) PROVE DateInv'
  <2>0. Fields(thread[t].rt) \in Time
    BY <1>T, FieldsType DEF DateTypeOK
  <2>1. /\ UNCHANGED <<clock, specific, buffer, clash>>
        /\ \/ /\ thread[t].at = "hour" /\ thread' = [thread EXCEPT ![t].at = "min"]
              /\ tm' = [tm EXCEPT !.hour = Fields(thread[t].rt).hour]
           \/ /\ thread[t].at = "min" /\ thread' = [thread EXCEPT ![t].at = "fmthour"]
              /\ tm' = [tm EXCEPT !.min = Fields(thread[t].rt).min]
    BY <1>4 DEF localtime, Goto
  <2>2. DateTypeOK'
    <3>1. tm' \in Time
      <4>1. CASE tm' = [tm EXCEPT !.hour = Fields(thread[t].rt).hour]
        BY <1>T, <2>0, <4>1 DEF DateTypeOK, Time
      <4>2. CASE tm' = [tm EXCEPT !.min = Fields(thread[t].rt).min]
        BY <1>T, <2>0, <4>2 DEF DateTypeOK, Time
      <4>3. QED  BY <2>1, <4>1, <4>2
    <3>2. \E place \in InDate : thread' = [thread EXCEPT ![t].at = place]
      BY <2>1 DEF InDate
    <3>3. QED  BY <1>T, <2>1, <3>1, <3>2 DEF DateTypeOK
  <2>3. /\ thread'[t].rt = thread[t].rt /\ \A u \in Threads : u # t => thread'[u] = thread[u]
        /\ thread[t].at \in InDate /\ thread'[t].at \in InDate
        /\ \/ /\ thread[t].at = "hour" /\ thread'[t].at = "min"
              /\ tm'.hour = Fields(thread[t].rt).hour
           \/ /\ thread[t].at = "min" /\ thread'[t].at = "fmthour"
              /\ tm'.hour = tm.hour /\ tm'.min = Fields(thread[t].rt).min
    BY <1>T, <2>1 DEF DateTypeOK, Time, InDate
  <2>4. OwnBuffer'
    BY <1>T, <2>1, <2>3 DEF OwnBuffer
  <2>5. Alone'
    BY <1>T, <2>1, <2>3 DEF Alone, InDate, Fields
  <2>6. QED  BY <2>2, <2>4, <2>5 DEF DateInv
<1>5. ASSUME NEW t \in Threads, strftime(t) PROVE DateInv'
  <2>0. specific[t] = t
    BY <1>T, <1>5 DEF OwnBuffer, strftime, InDate
  <2>1. /\ UNCHANGED <<clock, specific, tm, clash>>
        /\ \/ /\ thread[t].at = "fmthour" /\ thread' = [thread EXCEPT ![t].at = "fmtmin"]
              /\ buffer' = [buffer EXCEPT ![t].hour = tm.hour]
           \/ /\ thread[t].at = "fmtmin" /\ thread' = [thread EXCEPT ![t].at = "use"]
              /\ buffer' = [buffer EXCEPT ![t].min = tm.min]
    BY <1>5, <2>0 DEF strftime, Goto
  <2>2. DateTypeOK'
    <3>1. buffer' \in [Threads -> Time]
      <4>1. CASE buffer' = [buffer EXCEPT ![t].hour = tm.hour]
        BY <1>T, <4>1 DEF DateTypeOK, Time
      <4>2. CASE buffer' = [buffer EXCEPT ![t].min = tm.min]
        BY <1>T, <4>2 DEF DateTypeOK, Time
      <4>3. QED  BY <2>1, <4>1, <4>2
    <3>2. \E place \in {"fmtmin", "use"} : thread' = [thread EXCEPT ![t].at = place]
      BY <2>1
    <3>3. QED  BY <1>T, <2>1, <3>1, <3>2 DEF DateTypeOK, InDate
  <2>3. /\ thread'[t].rt = thread[t].rt
        /\ \A u \in Threads : u # t => thread'[u] = thread[u] /\ buffer'[u] = buffer[u]
        /\ \/ /\ thread[t].at = "fmthour" /\ thread'[t].at = "fmtmin"
              /\ buffer'[t].hour = tm.hour
           \/ /\ thread[t].at = "fmtmin" /\ thread'[t].at = "use"
              /\ buffer'[t].hour = buffer[t].hour /\ buffer'[t].min = tm.min
    BY <1>T, <2>1 DEF DateTypeOK, Time
  <2>4. OwnBuffer'
    BY <1>T, <2>0, <2>1, <2>3 DEF OwnBuffer, InDate
  <2>5. Alone'
    BY <1>T, <2>1, <2>3 DEF Alone, InDate, Fields
  <2>6. QED  BY <2>2, <2>4, <2>5 DEF DateInv
<1>6. CASE UNCHANGED dateVars
  BY <1>T, <1>6 DEF DateInv, DateTypeOK, OwnBuffer, Alone, Fields, dateVars
<1>7. QED  BY <1>1, <1>2, <1>3, <1>4, <1>5, <1>6 DEF DateNext

\* In every run, for any number of threads, the text a thread uses is the time it has
\* read, unless another thread was between its localtime and its strftime at the
\* same time (server_core.c 199-228).
THEOREM DatesOwn == DateSpec => []DateOwn
<1>1. DateInv => DateOwn
  <2> SUFFICES ASSUME DateInv, NEW t \in Threads, thread[t].at = "use", t \notin clash
               PROVE  buffer[specific[t]] = Fields(thread[t].rt)
    BY DEF DateOwn
  <2>1. specific[t] = t /\ buffer[t] \in Time /\ Fields(thread[t].rt) \in Time
    BY FieldsType DEF DateInv, DateTypeOK, OwnBuffer
  <2>2. /\ buffer[t].hour = Fields(thread[t].rt).hour
        /\ buffer[t].min = Fields(thread[t].rt).min
    BY DEF DateInv, Alone
  <2>3. QED  BY <2>1, <2>2 DEF Time
<1>2. QED  BY DateInvInit, DateInvStep, <1>1, PTL DEF DateSpec

-----------------------------------------------------------------------------
(* named_pipes *)

NamedTypeOK ==
  /\ fifo = 0 \/ (fifo \in Servers /\ server[fifo] # "none")
  /\ server \in [Servers -> {"none", "open", "write", "mask", "wait", "dead"}]
  /\ client \in [PipeClients -> [at : {"none", "read", "loop", "signalled", "left", "killed"},
                                 open : Servers \cup {0}, pid : Servers \cup {0}]]

\* A client has a FIFO open whose server has passed its own open, and it has no pid
\* only if that server is dead.
FifoOpen ==
  \A c \in PipeClients :
    /\ client[c].at # "none" =>
         client[c].open \in Servers /\ server[client[c].open] \notin {"none", "open"}
    /\ client[c].at = "signalled" \/ (client[c].at = "loop" /\ client[c].pid = 0) =>
         server[client[c].open] = "dead"

NamedInv == NamedTypeOK /\ FifoOpen

\* The invariant holds before anybody has made a FIFO.
LEMMA NamedInvInit == PipeInit => NamedInv
BY DEF PipeInit, NamedInv, NamedTypeOK, FifoOpen

\* Every step of the servers and of the clients preserves it.
LEMMA NamedInvStep ==
  0 \notin Servers /\ NamedInv /\ [Named]_namedVars => NamedInv'
<1> SUFFICES ASSUME 0 \notin Servers, NamedInv, [Named]_namedVars PROVE NamedInv'
  OBVIOUS
<1>T. NamedTypeOK /\ FifoOpen
  BY DEF NamedInv
<1>1. ASSUME NEW s \in Servers,
             Mkfifo(s) \/ PutPid(s) \/ MaskSignal(s) \/ SigWait(s) \/ ServerKilled(s)
      PROVE  NamedInv'
  <2>1. /\ client' = client
        /\ \/ server' = server
           \/ /\ server[s] \in {"none", "write", "mask", "open", "wait"}
              /\ \E to \in {"open", "mask", "wait", "dead"} :
                   /\ server' = [server EXCEPT ![s] = to]
                   /\ to = "open" => server[s] = "none"
        /\ fifo' = fifo \/ (fifo' = s /\ server' # server /\ server' = [server EXCEPT ![s] = "open"])
    BY <1>T, <1>1 DEF Mkfifo, PutPid, MaskSignal, SigWait, ServerKilled, Alive, NamedTypeOK
  <2>2. /\ \A t \in Servers : t # s => server'[t] = server[t]
        /\ server'[s] # "none" \/ server'[s] = server[s]
        /\ server[s] = "dead" => server'[s] = "dead"
        /\ server'[s] = "open" => server[s] \in {"none", "open"}
    BY <1>T, <2>1 DEF NamedTypeOK
  <2>3. NamedTypeOK'
    BY <1>T, <2>1, <2>2 DEF NamedTypeOK
  <2>4. FifoOpen'
    BY <1>T, <2>1, <2>2 DEF FifoOpen
  <2>5. QED  BY <2>3, <2>4 DEF NamedInv
<1>2. ASSUME NEW c \in PipeClients, OpenFifo(c) PROVE NamedInv'
  <2>1. /\ client[c].at = "none" /\ fifo \in Servers /\ Alive(fifo) /\ fifo' = fifo
        /\ server' = [server EXCEPT ![fifo] = IF @ = "open" THEN "write" ELSE @]
        /\ client' = [client EXCEPT ![c].at = "read", ![c].open = fifo]
    BY <1>T, <1>2 DEF OpenFifo, NamedTypeOK
  <2>2. /\ client'[c].at = "read" /\ client'[c].open = fifo
        /\ \A d \in PipeClients : d # c => client'[d] = client[d]
        /\ server'[fifo] \in {"write", "mask", "wait"}
        /\ \A t \in Servers : t # fifo => server'[t] = server[t]
    BY <1>T, <2>1 DEF NamedTypeOK, Alive
  <2>3. NamedTypeOK'
    BY <1>T, <2>1, <2>2, ZenonT(60) DEF NamedTypeOK
  <2>4. FifoOpen'
    <3>1. server[fifo] # "dead"
      BY <2>1 DEF Alive
    <3>2. ASSUME NEW d \in PipeClients, d # c
          PROVE  /\ client'[d].at # "none" =>
                      client'[d].open \in Servers /\ server'[client'[d].open] \notin {"none", "open"}
                 /\ client'[d].at = "signalled" \/ (client'[d].at = "loop" /\ client'[d].pid = 0) =>
                      server'[client'[d].open] = "dead"
      BY <1>T, <2>2, <3>1, <3>2 DEF FifoOpen
    <3>3. QED  BY <2>1, <2>2, <3>2 DEF FifoOpen
  <2>5. QED  BY <2>3, <2>4 DEF NamedInv
<1>3. ASSUME NEW c \in PipeClients, GetPid(c) PROVE NamedInv'
  <2>1. PICK s \in Servers : s = client[c].open
    BY <1>T, <1>3 DEF GetPid, FifoOpen
  <2>2. /\ client[c].at = "read" /\ UNCHANGED <<fifo, server>>
        /\ \E n \in {0, s} :
             /\ client' = [client EXCEPT ![c].at = "loop", ![c].pid = n]
             /\ n = 0 => ~Alive(s)
    BY <1>3, <2>1 DEF GetPid
  <2>3. /\ client'[c].at = "loop" /\ client'[c].open = s
        /\ \A d \in PipeClients : d # c => client'[d] = client[d]
        /\ client'[c].pid = 0 => ~Alive(s)
    BY <1>T, <2>1, <2>2 DEF NamedTypeOK
  <2>4. NamedTypeOK'
    <3>1. PICK n \in Servers \cup {0} : client' = [client EXCEPT ![c].at = "loop", ![c].pid = n]
      BY <2>2
    <3>2. client' \in [PipeClients -> [at : {"none", "read", "loop", "signalled", "left", "killed"},
                                       open : Servers \cup {0}, pid : Servers \cup {0}]]
      BY <1>T, <3>1, ZenonT(60) DEF NamedTypeOK
    <3>3. QED  BY <1>T, <2>2, <3>2 DEF NamedTypeOK
  <2>5. ~Alive(s) => server[s] = "dead"
    BY <1>T, <2>1, <2>2 DEF NamedTypeOK, FifoOpen, Alive
  <2>6. FifoOpen'
    BY <1>T, <2>1, <2>2, <2>3, <2>5 DEF FifoOpen
  <2>7. QED  BY <2>4, <2>6 DEF NamedInv
<1>4. ASSUME NEW c \in PipeClients, SendSignal(c) PROVE NamedInv'
  <2>1. CASE client[c].pid = 0
    <3>1. /\ client[c].at = "loop" /\ UNCHANGED <<fifo, server>>
          /\ client' = [client EXCEPT ![c].at = "signalled"]
      BY <1>4, <2>1 DEF SendSignal
    <3>2. /\ client'[c].at = "signalled" /\ client'[c].open = client[c].open
          /\ \A d \in PipeClients : d # c => client'[d] = client[d]
      BY <1>T, <3>1 DEF NamedTypeOK
    <3>3. NamedTypeOK'
      BY <1>T, <3>1 DEF NamedTypeOK
    <3>4. FifoOpen'
      BY <1>T, <2>1, <3>1, <3>2 DEF FifoOpen
    <3>5. QED  BY <3>3, <3>4 DEF NamedInv
  <2>2. CASE client[c].pid # 0
    <3>1. PICK s \in Servers : s = client[c].pid
      BY <1>T, <2>2 DEF NamedTypeOK
    <3>2. /\ UNCHANGED <<fifo, client>>
          /\ server' = [server EXCEPT ![s] = IF @ = "mask" THEN "dead" ELSE @]
      BY <1>4, <2>2, <3>1 DEF SendSignal
    <3>3. \A t \in Servers : server'[t] = server[t] \/ (server[t] = "mask" /\ server'[t] = "dead")
      BY <1>T, <3>2 DEF NamedTypeOK
    <3>4. NamedTypeOK'
      BY <1>T, <3>2, <3>3 DEF NamedTypeOK
    <3>5. FifoOpen'
      BY <1>T, <3>2, <3>3 DEF FifoOpen
    <3>6. QED  BY <3>4, <3>5 DEF NamedInv
  <2>3. QED  BY <2>1, <2>2
<1>5. ASSUME NEW c \in PipeClients, ClientLeaves(c) \/ Killed(c) PROVE NamedInv'
  <2>1. /\ client[c].at \in {"read", "loop"} /\ server' = server /\ fifo' \in {fifo, 0}
        /\ \E to \in {"left", "killed"} : client' = [client EXCEPT ![c].at = to]
    BY <1>5 DEF ClientLeaves, Killed
  <2>2. /\ client'[c].at \in {"left", "killed"} /\ client'[c].open = client[c].open
        /\ \A d \in PipeClients : d # c => client'[d] = client[d]
    BY <1>T, <2>1 DEF NamedTypeOK
  <2>3. NamedTypeOK'
    BY <1>T, <2>1 DEF NamedTypeOK
  <2>4. FifoOpen'
    BY <1>T, <2>1, <2>2 DEF FifoOpen
  <2>5. QED  BY <2>3, <2>4 DEF NamedInv
<1>6. CASE UNCHANGED namedVars
  BY <1>T, <1>6 DEF NamedInv, NamedTypeOK, FifoOpen, namedVars
<1>7. QED  BY <1>1, <1>2, <1>3, <1>4, <1>5, <1>6 DEF Named

\* In every run, for any number of servers and clients, a client signals its own
\* process group only when the server whose FIFO it opened is gone; a server's
\* process identifier is not 0 (server.c 24-45, client.c 19-32).
THEOREM SelfSignalOnlyIfDead ==
  ASSUME 0 \notin Servers
  PROVE  PipeSpec => []NoSelfSignal
<1>1. NamedInv /\ [Named]_namedVars => NamedInv'
  BY NamedInvStep
<1>2. NamedInv => NoSelfSignal
  BY DEF NamedInv, FifoOpen, NoSelfSignal
<1>3. QED  BY NamedInvInit, <1>1, <1>2, PTL DEF PipeSpec
=============================================================================
