------------------------------- MODULE Pipes -------------------------------
(***************************************************************************)
(* Two programs that talk through pipes.                                   *)
(*                                                                         *)
(* unnamed_pipes: main forks "ls -l" writing into a pipe, waits for it,    *)
(* and forks "cut" reading from it.  waitpid is called with one argument   *)
(* of three: with what happens to be in the registers it waits, or fails   *)
(* at once.                                                                *)
(*                                                                         *)
(* named_pipes_&_signal: a server writes its pid into a FIFO it keeps open *)
(* and waits for SIGUSR1; a client reads the pid, signals at every newline *)
(* and unlinks the FIFO when it leaves.                                    *)
(***************************************************************************)
EXTENDS Naturals

CONSTANTS
  Outputs,     \* sizes of what ls may print
  PipeSize,    \* what the pipe holds
  Servers,     \* runs of the server: 1..n
  PipeClients

VARIABLES
  main, waits,        \* unnamed_pipes: main, and whether its waitpid waits
  ls, out, wrote,     \* ls, what it prints, and what of it is in or through the pipe
  cut, read,          \* cut, and what it has read
  fifo,               \* named_pipes: the server whose FIFO has the name, or 0
  server, pid_in,     \* each server; whether its FIFO still holds its pid
  usr1,            \* SIGUSR1 is pending
  client              \* each client: where it is, whose FIFO it has open, whose pid

unnamedVars == <<main, waits, ls, out, wrote, cut, read>>
namedVars == <<fifo, server, pid_in, usr1, client>>

PipeInit ==
  /\ main = "start" /\ waits \in BOOLEAN
  /\ ls = "none" /\ out \in Outputs /\ wrote = 0
  /\ cut = "none" /\ read = 0
  /\ fifo = 0
  /\ server = [s \in Servers |-> "none"]
  /\ pid_in = [s \in Servers |-> FALSE]
  /\ usr1 = [s \in Servers |-> FALSE]
  /\ client = [c \in PipeClients |-> [at |-> "none", open |-> 0, pid |-> 0]]

-----------------------------------------------------------------------------
(* unnamed_pipes *)

\* Who has the write end and the read end open.
Writers == {w \in {"main", "ls"} : IF w = "main" THEN main # "exit" ELSE ls = "run"}
HasReader == main # "exit" \/ cut = "run"

ForkLs ==
  /\ main = "start" /\ main' = "wait" /\ ls' = "run"
  /\ UNCHANGED <<waits, out, wrote, cut, read>>

LsWrite ==
  /\ ls = "run" /\ wrote < out
  /\ IF HasReader
     THEN wrote - read < PipeSize /\ wrote' = wrote + 1 /\ UNCHANGED ls
     ELSE ls' = "done" /\ UNCHANGED wrote      \* SIGPIPE
  /\ UNCHANGED <<main, waits, out, cut, read>>

LsEnd ==
  /\ ls = "run" /\ wrote = out
  /\ ls' = "done"
  /\ UNCHANGED <<main, waits, out, wrote, cut, read>>

\* waitpid(ls_pid).
WaitLs ==
  /\ main = "wait" /\ (waits => ls = "done")
  /\ main' = "cut"
  /\ UNCHANGED <<waits, ls, out, wrote, cut, read>>

ForkCut ==
  /\ main = "cut" /\ main' = "end"
  /\ \E started \in {"run", "failed"} : cut' = started    \* execl
  /\ UNCHANGED <<waits, ls, out, wrote, read>>

MainExit ==
  /\ main = "end" /\ main' = "exit"
  /\ UNCHANGED <<waits, ls, out, wrote, cut, read>>

CutRead ==
  /\ cut = "run" /\ read < wrote
  /\ read' = read + 1
  /\ UNCHANGED <<main, waits, ls, out, wrote, cut>>

\* Mutant of CutEof: the child keeps the write end it inherited.
CutEofOwnEnd ==
  /\ cut = "run" /\ read = wrote /\ Writers \cup {cut} = {}
  /\ cut' = "done"
  /\ UNCHANGED <<main, waits, ls, out, wrote, read>>

\* The pipe is empty and nobody else can write: the child has closed fd_ps[1].
CutEof ==
  /\ cut = "run" /\ read = wrote /\ Writers = {}
  /\ cut' = "done"
  /\ UNCHANGED <<main, waits, ls, out, wrote, read>>

Unnamed == ForkLs \/ LsWrite \/ LsEnd \/ WaitLs \/ ForkCut \/ MainExit \/ CutRead \/ CutEof

-----------------------------------------------------------------------------
(* named_pipes_&_signal *)

Alive(s) == server[s] \in {"open", "write", "mask", "wait"}

\* mkfifo fails while a FIFO of that name is left, and the server ends.
Mkfifo(s) ==
  /\ server[s] = "none" /\ \A t \in Servers : t < s => server[t] # "none"
  /\ IF fifo = 0 THEN fifo' = s /\ server' = [server EXCEPT ![s] = "open"]
                 ELSE server' = [server EXCEPT ![s] = "dead"] /\ UNCHANGED fifo
  /\ UNCHANGED <<pid_in, usr1, client>>

\* A client's open and the server's wait for each other.
OpenFifo(c) ==
  /\ client[c].at = "none"
  /\ fifo # 0 /\ Alive(fifo)
  /\ server' = [server EXCEPT ![fifo] = IF @ = "open" THEN "write" ELSE @]
  /\ client' = [client EXCEPT ![c].at = "read", ![c].open = fifo]
  /\ UNCHANGED <<fifo, pid_in, usr1>>

\* Mutant of PutPid: the server closes the FIFO once it has written.
PutPidCloses(s) ==
  /\ server[s] = "write"
  /\ pid_in' = [pid_in EXCEPT ![s] = TRUE]
  /\ server' = [server EXCEPT ![s] = "closed"]
  /\ UNCHANGED <<fifo, usr1, client>>

\* write.  A server whose reader has been killed gets SIGPIPE.
PutPid(s) ==
  /\ server[s] = "write"
  /\ IF \E c \in PipeClients : client[c].at = "read" /\ client[c].open = s
     THEN /\ pid_in' = [pid_in EXCEPT ![s] = TRUE]
          /\ server' = [server EXCEPT ![s] = "mask"]
     ELSE /\ server' = [server EXCEPT ![s] = "dead"]
          /\ UNCHANGED pid_in
  /\ UNCHANGED <<fifo, usr1, client>>

\* read: the pid if it is there; nothing, leaving srv_pid = 0, if no server has
\* the FIFO open any more; otherwise the client waits.
GetPid(c) ==
  LET s == client[c].open IN
  /\ client[c].at = "read"
  /\ pid_in[s] \/ ~Alive(s)
  /\ pid_in' = [pid_in EXCEPT ![s] = FALSE]
  /\ client' = [client EXCEPT ![c].at = "loop", ![c].pid = IF pid_in[s] THEN s ELSE 0]
  /\ UNCHANGED <<fifo, server, usr1>>

MaskSignal(s) ==
  /\ server[s] = "mask" /\ server' = [server EXCEPT ![s] = "wait"]
  /\ UNCHANGED <<fifo, pid_in, usr1, client>>

\* A newline: kill(srv_pid, 10).  Process 0 is the client's own group.
SendSignal(c) ==
  LET s == client[c].pid IN
  /\ client[c].at = "loop"
  /\ IF s = 0
     THEN client' = [client EXCEPT ![c].at = "signalled"] /\ UNCHANGED <<server, usr1>>
     ELSE /\ server' = [server EXCEPT ![s] = IF @ = "mask" THEN "dead" ELSE @]
          /\ usr1' = [usr1 EXCEPT ![s] = server[s] = "wait"]
          /\ UNCHANGED client
  /\ UNCHANGED <<fifo, pid_in>>

SigWait(s) ==
  /\ server[s] = "wait" /\ usr1[s]
  /\ usr1' = [usr1 EXCEPT ![s] = FALSE]
  /\ UNCHANGED <<fifo, server, pid_in, client>>

\* A space: close and unlink, whoever's FIFO has the name by then.
ClientLeaves(c) ==
  /\ client[c].at = "loop"
  /\ client' = [client EXCEPT ![c].at = "left"]
  /\ fifo' = 0
  /\ UNCHANGED <<server, pid_in, usr1>>

Killed(c) ==
  /\ client[c].at \in {"read", "loop"}
  /\ client' = [client EXCEPT ![c].at = "killed"]
  /\ UNCHANGED <<fifo, server, pid_in, usr1>>

ServerKilled(s) ==
  /\ Alive(s) /\ server' = [server EXCEPT ![s] = "dead"]
  /\ UNCHANGED <<fifo, pid_in, usr1, client>>

Named ==
  \/ \E s \in Servers : \/ Mkfifo(s) \/ PutPid(s) \/ MaskSignal(s) \/ SigWait(s)
                        \/ ServerKilled(s)
  \/ \E c \in PipeClients : OpenFifo(c) \/ GetPid(c) \/ SendSignal(c) \/ ClientLeaves(c) \/ Killed(c)

\* The processes of unnamed_pipes run once main has started.
PipeFairness == WF_unnamedVars(main # "start" /\ Unnamed)

\* The two programs have nothing to do with each other.
PipeSpec == PipeInit /\ PipeFairness
              /\ [][Unnamed]_unnamedVars
              /\ [][Named]_namedVars

-----------------------------------------------------------------------------
\* Whatever ls prints reaches cut, and cut ends, if it fits into the pipe or
\* waitpid does not wait: ends of the pipe that main and ls still hold are closed
\* in time, and main waits for nothing that waits for it.  Otherwise ls waits for
\* a reader and main for ls (unnamed_pipes main.c 12-53).
CutGetsAll ==
  main # "start" /\ (out <= PipeSize \/ ~waits)
    ~> cut = "failed" \/ (cut = "done" /\ read = out)

\* A client signals its own process group only when the server whose FIFO it opened
\* is gone: as long as the server lives, a client that finds the FIFO empty waits,
\* for the server never closes it (server.c 24-45, client.c 19-32).
NoSelfSignal ==
  \A c \in PipeClients : client[c].at = "signalled" => server[client[c].open] = "dead"
=============================================================================
