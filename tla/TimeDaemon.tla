------------------------------ MODULE TimeDaemon ------------------------------
(***************************************************************************)
(* daemon: a daemon that answers SIGUSR1 with the date, and its clients.   *)
(* The daemon hands its pid to a client through one named pipe, answers    *)
(* through another, and blocks the signals only after both pipes are open. *)
(* Opening a pipe waits for its other end.                                 *)
(***************************************************************************)
EXTENDS Naturals

CONSTANTS
  Clients,
  DtExists,     \* whether dt.pipe may be there from an earlier run
  MayDie,       \* whether clients may be killed
  MayHup,       \* whether somebody sends SIGHUP
  NoMemory,     \* whether malloc may fail
  MaxReq        \* bound: requests per client

ASSUME FlagAssumption ==
  DtExists \subseteq BOOLEAN /\ MayDie \in BOOLEAN /\ MayHup \in BOOLEAN
  /\ NoMemory \in BOOLEAN /\ MaxReq \in Nat

VARIABLES
  dpc,       \* daemon: "pid", "writepid", "mkdt", "dt", "mask", "wait", "write";
             \* "dead" of a signal, "exited" for want of memory
  pending,   \* signals blocked and pending
  handled,   \* requests the daemon has answered
  pidFile,   \* time_daemon.pid exists
  pidData,   \* the pid is in its pipe
  dtFile,    \* dt.pipe exists
  dtData,    \* the answer in dt.pipe, 0 for none
  woken,     \* clients whose open of time_daemon.pid may return
  cpc,       \* client: "start", "pid", "readpid", "dt", "ready", "read", "gone"
  pid,       \* whether each client knows the daemon's pid (else it has 0)
  asked, got \* requests sent, number of the last answer read

daemonVars == <<dpc, pending, handled>>
pidVars == <<pidFile, pidData, woken>>
dtVars == <<dtFile, dtData>>
clnVars == <<cpc, pid, asked, got>>
vars == <<daemonVars, pidVars, dtVars, clnVars>>

\* The daemon has made time_daemon.pid and is about to open it.
Init ==
  /\ dpc = "pid"
  /\ pending = {}
  /\ handled = 0
  /\ pidFile = TRUE /\ pidData = FALSE
  /\ dtFile \in DtExists /\ dtData = 0
  /\ woken = {}
  /\ cpc = [c \in Clients |-> "start"]
  /\ pid = [c \in Clients |-> FALSE]
  /\ asked = [c \in Clients |-> 0]
  /\ got = [c \in Clients |-> 0]

At(S) == {c \in Clients : cpc[c] \in S}
DtWriter == dpc \in {"mask", "wait", "write"}
DtReaders == At({"dt", "ready", "read"})
Running == dpc \notin {"dead", "exited"}

-----------------------------------------------------------------------------
(* Daemon *)

\* open(PID_FILE_NAME, O_WRONLY) waits for a reader and releases the readers.
OpenPid ==
  /\ dpc = "pid" /\ At({"pid"}) # {}
  /\ dpc' = "writepid"
  /\ woken' = woken \cup At({"pid"})
  /\ UNCHANGED <<pending, handled, pidFile, pidData, dtVars, clnVars>>

\* write and close; SIGPIPE when the readers are gone.
WritePid ==
  /\ dpc = "writepid"
  /\ IF At({"pid", "readpid"}) = {}
     THEN dpc' = "dead" /\ UNCHANGED pidData
     ELSE dpc' = "mkdt" /\ pidData' = TRUE
  /\ UNCHANGED <<pending, handled, pidFile, woken, dtVars, clnVars>>

MakeDt ==
  /\ dpc = "mkdt"
  /\ dpc' = "dt"
  /\ dtFile' = TRUE
  /\ UNCHANGED <<pending, handled, pidVars, dtData, clnVars>>

\* open(DT_FILE_NAME, O_WRONLY) waits for a reader.
OpenDt ==
  /\ dpc = "dt" /\ DtReaders # {}
  /\ dpc' = "mask"
  /\ UNCHANGED <<pending, handled, pidVars, dtVars, clnVars>>

\* sigprocmask(SIG_BLOCK)
Mask ==
  /\ dpc = "mask"
  /\ dpc' = "wait"
  /\ UNCHANGED <<pending, handled, pidVars, dtVars, clnVars>>

\* get_cur_dt, which sys_log calls too, exits when malloc fails.
get_cur_dt(next) == dpc' \in {next} \cup (IF NoMemory THEN {"exited"} ELSE {})

\* Mutant of Wait: every pending signal is discarded with the one taken.
WaitClears(sig) ==
  /\ dpc = "wait" /\ sig \in pending
  /\ pending' = {}
  /\ get_cur_dt(IF sig = "USR1" THEN "write" ELSE "wait")
  /\ UNCHANGED <<handled, pidVars, dtVars, clnVars>>

\* Mutant of Wait: the break of "case 1" is missing.
WaitFallsThrough(sig) ==
  /\ dpc = "wait" /\ sig \in pending
  /\ pending' = pending \ {sig}
  /\ get_cur_dt("write")
  /\ UNCHANGED <<handled, pidVars, dtVars, clnVars>>

\* sigwait takes one of the pending signals, which is logged; SIGHUP is no more
\* than that.
Wait(sig) ==
  /\ dpc = "wait" /\ sig \in pending
  /\ pending' = pending \ {sig}
  /\ get_cur_dt(IF sig = "USR1" THEN "write" ELSE "wait")
  /\ UNCHANGED <<handled, pidVars, dtVars, clnVars>>

\* The request is logged, the date made and written, and the reply logged;
\* SIGPIPE when nobody has the pipe open for reading.
Write ==
  /\ dpc = "write"
  /\ \/ NoMemory /\ dpc' = "exited" /\ UNCHANGED <<handled, dtData>>
     \/ DtReaders = {} /\ dpc' = "dead" /\ UNCHANGED <<handled, dtData>>
     \/ /\ DtReaders # {} /\ get_cur_dt("wait")
        /\ handled' = handled + 1
        /\ dtData' = handled'
  /\ UNCHANGED <<pending, pidVars, dtFile, clnVars>>

\* A signal to the daemon: it kills a daemon that has not blocked it yet.
Signal(sig) ==
  IF dpc \in {"wait", "write"} THEN pending' = pending \cup {sig} /\ UNCHANGED dpc
  ELSE dpc' = "dead" /\ UNCHANGED pending

Hangup ==
  /\ MayHup /\ Running
  /\ Signal("HUP")
  /\ UNCHANGED <<handled, pidVars, dtVars, clnVars>>

-----------------------------------------------------------------------------
(* Clients *)

\* open(PID_FILE_NAME, O_RDONLY); without the file the client exits.
Start(c) ==
  /\ cpc[c] = "start"
  /\ cpc' = [cpc EXCEPT ![c] = IF pidFile THEN "pid" ELSE "gone"]
  /\ woken' = IF pidFile /\ dpc = "writepid" THEN woken \cup {c} ELSE woken
  /\ UNCHANGED <<daemonVars, pidFile, pidData, dtVars, pid, asked, got>>

Opened(c) ==
  /\ cpc[c] = "pid" /\ c \in woken
  /\ cpc' = [cpc EXCEPT ![c] = "readpid"]
  /\ UNCHANGED <<daemonVars, pidVars, dtVars, pid, asked, got>>

\* read of the pid: the first reader takes it, another one finds the end of the
\* pipe and keeps 0.
ReadPid(c) ==
  /\ cpc[c] = "readpid" /\ (pidData \/ dpc # "writepid")
  /\ pid' = [pid EXCEPT ![c] = pidData]
  /\ pidData' = FALSE
  /\ cpc' = [cpc EXCEPT ![c] = IF dtFile THEN "dt" ELSE "gone"]
  /\ UNCHANGED <<daemonVars, pidFile, woken, dtVars, asked, got>>

OpenedDt(c) ==
  /\ cpc[c] = "dt" /\ DtWriter
  /\ cpc' = [cpc EXCEPT ![c] = "ready"]
  /\ UNCHANGED <<daemonVars, pidVars, dtVars, pid, asked, got>>

\* kill(dmn_pid, SIGUSR1): pid 0 is the client's own process group.
Request(c) ==
  /\ cpc[c] = "ready" /\ asked[c] < MaxReq
  /\ asked' = [asked EXCEPT ![c] = @ + 1]
  /\ cpc' = [cpc EXCEPT ![c] = IF pid[c] THEN "read" ELSE "gone"]
  /\ IF pid[c] /\ Running THEN Signal("USR1") ELSE UNCHANGED <<dpc, pending>>
  /\ UNCHANGED <<handled, pidVars, dtVars, pid, got>>

\* read(fd_dt): the answer, or the end of the pipe when the daemon has ended.
ReadDt(c) ==
  /\ cpc[c] = "read" /\ (dtData # 0 \/ ~DtWriter)
  /\ got' = [got EXCEPT ![c] = dtData]
  /\ dtData' = 0
  /\ cpc' = [cpc EXCEPT ![c] = "ready"]
  /\ UNCHANGED <<daemonVars, pidVars, dtFile, pid, asked>>

\* The space key: the client unlinks time_daemon.pid and exits.
Leave(c) ==
  /\ cpc[c] = "ready"
  /\ cpc' = [cpc EXCEPT ![c] = "gone"]
  /\ pidFile' = FALSE
  /\ UNCHANGED <<daemonVars, pidData, woken, dtVars, pid, asked, got>>

\* A client is killed; what is in a pipe goes when nobody has it open.
Die(c) ==
  /\ MayDie /\ cpc[c] \notin {"start", "gone"}
  /\ cpc' = [cpc EXCEPT ![c] = "gone"]
  /\ pidData' = (pidData /\ At({"pid", "readpid"}) # {c})
  /\ UNCHANGED <<daemonVars, pidFile, woken, dtVars, pid, asked, got>>

-----------------------------------------------------------------------------
DaemonStarts == OpenPid \/ WritePid \/ MakeDt \/ OpenDt \/ Mask
Daemon == DaemonStarts \/ (\E sig \in pending : Wait(sig)) \/ Write
Client(c) == Opened(c) \/ ReadPid(c) \/ OpenedDt(c) \/ ReadDt(c)

Next ==
  \/ Daemon \/ Hangup
  \/ \E c \in Clients :
       Start(c) \/ Client(c) \/ Request(c) \/ Leave(c) \/ Die(c)

Spec == Init /\ [][Next]_vars

\* The processes run; sigwait takes every pending signal sooner or later.
Fairness ==
  /\ WF_vars(DaemonStarts) /\ WF_vars(Write)
  /\ \A sig \in {"USR1", "HUP"} : SF_vars(Wait(sig))
  /\ \A c \in Clients : WF_vars(Client(c))

FairSpec == Spec /\ Fairness

-----------------------------------------------------------------------------
(* Properties *)

\* The client that knows the daemon reads the answer to the request it has just
\* sent, one answer per request, whatever other signals arrive, unless the
\* daemon has ended (daemon.c 121-141, client.c 38-47).
AnswersInStep ==
  \A c \in Clients :
    cpc[c] = "ready" /\ pid[c] /\ Running => got[c] = asked[c]

\* Once it waits for signals the daemon ends of two things only: it exits when
\* malloc fails in get_cur_dt (daemon.c 43-47), and SIGPIPE, neither blocked nor
\* handled, kills it when the client it gave its pid to was killed between a
\* request and its answer (daemon.c 116-149).
DiesOfKilledClient ==
  [][~Running' /\ dpc \in {"wait", "write"} =>
       \/ NoMemory /\ dpc' = "exited"
       \/ dpc' = "dead" /\ \E c \in Clients : pid[c] /\ cpc[c] = "gone" /\ got[c] # asked[c]]_vars

\* A request is answered or finds that the daemon has ended (daemon.c 122-135).
RequestAnswered == \A c \in Clients : cpc[c] = "read" ~> cpc[c] # "read"
=============================================================================
