----------------------------- MODULE MCProcesses -----------------------------
(* Programs of several processes or threads side by side: each behaviour is one *)
(* program's, and the others stay in their initial state.  They share nothing,  *)
(* so the run is the union of theirs.                                           *)
EXTENDS MCTimeDaemon, Pipes, ThreadDate, Sctp

VARIABLES
  program,
  exists, queue, srv, srv_msg, cln, starts, lost

Q == INSTANCE QueueChat WITH Pids <- {2, 3}, Slots <- 3, MaxStarts <- 3

chat == <<exists, queue, srv, srv_msg, cln, starts, lost>>

ProcVars == <<program, vars, chat, unnamedVars, namedVars, dateVars, sctpVars>>

ProcInit ==
  /\ program \in {"daemon", "queue_chat", "unnamed_pipes", "named_pipes", "get_cur_dt", "sctp"}
  /\ Init /\ (program # "daemon" => dtFile = FALSE)
  /\ Q!ChatInit /\ DateInit /\ SctpInit
  /\ PipeInit /\ (program # "unnamed_pipes" => waits /\ out = 0)
  /\ addr[1] = 1 /\ (program # "sctp" => addr[2] = 2)
  /\ file[1] = <<Old>> /\ file[2] = <<>>

DaemonStep == /\ program = "daemon" /\ Next
              /\ UNCHANGED <<program, chat, unnamedVars, namedVars, dateVars, sctpVars>>
ChatStep == /\ program = "queue_chat" /\ Q!ChatNext
            /\ UNCHANGED <<program, vars, unnamedVars, namedVars, dateVars, sctpVars>>
UnnamedStep == /\ program = "unnamed_pipes" /\ Unnamed
               /\ UNCHANGED <<program, vars, chat, namedVars, dateVars, sctpVars>>
NamedStep == /\ program = "named_pipes" /\ Named
             /\ UNCHANGED <<program, vars, chat, unnamedVars, dateVars, sctpVars>>
DateStep == /\ program = "get_cur_dt" /\ DateNext
            /\ UNCHANGED <<program, vars, chat, unnamedVars, namedVars, sctpVars>>
SctpStep == /\ program = "sctp" /\ SctpNext
            /\ UNCHANGED <<program, vars, chat, unnamedVars, namedVars, dateVars>>

ProcNext == DaemonStep \/ ChatStep \/ UnnamedStep \/ NamedStep \/ DateStep \/ SctpStep

\* The programs' fairness is about actions that are disabled in their initial
\* states, so it asks nothing of the programs that are not run.
ProcSpec == /\ ProcInit /\ [][ProcNext]_ProcVars
            /\ Fairness /\ Q!ChatFairness /\ PipeFairness

\* As in QueueChat.
ConnectAnswered == Q!ConnectAnswered
=============================================================================
