-------------------------------- MODULE Ping --------------------------------
(***************************************************************************)
(* icmp_raw_socket_ping.  A thread sends reqs_count echo requests, one a   *)
(* second; another counts the echo replies and ends with the last one;     *)
(* main joins only the second thread, frees the table of times and exits.  *)
(* A raw ICMP socket receives the packets of every program of the host.    *)
(* SIGINT prints the statistics and exits.                                 *)
(***************************************************************************)
EXTENDS Naturals, FiniteSets

CONSTANTS
  Counts,     \* values of reqs_count; it is 0 without the option -c
  Pids,       \* process identifiers
  IdMod,      \* identifiers and sequence numbers are sent modulo this (2^16)
  Foreign,    \* ICMP packets other programs cause to arrive
  MayLose,    \* whether packets may be lost
  MayFail,    \* whether sendto and recvfrom may fail
  MayInt      \* whether somebody interrupts the program

Types == {"reply", "unreach", "exceeded"}
Packet == [type : Types, id : 0..(IdMod - 1), seq : 0..(IdMod - 1)]

\* Sequence numbers do not wrap: 65536 requests take more than 18 hours.
ASSUME CountAssumption == Counts \subseteq 0..IdMod
ASSUME IdAssumption == IdMod \in Nat \ {0} /\ Pids \subseteq Nat
\* Replies to another ping carry its identifier; in an error the field is unused
\* and holds whatever the router put there.
ASSUME ForeignAssumption ==
  Foreign \subseteq Packet /\ \A p \in Foreign : p.type = "reply" => p.id \notin Pids
ASSUME FlagAssumption ==
  MayLose \in BOOLEAN /\ MayFail \in BOOLEAN /\ MayInt \in BOOLEAN

VARIABLES
  reqs_count, reqs_id,   \* the settings: how many requests, and getpid()
  spc,       \* sending thread: "stamp", "send", "count", "done"
  seq_num,   \* its sequence number, which is also its loop counter
  stamped,   \* requests whose reqs_time is set
  rpc,       \* receiving thread: "recv", "done"
  replied,   \* replies whose repl_time was set and time printed
  count,     \* its local reqs_count
  freed,     \* diff_time was freed
  stat_pckt_transm, stat_pckt_recive,
  net,       \* packets on their way
  lost,      \* whether a reply was lost
  dup,       \* whether a packet was duplicated (bound: one)
  exited     \* "no", "end" (main), "error" (exit in a thread), "int" or "trap" (SIGINT)

sendVars == <<spc, seq_num, stamped, stat_pckt_transm>>
recvVars == <<rpc, replied, count, stat_pckt_recive>>
mainVars == <<reqs_count, reqs_id, freed>>
vars == <<mainVars, sendVars, recvVars, net, lost, dup, exited>>

Seqs == 0..(reqs_count - 1)

TypeOK ==
  /\ reqs_count \in Counts /\ reqs_id \in Pids
  /\ spc \in {"stamp", "send", "count", "done"}
  /\ seq_num \in 0..reqs_count
  /\ stamped \subseteq Seqs
  /\ rpc \in {"recv", "done"}
  /\ replied \subseteq Nat
  /\ count \in 0..reqs_count
  /\ freed \in BOOLEAN
  /\ stat_pckt_transm \in 0..reqs_count
  /\ stat_pckt_recive \in 0..reqs_count
  /\ net \subseteq Packet
  /\ lost \in BOOLEAN /\ dup \in BOOLEAN
  /\ exited \in {"no", "end", "error", "int", "trap"}

Init ==
  /\ reqs_count \in Counts /\ reqs_id \in Pids
  /\ spc = (IF reqs_count = 0 THEN "done" ELSE "stamp") /\ seq_num = 0 /\ stamped = {} /\ stat_pckt_transm = 0
  /\ rpc = "recv" /\ replied = {} /\ count = 0 /\ stat_pckt_recive = 0
  /\ freed = FALSE
  /\ net \in SUBSET Foreign
  /\ lost = FALSE /\ dup = FALSE
  /\ exited = "no"

-----------------------------------------------------------------------------
(* icmp_reqs_hndl *)

\* gettimeofday into diff_time[seq_num].reqs_time.
Stamp ==
  /\ spc = "stamp"
  /\ stamped' = stamped \cup {seq_num}
  /\ spc' = "send"
  /\ UNCHANGED <<seq_num, stat_pckt_transm, recvVars, mainVars, net, lost, dup, exited>>

\* sendto; the reply may arrive from now on.
Send ==
  /\ spc = "send"
  /\ net' = net \cup {[type |-> "reply", id |-> reqs_id % IdMod, seq |-> seq_num % IdMod]}
  /\ spc' = "count"
  /\ UNCHANGED <<seq_num, stamped, stat_pckt_transm, recvVars, mainVars, lost, dup, exited>>

\* stat_pckt_transm++, seq_num++, sleep, and the test of the loop.
CountSent ==
  /\ spc = "count"
  /\ stat_pckt_transm' = stat_pckt_transm + 1
  /\ seq_num' = seq_num + 1
  /\ spc' = IF seq_num' < reqs_count THEN "stamp" ELSE "done"
  /\ UNCHANGED <<stamped, recvVars, mainVars, net, lost, dup, exited>>

-----------------------------------------------------------------------------
(* icmp_repl_hndl *)

\* recvfrom takes a packet; the network may deliver it again.
Arrives(p) ==
  /\ rpc = "recv" /\ p \in net
  /\ \/ net' = net \ {p} /\ UNCHANGED dup
     \/ ~dup /\ dup' = TRUE /\ UNCHANGED net

\* The identifier of the packet is compared with the whole process identifier.
Ours(p) == p.id = reqs_id

\* A packet of another program.
Skip(p) ==
  /\ Arrives(p) /\ ~Ours(p)
  /\ UNCHANGED <<sendVars, recvVars, mainVars, lost, exited>>

\* Mutant of Reply: replies to other programs are counted.
ReplyToAnyone(p) ==
  /\ Arrives(p) /\ p.type = "reply"
  /\ replied' = replied \cup {p.seq}
  /\ stat_pckt_recive' = stat_pckt_recive + 1
  /\ count' = count + 1
  /\ rpc' = IF count' = reqs_count THEN "done" ELSE "recv"
  /\ UNCHANGED <<sendVars, mainVars, lost, exited>>

\* Mutant of Reply: one reply too many is waited for.
ReplyOneMore(p) ==
  /\ Arrives(p) /\ Ours(p) /\ p.type = "reply"
  /\ replied' = replied \cup {p.seq}
  /\ stat_pckt_recive' = stat_pckt_recive + 1
  /\ count' = count + 1
  /\ rpc' = IF count' > reqs_count THEN "done" ELSE "recv"
  /\ UNCHANGED <<sendVars, mainVars, lost, exited>>

\* repl_time is set, the time printed, and the last reply ends the thread.
Reply(p) ==
  /\ Arrives(p) /\ Ours(p) /\ p.type = "reply"
  /\ replied' = replied \cup {p.seq}
  /\ stat_pckt_recive' = stat_pckt_recive + 1
  /\ count' = count + 1
  /\ rpc' = IF count' = reqs_count THEN "done" ELSE "recv"
  /\ UNCHANGED <<sendVars, mainVars, lost, exited>>

\* ICMP_DEST_UNREACH and ICMP_TIME_EXCEEDED end the program.
Error(p) ==
  /\ Arrives(p) /\ Ours(p) /\ p.type # "reply"
  /\ exited' = "error"
  /\ UNCHANGED <<sendVars, recvVars, mainVars, lost>>

-----------------------------------------------------------------------------
(* main, the signal handler, the network *)

MainFree ==
  /\ rpc = "done" /\ ~freed
  /\ freed' = TRUE
  /\ UNCHANGED <<reqs_count, reqs_id, sendVars, recvVars, net, lost, dup, exited>>

MainExit ==
  /\ freed
  /\ exited' = "end"
  /\ UNCHANGED <<sendVars, recvVars, mainVars, net, lost, dup>>

\* perror and exit in one of the threads.
Fails ==
  /\ MayFail /\ (spc = "send" \/ rpc = "recv")
  /\ exited' = "error"
  /\ UNCHANGED <<sendVars, recvVars, mainVars, net, lost, dup>>

\* SIGINT: "100 - stat_pckt_recive/stat_pckt_transm*100" in integers; nothing
\* was transmitted yet: the division traps.
sig_hndl ==
  /\ MayInt
  /\ exited' = IF stat_pckt_transm = 0 THEN "trap" ELSE "int"
  /\ UNCHANGED <<sendVars, recvVars, mainVars, net, lost, dup>>

\* The network loses a packet, or a router answers a request with an error,
\* whose identifier field is unused.
Lose(p) ==
  /\ MayLose /\ p \in net /\ p.type = "reply"
  /\ \/ net' = net \ {p}
     \/ net' = (net \ {p}) \cup {[type |-> "unreach", id |-> 0, seq |-> 0]}
  /\ lost' = (lost \/ Ours(p))
  /\ UNCHANGED <<sendVars, recvVars, mainVars, dup, exited>>

-----------------------------------------------------------------------------
Sender == Stamp \/ Send \/ CountSent
Receiver == \E p \in net : Skip(p) \/ Reply(p) \/ Error(p)
Main == MainFree \/ MainExit

Next ==
  /\ exited = "no"
  /\ \/ Sender \/ Receiver \/ Main
     \/ Fails \/ sig_hndl
     \/ \E p \in net : Lose(p)

Spec == Init /\ [][Next]_vars

\* Both threads and main run; a packet that is not lost is received.
Fairness ==
  /\ WF_vars(exited = "no" /\ Sender)
  /\ WF_vars(exited = "no" /\ Receiver)
  /\ WF_vars(exited = "no" /\ Main)

FairSpec == Spec /\ Fairness

-----------------------------------------------------------------------------
(* Properties *)

\* A time is printed only for a request this program has stamped, and the table
\* is never written outside its reqs_count entries, whatever the other programs
\* of the host receive and in whatever order replies arrive (core.c 442-458).
RepliesStamped == replied \subseteq stamped

\* The table of times is not used after main has freed it, although main does
\* not join the sending thread, as long as the network does not duplicate
\* replies (ping.c 78-81, core.c 385, 462).
NoUseAfterFree == freed /\ ~dup => spc \notin {"stamp", "send"}

\* The program ends by itself unless a reply is lost, if it was told how many
\* requests to send and its process identifier fits into a packet: without -c it
\* waits for a reply number 0, and from identifier 2^16 on it takes the replies
\* for another program's (core.c 378, 442, 460-463).
EndsIfAnswered ==
  reqs_count > 0 /\ reqs_id < IdMod => <>(exited # "no" \/ lost)

\* The program ends: print_usage offers "-t [timeout]" and main prints it as
\* "Request timeout" (core.c 4, ping.c 59), but no thread waits with it.
Ends == <>(exited # "no")
=============================================================================
