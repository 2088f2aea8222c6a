----------------------------- MODULE ThreadDate -----------------------------
(***************************************************************************)
(* get_cur_dt: the date as text, in a buffer of the calling thread, made   *)
(* from the one structure localtime fills for all threads.  The function   *)
(* is the same in udp_highload_server and in queue_chat's server and       *)
(* client; safe_pthread's print_n keeps its number the same way.  A time   *)
(* has two fields, which localtime writes and strftime reads one by one.   *)
(***************************************************************************)
EXTENDS Naturals

CONSTANTS
  Threads,     \* 1..n
  MaxClock     \* bound on the clock

VARIABLES
  clock,
  once,        \* key_once: "init", "making" or "done"
  specific,    \* the thread's value of the key: its buffer, 0 for NULL
  buffer,      \* what each buffer holds
  tm,          \* the structure of localtime
  thread,      \* each thread: where it is and the time it has read
  clash        \* threads whose use of tm overlapped another's

dateVars == <<clock, once, specific, buffer, tm, thread, clash>>

Fields(t) == [hour |-> t \div 2, min |-> t % 2]

DateInit ==
  /\ clock = 0 /\ once = "init"
  /\ specific = [t \in Threads |-> 0]
  /\ buffer = [t \in Threads |-> Fields(0)]
  /\ tm = Fields(0)
  /\ thread = [t \in Threads |-> [at |-> "idle", rt |-> 0]]
  /\ clash = {}

\* Threads between localtime's first write and strftime's last read.
InTm == {t \in Threads : thread[t].at \in {"hour", "min", "fmthour", "fmtmin"}}

Goto(t, place) == thread' = [thread EXCEPT ![t].at = place]

-----------------------------------------------------------------------------
Tick == /\ clock < MaxClock /\ clock' = clock + 1
        /\ UNCHANGED <<once, specific, buffer, tm, thread, clash>>

\* pthread_once: the first caller makes the key, the others wait until it is made.
CallOnce(t) ==
  /\ thread[t].at = "idle" /\ once # "making"
  /\ once' = IF once = "init" THEN "making" ELSE once
  /\ Goto(t, IF once = "init" THEN "making" ELSE "get")
  /\ UNCHANGED <<clock, specific, buffer, tm, clash>>

make_key(t) ==
  /\ thread[t].at = "making"
  /\ once' = "done" /\ Goto(t, "get")
  /\ UNCHANGED <<clock, specific, buffer, tm, clash>>

\* Mutant of GetBuffer: one buffer for all threads.
GetBufferShared(t) ==
  /\ thread[t].at = "get"
  /\ specific' = [specific EXCEPT ![t] = 1]
  /\ thread' = [thread EXCEPT ![t] = [at |-> "hour", rt |-> clock]]
  /\ clash' = IF InTm = {} THEN clash \ {t} ELSE clash \cup InTm \cup {t}
  /\ UNCHANGED <<clock, once, buffer, tm>>

\* pthread_getspecific, or malloc and pthread_setspecific; time.
GetBuffer(t) ==
  /\ thread[t].at = "get"
  /\ specific' = [specific EXCEPT ![t] = IF @ = 0 THEN t ELSE @]
  /\ thread' = [thread EXCEPT ![t] = [at |-> "hour", rt |-> clock]]
  /\ clash' = IF InTm = {} THEN clash \ {t} ELSE clash \cup InTm \cup {t}
  /\ UNCHANGED <<clock, once, buffer, tm>>

localtime(t) ==
  /\ \/ thread[t].at = "hour" /\ tm' = [tm EXCEPT !.hour = Fields(thread[t].rt).hour]
        /\ Goto(t, "min")
     \/ thread[t].at = "min" /\ tm' = [tm EXCEPT !.min = Fields(thread[t].rt).min]
        /\ Goto(t, "fmthour")
  /\ UNCHANGED <<clock, once, specific, buffer, clash>>

strftime(t) ==
  LET dt == specific[t] IN
  /\ \/ thread[t].at = "fmthour" /\ buffer' = [buffer EXCEPT ![dt].hour = tm.hour]
        /\ Goto(t, "fmtmin")
     \/ thread[t].at = "fmtmin" /\ buffer' = [buffer EXCEPT ![dt].min = tm.min]
        /\ Goto(t, "use")
  /\ UNCHANGED <<clock, once, specific, tm, clash>>

\* The caller has used the text: sys_log, a reply, or the number of print_n.
Used(t) ==
  /\ thread[t].at = "use" /\ Goto(t, "idle")
  /\ UNCHANGED <<clock, once, specific, buffer, tm, clash>>

\* A thread ends, and the key's destructor frees its buffer.
destructor(t) ==
  /\ thread[t].at = "idle" /\ once = "done" /\ Goto(t, "gone")
  /\ specific' = [specific EXCEPT ![t] = 0]
  /\ UNCHANGED <<clock, once, buffer, tm, clash>>

DateNext ==
  \/ Tick
  \/ \E t \in Threads : \/ CallOnce(t) \/ make_key(t) \/ GetBuffer(t) \/ localtime(t)
                        \/ strftime(t) \/ Used(t) \/ destructor(t)

DateSpec == DateInit /\ [][DateNext]_dateVars

-----------------------------------------------------------------------------
\* The text a thread uses is the time it has read, whatever other threads have
\* formatted since, unless another thread was between its localtime and the end of
\* its strftime at the same time: the buffers are the threads' own, the structure
\* of localtime is not (server_core.c 199-228, safe_pthread print_n.c 18-31).
DateOwn ==
  \A t \in Threads :
    thread[t].at = "use" /\ t \notin clash => buffer[specific[t]] = Fields(thread[t].rt)
=============================================================================
