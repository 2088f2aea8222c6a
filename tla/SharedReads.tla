----------------------------- MODULE SharedReads -----------------------------
(***************************************************************************)
(* Three drivers that keep the position of a read in global variables, for *)
(* all readers: procfs/procfs.c (a flag "finished"), procfs/procfs_m.c     *)
(* (what is left of the message, temp) and chardev/chardev.c (a pointer,   *)
(* with the device open for one process at a time).  A reader is a program *)
(* like cat: it opens the file, reads until a read returns 0, and closes   *)
(* it; it may also close it earlier.  Of what it has read it keeps how many  *)
(* bytes they are and whether they are the message's, in their order.        *)
(***************************************************************************)
EXTENDS Integers

CONSTANTS
  Readers,
  Drivers,     \* which of "procfs", "procfs_m" and "chardev" is loaded
  Lengths,     \* lengths of messages
  Counts       \* sizes of the readers' buffers

VARIABLES
  driver,
  finished,      \* procfs.c
  len, temp,     \* procfs_m.c; len is the message's length for all three
  Chardev_Open, counter, ptr,   \* chardev.c, where the first is Device_Open
  reader,        \* what each reader does, and what it has read
  tidy           \* no two readers, and no reader and writer, overlapped, and
                 \* no reader left a proc file before its end

readVars == <<driver, finished, len, temp, Chardev_Open, counter, ptr, reader, tidy>>

Inside == {r \in Readers : reader[r].at \in {"opening", "ready", "reading"}}
Least(a, b) == IF a < b THEN a ELSE b

\* procfs_m has no message before the first write.
ReadInit ==
  /\ driver \in Drivers
  /\ finished = FALSE
  /\ len \in IF driver = "procfs_m" THEN {0} ELSE Lengths
  /\ temp = 0
  /\ Chardev_Open = 0 /\ counter = 0 /\ ptr = 0
  /\ \E c \in Counts :
       reader = [r \in Readers |-> [at |-> "new", count |-> c, want |-> 0, n |-> 0,
                                got |-> 0, exact |-> TRUE]]
  /\ tidy = TRUE

-----------------------------------------------------------------------------
\* device_open tests Device_Open; the proc files are open at once.
OpenForRead(r) ==
  /\ reader[r].at = "new"
  /\ driver = "chardev" => Chardev_Open = 0
  /\ reader' = [reader EXCEPT ![r].at = IF driver = "chardev" THEN "opening" ELSE "ready",
                             ![r].want = len]
  /\ tidy' = (tidy /\ Inside = {})
  /\ UNCHANGED <<driver, finished, len, temp, Chardev_Open, counter, ptr>>

\* Device_Open++, the message is made anew, and the pointer set to its start.
device_open(r) ==
  /\ reader[r].at = "opening"
  /\ Chardev_Open' = Chardev_Open + 1
  /\ counter' = counter + 1
  /\ ptr' = 0
  /\ reader' = [reader EXCEPT ![r].at = "ready"]
  /\ UNCHANGED <<driver, finished, len, temp, tidy>>

\* What a call of procfile_read, read_proc or device_read returns.  In
\* read_proc a negative temp is compared as unsigned, and is larger than count.
procfile_read == IF finished THEN 0 ELSE len
read_proc(count) == IF temp < 0 THEN count ELSE Least(count, temp)
device_read(count) == Least(count, len - ptr)

\* The bytes a call copies.  The drivers of proc files decide first and copy then;
\* device_read tests each byte before it copies it, here in one step (that two
\* processes may be in it at once is what CharDevice is about).
Copied(r) == IF driver = "chardev" THEN device_read(reader[r].count) ELSE reader[r].n

BeginRead(r) ==
  /\ reader[r].at = "ready"
  /\ reader' = [reader EXCEPT ![r].at = "reading", ![r].n =
                  CASE driver = "procfs"   -> procfile_read
                    [] driver = "procfs_m" -> read_proc(reader[r].count)
                    [] driver = "chardev"  -> 0]
  /\ UNCHANGED <<driver, finished, len, temp, Chardev_Open, counter, ptr, tidy>>

\* device_release.
Close(r, at) ==
  /\ reader' = [reader EXCEPT ![r].at = at]
  /\ Chardev_Open' = IF driver = "chardev" THEN Chardev_Open - 1 ELSE Chardev_Open

\* Mutant of FinishRead: end of file does not reset the position.
FinishReadNoReset(r) ==
  LET n == Copied(r)
      from == IF driver = "chardev" THEN ptr ELSE 0 IN
  /\ reader[r].at = "reading"
  /\ finished' = (driver = "procfs" \/ finished)
  /\ temp' = IF driver = "procfs_m" THEN temp - n ELSE temp
  /\ ptr' = IF driver = "chardev" THEN ptr + n ELSE ptr
  /\ IF n = 0 THEN Close(r, "end")
     ELSE /\ reader' = [reader EXCEPT ![r].at = "ready", ![r].n = 0, ![r].got = @ + n,
                                     ![r].exact = @ /\ from = reader[r].got]
          /\ UNCHANGED Chardev_Open
  /\ UNCHANGED <<driver, len, counter, tidy>>

\* The rest of the call: the bytes are copied, the position moves on, and a
\* return of 0 starts the file again.  read_proc copies from the start of the
\* message whatever was read before.
FinishRead(r) ==
  LET n == Copied(r)
      from == IF driver = "chardev" THEN ptr ELSE 0 IN
  /\ reader[r].at = "reading"
  /\ finished' = IF driver = "procfs" THEN n # 0 ELSE finished
  /\ temp' = IF driver # "procfs_m" THEN temp ELSE IF n = 0 THEN len ELSE temp - n
  /\ ptr' = IF driver = "chardev" THEN ptr + n ELSE ptr
  /\ IF n = 0 THEN Close(r, "end")
     ELSE /\ reader' = [reader EXCEPT ![r].at = "ready", ![r].n = 0, ![r].got = @ + n,
                                     ![r].exact = @ /\ from = reader[r].got]
          /\ UNCHANGED Chardev_Open
  /\ UNCHANGED <<driver, len, counter, tidy>>

\* A reader closes the file before it has seen the end.
LeaveEarly(r) ==
  /\ reader[r].at = "ready"
  /\ Close(r, "left")
  /\ tidy' = (tidy /\ driver = "chardev")
  /\ UNCHANGED <<driver, finished, len, temp, counter, ptr>>

\* write_proc; device_write of chardev.c refuses.
write_proc ==
  /\ driver = "procfs_m"
  /\ \E n \in Lengths : len' = n /\ temp' = n
  /\ tidy' = (tidy /\ Inside = {})
  /\ UNCHANGED <<driver, finished, Chardev_Open, counter, ptr, reader>>

\* Bound on what a reader reads that others keep from its end.
MaxGot == 6

ReadNext ==
  \/ write_proc
  \/ \E r \in Readers :
       \/ OpenForRead(r) \/ device_open(r) \/ LeaveEarly(r) \/ FinishRead(r)
       \/ reader[r].got < MaxGot /\ BeginRead(r)

ReadSpec == ReadInit /\ [][ReadNext]_readVars

-----------------------------------------------------------------------------
\* As long as readers follow one another, and those of a proc file read to its
\* end, each gets as many bytes as the message has, and the message itself unless
\* it reads procfs_m with a buffer that is too small (procfs.c 40-56, procfs_m.c
\* 13-27, chardev.c 83-156).  "tidy" includes every reader before it: a position
\* left behind by one is what the next one starts from.
ReadsWholeMessage ==
  \A r \in Readers : LET rd == reader[r] IN
    tidy /\ rd.at = "end" =>
      /\ rd.got = rd.want
      /\ rd.exact \/ (driver = "procfs_m" /\ rd.count < rd.want)
=============================================================================
