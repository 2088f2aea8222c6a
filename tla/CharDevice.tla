----------------------------- MODULE CharDevice -----------------------------
(***************************************************************************)
(* ioctl/chardev.c: a character device that keeps one message.  Processes  *)
(* open it, set and get the message by ioctl, read and write it, and close *)
(* it.  The driver takes no lock: Device_Open is tested, loaded and stored *)
(* in separate steps, and the copies from and to user space (get_user,     *)
(* put_user, which may sleep) proceed byte by byte.                        *)
(***************************************************************************)
EXTENDS Integers, Sequences

CONSTANTS
  Procs,
  BufLen,      \* BUF_LEN (80)
  Chars,       \* characters other than NUL
  Msgs,        \* strings processes pass to IOCTL_SET_MSG
  Writes,      \* byte sequences processes pass to write()
  GetLen,      \* bytes IOCTL_GET_MSG asks device_read for (99)
  ReadLens     \* lengths processes pass to read()

NUL == 0

ASSUME BufAssumption == BufLen \in Nat /\ BufLen > 0 /\ GetLen \in Nat
ASSUME CharAssumption == NUL \notin Chars

Byte == Chars \cup {NUL}

VARIABLES
  Device_Open,
  Message,       \* the buffer, bytes 1..BufLen
  Message_Ptr,   \* index of the next byte to read
  pc,            \* what each process is doing in the driver
  reg,           \* the value of Device_Open a process has loaded
  bytes, pos,    \* device_write: the bytes to store, and how many are stored
  left,          \* device_read: how many bytes are still wanted
  got,           \* what the last read or get of a process returned
  last,          \* the operation a process completed or began last
  expected,      \* the message according to the sets and writes so far
  claim          \* the message when a get began, and whether it was unread

vars == <<Device_Open, Message, Message_Ptr, pc, reg, bytes, pos, left, got, last,
          expected, claim>>

Init ==
  /\ Device_Open = 0
  /\ Message = [i \in 1..BufLen |-> NUL]
  /\ Message_Ptr = 1
  /\ pc = [p \in Procs |-> "closed"]
  /\ reg = [p \in Procs |-> 0]
  /\ bytes = [p \in Procs |-> <<>>]
  /\ pos = [p \in Procs |-> 0]
  /\ left = [p \in Procs |-> 0]
  /\ got = [p \in Procs |-> <<>>]
  /\ last = [p \in Procs |-> "none"]
  /\ expected = <<>>
  /\ claim = [p \in Procs |-> [msg |-> <<>>, unread |-> FALSE]]

bufVars == <<Message, bytes, pos, left, got, last, expected, claim>>

-----------------------------------------------------------------------------
(* device_open, device_release *)

\* "if (Device_Open) return -EBUSY": a refused caller changes nothing.
OpenCheck(p) ==
  /\ pc[p] = "closed"
  /\ Device_Open = 0
  /\ pc' = [pc EXCEPT ![p] = "load"]
  /\ UNCHANGED <<Device_Open, Message_Ptr, reg, bufVars>>

\* "Device_Open++" loads ...
OpenLoad(p) ==
  /\ pc[p] = "load"
  /\ reg' = [reg EXCEPT ![p] = Device_Open]
  /\ pc' = [pc EXCEPT ![p] = "store"]
  /\ UNCHANGED <<Device_Open, Message_Ptr, bufVars>>

\* ... and stores; the message is rewound.
OpenStore(p) ==
  /\ pc[p] = "store"
  /\ Device_Open' = reg[p] + 1
  /\ Message_Ptr' = 1
  /\ pc' = [pc EXCEPT ![p] = "idle"]
  /\ last' = [last EXCEPT ![p] = "none"]
  /\ UNCHANGED <<Message, reg, bytes, pos, left, got, expected, claim>>

ReleaseLoad(p) ==
  /\ pc[p] = "idle"
  /\ reg' = [reg EXCEPT ![p] = Device_Open]
  /\ pc' = [pc EXCEPT ![p] = "closing"]
  /\ UNCHANGED <<Device_Open, Message_Ptr, bufVars>>

ReleaseStore(p) ==
  /\ pc[p] = "closing"
  /\ Device_Open' = reg[p] - 1
  /\ pc' = [pc EXCEPT ![p] = "closed"]
  /\ UNCHANGED <<Message_Ptr, reg, bufVars>>

-----------------------------------------------------------------------------
(* device_write, IOCTL_SET_MSG *)

\* Mutant of SetMsgLen: the NUL is not counted.
SetMsgLenNoNul(m) == IF Len(m) < BufLen THEN Len(m) ELSE BufLen

\* The loop that measures the message reads the first character before it
\* starts: it counts the NUL of a string, and nothing of an empty one.
SetMsgLen(m) ==
  IF m = <<>> THEN 0
  ELSE IF Len(m) + 1 < BufLen THEN Len(m) + 1 ELSE BufLen

StartWrite(p, what, b) ==
  /\ pc[p] = "idle"
  /\ pc' = [pc EXCEPT ![p] = "write"]
  /\ bytes' = [bytes EXCEPT ![p] = b]
  /\ pos' = [pos EXCEPT ![p] = 0]
  /\ last' = [last EXCEPT ![p] = what]
  /\ UNCHANGED <<Device_Open, Message, Message_Ptr, reg, left, got>>

SetMsg(p, m) ==
  /\ StartWrite(p, "set", SubSeq(Append(m, NUL), 1, SetMsgLen(m)))
  /\ claim' = [claim EXCEPT ![p] = [msg |-> m, unread |-> FALSE]]
  /\ UNCHANGED expected

Write(p, b) ==
  /\ StartWrite(p, "write", SubSeq(b, 1, IF Len(b) < BufLen THEN Len(b) ELSE BufLen))
  /\ UNCHANGED <<expected, claim>>

WriteByte(p) ==
  /\ pc[p] = "write" /\ pos[p] < Len(bytes[p])
  /\ Message' = [Message EXCEPT ![pos[p] + 1] = bytes[p][pos[p] + 1]]
  /\ pos' = [pos EXCEPT ![p] = @ + 1]
  /\ UNCHANGED <<Device_Open, Message_Ptr, pc, reg, bytes, left, got, last, expected,
                 claim>>

\* The message as a string: the bytes before the first NUL.
StringIn(buf) ==
  LET ends == {i \in 1..BufLen : buf[i] = NUL}
      end  == IF ends = {} THEN BufLen + 1
              ELSE CHOOSE i \in ends : \A j \in ends : i <= j
  IN  [i \in 1..(end - 1) |-> buf[i]]

\* An empty string sets nothing: the message before it stays, and is unread again.
NewMessage(p) ==
  CASE last[p] # "set"                          -> StringIn(Message)
    [] last[p] = "set" /\ claim[p].msg # <<>> -> claim[p].msg
    [] OTHER                                    -> expected

WriteEnd(p) ==
  /\ pc[p] = "write" /\ pos[p] = Len(bytes[p])
  /\ Message_Ptr' = 1
  /\ expected' = NewMessage(p)
  /\ pc' = [pc EXCEPT ![p] = "idle"]
  /\ UNCHANGED <<Device_Open, Message, reg, bytes, pos, left, got, last, claim>>

-----------------------------------------------------------------------------
(* device_read, IOCTL_GET_MSG *)

\* What lies beyond the buffer is unknown.
Fetch(b) == Message_Ptr <= BufLen => b = Message[Message_Ptr]

StartRead(p, what, length) ==
  /\ pc[p] = "idle"
  /\ pc' = [pc EXCEPT ![p] = "test"]
  /\ left' = [left EXCEPT ![p] = length]
  /\ got' = [got EXCEPT ![p] = <<>>]
  /\ last' = [last EXCEPT ![p] = what]
  /\ claim' = [claim EXCEPT ![p] = [msg |-> expected, unread |-> Message_Ptr = 1]]
  /\ UNCHANGED <<Device_Open, Message, Message_Ptr, reg, bytes, pos, expected>>

Read(p, length) == StartRead(p, "read", length)
GetMsg(p) == StartRead(p, "get", GetLen)

\* Mutant of ReadTest: the NUL is not tested.
ReadTestLengthOnly(p) ==
  /\ pc[p] = "test"
  /\ pc' = [pc EXCEPT ![p] = IF left[p] > 0 THEN "copy" ELSE "idle"]
  /\ UNCHANGED <<Device_Open, Message_Ptr, reg, bufVars>>

\* "while (length && *Message_Ptr)"
ReadTest(p) ==
  /\ pc[p] = "test"
  /\ \E b \in Byte :
       /\ Fetch(b)
       /\ pc' = [pc EXCEPT ![p] = IF left[p] > 0 /\ b # NUL THEN "copy" ELSE "idle"]
  /\ UNCHANGED <<Device_Open, Message_Ptr, reg, bufVars>>

\* "put_user(*(Message_Ptr++), buffer++)"
ReadCopy(p) ==
  /\ pc[p] = "copy"
  /\ \E b \in Byte : Fetch(b) /\ got' = [got EXCEPT ![p] = Append(@, b)]
  /\ Message_Ptr' = Message_Ptr + 1
  /\ left' = [left EXCEPT ![p] = @ - 1]
  /\ pc' = [pc EXCEPT ![p] = "test"]
  /\ UNCHANGED <<Device_Open, Message, reg, bytes, pos, last, expected, claim>>

-----------------------------------------------------------------------------
Open(p) == OpenCheck(p) \/ OpenLoad(p) \/ OpenStore(p)
Release(p) == ReleaseLoad(p) \/ ReleaseStore(p)

Next ==
  \E p \in Procs :
    \/ Open(p) \/ Release(p)
    \/ \E m \in Msgs : SetMsg(p, m)
    \/ \E b \in Writes : Write(p, b)
    \/ WriteByte(p) \/ WriteEnd(p)
    \/ GetMsg(p)
    \/ \E n \in ReadLens : Read(p, n)
    \/ ReadTest(p) \/ ReadCopy(p)

Spec == Init /\ [][Next]_vars

-----------------------------------------------------------------------------
(* Properties *)

\* A get that starts with the message unread returns the last message set that
\* was not empty (an empty one is lost: the loop at chardev.c 185 measures it as
\* nothing to write), whatever longer or shorter message the buffer held before
\* (chardev.c 173-203).
UnreadGetReturnsMessage ==
  \A p \in Procs :
    pc[p] = "idle" /\ last[p] = "get" /\ claim[p].unread => got[p] = claim[p].msg

\* Successive reads return the message piece by piece: what a reader holds is a
\* part of the message, and reading never leaves the buffer as long as every
\* message set or written is shorter than it (chardev.c 95-113).
ReadStaysInMessage ==
  /\ Message_Ptr <= BufLen
  /\ \A p \in Procs : \A i \in 1..Len(got[p]) : got[p][i] # NUL

\* "We don't want to talk to two processes at the same time" (chardev.c 42-44).
OneProcessAtATime ==
  \A p, q \in Procs :
    pc[p] \notin {"closed", "load", "store"} /\ pc[q] \notin {"closed", "load", "store"}
      => p = q
=============================================================================
