--------------------------- MODULE IcmpHostProofs ---------------------------
(***************************************************************************)
(* Proofs about ping, alone and beside traceroute, for any number of       *)
(* requests, any identifiers and any traffic of other programs: times are  *)
(* printed only for requests that were stamped, the table of times is not  *)
(* used after it was freed, and routers are printed under their distance.  *)
(***************************************************************************)
EXTENDS IcmpHost, FiniteSetTheorems, TLAPS

\* Sequence numbers whose request has left.
Sent == {n \in Nat : n < seq_num \/ (n = seq_num /\ spc = "count")}

OurReply(p) == p.type = "reply" /\ p.id = reqs_id

\* The counters and the program counters of the two threads agree.
Counters ==
  /\ stat_pckt_recive = count
  /\ stat_pckt_transm = seq_num
  /\ rpc = "recv" => count < reqs_count \/ reqs_count = 0
  /\ rpc = "done" => count = reqs_count
  /\ spc # "done" => seq_num < reqs_count
  /\ freed => rpc = "done"

\* Replies answer requests, and requests are stamped before they leave.
Causal ==
  /\ \A p \in net : OurReply(p) => p.seq \in Sent
  /\ replied \subseteq Sent
  /\ Sent \subseteq stamped
  /\ spc = "send" => seq_num \in stamped

\* Without duplicates every reply is counted once.
Once ==
  /\ IsFiniteSet(replied)
  /\ ~dup => /\ Cardinality(replied) = count
             /\ \A p \in net : OurReply(p) => p.seq \notin replied

IInv == TypeOK /\ Counters /\ Causal /\ Once

\* The settings are numbers.
LEMMA SettingsFacts ==
  ASSUME TypeOK
  PROVE  /\ reqs_count \in Nat /\ reqs_count <= IdMod /\ IdMod \in Nat \ {0}
         /\ reqs_id \in Nat
BY CountAssumption, IdAssumption DEF TypeOK

\* Arithmetic of the fields of a packet.
LEMMA ModFacts ==
  ASSUME NEW w \in Nat \ {0}, NEW n \in Nat
  PROVE  n % w \in 0..(w - 1) /\ n % w \in Nat /\ n % w <= n /\ (n < w => n % w = n)
OBVIOUS

\* The inductive invariant holds when the threads start.
LEMMA InvInit == Init => IInv
<1> SUFFICES ASSUME Init PROVE IInv
  OBVIOUS
<1>1. net \subseteq Foreign
  BY DEF Init
<1>2. TypeOK
  <2>1. net \subseteq Packet
    BY <1>1, ForeignAssumption
  <2>2. 0 \in 0..reqs_count
    BY CountAssumption, IdAssumption DEF Init
  <2>3. QED  BY <2>1, <2>2, Zenon DEF Init, TypeOK
<1>3. Counters
  BY CountAssumption, IdAssumption DEF Init, Counters
<1>4. Causal
  BY <1>1, ForeignAssumption DEF Init, Causal, Sent, OurReply
<1>5. Once
  BY <1>1, FS_EmptySet, ForeignAssumption DEF Init, Once, OurReply
<1>6. QED  BY <1>2, <1>3, <1>4, <1>5 DEF IInv

\* Every step of the threads, of main, of the signal handler and of the network
\* preserves the inductive invariant.
LEMMA InvStep == IInv /\ [Next]_vars => IInv'
<1> SUFFICES ASSUME IInv, [Next]_vars PROVE IInv'
  OBVIOUS
<1> USE DEF Seqs
<1>0. reqs_count \in Nat /\ reqs_count <= IdMod /\ IdMod \in Nat \ {0} /\ reqs_id \in Nat
  BY SettingsFacts DEF IInv
<1>1. CASE Stamp
  <2>1. TypeOK'
    BY <1>0, <1>1 DEF IInv, TypeOK, Counters, Stamp, recvVars, mainVars
  <2>2. Counters'
    BY <1>0, <1>1 DEF IInv, TypeOK, Counters, Stamp, recvVars, mainVars
  <2>3. Causal'
    BY <1>1 DEF IInv, TypeOK, Causal, Stamp, recvVars, mainVars, Sent, OurReply
  <2>4. Once'
    BY <1>1 DEF IInv, Once, Stamp, recvVars, mainVars, OurReply
  <2>5. QED  BY <2>1, <2>2, <2>3, <2>4 DEF IInv
<1>2. CASE Send
  <2> DEFINE new == [type |-> "reply", id |-> reqs_id % IdMod, seq |-> seq_num % IdMod]
  <2>0. seq_num \in Nat /\ seq_num % IdMod = seq_num
    <3>1. seq_num \in Nat /\ seq_num < IdMod
      BY <1>0, <1>2 DEF IInv, TypeOK, Counters, Send
    <3>2. QED  BY <1>0, <3>1, ModFacts
  <2>1. new \in Packet
    BY <1>0, <2>0, ModFacts DEF Packet, Types
  <2>2. TypeOK'
    BY <1>2, <2>1 DEF IInv, TypeOK, Send, recvVars, mainVars
  <2>3. Counters'
    BY <1>2 DEF IInv, TypeOK, Counters, Send, recvVars, mainVars
  <2>4. Sent' = Sent \cup {seq_num} /\ seq_num \notin Sent
    BY <1>2 DEF IInv, TypeOK, Send, Sent
  <2>5. net' = net \cup {new} /\ new.seq = seq_num
    BY <1>2, <2>0 DEF Send
  <2> HIDE DEF new
  <2>6. Causal'
    BY <1>2, <2>4, <2>5 DEF IInv, TypeOK, Causal, Send, recvVars, mainVars, OurReply
  <2>7. Once'
    BY <1>2, <2>4, <2>5 DEF IInv, Causal, Once, Send, recvVars, mainVars, OurReply
  <2>8. QED  BY <2>2, <2>3, <2>6, <2>7 DEF IInv
<1>3. CASE CountSent
  <2>1. TypeOK'
    BY <1>0, <1>3 DEF IInv, TypeOK, Counters, CountSent, recvVars, mainVars
  <2>2. Counters'
    BY <1>0, <1>3 DEF IInv, TypeOK, Counters, CountSent, recvVars, mainVars
  <2>3. Sent' = Sent
    BY <1>3 DEF IInv, TypeOK, CountSent, Sent
  <2>4. Causal'
    BY <1>3, <2>3 DEF IInv, Causal, CountSent, recvVars, mainVars, OurReply
  <2>5. Once'
    BY <1>3 DEF IInv, Once, CountSent, recvVars, mainVars, OurReply
  <2>6. QED  BY <2>1, <2>2, <2>4, <2>5 DEF IInv
<1>4. ASSUME NEW p \in net, Skip(p) PROVE IInv'
  <2>1. net' \subseteq net /\ Sent' = Sent /\ (~dup' => ~dup)
    BY <1>4 DEF Skip, Arrives, mainVars, sendVars, Sent
  <2>2. TypeOK'
    BY <1>4, <2>1 DEF IInv, TypeOK, Skip, Arrives, mainVars, sendVars, recvVars
  <2>3. Counters'
    BY <1>4 DEF IInv, Counters, Skip, mainVars, sendVars, recvVars
  <2>4. Causal'
    BY <1>4, <2>1 DEF IInv, Causal, Skip, mainVars, sendVars, recvVars, OurReply
  <2>5. Once'
    BY <1>4, <2>1 DEF IInv, Once, Skip, mainVars, recvVars, OurReply
  <2>6. QED  BY <2>2, <2>3, <2>4, <2>5 DEF IInv
<1>5. ASSUME NEW p \in net, Reply(p) PROVE IInv'
  <2>1. net' \subseteq net /\ Sent' = Sent /\ (~dup' => ~dup /\ net' = net \ {p})
    BY <1>5 DEF Reply, Arrives, mainVars, sendVars, Sent
  <2>2. OurReply(p) /\ p.seq \in Sent /\ p.seq \in Nat
    BY <1>5 DEF IInv, Causal, Reply, Ours, OurReply, Sent
  <2>3. TypeOK'
    <3>1. rpc = "recv" /\ count < reqs_count
      <4>1. reqs_count > 0
        BY <1>0, <2>2 DEF IInv, TypeOK, Counters, Sent
      <4>2. QED  BY <1>5, <4>1 DEF IInv, Counters, Reply, Arrives
    <3>2. dup' \in BOOLEAN
      BY <1>5, Zenon DEF IInv, TypeOK, Reply, Arrives
    <3>3. count' \in 0..reqs_count /\ stat_pckt_recive' \in 0..reqs_count
      BY <1>0, <1>5, <3>1 DEF IInv, TypeOK, Counters, Reply
    <3>4. net' \subseteq Packet /\ replied' \subseteq Nat
      BY <1>5, <2>1, <2>2 DEF IInv, TypeOK, Reply
    <3>5. rpc' \in {"recv", "done"}
      BY <1>5 DEF Reply
    <3>6. QED
      BY <1>5, <3>2, <3>3, <3>4, <3>5, Zenon DEF IInv, TypeOK, Reply, mainVars, sendVars
  <2>4. Counters'
    <3>1. reqs_count > 0
      BY <1>0, <2>2 DEF IInv, TypeOK, Counters, Sent
    <3>2. QED
      BY <1>0, <1>5, <3>1 DEF IInv, TypeOK, Counters, Reply, Arrives, mainVars, sendVars
  <2>5. Causal'
    BY <1>5, <2>1, <2>2 DEF IInv, Causal, Reply, mainVars, sendVars, OurReply
  <2>6. Once'
    <3>1. IsFiniteSet(replied')
      BY <1>5, FS_AddElement DEF IInv, Once, Reply
    <3>2. ASSUME ~dup' PROVE Cardinality(replied') = count'
      <4>1. p.seq \notin replied /\ IsFiniteSet(replied) /\ Cardinality(replied) = count
        BY <2>1, <2>2, <3>2, <1>5 DEF IInv, Once
      <4>2. Cardinality(replied \cup {p.seq}) = Cardinality(replied) + 1
        BY <4>1, FS_AddElement
      <4>3. QED  BY <1>5, <4>1, <4>2 DEF Reply
    <3>3. ASSUME ~dup', NEW q \in net', OurReply(q) PROVE q.seq \notin replied'
      <4>1. q \in net /\ q # p
        BY <2>1, <3>3
      <4>2. q.seq # p.seq
        BY <2>2, <3>3, <4>1 DEF IInv, TypeOK, Packet, OurReply
      <4>3. QED  BY <1>5, <2>1, <3>3, <4>1, <4>2 DEF IInv, Once, Reply
    <3>4. reqs_id' = reqs_id
      BY <1>5 DEF Reply, mainVars
    <3>5. QED  BY <3>1, <3>2, <3>3, <3>4 DEF Once, OurReply
  <2>7. QED  BY <2>3, <2>4, <2>5, <2>6 DEF IInv
<1>6. ASSUME NEW p \in net, Error(p) PROVE IInv'
  <2>1. net' \subseteq net /\ Sent' = Sent /\ (~dup' => ~dup)
    BY <1>6 DEF Error, Arrives, mainVars, sendVars, Sent
  <2>2. TypeOK'
    BY <1>6, <2>1 DEF IInv, TypeOK, Error, Arrives, mainVars, sendVars, recvVars
  <2>3. Counters'
    BY <1>6 DEF IInv, Counters, Error, mainVars, sendVars, recvVars
  <2>4. Causal'
    BY <1>6, <2>1 DEF IInv, Causal, Error, mainVars, sendVars, recvVars, OurReply
  <2>5. Once'
    BY <1>6, <2>1 DEF IInv, Once, Error, mainVars, recvVars, OurReply
  <2>6. QED  BY <2>2, <2>3, <2>4, <2>5 DEF IInv
<1>7. CASE MainFree
  BY <1>7 DEF IInv, TypeOK, Counters, Causal, Once, MainFree, mainVars, sendVars, recvVars, Sent,
              OurReply
<1>8. CASE MainExit \/ Fails \/ sig_hndl
  <2>1. /\ UNCHANGED <<sendVars, recvVars, mainVars, net, lost, dup>>
        /\ exited' \in {"no", "end", "error", "int", "trap"}
    BY <1>8 DEF MainExit, Fails, sig_hndl
  <2>2. QED
    BY <2>1 DEF IInv, TypeOK, Counters, Causal, Once, mainVars, sendVars, recvVars, Sent, OurReply
<1>9. ASSUME NEW p \in net, Lose(p) PROVE IInv'
  <2> DEFINE err == [type |-> "unreach", id |-> 0, seq |-> 0]
  <2>1. err \in Packet /\ ~OurReply(err)
    BY <1>0 DEF Packet, Types, OurReply
  <2>2. net' \subseteq net \cup {err} /\ Sent' = Sent
    BY <1>9 DEF Lose, mainVars, sendVars, Sent
  <2>3. lost' \in BOOLEAN
    BY <1>9, Zenon DEF Lose
  <2>4. TypeOK'
    BY <1>9, <2>1, <2>2, <2>3 DEF IInv, TypeOK, Lose, mainVars, sendVars, recvVars
  <2>5. Counters'
    BY <1>9 DEF IInv, Counters, Lose, mainVars, sendVars, recvVars
  <2>6. Causal'
    BY <1>9, <2>1, <2>2 DEF IInv, Causal, Lose, mainVars, sendVars, recvVars, OurReply
  <2>7. Once'
    BY <1>9, <2>1, <2>2 DEF IInv, Once, Lose, mainVars, recvVars, OurReply
  <2>8. QED  BY <2>4, <2>5, <2>6, <2>7 DEF IInv
<1>10. CASE UNCHANGED vars
  BY <1>10 DEF IInv, TypeOK, Counters, Causal, Once, vars, mainVars, sendVars, recvVars, Sent,
               OurReply
<1>11. QED
  BY <1>1, <1>2, <1>3, <1>4, <1>5, <1>6, <1>7, <1>8, <1>9, <1>10
  DEF Next, Sender, Receiver, Main

\* The inductive invariant holds in every reachable state.
LEMMA InvHolds == Spec => []IInv
BY InvInit, InvStep, PTL DEF Spec

\* The variables keep their types; in particular neither thread counts beyond
\* reqs_count and no request is stamped outside the table (core.c 384-398).
THEOREM TypeCorrect == Spec => []TypeOK
<1>1. IInv => TypeOK
  BY DEF IInv
<1>2. QED  BY <1>1, InvHolds, PTL

\* Times are printed only for requests that this program has stamped, whatever
\* packets other programs cause to arrive (core.c 442-458).
THEOREM TimesStamped == Spec => []RepliesStamped
<1>1. IInv => RepliesStamped
  BY DEF IInv, Causal, RepliesStamped
<1>2. QED  BY <1>1, InvHolds, PTL

\* A reply of every request is needed to free the table, and a request that has
\* not left has none.
LEMMA TableKept == IInv => NoUseAfterFree
<1> SUFFICES ASSUME IInv, freed, ~dup, spc \in {"stamp", "send"} PROVE FALSE
  BY DEF NoUseAfterFree
<1>1. Cardinality(replied) = reqs_count
  BY DEF IInv, Counters, Once
<1>2. seq_num \in Nat /\ seq_num < reqs_count
  BY SettingsFacts DEF IInv, TypeOK, Counters
<1>3. replied \subseteq 0..(seq_num - 1)
  BY <1>2 DEF IInv, Causal, Sent
<1>4. IsFiniteSet(0..(seq_num - 1)) /\ Cardinality(0..(seq_num - 1)) = seq_num
  <2>1. seq_num - 1 \in Int
    BY <1>2
  <2>2. QED  BY <1>2, <2>1, FS_Interval
<1>5. Cardinality(replied) <= seq_num
  BY <1>3, <1>4, FS_Subset, ZenonT(60)
<1>6. QED  BY <1>1, <1>2, <1>5, SettingsFacts DEF IInv

\* Main frees the table only when the sending thread has sent everything, unless
\* the network duplicates replies (ping.c 78-81).
THEOREM TableFreedLast == Spec => []NoUseAfterFree
BY TableKept, InvHolds, PTL

-----------------------------------------------------------------------------
(* ping and traceroute on one host *)

\* Two programs: the answers to one are never the other's.
LEMMA Strangers ==
  ASSUME TypeOK
  PROVE  TPid # reqs_id % IdMod /\ TPid % IdMod # reqs_id /\ TPid % IdMod \in 0..(IdMod - 1)
<1>1. TPid \in Nat /\ IdMod \in Nat \ {0} /\ reqs_id \in Nat /\ TPid % IdMod # reqs_id % IdMod
  BY ProgramsAssumption, SettingsFacts DEF TypeOK
<1>2. reqs_id % IdMod < IdMod /\ TPid % IdMod \in 0..(IdMod - 1)
  BY <1>1, ModFacts
<1>3. (TPid < IdMod => TPid % IdMod = TPid) /\ (reqs_id < IdMod => reqs_id % IdMod = reqs_id)
  BY <1>1, ModFacts
<1>4. QED  BY <1>1, <1>2, <1>3

\* A router's answer comes from no farther than the ttl has got.
Distances ==
  /\ tpc \in {"send", "wait", "sleep", "reply", "error"}
  /\ ttl \in Nat \ {0} /\ ip_ttl = ttl % TtlWidth
  /\ \A p \in air : T!Mine(p) => p.from \in Nat /\ p.from <= ttl

\* As long as every turn got its own answer, the only answer that can be on its
\* way is that of this turn, and the destination has not answered.
Turns ==
  ~idle =>
    /\ tpc \in {"send", "wait", "sleep"} => ttl <= Hops
    /\ tpc = "wait" => \A p \in air : T!Mine(p) => p = T!Answer(ttl)
    /\ tpc \in {"send", "sleep"} => \A p \in air : ~T!Mine(p)

HostInv == IInv /\ Distances /\ Turns /\ HopsAttributed

\* The answer to a request that left with the ttl of this turn.
LEMMA AnswerFacts ==
  ASSUME Distances
  PROVE  /\ T!Answer(ip_ttl).from \in Nat /\ T!Answer(ip_ttl).from <= ttl
         /\ T!Answer(ip_ttl).type \in Types
         /\ T!Answer(ip_ttl).id = TPid % IdMod
         /\ ttl <= Hops => /\ T!Answer(ip_ttl) = T!Answer(ttl)
                           /\ T!Answer(ttl).from = ttl
                           /\ T!Answer(ttl).type = "exceeded" => ttl < Hops
<1>1. /\ ttl \in Nat /\ Hops \in Nat /\ TtlWidth \in Nat \ {0} /\ Hops < TtlWidth
  BY HopsAssumption DEF Distances
<1>2. ip_ttl \in Nat /\ ip_ttl <= ttl /\ (ttl < TtlWidth => ip_ttl = ttl)
  BY <1>1, ModFacts DEF Distances
<1>3. QED  BY <1>1, <1>2 DEF T!Answer, Types

\* The invariant holds when both programs start.
LEMMA HostInitInv == HostInit => HostInv
<1> SUFFICES ASSUME HostInit PROVE HostInv
  OBVIOUS
<1>1. IInv
  BY InvInit DEF HostInit
<1>2. 1 % TtlWidth = 1
  BY HopsAssumption, ModFacts
<1>3. Distances /\ Turns /\ HopsAttributed
  BY <1>2, HopsAssumption DEF HostInit, T!TInit, Distances, Turns, HopsAttributed, T!HopsAttributed
<1>4. QED  BY <1>1, <1>3 DEF HostInv

\* What traceroute overhears of a step of ping is not for it.
LEMMA OverheardNotMine ==
  ASSUME TypeOK, Next, NEW q \in Overheard(net' \ net)
  PROVE  ~T!Mine(q)
<1>1. \A p \in net' \ net : p.type = "reply" => p.id = reqs_id % IdMod
  BY DEF Next, Sender, Stamp, Send, CountSent, Receiver, Skip, Reply, Error, Arrives,
                   Main, MainFree, MainExit, Fails, sig_hndl, Lose
<1>2. q.id = reqs_id % IdMod
  BY <1>1 DEF Overheard
<1>3. QED  BY <1>2, Strangers DEF T!Mine

\* A step of ping preserves the invariant.
LEMMA PingPreserves == HostInv /\ PingStep(Next) => HostInv'
<1> SUFFICES ASSUME HostInv, PingStep(Next) PROVE HostInv'
  OBVIOUS
<1>1. IInv'
  BY InvStep DEF HostInv, PingStep
<1>2. \A q \in air' : q \in air \/ ~T!Mine(q)
  BY OverheardNotMine DEF PingStep, HostInv, IInv
<1>3. UNCHANGED <<tpc, ttl, ip_ttl, printed, idle>>
  BY DEF PingStep
<1>4. Distances' /\ Turns' /\ HopsAttributed'
  BY <1>2, <1>3 DEF HostInv, Distances, Turns, HopsAttributed, T!HopsAttributed, T!Mine, T!Answer
<1>5. QED  BY <1>1, <1>4 DEF HostInv

\* What traceroute's requests bring to ping's socket is not for ping.
LEMMA PingUndisturbed ==
  ASSUME HostInv, TracerouteStep
  PROVE  IInv'
<1>1. \A p \in air' \ air : p = T!Answer(ip_ttl)
  BY DEF TracerouteStep, T!TNext, T!Probe, T!Timeout, T!Sleep, T!CallFails, T!Receive
<1>2. \A q \in net' : q \in net \/ (q \in Packet /\ ~OurReply(q))
  <2>1. ASSUME NEW p \in air' \ air,
               NEW q, q = [type |-> p.type, id |-> IF p.type = "reply" THEN p.id ELSE 0, seq |-> 0]
        PROVE  q \in Packet /\ ~OurReply(q)
    <3>1. p.type \in Types /\ p.id = TPid % IdMod
      BY <1>1, AnswerFacts DEF HostInv
    <3>2. p.id \in 0..(IdMod - 1) /\ p.id # reqs_id /\ 0 \in 0..(IdMod - 1)
      BY <3>1, Strangers, SettingsFacts DEF HostInv, IInv
    <3>3. QED  BY <2>1, <3>1, <3>2 DEF Packet, OurReply
  <2>2. QED  BY <2>1 DEF TracerouteStep, SeenByPing
<1>3. UNCHANGED <<mainVars, sendVars, recvVars, lost, dup, exited>>
  BY DEF TracerouteStep
<1>4. TypeOK'
  <2>1. net' \subseteq Packet
    BY <1>2 DEF HostInv, IInv, TypeOK
  <2>2. QED  BY <1>3, <2>1 DEF HostInv, IInv, TypeOK, Seqs, mainVars, sendVars, recvVars
<1>5. Counters' /\ Causal' /\ Once'
  BY <1>2, <1>3 DEF HostInv, IInv, Counters, Causal, Once, Sent, OurReply, mainVars, sendVars,
                    recvVars
<1>6. QED  BY <1>4, <1>5 DEF IInv

\* A step of traceroute preserves the invariant.
LEMMA TraceroutePreserves == HostInv /\ TracerouteStep => HostInv'
<1> SUFFICES ASSUME HostInv, TracerouteStep PROVE HostInv'
  OBVIOUS
<1>1. IInv'
  BY PingUndisturbed
<1>2. ttl \in Nat \ {0} /\ Hops \in Nat
  BY HopsAssumption DEF HostInv, Distances
<1>3. CASE T!Probe
  <2>1. /\ tpc = "send" /\ tpc' = "wait" /\ UNCHANGED <<ttl, ip_ttl, printed, idle>>
        /\ \A q \in air' : q \in air \/ q = T!Answer(ip_ttl)
    BY <1>3 DEF T!Probe
  <2>2. Distances'
    BY <2>1, AnswerFacts DEF HostInv, Distances, T!Mine
  <2>3. Turns'
    BY <2>1, AnswerFacts DEF HostInv, Turns, T!Mine, T!Answer
  <2>4. HopsAttributed'
    BY <2>1 DEF HostInv, HopsAttributed, T!HopsAttributed
  <2>5. QED  BY <1>1, <2>2, <2>3, <2>4 DEF HostInv
<1>4. CASE T!Timeout
  <2>1. /\ tpc' = "send" /\ ttl' = ttl + 1 /\ ip_ttl' = (ttl + 1) % TtlWidth
        /\ idle' = TRUE /\ UNCHANGED <<air, printed>>
    BY <1>4 DEF T!Timeout, T!NextTtl
  <2>2. QED
    BY <1>1, <1>2, <2>1 DEF HostInv, Distances, Turns, HopsAttributed, T!HopsAttributed, T!Mine
<1>5. CASE T!Sleep \/ T!CallFails
  <2>1. /\ UNCHANGED <<ttl, ip_ttl, air, printed, idle>>
        /\ (tpc = "sleep" /\ tpc' = "send") \/ tpc' = "error"
    BY <1>5 DEF T!Sleep, T!CallFails
  <2>2. QED
    BY <1>1, <2>1 DEF HostInv, Distances, Turns, HopsAttributed, T!HopsAttributed, T!Mine
<1>6. ASSUME NEW p \in air, NEW again \in BOOLEAN, T!Receive(p, again) PROVE HostInv'
  <2>1. tpc = "wait" /\ air' \subseteq air /\ (~again => air' = air \ {p})
    BY <1>6 DEF T!Receive
  <2>2. ASSUME T!Mine(p)
        PROVE  /\ p.from \in Nat /\ p.from <= ttl
               /\ ~idle => /\ p.from = ttl /\ (p.type = "exceeded" => ttl < Hops)
                           /\ ~again => \A q \in air' : ~T!Mine(q)
    <3>1. p.from \in Nat /\ p.from <= ttl
      BY <2>2 DEF HostInv, Distances
    <3>2. ASSUME ~idle
          PROVE  /\ p.from = ttl /\ (p.type = "exceeded" => ttl < Hops)
                 /\ ~again => \A q \in air' : ~T!Mine(q)
      <4>1. ttl <= Hops /\ p = T!Answer(ttl) /\ \A q \in air : T!Mine(q) => q = p
        BY <2>1, <2>2, <3>2 DEF HostInv, Turns
      <4>2. QED  BY <2>1, <4>1, AnswerFacts DEF HostInv
    <3>3. QED  BY <3>1, <3>2
  <2>3. CASE T!EchoReply(p)
    <3>1. /\ tpc' = "reply" /\ UNCHANGED <<ttl, ip_ttl, idle>>
          /\ \A h \in printed' : h \in printed \/ (T!Mine(p) /\ h = <<ttl, p.from>>)
      BY <2>3 DEF T!EchoReply
    <3>2. Distances' /\ Turns'
      BY <2>1, <3>1 DEF HostInv, Distances, Turns, T!Mine
    <3>3. HopsAttributed'
      BY <1>2, <2>2, <3>1 DEF HostInv, HopsAttributed, T!HopsAttributed
    <3>4. QED  BY <1>1, <3>2, <3>3 DEF HostInv
  <2>4. CASE T!DestUnreach(p)
    <3>1. /\ tpc' = "sleep" /\ ttl' = ttl + 1 /\ ip_ttl' = (ttl + 1) % TtlWidth
          /\ idle' = TRUE /\ UNCHANGED printed
      BY <2>4 DEF T!DestUnreach, T!NextTtl
    <3>2. QED
      BY <1>1, <1>2, <2>1, <3>1 DEF HostInv, Distances, Turns, HopsAttributed, T!HopsAttributed,
                                    T!Mine
  <2>5. CASE T!TimeExceeded(p, again)
    <3>1. /\ tpc' = "sleep" /\ ttl' = ttl + 1 /\ ip_ttl' = (ttl + 1) % TtlWidth
          /\ p.type = "exceeded" /\ (~idle' => ~idle /\ ~again /\ T!Mine(p))
          /\ \A h \in printed' : h \in printed \/ (T!Mine(p) /\ h = <<ttl, p.from>>)
      BY <2>5 DEF T!TimeExceeded, T!NextTtl
    <3>2. Distances'
      BY <1>2, <2>1, <3>1 DEF HostInv, Distances, T!Mine
    <3>3. Turns'
      BY <1>2, <2>1, <2>2, <3>1 DEF HostInv, Turns, T!Mine
    <3>4. HopsAttributed'
      BY <1>2, <2>2, <3>1 DEF HostInv, HopsAttributed, T!HopsAttributed
    <3>5. QED  BY <1>1, <3>2, <3>3, <3>4 DEF HostInv
  <2>6. QED  BY <1>6, <2>3, <2>4, <2>5 DEF T!Receive
<1>7. QED  BY <1>3, <1>4, <1>5, <1>6 DEF TracerouteStep, T!TNext

\* The invariant holds in every reachable state of the host.
LEMMA HostInvHolds == HostSpec => []HostInv
<1>1. HostInv /\ UNCHANGED hostVars => HostInv'
  BY DEF HostInv, IInv, TypeOK, Seqs, Counters, Causal, Once, Sent, OurReply, Distances, Turns,
         HopsAttributed, T!HopsAttributed, T!Mine, T!Answer, hostVars, vars, mainVars, sendVars, recvVars,
         T!tvars
<1>2. HostInv /\ [HostNext]_hostVars => HostInv'
  BY <1>1, PingPreserves, TraceroutePreserves DEF HostNext
<1>3. QED  BY HostInitInv, <1>2, PTL DEF HostSpec

\* Beside a traceroute, too, ping prints times only for requests it has stamped
\* (core.c 442-458).
THEOREM HostTimesStamped == HostSpec => []RepliesStamped
<1>1. HostInv => RepliesStamped
  BY DEF HostInv, IInv, Causal, RepliesStamped
<1>2. QED  BY <1>1, HostInvHolds, PTL

\* Beside a traceroute, too, the table is freed last (ping.c 78-81).
THEOREM HostTableFreedLast == HostSpec => []NoUseAfterFree
<1>1. HostInv => NoUseAfterFree
  BY TableKept DEF HostInv
<1>2. QED  BY <1>1, HostInvHolds, PTL

\* Traceroute prints no router under a ttl smaller than its distance, and under
\* exactly its distance as long as every turn got its own answer and none comes
\* twice, whatever ping receives in between (main.c 103-161).
THEOREM RoutersAttributed == HostSpec => []HopsAttributed
<1>1. HostInv => HopsAttributed
  BY DEF HostInv
<1>2. QED  BY <1>1, HostInvHolds, PTL
=============================================================================
