------------------------- MODULE KernelModulesProofs -------------------------
(***************************************************************************)
(* Proofs about three of the kernel modules.  The DNS cache, for any       *)
(* number of queries, names and processors; the drivers that keep the      *)
(* position of a read for all readers, for any number of readers and any   *)
(* lengths; the device with ioctls, for any buffer and any messages that   *)
(* leave room for their NUL, as long as one process at a time uses it.     *)
(***************************************************************************)
EXTENDS CharDevice, DnsProxy, SharedReads, WellFoundedInduction, TLAPS

-----------------------------------------------------------------------------
(* dns_proxy_server *)

Told == Answers \cup {AsA(d.rdata) : d \in Answers}
Packet == [q : Queries, ans : Told]
Processor == [at : {"rest", "search", "place", "link", "color", "hung"},
              pkt : Packet \cup {NoPacket}, alone : BOOLEAN]
QueryState == {"new", "asked", "answered", "dropped", "failed", "hung"}

DnsTypeOK ==
  /\ query \in [Queries -> QueryState]
  /\ told \in [Queries -> Told \cup {NoAnswer}]
  /\ cpu \in [Cpus -> Processor]

\* Everything that holds an answer holds one that comes from a server: the tree,
\* the packets, and the processors that are about to store or deliver one.
Truthful(p) == p \in Packet /\ Honest(Name[p.q], p.ans)
TrueRecord(r) == Honest(r.name, AsA(r.rdata))

Truth ==
  /\ \A r \in tree : TrueRecord(r)
  /\ \A p \in packets : Truthful(p)
  /\ \A c \in Cpus : cpu[c].at # "rest" => Truthful(cpu[c].pkt)

DnsInv == DnsTypeOK /\ Truth /\ AnswersGiven

\* The invariant holds before the module is loaded.
LEMMA DnsInvInit == DnsInit => DnsInv
BY DEF DnsInit, DnsInv, DnsTypeOK, Truth, AnswersGiven, Rest, Processor, QueryState

\* An answer that comes from a server is one somebody may be told, and so is what
\* the cache makes of it.
LEMMA HonestBytes ==
  ASSUME NEW name, NEW ans, Honest(name, ans)
  PROVE  ans \in Told /\ AsA(ans.rdata) \in Told /\ Honest(name, AsA(ans.rdata))
<1>1. PICK d \in Answers : <<name, d>> \in given /\ ans \in {d, AsA(d.rdata)}
  BY DEF Honest
<1>2. AsA(d.rdata).rdata = d.rdata
  BY DEF AsA
<1>3. AsA(ans.rdata) = AsA(d.rdata)
  BY <1>1, <1>2
<1>4. QED  BY <1>1, <1>3 DEF Honest, Told

\* Servers give more answers, and none is taken back.
LEMMA StaysHonest ==
  ASSUME given \subseteq given', NEW name, NEW ans, Honest(name, ans)
  PROVE  Honest(name, ans)'
BY DEF Honest

\* An application gets the answer of a packet that is truthful.
LEMMA Delivered ==
  ASSUME DnsTypeOK, AnswersGiven, NEW p, Truthful(p), Deliver(p), given' = given
  PROVE  /\ query' \in [Queries -> QueryState]
         /\ told' \in [Queries -> Told \cup {NoAnswer}]
         /\ AnswersGiven'
<1>1. p.q \in Queries /\ p.ans \in Told /\ Honest(Name[p.q], p.ans)'
  BY StaysHonest DEF Truthful, Packet
<1>2. query' \in [Queries -> QueryState] /\ told' \in [Queries -> Told \cup {NoAnswer}]
  BY <1>1 DEF DnsTypeOK, Deliver, QueryState
<1>3. ASSUME NEW q \in Queries, query'[q] = "answered" PROVE Honest(Name[q], told[q])'
  <2>1. CASE q = p.q
    BY <1>1, <2>1 DEF DnsTypeOK, Deliver
  <2>2. CASE q # p.q
    <3>1. query'[q] = query[q] /\ told'[q] = told[q]
      BY <2>2 DEF DnsTypeOK, Deliver
    <3>2. Honest(Name[q], told[q])
      BY <1>3, <3>1 DEF AnswersGiven
    <3>3. QED  BY <3>1, <3>2, StaysHonest
  <2>3. QED  BY <2>1, <2>2
<1>4. QED  BY <1>2, <1>3 DEF AnswersGiven

\* Every step preserves the invariant.
LEMMA DnsInvStep == DnsInv /\ [DnsNext]_dnsVars => DnsInv'
<1> SUFFICES ASSUME DnsInv, [DnsNext]_dnsVars PROVE DnsInv'
  OBVIOUS
<1>T. DnsTypeOK /\ Truth /\ AnswersGiven
  BY DEF DnsInv
<1>1. CASE pf_init \/ pf_exit
  BY <1>T, <1>1
  DEF pf_init, pf_exit, DnsInv, DnsTypeOK, Truth, Truthful, TrueRecord, AnswersGiven, Honest
<1>2. ASSUME NEW q \in Queries, Ask(q) PROVE DnsInv'
  <2> DEFINE Sent ==
        /\ \E to \in {"asked", "dropped", "failed", "hung"} : query' = [query EXCEPT ![q] = to]
        /\ given \subseteq given'
        /\ \/ packets' = packets
           \/ \E d : packets' = packets \cup {[q |-> q, ans |-> d]} /\ Honest(Name[q], d)'
  <2>1. UNCHANGED <<tree, told, cpu>> /\ query[q] = "new"
    BY <1>2 DEF Ask
  <2>2. Sent
    <3>1. CASE Upstream(q)
      <4>1. PICK d \in Answers : /\ packets' = packets \cup {[q |-> q, ans |-> d]}
                                 /\ given' = given \cup {<<Name[q], d>>}
        BY <3>1 DEF Upstream
      <4>2. Honest(Name[q], d)'
        BY <4>1 DEF Honest
      <4>3. QED  BY <3>1, <4>1, <4>2 DEF Upstream
    <3>2. ASSUME NEW r \in search_dr(Name[q]), send_reply(q, r), UNCHANGED given PROVE Sent
      <4>1. Honest(Name[q], AsA(r.rdata))
        BY <1>T, <3>2 DEF search_dr, Truth, TrueRecord
      <4>2. Honest(Name[q], AsA(r.rdata))'
        BY <3>2, <4>1, StaysHonest
      <4>3. QED  BY <3>2, <4>2 DEF send_reply
    <3>3. CASE /\ \E to \in {"failed", "hung"} : query' = [query EXCEPT ![q] = to]
               /\ UNCHANGED <<packets, given>>
      BY <3>3
    <3>4. QED  BY <1>2, <3>1, <3>2, <3>3 DEF Ask, dns_request_hook
  <2>3. \A p \in packets' : Truthful(p)'
    <3>1. \A p \in packets : Truthful(p)'
      BY <1>T, <2>2, StaysHonest DEF Truth, Truthful
    <3>2. ASSUME NEW d, packets' = packets \cup {[q |-> q, ans |-> d]}, Honest(Name[q], d)'
          PROVE  \A p \in packets' : Truthful(p)'
      <4>1. d \in Told
        BY <3>2 DEF Honest, Told
      <4>2. PICK new \in Packet : new = [q |-> q, ans |-> d]
        BY <4>1 DEF Packet
      <4>3. new.q = q /\ new.ans = d
        BY <4>2
      <4>4. Truthful(new)'
        BY <3>2, <4>3 DEF Truthful
      <4>5. QED  BY <3>1, <3>2, <4>2, <4>4
    <3>3. QED  BY <2>2, <3>1, <3>2
  <2>4. DnsTypeOK'
    BY <1>T, <2>1, <2>2 DEF DnsTypeOK, QueryState
  <2>5. Truth'
    <3>1. \A r \in tree' : TrueRecord(r)'
      BY <1>T, <2>1, <2>2, StaysHonest DEF Truth, TrueRecord
    <3>2. \A c \in Cpus : cpu'[c].at # "rest" => Truthful(cpu[c].pkt)'
      BY <1>T, <2>1, <2>2, StaysHonest DEF Truth, Truthful
    <3>3. QED  BY <2>3, <3>1, <3>2 DEF Truth
  <2>6. AnswersGiven'
    <3> SUFFICES ASSUME NEW x \in Queries, query'[x] = "answered" PROVE Honest(Name[x], told[x])'
      BY DEF AnswersGiven
    <3>1. query[x] = "answered" /\ told'[x] = told[x]
      BY <1>T, <2>1, <2>2 DEF DnsTypeOK
    <3>2. QED  BY <1>T, <2>2, <3>1, StaysHonest DEF AnswersGiven
  <2>7. QED  BY <2>4, <2>5, <2>6 DEF DnsInv
<1>3. ASSUME NEW c \in Cpus, NEW p \in packets, Arrive(c, p) PROVE DnsInv'
  <2>1. Truthful(p) /\ p \in Packet
    BY <1>T DEF Truth, Truthful
  <2>2. UNCHANGED <<tree, given>> /\ packets' = packets \ {p}
    BY <1>3 DEF Arrive
  <2>3. CASE cpu' = cpu /\ Deliver(p)
    <3>1. Truth'
      BY <1>T, <2>2, <2>3 DEF Truth, Truthful, TrueRecord, Honest
    <3>2. QED  BY <1>T, <2>1, <2>2, <2>3, <3>1, Delivered DEF DnsInv, DnsTypeOK
  <2>4. CASE /\ cpu' = [cpu EXCEPT ![c] = [at |-> "search", pkt |-> p, alone |-> TRUE]]
             /\ UNCHANGED <<query, told>>
    <3>1. DnsTypeOK'
      BY <1>T, <2>1, <2>2, <2>4 DEF DnsTypeOK, Processor
    <3>2. Truth' /\ AnswersGiven'
      BY <1>T, <2>1, <2>2, <2>4
      DEF DnsTypeOK, Truth, Truthful, TrueRecord, AnswersGiven, Honest
    <3>3. QED  BY <3>1, <3>2 DEF DnsInv
  <2>5. QED  BY <1>3, <2>3, <2>4 DEF Arrive
<1>4. ASSUME NEW c \in Cpus, Reply(c) PROVE DnsInv'
  <2>1. cpu[c].at # "rest" /\ Truthful(cpu[c].pkt) /\ UNCHANGED <<packets, given>>
    BY <1>T, <1>4 DEF Truth, Reply, Search, Place, Link, Color
  <2>2. cpu[c].pkt.q \in Queries /\ cpu \in [Cpus -> Processor]
    BY <1>T, <2>1 DEF DnsTypeOK, Truthful, Packet
  <2>3. ASSUME \A r \in tree' : TrueRecord(r), cpu' = [cpu EXCEPT ![c] = Rest],
               \/ Deliver(cpu[c].pkt)
               \/ query' = [query EXCEPT ![cpu[c].pkt.q] = "failed"] /\ told' = told
        PROVE  DnsInv'
    <3>1. cpu' \in [Cpus -> Processor]
      <4>1. Rest \in Processor
        BY DEF Rest, Processor
      <4>2. QED  BY <2>2, <2>3, <4>1
    <3>2. \A d \in Cpus : cpu'[d].at # "rest" => cpu'[d] = cpu[d]
      BY <2>2, <2>3 DEF Rest
    <3>3. /\ query' \in [Queries -> QueryState]
          /\ told' \in [Queries -> Told \cup {NoAnswer}]
          /\ AnswersGiven'
      <4>1. CASE Deliver(cpu[c].pkt)
        BY <1>T, <2>1, <4>1, Delivered
      <4>2. CASE query' = [query EXCEPT ![cpu[c].pkt.q] = "failed"] /\ told' = told
        BY <1>T, <2>1, <2>2, <4>2 DEF DnsTypeOK, AnswersGiven, QueryState, Honest
      <4>3. QED  BY <2>3, <4>1, <4>2
    <3>4. DnsTypeOK'
      BY <3>1, <3>3 DEF DnsTypeOK
    <3>5. Truth'
      <4>1. \A p : Truthful(p) => Truthful(p)'
        BY <2>1, StaysHonest DEF Truthful
      <4>2. \A r \in tree' : TrueRecord(r)'
        BY <2>1, <2>3, StaysHonest DEF TrueRecord
      <4>3. \A d \in Cpus : cpu'[d].at # "rest" => Truthful(cpu'[d].pkt)
        BY <1>T, <3>2 DEF Truth
      <4>4. QED  BY <1>T, <2>1, <4>1, <4>2, <4>3 DEF Truth
    <3>6. QED  BY <3>3, <3>4, <3>5 DEF DnsInv
  <2>4. ASSUME \A r \in tree' : TrueRecord(r), UNCHANGED <<query, told>>,
               cpu' \in [Cpus -> Processor], \A d \in Cpus : cpu'[d].pkt = cpu[d].pkt,
               \A d \in Cpus : d # c => cpu'[d].at = cpu[d].at
        PROVE  DnsInv'
    <3>1. \A d \in Cpus : cpu'[d].at # "rest" => cpu[d].at # "rest"
      BY <2>1, <2>4
    <3>2. DnsTypeOK'
      BY <1>T, <2>4 DEF DnsTypeOK
    <3>3. Truth' /\ AnswersGiven'
      BY <1>T, <2>1, <2>4, <3>1 DEF Truth, Truthful, TrueRecord, AnswersGiven, Honest
    <3>4. QED  BY <3>2, <3>3 DEF DnsInv
  <2>5. \A r \in tree : TrueRecord(r)
    BY <1>T DEF Truth
  <2>6. ASSUME Hang(c), tree' = tree PROVE DnsInv'
    <3>1. cpu' \in [Cpus -> Processor] /\ \A d \in Cpus : cpu'[d].pkt = cpu[d].pkt
      BY <2>2, <2>6 DEF Hang, Processor
    <3>2. UNCHANGED <<query, told>> /\ \A d \in Cpus : d # c => cpu'[d].at = cpu[d].at
      BY <2>2, <2>6 DEF Hang
    <3>3. QED  BY <2>4, <2>5, <2>6, <3>1, <3>2
  <2>7. ASSUME Accept(c), tree' = tree PROVE DnsInv'
    BY <2>3, <2>5, <2>7 DEF Accept
  <2>8. CASE Search(c)
    <3>1. CASE cpu' = [cpu EXCEPT ![c].at = "place"] /\ UNCHANGED <<query, told, tree>>
      <4>1. cpu' \in [Cpus -> Processor] /\ \A d \in Cpus : cpu'[d].pkt = cpu[d].pkt
        BY <2>2, <3>1 DEF Processor
      <4>2. \A d \in Cpus : d # c => cpu'[d].at = cpu[d].at
        BY <2>2, <3>1
      <4>3. QED  BY <2>4, <2>5, <3>1, <4>1, <4>2
    <3>2. QED  BY <2>3, <2>5, <2>6, <2>7, <2>8, <3>1 DEF Search
  <2>9. CASE Place(c)
    <3>1. ASSUME NEW b \in BOOLEAN, cpu' = [cpu EXCEPT ![c].at = "link", ![c].alone = b],
                 UNCHANGED <<query, told, tree>>
          PROVE  DnsInv'
      <4>1. cpu' \in [Cpus -> Processor] /\ \A d \in Cpus : cpu'[d].pkt = cpu[d].pkt
        BY <2>2, <3>1 DEF Processor
      <4>2. \A d \in Cpus : d # c => cpu'[d].at = cpu[d].at
        BY <2>2, <3>1
      <4>3. QED  BY <2>4, <2>5, <3>1, <4>1, <4>2
    <3>2. QED  BY <2>6, <2>7, <2>9, <3>1, Zenon DEF Place
  <2>10. CASE Link(c)
    <3>1. PICK new : new = [name |-> Name[cpu[c].pkt.q], rdata |-> cpu[c].pkt.ans.rdata]
      OBVIOUS
    <3>2. TrueRecord(new)
      BY <2>1, <3>1, HonestBytes DEF Truthful, TrueRecord
    <3>3. tree' = tree \cup {new} /\ UNCHANGED <<query, told>>
      BY <2>10, <3>1 DEF Link
    <3>4. cpu' = [d \in Cpus |-> IF d = c THEN [cpu[d] EXCEPT !.at = "color"]
                                 ELSE [cpu[d] EXCEPT !.alone = @ /\ cpu[d].at # "link"]]
      BY <2>10 DEF Link
    <3>5. ASSUME NEW d \in Cpus
          PROVE  cpu'[d] \in Processor /\ cpu'[d].pkt = cpu[d].pkt /\ (d # c => cpu'[d].at = cpu[d].at)
      <4>1. CASE d = c
        BY <2>2, <3>4, <4>1 DEF Processor
      <4>2. CASE d # c
        <5>1. PICK b \in BOOLEAN : b = (cpu[d].alone /\ cpu[d].at # "link")
          OBVIOUS
        <5>2. cpu'[d] = [cpu[d] EXCEPT !.alone = b]
          BY <3>4, <4>2, <5>1
        <5>3. QED  BY <2>2, <5>2 DEF Processor
      <4>3. QED  BY <4>1, <4>2
    <3>6. cpu' \in [Cpus -> Processor]
      BY <3>4, <3>5
    <3>7. QED  BY <2>4, <2>5, <3>2, <3>3, <3>5, <3>6
  <2>11. CASE Color(c)
    BY <2>6, <2>7, <2>11 DEF Color
  <2>12. QED  BY <1>4, <2>8, <2>9, <2>10, <2>11 DEF Reply
<1>5. CASE UNCHANGED dnsVars
  BY <1>T, <1>5
  DEF DnsInv, DnsTypeOK, Truth, Truthful, TrueRecord, AnswersGiven, Honest, dnsVars
<1>6. QED  BY <1>1, <1>2, <1>3, <1>4, <1>5 DEF DnsNext

\* In every run, for any number of processors, queries and names, whatever servers
\* answer and however insertions tear the tree, what a query is told comes from an
\* answer that a server has given for its name (dns_proxy_mod.c 58-195, 248-318).
THEOREM CacheTruthful == DnsSpec => []AnswersGiven
<1>1. DnsInv => AnswersGiven
  BY DEF DnsInv
<1>2. QED  BY DnsInvInit, DnsInvStep, <1>1, PTL DEF DnsSpec

-----------------------------------------------------------------------------
(* Drivers that keep the position of a read for all readers *)

\* What the drivers and their readers need: buffers are not empty, and the driver
\* is one of the three.
ReadHypotheses ==
  /\ Counts \subseteq Nat \ {0} /\ Lengths \subseteq Nat
  /\ Drivers \subseteq {"procfs", "procfs_m", "chardev"}

ReadTypeOK ==
  /\ driver \in {"procfs", "procfs_m", "chardev"}
  /\ finished \in BOOLEAN /\ tidy \in BOOLEAN
  /\ len \in Nat /\ temp \in Int /\ ptr \in Int
  /\ reader \in [Readers -> [at : {"new", "opening", "ready", "reading", "end", "left"},
                             count : Counts, want : Nat, n : Int, got : Int, exact : BOOLEAN]]

\* Readers have followed one another so far; when none is there, the position is
\* at the start of the message.
InTurn ==
  /\ \A r, s \in Readers : r \in Inside /\ s \in Inside => r = s
  /\ Inside = {} => /\ driver = "procfs" => ~finished
                    /\ driver = "procfs_m" => temp = len
  /\ \A r \in Readers : reader[r].at \in {"new", "opening"} => reader[r].got = 0 /\ reader[r].exact

\* The position of each driver says what its reader has got.
ProcfsPosition(rd) ==
  /\ rd.exact /\ rd.got = IF finished THEN len ELSE 0
  /\ rd.at = "reading" => rd.n = procfile_read

ProcfsMPosition(rd) ==
  /\ temp \in Nat /\ rd.got \in Nat /\ rd.got + temp = len
  /\ rd.exact \/ rd.count < len
  /\ rd.got = 0 \/ temp = 0 \/ rd.count < len
  /\ rd.at = "reading" => rd.n = read_proc(rd.count)

ChardevPosition(rd) ==
  rd.at # "opening" => rd.exact /\ rd.got = ptr /\ ptr \in 0..len

Position ==
  \A r \in Inside :
    /\ reader[r].want = len
    /\ driver = "procfs" => ProcfsPosition(reader[r])
    /\ driver = "procfs_m" => ProcfsMPosition(reader[r])
    /\ driver = "chardev" => ChardevPosition(reader[r])

ReadInv == ReadTypeOK /\ (tidy => InTurn /\ Position /\ ReadsWholeMessage)

\* The invariant holds before anybody opens the file.
LEMMA ReadInvInit == ReadHypotheses /\ ReadInit => ReadInv
<1> SUFFICES ASSUME ReadHypotheses, ReadInit PROVE ReadInv
  OBVIOUS
<1>1. PICK k \in Counts :
        reader = [r \in Readers |-> [at |-> "new", count |-> k, want |-> 0, n |-> 0,
                                     got |-> 0, exact |-> TRUE]]
  BY DEF ReadInit
<1>2. ReadTypeOK
  <2>1. driver \in {"procfs", "procfs_m", "chardev"} /\ len \in Nat /\ temp \in Int /\ ptr \in Int
    BY DEF ReadInit, ReadHypotheses
  <2>2. finished \in BOOLEAN /\ tidy \in BOOLEAN
    BY DEF ReadInit
  <2>3. QED  BY <1>1, <2>1, <2>2 DEF ReadTypeOK
<1>3. \A r \in Readers : reader[r].at = "new" /\ reader[r].got = 0 /\ reader[r].exact
  BY <1>1
<1>4. Inside = {}
  BY <1>3 DEF Inside
<1>5. InTurn /\ Position /\ ReadsWholeMessage
  BY <1>3, <1>4 DEF ReadInit, InTurn, Position, ReadsWholeMessage
<1>6. QED  BY <1>2, <1>5 DEF ReadInv

\* What a read leaves of its reader's record is such a record again.
LEMMA RecordAfterRead ==
  ASSUME NEW rd \in [at : {"new", "opening", "ready", "reading", "end", "left"},
                     count : Counts, want : Nat, n : Int, got : Int, exact : BOOLEAN],
         NEW g \in Int, NEW e \in BOOLEAN
  PROVE  [rd EXCEPT !.at = "ready", !.n = 0, !.got = g, !.exact = e]
           \in [at : {"new", "opening", "ready", "reading", "end", "left"},
               count : Counts, want : Nat, n : Int, got : Int, exact : BOOLEAN]
<1> DEFINE Rd == [at : {"new", "opening", "ready", "reading", "end", "left"},
                  count : Counts, want : Nat, n : Int, got : Int, exact : BOOLEAN]
<1>1. PICK r1 : r1 = [rd EXCEPT !.at = "ready"]
  OBVIOUS
<1>2. r1 \in Rd
  BY <1>1
<1>3. PICK r2 : r2 = [r1 EXCEPT !.n = 0]
  OBVIOUS
<1>4. r2 \in Rd
  BY <1>2, <1>3
<1>5. PICK r3 : r3 = [r2 EXCEPT !.got = g]
  OBVIOUS
<1>6. r3 \in Rd
  BY <1>4, <1>5
<1>7. PICK r4 : r4 = [r3 EXCEPT !.exact = e]
  OBVIOUS
<1>8. r4 \in Rd
  BY <1>6, <1>7
<1>9. r4 = [rd EXCEPT !.at = "ready", !.n = 0, !.got = g, !.exact = e]
  BY <1>1, <1>3, <1>5, <1>7
<1>10. QED  BY <1>8, <1>9

\* The types, one reader's step at a time.
LEMMA ReadTypeStep == ReadHypotheses /\ ReadTypeOK /\ [ReadNext]_readVars => ReadTypeOK'
<1> SUFFICES ASSUME ReadHypotheses, ReadTypeOK, [ReadNext]_readVars PROVE ReadTypeOK'
  OBVIOUS
<1> DEFINE Rd == [at : {"new", "opening", "ready", "reading", "end", "left"},
                  count : Counts, want : Nat, n : Int, got : Int, exact : BOOLEAN]
<1>0. reader \in [Readers -> Rd]
  BY DEF ReadTypeOK
<1>1. CASE write_proc
  <2>1. tidy' \in BOOLEAN /\ len' \in Nat /\ temp' \in Int
    BY <1>1 DEF write_proc, ReadHypotheses
  <2>2. QED  BY <1>1, <2>1 DEF write_proc, ReadTypeOK
<1>2. ASSUME NEW r \in Readers, OpenForRead(r) PROVE ReadTypeOK'
  <2>1. tidy' \in BOOLEAN
    BY <1>2 DEF OpenForRead
  <2>2. PICK a \in {"opening", "ready"}, k \in Nat :
               reader' = [reader EXCEPT ![r].at = a, ![r].want = k]
    <3>1. len \in Nat
      BY DEF ReadTypeOK
    <3>2. CASE driver = "chardev"
      BY <1>2, <3>1, <3>2 DEF OpenForRead
    <3>3. CASE driver # "chardev"
      BY <1>2, <3>1, <3>3 DEF OpenForRead
    <3>4. QED  BY <3>2, <3>3
  <2>3. reader' \in [Readers -> Rd]
    BY <1>0, <2>2, ZenonT(60)
  <2>4. QED  BY <1>2, <2>1, <2>3 DEF OpenForRead, ReadTypeOK
<1>3. ASSUME NEW r \in Readers, device_open(r) PROVE ReadTypeOK'
  BY <1>3 DEF device_open, ReadTypeOK
<1>4. ASSUME NEW r \in Readers, LeaveEarly(r) PROVE ReadTypeOK'
  <2>1. tidy' \in BOOLEAN
    BY <1>4 DEF LeaveEarly
  <2>2. QED  BY <1>4, <2>1 DEF LeaveEarly, Close, ReadTypeOK
<1>5. ASSUME NEW r \in Readers, BeginRead(r) PROVE ReadTypeOK'
  <2>1. PICK k \in Int : reader' = [reader EXCEPT ![r].at = "reading", ![r].n = k]
    <3>1. procfile_read \in Int /\ read_proc(reader[r].count) \in Int
      <4>1. reader[r].count \in Int /\ temp \in Int /\ len \in Int
        <5>1. reader[r].count \in Counts
          BY <1>0
        <5>2. Counts \subseteq Int
          BY DEF ReadHypotheses
        <5>3. temp \in Int /\ len \in Int
          BY DEF ReadTypeOK
        <5>4. QED  BY <5>1, <5>2, <5>3
      <4>2. QED  BY <4>1 DEF procfile_read, read_proc, Least
    <3>2. CASE driver = "procfs"
      BY <1>5, <3>1, <3>2 DEF BeginRead
    <3>3. CASE driver = "procfs_m"
      BY <1>5, <3>1, <3>3 DEF BeginRead
    <3>4. CASE driver = "chardev"
      <4>1. reader' = [reader EXCEPT ![r].at = "reading", ![r].n =
                         CASE driver = "procfs"   -> procfile_read
                           [] driver = "procfs_m" -> read_proc(reader[r].count)
                           [] driver = "chardev"  -> 0]
        BY <1>5 DEF BeginRead
      <4>2. (CASE driver = "procfs"   -> procfile_read
               [] driver = "procfs_m" -> read_proc(reader[r].count)
               [] driver = "chardev"  -> 0) = 0
        BY <3>4
      <4>3. reader' = [reader EXCEPT ![r].at = "reading", ![r].n = 0]
        BY <4>1, <4>2, Zenon
      <4>4. 0 \in Int
        OBVIOUS
      <4>5. QED  BY <4>3, <4>4, Zenon
    <3>5. QED  BY <3>2, <3>3, <3>4 DEF ReadTypeOK
  <2>2. reader' \in [Readers -> Rd]
    BY <1>0, <2>1, ZenonT(60)
  <2>3. UNCHANGED <<driver, finished, len, temp, ptr, tidy>>
    BY <1>5 DEF BeginRead
  <2>4. QED  BY <2>2, <2>3 DEF ReadTypeOK
<1>6. ASSUME NEW r \in Readers, FinishRead(r) PROVE ReadTypeOK'
  <2>1. PICK k \in Int : k = Copied(r)
    <3>1. reader[r].count \in Int /\ reader[r].n \in Int /\ ptr \in Int /\ len \in Int
      <4>1. reader[r].count \in Counts /\ reader[r].n \in Int
        BY <1>0
      <4>2. Counts \subseteq Int
        BY DEF ReadHypotheses
      <4>3. ptr \in Int /\ len \in Int
        BY DEF ReadTypeOK
      <4>4. QED  BY <4>1, <4>2, <4>3
    <3>2. QED  BY <3>1 DEF Copied, device_read, Least
  <2>2. temp' \in Int /\ ptr' \in Int
    BY <1>6, <2>1 DEF FinishRead, ReadTypeOK
  <2>3. finished' \in BOOLEAN
    BY <1>6, Zenon DEF FinishRead, ReadTypeOK
  <2>4. reader' \in [Readers -> Rd]
    <3>1. CASE reader' = [reader EXCEPT ![r].at = "end"]
      BY <1>0, <3>1
    <3>2. ASSUME NEW g \in Int, NEW e \in BOOLEAN,
                 reader' = [reader EXCEPT ![r].at = "ready", ![r].n = 0, ![r].got = g,
                                          ![r].exact = e]
          PROVE  reader' \in [Readers -> Rd]
      <4>1. reader[r] \in Rd
        BY <1>0
      <4>2. [reader[r] EXCEPT !.at = "ready", !.n = 0, !.got = g, !.exact = e] \in Rd
        BY <4>1, RecordAfterRead
      <4>3. reader' = [reader EXCEPT ![r] =
                         [reader[r] EXCEPT !.at = "ready", !.n = 0, !.got = g, !.exact = e]]
        BY <1>0, <3>2
      <4>4. QED  BY <1>0, <4>2, <4>3
    <3>3. reader[r].got + k \in Int
      BY <1>0
    <3>4. ASSUME k # 0
          PROVE  \E e \in BOOLEAN :
                   reader' = [reader EXCEPT ![r].at = "ready", ![r].n = 0,
                                            ![r].got = reader[r].got + k, ![r].exact = e]
      BY <1>6, <2>1, <3>4, Zenon DEF FinishRead
    <3>5. ASSUME k = 0 PROVE reader' = [reader EXCEPT ![r].at = "end"]
      BY <1>6, <2>1, <3>5, Zenon DEF FinishRead, Close
    <3>6. QED  BY <3>1, <3>2, <3>3, <3>4, <3>5
  <2>5. UNCHANGED <<driver, len, tidy>>
    BY <1>6 DEF FinishRead
  <2>6. QED  BY <2>2, <2>3, <2>4, <2>5 DEF ReadTypeOK
<1>7. CASE UNCHANGED readVars
  BY <1>7 DEF readVars, ReadTypeOK
<1>8. QED  BY <1>1, <1>2, <1>3, <1>4, <1>5, <1>6, <1>7 DEF ReadNext

\* A step of one reader, while no other is inside, keeps the invariant if the
\* position fits what the reader has got.
LEMMA OneReader ==
  ASSUME NEW r \in Readers, NEW nr, InTurn, ReadsWholeMessage, tidy,
         reader \in [Readers -> [at : {"new", "opening", "ready", "reading", "end", "left"},
                       count : Counts, want : Nat, n : Int, got : Int, exact : BOOLEAN]],
         reader' = [reader EXCEPT ![r] = nr], driver' = driver,
         \A s \in Readers : s \in Inside => s = r,
         nr.at \in {"new", "opening"} => nr.got = 0 /\ nr.exact,
         nr.at = "end" => /\ nr.got = nr.want
                          /\ nr.exact \/ (driver = "procfs_m" /\ nr.count < nr.want),
         nr.at \notin {"opening", "ready", "reading"} =>
           (driver = "procfs" => ~finished') /\ (driver = "procfs_m" => temp' = len'),
         nr.at \in {"opening", "ready", "reading"} =>
           /\ nr.want = len'
           /\ driver = "procfs" => ProcfsPosition(nr)'
           /\ driver = "procfs_m" => ProcfsMPosition(nr)'
           /\ driver = "chardev" => ChardevPosition(nr)'
  PROVE  InTurn' /\ Position' /\ ReadsWholeMessage'
<1>1. reader'[r] = nr /\ \A s \in Readers : s # r => reader'[s] = reader[s]
  OBVIOUS
<1>2. \A s \in Readers : s \in Inside' => s = r
  BY <1>1 DEF Inside
<1>3. r \in Inside' <=> nr.at \in {"opening", "ready", "reading"}
  BY <1>1 DEF Inside
<1>4. InTurn'
  <2>1. \A q, s \in Readers : q \in Inside' /\ s \in Inside' => q = s
    BY <1>2
  <2>2. Inside' = {} => (driver' = "procfs" => ~finished') /\ (driver' = "procfs_m" => temp' = len')
    BY <1>3
  <2>3. ASSUME NEW s \in Readers, reader'[s].at \in {"new", "opening"}
        PROVE  reader'[s].got = 0 /\ reader'[s].exact
    <3>1. CASE s = r
      BY <1>1, <2>3, <3>1
    <3>2. CASE s # r
      BY <1>1, <2>3, <3>2 DEF InTurn
    <3>3. QED  BY <3>1, <3>2
  <2>4. QED  BY <2>1, <2>2, <2>3 DEF InTurn
<1>5. Position'
  <2> SUFFICES ASSUME NEW s \in Inside'
               PROVE  /\ reader'[s].want = len'
                      /\ driver' = "procfs" => ProcfsPosition(reader[s])'
                      /\ driver' = "procfs_m" => ProcfsMPosition(reader[s])'
                      /\ driver' = "chardev" => ChardevPosition(reader[s])'
    BY DEF Position
  <2>1. s = r
    BY <1>2 DEF Inside
  <2>2. reader'[s] = nr /\ nr.at \in {"opening", "ready", "reading"}
    BY <1>1, <1>3, <2>1
  <2>3. QED
    BY <2>2 DEF ProcfsPosition, ProcfsMPosition, ChardevPosition, procfile_read, read_proc, Least
<1>6. ReadsWholeMessage'
  <2> SUFFICES ASSUME NEW s \in Readers, reader'[s].at = "end"
               PROVE  /\ reader'[s].got = reader'[s].want
                      /\ reader'[s].exact \/ (driver' = "procfs_m" /\ reader'[s].count < reader'[s].want)
    BY DEF ReadsWholeMessage
  <2>1. CASE s = r
    BY <1>1, <2>1
  <2>2. CASE s # r
    BY <1>1, <2>2 DEF ReadsWholeMessage
  <2>3. QED  BY <2>1, <2>2
<1>7. QED  BY <1>4, <1>5, <1>6

\* Every step keeps the invariant.
LEMMA ReadInvStep == ReadHypotheses /\ ReadInv /\ [ReadNext]_readVars => ReadInv'
<1> SUFFICES ASSUME ReadHypotheses, ReadInv, [ReadNext]_readVars PROVE ReadInv'
  OBVIOUS
<1> DEFINE Rd == [at : {"new", "opening", "ready", "reading", "end", "left"},
                  count : Counts, want : Nat, n : Int, got : Int, exact : BOOLEAN]
<1>1. ReadTypeOK /\ ReadTypeOK'
  BY ReadTypeStep DEF ReadInv
<1>2. SUFFICES ASSUME tidy' PROVE InTurn' /\ Position' /\ ReadsWholeMessage'
  BY <1>1 DEF ReadInv
<1>3. tidy
  BY <1>2 DEF ReadNext, readVars, write_proc, OpenForRead, device_open, BeginRead, FinishRead, LeaveEarly
<1>4. InTurn /\ Position /\ ReadsWholeMessage
  BY <1>3 DEF ReadInv
<1>5. reader \in [Readers -> Rd]
  BY <1>1 DEF ReadTypeOK
<1>6. ASSUME NEW r \in Readers
      PROVE  reader[r].count \in Nat /\ reader[r].count > 0
  <2>1. reader[r].count \in Counts
    BY <1>5
  <2>2. \A c \in Counts : c \in Nat /\ c > 0
    BY DEF ReadHypotheses
  <2>3. QED  BY <2>1, <2>2
<1>7. CASE write_proc
  <2>1. Inside = {} /\ Inside' = {}
    BY <1>2, <1>7 DEF write_proc, Inside
  <2>2. temp' = len' /\ driver = "procfs_m" /\ driver' = driver /\ reader' = reader
    BY <1>7 DEF write_proc
  <2>3. InTurn'
    BY <1>4, <2>1, <2>2 DEF InTurn
  <2>4. Position'
    BY <2>1 DEF Position
  <2>5. ReadsWholeMessage'
    BY <1>3, <1>4, <2>2 DEF ReadsWholeMessage
  <2>6. QED  BY <2>3, <2>4, <2>5
<1>8. ASSUME NEW r \in Readers, OpenForRead(r) PROVE InTurn' /\ Position' /\ ReadsWholeMessage'
  <2>1. Inside = {} /\ reader[r].at = "new" /\ driver' = driver
    BY <1>2, <1>8 DEF OpenForRead
  <2>2. PICK nr : nr = [reader[r] EXCEPT !.at = IF driver = "chardev" THEN "opening" ELSE "ready",
                                        !.want = len]
    OBVIOUS
  <2>3. reader' = [reader EXCEPT ![r] = nr]
    BY <1>5, <1>8, <2>2 DEF OpenForRead
  <2>4. reader[r].got = 0 /\ reader[r].exact
    BY <1>4, <2>1 DEF InTurn
  <2>5. /\ nr.at = IF driver = "chardev" THEN "opening" ELSE "ready"
        /\ nr.want = len /\ nr.got = 0 /\ nr.exact
    BY <1>5, <2>2, <2>4
  <2>6. finished' = finished /\ temp' = temp /\ len' = len
    BY <1>8 DEF OpenForRead
  <2>7. driver = "procfs" => ProcfsPosition(nr)'
    BY <1>4, <2>1, <2>5, <2>6 DEF InTurn, ProcfsPosition
  <2>8. driver = "procfs_m" => ProcfsMPosition(nr)'
    BY <1>1, <1>4, <2>1, <2>5, <2>6 DEF InTurn, ProcfsMPosition, ReadTypeOK
  <2>9. driver = "chardev" => ChardevPosition(nr)'
    BY <2>5 DEF ChardevPosition
  <2>10. QED
    BY <1>3, <1>4, <1>5, <2>1, <2>3, <2>5, <2>6, <2>7, <2>8, <2>9, OneReader
<1>9. ASSUME NEW r \in Readers, r \in Inside PROVE \A s \in Readers : s \in Inside => s = r
  BY <1>4, <1>9 DEF InTurn
<1>10. ASSUME NEW r \in Readers, device_open(r) PROVE InTurn' /\ Position' /\ ReadsWholeMessage'
  <2>1. r \in Inside /\ reader[r].at = "opening" /\ driver' = driver
    BY <1>10 DEF device_open, Inside
  <2>2. PICK nr : nr = [reader[r] EXCEPT !.at = "ready"]
    OBVIOUS
  <2>3. reader' = [reader EXCEPT ![r] = nr]
    BY <1>5, <1>10, <2>2 DEF device_open
  <2>4. reader[r].got = 0 /\ reader[r].exact /\ reader[r].want = len
    BY <1>4, <2>1 DEF InTurn, Position
  <2>5. nr.at = "ready" /\ nr.want = len /\ nr.got = 0 /\ nr.exact /\ nr.count = reader[r].count
    BY <1>5, <2>2, <2>4
  <2>6. finished' = finished /\ temp' = temp /\ len' = len /\ ptr' = 0
    BY <1>10 DEF device_open
  <2>7. driver = "procfs" => ProcfsPosition(nr)'
    BY <1>4, <2>1, <2>4, <2>5, <2>6 DEF Position, ProcfsPosition
  <2>8. driver = "procfs_m" => ProcfsMPosition(nr)'
    BY <1>4, <2>1, <2>4, <2>5, <2>6 DEF Position, ProcfsMPosition
  <2>9. driver = "chardev" => ChardevPosition(nr)'
    BY <1>1, <2>5, <2>6 DEF ChardevPosition, ReadTypeOK
  <2>10. QED
    BY <1>3, <1>4, <1>5, <1>9, <2>1, <2>3, <2>5, <2>6, <2>7, <2>8, <2>9, OneReader
<1>11. ASSUME NEW r \in Readers, LeaveEarly(r) PROVE InTurn' /\ Position' /\ ReadsWholeMessage'
  <2>1. r \in Inside /\ driver = "chardev" /\ driver' = driver
    BY <1>2, <1>11 DEF LeaveEarly, Inside
  <2>2. PICK nr : nr = [reader[r] EXCEPT !.at = "left"]
    OBVIOUS
  <2>3. reader' = [reader EXCEPT ![r] = nr]
    BY <1>5, <1>11, <2>2 DEF LeaveEarly, Close
  <2>4. nr.at = "left"
    BY <1>5, <2>2
  <2>5. QED  BY <1>3, <1>4, <1>5, <1>9, <2>1, <2>3, <2>4, OneReader
<1>12. ASSUME NEW r \in Readers, BeginRead(r) PROVE InTurn' /\ Position' /\ ReadsWholeMessage'
  <2>1. r \in Inside /\ reader[r].at = "ready" /\ driver' = driver
    BY <1>12 DEF BeginRead, Inside
  <2>2. PICK k : k = CASE driver = "procfs"   -> procfile_read
                       [] driver = "procfs_m" -> read_proc(reader[r].count)
                       [] driver = "chardev"  -> 0
    OBVIOUS
  <2>3. PICK nr : nr = [reader[r] EXCEPT !.at = "reading", !.n = k]
    OBVIOUS
  <2>4. reader' = [reader EXCEPT ![r] = nr]
    <3>1. reader' = [reader EXCEPT ![r].at = "reading", ![r].n = k]
      BY <1>12, <2>2, Zenon DEF BeginRead
    <3>2. QED  BY <1>5, <2>3, <3>1
  <2>5. /\ nr.at = "reading" /\ nr.want = reader[r].want /\ nr.got = reader[r].got
        /\ nr.count = reader[r].count /\ nr.n = k
    BY <1>5, <2>3
  <2>6. nr.exact = reader[r].exact
    BY <1>5, <2>3
  <2>7. finished' = finished /\ temp' = temp /\ len' = len /\ ptr' = ptr
    BY <1>12 DEF BeginRead
  <2>8. driver = "procfs" => ProcfsPosition(nr)'
    BY <1>4, <2>1, <2>2, <2>5, <2>6, <2>7 DEF Position, ProcfsPosition, procfile_read
  <2>9. driver = "procfs_m" => ProcfsMPosition(nr)'
    BY <1>4, <2>1, <2>2, <2>5, <2>6, <2>7 DEF Position, ProcfsMPosition, read_proc, Least
  <2>10. driver = "chardev" => ChardevPosition(nr)'
    BY <1>4, <2>1, <2>5, <2>6, <2>7 DEF Position, ChardevPosition
  <2>11. nr.want = len'
    BY <1>4, <2>1, <2>5, <2>7 DEF Position
  <2>12. QED
    BY <1>3, <1>4, <1>5, <1>9, <2>1, <2>4, <2>5, <2>8, <2>9, <2>10, <2>11, OneReader
<1>13. ASSUME NEW r \in Readers, FinishRead(r) PROVE InTurn' /\ Position' /\ ReadsWholeMessage'
  <2>1. r \in Inside /\ reader[r].at = "reading" /\ driver' = driver /\ len' = len
    BY <1>13 DEF FinishRead, Inside
  <2>2. PICK k : k = Copied(r)
    OBVIOUS
  <2>3. PICK f : f = IF driver = "chardev" THEN ptr ELSE 0
    OBVIOUS
  <2>4. PICK e \in BOOLEAN : e = (reader[r].exact /\ f = reader[r].got)
    BY Zenon
  <2>5. /\ reader[r].want = len
        /\ driver = "procfs" => ProcfsPosition(reader[r])
        /\ driver = "procfs_m" => ProcfsMPosition(reader[r])
        /\ driver = "chardev" => ChardevPosition(reader[r])
    BY <1>4, <2>1 DEF Position
  <2>6. CASE k = 0
    <3>1. PICK nr : nr = [reader[r] EXCEPT !.at = "end"]
      OBVIOUS
    <3>2. reader' = [reader EXCEPT ![r] = nr]
      BY <1>5, <1>13, <2>2, <2>6, <3>1 DEF FinishRead, Close
    <3>3. /\ nr.at = "end" /\ nr.want = reader[r].want /\ nr.got = reader[r].got
          /\ nr.count = reader[r].count
      BY <1>5, <3>1
    <3>4. nr.exact = reader[r].exact
      BY <1>5, <3>1
    <3>5. CASE driver = "procfs"
      <4>1. ~finished'
        BY <1>13, <2>2, <2>6, <3>5, Zenon DEF FinishRead
      <4>2. procfile_read = 0
        BY <2>1, <2>2, <2>5, <2>6, <3>5 DEF Copied, ProcfsPosition
      <4>3. nr.got = nr.want /\ nr.exact
        BY <2>5, <3>3, <3>4, <3>5, <4>2 DEF procfile_read, ProcfsPosition
      <4>4. QED
        BY <1>3, <1>4, <1>5, <1>9, <2>1, <3>2, <3>3, <3>5, <4>1, <4>3, OneReader
    <3>6. CASE driver = "procfs_m"
      <4>1. temp' = len'
        BY <1>13, <2>1, <2>2, <2>6, <3>6 DEF FinishRead
      <4>2. temp = 0
        BY <1>6, <2>1, <2>2, <2>5, <2>6, <3>6 DEF Copied, ProcfsMPosition, read_proc, Least
      <4>3. nr.got = nr.want /\ (nr.exact \/ nr.count < nr.want)
        BY <1>1, <2>5, <3>3, <3>4, <3>6, <4>2 DEF ProcfsMPosition, ReadTypeOK
      <4>4. QED
        BY <1>3, <1>4, <1>5, <1>9, <2>1, <3>2, <3>3, <3>6, <4>1, <4>3, OneReader
    <3>7. CASE driver = "chardev"
      <4>1. ptr = len
        BY <1>1, <1>6, <2>1, <2>2, <2>5, <2>6, <3>7
           DEF Copied, ChardevPosition, device_read, Least, ReadTypeOK
      <4>2. nr.got = nr.want /\ nr.exact
        BY <2>1, <2>5, <3>3, <3>4, <3>7, <4>1 DEF ChardevPosition
      <4>3. QED
        BY <1>3, <1>4, <1>5, <1>9, <2>1, <3>2, <3>3, <3>7, <4>2, OneReader
    <3>8. QED  BY <1>1, <3>5, <3>6, <3>7 DEF ReadTypeOK
  <2>7. CASE k # 0
    <3>1. PICK g : g = reader[r].got + k
      OBVIOUS
    <3>2. PICK nr : nr = [reader[r] EXCEPT !.at = "ready", !.n = 0, !.got = g, !.exact = e]
      OBVIOUS
    <3>3. reader' = [reader EXCEPT ![r] = nr]
      <4>1. reader' = [reader EXCEPT ![r].at = "ready", ![r].n = 0, ![r].got = g, ![r].exact = e]
        BY <1>13, <2>2, <2>3, <2>4, <2>7, <3>1, Zenon DEF FinishRead
      <4>2. QED  BY <1>5, <3>2, <4>1
    <3>4. /\ nr.at = "ready" /\ nr.want = reader[r].want /\ nr.got = g
          /\ nr.count = reader[r].count
      BY <1>5, <3>2
    <3>5. nr.exact = e
      BY <1>5, <3>2
    <3>6. CASE driver = "procfs"
      <4>1. finished'
        BY <1>13, <2>2, <2>7, <3>6, Zenon DEF FinishRead
      <4>2. ~finished /\ k = len
        BY <2>1, <2>2, <2>5, <2>7, <3>6 DEF Copied, ProcfsPosition, procfile_read
      <4>3. reader[r].got = 0 /\ reader[r].exact
        BY <2>5, <3>6, <4>2 DEF ProcfsPosition
      <4>4. e
        BY <2>3, <2>4, <3>6, <4>3
      <4>5. g = len
        BY <1>1, <3>1, <4>2, <4>3 DEF ReadTypeOK
      <4>6. ProcfsPosition(nr)'
        BY <2>1, <3>4, <3>5, <4>1, <4>4, <4>5 DEF ProcfsPosition
      <4>7. QED
        BY <1>3, <1>4, <1>5, <1>9, <2>1, <2>5, <3>3, <3>4, <3>6, <4>6, OneReader
    <3>7. CASE driver = "procfs_m"
      <4>1. /\ temp' = temp - k /\ k = Least(reader[r].count, temp) /\ k \in Nat /\ k =< temp
            /\ temp \in Nat
        BY <1>6, <1>13, <2>1, <2>2, <2>5, <2>7, <3>7
           DEF FinishRead, Copied, ProcfsMPosition, read_proc, Least
      <4>2. temp' \in Nat /\ g \in Nat /\ g + temp' = len'
        BY <1>1, <2>1, <2>5, <3>1, <3>7, <4>1 DEF ProcfsMPosition, ReadTypeOK
      <4>3. reader[r].got = 0 /\ reader[r].exact => e
        BY <2>3, <2>4, <3>7
      <4>4. e \/ nr.count < len'
        <5>1. CASE reader[r].got = 0
          BY <2>1, <2>5, <3>4, <3>7, <4>3, <5>1 DEF ProcfsMPosition
        <5>2. CASE reader[r].got # 0
          BY <1>6, <2>1, <2>5, <2>7, <3>4, <3>7, <4>1, <5>2 DEF ProcfsMPosition, Least
        <5>3. QED  BY <5>1, <5>2
      <4>5. temp' = 0 \/ nr.count < len'
        BY <1>1, <1>6, <2>1, <2>5, <2>7, <3>4, <3>7, <4>1 DEF ProcfsMPosition, Least, ReadTypeOK
      <4>6. ProcfsMPosition(nr)'
        BY <3>4, <3>5, <4>2, <4>4, <4>5 DEF ProcfsMPosition
      <4>7. QED
        BY <1>3, <1>4, <1>5, <1>9, <2>1, <2>5, <3>3, <3>4, <3>7, <4>6, OneReader
    <3>8. CASE driver = "chardev"
      <4>1. ptr' = ptr + k /\ k = Least(reader[r].count, len - ptr)
        BY <1>13, <2>2, <3>8 DEF FinishRead, Copied, device_read
      <4>2. reader[r].exact /\ reader[r].got = ptr /\ ptr \in 0..len
        BY <2>1, <2>5, <3>8 DEF ChardevPosition
      <4>3. e
        BY <2>3, <2>4, <3>8, <4>2
      <4>4. g = ptr' /\ ptr' \in 0..len'
        BY <1>1, <1>6, <2>1, <3>1, <4>1, <4>2 DEF Least, ReadTypeOK
      <4>5. ChardevPosition(nr)'
        BY <3>4, <3>5, <4>3, <4>4 DEF ChardevPosition
      <4>6. QED
        BY <1>3, <1>4, <1>5, <1>9, <2>1, <2>5, <3>3, <3>4, <3>8, <4>5, OneReader
    <3>9. QED  BY <1>1, <3>6, <3>7, <3>8 DEF ReadTypeOK
  <2>8. QED  BY <2>6, <2>7
<1>14. CASE UNCHANGED readVars
  <2>1. InTurn'
    BY <1>4, <1>14 DEF InTurn, Inside, readVars
  <2>2. Position'
    BY <1>4, <1>14 DEF Position, Inside, readVars, ProcfsPosition, ProcfsMPosition,
                       ChardevPosition, procfile_read, read_proc, Least
  <2>3. ReadsWholeMessage'
    BY <1>3, <1>4, <1>14 DEF ReadsWholeMessage, readVars
  <2>4. QED  BY <2>1, <2>2, <2>3
<1>15. QED  BY <1>7, <1>8, <1>10, <1>11, <1>12, <1>13, <1>14 DEF ReadNext

\* Readers that follow one another, and read proc files to their end, get the whole
\* message of any of the three drivers, for any number of readers, any lengths and any
\* buffers that are not empty (procfs.c 40-56, procfs_m.c 13-27, chardev.c 83-156).
THEOREM MessagesWhole == ASSUME ReadHypotheses PROVE ReadSpec => []ReadsWholeMessage
<1>1. ReadInit => ReadInv
  BY ReadInvInit
<1>2. ReadInv /\ [ReadNext]_readVars => ReadInv'
  BY ReadInvStep
<1>3. ReadInv => ReadsWholeMessage
  BY DEF ReadInv, ReadsWholeMessage
<1>4. QED  BY <1>1, <1>2, <1>3, PTL DEF ReadSpec

-----------------------------------------------------------------------------
(* ioctl: the message of the character device *)

\* What the callers of the driver keep to: a message set is a string that fits,
\* a write fits, and a get asks for at least a full buffer.
CharHypotheses ==
  /\ \A m \in Msgs : m \in Seq(Chars) /\ Len(m) < BufLen
  /\ \A b \in Writes : b \in Seq(Byte) /\ Len(b) < BufLen
  /\ ReadLens \subseteq Nat
  /\ GetLen >= BufLen - 1

CharTypeOK ==
  /\ Message \in [1..BufLen -> Byte]
  /\ Message_Ptr \in 1..BufLen
  /\ pc \in [Procs -> {"closed", "load", "store", "idle", "closing", "write", "test", "copy"}]
  /\ bytes \in [Procs -> Seq(Byte)]
  /\ pos \in [Procs -> Nat]
  /\ left \in [Procs -> Nat]
  /\ got \in [Procs -> Seq(Chars)]
  /\ last \in [Procs -> {"none", "set", "write", "get", "read"}]
  /\ expected \in Seq(Chars)
  /\ claim \in [Procs -> [msg : Seq(Chars), unread : BOOLEAN]]

\* The buffer holds the string s.
IsString(buf, s) ==
  /\ Len(s) < BufLen
  /\ \A i \in 1..Len(s) : buf[i] = s[i]
  /\ buf[Len(s) + 1] = NUL

\* The bytes of a set: the string with its NUL, or, for an empty one, nothing, and
\* then the buffer keeps the message it had.
StringOrNothing(p) ==
  \/ claim[p].msg # <<>> /\ bytes[p] = Append(claim[p].msg, NUL)
  \/ claim[p].msg = <<>> /\ bytes[p] = <<>> /\ IsString(Message, expected)

\* The part of the message that is stored while a process writes it.
WriteSoFar(p) ==
  /\ pos[p] <= Len(bytes[p]) /\ Len(bytes[p]) <= BufLen
  /\ Len(bytes[p]) = BufLen => bytes[p][BufLen] = NUL
  /\ \A i \in 1..pos[p] : Message[i] = bytes[p][i]
  /\ last[p] \in {"set", "write"}
  /\ last[p] = "set" => StringOrNothing(p)

\* The piece of the message that a reader holds ends where the next byte is.
ReadSoFar(p) ==
  /\ claim[p].msg = expected
  /\ last[p] \in {"get", "read"}
  /\ Len(got[p]) < Message_Ptr
  /\ \A i \in 1..Len(got[p]) : got[p][i] = expected[Message_Ptr - 1 - Len(got[p]) + i]
  /\ claim[p].unread => Message_Ptr = Len(got[p]) + 1
  /\ pc[p] = "copy" => left[p] > 0 /\ Message[Message_Ptr] # NUL
  /\ last[p] = "get" => left[p] + Len(got[p]) = GetLen

\* When nobody writes, the buffer holds the message as a string, and the next
\* byte to read is in it.
Settled ==
  (\A p \in Procs : pc[p] # "write") =>
    IsString(Message, expected) /\ Message_Ptr <= Len(expected) + 1

CharInv ==
  /\ CharTypeOK
  /\ Message[BufLen] = NUL
  /\ Settled
  /\ \A p \in Procs : pc[p] = "write" => WriteSoFar(p)
  /\ \A p \in Procs : pc[p] \in {"test", "copy"} => ReadSoFar(p)
  /\ UnreadGetReturnsMessage

\* A set of natural numbers that is not empty has a least element.
LEMMA LeastElement ==
  ASSUME NEW T, T \subseteq Nat, T # {}
  PROVE  \E x \in T : \A y \in T : x <= y
<1>1. PICK R : /\ IsWellFoundedOn(R, Nat)
               /\ \A x, y \in Nat : y < x => <<y, x>> \in R
  <2>1. \A x, y \in Nat : y < x => <<y, x>> \in OpToRel(<, Nat)
    BY DEF OpToRel
  <2>2. QED  BY <2>1, NatLessThanWellFounded, Zenon
<1>2. PICK x \in T : \A y \in T : ~(<<y, x>> \in R)
  BY <1>1, WFMin
<1>3. \A y \in T : x <= y
  <2> SUFFICES ASSUME NEW y \in T PROVE ~(y < x)
    OBVIOUS
  <2>1. QED  BY <1>1, <1>2
<1>4. QED  BY <1>3

\* The bytes before the first NUL are the string a buffer that ends with one holds.
LEMMA StringInBuffer ==
  ASSUME NEW buf \in [1..BufLen -> Byte], buf[BufLen] = NUL
  PROVE  StringIn(buf) \in Seq(Chars) /\ IsString(buf, StringIn(buf))
<1> DEFINE ends == {i \in 1..BufLen : buf[i] = NUL}
           end  == CHOOSE i \in ends : \A j \in ends : i <= j
<1>1. BufLen \in ends /\ ends \subseteq Nat
  BY BufAssumption
<1>2. end \in ends /\ \A j \in ends : end <= j
  <2>1. \E i \in ends : \A j \in ends : i <= j
    BY <1>1, LeastElement
  <2>2. QED  BY <2>1
<1>3. StringIn(buf) = [i \in 1..(end - 1) |-> buf[i]]
  BY <1>1 DEF StringIn
<1> HIDE DEF end
<1>4. end \in 1..BufLen /\ buf[end] = NUL
  BY <1>2
<1>5. \A i \in 1..(end - 1) : buf[i] \in Chars
  <2> SUFFICES ASSUME NEW i \in 1..(end - 1) PROVE buf[i] \in Chars
    OBVIOUS
  <2>1. i \in 1..BufLen /\ i \notin ends
    BY <1>2, <1>4, BufAssumption
  <2>2. QED  BY <2>1 DEF Byte
<1>6. StringIn(buf) \in Seq(Chars) /\ Len(StringIn(buf)) = end - 1
  <2>1. end - 1 \in Nat
    BY <1>4
  <2>2. QED  BY <1>3, <1>5, <2>1
<1>7. IsString(buf, StringIn(buf))
  <2>1. Len(StringIn(buf)) < BufLen
    BY <1>4, <1>6, BufAssumption
  <2>2. \A i \in 1..Len(StringIn(buf)) : buf[i] = StringIn(buf)[i]
    BY <1>3, <1>6
  <2>3. buf[Len(StringIn(buf)) + 1] = NUL
    BY <1>4, <1>6
  <2>4. QED  BY <2>1, <2>2, <2>3 DEF IsString
<1>8. QED  BY <1>6, <1>7

\* The invariant holds when the module is loaded.
LEMMA CharInvInit == Init => CharInv
<1> SUFFICES ASSUME Init PROVE CharInv
  OBVIOUS
<1>1. CharTypeOK
  <2>1. <<>> \in Seq(Chars) /\ <<>> \in Seq(Byte)
    OBVIOUS
  <2>2. Message \in [1..BufLen -> Byte] /\ Message_Ptr \in 1..BufLen
    BY BufAssumption DEF Init, Byte
  <2>3. claim \in [Procs -> [msg : Seq(Chars), unread : BOOLEAN]]
    BY <2>1 DEF Init
  <2>4. QED  BY <2>1, <2>2, <2>3 DEF Init, CharTypeOK
<1>2. Message[BufLen] = NUL /\ Settled
  BY BufAssumption DEF Init, Settled, IsString
<1>3. \A p \in Procs : pc[p] = "closed"
  BY DEF Init
<1>4. QED  BY <1>1, <1>2, <1>3 DEF CharInv, UnreadGetReturnsMessage

\* Open and release touch neither the message nor what is read of it.
LEMMA CharInvOpen ==
  ASSUME CharInv, OneProcessAtATime, OneProcessAtATime', NEW p \in Procs, Open(p) \/ Release(p)
  PROVE  CharInv'
<1>1. /\ UNCHANGED <<Message, bytes, pos, left, got, expected, claim>>
      /\ pc[p] \in {"closed", "load", "store", "idle", "closing"}
      /\ \E at \in {"load", "store", "idle", "closing", "closed"} : pc' = [pc EXCEPT ![p] = at]
  BY DEF Open, Release, OpenCheck, OpenLoad, OpenStore, ReleaseLoad, ReleaseStore, bufVars
<1>2. CASE UNCHANGED <<last, Message_Ptr>> /\ (pc'[p] = "idle" => pc[p] = "idle")
  <2>1. CharTypeOK' /\ Message'[BufLen] = NUL
    BY <1>1, <1>2 DEF CharInv, CharTypeOK
  <2>2. \A q \in Procs : pc'[q] \in {"idle", "write", "test", "copy"} => pc[q] = pc'[q]
    BY <1>1, <1>2 DEF CharInv, CharTypeOK
  <2>3. Settled'
    <3>1. (\A q \in Procs : pc'[q] # "write") => \A q \in Procs : pc[q] # "write"
      BY <1>1 DEF CharInv, CharTypeOK
    <3>2. QED  BY <1>1, <1>2, <3>1 DEF CharInv, Settled
  <2>4. QED
    BY <1>1, <1>2, <2>1, <2>2, <2>3 DEF CharInv, WriteSoFar, StringOrNothing, ReadSoFar, UnreadGetReturnsMessage
<1>3. CASE OpenStore(p)
  <2>1. /\ pc' = [pc EXCEPT ![p] = "idle"] /\ last' = [last EXCEPT ![p] = "none"]
        /\ Message_Ptr' = 1 /\ pc[p] = "store"
    BY <1>3 DEF OpenStore
  <2>2. \A q \in Procs : q # p => pc'[q] \in {"closed", "load", "store"}
    BY <2>1 DEF OneProcessAtATime, CharInv, CharTypeOK
  <2>3. CharTypeOK'
    BY <1>1, <2>1, BufAssumption DEF CharInv, CharTypeOK
  <2>4. Settled'
    <3>1. \A q \in Procs : pc[q] # "write"
      BY <2>1, <2>2 DEF CharInv, CharTypeOK
    <3>2. QED  BY <1>1, <2>1, <3>1 DEF CharInv, CharTypeOK, Settled
  <2>5. UnreadGetReturnsMessage'
    BY <1>1, <2>1, <2>2 DEF CharInv, CharTypeOK, UnreadGetReturnsMessage
  <2>6. QED  BY <1>1, <2>1, <2>2, <2>3, <2>4, <2>5 DEF CharInv, CharTypeOK
<1>4. QED
  BY <1>2, <1>3 DEF Open, Release, OpenCheck, OpenLoad, ReleaseLoad, ReleaseStore, bufVars,
                    CharInv, CharTypeOK

\* While a process is in the driver, the others are outside.
LEMMA Alone ==
  ASSUME CharTypeOK, OneProcessAtATime, NEW p \in Procs,
         pc[p] \in {"idle", "closing", "write", "test", "copy"},
         NEW at \in {"idle", "closing", "write", "test", "copy"}, pc' = [pc EXCEPT ![p] = at]
  PROVE  /\ pc'[p] = at
         /\ \A q \in Procs : q # p => pc'[q] = pc[q] /\ pc[q] \in {"closed", "load", "store"}
BY DEF CharTypeOK, OneProcessAtATime

\* A write begins with nothing stored.
LEMMA CharInvStartWrite ==
  ASSUME CharHypotheses, CharInv, OneProcessAtATime, NEW p \in Procs,
         \/ \E m \in Msgs : SetMsg(p, m)
         \/ \E b \in Writes : Write(p, b)
  PROVE  CharInv'
<1>T. CharTypeOK /\ BufLen \in Nat
  BY BufAssumption DEF CharInv
<1> DEFINE Begun(what, b) ==
      /\ StartWrite(p, what, b) /\ expected' = expected
      /\ Len(b) <= BufLen /\ (Len(b) = BufLen => b[BufLen] = NUL)
      /\ claim' \in [Procs -> [msg : Seq(Chars), unread : BOOLEAN]]
      /\ what = "set" => \/ claim'[p].msg # <<>> /\ b = Append(claim'[p].msg, NUL)
                         \/ claim'[p].msg = <<>> /\ b = <<>>
<1>1. PICK what \in {"set", "write"}, b \in Seq(Byte) : Begun(what, b)
  <2>1. ASSUME NEW m \in Msgs, SetMsg(p, m)
        PROVE  \E what \in {"set", "write"}, b \in Seq(Byte) : Begun(what, b)
    <3>1. m \in Seq(Chars) /\ Len(m) < BufLen
      BY DEF CharHypotheses
    <3>2. /\ Append(m, NUL) \in Seq(Byte) /\ Len(Append(m, NUL)) = Len(m) + 1
          /\ Append(m, NUL)[Len(m) + 1] = NUL
      <4>1. m \in Seq(Byte) /\ NUL \in Byte
        BY <3>1 DEF Byte
      <4>2. QED  BY <4>1
    <3>3. CASE m = <<>>
      <4>1. SubSeq(Append(m, NUL), 1, SetMsgLen(m)) = <<>>
        BY <3>2, <3>3 DEF SetMsgLen
      <4>2. claim' = [claim EXCEPT ![p] = [msg |-> m, unread |-> FALSE]] /\ expected' = expected
        BY <2>1 DEF SetMsg
      <4>3. claim' \in [Procs -> [msg : Seq(Chars), unread : BOOLEAN]] /\ claim'[p].msg = m
        BY <1>T, <3>1, <4>2 DEF CharTypeOK
      <4>4. StartWrite(p, "set", <<>>)
        BY <2>1, <4>1 DEF SetMsg
      <4>5. Begun("set", <<>>)
        BY <1>T, <3>3, <4>2, <4>3, <4>4, BufAssumption
      <4>6. <<>> \in Seq(Byte)
        OBVIOUS
      <4>7. QED  BY <4>5, <4>6, Zenon
    <3>4. ASSUME m # <<>> PROVE SubSeq(Append(m, NUL), 1, SetMsgLen(m)) = Append(m, NUL)
      <4>1. SetMsgLen(m) = Len(m) + 1
        BY <1>T, <3>1, <3>4 DEF SetMsgLen
      <4>2. QED  BY <3>2, <4>1
    <3>5. claim' = [claim EXCEPT ![p] = [msg |-> m, unread |-> FALSE]] /\ expected' = expected
      BY <2>1 DEF SetMsg
    <3>6. claim' \in [Procs -> [msg : Seq(Chars), unread : BOOLEAN]] /\ claim'[p].msg = m
      BY <1>T, <3>1, <3>5 DEF CharTypeOK
    <3>7. m # <<>> => StartWrite(p, "set", Append(m, NUL))
      BY <2>1, <3>4 DEF SetMsg
    <3>8. m # <<>> => Begun("set", Append(m, NUL))
      BY <1>T, <3>1, <3>2, <3>5, <3>6, <3>7
    <3>9. QED  BY <3>2, <3>3, <3>8
  <2>2. ASSUME NEW b \in Writes, Write(p, b)
        PROVE  \E what \in {"set", "write"}, c \in Seq(Byte) : Begun(what, c)
    <3>1. b \in Seq(Byte) /\ Len(b) < BufLen
      BY DEF CharHypotheses
    <3>2. SubSeq(b, 1, IF Len(b) < BufLen THEN Len(b) ELSE BufLen) = b
      BY <3>1
    <3>3. StartWrite(p, "write", b) /\ UNCHANGED <<expected, claim>>
      BY <2>2, <3>2 DEF Write
    <3>4. Begun("write", b)
      BY <1>T, <3>1, <3>3 DEF CharTypeOK
    <3>5. QED  BY <3>1, <3>4
  <2>3. QED  BY <2>1, <2>2
<1>2. /\ pc[p] = "idle" /\ pc' = [pc EXCEPT ![p] = "write"]
      /\ bytes' = [bytes EXCEPT ![p] = b] /\ pos' = [pos EXCEPT ![p] = 0]
      /\ last' = [last EXCEPT ![p] = what]
      /\ UNCHANGED <<Message, Message_Ptr, left, got, expected>>
  BY <1>1 DEF StartWrite
<1>3. pc'[p] = "write" /\ \A q \in Procs : q # p => pc'[q] \in {"closed", "load", "store"}
  BY <1>T, <1>2, Alone DEF CharInv
<1>4. CharTypeOK'
  BY <1>T, <1>1, <1>2 DEF CharTypeOK
<1>5. WriteSoFar(p)'
  <2>1. bytes'[p] = b /\ pos'[p] = 0 /\ last'[p] = what
    BY <1>T, <1>2 DEF CharTypeOK
  <2>2. IsString(Message, expected)
    <3>1. \A q \in Procs : pc[q] # "write"
      BY <1>T, <1>2, Alone
    <3>2. QED  BY <3>1 DEF CharInv, Settled
  <2>3. what = "set" => StringOrNothing(p)'
    BY <1>1, <1>2, <2>1, <2>2 DEF StringOrNothing, IsString
  <2>4. QED  BY <1>1, <2>1, <2>3 DEF WriteSoFar
<1>6. QED
  BY <1>2, <1>3, <1>4, <1>5 DEF CharInv, Settled, UnreadGetReturnsMessage

\* A byte is stored in the buffer, and never over the NUL that ends it.
LEMMA CharInvWriteByte ==
  ASSUME CharInv, OneProcessAtATime, NEW p \in Procs, WriteByte(p)
  PROVE  CharInv'
<1>T. CharTypeOK /\ BufLen \in Nat \ {0} /\ Message[BufLen] = NUL
  BY BufAssumption DEF CharInv
<1>1. WriteSoFar(p) /\ pc[p] = "write" /\ bytes[p] \in Seq(Byte) /\ pos[p] \in Nat
  BY <1>T DEF CharInv, CharTypeOK, WriteByte
<1>2. \A q \in Procs : q # p => pc[q] \in {"closed", "load", "store"}
  BY <1>T, <1>1 DEF CharInv, CharTypeOK, OneProcessAtATime
<1>3. /\ pos[p] < Len(bytes[p]) /\ pos[p] + 1 \in 1..BufLen
      /\ Message' = [Message EXCEPT ![pos[p] + 1] = bytes[p][pos[p] + 1]]
      /\ pos' = [pos EXCEPT ![p] = pos[p] + 1]
      /\ UNCHANGED <<Message_Ptr, pc, bytes, left, got, last, expected, claim>>
  BY <1>T, <1>1 DEF WriteByte, WriteSoFar
<1>4. bytes[p][pos[p] + 1] \in Byte
  BY <1>1, <1>3
<1>5. CharTypeOK'
  BY <1>T, <1>1, <1>3, <1>4 DEF CharTypeOK
<1>6. Message'[BufLen] = NUL
  <2>1. CASE pos[p] + 1 = BufLen
    BY <1>T, <1>1, <1>3, <2>1 DEF WriteSoFar, CharTypeOK
  <2>2. CASE pos[p] + 1 # BufLen
    BY <1>T, <1>3, <2>2 DEF CharTypeOK
  <2>3. QED  BY <2>1, <2>2
<1>7. WriteSoFar(p)'
  <2>1. pos'[p] = pos[p] + 1
    BY <1>T, <1>3 DEF CharTypeOK
  <2>2. ASSUME NEW i \in 1..(pos[p] + 1) PROVE Message'[i] = bytes[p][i]
    <3>1. Message \in [1..BufLen -> Byte] /\ i \in 1..BufLen
      BY <1>T, <1>1, <1>3 DEF CharTypeOK
    <3>2. CASE i = pos[p] + 1
      BY <1>3, <3>1, <3>2
    <3>3. CASE i # pos[p] + 1
      <4>1. i \in 1..pos[p] /\ Message'[i] = Message[i]
        BY <1>1, <1>3, <3>1, <3>3
      <4>2. QED  BY <1>1, <4>1 DEF WriteSoFar
    <3>4. QED  BY <3>2, <3>3
  <2>3. last[p] = "set" => StringOrNothing(p)'
    BY <1>1, <1>3 DEF WriteSoFar, StringOrNothing
  <2>4. QED  BY <1>1, <1>3, <2>1, <2>2, <2>3 DEF WriteSoFar
<1>8. QED
  BY <1>1, <1>2, <1>3, <1>5, <1>6, <1>7 DEF CharInv, Settled, UnreadGetReturnsMessage

\* At the end of a write the buffer holds the new message.
LEMMA CharInvWriteEnd ==
  ASSUME CharInv, OneProcessAtATime, NEW p \in Procs, WriteEnd(p)
  PROVE  CharInv'
<1>T. CharTypeOK /\ BufLen \in Nat \ {0} /\ Message[BufLen] = NUL
  BY BufAssumption DEF CharInv
<1>1. /\ WriteSoFar(p) /\ pc[p] = "write" /\ pos[p] = Len(bytes[p]) /\ claim[p].msg \in Seq(Chars)
      /\ Message_Ptr' = 1 /\ pc' = [pc EXCEPT ![p] = "idle"]
      /\ UNCHANGED <<Message, bytes, pos, left, got, last, claim>>
      /\ expected' = NewMessage(p)
  BY <1>T DEF CharInv, CharTypeOK, WriteEnd
<1>2. pc'[p] = "idle" /\ \A q \in Procs : q # p => pc'[q] \in {"closed", "load", "store"}
  BY <1>T, <1>1, Alone
<1>3. expected' \in Seq(Chars) /\ IsString(Message, expected')
  <2>0. CASE last[p] = "set" /\ claim[p].msg = <<>>
    <3>1. expected' = expected /\ IsString(Message, expected)
      BY <1>1, <2>0 DEF NewMessage, WriteSoFar, StringOrNothing
    <3>2. QED  BY <1>T, <3>1 DEF CharTypeOK
  <2>1. CASE last[p] = "set" /\ claim[p].msg # <<>>
    <3>1. bytes[p] = Append(claim[p].msg, NUL) /\ expected' = claim[p].msg
      BY <1>1, <2>1 DEF NewMessage, WriteSoFar, StringOrNothing
    <3>2. /\ Len(bytes[p]) = Len(claim[p].msg) + 1
          /\ bytes[p][Len(claim[p].msg) + 1] = NUL
          /\ \A i \in 1..Len(claim[p].msg) : bytes[p][i] = claim[p].msg[i]
      BY <1>1, <3>1
    <3>3. \A i \in 1..(Len(claim[p].msg) + 1) : Message[i] = bytes[p][i]
      BY <1>1, <3>2 DEF WriteSoFar
    <3>4. Len(claim[p].msg) < BufLen /\ Len(claim[p].msg) \in Nat
      BY <1>T, <1>1, <3>2 DEF WriteSoFar
    <3>5. /\ \A i \in 1..Len(claim[p].msg) : Message[i] = claim[p].msg[i]
          /\ Message[Len(claim[p].msg) + 1] = NUL
      BY <3>2, <3>3, <3>4, SMTT(30)
    <3>6. QED  BY <1>1, <3>1, <3>4, <3>5 DEF IsString
  <2>2. CASE last[p] # "set"
    <3>1. expected' = StringIn(Message) /\ Message \in [1..BufLen -> Byte]
      BY <1>T, <1>1, <2>2 DEF CharTypeOK, NewMessage
    <3>2. QED  BY <1>T, <3>1, StringInBuffer
  <2>3. QED  BY <2>0, <2>1, <2>2
<1>4. CharTypeOK'
  BY <1>T, <1>1, <1>3 DEF CharTypeOK
<1>5. Settled'
  <2>1. 1 <= Len(expected') + 1
    BY <1>3
  <2>2. QED  BY <1>1, <1>3, <2>1 DEF Settled
<1>6. UnreadGetReturnsMessage'
  BY <1>1, <1>2 DEF UnreadGetReturnsMessage, WriteSoFar
<1>7. QED  BY <1>T, <1>1, <1>2, <1>4, <1>5, <1>6 DEF CharInv

\* A read begins with nothing in the reader's hands.
LEMMA CharInvStartRead ==
  ASSUME CharHypotheses, CharInv, OneProcessAtATime, NEW p \in Procs,
         GetMsg(p) \/ \E n \in ReadLens : Read(p, n)
  PROVE  CharInv'
<1>T. CharTypeOK /\ GetLen \in Nat
  BY BufAssumption DEF CharInv
<1>1. PICK what \in {"get", "read"}, n \in Nat :
        StartRead(p, what, n) /\ (what = "get" => n = GetLen)
  BY <1>T DEF GetMsg, Read, CharHypotheses
<1>2. /\ pc[p] = "idle" /\ pc' = [pc EXCEPT ![p] = "test"]
      /\ left' = [left EXCEPT ![p] = n] /\ got' = [got EXCEPT ![p] = <<>>]
      /\ last' = [last EXCEPT ![p] = what]
      /\ claim' = [claim EXCEPT ![p] = [msg |-> expected, unread |-> Message_Ptr = 1]]
      /\ UNCHANGED <<Message, Message_Ptr, bytes, pos, expected>>
  BY <1>1 DEF StartRead
<1>3. /\ pc'[p] = "test"
      /\ \A q \in Procs : q # p => pc'[q] = pc[q] /\ pc'[q] \in {"closed", "load", "store"}
  BY <1>T, <1>2, Alone
<1>4. /\ left'[p] = n /\ got'[p] = <<>> /\ last'[p] = what
      /\ claim'[p].msg = expected /\ (claim'[p].unread => Message_Ptr = 1)
  BY <1>T, <1>2 DEF CharTypeOK
<1>5. CharTypeOK'
  <2>1. [msg |-> expected, unread |-> Message_Ptr = 1] \in [msg : Seq(Chars), unread : BOOLEAN]
    BY <1>T DEF CharTypeOK
  <2>2. <<>> \in Seq(Chars)
    OBVIOUS
  <2>3. QED  BY <1>T, <1>2, <2>1, <2>2 DEF CharTypeOK
<1>6. ReadSoFar(p)'
  <2>1. Len(got'[p]) = 0 /\ Message_Ptr \in 1..BufLen
    BY <1>T, <1>4 DEF CharTypeOK
  <2>2. Message_Ptr' = Message_Ptr /\ expected' = expected
    BY <1>2
  <2>3. \A i \in 1..Len(got'[p]) : FALSE
    BY <2>1
  <2>4. last'[p] = "get" => left'[p] + Len(got'[p]) = GetLen
    BY <1>T, <1>1, <1>4, <2>1
  <2>5. Len(got'[p]) < Message_Ptr' /\ (claim'[p].unread => Message_Ptr' = Len(got'[p]) + 1)
    BY <1>4, <2>1, <2>2, BufAssumption
  <2>6. QED  BY <1>3, <1>4, <2>2, <2>3, <2>4, <2>5 DEF ReadSoFar
<1>7. Settled'
  <2>1. \A q \in Procs : pc[q] # "write"
    BY <1>2, <1>3
  <2>2. QED  BY <1>2, <2>1 DEF CharInv, Settled
<1>8. QED
  BY <1>2, <1>3, <1>5, <1>6, <1>7 DEF CharInv, UnreadGetReturnsMessage

\* Where the next byte to read is while a process reads: in the message or at its end.
LEMMA NextByte ==
  ASSUME CharInv, OneProcessAtATime, NEW p \in Procs, pc[p] \in {"test", "copy"}
  PROVE  /\ IsString(Message, expected) /\ Message_Ptr \in 1..(Len(expected) + 1)
         /\ Message_Ptr \in 1..BufLen /\ ReadSoFar(p)
         /\ Message[Message_Ptr] = NUL => Message_Ptr = Len(expected) + 1
         /\ Message[Message_Ptr] # NUL =>
              Message_Ptr \in 1..Len(expected) /\ Message[Message_Ptr] = expected[Message_Ptr]
         /\ \A b : Fetch(b) => b = Message[Message_Ptr]
<1>T. CharTypeOK /\ BufLen \in Nat /\ expected \in Seq(Chars) /\ Message_Ptr \in 1..BufLen
  BY BufAssumption DEF CharInv, CharTypeOK
<1>1. \A q \in Procs : pc[q] # "write"
  BY <1>T DEF CharTypeOK, OneProcessAtATime
<1>2. IsString(Message, expected) /\ Message_Ptr \in 1..(Len(expected) + 1) /\ ReadSoFar(p)
  BY <1>T, <1>1 DEF CharInv, Settled
<1>3. ASSUME Message_Ptr # Len(expected) + 1
      PROVE  /\ Message_Ptr \in 1..Len(expected) /\ Message[Message_Ptr] = expected[Message_Ptr]
             /\ Message[Message_Ptr] # NUL
  <2>1. Message_Ptr \in 1..Len(expected)
    BY <1>T, <1>2, <1>3
  <2>2. expected[Message_Ptr] \in Chars
    BY <1>T, <2>1
  <2>3. QED  BY <1>2, <2>1, <2>2, CharAssumption DEF IsString
<1>4. Message_Ptr = Len(expected) + 1 => Message[Message_Ptr] = NUL
  BY <1>2 DEF IsString
<1>5. \A b : Fetch(b) => b = Message[Message_Ptr]
  BY <1>T DEF Fetch
<1>6. QED  BY <1>T, <1>2, <1>3, <1>4, <1>5

\* The loop's test: when it ends a get of an unread message, the whole message has
\* been copied.
LEMMA CharInvReadTest ==
  ASSUME CharHypotheses, CharInv, OneProcessAtATime, NEW p \in Procs, ReadTest(p)
  PROVE  CharInv'
<1>T. CharTypeOK /\ BufLen \in Nat /\ GetLen \in Nat
  BY BufAssumption DEF CharInv
<1>1. pc[p] = "test" /\ UNCHANGED <<Message, Message_Ptr, bytes, pos, left, got, last, expected, claim>>
  BY DEF ReadTest, bufVars
<1>2. /\ IsString(Message, expected) /\ Message_Ptr \in 1..(Len(expected) + 1) /\ ReadSoFar(p)
      /\ Message[Message_Ptr] = NUL => Message_Ptr = Len(expected) + 1
      /\ pc' = [pc EXCEPT ![p] = IF left[p] > 0 /\ Message[Message_Ptr] # NUL
                                 THEN "copy" ELSE "idle"]
  BY <1>1, NextByte DEF ReadTest
<1>3. PICK at \in {"copy", "idle"} :
        /\ pc' = [pc EXCEPT ![p] = at]
        /\ at = "copy" => left[p] > 0 /\ Message[Message_Ptr] # NUL
        /\ at = "idle" => ~(left[p] > 0) \/ Message[Message_Ptr] = NUL
  BY <1>2
<1>4. /\ pc'[p] = at
      /\ \A q \in Procs : q # p => pc'[q] = pc[q] /\ pc'[q] \in {"closed", "load", "store"}
  BY <1>T, <1>1, <1>3, Alone
<1>5. CharTypeOK' /\ Settled' /\ Message'[BufLen] = NUL
  <2>1. \A q \in Procs : pc[q] # "write"
    BY <1>1, <1>4
  <2>2. QED  BY <1>1, <1>3, <2>1 DEF CharInv, CharTypeOK, Settled
<1>6. at = "copy" => ReadSoFar(p)'
  BY <1>1, <1>2, <1>3 DEF ReadSoFar
<1>7. ASSUME at = "idle", last[p] = "get", claim[p].unread PROVE got[p] = claim[p].msg
  <2>1. /\ got[p] \in Seq(Chars) /\ expected \in Seq(Chars) /\ left[p] \in Nat
        /\ Len(got[p]) \in Nat /\ Len(expected) \in Nat
    BY <1>T DEF CharTypeOK
  <2>2. /\ Message_Ptr = Len(got[p]) + 1 /\ left[p] + Len(got[p]) = GetLen
        /\ claim[p].msg = expected
        /\ \A i \in 1..Len(got[p]) : got[p][i] = expected[Message_Ptr - 1 - Len(got[p]) + i]
    BY <1>2, <1>7 DEF ReadSoFar
  <2>3. Len(got[p]) = Len(expected)
    <3>1. CASE Message[Message_Ptr] = NUL
      BY <1>2, <2>1, <2>2, <3>1
    <3>2. CASE Message[Message_Ptr] # NUL
      <4>1. Len(got[p]) = GetLen
        BY <1>3, <1>7, <2>1, <2>2, <3>2
      <4>2. Len(expected) <= BufLen - 1
        BY <1>T, <1>2, <2>1 DEF IsString
      <4>3. QED  BY <1>T, <1>2, <2>1, <2>2, <4>1, <4>2 DEF CharHypotheses
    <3>3. QED  BY <3>1, <3>2
  <2>4. \A i \in 1..Len(got[p]) : got[p][i] = expected[i]
    BY <2>1, <2>2
  <2>5. QED  BY <2>1, <2>2, <2>3, <2>4
<1>8. UnreadGetReturnsMessage'
  BY <1>1, <1>4, <1>7 DEF UnreadGetReturnsMessage
<1>9. QED  BY <1>4, <1>5, <1>6, <1>8 DEF CharInv

\* A byte is copied: the piece the reader holds grows by the message's next one.
LEMMA CharInvReadCopy ==
  ASSUME CharInv, OneProcessAtATime, NEW p \in Procs, ReadCopy(p)
  PROVE  CharInv'
<1>T. CharTypeOK /\ BufLen \in Nat /\ expected \in Seq(Chars) /\ got[p] \in Seq(Chars)
  BY BufAssumption DEF CharInv, CharTypeOK
<1>1. /\ pc[p] = "copy" /\ pc' = [pc EXCEPT ![p] = "test"]
      /\ Message_Ptr' = Message_Ptr + 1 /\ left' = [left EXCEPT ![p] = left[p] - 1]
      /\ UNCHANGED <<Message, bytes, pos, last, expected, claim>>
  BY DEF ReadCopy
<1>2. /\ IsString(Message, expected) /\ ReadSoFar(p)
      /\ got' = [got EXCEPT ![p] = Append(got[p], Message[Message_Ptr])]
  BY <1>1, NextByte DEF ReadCopy
<1>3. /\ Message_Ptr \in 1..Len(expected) /\ Message[Message_Ptr] = expected[Message_Ptr]
      /\ left[p] \in Nat /\ left[p] > 0
  <2>1. Message[Message_Ptr] # NUL /\ left[p] > 0
    BY <1>1, <1>2 DEF ReadSoFar
  <2>2. QED  BY <1>T, <1>1, <2>1, NextByte DEF CharTypeOK
<1>4. /\ pc'[p] = "test"
      /\ \A q \in Procs : q # p => pc'[q] = pc[q] /\ pc'[q] \in {"closed", "load", "store"}
  BY <1>T, <1>1, Alone
<1>5. Len(expected) \in Nat /\ Len(expected) < BufLen
  BY <1>T, <1>2 DEF IsString
<1>6. expected[Message_Ptr] \in Chars /\ Message_Ptr + 1 \in 1..BufLen
  BY <1>T, <1>3, <1>5
<1>7. Append(got[p], Message[Message_Ptr]) \in Seq(Chars)
  BY <1>T, <1>3, <1>6
<1>8. CharTypeOK'
  BY <1>T, <1>1, <1>2, <1>3, <1>6, <1>7, SMTT(30) DEF CharTypeOK
<1>9. Settled' /\ Message'[BufLen] = NUL
  <2>1. Message_Ptr + 1 <= Len(expected) + 1
    BY <1>3, <1>5
  <2>2. QED  BY <1>1, <1>2, <2>1 DEF CharInv, Settled
<1>10. ReadSoFar(p)'
  <2>1. /\ got'[p] = Append(got[p], expected[Message_Ptr]) /\ left'[p] = left[p] - 1
    BY <1>T, <1>1, <1>2, <1>3 DEF CharTypeOK
  <2>2. /\ Len(got[p]) \in Nat /\ Len(got'[p]) = Len(got[p]) + 1
        /\ \A i \in 1..Len(got[p]) : got'[p][i] = got[p][i]
        /\ got'[p][Len(got[p]) + 1] = expected[Message_Ptr]
    BY <1>T, <2>1
  <2>3. ASSUME NEW i \in 1..Len(got'[p])
        PROVE  got'[p][i] = expected[Message_Ptr' - 1 - Len(got'[p]) + i]
    <3>1. Message_Ptr' - 1 - Len(got'[p]) + i = Message_Ptr - 1 - Len(got[p]) + i
      BY <1>1, <1>3, <2>2
    <3>2. CASE i = Len(got[p]) + 1
      <4>1. Message_Ptr - 1 - Len(got[p]) + i = Message_Ptr
        BY <1>3, <2>2, <3>2
      <4>2. QED  BY <2>2, <3>1, <3>2, <4>1
    <3>3. CASE i # Len(got[p]) + 1
      <4>1. i \in 1..Len(got[p])
        BY <2>2, <3>3
      <4>2. QED  BY <1>2, <2>2, <3>1, <4>1 DEF ReadSoFar
    <3>4. QED  BY <3>2, <3>3
  <2>4. Len(got'[p]) < Message_Ptr' /\ (claim[p].unread => Message_Ptr' = Len(got'[p]) + 1)
    BY <1>1, <1>2, <1>3, <2>2 DEF ReadSoFar
  <2>5. last[p] = "get" => left'[p] + Len(got'[p]) = GetLen
    <3>1. last[p] = "get" => left[p] + Len(got[p]) = GetLen
      BY <1>2 DEF ReadSoFar
    <3>2. left'[p] = left[p] - 1 /\ Len(got'[p]) = Len(got[p]) + 1
      BY <2>1, <2>2
    <3>3. left[p] \in Nat /\ Len(got[p]) \in Nat
      BY <1>3, <2>2
    <3>4. \A a, b \in Nat : (a - 1) + (b + 1) = a + b
      BY ONLY SMT
    <3>5. (left[p] - 1) + (Len(got[p]) + 1) = left[p] + Len(got[p])
      BY ONLY <3>3, <3>4, Zenon
    <3>6. QED  BY <3>1, <3>2, <3>5, Zenon
  <2>6. QED  BY <1>1, <1>2, <1>4, <2>3, <2>4, <2>5 DEF ReadSoFar
<1>11. QED  BY <1>4, <1>8, <1>9, <1>10 DEF CharInv, UnreadGetReturnsMessage

\* Every step preserves the invariant as long as processes use the device in turn.
LEMMA CharInvStep ==
  CharHypotheses /\ CharInv /\ OneProcessAtATime /\ OneProcessAtATime' /\ [Next]_vars => CharInv'
<1> SUFFICES ASSUME CharHypotheses, CharInv, OneProcessAtATime, OneProcessAtATime', [Next]_vars
             PROVE  CharInv'
  OBVIOUS
<1>1. CASE UNCHANGED vars
  BY <1>1 DEF CharInv, CharTypeOK, Settled, WriteSoFar, StringOrNothing, ReadSoFar,
              UnreadGetReturnsMessage, vars
<1>2. ASSUME NEW p \in Procs, Open(p) \/ Release(p) PROVE CharInv'
  BY <1>2, CharInvOpen
<1>3. ASSUME NEW p \in Procs, \/ \E m \in Msgs : SetMsg(p, m)
                              \/ \E b \in Writes : Write(p, b)
      PROVE  CharInv'
  BY <1>3, CharInvStartWrite
<1>4. ASSUME NEW p \in Procs, GetMsg(p) \/ \E n \in ReadLens : Read(p, n) PROVE CharInv'
  BY <1>4, CharInvStartRead
<1>5. QED
  BY <1>1, <1>2, <1>3, <1>4, CharInvWriteByte, CharInvWriteEnd, CharInvReadTest, CharInvReadCopy
  DEF Next

\* For buffers of any length, any strings that fit and any number of processes
\* that use the device one after the other: a get of a message that is unread
\* returns the last message set that was not empty (chardev.c 173-203).
THEOREM GetsWhatWasSet ==
  ASSUME CharHypotheses
  PROVE  Spec /\ []OneProcessAtATime => []UnreadGetReturnsMessage
<1>1. CharInv => UnreadGetReturnsMessage
  BY DEF CharInv
<1>2. CharInv /\ OneProcessAtATime /\ OneProcessAtATime' /\ [Next]_vars => CharInv'
  BY CharInvStep
<1>3. QED  BY CharInvInit, <1>1, <1>2, PTL DEF Spec

\* Under the same conditions a reader is given characters of the message only, and
\* Message_Ptr never leaves the buffer (chardev.c 95-113).
THEOREM ReadsInside ==
  ASSUME CharHypotheses
  PROVE  Spec /\ []OneProcessAtATime => []ReadStaysInMessage
<1>1. CharInv => ReadStaysInMessage
  BY CharAssumption, BufAssumption DEF CharInv, CharTypeOK, ReadStaysInMessage
<1>2. CharInv /\ OneProcessAtATime /\ OneProcessAtATime' /\ [Next]_vars => CharInv'
  BY CharInvStep
<1>3. QED  BY CharInvInit, <1>1, <1>2, PTL DEF Spec
=============================================================================
