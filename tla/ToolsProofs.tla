------------------------- MODULE ToolsProofs -------------------------
(***************************************************************************)
(* Proofs about the allocator and the sniffer.                             *)
(*                                                                         *)
(* The allocator, for heaps, headers and requests of any size: the chunks  *)
(* are described by the sequence of their addresses: n chunks start at     *)
(* e[1], ..., e[n], and e[n + 1] is the break.  Each call of malloc and    *)
(* free makes such a sequence of another.                                  *)
(*                                                                         *)
(* The checksum, for blocks of any length and bytes of any size: sums of   *)
(* words of either byte order are B times each other modulo Word - 1, so   *)
(* their folded complements are the same bytes, exchanged.                 *)
(*                                                                         *)
(* The sniffer, for packets with any data: what it calls valid, and which  *)
(* packets it prints.                                                      *)
(***************************************************************************)
EXTENDS HeapAllocator, Sniffer, FiniteSetTheorems, SequenceTheorems, WellFoundedInduction, TLAPS

Header == [size : Nat, stat : {0, 1}, mp_next : Int, mp_prev : Int]

\* The i-th node of the list whose chunks are e[1] to e[n].
Node(e, n, i) == IF i = 0 THEN mem_head ELSE IF i <= n THEN e[i] ELSE mem_tail

\* The addresses ascend, with room for a header between them.
Ascending(e, n) ==
  /\ n \in Nat /\ e \in [1..(n + 1) -> Nat] /\ e[1] = 2 * H
  /\ \A i, j \in 1..(n + 1) : i < j => e[i] + H <= e[j]

Addresses(e, n) == {mem_head, mem_tail} \cup {e[i] : i \in 1..n}

\* The headers h are those of the chunks, and sizes and links agree with the
\* addresses.
Tiles(h, e, n) ==
  /\ DOMAIN h = Addresses(e, n)
  /\ h \in [DOMAIN h -> Header]
  /\ \A i \in 1..n : e[i + 1] = e[i] + H + h[e[i]].size

Linked(h, e, n) ==
  \A i \in 0..n : /\ h[Node(e, n, i)].mp_next = Node(e, n, i + 1)
                  /\ h[Node(e, n, i + 1)].mp_prev = Node(e, n, i)

\* free gives the break back, so the last chunk is in use.
LastInUse(h, e, n) == n > 0 => h[e[n]].stat = 1

Chain(h, b, e, n) ==
  Ascending(e, n) /\ e[n + 1] = b /\ Tiles(h, e, n) /\ Linked(h, e, n) /\ LastInUse(h, e, n)

\* The chunks in use are those the program holds, each large enough.
Held(h, l) ==
  /\ DOMAIN l = {a + H : a \in {x \in DOMAIN h \ {mem_head, mem_tail} : h[x].stat # 0}}
  /\ \A p \in DOMAIN l : h[p - H].size >= l[p]

\* The headers are those of some list that tiles the heap.
Listed(h, b) == \E n \in Nat : \E e \in [1..(n + 1) -> Nat] : Chain(h, b, e, n)

HeapInv ==
  /\ Listed(hdr, brk)
  /\ Held(hdr, live)
  /\ crashed # "list"

-----------------------------------------------------------------------------
(* Natural numbers *)

\* A set of natural numbers that is not empty has a least element.
LEMMA LeastElement ==
  ASSUME NEW T, T \subseteq Nat, T # {}
  PROVE  \E x \in T : \A y \in T : x <= y
<1>1. PICK R : /\ IsWellFoundedOn(R, Nat)
               /\ \A x, y \in Nat : y < x => <<y, x>> \in R
  <2>1. \A x, y \in Nat : y < x => <<y, x>> \in OpToRel(<, Nat)
    BY DEF OpToRel
  <2>2. QED  BY <2>1, NatLessThanWellFounded, Zenon
<1>2. PICK x \in T : \A y \in T : ~(<<y, x>> \in R)
  BY <1>1, WFMin
<1>3. \A y \in T : x <= y
  <2> SUFFICES ASSUME NEW y \in T PROVE ~(y < x)
    OBVIOUS
  <2>1. QED  BY <1>1, <1>2
<1>4. QED  BY <1>3

\* A set that contains 0 and the successor of each of its natural numbers contains
\* every natural number.
LEMMA SetInduction ==
  ASSUME NEW S, 0 \in S, \A n \in Nat : n \in S => n + 1 \in S
  PROVE  Nat \subseteq S
<1> SUFFICES ASSUME NEW n \in Nat, n \notin S PROVE FALSE
  OBVIOUS
<1>1. PICK m \in Nat \ S : \A k \in Nat \ S : m <= k
  BY LeastElement
<1>2. m # 0 /\ m - 1 \in Nat /\ m - 1 \in S
  BY <1>1
<1>3. QED  BY <1>2

\* Rounding up to a multiple of 8 keeps what was asked for.
LEMMA RoundUp == \A n \in Nat : Round(n) \in Nat /\ Round(n) >= n
BY DEF Round

-----------------------------------------------------------------------------
(* The list and the addresses *)

\* Chunks lie beyond the sentinels, and no two at one address.
LEMMA Apart ==
  ASSUME NEW e, NEW n, Ascending(e, n)
  PROVE  /\ H \in Nat /\ H > 0 /\ n \in Nat
         /\ \A i \in 1..(n + 1) : e[i] \in Nat /\ e[i] >= 2 * H /\ e[i] # mem_head /\ e[i] # mem_tail
         /\ \A i, j \in 1..(n + 1) : e[i] = e[j] => i = j
<1>1. H \in Nat /\ H > 0 /\ n \in Nat
  BY SizeAssumption DEF Ascending
<1>2. \A i \in 1..(n + 1) : e[i] \in Nat /\ e[i] >= 2 * H
  <2> SUFFICES ASSUME NEW i \in 1..(n + 1) PROVE e[i] \in Nat /\ e[i] >= 2 * H
    OBVIOUS
  <2>1. e[i] \in Nat /\ 1 \in 1..(n + 1) /\ e[1] = 2 * H
    BY <1>1 DEF Ascending
  <2>2. CASE i = 1
    BY <1>1, <2>1, <2>2
  <2>3. CASE i # 1
    <3>1. e[1] + H <= e[i]
      BY <1>1, <2>1, <2>3 DEF Ascending
    <3>2. QED  BY <1>1, <2>1, <3>1
  <2>4. QED  BY <2>2, <2>3
<1>3. \A i \in 1..(n + 1) : e[i] # mem_head /\ e[i] # mem_tail
  BY <1>1, <1>2 DEF mem_head, mem_tail
<1>4. ASSUME NEW i \in 1..(n + 1), NEW j \in 1..(n + 1), e[i] = e[j] PROVE i = j
  <2>1. ~(i < j) /\ ~(j < i)
    BY <1>1, <1>2, <1>4 DEF Ascending
  <2>2. QED  BY <1>1, <2>1
<1>5. QED  BY <1>1, <1>2, <1>3, <1>4

\* The nodes of the list: the sentinels' and the chunks' headers, none twice.
LEMMA Nodes ==
  ASSUME NEW h, NEW e, NEW n, Ascending(e, n), Tiles(h, e, n)
  PROVE  /\ \A i \in 0..(n + 1) : Node(e, n, i) \in DOMAIN h
         /\ \A i, j \in 0..(n + 1) : Node(e, n, i) = Node(e, n, j) => i = j
         /\ \A a \in DOMAIN h : \E i \in 0..(n + 1) : a = Node(e, n, i)
         /\ \A i \in 1..n : Node(e, n, i) = e[i]
         /\ Node(e, n, 0) = mem_head
         /\ \A i \in Nat : i > n => Node(e, n, i) = mem_tail
<1>1. n \in Nat /\ mem_head # mem_tail
  BY Apart DEF mem_head, mem_tail
<1>2. /\ Node(e, n, 0) = mem_head
      /\ \A i \in Nat : i > n => Node(e, n, i) = mem_tail
      /\ \A i \in 1..n : Node(e, n, i) = e[i]
  BY <1>1 DEF Node
<1>3. \A i \in 0..(n + 1) : i = 0 \/ i \in 1..n \/ i = n + 1
  BY <1>1
<1>4. Node(e, n, n + 1) = mem_tail
  BY <1>1, <1>2
<1>5. \A i \in 0..(n + 1) : Node(e, n, i) \in DOMAIN h
  BY <1>2, <1>3, <1>4 DEF Tiles, Addresses
<1>6. \A a \in DOMAIN h : \E i \in 0..(n + 1) : a = Node(e, n, i)
  <2> SUFFICES ASSUME NEW a \in DOMAIN h PROVE \E i \in 0..(n + 1) : a = Node(e, n, i)
    OBVIOUS
  <2>1. 0 \in 0..(n + 1) /\ n + 1 \in 0..(n + 1) /\ \A i \in 1..n : i \in 0..(n + 1)
    BY <1>1
  <2>2. a = mem_head \/ a = mem_tail \/ \E i \in 1..n : a = e[i]
    BY DEF Tiles, Addresses
  <2>3. QED  BY <1>2, <1>4, <2>1, <2>2
<1>7. ASSUME NEW i \in 0..(n + 1), NEW j \in 0..(n + 1), Node(e, n, i) = Node(e, n, j)
      PROVE  i = j
  <2>1. \A k \in 1..n : k \in 1..(n + 1)
    BY <1>1
  <2>2. \A k \in 1..n : e[k] # mem_head /\ e[k] # mem_tail
    BY <2>1, Apart
  <2>3. \A k, m \in 1..n : e[k] = e[m] => k = m
    BY <2>1, Apart
  <2>4. QED  BY <1>1, <1>2, <1>3, <1>4, <1>7, <2>2, <2>3
<1>8. QED  BY <1>2, <1>5, <1>6, <1>7

\* Following the links visits the chunks in the order of their addresses.
LEMMA NthChunk ==
  ASSUME NEW e, NEW n, Chain(hdr, brk, e, n)
  PROVE  \A i \in Nat : Nth[i] = Node(e, n, i)
<1> DEFINE Step(f) ==
      [i \in Nat |-> IF i = 0 THEN mem_head
                     ELSE LET before == f[i - 1]
                          IN  IF before = mem_tail THEN mem_tail ELSE hdr[before].mp_next]
           nodes == [i \in Nat |-> Node(e, n, i)]
<1>1. /\ n \in Nat /\ Linked(hdr, e, n) /\ Node(e, n, 0) = mem_head
      /\ \A i, j \in 0..(n + 1) : Node(e, n, i) = Node(e, n, j) => i = j
      /\ \A i \in Nat : i > n => Node(e, n, i) = mem_tail
  <2>1. n \in Nat /\ Ascending(e, n) /\ Tiles(hdr, e, n) /\ Linked(hdr, e, n)
    BY DEF Chain, Ascending
  <2>2. QED  BY <2>1, Nodes
<1>2. ASSUME NEW i \in Nat
      PROVE  /\ Node(e, n, i) = mem_tail => Node(e, n, i + 1) = mem_tail
             /\ Node(e, n, i) # mem_tail => hdr[Node(e, n, i)].mp_next = Node(e, n, i + 1)
  <2>1. CASE i \in 0..n
    <3>1. Node(e, n, i) # mem_tail
      BY <1>1, <2>1
    <3>2. QED  BY <1>1, <2>1, <3>1 DEF Linked
  <2>2. CASE i > n
    BY <1>1, <2>2
  <2>3. QED  BY <1>1, <2>1, <2>2
<1>3. nodes = Step(nodes)
  <2> SUFFICES ASSUME NEW i \in Nat PROVE nodes[i] = Step(nodes)[i]
    OBVIOUS
  <2>1. CASE i = 0
    BY <1>1, <2>1
  <2>2. CASE i # 0
    <3>1. i - 1 \in Nat /\ (i - 1) + 1 = i
      BY <2>2
    <3>2. /\ Node(e, n, i - 1) = mem_tail => Node(e, n, i) = mem_tail
          /\ Node(e, n, i - 1) # mem_tail => hdr[Node(e, n, i - 1)].mp_next = Node(e, n, i)
      BY <1>2, <3>1
    <3>3. QED  BY <2>2, <3>1, <3>2
  <2>3. QED  BY <2>1, <2>2
<1>4. Nth = Step(Nth)
  <2>1. Nth = CHOOSE f : f = Step(f)
    BY DEF Nth
  <2>2. \E f : f = Step(f)
    BY <1>3
  <2> HIDE DEF Step
  <2>3. QED  BY <2>1, <2>2
<1>5. Nth[0] = mem_head
  BY <1>4
<1>6. ASSUME NEW i \in Nat, Nth[i] = Node(e, n, i) PROVE Nth[i + 1] = Node(e, n, i + 1)
  <2>1. i + 1 \in Nat /\ i + 1 # 0 /\ (i + 1) - 1 = i
    OBVIOUS
  <2>2. Nth[i + 1] = IF Nth[i] = mem_tail THEN mem_tail ELSE hdr[Nth[i]].mp_next
    BY <1>4, <2>1
  <2>3. QED  BY <1>2, <1>6, <2>2
<1>7. Nat \subseteq {i \in Nat : Nth[i] = Node(e, n, i)}
  <2> DEFINE S == {i \in Nat : Nth[i] = Node(e, n, i)}
  <2>1. 0 \in S
    BY <1>1, <1>5
  <2>2. \A i \in Nat : i \in S => i + 1 \in S
    BY <1>6
  <2> HIDE DEF S
  <2>3. QED  BY <2>1, <2>2, SetInduction DEF S
<1>8. QED  BY <1>7

\* The list has n chunks.
LEMMA CountChunks ==
  ASSUME NEW e, NEW n, Chain(hdr, brk, e, n)
  PROVE  Count = n
<1> DEFINE f == [i \in 0..(n + 1) |-> Node(e, n, i)]
<1>1. n \in Nat /\ Ascending(e, n) /\ Tiles(hdr, e, n)
  BY DEF Chain, Ascending
<1>2. f \in Bijection(0..(n + 1), DOMAIN hdr)
  <2>1. f \in [0..(n + 1) -> DOMAIN hdr]
    BY <1>1, Nodes
  <2>2. \A i, j \in 0..(n + 1) : f[i] = f[j] => i = j
    BY <1>1, Nodes
  <2>3. \A a \in DOMAIN hdr : \E i \in 0..(n + 1) : f[i] = a
    BY <1>1, Nodes
  <2> HIDE DEF f
  <2>4. f \in Injection(0..(n + 1), DOMAIN hdr)
    BY <2>1, <2>2 DEF Injection, IsInjective
  <2>5. f \in Surjection(0..(n + 1), DOMAIN hdr)
    BY <2>1, <2>3 DEF Surjection
  <2>6. QED  BY <2>4, <2>5 DEF Bijection
<1>3. IsFiniteSet(0..(n + 1)) /\ Cardinality(0..(n + 1)) = n + 2
  BY <1>1, FS_Interval
<1>4. Cardinality(DOMAIN hdr) = n + 2
  BY <1>2, <1>3, FS_Bijection DEF ExistsBijection
<1>5. QED  BY <1>1, <1>4 DEF Count

\* The bytes of a run of chunks reach from its first address to the next chunk's.
LEMMA SpanOfRun ==
  ASSUME NEW e, NEW n, Chain(hdr, brk, e, n), NEW i \in 1..n, NEW j \in 1..n
  PROVE  i <= j + 1 => Span(i, j) = e[j + 1] - e[i]
<1> DEFINE Step(f) ==
      [k \in 0..Count |-> IF k = 0 THEN 0 ELSE f[k - 1] + hdr[Nth[k]].size + H]
           bytes == [k \in 0..n |-> e[k + 1] - e[1]]
<1>1. n \in Nat /\ H \in Nat /\ Count = n /\ e \in [1..(n + 1) -> Nat]
  BY CountChunks, SizeAssumption DEF Chain, Ascending
<1>2. \A k \in 1..n : Nth[k] = e[k] /\ hdr[e[k]].size \in Nat /\ e[k + 1] = e[k] + H + hdr[e[k]].size
  <2> SUFFICES ASSUME NEW k \in 1..n
               PROVE  /\ Nth[k] = e[k] /\ hdr[e[k]].size \in Nat
                      /\ e[k + 1] = e[k] + H + hdr[e[k]].size
    OBVIOUS
  <2>1. Nth[k] = e[k]
    <3>1. Nth[k] = Node(e, n, k)
      BY <1>1, NthChunk
    <3>2. Ascending(e, n) /\ Tiles(hdr, e, n)
      BY DEF Chain
    <3>3. QED  BY <3>1, <3>2, Nodes
  <2>2. hdr[e[k]] \in Header /\ e[k + 1] = e[k] + H + hdr[e[k]].size
    BY DEF Chain, Tiles, Addresses
  <2>3. QED  BY <2>1, <2>2 DEF Header
<1>3. bytes = Step(bytes)
  <2> SUFFICES ASSUME NEW k \in 0..n PROVE bytes[k] = Step(bytes)[k]
    BY <1>1
  <2>1. CASE k = 0
    BY <1>1, <2>1
  <2>2. CASE k # 0
    <3>1. k \in 1..n /\ k - 1 \in 0..n /\ (k - 1) + 1 = k /\ e[k] \in Nat /\ e[1] \in Nat
      BY <1>1, <2>2
    <3>2. Step(bytes)[k] = bytes[k - 1] + hdr[e[k]].size + H
      BY <1>1, <1>2, <2>2, <3>1
    <3>3. bytes[k - 1] = e[k] - e[1] /\ bytes[k] = e[k + 1] - e[1]
      BY <3>1
    <3>4. e[k + 1] = e[k] + H + hdr[e[k]].size /\ hdr[e[k]].size \in Nat
      BY <1>2, <3>1
    <3> HIDE DEF bytes, Step
    <3>5. H \in Nat
      BY <1>1
    <3>6. bytes[k] = bytes[k - 1] + hdr[e[k]].size + H
      BY <3>1, <3>3, <3>4, <3>5
    <3>7. QED  BY <3>2, <3>6
  <2>3. QED  BY <2>1, <2>2
<1>4. Total = Step(Total)
  <2>1. Total = CHOOSE f : f = Step(f)
    BY DEF Total
  <2>2. \E f : f = Step(f)
    BY <1>3
  <2> HIDE DEF Step
  <2>3. QED  BY <2>1, <2>2
<1>5. \A k \in Nat : k \in 0..n => Total[k] = e[k + 1] - e[1]
  <2> DEFINE S == {k \in Nat : k \in 0..n => Total[k] = e[k + 1] - e[1]}
  <2>1. 0 \in S
    BY <1>1, <1>4
  <2>2. ASSUME NEW k \in Nat, k \in S PROVE k + 1 \in S
    <3> SUFFICES ASSUME k + 1 \in 0..n PROVE Total[k + 1] = e[(k + 1) + 1] - e[1]
      OBVIOUS
    <3>1. k \in 0..n /\ k + 1 \in 1..n /\ (k + 1) - 1 = k /\ e[k + 1] \in Nat /\ e[1] \in Nat
      BY <1>1
    <3>2. Total[k] = e[k + 1] - e[1]
      BY <2>2, <3>1
    <3>3. Total[k + 1] = Total[k] + hdr[Nth[k + 1]].size + H
      BY <1>1, <1>4, <3>1
    <3>4. PICK m \in 1..n : m = k + 1
      BY <3>1
    <3>5. Total[m] = (e[m] - e[1]) + hdr[e[m]].size + H
      BY <1>2, <3>2, <3>3, <3>4
    <3>6. Total[m] = e[m + 1] - e[1]
      <4>1. /\ e[m + 1] = e[m] + H + hdr[e[m]].size
            /\ hdr[e[m]].size \in Nat /\ e[m] \in Nat /\ e[1] \in Nat
        BY <1>2, <3>1, <3>4
      <4>2. QED  BY <1>1, <3>5, <4>1
    <3>7. QED  BY <3>4, <3>6
  <2> HIDE DEF S
  <2>3. Nat \subseteq S
    BY <2>1, <2>2, SetInduction
  <2>4. QED  BY <2>3 DEF S
<1>6. ASSUME i <= j + 1 PROVE Span(i, j) = e[j + 1] - e[i]
  <2>1. i - 1 \in 0..n /\ j \in 0..n /\ (i - 1) + 1 = i /\ {e[1], e[i], e[j + 1]} \subseteq Nat
    BY <1>1
  <2>2. Total[j] = e[j + 1] - e[1] /\ Total[i - 1] = e[i] - e[1]
    BY <1>5, <2>1
  <2>3. QED  BY <2>1, <2>2 DEF Span
<1>7. QED  BY <1>6

\* What the model's operators read of the list.
LEMMA ReadList ==
  ASSUME NEW e, NEW n, Chain(hdr, brk, e, n)
  PROVE  /\ Count = n /\ n \in Nat /\ H \in Nat /\ H > 0
         /\ \A i \in 0..(n + 1) : Nth[i] = Node(e, n, i)
         /\ \A i \in 1..n : Nth[i] = e[i] /\ Node(e, n, i) = e[i]
         /\ Nth[0] = mem_head /\ Nth[n + 1] = mem_tail
         /\ \A i \in 1..n : IsFree(i) <=> hdr[e[i]].stat = 0
<1>1. Count = n /\ n \in Nat /\ H \in Nat /\ H > 0
  BY CountChunks, Apart DEF Chain
<1>2. \A i \in 0..(n + 1) : Nth[i] = Node(e, n, i)
  BY <1>1, NthChunk
<1>3. \A i \in 1..n : Nth[i] = e[i] /\ Node(e, n, i) = e[i]
  BY <1>1, <1>2, Nodes DEF Chain
<1>4. Nth[0] = mem_head /\ Nth[n + 1] = mem_tail
  BY <1>1, <1>2, Nodes DEF Chain
<1>5. QED  BY <1>1, <1>2, <1>3, <1>4 DEF IsFree

\* Nodes i + 1 to j leave the list: the others move up, and the links on both
\* sides of them are joined.
MovedUp(e, e2, n, i, j) ==
  \A k \in 0..(n - (j - i) + 1) :
    Node(e2, n - (j - i), k) = Node(e, n, IF k <= i THEN k ELSE k + (j - i))

Joined(h, h2, e, n, i, j) ==
  \A m \in 0..(n + 1) : m \notin (i + 1)..j =>
    /\ h2[Node(e, n, m)].mp_next = IF m = i THEN Node(e, n, j + 1) ELSE h[Node(e, n, m)].mp_next
    /\ h2[Node(e, n, m)].mp_prev = IF m = j + 1 THEN Node(e, n, i) ELSE h[Node(e, n, m)].mp_prev

\* The list is linked again.
LEMMA LinkRemove ==
  ASSUME NEW h, NEW e, NEW n \in Nat, Linked(h, e, n), NEW i \in 0..n, NEW j \in i..n,
         NEW h2, NEW e2, MovedUp(e, e2, n, i, j), Joined(h, h2, e, n, i, j)
  PROVE  Linked(h2, e2, n - (j - i))
<1> DEFINE n2 == n - (j - i)
           old(k) == IF k <= i THEN k ELSE k + (j - i)
<1>1. n2 \in Nat /\ \A k \in 0..(n2 + 1) : old(k) \in 0..(n + 1) /\ old(k) \notin (i + 1)..j
  OBVIOUS
<1>2. \A k \in 0..(n2 + 1) : Node(e2, n2, k) = Node(e, n, old(k))
  BY DEF MovedUp
<1>3. ASSUME NEW k \in 0..n2
      PROVE  /\ h2[Node(e2, n2, k)].mp_next = Node(e2, n2, k + 1)
             /\ h2[Node(e2, n2, k + 1)].mp_prev = Node(e2, n2, k)
  <2>1. k \in 0..(n2 + 1) /\ k + 1 \in 0..(n2 + 1)
    BY <1>1
  <2>2. /\ h2[Node(e, n, old(k))].mp_next =
             IF old(k) = i THEN Node(e, n, j + 1) ELSE h[Node(e, n, old(k))].mp_next
        /\ h2[Node(e, n, old(k + 1))].mp_prev =
             IF old(k + 1) = j + 1 THEN Node(e, n, i) ELSE h[Node(e, n, old(k + 1))].mp_prev
    BY <1>1, <2>1 DEF Joined
  <2>3. CASE k = i
    <3>1. old(k) = i /\ old(k + 1) = j + 1
      BY <2>3
    <3>2. QED  BY <1>2, <2>1, <2>2, <3>1
  <2>4. CASE k # i
    <3>1. old(k) # i /\ old(k + 1) # j + 1 /\ old(k + 1) = old(k) + 1 /\ old(k) \in 0..n
      BY <2>4
    <3>2. /\ h[Node(e, n, old(k))].mp_next = Node(e, n, old(k) + 1)
          /\ h[Node(e, n, old(k) + 1)].mp_prev = Node(e, n, old(k))
      BY <3>1 DEF Linked
    <3> HIDE DEF old, n2
    <3>3. QED  BY <1>2, <2>1, <2>2, <3>1, <3>2
  <2>5. QED  BY <2>3, <2>4
<1>4. QED  BY <1>3 DEF Linked

\* A node r joins the list after node i: the nodes behind it move down, and it is
\* linked with both its neighbours.
MovedDown(e, e2, n, i, r) ==
  \A k \in 0..(n + 2) :
    Node(e2, n + 1, k) = IF k = i + 1 THEN r ELSE Node(e, n, IF k <= i THEN k ELSE k - 1)

Inserted(h, h2, e, n, i, r) ==
  /\ h2[r].mp_next = Node(e, n, i + 1) /\ h2[r].mp_prev = Node(e, n, i)
  /\ \A m \in 0..(n + 1) :
       /\ h2[Node(e, n, m)].mp_next = IF m = i THEN r ELSE h[Node(e, n, m)].mp_next
       /\ h2[Node(e, n, m)].mp_prev = IF m = i + 1 THEN r ELSE h[Node(e, n, m)].mp_prev

\* The list is linked again.
LEMMA LinkInsert ==
  ASSUME NEW h, NEW e, NEW n \in Nat, Linked(h, e, n), NEW i \in 0..n,
         NEW h2, NEW e2, NEW r, MovedDown(e, e2, n, i, r), Inserted(h, h2, e, n, i, r)
  PROVE  Linked(h2, e2, n + 1)
<1> USE DEF MovedDown, Inserted
<1>1. ASSUME NEW k \in 0..(n + 1)
      PROVE  /\ h2[Node(e2, n + 1, k)].mp_next = Node(e2, n + 1, k + 1)
             /\ h2[Node(e2, n + 1, k + 1)].mp_prev = Node(e2, n + 1, k)
  <2>1. CASE k < i
    <3>1. Node(e2, n + 1, k) = Node(e, n, k) /\ Node(e2, n + 1, k + 1) = Node(e, n, k + 1)
      BY <2>1
    <3>2. /\ h[Node(e, n, k)].mp_next = Node(e, n, k + 1)
          /\ h[Node(e, n, k + 1)].mp_prev = Node(e, n, k)
      BY <2>1 DEF Linked
    <3>3. /\ h2[Node(e, n, k)].mp_next = h[Node(e, n, k)].mp_next
          /\ h2[Node(e, n, k + 1)].mp_prev = h[Node(e, n, k + 1)].mp_prev
      BY <2>1
    <3>4. QED  BY <3>1, <3>2, <3>3
  <2>2. CASE k = i
    <3>1. Node(e2, n + 1, k) = Node(e, n, i) /\ Node(e2, n + 1, k + 1) = r
      BY <2>2
    <3>2. QED  BY <3>1
  <2>3. CASE k = i + 1
    <3>1. Node(e2, n + 1, k) = r /\ Node(e2, n + 1, k + 1) = Node(e, n, i + 1)
      BY <2>3
    <3>2. QED  BY <3>1
  <2>4. CASE k > i + 1
    <3>1. PICK m \in 0..n : m = k - 1 /\ m > i
      BY <2>4
    <3>2. Node(e2, n + 1, k) = Node(e, n, m) /\ Node(e2, n + 1, k + 1) = Node(e, n, m + 1)
      BY <2>4, <3>1
    <3>3. /\ h[Node(e, n, m)].mp_next = Node(e, n, m + 1)
          /\ h[Node(e, n, m + 1)].mp_prev = Node(e, n, m)
      BY DEF Linked
    <3>4. /\ h2[Node(e, n, m)].mp_next = h[Node(e, n, m)].mp_next
          /\ h2[Node(e, n, m + 1)].mp_prev = h[Node(e, n, m + 1)].mp_prev
      BY <3>1
    <3>5. QED  BY <3>2, <3>3, <3>4
  <2>5. QED  BY <2>1, <2>2, <2>3, <2>4
<1>2. QED  BY <1>1 DEF Linked

\* The addresses in D are those of the nodes: of the sentinels and the chunks.
AtNodes(D, e, n) == \A a : a \in D <=> \E k \in 0..(n + 1) : a = Node(e, n, k)

\* Then they are the addresses of the list.
LEMMA NodeSet ==
  ASSUME NEW D, NEW e, NEW n \in Nat, AtNodes(D, e, n)
  PROVE  D = Addresses(e, n)
<1> SUFFICES ASSUME NEW a
             PROVE  (\E k \in 0..(n + 1) : a = Node(e, n, k))
                      <=> a \in {mem_head, mem_tail} \cup {e[k] : k \in 1..n}
  BY DEF Addresses, AtNodes
<1>1. /\ Node(e, n, 0) = mem_head /\ Node(e, n, n + 1) = mem_tail
      /\ \A k \in 1..n : Node(e, n, k) = e[k]
  BY DEF Node
<1>2. \A k \in 0..(n + 1) : k = 0 \/ k = n + 1 \/ k \in 1..n
  OBVIOUS
<1>3. 0 \in 0..(n + 1) /\ n + 1 \in 0..(n + 1) /\ \A k \in 1..n : k \in 0..(n + 1)
  OBVIOUS
<1>4. ASSUME NEW k \in 0..(n + 1), a = Node(e, n, k)
      PROVE  a \in {mem_head, mem_tail} \cup {e[m] : m \in 1..n}
  BY <1>1, <1>2, <1>4
<1>5. ASSUME a \in {mem_head, mem_tail} \cup {e[k] : k \in 1..n}
      PROVE  \E k \in 0..(n + 1) : a = Node(e, n, k)
  BY <1>1, <1>3, <1>5
<1>6. QED  BY <1>4, <1>5

\* Held, chunk by chunk.
LEMMA HeldChunks ==
  ASSUME NEW h, NEW l, NEW e, NEW n, Ascending(e, n), Tiles(h, e, n)
  PROVE  Held(h, l) <=>
           /\ \A p : p \in DOMAIN l <=> \E m \in 1..n : p = e[m] + H /\ h[e[m]].stat # 0
           /\ \A m \in 1..n : e[m] + H \in DOMAIN l => h[e[m]].size >= l[e[m] + H]
<1> DEFINE InUse == {a + H : a \in {x \in DOMAIN h \ {mem_head, mem_tail} : h[x].stat # 0}}
<1>1. /\ n \in Nat /\ H \in Nat
      /\ \A m \in 1..n : e[m] \in Nat /\ e[m] # mem_head /\ e[m] # mem_tail
      /\ \A m \in 1..n : (e[m] + H) - H = e[m]
  <2>1. n \in Nat /\ H \in Nat /\ \A m \in 1..n : m \in 1..(n + 1)
    BY Apart
  <2>2. \A m \in 1..n : e[m] \in Nat /\ e[m] # mem_head /\ e[m] # mem_tail
    BY <2>1, Apart
  <2>3. QED  BY <2>1, <2>2
<1>2. \A a : a \in DOMAIN h \ {mem_head, mem_tail} <=> \E m \in 1..n : a = e[m]
  BY <1>1 DEF Tiles, Addresses
<1>3. \A p : p \in InUse <=> \E m \in 1..n : p = e[m] + H /\ h[e[m]].stat # 0
  BY <1>2
<1>4. ASSUME Held(h, l)
      PROVE  /\ \A p : p \in DOMAIN l <=> \E m \in 1..n : p = e[m] + H /\ h[e[m]].stat # 0
             /\ \A m \in 1..n : e[m] + H \in DOMAIN l => h[e[m]].size >= l[e[m] + H]
  <2>1. DOMAIN l = InUse /\ \A p \in DOMAIN l : h[p - H].size >= l[p]
    BY <1>4 DEF Held
  <2>2. \A p : p \in DOMAIN l <=> \E m \in 1..n : p = e[m] + H /\ h[e[m]].stat # 0
    BY <1>3, <2>1
  <2>3. \A m \in 1..n : e[m] + H \in DOMAIN l => h[e[m]].size >= l[e[m] + H]
    BY <1>1, <2>1
  <2>4. QED  BY <2>2, <2>3
<1>5. ASSUME \A p : p \in DOMAIN l <=> \E m \in 1..n : p = e[m] + H /\ h[e[m]].stat # 0,
             \A m \in 1..n : e[m] + H \in DOMAIN l => h[e[m]].size >= l[e[m] + H]
      PROVE  Held(h, l)
  <2>1. DOMAIN l = InUse
    BY <1>3, <1>5
  <2>2. ASSUME NEW p \in DOMAIN l PROVE h[p - H].size >= l[p]
    <3>1. PICK m \in 1..n : p = e[m] + H
      BY <1>5
    <3>2. p - H = e[m]
      BY <1>1, <3>1
    <3>3. QED  BY <1>5, <3>1, <3>2
  <2>3. QED  BY <2>1, <2>2 DEF Held
<1>6. QED  BY <1>4, <1>5

-----------------------------------------------------------------------------
(* malloc *)

\* What a merged run of chunks leaves of the headers.
Merged(h2, e, n, i, j) ==
  /\ \A a : a \in DOMAIN h2 <=> \E m \in 0..(n + 1) : a = Node(e, n, m) /\ m \notin (i + 1)..j
  /\ \A m \in 0..(n + 1) : m \notin (i + 1)..j =>
       h2[Node(e, n, m)] =
         IF m = i THEN [hdr[e[i]] EXCEPT !.size = e[j + 1] - e[i] - H, !.stat = 1,
                                         !.mp_next = Node(e, n, j + 1)]
         ELSE IF m = j + 1 THEN [hdr[Node(e, n, m)] EXCEPT !.mp_prev = Node(e, n, i)]
         ELSE hdr[Node(e, n, m)]
  /\ h2 = [a \in DOMAIN h2 |-> h2[a]]

\* A run of free chunks ends before the last chunk, which is in use.
LEMMA MergeFields ==
  ASSUME NEW e, NEW n, Chain(hdr, brk, e, n), NEW i \in 1..n, NEW j \in i..n, AllFree(i, j)
  PROVE  j < n /\ Merged(Merge(i, j), e, n, i, j)
<1>1. /\ Count = n /\ n \in Nat
      /\ \A m \in 0..(n + 1) : Nth[m] = Node(e, n, m)
      /\ \A m \in 1..n : Node(e, n, m) = e[m] /\ (IsFree(m) <=> hdr[e[m]].stat = 0)
  BY ReadList
<1>2. j < n
  <2>1. IsFree(j) /\ j \in 1..n
    BY <1>1 DEF AllFree
  <2>2. hdr[e[j]].stat = 0 /\ hdr[e[n]].stat = 1
    BY <1>1, <2>1 DEF Chain, LastInUse
  <2>3. QED  BY <1>1, <2>2
<1>3. /\ \A k, m \in 0..(n + 1) : Node(e, n, k) = Node(e, n, m) => k = m
      /\ \A m \in 0..(n + 1) : Node(e, n, m) \in DOMAIN hdr
      /\ \A a \in DOMAIN hdr : \E m \in 0..(n + 1) : a = Node(e, n, m)
  BY Nodes DEF Chain
<1> DEFINE gone == {Nth[k] : k \in (i + 1)..j}
<1>4. /\ i \in 0..(n + 1) /\ j + 1 \in 0..(n + 1) /\ Nth[i] = Node(e, n, i)
      /\ Nth[j + 1] = Node(e, n, j + 1) /\ Node(e, n, i) = e[i]
      /\ \A k \in (i + 1)..j : k \in 0..(n + 1) /\ Nth[k] = Node(e, n, k)
  BY <1>1, <1>2
<1>5. \A m \in 0..(n + 1) : Node(e, n, m) \in gone <=> m \in (i + 1)..j
  BY <1>3, <1>4
<1>6. Merge(i, j) =
        [a \in DOMAIN hdr \ gone |->
           CASE a = Nth[i] ->
                  [hdr[a] EXCEPT !.size = Span(i, j) - H, !.stat = 1, !.mp_next = Nth[j + 1]]
             [] a = Nth[j + 1] -> [hdr[a] EXCEPT !.mp_prev = Nth[i]]
             [] OTHER -> hdr[a]]
  BY DEF Merge
<1>7. Span(i, j) = e[j + 1] - e[i]
  BY <1>1, SpanOfRun
<1> HIDE DEF gone
<1>8. \A a : a \in DOMAIN Merge(i, j) <=>
               \E m \in 0..(n + 1) : a = Node(e, n, m) /\ m \notin (i + 1)..j
  <2>1. DOMAIN Merge(i, j) = DOMAIN hdr \ gone
    BY <1>6
  <2>2. ASSUME NEW a \in DOMAIN hdr \ gone
        PROVE  \E m \in 0..(n + 1) : a = Node(e, n, m) /\ m \notin (i + 1)..j
    <3>1. PICK m \in 0..(n + 1) : a = Node(e, n, m)
      BY <1>3
    <3>2. QED  BY <1>5, <3>1
  <2>3. ASSUME NEW m \in 0..(n + 1), m \notin (i + 1)..j
        PROVE  Node(e, n, m) \in DOMAIN hdr \ gone
    BY <1>3, <1>5, <2>3
  <2>4. QED  BY <2>1, <2>2, <2>3
<1>9. ASSUME NEW m \in 0..(n + 1), m \notin (i + 1)..j
      PROVE  Merge(i, j)[Node(e, n, m)] =
               IF m = i THEN [hdr[e[i]] EXCEPT !.size = e[j + 1] - e[i] - H, !.stat = 1,
                                               !.mp_next = Node(e, n, j + 1)]
               ELSE IF m = j + 1 THEN [hdr[Node(e, n, m)] EXCEPT !.mp_prev = Node(e, n, i)]
               ELSE hdr[Node(e, n, m)]
  <2> DEFINE a == Node(e, n, m)
  <2>1. a \in DOMAIN hdr \ gone
    BY <1>3, <1>5, <1>9
  <2>2. (a = Nth[i] <=> m = i) /\ (a = Nth[j + 1] <=> m = j + 1) /\ i # j + 1
    BY <1>3, <1>4
  <2> HIDE DEF a
  <2>3. Merge(i, j)[a] =
          CASE a = Nth[i] ->
                 [hdr[a] EXCEPT !.size = Span(i, j) - H, !.stat = 1, !.mp_next = Nth[j + 1]]
            [] a = Nth[j + 1] -> [hdr[a] EXCEPT !.mp_prev = Nth[i]]
            [] OTHER -> hdr[a]
    BY <1>6, <2>1
  <2>4. CASE m = i
    <3>1. Merge(i, j)[a] = [hdr[a] EXCEPT !.size = Span(i, j) - H, !.stat = 1, !.mp_next = Nth[j + 1]]
      BY <2>2, <2>3, <2>4
    <3>2. a = e[i]
      BY <1>4, <2>2, <2>4
    <3>3. QED  BY <1>4, <1>7, <2>4, <3>1, <3>2 DEF a
  <2>5. CASE m # i /\ m = j + 1
    <3>1. Merge(i, j)[a] = [hdr[a] EXCEPT !.mp_prev = Nth[i]]
      BY <2>2, <2>3, <2>5
    <3>2. QED  BY <1>4, <2>5, <3>1 DEF a
  <2>6. CASE m # i /\ m # j + 1
    <3>1. Merge(i, j)[a] = hdr[a]
      BY <2>2, <2>3, <2>6
    <3>2. QED  BY <2>6, <3>1 DEF a
  <2>7. QED  BY <2>4, <2>5, <2>6
<1>10. Merge(i, j) = [a \in DOMAIN Merge(i, j) |-> Merge(i, j)[a]]
  <2> DEFINE G(a) ==
        CASE a = Nth[i] ->
               [hdr[a] EXCEPT !.size = Span(i, j) - H, !.stat = 1, !.mp_next = Nth[j + 1]]
          [] a = Nth[j + 1] -> [hdr[a] EXCEPT !.mp_prev = Nth[i]]
          [] OTHER -> hdr[a]
  <2>1. Merge(i, j) = [a \in DOMAIN hdr \ gone |-> G(a)]
    BY <1>6
  <2> HIDE DEF G
  <2>2. QED  BY <2>1
<1>11. QED  BY <1>2, <1>8, <1>9, <1>10 DEF Merged

\* A merged run is one chunk of a list that tiles the heap again.
MergeParts(h2, e, e2, n, n2, i, j) ==
  /\ Chain(h2, brk, e2, n2)
  /\ n2 \in Nat /\ i \in 1..n2 /\ i + 1 \in 1..n2
  /\ e2[i] = e[i] /\ e2[i + 1] = e[j + 1]
  /\ \A m \in 1..n : m \notin (i + 1)..j =>
       /\ h2[e[m]].size = IF m = i THEN e[j + 1] - e[i] - H ELSE hdr[e[m]].size
       /\ h2[e[m]].stat = IF m = i THEN 1 ELSE hdr[e[m]].stat

LEMMA MergeChain ==
  ASSUME NEW e, NEW n, Chain(hdr, brk, e, n), NEW i \in 1..n, NEW j \in i..n, AllFree(i, j),
         NEW h2, h2 = Merge(i, j), NEW n2, n2 = n - (j - i),
         NEW e2, e2 = [k \in 1..(n2 + 1) |-> IF k <= i THEN e[k] ELSE e[k + (j - i)]]
  PROVE  MergeParts(h2, e, e2, n, n2, i, j)
<1>1. /\ n \in Nat /\ H \in Nat /\ H > 0 /\ Ascending(e, n) /\ Tiles(hdr, e, n) /\ Linked(hdr, e, n)
      /\ e \in [1..(n + 1) -> Nat] /\ e[n + 1] = brk
      /\ \A m \in 1..n : Node(e, n, m) = e[m]
      /\ \A m \in 1..n : m \in 0..(n + 1)
  <2>1. /\ n \in Nat /\ H \in Nat /\ H > 0
        /\ \A m \in 1..n : Node(e, n, m) = e[m]
    BY ReadList
  <2>2. /\ Ascending(e, n) /\ Tiles(hdr, e, n) /\ Linked(hdr, e, n)
        /\ e \in [1..(n + 1) -> Nat] /\ e[n + 1] = brk
    BY DEF Chain, Ascending
  <2>3. \A m \in 1..n : m \in 0..(n + 1)
    BY <2>1
  <2>4. QED  BY <2>1, <2>2, <2>3
<1>2. j < n /\ n2 \in Nat /\ i < n2 /\ i \in 1..n2 /\ i + 1 \in 1..n2
  <2>1. j < n
    BY MergeFields
  <2>2. QED  BY <1>1, <2>1
<1>3. e[j + 1] - e[i] - H \in Nat /\ e[i] \in Nat /\ e[j + 1] \in Nat
  <2>1. i \in 1..(n + 1) /\ j + 1 \in 1..(n + 1) /\ i < j + 1
    BY <1>1, <1>2
  <2>2. e[i] + H <= e[j + 1]
    BY <1>1, <2>1 DEF Ascending
  <2>3. e[i] \in Nat /\ e[j + 1] \in Nat
    BY <1>1, <2>1
  <2>4. QED  BY <1>1, <2>2, <2>3
<1>M. Merged(h2, e, n, i, j)
  BY MergeFields
<1>4. ASSUME NEW m \in 0..(n + 1), m \notin (i + 1)..j
      PROVE  /\ h2[Node(e, n, m)] \in Header
             /\ h2[Node(e, n, m)].size =
                  IF m = i THEN e[j + 1] - e[i] - H ELSE hdr[Node(e, n, m)].size
             /\ h2[Node(e, n, m)].stat = IF m = i THEN 1 ELSE hdr[Node(e, n, m)].stat
             /\ h2[Node(e, n, m)].mp_next =
                  IF m = i THEN Node(e, n, j + 1) ELSE hdr[Node(e, n, m)].mp_next
             /\ h2[Node(e, n, m)].mp_prev =
                  IF m = j + 1 THEN Node(e, n, i) ELSE hdr[Node(e, n, m)].mp_prev
  <2>1. PICK r \in Header : r = hdr[Node(e, n, m)]
    BY <1>1, Nodes DEF Tiles
  <2>2. h2[Node(e, n, m)] =
          IF m = i THEN [hdr[e[i]] EXCEPT !.size = e[j + 1] - e[i] - H, !.stat = 1,
                                          !.mp_next = Node(e, n, j + 1)]
          ELSE IF m = j + 1 THEN [hdr[Node(e, n, m)] EXCEPT !.mp_prev = Node(e, n, i)]
          ELSE hdr[Node(e, n, m)]
    BY <1>M, <1>4 DEF Merged
  <2>3. Node(e, n, j + 1) \in Int /\ Node(e, n, i) \in Int
    BY <1>1, <1>2, <1>3
  <2>4. CASE m = i
    <3>1. r = hdr[e[i]] /\ i # j + 1
      BY <1>1, <2>1, <2>4
    <3>2. h2[Node(e, n, m)] = [r EXCEPT !.size = e[j + 1] - e[i] - H, !.stat = 1,
                                        !.mp_next = Node(e, n, j + 1)]
      BY <2>2, <2>4, <3>1
    <3>3. QED  BY <1>3, <2>1, <2>3, <2>4, <3>1, <3>2 DEF Header
  <2>5. CASE m # i /\ m = j + 1
    <3>1. h2[Node(e, n, m)] = [r EXCEPT !.mp_prev = Node(e, n, i)]
      BY <2>1, <2>2, <2>5
    <3>2. QED  BY <2>1, <2>3, <2>5, <3>1 DEF Header
  <2>6. CASE m # i /\ m # j + 1
    BY <2>1, <2>2, <2>6
  <2>7. QED  BY <2>4, <2>5, <2>6
<1>S. \A m \in 1..n : m \notin (i + 1)..j =>
        /\ h2[e[m]].size = IF m = i THEN e[j + 1] - e[i] - H ELSE hdr[e[m]].size
        /\ h2[e[m]].stat = IF m = i THEN 1 ELSE hdr[e[m]].stat
  <2> SUFFICES ASSUME NEW m \in 1..n, m \notin (i + 1)..j
               PROVE  /\ h2[e[m]].size = IF m = i THEN e[j + 1] - e[i] - H ELSE hdr[e[m]].size
                      /\ h2[e[m]].stat = IF m = i THEN 1 ELSE hdr[e[m]].stat
    OBVIOUS
  <2>1. m \in 0..(n + 1) /\ Node(e, n, m) = e[m]
    BY <1>1
  <2>2. QED  BY <1>4, <2>1
<1> DEFINE old(k) == IF k <= i THEN k ELSE k + (j - i)
<1>5. \A k \in 1..(n2 + 1) : e2[k] = e[old(k)] /\ old(k) \in 1..(n + 1) /\ e2[k] \in Nat
  BY <1>1, <1>2
<1>6. e2[i] = e[i] /\ e2[i + 1] = e[j + 1] /\ e2[n2 + 1] = brk /\ e2[n2] = e[n] /\ e2[1] = 2 * H
  <2>1. old(i) = i /\ old(i + 1) = j + 1 /\ old(n2 + 1) = n + 1 /\ old(n2) = n /\ old(1) = 1
    BY <1>1, <1>2
  <2>2. {1, i, i + 1, n2, n2 + 1} \subseteq 1..(n2 + 1)
    BY <1>2
  <2> HIDE DEF old
  <2>3. QED  BY <1>1, <1>5, <2>1, <2>2 DEF Ascending
<1>7. Ascending(e2, n2)
  <2>1. ASSUME NEW k \in 1..(n2 + 1), NEW m \in 1..(n2 + 1), k < m PROVE e2[k] + H <= e2[m]
    <3>1. old(k) \in 1..(n + 1) /\ old(m) \in 1..(n + 1) /\ old(k) < old(m)
      BY <1>1, <1>2, <2>1
    <3>2. e[old(k)] + H <= e[old(m)]
      BY <1>1, <3>1 DEF Ascending
    <3>3. QED  BY <1>5, <3>2
  <2>2. e2 \in [1..(n2 + 1) -> Nat]
    BY <1>5
  <2>3. QED  BY <1>2, <1>6, <2>1, <2>2 DEF Ascending
<1>8. \A k \in 0..(n2 + 1) : Node(e2, n2, k) = Node(e, n, old(k))
  BY <1>1, <1>2, <1>5 DEF Node
<1>9. Linked(h2, e2, n2)
  <2>1. i \in 0..n /\ j \in i..n /\ n \in Nat
    BY <1>1
  <2>2. MovedUp(e, e2, n, i, j)
    BY <1>8 DEF MovedUp
  <2>3. Joined(hdr, h2, e, n, i, j)
    BY <1>4 DEF Joined
  <2>4. Linked(h2, e2, n - (j - i))
    BY <1>1, <2>1, <2>2, <2>3, LinkRemove
  <2>5. QED  BY <2>4
<1>10. Tiles(h2, e2, n2)
  <2>1. ASSUME NEW a
        PROVE  a \in DOMAIN h2 <=> \E k \in 0..(n2 + 1) : a = Node(e2, n2, k)
    <3>1. a \in DOMAIN h2 <=> \E m \in 0..(n + 1) : a = Node(e, n, m) /\ m \notin (i + 1)..j
      BY <1>M DEF Merged
    <3>2. ASSUME NEW k \in 0..(n2 + 1) PROVE old(k) \in 0..(n + 1) /\ old(k) \notin (i + 1)..j
      BY <1>1, <1>2
    <3>3. ASSUME NEW m \in 0..(n + 1), m \notin (i + 1)..j
          PROVE  \E k \in 0..(n2 + 1) : old(k) = m
      <4>1. CASE m <= i
        <5>1. m \in 0..(n2 + 1) /\ old(m) = m
          BY <1>1, <1>2, <4>1
        <5>2. QED  BY <5>1
      <4>2. CASE m > j
        <5>1. m - (j - i) \in 0..(n2 + 1) /\ old(m - (j - i)) = m
          BY <1>1, <1>2, <4>2
        <5>2. QED  BY <5>1
      <4>3. QED  BY <1>1, <3>3, <4>1, <4>2
    <3> HIDE DEF old
    <3>4. ASSUME NEW m \in 0..(n + 1), a = Node(e, n, m), m \notin (i + 1)..j
          PROVE  \E k \in 0..(n2 + 1) : a = Node(e2, n2, k)
      <4>1. PICK k \in 0..(n2 + 1) : old(k) = m
        BY <3>3, <3>4
      <4>2. QED  BY <1>8, <3>4, <4>1
    <3>5. ASSUME NEW k \in 0..(n2 + 1), a = Node(e2, n2, k)
          PROVE  \E m \in 0..(n + 1) : a = Node(e, n, m) /\ m \notin (i + 1)..j
      BY <1>8, <3>2, <3>5
    <3>6. QED  BY <3>1, <3>4, <3>5
  <2>3. DOMAIN h2 = Addresses(e2, n2)
    <3>1. AtNodes(DOMAIN h2, e2, n2)
      BY <2>1 DEF AtNodes
    <3>2. QED  BY <1>2, <3>1, NodeSet
  <2>4. h2 \in [DOMAIN h2 -> Header]
    <3>1. \A a \in DOMAIN h2 : h2[a] \in Header
      BY <1>M, <1>4 DEF Merged
    <3>2. QED  BY <1>M, <3>1 DEF Merged
  <2>5. ASSUME NEW k \in 1..n2 PROVE e2[k + 1] = e2[k] + H + h2[e2[k]].size
    <3>1. k \in 1..(n2 + 1) /\ k + 1 \in 1..(n2 + 1) /\ old(k) \in 1..n
      BY <1>1, <1>2
    <3>2. e2[k] = e[old(k)] /\ e2[k + 1] = e[old(k + 1)]
      BY <1>5, <3>1
    <3>3. CASE k = i
      <4>1. h2[Node(e, n, i)].size = e[j + 1] - e[i] - H /\ Node(e, n, i) = e[i]
        BY <1>1, <1>2, <1>4
      <4>2. H \in Nat
        BY <1>1
      <4>3. e[j + 1] = e[i] + H + (e[j + 1] - e[i] - H)
        BY <1>3, <4>2
      <4>4. QED  BY <1>6, <3>3, <4>1, <4>3
    <3>4. CASE k # i
      <4>1. PICK m \in 1..n : m = old(k) /\ m # i /\ m \notin (i + 1)..j /\ old(k + 1) = m + 1
        BY <1>1, <1>2, <3>1, <3>4
      <4>2. h2[e[m]].size = hdr[e[m]].size
        BY <1>S, <4>1
      <4>3. e[m + 1] = e[m] + H + hdr[e[m]].size
        BY <1>1 DEF Tiles
      <4> HIDE DEF old
      <4>4. QED  BY <3>2, <4>1, <4>2, <4>3
    <3>5. QED  BY <3>3, <3>4
  <2>6. QED  BY <2>3, <2>4, <2>5 DEF Tiles
<1>11. LastInUse(h2, e2, n2)
  <2>1. n \in 1..n /\ n # i /\ n \notin (i + 1)..j
    BY <1>1, <1>2
  <2>2. h2[e[n]].stat = hdr[e[n]].stat /\ hdr[e[n]].stat = 1
    BY <1>1, <1>S, <2>1 DEF Chain, LastInUse
  <2>3. QED  BY <1>6, <2>2 DEF LastInUse
<1>12. QED
  BY <1>2, <1>6, <1>7, <1>9, <1>10, <1>11, <1>S DEF Chain, MergeParts

\* The program holds the merged chunk, and nothing else changes hands.
LEMMA MergeHeld ==
  ASSUME NEW e, NEW n, Chain(hdr, brk, e, n), Held(hdr, live),
         NEW i \in 1..n, NEW j \in i..n, AllFree(i, j),
         NEW q \in Nat, q <= e[j + 1] - e[i] - H
  PROVE  Held(Merge(i, j), With(live, e[i] + H, q))
<1> DEFINE h2 == Merge(i, j)
           n2 == n - (j - i)
           old(k) == IF k <= i THEN k ELSE k + (j - i)
           e2 == [k \in 1..(n2 + 1) |-> IF k <= i THEN e[k] ELSE e[k + (j - i)]]
           l2 == With(live, e[i] + H, q)
<1>1. /\ Chain(h2, brk, e2, n2) /\ n2 \in Nat /\ i \in 1..n2
      /\ \A m \in 1..n : m \notin (i + 1)..j =>
              /\ h2[e[m]].size = IF m = i THEN e[j + 1] - e[i] - H ELSE hdr[e[m]].size
              /\ h2[e[m]].stat = IF m = i THEN 1 ELSE hdr[e[m]].stat
  <2> HIDE DEF h2, n2, e2
  <2>1. h2 = Merge(i, j) /\ n2 = n - (j - i)
        /\ e2 = [k \in 1..(n2 + 1) |-> IF k <= i THEN e[k] ELSE e[k + (j - i)]]
    BY DEF h2, n2, e2
  <2>2. MergeParts(h2, e, e2, n, n2, i, j)
    BY <2>1, MergeChain
  <2>3. QED  BY <2>2 DEF MergeParts
<1>2. n \in Nat /\ \A m \in 1..n : IsFree(m) <=> hdr[e[m]].stat = 0
  BY ReadList
<1>3. /\ \A k \in 1..n2 : old(k) \in 1..n /\ old(k) \notin (i + 1)..j /\ e2[k] = e[old(k)]
      /\ old(i) = i /\ e2[i] = e[i]
  BY <1>1, <1>2
<1>4. ASSUME NEW m \in 1..n, m \notin (i + 1)..j PROVE \E k \in 1..n2 : old(k) = m
  <2>1. CASE m <= i
    <3>1. m \in 1..n2 /\ old(m) = m
      BY <1>1, <1>2, <2>1
    <3>2. QED  BY <3>1
  <2>2. CASE m > j
    <3>1. m - (j - i) \in 1..n2 /\ old(m - (j - i)) = m
      BY <1>2, <2>2
    <3>2. QED  BY <3>1
  <2>3. QED  BY <1>2, <1>4, <2>1, <2>2
<1>5. /\ \A p : p \in DOMAIN live <=> \E m \in 1..n : p = e[m] + H /\ hdr[e[m]].stat # 0
      /\ \A m \in 1..n : e[m] + H \in DOMAIN live => hdr[e[m]].size >= live[e[m] + H]
  BY HeldChunks DEF Chain
<1>6. \A m \in i..j : hdr[e[m]].stat = 0
  BY <1>2 DEF AllFree
<1>7. /\ DOMAIN l2 = DOMAIN live \cup {e[i] + H} /\ l2[e[i] + H] = q
      /\ \A p \in DOMAIN live : p # e[i] + H => l2[p] = live[p]
  BY DEF With
<1>8. \A k, m \in 1..n : e[k] + H = e[m] + H => k = m
  <2>1. /\ H \in Nat /\ \A k \in 1..(n + 1) : e[k] \in Nat
        /\ \A k, m \in 1..(n + 1) : e[k] = e[m] => k = m
    BY Apart DEF Chain
  <2>2. \A k \in 1..n : k \in 1..(n + 1)
    BY <1>2
  <2>3. QED  BY <2>1, <2>2
<1> HIDE DEF h2, n2, e2, l2, old
<1>9. ASSUME NEW p \in DOMAIN l2 PROVE \E k \in 1..n2 : p = e2[k] + H /\ h2[e2[k]].stat # 0
  <2>1. CASE p = e[i] + H
    <3>1. i \notin (i + 1)..j
      OBVIOUS
    <3>2. h2[e2[i]].stat = 1
      BY <1>1, <1>3, <3>1
    <3>3. QED  BY <1>1, <1>3, <2>1, <3>2
  <2>2. CASE p # e[i] + H
    <3>1. PICK m \in 1..n : p = e[m] + H /\ hdr[e[m]].stat # 0
      BY <1>5, <1>7, <2>2
    <3>2. m \notin i..j
      BY <1>6, <3>1
    <3>3. m # i /\ m \notin (i + 1)..j
      BY <3>2
    <3>4. PICK k \in 1..n2 : old(k) = m
      BY <1>4, <3>3
    <3>5. QED  BY <1>1, <1>3, <3>1, <3>3, <3>4
  <2>3. QED  BY <2>1, <2>2
<1>10. ASSUME NEW k \in 1..n2, h2[e2[k]].stat # 0 PROVE e2[k] + H \in DOMAIN l2
  <2>1. CASE old(k) = i
    BY <1>3, <1>7, <2>1
  <2>2. CASE old(k) # i
    <3>1. hdr[e[old(k)]].stat # 0
      BY <1>1, <1>3, <1>10, <2>2
    <3>2. QED  BY <1>3, <1>5, <1>7, <3>1
  <2>3. QED  BY <2>1, <2>2
<1>11. ASSUME NEW k \in 1..n2, e2[k] + H \in DOMAIN l2 PROVE h2[e2[k]].size >= l2[e2[k] + H]
  <2>1. CASE old(k) = i
    <3>1. h2[e[i]].size = e[j + 1] - e[i] - H
      BY <1>1, <1>3, <2>1
    <3>2. QED  BY <1>3, <1>7, <2>1, <3>1
  <2>2. CASE old(k) # i
    <3>1. e[old(k)] + H # e[i] + H /\ e[old(k)] + H \in DOMAIN live
      BY <1>3, <1>7, <1>8, <1>11, <2>2
    <3>2. h2[e[old(k)]].size = hdr[e[old(k)]].size
      BY <1>1, <1>3, <2>2
    <3>3. QED  BY <1>3, <1>5, <1>7, <3>1, <3>2
  <2>3. QED  BY <2>1, <2>2
<1>12. \A p : p \in DOMAIN l2 <=> \E k \in 1..n2 : p = e2[k] + H /\ h2[e2[k]].stat # 0
  BY <1>9, <1>10
<1>13. Held(h2, l2)
  BY <1>1, <1>11, <1>12, HeldChunks DEF Chain
<1>14. QED  BY <1>13 DEF h2, l2

\* A new chunk r after node i, whose size becomes sz.
Spliced(h, h2, e, n, i, r, new, sz) ==
  /\ DOMAIN h2 = DOMAIN h \cup {r}
  /\ h2 = [a \in DOMAIN h2 |-> h2[a]]
  /\ h2[r] = new
  /\ \A m \in 0..(n + 1) :
       h2[Node(e, n, m)] =
         IF m = i THEN [h[Node(e, n, m)] EXCEPT !.size = sz, !.mp_next = r]
         ELSE IF m = i + 1 THEN [h[Node(e, n, m)] EXCEPT !.mp_prev = r]
         ELSE h[Node(e, n, m)]

\* Where the chunks are then.
NewAt(e, e2, n, i, r) ==
  \A k \in 1..(n + 1) : e2[k] = IF k = i + 1 THEN r ELSE e[IF k <= i THEN k ELSE k - 1]

\* The list is linked again and the headers are those of its chunks.
LEMMA Splice ==
  ASSUME NEW h, NEW e, NEW n, Ascending(e, n), Tiles(h, e, n), Linked(h, e, n),
         NEW i \in 0..n, NEW r \in Nat, NEW new \in Header,
         new.mp_next = Node(e, n, i + 1), new.mp_prev = Node(e, n, i), NEW sz \in Nat,
         NEW h2, Spliced(h, h2, e, n, i, r, new, sz),
         NEW e2, Ascending(e2, n + 1), NewAt(e, e2, n, i, r)
  PROVE  /\ DOMAIN h2 = Addresses(e2, n + 1) /\ h2 \in [DOMAIN h2 -> Header]
         /\ Linked(h2, e2, n + 1)
         /\ e2[i + 1] = r /\ h2[r] = new
         /\ \A m \in 1..n : /\ h2[e[m]].size = IF m = i THEN sz ELSE h[e[m]].size
                            /\ h2[e[m]].stat = h[e[m]].stat
<1>1. n \in Nat /\ i \in 0..n /\ e \in [1..(n + 1) -> Nat] /\ e2 \in [1..(n + 2) -> Nat]
  BY DEF Ascending
<1>2. ASSUME NEW m \in 0..(n + 1)
      PROVE  /\ h2[Node(e, n, m)] \in Header
             /\ h2[Node(e, n, m)].size = IF m = i THEN sz ELSE h[Node(e, n, m)].size
             /\ h2[Node(e, n, m)].stat = h[Node(e, n, m)].stat
             /\ h2[Node(e, n, m)].mp_next = IF m = i THEN r ELSE h[Node(e, n, m)].mp_next
             /\ h2[Node(e, n, m)].mp_prev = IF m = i + 1 THEN r ELSE h[Node(e, n, m)].mp_prev
  <2>1. PICK f \in Header : f = h[Node(e, n, m)]
    BY Nodes DEF Tiles
  <2>2. h2[Node(e, n, m)] = IF m = i THEN [f EXCEPT !.size = sz, !.mp_next = r]
                            ELSE IF m = i + 1 THEN [f EXCEPT !.mp_prev = r] ELSE f
    BY <2>1 DEF Spliced
  <2>3. CASE m = i
    <3>1. h2[Node(e, n, m)] = [f EXCEPT !.size = sz, !.mp_next = r] /\ m # i + 1
      BY <2>2, <2>3
    <3>2. PICK g : g = [f EXCEPT !.size = sz]
      OBVIOUS
    <3>3. g \in Header /\ g.size = sz /\ g.stat = f.stat /\ g.mp_prev = f.mp_prev
      BY <3>2 DEF Header
    <3>4. h2[Node(e, n, m)] = [g EXCEPT !.mp_next = r]
      BY <3>1, <3>2
    <3>5. /\ h2[Node(e, n, m)] \in Header /\ h2[Node(e, n, m)].size = sz
          /\ h2[Node(e, n, m)].stat = f.stat /\ h2[Node(e, n, m)].mp_prev = f.mp_prev
          /\ h2[Node(e, n, m)].mp_next = r
      BY <3>3, <3>4 DEF Header
    <3>6. QED  BY <2>1, <2>3, <3>1, <3>5
  <2>4. CASE m # i /\ m = i + 1
    <3>1. h2[Node(e, n, m)] = [f EXCEPT !.mp_prev = r]
      BY <2>2, <2>4
    <3>2. QED  BY <2>1, <2>4, <3>1 DEF Header
  <2>5. CASE m # i /\ m # i + 1
    BY <2>1, <2>2, <2>5
  <2>6. QED  BY <2>3, <2>4, <2>5
<1>3. h2[r] = new /\ e2[i + 1] = r
  <2>1. i + 1 \in 1..(n + 1)
    BY <1>1
  <2>2. QED  BY <2>1 DEF Spliced, NewAt
<1>4. MovedDown(e, e2, n, i, r)
  <2>1. ASSUME NEW k \in 0..(n + 2)
        PROVE  Node(e2, n + 1, k) = IF k = i + 1 THEN r ELSE Node(e, n, IF k <= i THEN k ELSE k - 1)
    <3>1. CASE k = 0
      BY <1>1, <3>1 DEF Node
    <3>2. CASE k = n + 2
      <4>1. Node(e2, n + 1, k) = mem_tail /\ k # i + 1 /\ ~(k <= i) /\ k - 1 = n + 1
        BY <1>1, <3>2 DEF Node
      <4>2. Node(e, n, n + 1) = mem_tail
        BY <1>1 DEF Node
      <4>3. QED  BY <4>1, <4>2
    <3>3. CASE k \in 1..(n + 1)
      <4>1. Node(e2, n + 1, k) = e2[k]
        BY <1>1, <3>3 DEF Node
      <4>2. e2[k] = IF k = i + 1 THEN r ELSE e[IF k <= i THEN k ELSE k - 1]
        BY <3>3 DEF NewAt
      <4>3. CASE k = i + 1
        BY <4>1, <4>2, <4>3
      <4>4. CASE k <= i
        <5>1. Node(e, n, k) = e[k] /\ k # i + 1
          BY <1>1, <3>3, <4>4 DEF Node
        <5>2. QED  BY <4>1, <4>2, <4>4, <5>1
      <4>5. CASE k > i + 1
        <5>1. Node(e, n, k - 1) = e[k - 1] /\ k # i + 1 /\ ~(k <= i)
          BY <1>1, <3>3, <4>5 DEF Node
        <5>2. QED  BY <4>1, <4>2, <5>1
      <4>6. QED  BY <1>1, <3>3, <4>3, <4>4, <4>5
    <3>4. QED  BY <1>1, <3>1, <3>2, <3>3
  <2>2. QED  BY <2>1 DEF MovedDown
<1>5. Inserted(h, h2, e, n, i, r)
  BY <1>2, <1>3 DEF Inserted
<1>6. Linked(h2, e2, n + 1)
  BY <1>1, <1>4, <1>5, LinkInsert
<1>7. DOMAIN h2 = Addresses(e2, n + 1)
  <2>1. ASSUME NEW a, a \in DOMAIN h2 PROVE \E k \in 0..(n + 2) : a = Node(e2, n + 1, k)
    <3>1. CASE a = r
      <4>1. i + 1 \in 0..(n + 2) /\ Node(e2, n + 1, i + 1) = r
        BY <1>1, <1>4 DEF MovedDown
      <4>2. QED  BY <3>1, <4>1
    <3>2. CASE a \in DOMAIN h
      <4>1. PICK m \in 0..(n + 1) : a = Node(e, n, m)
        BY <3>2, Nodes
      <4>2. CASE m <= i
        <5>1. m \in 0..(n + 2) /\ Node(e2, n + 1, m) = Node(e, n, m)
          BY <1>1, <1>4, <4>2 DEF MovedDown
        <5>2. QED  BY <4>1, <5>1
      <4>3. CASE m > i
        <5>1. m + 1 \in 0..(n + 2) /\ m + 1 # i + 1 /\ ~(m + 1 <= i) /\ (m + 1) - 1 = m
          BY <1>1, <4>3
        <5>2. Node(e2, n + 1, m + 1) = Node(e, n, m)
          BY <1>4, <5>1 DEF MovedDown
        <5>3. QED  BY <4>1, <5>1, <5>2
      <4>4. QED  BY <1>1, <4>2, <4>3
    <3>3. QED  BY <2>1, <3>1, <3>2 DEF Spliced
  <2>2. ASSUME NEW k \in 0..(n + 2) PROVE Node(e2, n + 1, k) \in DOMAIN h2
    <3>1. CASE k = i + 1
      BY <1>4, <3>1 DEF MovedDown, Spliced
    <3>2. CASE k # i + 1
      <4>1. PICK m \in 0..(n + 1) : m = IF k <= i THEN k ELSE k - 1
        BY <1>1, <3>2
      <4>2. Node(e2, n + 1, k) = Node(e, n, m)
        BY <1>4, <3>2, <4>1 DEF MovedDown
      <4>3. Node(e, n, m) \in DOMAIN h
        BY Nodes
      <4>4. QED  BY <4>2, <4>3 DEF Spliced
    <3>3. QED  BY <3>1, <3>2
  <2>3. (n + 1) + 1 = n + 2 /\ n + 1 \in Nat
    BY <1>1
  <2>4. AtNodes(DOMAIN h2, e2, n + 1)
    BY <2>1, <2>2, <2>3 DEF AtNodes
  <2>5. QED  BY <2>3, <2>4, NodeSet
<1>8. h2 \in [DOMAIN h2 -> Header]
  <2>1. ASSUME NEW a \in DOMAIN h2 PROVE h2[a] \in Header
    <3>1. CASE a = r
      BY <1>3, <3>1
    <3>2. CASE a \in DOMAIN h
      <4>1. PICK m \in 0..(n + 1) : a = Node(e, n, m)
        BY <3>2, Nodes
      <4>2. QED  BY <1>2, <4>1
    <3>3. QED  BY <3>1, <3>2 DEF Spliced
  <2>2. QED  BY <2>1 DEF Spliced
<1>9. ASSUME NEW m \in 1..n
      PROVE  /\ h2[e[m]].size = IF m = i THEN sz ELSE h[e[m]].size
             /\ h2[e[m]].stat = h[e[m]].stat
  <2>1. m \in 0..(n + 1) /\ Node(e, n, m) = e[m]
    BY <1>1 DEF Node
  <2>2. QED  BY <1>2, <2>1
<1>10. QED  BY <1>3, <1>6, <1>7, <1>8, <1>9

\* A new element after the i-th of n moves those behind it: where the k-th was.
Before(i, k) == IF k <= i THEN k ELSE k - 1

LEMMA BeforeRange ==
  ASSUME NEW n \in Nat, NEW i \in 0..n
  PROVE  /\ \A k \in 1..(n + 2) : k # i + 1 => Before(i, k) \in 1..(n + 1)
         /\ \A k, m \in 1..(n + 2) : k # i + 1 /\ m # i + 1 /\ k < m => Before(i, k) < Before(i, m)
         /\ \A k \in 1..(n + 2) : k < i + 1 => Before(i, k) <= i
         /\ \A k \in 1..(n + 2) : k > i + 1 => Before(i, k) >= i + 1
BY DEF Before

LEMMA BeforeNext ==
  ASSUME NEW n \in Nat, NEW i \in 1..n
  PROVE  /\ Before(i, i) = i /\ Before(i, i + 2) = i + 1 /\ Before(i, 1) = 1
         /\ i < n => Before(i, n + 1) = n
         /\ Before(i, n + 2) = n + 1
         /\ \A k \in 1..(n + 1) : k # i + 1 => Before(i, k) \in 1..n
BY DEF Before

LEMMA BeforeOnto ==
  ASSUME NEW n \in Nat, NEW i \in 0..n, NEW m \in 1..n
  PROVE  \E k \in 1..(n + 1) : k # i + 1 /\ Before(i, k) = m
<1>1. CASE m <= i
  <2>1. m \in 1..(n + 1) /\ m # i + 1 /\ Before(i, m) = m
    BY <1>1 DEF Before
  <2>2. QED  BY <2>1
<1>2. CASE m > i
  <2>1. m + 1 \in 1..(n + 1) /\ m + 1 # i + 1 /\ Before(i, m + 1) = m
    BY <1>2 DEF Before
  <2>2. QED  BY <2>1
<1>3. QED  BY <1>1, <1>2

\* Where the chunks are when a new one at r follows chunk i.
SplitAt(e, e2, n, i, r) ==
  e2 = [k \in 1..(n + 2) |-> IF k = i + 1 THEN r ELSE e[Before(i, k)]]

\* The new address lies inside chunk i, and leaves room for a header on both sides.
Inside(e, i, r) == e[i] + H <= r /\ r + H <= e[i + 1]

\* Then the addresses ascend.
LEMMA SplitPlaces ==
  ASSUME NEW n \in Nat, NEW e, Ascending(e, n), NEW i \in 1..n, NEW r \in Nat,
         Inside(e, i, r), NEW e2, SplitAt(e, e2, n, i, r)
  PROVE  /\ Ascending(e2, n + 1) /\ NewAt(e, e2, n, i, r)
         /\ e2[i + 1] = r
         /\ \A k \in 1..(n + 2) : k # i + 1 => e2[k] = e[Before(i, k)]
<1>0. i \in 0..n /\ i \in 1..(n + 1) /\ i + 1 \in 1..(n + 1) /\ i + 1 \in 1..(n + 2)
      /\ 1 \in 1..(n + 2) /\ 1 # i + 1 /\ (n + 1) + 1 = n + 2 /\ n + 1 \in Nat
  OBVIOUS
<1>1. /\ e2[i + 1] = r
      /\ \A k \in 1..(n + 2) : k # i + 1 => e2[k] = e[Before(i, k)]
      /\ e2 = [k \in 1..(n + 2) |-> e2[k]]
  BY <1>0 DEF SplitAt
<1>2. \A k \in 1..(n + 2) : k # i + 1 => Before(i, k) \in 1..(n + 1)
  BY <1>0, BeforeRange
<1>H. H \in Nat /\ e \in [1..(n + 1) -> Nat] /\ e[1] = 2 * H
  BY SizeAssumption DEF Ascending
<1>I. e[i] \in Nat /\ e[i + 1] \in Nat /\ e[i] + H <= r /\ r + H <= e[i + 1]
  BY <1>0, <1>H DEF Inside
<1>3. \A k \in 1..(n + 2) : e2[k] \in Nat
  <2>1. \A x \in 1..(n + 1) : e[x] \in Nat
    BY <1>H
  <2>2. QED  BY <1>1, <1>2, <2>1
<1>4. ASSUME NEW x \in 1..(n + 1), NEW y \in 1..(n + 1), x <= y PROVE e[x] <= e[y]
  <2>1. e[x] \in Nat /\ e[y] \in Nat
    BY <1>H
  <2>2. CASE x = y
    BY <2>1, <2>2
  <2>3. CASE x < y
    <3>1. e[x] + H <= e[y]
      BY <2>3 DEF Ascending
    <3>2. QED  BY <1>H, <2>1, <3>1
  <2>4. QED  BY <1>4, <2>2, <2>3
<1>5. ASSUME NEW k \in 1..(n + 2), NEW m \in 1..(n + 2), k < m PROVE e2[k] + H <= e2[m]
  <2>1. CASE k # i + 1 /\ m # i + 1
    <3>1. Before(i, k) < Before(i, m)
      BY <1>0, <1>5, <2>1, BeforeRange
    <3>2. e[Before(i, k)] + H <= e[Before(i, m)]
      BY <1>2, <2>1, <3>1 DEF Ascending
    <3>3. QED  BY <1>1, <2>1, <3>2
  <2>2. CASE m = i + 1
    <3>1. k # i + 1 /\ k < i + 1
      BY <1>5, <2>2
    <3>2. Before(i, k) <= i /\ Before(i, k) \in 1..(n + 1)
      BY <1>0, <1>2, <3>1, BeforeRange
    <3>3. e2[k] = e[Before(i, k)] /\ e2[m] = r
      BY <1>1, <2>2, <3>1
    <3>4. e2[k] <= e[i]
      BY <1>0, <1>4, <3>2, <3>3
    <3>5. e2[k] \in Nat
      BY <1>3
    <3>6. QED  BY <1>H, <1>I, <3>3, <3>4, <3>5, SMTT(30)
  <2>3. CASE k = i + 1
    <3>1. m # i + 1 /\ m > i + 1
      BY <1>5, <2>3
    <3>2. Before(i, m) >= i + 1 /\ Before(i, m) \in 1..(n + 1)
      BY <1>0, <1>2, <3>1, BeforeRange
    <3>3. e2[m] = e[Before(i, m)] /\ e2[k] = r
      BY <1>1, <2>3, <3>1
    <3>4. e[i + 1] <= e2[m]
      <4>1. i + 1 <= Before(i, m)
        BY <1>0, <3>2
      <4>2. QED  BY <1>0, <1>4, <3>2, <3>3, <4>1
    <3>5. e2[m] \in Nat
      BY <1>3
    <3>6. QED  BY <1>H, <1>I, <3>3, <3>4, <3>5, SMTT(30)
  <2>4. QED  BY <2>1, <2>2, <2>3
<1>6. e2[1] = 2 * H
  <2>1. Before(i, 1) = 1
    BY BeforeNext
  <2>2. e2[1] = e[Before(i, 1)]
    BY <1>0, <1>1
  <2>3. QED  BY <1>H, <2>1, <2>2
<1>7. e2 \in [1..(n + 2) -> Nat]
  BY <1>1, <1>3
<1>8. Ascending(e2, n + 1)
  BY <1>0, <1>5, <1>6, <1>7 DEF Ascending
<1>9. NewAt(e, e2, n, i, r)
  <2>1. \A k \in 1..(n + 1) : k \in 1..(n + 2)
    OBVIOUS
  <2>2. QED  BY <1>1, <2>1 DEF NewAt, Before
<1>10. QED  BY <1>1, <1>8, <1>9

LEMMA BeforeStep ==
  ASSUME NEW n \in Nat, NEW i \in 1..n, NEW k \in 1..(n + 1), k # i, k # i + 1
  PROVE  /\ Before(i, k) \in 1..n /\ Before(i, k) # i
         /\ Before(i, k + 1) = Before(i, k) + 1
BY DEF Before

\* The memory of two chunks starts at one address only if they are one.
LEMMA SameChunk == \A a, c \in Nat : a + H = c + H => a = c
BY SizeAssumption

\* Chunk i is split into one of size s and a free rest of size t at r.
Splits(h, h2, e, n, i, r, new, s, t) ==
  /\ i < n /\ h[e[i]].size = s + H + t /\ r = e[i] + H + s
  /\ new \in Header /\ new.size = t /\ new.stat = 0
  /\ new.mp_next = Node(e, n, i + 1) /\ new.mp_prev = Node(e, n, i)
  /\ Spliced(h, h2, e, n, i, r, new, s)

\* What the new list is made of.
SplitParts(h, h2, e, e2, n, i, r, s, t) ==
  /\ e[i + 1] = r + H + t /\ Ascending(e2, n + 1) /\ e2[i + 1] = r
  /\ \A k \in 1..(n + 2) : k # i + 1 => e2[k] = e[Before(i, k)]
  /\ DOMAIN h2 = Addresses(e2, n + 1) /\ h2 \in [DOMAIN h2 -> Header]
  /\ Linked(h2, e2, n + 1)
  /\ h2[r].size = t /\ h2[r].stat = 0
  /\ \A m \in 1..n : /\ h2[e[m]].size = IF m = i THEN s ELSE h[e[m]].size
                     /\ h2[e[m]].stat = h[e[m]].stat

LEMMA SplitFields ==
  ASSUME NEW h, NEW b, NEW n \in Nat, NEW e, Chain(h, b, e, n), NEW i \in 1..n,
         NEW s \in Nat, NEW t \in Nat, NEW r \in Nat, NEW new, NEW h2,
         Splits(h, h2, e, n, i, r, new, s, t), NEW e2, SplitAt(e, e2, n, i, r)
  PROVE  SplitParts(h, h2, e, e2, n, i, r, s, t)
<1>1. Ascending(e, n) /\ Tiles(h, e, n) /\ Linked(h, e, n)
  BY DEF Chain
<1>2. e[i + 1] = e[i] + H + h[e[i]].size
  BY <1>1 DEF Tiles
<1>3. h[e[i]].size = s + H + t /\ r = e[i] + H + s
  BY DEF Splits
<1>4. H \in Nat /\ e[i] \in Nat
  BY <1>1, SizeAssumption DEF Ascending
<1>5. e[i + 1] = r + H + t
  BY <1>2, <1>3, <1>4
<1>6. Inside(e, i, r)
  BY <1>3, <1>4, <1>5 DEF Inside
<1>7. /\ Ascending(e2, n + 1) /\ NewAt(e, e2, n, i, r) /\ e2[i + 1] = r
      /\ \A k \in 1..(n + 2) : k # i + 1 => e2[k] = e[Before(i, k)]
  BY <1>1, <1>6, SplitPlaces
<1>8. /\ new \in Header /\ new.size = t /\ new.stat = 0
      /\ new.mp_next = Node(e, n, i + 1) /\ new.mp_prev = Node(e, n, i)
      /\ Spliced(h, h2, e, n, i, r, new, s)
  BY DEF Splits
<1>9. i \in 0..n
  OBVIOUS
<1>10. /\ DOMAIN h2 = Addresses(e2, n + 1) /\ h2 \in [DOMAIN h2 -> Header]
       /\ Linked(h2, e2, n + 1) /\ h2[r] = new
       /\ \A m \in 1..n : /\ h2[e[m]].size = IF m = i THEN s ELSE h[e[m]].size
                          /\ h2[e[m]].stat = h[e[m]].stat
  BY <1>1, <1>7, <1>8, <1>9, Splice
<1>11. QED  BY <1>5, <1>7, <1>8, <1>10 DEF SplitParts

\* The list tiles the heap again.
LEMMA SplitChain ==
  ASSUME NEW h, NEW b, NEW n \in Nat, NEW e, Chain(h, b, e, n), NEW i \in 1..n,
         NEW s \in Nat, NEW t \in Nat, NEW r \in Nat, NEW new, NEW h2,
         Splits(h, h2, e, n, i, r, new, s, t), NEW e2, SplitAt(e, e2, n, i, r)
  PROVE  Chain(h2, b, e2, n + 1)
<1>1. /\ e[i + 1] = r + H + t /\ Ascending(e2, n + 1) /\ e2[i + 1] = r
      /\ \A k \in 1..(n + 2) : k # i + 1 => e2[k] = e[Before(i, k)]
      /\ DOMAIN h2 = Addresses(e2, n + 1) /\ h2 \in [DOMAIN h2 -> Header]
      /\ Linked(h2, e2, n + 1)
      /\ h2[r].size = t /\ h2[r].stat = 0
      /\ \A m \in 1..n : /\ h2[e[m]].size = IF m = i THEN s ELSE h[e[m]].size
                         /\ h2[e[m]].stat = h[e[m]].stat
  <2>1. SplitParts(h, h2, e, e2, n, i, r, s, t)
    BY SplitFields
  <2>2. QED  BY <2>1 DEF SplitParts
<1>2. i < n /\ r = e[i] + H + s
  BY DEF Splits
<1>3. \A k \in 1..n : e[k + 1] = e[k] + H + h[e[k]].size
  BY DEF Chain, Tiles
<1>4. ASSUME NEW k \in 1..(n + 1) PROVE e2[k + 1] = e2[k] + H + h2[e2[k]].size
  <2>1. CASE k = i
    <3>1. i \in 1..(n + 2) /\ i # i + 1 /\ Before(i, i) = i
      BY BeforeNext
    <3>2. e2[i] = e[i]
      BY <1>1, <3>1
    <3>3. h2[e[i]].size = s
      BY <1>1
    <3>4. QED  BY <1>1, <1>2, <2>1, <3>2, <3>3
  <2>2. CASE k = i + 1
    <3>1. k + 1 \in 1..(n + 2) /\ k + 1 # i + 1 /\ k + 1 = i + 2
      BY <2>2
    <3>2. Before(i, k + 1) = i + 1
      BY <3>1, BeforeNext
    <3>3. e2[k + 1] = e[i + 1]
      BY <1>1, <3>1, <3>2
    <3>4. QED  BY <1>1, <2>2, <3>3
  <2>3. CASE k # i /\ k # i + 1
    <3>1. k \in 1..(n + 2) /\ k + 1 \in 1..(n + 2) /\ k + 1 # i + 1
      BY <2>3
    <3>2. PICK m \in 1..n : m = Before(i, k) /\ m # i /\ Before(i, k + 1) = m + 1
      <4>1. /\ Before(i, k) \in 1..n /\ Before(i, k) # i
            /\ Before(i, k + 1) = Before(i, k) + 1
        BY <2>3, BeforeStep
      <4>2. QED  BY <4>1
    <3>3. e2[k] = e[m] /\ e2[k + 1] = e[m + 1]
      BY <1>1, <2>3, <3>1, <3>2
    <3>4. h2[e[m]].size = h[e[m]].size
      BY <1>1, <3>2
    <3>5. e[m + 1] = e[m] + H + h[e[m]].size
      BY <1>3
    <3>6. QED  BY <3>3, <3>4, <3>5
  <2>4. QED  BY <2>1, <2>2, <2>3
<1>5. Tiles(h2, e2, n + 1)
  BY <1>1, <1>4 DEF Tiles
<1>6. e2[n + 2] = e[n + 1] /\ e2[n + 1] = e[n] /\ (n + 1) + 1 = n + 2 /\ n \in 1..n
  <2>1. Before(i, n + 2) = n + 1 /\ Before(i, n + 1) = n
    BY <1>2, BeforeNext
  <2>2. /\ n + 2 \in 1..(n + 2) /\ n + 2 # i + 1 /\ n + 1 \in 1..(n + 2) /\ n + 1 # i + 1
        /\ (n + 1) + 1 = n + 2 /\ n \in 1..n
    BY <1>2
  <2>3. QED  BY <1>1, <2>1, <2>2
<1>7. e[n + 1] = b /\ h[e[n]].stat = 1
  BY <1>6 DEF Chain, LastInUse
<1>8. h2[e[n]].stat = 1
  BY <1>1, <1>6, <1>7
<1>9. e2[(n + 1) + 1] = b /\ LastInUse(h2, e2, n + 1)
  BY <1>6, <1>7, <1>8 DEF LastInUse
<1>10. QED  BY <1>1, <1>5, <1>9 DEF Chain

\* The program holds what it held, if what is left of chunk i is large enough.
LEMMA SplitHeld ==
  ASSUME NEW h, NEW b, NEW n \in Nat, NEW e, Chain(h, b, e, n), NEW i \in 1..n,
         NEW s \in Nat, NEW t \in Nat, NEW r \in Nat, NEW new, NEW h2,
         Splits(h, h2, e, n, i, r, new, s, t), NEW e2, SplitAt(e, e2, n, i, r),
         NEW l, Held(h, l), e[i] + H \in DOMAIN l => s >= l[e[i] + H]
  PROVE  Held(h2, l)
<1>1. /\ Ascending(e2, n + 1) /\ e2[i + 1] = r
      /\ \A k \in 1..(n + 2) : k # i + 1 => e2[k] = e[Before(i, k)]
      /\ h2[r].stat = 0
      /\ \A m \in 1..n : /\ h2[e[m]].size = IF m = i THEN s ELSE h[e[m]].size
                         /\ h2[e[m]].stat = h[e[m]].stat
  <2>1. SplitParts(h, h2, e, e2, n, i, r, s, t)
    BY SplitFields
  <2>2. QED  BY <2>1 DEF SplitParts
<1>2. Tiles(h2, e2, n + 1)
  BY SplitChain DEF Chain
<1>3. /\ \A p : p \in DOMAIN l <=> \E m \in 1..n : p = e[m] + H /\ h[e[m]].stat # 0
      /\ \A m \in 1..n : e[m] + H \in DOMAIN l => h[e[m]].size >= l[e[m] + H]
  BY HeldChunks DEF Chain
<1>4. \A k \in 1..(n + 1) : k # i + 1 => \E m \in 1..n : e2[k] = e[m]
  <2>1. \A k \in 1..(n + 1) : k \in 1..(n + 2)
    OBVIOUS
  <2>2. \A k \in 1..(n + 1) : k # i + 1 => Before(i, k) \in 1..n
    BY BeforeNext
  <2>3. QED  BY <1>1, <2>1, <2>2
<1>5. ASSUME NEW m \in 1..n PROVE \E k \in 1..(n + 1) : e2[k] = e[m]
  <2>1. i \in 0..n
    OBVIOUS
  <2>2. PICK k \in 1..(n + 1) : k # i + 1 /\ Before(i, k) = m
    BY <2>1, BeforeOnto
  <2>3. k \in 1..(n + 2)
    OBVIOUS
  <2>4. QED  BY <1>1, <2>2, <2>3
<1>6. ASSUME NEW p
      PROVE  p \in DOMAIN l <=> \E k \in 1..(n + 1) : p = e2[k] + H /\ h2[e2[k]].stat # 0
  <2>1. ASSUME p \in DOMAIN l
        PROVE  \E k \in 1..(n + 1) : p = e2[k] + H /\ h2[e2[k]].stat # 0
    <3>1. PICK m \in 1..n : p = e[m] + H /\ h[e[m]].stat # 0
      BY <1>3, <2>1
    <3>2. PICK k \in 1..(n + 1) : e2[k] = e[m]
      BY <1>5
    <3>3. h2[e2[k]].stat # 0
      BY <1>1, <3>1, <3>2
    <3>4. QED  BY <3>1, <3>2, <3>3
  <2>2. ASSUME NEW k \in 1..(n + 1), p = e2[k] + H, h2[e2[k]].stat # 0 PROVE p \in DOMAIN l
    <3>1. k # i + 1
      BY <1>1, <2>2
    <3>2. PICK m \in 1..n : e2[k] = e[m]
      BY <1>4, <3>1
    <3>3. h[e[m]].stat # 0
      BY <1>1, <2>2, <3>2
    <3>4. QED  BY <1>3, <2>2, <3>2, <3>3
  <2>3. QED  BY <2>1, <2>2
<1>7. ASSUME NEW k \in 1..(n + 1), e2[k] + H \in DOMAIN l PROVE h2[e2[k]].size >= l[e2[k] + H]
  <2>1. PICK m \in 1..n : e2[k] + H = e[m] + H
    BY <1>3, <1>7
  <2>2. e2[k] = e[m]
    <3>1. H \in Nat /\ k \in 1..((n + 1) + 1) /\ m \in 1..(n + 1)
      BY SizeAssumption
    <3>2. e2[k] \in Nat
      BY <1>1, <3>1 DEF Ascending
    <3>3. e[m] \in Nat
      BY <3>1 DEF Chain, Ascending
    <3>4. QED  BY <2>1, <3>2, <3>3, SameChunk, Zenon
  <2>3. CASE m = i
    <3>1. h2[e2[k]].size = s
      BY <1>1, <2>2, <2>3
    <3>2. QED  BY <1>7, <2>2, <2>3, <3>1
  <2>4. CASE m # i
    <3>1. h2[e2[k]].size = h[e[m]].size
      BY <1>1, <2>2, <2>4
    <3>2. QED  BY <1>3, <1>7, <2>2, <3>1
  <2>5. QED  BY <2>3, <2>4
<1>8. QED  BY <1>1, <1>2, <1>6, <1>7, HeldChunks

\* The neighbours of a new chunk r after node i are linked with it.
Relinked(h, g, e, n, i, r, sz) ==
  /\ DOMAIN g = DOMAIN h
  /\ \A m \in 0..(n + 1) :
       g[Node(e, n, m)] =
         IF m = i THEN [h[Node(e, n, m)] EXCEPT !.size = sz, !.mp_next = r]
         ELSE IF m = i + 1 THEN [h[Node(e, n, m)] EXCEPT !.mp_prev = r]
         ELSE h[Node(e, n, m)]

LEMMA NewHeader ==
  ASSUME NEW h, NEW e, NEW n, Ascending(e, n), Tiles(h, e, n), NEW i, NEW r, r \notin DOMAIN h,
         NEW new, NEW sz, NEW g, Relinked(h, g, e, n, i, r, sz)
  PROVE  Spliced(h, With(g, r, new), e, n, i, r, new, sz)
<1> DEFINE h2 == With(g, r, new)
<1>1. \A m \in 0..(n + 1) : Node(e, n, m) \in DOMAIN h
  BY Nodes
<1>2. DOMAIN g = DOMAIN h
  BY DEF Relinked
<1>3. h2 = [a \in DOMAIN h \cup {r} |-> IF a = r THEN new ELSE g[a]]
  BY <1>2 DEF With
<1> HIDE DEF h2
<1>4. /\ DOMAIN h2 = DOMAIN h \cup {r} /\ h2 = [a \in DOMAIN h2 |-> h2[a]]
      /\ h2[r] = new /\ \A a \in DOMAIN h : h2[a] = g[a]
  BY <1>3
<1>5. \A m \in 0..(n + 1) : h2[Node(e, n, m)] = g[Node(e, n, m)]
  BY <1>1, <1>4
<1>6. Spliced(h, h2, e, n, i, r, new, sz)
  BY <1>4, <1>5 DEF Spliced, Relinked
<1>7. QED  BY <1>6 DEF h2

\* malloc links the rest of a split chunk so.
LEMMA RelinkSplit ==
  ASSUME NEW h, NEW e, NEW n, Ascending(e, n), Tiles(h, e, n), NEW i \in 0..n, NEW r, NEW sz
  PROVE  Relinked(h, [h EXCEPT ![Node(e, n, i)].size = sz, ![Node(e, n, i)].mp_next = r,
                               ![Node(e, n, i + 1)].mp_prev = r], e, n, i, r, sz)
<1> DEFINE x == Node(e, n, i)
           y == Node(e, n, i + 1)
<1>1. /\ n \in Nat /\ \A m \in 0..(n + 1) : Node(e, n, m) \in DOMAIN h
      /\ \A k, m \in 0..(n + 1) : Node(e, n, k) = Node(e, n, m) => k = m
  <2>1. n \in Nat
    BY DEF Ascending
  <2>2. QED  BY <2>1, Nodes
<1>2. i \in 0..(n + 1) /\ i + 1 \in 0..(n + 1) /\ i # i + 1
  BY <1>1
<1>3. /\ x \in DOMAIN h /\ y \in DOMAIN h /\ x # y
      /\ \A m \in 0..(n + 1) : (Node(e, n, m) = x <=> m = i) /\ (Node(e, n, m) = y <=> m = i + 1)
  BY <1>1, <1>2
<1> HIDE DEF x, y
<1>4. ASSUME NEW g, g = [h EXCEPT ![x].size = sz, ![x].mp_next = r, ![y].mp_prev = r]
      PROVE  Relinked(h, g, e, n, i, r, sz)
  <2>1. PICK g1 : g1 = [h EXCEPT ![x] = [h[x] EXCEPT !.size = sz]]
    OBVIOUS
  <2>2. PICK g2 : g2 = [g1 EXCEPT ![x] = [g1[x] EXCEPT !.mp_next = r]]
    OBVIOUS
  <2>3. g = [g2 EXCEPT ![y] = [g2[y] EXCEPT !.mp_prev = r]]
    BY <1>4, <2>1, <2>2
  <2>4. /\ DOMAIN g1 = DOMAIN h /\ g1[x] = [h[x] EXCEPT !.size = sz]
        /\ \A a \in DOMAIN h : a # x => g1[a] = h[a]
    BY <1>3, <2>1
  <2>5. /\ DOMAIN g2 = DOMAIN h /\ g2[x] = [g1[x] EXCEPT !.mp_next = r]
        /\ \A a \in DOMAIN h : a # x => g2[a] = g1[a]
    BY <1>3, <2>2, <2>4
  <2>6. /\ DOMAIN g = DOMAIN h /\ g[y] = [g2[y] EXCEPT !.mp_prev = r]
        /\ \A a \in DOMAIN h : a # y => g[a] = g2[a]
    BY <1>3, <2>3, <2>5
  <2>7. g[x] = [h[x] EXCEPT !.size = sz, !.mp_next = r]
    BY <1>3, <2>4, <2>5, <2>6
  <2>8. g[y] = [h[y] EXCEPT !.mp_prev = r]
    BY <1>3, <2>4, <2>5, <2>6
  <2>9. \A a \in DOMAIN h : a # x /\ a # y => g[a] = h[a]
    BY <2>4, <2>5, <2>6
  <2>10. ASSUME NEW m \in 0..(n + 1)
         PROVE  g[Node(e, n, m)] =
                  IF m = i THEN [h[Node(e, n, m)] EXCEPT !.size = sz, !.mp_next = r]
                  ELSE IF m = i + 1 THEN [h[Node(e, n, m)] EXCEPT !.mp_prev = r]
                  ELSE h[Node(e, n, m)]
    <3>1. CASE m = i
      BY <2>7, <3>1 DEF x
    <3>2. CASE m = i + 1
      BY <1>2, <2>8, <3>2 DEF y
    <3>3. CASE m # i /\ m # i + 1
      BY <1>1, <1>3, <2>9, <3>3
    <3>4. QED  BY <3>1, <3>2, <3>3
  <2>11. QED  BY <2>6, <2>10 DEF Relinked
<1>5. QED  BY <1>4 DEF x, y

\* malloc links a new chunk at the break so.
LEMMA RelinkGrow ==
  ASSUME NEW h, NEW e, NEW n, Ascending(e, n), Tiles(h, e, n), NEW r
  PROVE  Relinked(h, [h EXCEPT ![Node(e, n, n)].mp_next = r, ![mem_tail].mp_prev = r],
                  e, n, n, r, h[Node(e, n, n)].size)
<1> DEFINE x == Node(e, n, n)
           y == mem_tail
<1>1. /\ n \in Nat /\ \A m \in 0..(n + 1) : Node(e, n, m) \in DOMAIN h
      /\ \A k, m \in 0..(n + 1) : Node(e, n, k) = Node(e, n, m) => k = m
      /\ Node(e, n, n + 1) = mem_tail
  <2>1. n \in Nat /\ n + 1 \in Nat /\ n + 1 > n
    BY DEF Ascending
  <2>2. QED  BY <2>1, Nodes
<1>2. n \in 0..(n + 1) /\ n + 1 \in 0..(n + 1) /\ n # n + 1
  BY <1>1
<1>3. /\ x \in DOMAIN h /\ y \in DOMAIN h /\ x # y /\ y = Node(e, n, n + 1)
      /\ \A m \in 0..(n + 1) : (Node(e, n, m) = x <=> m = n) /\ (Node(e, n, m) = y <=> m = n + 1)
  BY <1>1, <1>2
<1>4. h[x] \in Header
  BY <1>3 DEF Tiles
<1> HIDE DEF x, y
<1>5. ASSUME NEW g, g = [h EXCEPT ![x].mp_next = r, ![y].mp_prev = r]
      PROVE  Relinked(h, g, e, n, n, r, h[x].size)
  <2>1. PICK g1 : g1 = [h EXCEPT ![x] = [h[x] EXCEPT !.mp_next = r]]
    OBVIOUS
  <2>2. g = [g1 EXCEPT ![y] = [g1[y] EXCEPT !.mp_prev = r]]
    BY <1>5, <2>1
  <2>3. /\ DOMAIN g1 = DOMAIN h /\ g1[x] = [h[x] EXCEPT !.mp_next = r]
        /\ \A a \in DOMAIN h : a # x => g1[a] = h[a]
    BY <1>3, <2>1
  <2>4. /\ DOMAIN g = DOMAIN h /\ g[y] = [g1[y] EXCEPT !.mp_prev = r]
        /\ \A a \in DOMAIN h : a # y => g[a] = g1[a]
    BY <1>3, <2>2, <2>3
  <2>5. g[x] = [h[x] EXCEPT !.size = h[x].size, !.mp_next = r]
    <3>1. [h[x] EXCEPT !.size = h[x].size] = h[x]
      BY <1>4 DEF Header
    <3>2. g[x] = [h[x] EXCEPT !.mp_next = r]
      BY <1>3, <2>3, <2>4
    <3>3. PICK f : f = [h[x] EXCEPT !.size = h[x].size]
      OBVIOUS
    <3>4. [h[x] EXCEPT !.size = h[x].size, !.mp_next = r] = [f EXCEPT !.mp_next = r]
      BY <3>3
    <3>5. QED  BY <3>1, <3>2, <3>3, <3>4
  <2>6. g[y] = [h[y] EXCEPT !.mp_prev = r]
    BY <1>3, <2>3, <2>4
  <2>7. \A a \in DOMAIN h : a # x /\ a # y => g[a] = h[a]
    BY <2>3, <2>4
  <2>8. ASSUME NEW m \in 0..(n + 1)
        PROVE  g[Node(e, n, m)] =
                 IF m = n THEN [h[Node(e, n, m)] EXCEPT !.size = h[x].size, !.mp_next = r]
                 ELSE IF m = n + 1 THEN [h[Node(e, n, m)] EXCEPT !.mp_prev = r]
                 ELSE h[Node(e, n, m)]
    <3>1. CASE m = n
      BY <2>5, <3>1 DEF x
    <3>2. CASE m = n + 1
      BY <1>2, <1>3, <2>6, <3>2
    <3>3. CASE m # n /\ m # n + 1
      BY <1>1, <1>3, <2>7, <3>3
    <3>4. QED  BY <3>1, <3>2, <3>3
  <2>9. QED  BY <2>4, <2>8 DEF Relinked
<1>6. QED  BY <1>5 DEF x, y

\* An address inside a chunk is not that of a chunk or a sentinel.
LEMMA FreshAddress ==
  ASSUME NEW n \in Nat, NEW e, Ascending(e, n), NEW i \in 1..n, NEW r \in Nat, Inside(e, i, r)
  PROVE  r \notin Addresses(e, n)
<1>1. H \in Nat /\ H > 0 /\ e[i] \in Nat /\ e[i + 1] \in Nat /\ e[i] >= 2 * H
  <2>1. i \in 1..(n + 1) /\ i + 1 \in 1..(n + 1)
    OBVIOUS
  <2>2. QED  BY <2>1, Apart
<1>2. e[i] < r /\ r < e[i + 1] /\ r # mem_head /\ r # mem_tail
  BY <1>1 DEF Inside, mem_head, mem_tail
<1>3. ASSUME NEW m \in 1..n PROVE e[m] # r
  <2>1. m \in 1..(n + 1) /\ i \in 1..(n + 1) /\ i + 1 \in 1..(n + 1)
    OBVIOUS
  <2>2. e[m] \in Nat
    BY <2>1, Apart
  <2>3. CASE m < i
    <3>1. e[m] + H <= e[i]
      BY <2>1, <2>3 DEF Ascending
    <3>2. QED  BY <1>1, <1>2, <2>2, <3>1
  <2>4. CASE m = i
    BY <1>1, <1>2, <2>4
  <2>5. CASE m = i + 1
    BY <1>1, <1>2, <2>5
  <2>6. CASE m > i + 1
    <3>1. e[i + 1] + H <= e[m]
      BY <2>1, <2>6 DEF Ascending
    <3>2. QED  BY <1>1, <1>2, <2>2, <3>1
  <2>7. QED  BY <2>3, <2>4, <2>5, <2>6
<1>4. QED  BY <1>2, <1>3 DEF Addresses

\* A merged run, from address x to y, from which a rest is split off.
LEMMA SplitRun ==
  ASSUME NEW n \in Nat, NEW e, Chain(hdr, brk, e, n), Held(hdr, live),
         NEW i \in 1..n, NEW j \in i..n, AllFree(i, j), NEW size \in Nat, NEW q \in Nat, q <= size,
         NEW x \in Nat, x = e[i], NEW y \in Nat, y = e[j + 1], NEW t \in Nat, H \in Nat, H > 0,
         y = x + H + size + H + t
  PROVE  /\ Listed(Split(i, j, size), brk)
         /\ Held(Split(i, j, size), With(live, Nth[i] + H, q))
<1>1. PICK h : h = Merge(i, j)
  OBVIOUS
<1>2. PICK n2 : n2 = n - (j - i)
  OBVIOUS
<1>3. PICK e1 : e1 = [k \in 1..(n2 + 1) |-> IF k <= i THEN e[k] ELSE e[k + (j - i)]]
  OBVIOUS
<1>4. j < n
  BY MergeFields
<1>5. /\ Chain(h, brk, e1, n2)
      /\ n2 \in Nat /\ i \in 1..n2 /\ i + 1 \in 1..n2
      /\ e1[i] = e[i] /\ e1[i + 1] = e[j + 1]
      /\ \A m \in 1..n : m \notin (i + 1)..j =>
           /\ h[e[m]].size = IF m = i THEN e[j + 1] - e[i] - H ELSE hdr[e[m]].size
           /\ h[e[m]].stat = IF m = i THEN 1 ELSE hdr[e[m]].stat
  <2>1. MergeParts(h, e, e1, n, n2, i, j)
    BY <1>1, <1>2, <1>3, MergeChain
  <2>2. QED  BY <2>1 DEF MergeParts
<1>6. h[e[i]].size = y - x - H
  <2>1. i \in 1..n /\ i \notin (i + 1)..j
    OBVIOUS
  <2>2. QED  BY <1>5, <2>1
<1>7. Nth[i] = x /\ Nth[j + 1] = y /\ Span(i, j) = y - x
  <2>1. j \in 1..n /\ j + 1 \in 1..n /\ i <= j + 1
    BY <1>4
  <2>2. Nth[i] = x /\ Nth[j + 1] = y
    BY <2>1, ReadList
  <2>3. Span(i, j) = y - x
    BY <2>1, SpanOfRun
  <2>4. QED  BY <2>2, <2>3
<1>8. PICK r \in Nat : r = x + H + size
  OBVIOUS
<1>10. e1[i] = x /\ e1[i + 1] = y /\ h[e1[i]].size = size + H + t
  <2>1. y - x - H = size + H + t
    OBVIOUS
  <2>2. QED  BY <1>5, <1>6, <2>1
<1>11. i < n2 /\ i \in 0..n2 /\ Node(e1, n2, i) = x /\ Node(e1, n2, i + 1) = y
  <2>1. i < n2 /\ i \in 0..n2
    BY <1>5
  <2>2. Ascending(e1, n2) /\ Tiles(h, e1, n2)
    BY <1>5 DEF Chain
  <2>3. Node(e1, n2, i) = e1[i] /\ Node(e1, n2, i + 1) = e1[i + 1]
    <3>1. n2 \in Nat /\ i \in 1..n2 /\ i + 1 \in 1..n2
      BY <1>5
    <3>2. QED  BY <2>2, <3>1, Nodes
  <2>4. QED  BY <1>10, <2>1, <2>3
<1>12. PICK new : new = [size |-> t, stat |-> 0, mp_next |-> y, mp_prev |-> x]
  OBVIOUS
<1>13. Ascending(e1, n2) /\ Tiles(h, e1, n2)
  BY <1>5 DEF Chain
<1>14. r \notin DOMAIN h
  <2>1. Inside(e1, i, r)
    <3>1. x + H <= r /\ r + H <= y
      BY <1>8
    <3>2. QED  BY <1>10, <3>1 DEF Inside
  <2>2. QED  BY <1>5, <1>13, <2>1, FreshAddress DEF Tiles
<1>15. PICK g : g = [h EXCEPT ![Node(e1, n2, i)].size = size, ![Node(e1, n2, i)].mp_next = r,
                              ![Node(e1, n2, i + 1)].mp_prev = r]
  OBVIOUS
<1>16. Split(i, j, size) = With(g, r, new)
  <2>1. Nth[i] + H + size = r /\ Span(i, j) - H - size - H = t
    BY <1>7, <1>8
  <2>2. g = [h EXCEPT ![Nth[i]].size = size, ![Nth[i]].mp_next = r, ![Nth[j + 1]].mp_prev = r]
    BY <1>7, <1>11, <1>15
  <2>3. new = [size |-> t, stat |-> 0, mp_next |-> Nth[j + 1], mp_prev |-> Nth[i]]
    BY <1>7, <1>12
  <2>4. QED  BY <1>1, <2>1, <2>2, <2>3, Zenon DEF Split
<1>17. Spliced(h, With(g, r, new), e1, n2, i, r, new, size)
  <2>1. Relinked(h, g, e1, n2, i, r, size)
    BY <1>11, <1>13, <1>15, RelinkSplit
  <2>2. QED  BY <1>13, <1>14, <2>1, NewHeader
<1>18. Splits(h, With(g, r, new), e1, n2, i, r, new, size, t)
  <2>1. new \in Header /\ new.size = t /\ new.stat = 0 /\ new.mp_next = y /\ new.mp_prev = x
    BY <1>12 DEF Header
  <2>2. QED  BY <1>8, <1>10, <1>11, <1>17, <2>1 DEF Splits
<1>19. PICK e2 : SplitAt(e1, e2, n2, i, r)
  BY DEF SplitAt
<1>20. Chain(With(g, r, new), brk, e2, n2 + 1)
  BY <1>5, <1>18, <1>19, SplitChain
<1>21. Listed(With(g, r, new), brk)
  <2>1. n2 + 1 \in Nat /\ e2 \in [1..((n2 + 1) + 1) -> Nat]
    BY <1>5, <1>20 DEF Chain, Ascending
  <2>2. QED  BY <1>20, <2>1 DEF Listed
<1>22. PICK l : l = With(live, x + H, q)
  OBVIOUS
<1>23. Held(h, l)
  <2>1. q <= y - x - H
    OBVIOUS
  <2>2. QED  BY <1>1, <1>22, <2>1, MergeHeld
<1>24. e1[i] + H \in DOMAIN l => size >= l[e1[i] + H]
  <2>1. l[x + H] = q
    BY <1>22 DEF With
  <2>2. QED  BY <1>10, <2>1
<1>25. Held(With(g, r, new), l)
  BY <1>5, <1>18, <1>19, <1>23, <1>24, SplitHeld
<1>26. QED  BY <1>7, <1>16, <1>21, <1>22, <1>25

\* A new chunk of size s at the break b makes the list longer.
GrowAt(e, e2, n, b2) == e2 = [k \in 1..(n + 2) |-> IF k = n + 2 THEN b2 ELSE e[k]]

LEMMA GrowPlaces ==
  ASSUME NEW n \in Nat, NEW e, Ascending(e, n), NEW b \in Nat, b = e[n + 1], H \in Nat, H > 0,
         NEW b2 \in Nat, b + H <= b2, NEW e2, GrowAt(e, e2, n, b2)
  PROVE  /\ Ascending(e2, n + 1) /\ NewAt(e, e2, n, n, b) /\ e2[n + 2] = b2
         /\ \A k \in 1..(n + 1) : e2[k] = e[k]
         /\ b \notin Addresses(e, n)
<1>1. e2[n + 2] = b2 /\ e2 = [k \in 1..(n + 2) |-> e2[k]] /\ \A k \in 1..(n + 1) : e2[k] = e[k]
  <2>1. n + 2 \in 1..(n + 2) /\ \A k \in 1..(n + 1) : k \in 1..(n + 2) /\ k # n + 2
    OBVIOUS
  <2>2. QED  BY <2>1 DEF GrowAt
<1>2. \A k \in 1..(n + 2) : k \in 1..(n + 1) \/ k = n + 2
  OBVIOUS
<1>3. \A k \in 1..(n + 1) : e[k] \in Nat
  BY DEF Ascending
<1>4. \A k \in 1..(n + 2) : e2[k] \in Nat
  BY <1>1, <1>2, <1>3
<1>5. ASSUME NEW k \in 1..(n + 2), NEW m \in 1..(n + 2), k < m PROVE e2[k] + H <= e2[m]
  <2>1. k \in 1..(n + 1)
    BY <1>5
  <2>2. CASE m \in 1..(n + 1)
    <3>1. e[k] + H <= e[m]
      BY <1>5, <2>1, <2>2 DEF Ascending
    <3>2. QED  BY <1>1, <2>1, <2>2, <3>1
  <2>3. CASE m = n + 2
    <3>1. PICK x \in Nat : x = e[k]
      BY <1>3, <2>1
    <3>2. x <= b
      <4>1. CASE k = n + 1
        BY <3>1, <4>1
      <4>2. CASE k < n + 1
        <5>1. n + 1 \in 1..(n + 1)
          OBVIOUS
        <5>2. e[k] + H <= e[n + 1]
          BY <2>1, <4>2, <5>1 DEF Ascending
        <5>3. QED  BY <3>1, <5>2
      <4>3. QED  BY <2>1, <4>1, <4>2
    <3>3. x + H <= b2
      BY <3>2
    <3>4. QED  BY <1>1, <2>1, <2>3, <3>1, <3>3
  <2>4. QED  BY <1>2, <2>2, <2>3
<1>6. e2[1] = 2 * H
  <2>1. 1 \in 1..(n + 1) /\ e[1] = 2 * H
    BY DEF Ascending
  <2>2. QED  BY <1>1, <2>1
<1>7. e2 \in [1..(n + 2) -> Nat]
  BY <1>1, <1>4
<1>8. Ascending(e2, n + 1)
  <2>1. (n + 1) + 1 = n + 2 /\ n + 1 \in Nat
    OBVIOUS
  <2>2. QED  BY <1>5, <1>6, <1>7, <2>1 DEF Ascending
<1>9. NewAt(e, e2, n, n, b)
  <2>1. ASSUME NEW k \in 1..(n + 1)
        PROVE  e2[k] = IF k = n + 1 THEN b ELSE e[IF k <= n THEN k ELSE k - 1]
    <3>1. e2[k] = e[k]
      BY <1>1
    <3>2. k # n + 1 => k <= n
      OBVIOUS
    <3>3. QED  BY <3>1, <3>2
  <2>2. QED  BY <2>1 DEF NewAt
<1>10. b \notin Addresses(e, n)
  <2>1. n + 1 \in 1..(n + 1) /\ \A m \in 1..n : m \in 1..(n + 1) /\ m # n + 1
    OBVIOUS
  <2>2. b # mem_head /\ b # mem_tail /\ \A m \in 1..n : e[m] # b
    BY <2>1, Apart
  <2>3. QED  BY <2>2 DEF Addresses
<1>11. QED  BY <1>1, <1>8, <1>9, <1>10

\* malloc's headers of the longer list.
Grown(h, h2, e, n, b, s) ==
  h2 = With([h EXCEPT ![Node(e, n, n)].mp_next = b, ![mem_tail].mp_prev = b], b,
            [size |-> s, stat |-> 1, mp_next |-> mem_tail, mp_prev |-> Node(e, n, n)])

\* What the longer list is made of.
GrowParts(h, h2, e, e2, n, b, b2, s) ==
  /\ Ascending(e2, n + 1) /\ e2[n + 2] = b2 /\ e2[n + 1] = b
  /\ \A k \in 1..(n + 1) : e2[k] = e[k]
  /\ DOMAIN h2 = Addresses(e2, n + 1) /\ h2 \in [DOMAIN h2 -> Header]
  /\ Linked(h2, e2, n + 1) /\ h2[b].size = s /\ h2[b].stat = 1
  /\ \A m \in 1..n : h2[e[m]].size = h[e[m]].size /\ h2[e[m]].stat = h[e[m]].stat

LEMMA GrowFields ==
  ASSUME NEW h, NEW n \in Nat, NEW e, NEW b \in Nat, Chain(h, b, e, n), H \in Nat, H > 0,
         NEW s \in Nat, NEW b2 \in Nat, b2 = b + H + s, NEW e2, GrowAt(e, e2, n, b2), NEW h2,
         Grown(h, h2, e, n, b, s)
  PROVE  GrowParts(h, h2, e, e2, n, b, b2, s)
<1>1. Ascending(e, n) /\ Tiles(h, e, n) /\ Linked(h, e, n) /\ e[n + 1] = b
  BY DEF Chain
<1>2. /\ Ascending(e2, n + 1) /\ NewAt(e, e2, n, n, b) /\ e2[n + 2] = b2
      /\ \A k \in 1..(n + 1) : e2[k] = e[k]
      /\ b \notin Addresses(e, n)
  <2>1. b + H <= b2
    OBVIOUS
  <2>2. QED  BY <1>1, <2>1, GrowPlaces
<1>3. b \notin DOMAIN h
  BY <1>1, <1>2 DEF Tiles
<1>4. PICK new : new = [size |-> s, stat |-> 1, mp_next |-> mem_tail, mp_prev |-> Node(e, n, n)]
  OBVIOUS
<1>5. PICK g : g = [h EXCEPT ![Node(e, n, n)].mp_next = b, ![mem_tail].mp_prev = b]
  OBVIOUS
<1>6. PICK sz : sz = h[Node(e, n, n)].size
  OBVIOUS
<1>7. n \in 0..n /\ n \in 0..(n + 1) /\ n + 1 \in Nat /\ n + 1 > n /\ n + 1 \in 1..(n + 1)
  OBVIOUS
<1>8. /\ Node(e, n, n + 1) = mem_tail /\ Node(e, n, n) \in DOMAIN h
      /\ \A m \in 1..n : Node(e, n, m) = e[m]
  BY <1>1, <1>7, Nodes
<1>9. sz \in Nat /\ Node(e, n, n) \in Int
  <2>1. h[Node(e, n, n)] \in Header
    BY <1>1, <1>8 DEF Tiles
  <2>2. Node(e, n, n) \in Int
    <3>1. CASE n = 0
      BY <3>1 DEF Node, mem_head
    <3>2. CASE n # 0
      <4>1. n \in 1..n /\ n \in 1..(n + 1)
        BY <3>2
      <4>2. QED  BY <1>1, <1>8, <4>1 DEF Ascending
    <3>3. QED  BY <3>1, <3>2
  <2>3. QED  BY <1>6, <2>1, <2>2 DEF Header
<1>10. /\ new \in Header /\ new.mp_next = Node(e, n, n + 1) /\ new.mp_prev = Node(e, n, n)
       /\ new.size = s /\ new.stat = 1
  BY <1>4, <1>8, <1>9 DEF Header, mem_tail
<1>11. Spliced(h, h2, e, n, n, b, new, sz)
  <2>1. Relinked(h, g, e, n, n, b, sz)
    BY <1>1, <1>5, <1>6, RelinkGrow
  <2>2. h2 = With(g, b, new)
    BY <1>4, <1>5, Zenon DEF Grown
  <2>3. QED  BY <1>1, <1>3, <2>1, <2>2, NewHeader
<1>12. /\ DOMAIN h2 = Addresses(e2, n + 1) /\ h2 \in [DOMAIN h2 -> Header]
       /\ Linked(h2, e2, n + 1) /\ h2[b] = new
       /\ \A m \in 1..n : /\ h2[e[m]].size = IF m = n THEN sz ELSE h[e[m]].size
                          /\ h2[e[m]].stat = h[e[m]].stat
  <2>1. PICK i \in 0..n : i = n
    BY <1>7
  <2>2. /\ new.mp_next = Node(e, n, i + 1) /\ new.mp_prev = Node(e, n, i)
        /\ Spliced(h, h2, e, n, i, b, new, sz) /\ NewAt(e, e2, n, i, b)
    BY <1>2, <1>10, <1>11, <2>1
  <2>3. /\ DOMAIN h2 = Addresses(e2, n + 1) /\ h2 \in [DOMAIN h2 -> Header]
        /\ Linked(h2, e2, n + 1) /\ e2[i + 1] = b /\ h2[b] = new
        /\ \A m \in 1..n : /\ h2[e[m]].size = IF m = i THEN sz ELSE h[e[m]].size
                           /\ h2[e[m]].stat = h[e[m]].stat
    BY <1>1, <1>2, <1>9, <1>10, <2>2, Splice
  <2>4. QED  BY <2>1, <2>3
<1>13. \A m \in 1..n : h2[e[m]].size = h[e[m]].size /\ h2[e[m]].stat = h[e[m]].stat
  BY <1>6, <1>8, <1>12
<1>14. e2[n + 1] = b
  BY <1>1, <1>2, <1>7
<1>15. QED  BY <1>2, <1>10, <1>12, <1>13, <1>14 DEF GrowParts

\* The longer list tiles the heap up to the new break, and the program holds the
\* new chunk as well.
LEMMA GrowRun ==
  ASSUME NEW n \in Nat, NEW e, Chain(hdr, brk, e, n), Held(hdr, live), H \in Nat, H > 0,
         NEW s \in Nat, NEW q \in Nat, q <= s, NEW b2 \in Nat, brk \in Nat, b2 = brk + H + s, NEW h2,
         Grown(hdr, h2, e, n, brk, s)
  PROVE  Listed(h2, b2) /\ Held(h2, With(live, brk + H, q))
<1>1. PICK e2 : GrowAt(e, e2, n, b2)
  BY DEF GrowAt
<1>2. GrowParts(hdr, h2, e, e2, n, brk, b2, s)
  BY <1>1, GrowFields
<1>3. /\ Ascending(e2, n + 1) /\ e2[n + 2] = b2 /\ e2[n + 1] = brk
      /\ \A k \in 1..(n + 1) : e2[k] = e[k]
      /\ DOMAIN h2 = Addresses(e2, n + 1) /\ h2 \in [DOMAIN h2 -> Header]
      /\ Linked(h2, e2, n + 1) /\ h2[brk].size = s /\ h2[brk].stat = 1
      /\ \A m \in 1..n : h2[e[m]].size = hdr[e[m]].size /\ h2[e[m]].stat = hdr[e[m]].stat
  BY <1>2 DEF GrowParts
<1>4. \A k \in 1..n : e[k + 1] = e[k] + H + hdr[e[k]].size
  BY DEF Chain, Tiles
<1>5. /\ (n + 1) + 1 = n + 2 /\ n + 1 \in 1..(n + 1)
      /\ \A k \in 1..n : k \in 1..(n + 1) /\ k + 1 \in 1..(n + 1) /\ k # n + 1
      /\ \A k \in 1..(n + 1) : k \in 1..n \/ k = n + 1
  OBVIOUS
<1>6. ASSUME NEW k \in 1..(n + 1) PROVE e2[k + 1] = e2[k] + H + h2[e2[k]].size
  <2>1. CASE k = n + 1
    BY <1>3, <1>5, <2>1
  <2>2. CASE k \in 1..n
    <3>1. e2[k] = e[k] /\ e2[k + 1] = e[k + 1] /\ h2[e[k]].size = hdr[e[k]].size
      BY <1>3, <1>5, <2>2
    <3>2. e[k + 1] = e[k] + H + hdr[e[k]].size
      BY <1>4, <2>2
    <3>3. QED  BY <3>1, <3>2
  <2>3. QED  BY <1>5, <2>1, <2>2
<1>7. Tiles(h2, e2, n + 1)
  BY <1>3, <1>6 DEF Tiles
<1>8. e2[(n + 1) + 1] = b2 /\ LastInUse(h2, e2, n + 1)
  BY <1>3, <1>5 DEF LastInUse
<1>9. Chain(h2, b2, e2, n + 1)
  BY <1>3, <1>7, <1>8 DEF Chain
<1>10. Listed(h2, b2)
  <2>1. n + 1 \in Nat /\ e2 \in [1..((n + 1) + 1) -> Nat]
    BY <1>3 DEF Ascending
  <2>2. QED  BY <1>9, <2>1 DEF Listed
<1>11. /\ \A p : p \in DOMAIN live <=> \E m \in 1..n : p = e[m] + H /\ hdr[e[m]].stat # 0
       /\ \A m \in 1..n : e[m] + H \in DOMAIN live => hdr[e[m]].size >= live[e[m] + H]
  BY HeldChunks DEF Chain
<1>12. PICK l : l = With(live, brk + H, q)
  OBVIOUS
<1>13. /\ DOMAIN l = DOMAIN live \cup {brk + H} /\ l[brk + H] = q
       /\ \A p \in DOMAIN live : p # brk + H => l[p] = live[p]
  BY <1>12 DEF With
<1>14. \A m \in 1..n : e[m] + H # brk + H
  <2>1. /\ \A k \in 1..(n + 1) : e[k] \in Nat
        /\ \A k, m \in 1..(n + 1) : e[k] = e[m] => k = m
    BY Apart DEF Chain
  <2>2. e[n + 1] = brk
    BY DEF Chain
  <2>3. \A m \in 1..n : e[m] # brk /\ e[m] \in Nat
    BY <1>5, <2>1, <2>2
  <2>4. QED  BY <2>3, SameChunk
<1>15. ASSUME NEW p
       PROVE  p \in DOMAIN l <=> \E k \in 1..(n + 1) : p = e2[k] + H /\ h2[e2[k]].stat # 0
  <2>1. ASSUME NEW k \in 1..(n + 1), p = e2[k] + H, h2[e2[k]].stat # 0 PROVE p \in DOMAIN l
    <3>1. CASE k = n + 1
      BY <1>3, <1>13, <2>1, <3>1
    <3>2. CASE k \in 1..n
      <4>1. p = e[k] + H /\ hdr[e[k]].stat # 0
        BY <1>3, <1>5, <2>1, <3>2
      <4>2. QED  BY <1>11, <1>13, <3>2, <4>1
    <3>3. QED  BY <1>5, <3>1, <3>2
  <2>2. ASSUME p \in DOMAIN l PROVE \E k \in 1..(n + 1) : p = e2[k] + H /\ h2[e2[k]].stat # 0
    <3>1. CASE p = brk + H
      <4>1. h2[e2[n + 1]].stat # 0
        BY <1>3
      <4>2. QED  BY <1>3, <1>5, <3>1, <4>1
    <3>2. CASE p \in DOMAIN live
      <4>1. PICK m \in 1..n : p = e[m] + H /\ hdr[e[m]].stat # 0
        BY <1>11, <3>2
      <4>2. m \in 1..(n + 1) /\ p = e2[m] + H /\ h2[e2[m]].stat # 0
        BY <1>3, <1>5, <4>1
      <4>3. QED  BY <4>2
    <3>3. QED  BY <1>13, <2>2, <3>1, <3>2
  <2>3. QED  BY <2>1, <2>2
<1>16. ASSUME NEW k \in 1..(n + 1), e2[k] + H \in DOMAIN l PROVE h2[e2[k]].size >= l[e2[k] + H]
  <2>1. CASE k = n + 1
    BY <1>3, <1>13, <2>1
  <2>2. CASE k \in 1..n
    <3>1. e2[k] = e[k] /\ e[k] + H # brk + H /\ h2[e2[k]].size = hdr[e[k]].size
      BY <1>3, <1>5, <1>14, <2>2
    <3>2. e[k] + H \in DOMAIN live /\ l[e[k] + H] = live[e[k] + H]
      BY <1>13, <1>16, <3>1
    <3>3. QED  BY <1>11, <2>2, <3>1, <3>2
  <2>3. QED  BY <1>5, <2>1, <2>2
<1>17. Held(h2, l)
  BY <1>3, <1>7, <1>15, <1>16, HeldChunks
<1>18. QED  BY <1>10, <1>12, <1>17

-----------------------------------------------------------------------------
(* free *)

\* free finds the chunk of a pointer in the list.
LEMMA PositionOf ==
  ASSUME NEW e, NEW n, Chain(hdr, brk, e, n), NEW m \in 1..n
  PROVE  Position(e[m]) = m
<1>1. Count = n /\ n \in Nat /\ \A i \in 1..n : Nth[i] = e[i]
  BY ReadList
<1>2. \A i \in 1..n : e[i] = e[m] => i = m
  <2>1. \A i \in 1..n : i \in 1..(n + 1)
    BY <1>1
  <2>2. QED  BY <2>1, Apart DEF Chain
<1>3. QED  BY <1>1, <1>2 DEF Position

\* A pointer the program holds is that of a chunk in use.
LEMMA HeldPointer ==
  ASSUME NEW e, NEW n, Chain(hdr, brk, e, n), Held(hdr, live), NEW p \in DOMAIN live
  PROVE  \E m \in 1..n : p = e[m] + H /\ p - H = e[m] /\ hdr[e[m]].stat # 0
<1>1. PICK m \in 1..n : p = e[m] + H /\ hdr[e[m]].stat # 0
  BY HeldChunks DEF Chain
<1>2. H \in Nat /\ e[m] \in Nat
  <2>1. n \in Nat
    BY DEF Chain, Ascending
  <2>2. m \in 1..(n + 1)
    BY <2>1
  <2>3. QED  BY <2>2, SizeAssumption DEF Chain, Ascending
<1>3. p - H = e[m]
  BY <1>1, <1>2
<1>4. QED  BY <1>1, <1>3

\* The headers when the chunk at a is free, and the memory held without the pointer p.
Freed(h2, a) == h2 = [hdr EXCEPT ![a].stat = 0]
Without(l2, p) == l2 = [q \in DOMAIN live \ {p} |-> live[q]]

\* A chunk that is not the last stays in the list as a free one.
LEMMA FreeKeeps ==
  ASSUME NEW n \in Nat, NEW e, Chain(hdr, brk, e, n), Held(hdr, live), NEW m \in 1..n, m < n,
         NEW h2, Freed(h2, e[m]), NEW l2, Without(l2, e[m] + H)
  PROVE  Chain(h2, brk, e, n) /\ Held(h2, l2)
<1>1. Ascending(e, n) /\ Tiles(hdr, e, n) /\ Linked(hdr, e, n) /\ e[n + 1] = brk /\ LastInUse(hdr, e, n)
  BY DEF Chain
<1>2. DOMAIN hdr = Addresses(e, n) /\ hdr \in [DOMAIN hdr -> Header] /\ e[m] \in DOMAIN hdr
  BY <1>1 DEF Tiles, Addresses
<1>3. /\ DOMAIN h2 = DOMAIN hdr /\ h2 = [a \in DOMAIN h2 |-> h2[a]]
      /\ h2[e[m]] = [hdr[e[m]] EXCEPT !.stat = 0]
      /\ \A a \in DOMAIN hdr : a # e[m] => h2[a] = hdr[a]
  BY <1>2 DEF Freed
<1>4. ASSUME NEW a \in DOMAIN hdr
      PROVE  /\ h2[a] \in Header /\ h2[a].size = hdr[a].size
             /\ h2[a].mp_next = hdr[a].mp_next /\ h2[a].mp_prev = hdr[a].mp_prev
             /\ h2[a].stat = IF a = e[m] THEN 0 ELSE hdr[a].stat
  <2>1. hdr[a] \in Header
    BY <1>2
  <2>2. CASE a = e[m]
    BY <1>3, <2>1, <2>2 DEF Header
  <2>3. CASE a # e[m]
    BY <1>3, <2>1, <2>3
  <2>4. QED  BY <2>2, <2>3
<1>5. \A k \in 0..(n + 1) : Node(e, n, k) \in DOMAIN hdr
  BY <1>1, Nodes
<1>6. \A k \in 1..n : e[k] \in DOMAIN hdr
  BY <1>2 DEF Addresses
<1>7. \A k \in 1..n : e[k] = e[m] => k = m
  <2>1. \A k \in 1..n : k \in 1..(n + 1)
    OBVIOUS
  <2>2. QED  BY <1>1, <2>1, Apart
<1>8. Tiles(h2, e, n)
  <2>1. \A k \in 1..n : e[k + 1] = e[k] + H + hdr[e[k]].size
    BY <1>1 DEF Tiles
  <2>2. \A k \in 1..n : e[k + 1] = e[k] + H + h2[e[k]].size
    BY <1>4, <1>6, <2>1
  <2>3. h2 \in [DOMAIN h2 -> Header]
    BY <1>3, <1>4
  <2>4. QED  BY <1>2, <1>3, <2>2, <2>3 DEF Tiles
<1>9. Linked(h2, e, n)
  <2>1. \A k \in 0..n : Node(e, n, k) \in DOMAIN hdr /\ Node(e, n, k + 1) \in DOMAIN hdr
    <3>1. \A k \in 0..n : k \in 0..(n + 1) /\ k + 1 \in 0..(n + 1)
      OBVIOUS
    <3>2. QED  BY <1>5, <3>1
  <2>2. QED  BY <1>1, <1>4, <2>1 DEF Linked
<1>10. LastInUse(h2, e, n)
  <2>1. n \in 1..n /\ n # m
    OBVIOUS
  <2>2. e[n] # e[m] /\ e[n] \in DOMAIN hdr
    BY <1>6, <1>7, <2>1
  <2>3. QED  BY <1>1, <1>4, <2>2 DEF LastInUse
<1>11. Chain(h2, brk, e, n)
  BY <1>1, <1>8, <1>9, <1>10 DEF Chain
<1>12. /\ \A p : p \in DOMAIN live <=> \E k \in 1..n : p = e[k] + H /\ hdr[e[k]].stat # 0
       /\ \A k \in 1..n : e[k] + H \in DOMAIN live => hdr[e[k]].size >= live[e[k] + H]
  BY <1>1, HeldChunks
<1>13. DOMAIN l2 = DOMAIN live \ {e[m] + H} /\ \A p \in DOMAIN l2 : l2[p] = live[p]
  BY DEF Without
<1>14. \A k \in 1..n : k # m => e[k] + H # e[m] + H
  <2>1. \A k \in 1..n : e[k] \in Nat
    <3>1. \A k \in 1..n : k \in 1..(n + 1)
      OBVIOUS
    <3>2. QED  BY <1>1, <3>1, Apart
  <2>2. QED  BY <1>7, <2>1, SameChunk
<1>15. ASSUME NEW p
       PROVE  p \in DOMAIN l2 <=> \E k \in 1..n : p = e[k] + H /\ h2[e[k]].stat # 0
  <2>1. ASSUME p \in DOMAIN l2 PROVE \E k \in 1..n : p = e[k] + H /\ h2[e[k]].stat # 0
    <3>1. PICK k \in 1..n : p = e[k] + H /\ hdr[e[k]].stat # 0 /\ p # e[m] + H
      BY <1>12, <1>13, <2>1
    <3>2. e[k] # e[m]
      BY <3>1
    <3>3. QED  BY <1>4, <1>6, <3>1, <3>2
  <2>2. ASSUME NEW k \in 1..n, p = e[k] + H, h2[e[k]].stat # 0 PROVE p \in DOMAIN l2
    <3>1. e[k] # e[m] /\ hdr[e[k]].stat # 0
      BY <1>4, <1>6, <2>2
    <3>2. QED  BY <1>12, <1>13, <1>14, <2>2, <3>1
  <2>3. QED  BY <2>1, <2>2
<1>16. ASSUME NEW k \in 1..n, e[k] + H \in DOMAIN l2 PROVE h2[e[k]].size >= l2[e[k] + H]
  <2>1. e[k] + H \in DOMAIN live /\ l2[e[k] + H] = live[e[k] + H] /\ h2[e[k]].size = hdr[e[k]].size
    BY <1>4, <1>6, <1>13, <1>16
  <2>2. QED  BY <1>12, <2>1
<1>17. Held(h2, l2)
  BY <1>1, <1>8, <1>15, <1>16, HeldChunks
<1>18. QED  BY <1>11, <1>17

\* The free chunks before the last chunk start somewhere.
LEMMA FirstOfFree ==
  ASSUME NEW n \in Nat, n > 0
  PROVE  LET k == FirstFree(n)
         IN  k \in 1..n /\ AllFree(k, n - 1) /\ (k = 1 \/ ~IsFree(k - 1))
<1> DEFINE T == {k \in 1..n : AllFree(k, n - 1)}
<1>1. n \in T
  <2>1. n \in 1..n /\ ~ \E x \in n..(n - 1) : TRUE
    OBVIOUS
  <2>2. QED  BY <2>1 DEF AllFree
<1>2. T \subseteq Nat /\ T # {}
  BY <1>1
<1>3. PICK k \in T : \A x \in T : k <= x
  <2> HIDE DEF T
  <2>1. QED  BY <1>2, LeastElement
<1>4. k \in 1..n /\ AllFree(k, n - 1)
  OBVIOUS
<1>5. ASSUME k # 1, IsFree(k - 1) PROVE FALSE
  <2>1. k - 1 \in 1..n /\ ~(k <= k - 1) /\ \A x \in (k - 1)..(n - 1) : x = k - 1 \/ x \in k..(n - 1)
    BY <1>4, <1>5
  <2>2. AllFree(k - 1, n - 1)
    BY <1>4, <1>5, <2>1 DEF AllFree
  <2>3. QED  BY <1>3, <2>1, <2>2
<1>6. \E x \in 1..n : AllFree(x, n - 1) /\ (x = 1 \/ ~IsFree(x - 1))
  BY <1>4, <1>5
<1>7. QED  BY <1>6 DEF FirstFree

\* The chunks behind node i leave the list.
Cut(h2, e, n, i) ==
  h2 = [a \in DOMAIN hdr \ {Node(e, n, m) : m \in (i + 1)..n} |->
          IF a = Node(e, n, i) THEN [hdr[a] EXCEPT !.mp_next = mem_tail]
          ELSE IF a = mem_tail THEN [hdr[a] EXCEPT !.mp_prev = Node(e, n, i)]
          ELSE hdr[a]]

CutParts(h2, e, n, i) ==
  /\ \A a : a \in DOMAIN h2 <=> \E m \in 0..(n + 1) : a = Node(e, n, m) /\ m \notin (i + 1)..n
  /\ h2 \in [DOMAIN h2 -> Header]
  /\ Joined(hdr, h2, e, n, i, n)
  /\ \A m \in 1..i : h2[e[m]].size = hdr[e[m]].size /\ h2[e[m]].stat = hdr[e[m]].stat

LEMMA CutFields ==
  ASSUME NEW n \in Nat, NEW e, Chain(hdr, brk, e, n), NEW i \in 0..n, NEW h2, Cut(h2, e, n, i)
  PROVE  CutParts(h2, e, n, i)
<1> DEFINE gone == {Node(e, n, m) : m \in (i + 1)..n}
           x == Node(e, n, i)
<1>1. Ascending(e, n) /\ Tiles(hdr, e, n)
  BY DEF Chain
<1>2. /\ \A m \in 0..(n + 1) : Node(e, n, m) \in DOMAIN hdr
      /\ \A k, m \in 0..(n + 1) : Node(e, n, k) = Node(e, n, m) => k = m
      /\ \A a \in DOMAIN hdr : \E m \in 0..(n + 1) : a = Node(e, n, m)
      /\ \A m \in 1..n : Node(e, n, m) = e[m]
      /\ Node(e, n, n + 1) = mem_tail
  <2>1. n + 1 \in Nat /\ n + 1 > n
    OBVIOUS
  <2>2. QED  BY <1>1, <2>1, Nodes
<1>3. /\ i \in 0..(n + 1) /\ n + 1 \in 0..(n + 1) /\ i # n + 1
      /\ \A m \in (i + 1)..n : m \in 0..(n + 1)
      /\ \A m \in 1..i : m \in 1..n /\ m \in 0..(n + 1) /\ m \notin (i + 1)..n
  OBVIOUS
<1>4. \A m \in 0..(n + 1) : Node(e, n, m) \in gone <=> m \in (i + 1)..n
  BY <1>2, <1>3
<1>5. \A m \in 0..(n + 1) : (Node(e, n, m) = x <=> m = i) /\ (Node(e, n, m) = mem_tail <=> m = n + 1)
  BY <1>2, <1>3
<1>6. x \in Int
  <2>1. CASE i = 0
    BY <2>1 DEF Node, mem_head
  <2>2. CASE i # 0
    <3>1. i \in 1..n /\ i \in 1..(n + 1)
      BY <2>2
    <3>2. e[i] \in Nat
      BY <1>1, <3>1 DEF Ascending
    <3>3. QED  BY <1>2, <3>1, <3>2
  <2>3. QED  BY <2>1, <2>2
<1>T. mem_tail \in Int
  BY SizeAssumption DEF mem_tail
<1>7. h2 = [a \in DOMAIN hdr \ gone |->
              IF a = x THEN [hdr[a] EXCEPT !.mp_next = mem_tail]
              ELSE IF a = mem_tail THEN [hdr[a] EXCEPT !.mp_prev = x]
              ELSE hdr[a]]
  BY DEF Cut
<1> HIDE DEF gone, x
<1>8. DOMAIN h2 = DOMAIN hdr \ gone /\ h2 = [a \in DOMAIN h2 |-> h2[a]]
  <2> DEFINE G(a) == IF a = x THEN [hdr[a] EXCEPT !.mp_next = mem_tail]
                     ELSE IF a = mem_tail THEN [hdr[a] EXCEPT !.mp_prev = x]
                     ELSE hdr[a]
  <2>1. h2 = [a \in DOMAIN hdr \ gone |-> G(a)]
    BY <1>7
  <2> HIDE DEF G
  <2>2. QED  BY <2>1
<1>9. ASSUME NEW m \in 0..(n + 1), m \notin (i + 1)..n
      PROVE  /\ Node(e, n, m) \in DOMAIN h2
             /\ h2[Node(e, n, m)] \in Header
             /\ h2[Node(e, n, m)].size = hdr[Node(e, n, m)].size
             /\ h2[Node(e, n, m)].stat = hdr[Node(e, n, m)].stat
             /\ h2[Node(e, n, m)].mp_next = IF m = i THEN mem_tail ELSE hdr[Node(e, n, m)].mp_next
             /\ h2[Node(e, n, m)].mp_prev = IF m = n + 1 THEN x ELSE hdr[Node(e, n, m)].mp_prev
  <2>1. PICK a : a = Node(e, n, m)
    OBVIOUS
  <2>2. a \in DOMAIN hdr \ gone /\ (a = x <=> m = i) /\ (a = mem_tail <=> m = n + 1)
    BY <1>2, <1>4, <1>5, <1>9, <2>1
  <2>3. PICK f \in Header : f = hdr[a]
    BY <1>1, <2>2 DEF Tiles
  <2>4. h2[a] = IF a = x THEN [f EXCEPT !.mp_next = mem_tail]
                ELSE IF a = mem_tail THEN [f EXCEPT !.mp_prev = x] ELSE f
    BY <1>7, <2>2, <2>3
  <2>5. CASE m = i
    <3>1. h2[a] = [f EXCEPT !.mp_next = mem_tail] /\ m # n + 1
      BY <1>3, <2>2, <2>4, <2>5
    <3>2. QED  BY <1>8, <1>T, <2>1, <2>2, <2>3, <2>5, <3>1 DEF Header
  <2>6. CASE m # i /\ m = n + 1
    <3>1. h2[a] = [f EXCEPT !.mp_prev = x]
      BY <2>2, <2>4, <2>6
    <3>2. QED  BY <1>6, <1>8, <2>1, <2>2, <2>3, <2>6, <3>1 DEF Header
  <2>7. CASE m # i /\ m # n + 1
    <3>1. h2[a] = f
      BY <2>2, <2>4, <2>7
    <3>2. QED  BY <1>8, <2>1, <2>2, <2>3, <2>7, <3>1
  <2>8. QED  BY <2>5, <2>6, <2>7
<1>10. ASSUME NEW a \in DOMAIN h2
       PROVE  \E m \in 0..(n + 1) : a = Node(e, n, m) /\ m \notin (i + 1)..n
  <2>1. PICK m \in 0..(n + 1) : a = Node(e, n, m)
    BY <1>2, <1>8
  <2>2. QED  BY <1>4, <1>8, <2>1
<1>11. \A a : a \in DOMAIN h2 <=> \E m \in 0..(n + 1) : a = Node(e, n, m) /\ m \notin (i + 1)..n
  BY <1>9, <1>10
<1>12. h2 \in [DOMAIN h2 -> Header]
  <2>1. \A a \in DOMAIN h2 : h2[a] \in Header
    BY <1>9, <1>10
  <2>2. QED  BY <1>8, <2>1
<1>13. Joined(hdr, h2, e, n, i, n)
  BY <1>2, <1>9 DEF Joined, x
<1>14. \A m \in 1..i : h2[e[m]].size = hdr[e[m]].size /\ h2[e[m]].stat = hdr[e[m]].stat
  BY <1>2, <1>3, <1>9
<1>15. QED  BY <1>11, <1>12, <1>13, <1>14 DEF CutParts

\* Without its last chunks the list tiles a smaller heap.
LEMMA CutChain ==
  ASSUME NEW n \in Nat, NEW e, Chain(hdr, brk, e, n), NEW i \in 0..n, NEW h2, Cut(h2, e, n, i),
         i > 0 => hdr[e[i]].stat = 1, NEW e2, e2 = [k \in 1..(i + 1) |-> e[k]]
  PROVE  Chain(h2, e[i + 1], e2, i)
<1>1. Ascending(e, n) /\ Tiles(hdr, e, n) /\ Linked(hdr, e, n)
  BY DEF Chain
<1>2. /\ \A a : a \in DOMAIN h2 <=> \E m \in 0..(n + 1) : a = Node(e, n, m) /\ m \notin (i + 1)..n
      /\ h2 \in [DOMAIN h2 -> Header]
      /\ Joined(hdr, h2, e, n, i, n)
      /\ \A m \in 1..i : h2[e[m]].size = hdr[e[m]].size /\ h2[e[m]].stat = hdr[e[m]].stat
  BY CutFields DEF CutParts
<1>3. /\ \A k \in 1..(i + 1) : k \in 1..(n + 1) /\ e2[k] = e[k]
      /\ 1 \in 1..(i + 1) /\ i + 1 \in 1..(i + 1) /\ i \in Nat /\ n - (n - i) = i
      /\ \A k \in 1..i : k \in 1..(i + 1) /\ k + 1 \in 1..(i + 1) /\ k \in 1..n
  OBVIOUS
<1>4. Ascending(e2, i)
  <2>1. e2 \in [1..(i + 1) -> Nat]
    BY <1>1, <1>3 DEF Ascending
  <2>2. e2[1] = 2 * H
    BY <1>1, <1>3 DEF Ascending
  <2>3. ASSUME NEW k \in 1..(i + 1), NEW m \in 1..(i + 1), k < m PROVE e2[k] + H <= e2[m]
    BY <1>1, <1>3, <2>3 DEF Ascending
  <2>4. QED  BY <1>3, <2>1, <2>2, <2>3 DEF Ascending
<1>5. \A k \in 0..(i + 1) : Node(e2, i, k) = Node(e, n, IF k <= i THEN k ELSE k + (n - i))
  <2> SUFFICES ASSUME NEW k \in 0..(i + 1)
               PROVE  Node(e2, i, k) = Node(e, n, IF k <= i THEN k ELSE k + (n - i))
    OBVIOUS
  <2>1. CASE k = 0
    BY <2>1 DEF Node
  <2>2. CASE k \in 1..i
    <3>1. Node(e2, i, k) = e2[k] /\ Node(e, n, k) = e[k] /\ k <= i
      BY <2>2 DEF Node
    <3>2. QED  BY <1>3, <2>2, <3>1
  <2>3. CASE k = i + 1
    <3>1. ~(k <= i) /\ k # 0 /\ k + (n - i) = n + 1 /\ n + 1 # 0 /\ ~(n + 1 <= n)
      BY <2>3
    <3>2. Node(e2, i, k) = mem_tail /\ Node(e, n, n + 1) = mem_tail
      BY <3>1 DEF Node
    <3>3. QED  BY <3>1, <3>2
  <2>4. QED  BY <2>1, <2>2, <2>3
<1>6. Linked(h2, e2, i)
  <2>1. MovedUp(e, e2, n, i, n)
    BY <1>3, <1>5 DEF MovedUp
  <2>2. n \in i..n
    OBVIOUS
  <2>3. Linked(h2, e2, n - (n - i))
    BY <1>1, <1>2, <2>1, <2>2, LinkRemove
  <2>4. QED  BY <1>3, <2>3
<1>7. DOMAIN h2 = Addresses(e2, i)
  <2>1. ASSUME NEW a, NEW k \in 0..(i + 1), a = Node(e2, i, k)
        PROVE  \E m \in 0..(n + 1) : a = Node(e, n, m) /\ m \notin (i + 1)..n
    <3>1. PICK m \in 0..(n + 1) : m = (IF k <= i THEN k ELSE k + (n - i)) /\ m \notin (i + 1)..n
      OBVIOUS
    <3>2. QED  BY <1>5, <2>1, <3>1
  <2>2. ASSUME NEW a, NEW m \in 0..(n + 1), a = Node(e, n, m), m \notin (i + 1)..n
        PROVE  \E k \in 0..(i + 1) : a = Node(e2, i, k)
    <3>1. PICK k \in 0..(i + 1) : m = IF k <= i THEN k ELSE k + (n - i)
      <4>1. CASE m <= i
        <5>1. m \in 0..(i + 1)
          BY <4>1
        <5>2. QED  BY <4>1, <5>1
      <4>2. CASE m = n + 1
        <5>1. i + 1 \in 0..(i + 1) /\ ~(i + 1 <= i) /\ (i + 1) + (n - i) = m
          BY <4>2
        <5>2. QED  BY <5>1
      <4>3. QED  BY <2>2, <4>1, <4>2
    <3>2. QED  BY <1>5, <2>2, <3>1
  <2>3. AtNodes(DOMAIN h2, e2, i)
    BY <1>2, <2>1, <2>2 DEF AtNodes
  <2>4. QED  BY <1>3, <2>3, NodeSet
<1>8. Tiles(h2, e2, i)
  <2>1. \A k \in 1..n : e[k + 1] = e[k] + H + hdr[e[k]].size
    BY <1>1 DEF Tiles
  <2>2. \A k \in 1..i : e2[k] = e[k] /\ e2[k + 1] = e[k + 1] /\ h2[e[k]].size = hdr[e[k]].size
    BY <1>2, <1>3
  <2>3. \A k \in 1..i : e2[k + 1] = e2[k] + H + h2[e2[k]].size
    BY <1>3, <2>1, <2>2
  <2>4. QED  BY <1>2, <1>7, <2>3 DEF Tiles
<1>9. LastInUse(h2, e2, i)
  <2>1. ASSUME i > 0 PROVE h2[e2[i]].stat = 1
    <3>1. i \in 1..i
      BY <2>1
    <3>2. QED  BY <1>2, <1>3, <2>1, <3>1
  <2>2. QED  BY <2>1 DEF LastInUse
<1>10. e2[i + 1] = e[i + 1]
  BY <1>3
<1>11. QED  BY <1>4, <1>6, <1>8, <1>9, <1>10 DEF Chain

\* The program holds the rest.
LEMMA CutHeld ==
  ASSUME NEW n \in Nat, NEW e, Chain(hdr, brk, e, n), Held(hdr, live), NEW i \in 0..n, i < n,
         NEW h2, Cut(h2, e, n, i), i > 0 => hdr[e[i]].stat = 1,
         \A k \in (i + 1)..(n - 1) : hdr[e[k]].stat = 0, NEW l2, Without(l2, e[n] + H)
  PROVE  Held(h2, l2)
<1>1. PICK e2 : e2 = [k \in 1..(i + 1) |-> e[k]]
  OBVIOUS
<1>2. Ascending(e2, i) /\ Tiles(h2, e2, i)
  BY <1>1, CutChain DEF Chain
<1>3. \A m \in 1..i : h2[e[m]].size = hdr[e[m]].size /\ h2[e[m]].stat = hdr[e[m]].stat
  BY CutFields DEF CutParts
<1>4. /\ \A k \in 1..i : k \in 1..n /\ k # n /\ e2[k] = e[k]
      /\ n \in 1..n /\ \A k \in 1..n : k \in 1..i \/ k \in (i + 1)..(n - 1) \/ k = n
  BY <1>1
<1>5. /\ \A p : p \in DOMAIN live <=> \E k \in 1..n : p = e[k] + H /\ hdr[e[k]].stat # 0
      /\ \A k \in 1..n : e[k] + H \in DOMAIN live => hdr[e[k]].size >= live[e[k] + H]
  BY HeldChunks DEF Chain
<1>6. DOMAIN l2 = DOMAIN live \ {e[n] + H} /\ \A p \in DOMAIN l2 : l2[p] = live[p]
  BY DEF Without
<1>7. \A k \in 1..n : k # n => e[k] + H # e[n] + H
  <2>1. \A k \in 1..n : k \in 1..(n + 1)
    OBVIOUS
  <2>2. \A k \in 1..n : e[k] \in Nat /\ (e[k] = e[n] => k = n)
    BY <1>4, <2>1, Apart DEF Chain
  <2>3. QED  BY <1>4, <2>2, SameChunk
<1>8. ASSUME NEW p
      PROVE  p \in DOMAIN l2 <=> \E k \in 1..i : p = e2[k] + H /\ h2[e2[k]].stat # 0
  <2>1. ASSUME p \in DOMAIN l2 PROVE \E k \in 1..i : p = e2[k] + H /\ h2[e2[k]].stat # 0
    <3>1. PICK k \in 1..n : p = e[k] + H /\ hdr[e[k]].stat # 0 /\ p # e[n] + H
      BY <1>5, <1>6, <2>1
    <3>2. k \in 1..i
      BY <1>4, <3>1
    <3>3. QED  BY <1>3, <1>4, <3>1, <3>2
  <2>2. ASSUME NEW k \in 1..i, p = e2[k] + H, h2[e2[k]].stat # 0 PROVE p \in DOMAIN l2
    <3>1. k \in 1..n /\ k # n /\ p = e[k] + H /\ hdr[e[k]].stat # 0
      BY <1>3, <1>4, <2>2
    <3>2. QED  BY <1>5, <1>6, <1>7, <3>1
  <2>3. QED  BY <2>1, <2>2
<1>9. ASSUME NEW k \in 1..i, e2[k] + H \in DOMAIN l2 PROVE h2[e2[k]].size >= l2[e2[k] + H]
  <2>1. /\ k \in 1..n /\ e2[k] = e[k] /\ h2[e2[k]].size = hdr[e[k]].size
        /\ e[k] + H \in DOMAIN live /\ l2[e[k] + H] = live[e[k] + H]
    BY <1>3, <1>4, <1>6, <1>9
  <2>2. QED  BY <1>5, <2>1
<1>10. QED  BY <1>2, <1>8, <1>9, HeldChunks

-----------------------------------------------------------------------------
(* The invariant *)

\* An empty heap is a list of no chunks.
LEMMA HeapInvInit == Init => HeapInv
<1> SUFFICES ASSUME Init PROVE HeapInv
  OBVIOUS
<1>1. /\ hdr = [a \in {mem_head, mem_tail} |->
                  [size |-> H, stat |-> 1,
                   mp_next |-> IF a = mem_head THEN mem_tail ELSE NULL,
                   mp_prev |-> IF a = mem_head THEN NULL ELSE mem_head]]
      /\ brk = 2 * H /\ live = <<>> /\ crashed = "no"
  BY DEF Init
<1>2. H \in Nat /\ H > 0 /\ mem_head = 0 /\ mem_tail = H /\ NULL \in Int
  BY SizeAssumption DEF mem_head, mem_tail, NULL
<1>3. PICK e : e = [k \in 1..(0 + 1) |-> 2 * H]
  OBVIOUS
<1>4. Ascending(e, 0) /\ e[0 + 1] = brk
  <2>1. e \in [1..(0 + 1) -> Nat] /\ e[1] = 2 * H
    BY <1>2, <1>3
  <2>2. \A i, j \in 1..(0 + 1) : ~(i < j)
    OBVIOUS
  <2>3. QED  BY <1>1, <2>1, <2>2 DEF Ascending
<1>5. Tiles(hdr, e, 0)
  <2>1. DOMAIN hdr = Addresses(e, 0)
    BY <1>1 DEF Addresses
  <2>2. hdr \in [DOMAIN hdr -> Header]
    BY <1>1, <1>2 DEF Header
  <2>3. QED  BY <2>1, <2>2 DEF Tiles
<1>6. Linked(hdr, e, 0)
  <2>1. Node(e, 0, 0) = mem_head /\ Node(e, 0, 1) = mem_tail
    BY DEF Node
  <2>2. hdr[mem_head].mp_next = mem_tail /\ hdr[mem_tail].mp_prev = mem_head
    BY <1>1, <1>2
  <2>3. \A i \in 0..0 : i = 0 /\ i + 1 = 1
    OBVIOUS
  <2>4. QED  BY <2>1, <2>2, <2>3 DEF Linked
<1>7. Listed(hdr, brk)
  <2>1. Chain(hdr, brk, e, 0)
    BY <1>4, <1>5, <1>6 DEF Chain, LastInUse
  <2>2. 0 \in Nat /\ e \in [1..(0 + 1) -> Nat]
    BY <1>4 DEF Ascending
  <2>3. QED  BY <2>1, <2>2 DEF Listed
<1>8. Held(hdr, live)
  <2>1. DOMAIN live = {}
    BY <1>1
  <2>2. DOMAIN hdr \ {mem_head, mem_tail} = {}
    BY <1>1
  <2>3. QED  BY <2>1, <2>2 DEF Held
<1>9. QED  BY <1>1, <1>7, <1>8 DEF HeapInv

\* A run found for a request is free, and its memory is that of the request or more.
LEMMA FoundRun ==
  ASSUME NEW n \in Nat, NEW e, Chain(hdr, brk, e, n), NEW i \in 1..Count, NEW j \in 1..Count,
         NEW size \in Nat, Found(size, i, j)
  PROVE  /\ i \in 1..n /\ j \in 1..n /\ j \in i..n /\ AllFree(i, j)
         /\ e[i] \in Nat /\ e[j + 1] \in Nat /\ Nth[i] = e[i]
         /\ Span(i, j) = e[j + 1] - e[i] /\ size <= e[j + 1] - e[i] - H
<1>1. i <= j /\ AllFree(i, j) /\ Span(i, j) - H >= size
  BY DEF Found, Fit, Fits
<1>2. Count = n /\ i \in 1..n /\ Nth[i] = e[i] /\ H \in Nat
  BY ReadList
<1>3. j \in 1..n /\ j \in i..n /\ i <= j + 1 /\ i \in 1..(n + 1) /\ j + 1 \in 1..(n + 1)
  BY <1>1, <1>2
<1>4. e[i] \in Nat /\ e[j + 1] \in Nat
  BY <1>3 DEF Chain, Ascending
<1>5. Span(i, j) = e[j + 1] - e[i]
  BY <1>2, <1>3, SpanOfRun
<1>6. size <= e[j + 1] - e[i] - H
  BY <1>1, <1>2, <1>4, <1>5
<1>7. QED  BY <1>1, <1>2, <1>3, <1>4, <1>5, <1>6

\* A run taken whole.
LEMMA WholeStep ==
  ASSUME HeapInv, NEW n \in Sizes, MallocWhole(n)
  PROVE  HeapInv'
<1>0. PICK m \in Nat : \E e \in [1..(m + 1) -> Nat] : Chain(hdr, brk, e, m)
  BY DEF HeapInv, Listed
<1>1. PICK e \in [1..(m + 1) -> Nat] : Chain(hdr, brk, e, m)
  BY <1>0
<1>2. PICK i \in 1..Count, j \in 1..Count :
        /\ Found(Round(n), i, j) /\ hdr' = Merge(i, j) /\ live' = With(live, Nth[i] + H, n)
        /\ brk' = brk /\ crashed' = crashed
  BY DEF MallocWhole, Give
<1>3. n \in Nat /\ Round(n) \in Nat /\ Round(n) >= n
  BY RoundUp, SizeAssumption
<1>4. /\ i \in 1..m /\ j \in i..m /\ AllFree(i, j) /\ Nth[i] = e[i]
      /\ e[i] \in Nat /\ e[j + 1] \in Nat /\ Round(n) <= e[j + 1] - e[i] - H
  BY <1>1, <1>2, <1>3, FoundRun
<1>5. n <= e[j + 1] - e[i] - H
  <2>1. H \in Nat
    BY SizeAssumption
  <2>2. QED  BY <1>3, <1>4, <2>1
<1>6. Held(hdr', live')
  <2>1. Held(Merge(i, j), With(live, e[i] + H, n))
    BY <1>1, <1>3, <1>4, <1>5, MergeHeld DEF HeapInv
  <2>2. QED  BY <1>2, <1>4, <2>1
<1>7. Listed(hdr', brk')
  <2>1. PICK m2 : m2 = m - (j - i)
    OBVIOUS
  <2>2. PICK e2 : e2 = [k \in 1..(m2 + 1) |-> IF k <= i THEN e[k] ELSE e[k + (j - i)]]
    OBVIOUS
  <2>3. MergeParts(hdr', e, e2, m, m2, i, j)
    BY <1>1, <1>2, <1>4, <2>1, <2>2, MergeChain
  <2>4. Chain(hdr', brk', e2, m2)
    BY <1>2, <2>3 DEF MergeParts
  <2>5. m2 \in Nat /\ e2 \in [1..(m2 + 1) -> Nat]
    BY <2>4 DEF Chain, Ascending
  <2>6. QED  BY <2>4, <2>5 DEF Listed
<1>8. QED  BY <1>2, <1>6, <1>7 DEF HeapInv

\* A run that is split.
LEMMA SplitStep ==
  ASSUME HeapInv, NEW n \in Sizes, MallocSplit(n)
  PROVE  HeapInv'
<1>0. PICK m \in Nat : \E e \in [1..(m + 1) -> Nat] : Chain(hdr, brk, e, m)
  BY DEF HeapInv, Listed
<1>1. PICK e \in [1..(m + 1) -> Nat] : Chain(hdr, brk, e, m)
  BY <1>0
<1>2. PICK i \in 1..Count, j \in 1..Count :
        /\ Found(Round(n), i, j) /\ Span(i, j) - H - Round(n) >= H + MinRest
        /\ hdr' = Split(i, j, Round(n)) /\ live' = With(live, Nth[i] + H, n)
        /\ brk' = brk /\ crashed' = crashed
  BY DEF MallocSplit, Give
<1>3. n \in Nat /\ Round(n) \in Nat /\ Round(n) >= n
  BY RoundUp, SizeAssumption
<1>4. /\ i \in 1..m /\ j \in i..m /\ AllFree(i, j)
      /\ e[i] \in Nat /\ e[j + 1] \in Nat /\ Span(i, j) = e[j + 1] - e[i]
  BY <1>1, <1>2, <1>3, FoundRun, ZenonT(60)
<1>5. PICK x \in Nat : x = e[i]
  BY <1>4
<1>6. PICK y \in Nat : y = e[j + 1]
  BY <1>4
<1>7. PICK s \in Nat : s = Round(n) /\ n <= s
  BY <1>3
<1>8. H \in Nat /\ H > 0 /\ MinRest \in Nat
  BY SizeAssumption
<1>9. (y - x) - H - s >= H + MinRest
  BY <1>2, <1>4, <1>5, <1>6, <1>7
<1>10. PICK t \in Nat : y = x + H + s + H + t
  <2>1. y - x - H - s - H \in Nat /\ y = x + H + s + H + (y - x - H - s - H)
    BY <1>8, <1>9
  <2>2. QED  BY <2>1
<1>11. Listed(Split(i, j, s), brk) /\ Held(Split(i, j, s), With(live, Nth[i] + H, n))
  <2>1. Held(hdr, live)
    BY DEF HeapInv
  <2>2. QED  BY <1>1, <1>3, <1>4, <1>5, <1>6, <1>7, <1>8, <1>10, <2>1, SplitRun, ZenonT(60)
<1>12. QED  BY <1>2, <1>7, <1>11 DEF HeapInv

\* A new chunk at the break.  The cursor never leaves the list, since the last
\* chunk is in use.
LEMMA GrowStep ==
  ASSUME HeapInv, NEW n \in Sizes, MallocGrow(n)
  PROVE  HeapInv'
<1>0. PICK m \in Nat : \E e \in [1..(m + 1) -> Nat] : Chain(hdr, brk, e, m)
  BY DEF HeapInv, Listed
<1>1. PICK e \in [1..(m + 1) -> Nat] : Chain(hdr, brk, e, m)
  BY <1>0
<1>2. Count = m /\ H \in Nat /\ H > 0 /\ \A k \in 1..m : IsFree(k) <=> hdr[e[k]].stat = 0
  BY <1>1, ReadList
<1>3. ~(Count > 0 /\ IsFree(Count))
  <2>1. ASSUME m > 0 PROVE ~IsFree(m)
    <3>1. m \in 1..m /\ hdr[e[m]].stat = 1
      BY <1>1, <2>1 DEF Chain, LastInUse
    <3>2. QED  BY <1>2, <3>1
  <2>2. QED  BY <1>2, <2>1
<1>4. n \in Nat /\ Round(n) \in Nat /\ Round(n) >= n /\ HeapMax \in Nat
  BY RoundUp, SizeAssumption, BoundAssumption
<1>5. e[m + 1] = brk /\ brk \in Nat
  BY <1>1 DEF Chain
<1>6. CASE brk + H + Round(n) > HeapMax
  <2>1. crashed' = "sbrk" /\ UNCHANGED <<hdr, brk, live>>
    BY <1>3, <1>6 DEF MallocGrow
  <2>2. QED  BY <2>1 DEF HeapInv
<1>7. CASE ~(brk + H + Round(n) > HeapMax)
  <2>1. PICK s \in Nat : s = Round(n) /\ n <= s
    BY <1>4
  <2>2. hdr[mem_tail].mp_prev = Node(e, m, m)
    <3>1. m \in 0..m /\ Node(e, m, m + 1) = mem_tail
      BY DEF Node
    <3>2. QED  BY <1>1, <3>1 DEF Chain, Linked
  <2>3. /\ hdr' = With([hdr EXCEPT ![Node(e, m, m)].mp_next = brk, ![mem_tail].mp_prev = brk], brk,
                       [size |-> s, stat |-> 1, mp_next |-> mem_tail, mp_prev |-> Node(e, m, m)])
        /\ live' = With(live, brk + H, n) /\ brk' = brk + H + s /\ crashed' = crashed
    BY <1>3, <1>7, <2>1, <2>2 DEF MallocGrow, Give
  <2>4. Grown(hdr, hdr', e, m, brk, s)
    BY <2>3 DEF Grown
  <2>5. brk' \in Nat
    BY <1>2, <1>5, <2>3
  <2>6. Listed(hdr', brk') /\ Held(hdr', With(live, brk + H, n))
    BY <1>1, <1>2, <1>4, <1>5, <2>1, <2>3, <2>4, <2>5, GrowRun DEF HeapInv
  <2>7. QED  BY <2>3, <2>6 DEF HeapInv
<1>8. QED  BY <1>6, <1>7

\* A chunk that is freed and stays.
LEMMA FreeInsideStep ==
  ASSUME HeapInv, NEW p \in DOMAIN live, FreeInside(p)
  PROVE  HeapInv'
<1>0. PICK n \in Nat : \E e \in [1..(n + 1) -> Nat] : Chain(hdr, brk, e, n)
  BY DEF HeapInv, Listed
<1>1. PICK e \in [1..(n + 1) -> Nat] : Chain(hdr, brk, e, n)
  BY <1>0
<1>2. PICK m \in 1..n : p = e[m] + H /\ p - H = e[m]
  BY <1>1, HeldPointer DEF HeapInv
<1>3. Position(e[m]) = m /\ Count = n
  BY <1>1, PositionOf, ReadList
<1>4. /\ ~AllFree(m + 1, n) /\ Freed(hdr', e[m]) /\ Without(live', e[m] + H)
      /\ brk' = brk /\ crashed' = crashed
  BY <1>2, <1>3 DEF FreeInside, Take, Freed, Without
<1>5. m < n
  BY <1>4 DEF AllFree
<1>6. Chain(hdr', brk, e, n) /\ Held(hdr', live')
  BY <1>1, <1>4, <1>5, FreeKeeps DEF HeapInv
<1>7. QED  BY <1>4, <1>6 DEF HeapInv, Listed

\* The last chunk is freed, and the free chunks before it go with it.
LEMMA FreeAtEndStep ==
  ASSUME HeapInv, NEW p \in DOMAIN live, FreeAtEnd(p)
  PROVE  HeapInv'
<1>0. PICK n \in Nat : \E e \in [1..(n + 1) -> Nat] : Chain(hdr, brk, e, n)
  BY DEF HeapInv, Listed
<1>1. PICK e \in [1..(n + 1) -> Nat] : Chain(hdr, brk, e, n)
  BY <1>0
<1>2. PICK m \in 1..n : p = e[m] + H /\ p - H = e[m]
  BY <1>1, HeldPointer DEF HeapInv
<1>3. Position(e[m]) = m
  BY <1>1, PositionOf
<1>4. /\ Count = n /\ \A k \in 0..(n + 1) : Nth[k] = Node(e, n, k)
      /\ \A k \in 1..n : IsFree(k) <=> hdr[e[k]].stat = 0
  BY <1>1, ReadList
<1>5. m = n /\ n > 0
  <2>1. AllFree(m + 1, n)
    BY <1>2, <1>3, <1>4 DEF FreeAtEnd
  <2>2. n \in 1..n /\ hdr[e[n]].stat = 1
    BY <1>1 DEF Chain, LastInUse
  <2>3. ~IsFree(n)
    BY <1>4, <2>2
  <2>4. n \notin (m + 1)..n
    BY <2>1, <2>3 DEF AllFree
  <2>5. QED  BY <2>4
<1>6. PICK k : k = FirstFree(n)
  OBVIOUS
<1>7. k \in 1..n /\ AllFree(k, n - 1) /\ (k = 1 \/ ~IsFree(k - 1))
  BY <1>5, <1>6, FirstOfFree
<1>8. PICK i \in 0..n : i = k - 1 /\ k = i + 1 /\ i < n
  BY <1>7
<1>9. /\ hdr' = [a \in DOMAIN hdr \ {Nth[x] : x \in k..n} |->
                   IF a = Nth[k - 1] THEN [hdr[a] EXCEPT !.mp_next = mem_tail]
                   ELSE IF a = mem_tail THEN [hdr[a] EXCEPT !.mp_prev = Nth[k - 1]]
                   ELSE hdr[a]]
      /\ brk' = brk - Span(k, n) /\ crashed' = crashed
      /\ Without(live', e[n] + H)
  <2>1. Position(p - H) = n /\ p = e[n] + H
    BY <1>2, <1>3, <1>5
  <2>2. QED  BY <1>4, <1>6, <2>1 DEF FreeAtEnd, Take, Without
<1>10. Cut(hdr', e, n, i)
  <2>1. \A x \in k..n : x \in 0..(n + 1)
    BY <1>7
  <2>2. {Nth[x] : x \in k..n} = {Node(e, n, x) : x \in (i + 1)..n}
    BY <1>4, <1>8, <2>1
  <2>3. i \in 0..(n + 1) /\ Nth[k - 1] = Node(e, n, i)
    BY <1>4, <1>8
  <2>4. QED  BY <1>9, <2>2, <2>3 DEF Cut
<1>11. i > 0 => hdr[e[i]].stat = 1
  <2>1. ASSUME i > 0 PROVE hdr[e[i]].stat = 1
    <3>1. i \in 1..n /\ ~IsFree(i)
      BY <1>7, <1>8, <2>1
    <3>2. hdr[e[i]].stat # 0 /\ hdr[e[i]] \in Header
      BY <1>1, <1>4, <3>1 DEF Chain, Tiles, Addresses
    <3>3. QED  BY <3>2 DEF Header
  <2>2. QED  BY <2>1
<1>12. \A x \in (i + 1)..(n - 1) : hdr[e[x]].stat = 0
  <2>1. \A x \in (i + 1)..(n - 1) : x \in 1..n /\ x \in k..(n - 1)
    BY <1>8
  <2>2. QED  BY <1>4, <1>7, <2>1 DEF AllFree
<1>13. Held(hdr', live')
  BY <1>1, <1>8, <1>9, <1>10, <1>11, <1>12, CutHeld DEF HeapInv
<1>14. brk' = e[i + 1]
  <2>1. n \in 1..n /\ k <= n + 1
    BY <1>7
  <2>2. Span(k, n) = e[n + 1] - e[k]
    BY <1>1, <1>7, <2>1, SpanOfRun
  <2>3. e[n + 1] = brk /\ e[n + 1] \in Nat /\ e[k] \in Nat
    <3>1. n + 1 \in 1..(n + 1) /\ k \in 1..(n + 1)
      BY <1>7
    <3>2. QED  BY <1>1, <3>1 DEF Chain
  <2>4. QED  BY <1>8, <1>9, <2>2, <2>3
<1>15. Listed(hdr', brk')
  <2>1. PICK e2 : e2 = [x \in 1..(i + 1) |-> e[x]]
    OBVIOUS
  <2>2. Chain(hdr', brk', e2, i)
    BY <1>1, <1>10, <1>11, <1>14, <2>1, CutChain
  <2>3. i \in Nat /\ e2 \in [1..(i + 1) -> Nat]
    BY <2>2 DEF Chain, Ascending
  <2>4. QED  BY <2>2, <2>3 DEF Listed
<1>16. QED  BY <1>9, <1>13, <1>15 DEF HeapInv

LEMMA HeapInvStep == HeapInv /\ [Next]_vars => HeapInv'
<1> SUFFICES ASSUME HeapInv, [Next]_vars PROVE HeapInv'
  OBVIOUS
<1>1. ASSUME NEW n \in Sizes, Malloc(n) PROVE HeapInv'
  <2>1. CASE MallocNothing(n)
    BY <2>1 DEF MallocNothing, vars, HeapInv
  <2>2. CASE MallocWhole(n) \/ MallocSplit(n) \/ MallocGrow(n)
    BY <2>2, WholeStep, SplitStep, GrowStep
  <2>3. QED  BY <1>1, <2>1, <2>2 DEF Malloc
<1>2. ASSUME NEW p, Free(p) PROVE HeapInv'
  <2>1. CASE FreeInside(p)
    <3>1. p \in DOMAIN live
      BY <2>1 DEF FreeInside
    <3>2. QED  BY <2>1, <3>1, FreeInsideStep
  <2>2. CASE FreeAtEnd(p)
    <3>1. p \in DOMAIN live
      BY <2>2 DEF FreeAtEnd
    <3>2. QED  BY <2>2, <3>1, FreeAtEndStep
  <2>3. CASE FreeAgain(p)
    BY <2>3 DEF FreeAgain, vars, HeapInv
  <2>4. QED  BY <1>2, <2>1, <2>2, <2>3 DEF Free
<1>3. CASE UNCHANGED vars
  BY <1>3 DEF vars, HeapInv
<1>4. CASE FreeNull
  BY <1>4 DEF FreeNull, HeapInv
<1>5. QED  BY <1>1, <1>2, <1>3, <1>4 DEF Next

LEMMA HeapInvAlways == Spec => []HeapInv
<1>1. QED  BY HeapInvInit, HeapInvStep, PTL DEF Spec

-----------------------------------------------------------------------------
(* Theorems *)

\* The chunks cover the heap without gap or overlap, in a list whose links agree
\* in both directions, however malloc merges and splits them and free gives them
\* back (main.c 62-88, 122-136).
THEOREM HeapIsTiled == Spec => []Tiled
<1>1. ASSUME HeapInv PROVE Tiled
  <2>0. PICK n \in Nat : \E e \in [1..(n + 1) -> Nat] : Chain(hdr, brk, e, n)
    BY <1>1 DEF HeapInv, Listed
  <2>1. PICK e \in [1..(n + 1) -> Nat] : Chain(hdr, brk, e, n)
    BY <2>0
  <2>2. /\ Count = n /\ \A i \in 0..(n + 1) : Nth[i] = Node(e, n, i)
        /\ \A i \in 1..n : Nth[i] = e[i]
        /\ Nth[n + 1] = mem_tail
    BY <2>1, ReadList
  <2>3. /\ \A i \in 1..n : e[i + 1] = e[i] + H + hdr[e[i]].size
        /\ e[n + 1] = brk /\ e[1] = 2 * H /\ Linked(hdr, e, n)
    BY <2>1 DEF Chain, Tiles, Ascending
  <2>4. ASSUME NEW i \in 1..n
        PROVE  Nth[i] + H + hdr[Nth[i]].size = IF i = n THEN brk ELSE Nth[i + 1]
    <3>1. Nth[i] = e[i] /\ e[i + 1] = e[i] + H + hdr[e[i]].size
      BY <2>2, <2>3
    <3>2. CASE i = n
      BY <2>3, <3>1, <3>2
    <3>3. CASE i # n
      <4>1. i + 1 \in 1..n
        BY <3>3
      <4>2. QED  BY <2>2, <3>1, <3>3, <4>1
    <3>4. QED  BY <3>2, <3>3
  <2>5. ASSUME NEW i \in 0..n PROVE hdr[Nth[i + 1]].mp_prev = Nth[i]
    <3>1. i \in 0..(n + 1) /\ i + 1 \in 0..(n + 1)
      OBVIOUS
    <3>2. QED  BY <2>2, <2>3, <3>1 DEF Linked
  <2>6. Nth[1] = IF n = 0 THEN mem_tail ELSE 2 * H
    <3>1. CASE n = 0
      BY <2>2, <3>1
    <3>2. CASE n # 0
      <4>1. 1 \in 1..n
        BY <3>2
      <4>2. QED  BY <2>2, <2>3, <3>2, <4>1
    <3>3. QED  BY <3>1, <3>2
  <2>7. QED  BY <2>2, <2>4, <2>5, <2>6 DEF Tiled
<1>2. QED  BY <1>1, HeapInvAlways, PTL

\* The chunks in use are exactly those the program holds, each with the memory
\* asked for (main.c 62-90).
THEOREM HeldIsSeparate == Spec => []LiveSeparate
<1>1. ASSUME HeapInv PROVE LiveSeparate
  <2>0. PICK n \in Nat : \E e \in [1..(n + 1) -> Nat] : Chain(hdr, brk, e, n)
    BY <1>1 DEF HeapInv, Listed
  <2>1. PICK e \in [1..(n + 1) -> Nat] : Chain(hdr, brk, e, n)
    BY <2>0
  <2>2. /\ Count = n /\ \A i \in 1..n : Nth[i] = e[i] /\ (IsFree(i) <=> hdr[e[i]].stat = 0)
    BY <2>1, ReadList
  <2>3. \A p : p \in DOMAIN live <=> \E m \in 1..n : p = e[m] + H /\ hdr[e[m]].stat # 0
    <3>1. Held(hdr, live) /\ Ascending(e, n) /\ Tiles(hdr, e, n)
      BY <1>1, <2>1 DEF HeapInv, Chain
    <3>2. /\ \A p : p \in DOMAIN live <=> \E m \in 1..n : p = e[m] + H /\ hdr[e[m]].stat # 0
          /\ \A m \in 1..n : e[m] + H \in DOMAIN live => hdr[e[m]].size >= live[e[m] + H]
      BY <3>1, HeldChunks
    <3>3. QED  BY <3>2
  <2>4. {Nth[i] + H : i \in {k \in 1..n : ~IsFree(k)}} = DOMAIN live
    <3>1. \A p : p \in {Nth[i] + H : i \in {k \in 1..n : ~IsFree(k)}}
                  <=> \E m \in 1..n : p = Nth[m] + H /\ ~IsFree(m)
      OBVIOUS
    <3>2. \A p : p \in {Nth[i] + H : i \in {k \in 1..n : ~IsFree(k)}}
                  <=> \E m \in 1..n : p = e[m] + H /\ hdr[e[m]].stat # 0
      BY <2>2, <3>1
    <3>3. \A p : p \in {Nth[i] + H : i \in {k \in 1..n : ~IsFree(k)}} <=> p \in DOMAIN live
      BY <2>3, <3>2
    <3>4. QED  BY <3>3
  <2>5. \A p \in DOMAIN live : hdr[p - H].size >= live[p]
    BY <1>1 DEF HeapInv, Held
  <2>6. QED  BY <2>2, <2>4, <2>5 DEF LiveSeparate
<1>2. QED  BY <1>1, HeapInvAlways, PTL

\* Whatever is allocated and freed, zero bytes, NULL and what was freed before
\* included, and whether or not sbrk fails, malloc's search never leaves the
\* list: its last chunk is always in use (main.c 15-35, 105-136).
THEOREM StaysInList == Spec => []SearchStaysInList
<1>1. HeapInv => SearchStaysInList
  BY DEF HeapInv, SearchStaysInList
<1>2. QED  BY <1>1, HeapInvAlways, PTL

-----------------------------------------------------------------------------
(* Checksums: arithmetic modulo Word - 1 *)

\* One's complement sums are taken modulo M.
M == Word - 1

\* a and b differ by a multiple of m.
Congruent(a, b, m) == \E k \in Int : a = b + k * m

\* The representative of n in which only 0 is 0.
Ones(n) == IF n = 0 THEN 0 ELSE 1 + ((n - 1) % M)

LEMMA Products == \A a, b \in Nat : a * b \in Nat
OBVIOUS

LEMMA WordFacts == B \in Nat /\ B >= 2 /\ Word \in Nat /\ Word = B * B /\ M \in Nat /\ M >= 3 /\ Word = M + 1
<1>1. B \in Nat /\ B >= 2
  BY ByteAssumption
<1>2. PICK c \in Nat : B = c + 2
  <2>1. B - 2 \in Nat /\ B = (B - 2) + 2
    BY <1>1
  <2>2. QED  BY <2>1
<1>3. Word = (c * c) + (4 * c) + 4
  BY <1>2 DEF Word
<1>4. c * c \in Nat
  BY Products
<1>5. QED  BY <1>1, <1>3, <1>4 DEF M, Word

\* A multiple of m that is smaller than m is 0.
LEMMA SmallMultiple ==
  ASSUME NEW m \in Nat, m > 0, NEW k \in Int, -m < k * m, k * m < m
  PROVE  k = 0
<1>1. CASE k >= 1
  <2>1. (k - 1) * m \in Nat
    BY <1>1, Products
  <2>2. (k - 1) * m = k * m - m
    OBVIOUS
  <2>3. k * m \in Int
    OBVIOUS
  <2>4. QED  BY <2>1, <2>2, <2>3
<1>2. CASE k <= -1
  <2>1. (-1 - k) * m \in Nat
    BY <1>2, Products
  <2>2. (-1 - k) * m = -m - k * m
    OBVIOUS
  <2>3. k * m \in Int
    OBVIOUS
  <2>4. QED  BY <2>1, <2>2, <2>3
<1>3. QED  BY <1>1, <1>2

LEMMA CongruentFacts ==
  ASSUME NEW m \in Nat
  PROVE  /\ \A a \in Int : Congruent(a, a, m)
         /\ \A a, b \in Int : Congruent(a, b, m) => Congruent(b, a, m)
         /\ \A a, b, c \in Int : Congruent(a, b, m) /\ Congruent(b, c, m) => Congruent(a, c, m)
         /\ \A a, b, c, d \in Int :
              Congruent(a, b, m) /\ Congruent(c, d, m) => Congruent(a + c, b + d, m)
         /\ \A a, b, c \in Int : Congruent(a, b, m) => Congruent(a * c, b * c, m)
<1>1. ASSUME NEW a \in Int PROVE Congruent(a, a, m)
  <2>1. a = a + 0 * m
    OBVIOUS
  <2>2. QED  BY <2>1 DEF Congruent
<1>2. ASSUME NEW a \in Int, NEW b \in Int, Congruent(a, b, m) PROVE Congruent(b, a, m)
  <2>1. PICK k \in Int : a = b + k * m
    BY <1>2 DEF Congruent
  <2>2. b = a + (-k) * m
    BY <2>1
  <2>3. QED  BY <2>2 DEF Congruent
<1>3. ASSUME NEW a \in Int, NEW b \in Int, NEW c \in Int, Congruent(a, b, m), Congruent(b, c, m)
      PROVE  Congruent(a, c, m)
  <2>1. PICK k \in Int : a = b + k * m
    BY <1>3 DEF Congruent
  <2>2. PICK l \in Int : b = c + l * m
    BY <1>3 DEF Congruent
  <2>3. a = c + (l + k) * m
    BY <2>1, <2>2
  <2>4. QED  BY <2>3 DEF Congruent
<1>4. ASSUME NEW a \in Int, NEW b \in Int, NEW c \in Int, NEW d \in Int,
             Congruent(a, b, m), Congruent(c, d, m)
      PROVE  Congruent(a + c, b + d, m)
  <2>1. PICK k \in Int : a = b + k * m
    BY <1>4 DEF Congruent
  <2>2. PICK l \in Int : c = d + l * m
    BY <1>4 DEF Congruent
  <2>3. a + c = (b + d) + (l + k) * m
    BY <2>1, <2>2
  <2>4. QED  BY <2>3 DEF Congruent
<1>5. ASSUME NEW a \in Int, NEW b \in Int, NEW c \in Int, Congruent(a, b, m)
      PROVE  Congruent(a * c, b * c, m)
  <2>1. PICK k \in Int : a = b + k * m
    BY <1>5 DEF Congruent
  <2>2. a * c = b * c + (k * c) * m
    BY <2>1
  <2>3. k * c \in Int
    OBVIOUS
  <2>4. QED  BY <2>2, <2>3 DEF Congruent
<1>6. QED  BY <1>1, <1>2, <1>3, <1>4, <1>5

\* Division with remainder.
LEMMA DivMod ==
  ASSUME NEW n \in Nat, NEW d \in Nat, d > 0
  PROVE  n = d * (n \div d) + (n % d) /\ n \div d \in Nat /\ n % d \in 0..(d - 1)
OBVIOUS

LEMMA DivModUnique ==
  ASSUME NEW d \in Nat, d > 0, NEW q \in Nat, NEW r \in 0..(d - 1), NEW n, n = d * q + r
  PROVE  n \div d = q /\ n % d = r
<1>1. n \in Nat
  <2>1. d * q \in Nat
    BY Products
  <2>2. QED  BY <2>1
<1>2. PICK u \in Nat, v \in 0..(d - 1) : u = n \div d /\ v = n % d /\ n = d * u + v
  BY <1>1, DivMod
<1>3. (q - u) * d = v - r
  BY <1>2
<1>4. q - u = 0
  <2>1. PICK k \in Int : k = q - u
    OBVIOUS
  <2>2. -d < k * d /\ k * d < d
    BY <1>2, <1>3, <2>1
  <2>3. QED  BY <2>1, <2>2, SmallMultiple
<1>5. QED  BY <1>2, <1>3, <1>4

-----------------------------------------------------------------------------
(* Checksums: folding the carries *)

LEMMA OnesFacts ==
  ASSUME NEW n \in Nat
  PROVE  /\ n = 0 <=> Ones(n) = 0
         /\ Ones(n) \in 0..M /\ Congruent(n, Ones(n), M)
<1>1. CASE n = 0
  BY <1>1, WordFacts, CongruentFacts DEF Ones
<1>2. CASE n # 0
  <2>1. PICK x \in Nat : n = x + 1
    <3>1. n - 1 \in Nat /\ n = (n - 1) + 1
      BY <1>2
    <3>2. QED  BY <3>1
  <2>2. PICK q \in Nat, r \in 0..(M - 1) : x = M * q + r /\ r = x % M
    <3>1. x = M * (x \div M) + (x % M) /\ x \div M \in Nat /\ x % M \in 0..(M - 1)
      BY WordFacts, DivMod
    <3>2. QED  BY <3>1
  <2>3. Ones(n) = 1 + r
    BY <1>2, <2>1, <2>2 DEF Ones
  <2>4. n = (1 + r) + q * M
    BY <2>1, <2>2, WordFacts
  <2>5. QED  BY <1>2, <2>3, <2>4, WordFacts DEF Congruent
<1>3. QED  BY <1>1, <1>2

\* Representatives are unique.
LEMMA OnesUnique ==
  ASSUME NEW r \in 1..M, NEW s \in 1..M, Congruent(r, s, M)
  PROVE  r = s
<1>1. PICK k \in Int : r = s + k * M
  BY DEF Congruent
<1>2. PICK j \in Int : j = k * M
  BY WordFacts
<1>3. -M < k * M /\ k * M < M
  BY <1>1, <1>2, WordFacts
<1>4. k = 0
  BY <1>3, WordFacts, SmallMultiple
<1>5. QED  BY <1>1, <1>4, WordFacts

LEMMA OnesOf ==
  ASSUME NEW n \in Nat, NEW r \in 1..M, n > 0, Congruent(n, r, M)
  PROVE  Ones(n) = r
<1>1. Ones(n) \in 1..M /\ Congruent(n, Ones(n), M)
  BY OnesFacts, WordFacts
<1>2. Congruent(Ones(n), r, M)
  <2>1. M \in Nat /\ n \in Int /\ r \in Int /\ Ones(n) \in Int
    BY <1>1, WordFacts
  <2>2. Congruent(Ones(n), n, M)
    BY <1>1, <2>1, CongruentFacts
  <2>3. QED  BY <2>1, <2>2, CongruentFacts
<1>3. QED  BY <1>1, <1>2, OnesUnique

\* What one round of the loop makes of the sum.
Fold(n) == (n % Word) + (n \div Word)

LEMMA FoldFacts ==
  ASSUME NEW n \in Nat, n >= Word
  PROVE  Fold(n) \in Nat /\ Fold(n) > 0 /\ Fold(n) < n /\ Ones(Fold(n)) = Ones(n)
<1>1. PICK q \in Nat, r \in 0..(Word - 1) : n = Word * q + r /\ q = n \div Word /\ r = n % Word
  BY WordFacts, DivMod
<1>2. q >= 1
  <2>1. q = 0 => n = r
    BY <1>1, WordFacts
  <2>2. QED  BY <1>1, <2>1, WordFacts
<1>3. Fold(n) = r + q
  BY <1>1 DEF Fold
<1>4. n = (r + q) + q * M
  <2>1. M \in Nat /\ n = (M + 1) * q + r
    BY <1>1, WordFacts
  <2>2. QED  BY ONLY <2>1, q \in Nat, r \in Int
<1>5. q * M >= M
  <2>1. (q - 1) * M \in Nat
    BY <1>2, WordFacts, Products
  <2>2. (q - 1) * M = q * M - M
    BY WordFacts
  <2>3. q * M \in Int
    BY WordFacts
  <2>4. QED  BY <2>1, <2>2, <2>3, WordFacts
<1>6. r + q \in Nat /\ r + q > 0 /\ r + q < n
  <2>1. q * M \in Int
    BY WordFacts
  <2>2. QED  BY <1>1, <1>2, <1>4, <1>5, <2>1, WordFacts
<1>7. Congruent(n, r + q, M)
  BY <1>4 DEF Congruent
<1>8. Ones(r + q) \in 1..M /\ Congruent(r + q, Ones(r + q), M)
  BY <1>6, OnesFacts, WordFacts
<1>9. Congruent(n, Ones(r + q), M)
  BY <1>6, <1>7, <1>8, CongruentFacts, WordFacts
<1>10. Ones(n) = Ones(r + q)
  BY <1>6, <1>8, <1>9, OnesOf
<1>11. QED  BY <1>3, <1>6, <1>10

\* The loop ends with the one's complement sum, whatever the number of rounds.
LEMMA FoldsOnes == \A n \in Nat : Carried(n) = Ones(n)
<1> DEFINE Step(f) == [n \in Nat |-> IF n < Word THEN n ELSE f[(n % Word) + (n \div Word)]]
           ones == [n \in Nat |-> Ones(n)]
<1>1. \A n \in Nat : n < Word => Ones(n) = n
  <2> SUFFICES ASSUME NEW n \in Nat, n < Word PROVE Ones(n) = n
    OBVIOUS
  <2>1. CASE n = 0
    BY <2>1 DEF Ones
  <2>2. CASE n # 0
    <3>1. Congruent(n, n, M) /\ n \in 1..M
      BY <2>2, WordFacts, CongruentFacts
    <3>2. QED  BY <3>1, OnesOf
  <2>3. QED  BY <2>1, <2>2
<1>2. ones = Step(ones)
  <2>1. ASSUME NEW n \in Nat PROVE ones[n] = Step(ones)[n]
    <3>1. CASE n < Word
      BY <1>1, <3>1
    <3>2. CASE n >= Word
      <4>1. Fold(n) \in Nat /\ Ones(Fold(n)) = Ones(n)
        BY <3>2, FoldFacts
      <4>2. ones[(n % Word) + (n \div Word)] = Ones(n)
        BY <4>1 DEF Fold
      <4>3. ~(n < Word)
        BY <3>2, WordFacts
      <4>4. QED  BY <4>2, <4>3
    <3>3. QED  BY <3>1, <3>2, WordFacts
  <2>2. QED  BY <2>1
<1>3. Folds = Step(Folds)
  <2>1. Folds = CHOOSE f : f = Step(f)
    BY DEF Folds
  <2>2. \E f : f = Step(f)
    BY <1>2
  <2> HIDE DEF Step
  <2>3. QED  BY <2>1, <2>2
<1>4. \A n \in Nat : Folds[n] = IF n < Word THEN n ELSE Folds[Fold(n)]
  BY <1>3, Zenon DEF Fold
<1> HIDE DEF Step, ones
<1>5. SUFFICES ASSUME {n \in Nat : Folds[n] # Ones(n)} # {} PROVE FALSE
  BY DEF Carried
<1>6. PICK n \in Nat : Folds[n] # Ones(n) /\ \A k \in Nat : Folds[k] # Ones(k) => n <= k
  <2>1. PICK T : T = {n \in Nat : Folds[n] # Ones(n)}
    OBVIOUS
  <2>2. PICK n \in T : \A k \in T : n <= k
    BY <1>5, <2>1, LeastElement
  <2>3. QED  BY <2>1, <2>2
<1>7. n >= Word
  BY <1>1, <1>4, <1>6, WordFacts
<1>8. Fold(n) \in Nat /\ Fold(n) < n /\ Ones(Fold(n)) = Ones(n)
  BY <1>7, FoldFacts
<1>9. Folds[Fold(n)] = Ones(Fold(n))
  BY <1>6, <1>8
<1>10. ~(n < Word)
  BY <1>7, WordFacts
<1>11. QED  BY <1>4, <1>6, <1>8, <1>9, <1>10

-----------------------------------------------------------------------------
(* Checksums: sums *)

\* f[i] is the sum of w[1] to w[i].
SumStep(f, w, n) == [i \in 0..n |-> IF i = 0 THEN 0 ELSE f[i - 1] + w[i]]
Sums(w, n) == CHOOSE f : f = SumStep(f, w, n)

LEMMA SumsExist ==
  ASSUME NEW n \in Nat, NEW w
  PROVE  \E f : f = SumStep(f, w, n)
<1> DEFINE S == {m \in Nat : \E f : f = SumStep(f, w, m)}
<1>1. 0 \in S
  <2>1. PICK f : f = [i \in 0..0 |-> 0]
    OBVIOUS
  <2>2. f = SumStep(f, w, 0)
    BY <2>1 DEF SumStep
  <2>3. QED  BY <2>2
<1>2. ASSUME NEW m \in Nat, m \in S PROVE m + 1 \in S
  <2>1. PICK f : f = SumStep(f, w, m)
    BY <1>2
  <2>2. PICK g : g = [i \in 0..(m + 1) |-> IF i = m + 1 THEN f[m] + w[m + 1] ELSE f[i]]
    OBVIOUS
  <2>3. ASSUME NEW i \in 0..(m + 1) PROVE g[i] = SumStep(g, w, m + 1)[i]
    <3>1. CASE i = m + 1
      <4>1. g[m] = f[m]
        BY <2>2
      <4>2. g[i] = f[m] + w[m + 1]
        BY <2>2, <3>1
      <4>3. i # 0 /\ i - 1 = m
        BY <3>1
      <4>4. QED  BY <3>1, <4>1, <4>2, <4>3 DEF SumStep
    <3>2. CASE i # m + 1
      <4>1. i \in 0..m /\ g[i] = f[i]
        BY <2>2, <3>2
      <4>2. f[i] = IF i = 0 THEN 0 ELSE f[i - 1] + w[i]
        BY <2>1, <4>1 DEF SumStep
      <4>3. i # 0 => g[i - 1] = f[i - 1]
        BY <2>2, <3>2
      <4>4. QED  BY <4>1, <4>2, <4>3 DEF SumStep
    <3>3. QED  BY <3>1, <3>2
  <2>4. g = SumStep(g, w, m + 1)
    BY <2>2, <2>3 DEF SumStep
  <2>5. QED  BY <2>4
<1> HIDE DEF S
<1>3. Nat \subseteq S
  BY <1>1, <1>2, SetInduction
<1>4. QED  BY <1>3 DEF S

Summed(f, w, n) ==
  /\ f[0] = 0 /\ \A i \in 1..n : f[i] = f[i - 1] + w[i]
  /\ \A i \in 0..n : f[i] \in Nat

LEMMA SumsFacts ==
  ASSUME NEW n \in Nat, NEW w \in [1..n -> Nat]
  PROVE  \E f : Summed(f, w, n) /\ SumTo(w, n) = f[n] /\ SumTo(w, n) \in Nat
<1>1. SumTo(w, n) = Sums(w, n)[n]
  BY DEF SumTo, Sums, SumStep
<1>2. Sums(w, n) = SumStep(Sums(w, n), w, n)
  <2>1. \E f : f = SumStep(f, w, n)
    BY SumsExist
  <2>2. QED  BY <2>1, Zenon DEF Sums
<1>3. PICK f : f = Sums(w, n)
  OBVIOUS
<1>4. f[0] = 0 /\ \A i \in 1..n : f[i] = f[i - 1] + w[i]
  <2>1. f = SumStep(f, w, n)
    BY <1>2, <1>3
  <2>2. \A i \in 0..n : f[i] = IF i = 0 THEN 0 ELSE f[i - 1] + w[i]
    BY <2>1 DEF SumStep
  <2>3. QED  BY <2>2
<1>5. \A i \in 0..n : f[i] \in Nat
  <2> DEFINE S == {i \in Nat : i \in 0..n => f[i] \in Nat}
  <2>1. 0 \in S
    BY <1>4
  <2>2. ASSUME NEW i \in Nat, i \in S PROVE i + 1 \in S
    <3> SUFFICES ASSUME i + 1 \in 0..n PROVE f[i + 1] \in Nat
      OBVIOUS
    <3>1. PICK j \in 1..n : j = i + 1 /\ i = j - 1
      OBVIOUS
    <3>2. f[j] = f[j - 1] + w[j] /\ f[j - 1] \in Nat /\ w[j] \in Nat
      BY <1>4, <2>2, <3>1
    <3>3. QED  BY <3>1, <3>2
  <2> HIDE DEF S
  <2>3. Nat \subseteq S
    BY <2>1, <2>2, SetInduction
  <2>4. QED  BY <2>3 DEF S
<1>6. Summed(f, w, n)
  BY <1>4, <1>5 DEF Summed
<1>7. SumTo(w, n) = f[n] /\ f[n] \in Nat
  BY <1>1, <1>3, <1>5
<1>8. QED  BY <1>6, <1>7

\* When each term is B times the other's, so are the sums; and zero sums have
\* zero terms.
LEMMA SumScaled ==
  ASSUME NEW n \in Nat, NEW u \in [1..n -> Nat], NEW w \in [1..n -> Nat],
         \A i \in 1..n : Congruent(u[i], w[i] * B, M) /\ (u[i] = 0 <=> w[i] = 0)
  PROVE  /\ Congruent(SumTo(u, n), SumTo(w, n) * B, M)
         /\ SumTo(u, n) = 0 <=> SumTo(w, n) = 0
<1>1. PICK f : Summed(f, u, n) /\ SumTo(u, n) = f[n]
  BY SumsFacts
<1>2. PICK g : Summed(g, w, n) /\ SumTo(w, n) = g[n]
  BY SumsFacts
<1> DEFINE S == {i \in Nat : i \in 0..n => Congruent(f[i], g[i] * B, M) /\ (f[i] = 0 <=> g[i] = 0)}
<1>3. 0 \in S
  <2>1. Congruent(0, 0, M)
    BY CongruentFacts, WordFacts
  <2>2. 0 * B = 0
    BY WordFacts
  <2>3. QED  BY <1>1, <1>2, <2>1, <2>2 DEF Summed
<1>4. ASSUME NEW i \in Nat, i \in S PROVE i + 1 \in S
  <2> SUFFICES ASSUME i + 1 \in 0..n
               PROVE  Congruent(f[i + 1], g[i + 1] * B, M) /\ (f[i + 1] = 0 <=> g[i + 1] = 0)
    OBVIOUS
  <2>1. PICK j \in 1..n : j = i + 1 /\ i = j - 1 /\ i \in 0..n
    OBVIOUS
  <2>2. PICK a, b \in Nat : a = f[i] /\ b = g[i]
    BY <1>1, <1>2, <2>1 DEF Summed
  <2>3. PICK c, d \in Nat : c = u[j] /\ d = w[j]
    BY <2>1
  <2>4. f[j] = a + c /\ g[j] = b + d
    BY <1>1, <1>2, <2>1, <2>2, <2>3 DEF Summed
  <2>5. Congruent(a, b * B, M) /\ (a = 0 <=> b = 0)
    BY <1>4, <2>1, <2>2
  <2>6. Congruent(c, d * B, M) /\ (c = 0 <=> d = 0)
    BY <2>1, <2>3
  <2>7. Congruent(a + c, (b + d) * B, M)
    <3>1. M \in Nat /\ b * B \in Int /\ d * B \in Int /\ (b + d) * B = b * B + d * B
      BY WordFacts
    <3>2. Congruent(a + c, b * B + d * B, M)
      BY <2>5, <2>6, <3>1, CongruentFacts
    <3>3. QED  BY <3>1, <3>2
  <2>8. a + c = 0 <=> b + d = 0
    BY <2>5, <2>6
  <2>9. QED  BY <2>1, <2>4, <2>7, <2>8
<1> HIDE DEF S
<1>5. Nat \subseteq S
  BY <1>3, <1>4, SetInduction
<1>6. QED  BY <1>1, <1>2, <1>5 DEF S

\* A sum changes by as much as one of its terms.
LEMMA SumChanged ==
  ASSUME NEW n \in Nat, NEW u \in [1..n -> Nat], NEW w \in [1..n -> Nat], NEW j \in 1..n,
         \A i \in 1..n : i # j => u[i] = w[i]
  PROVE  SumTo(u, n) = SumTo(w, n) + (u[j] - w[j])
<1>1. PICK f : Summed(f, u, n) /\ SumTo(u, n) = f[n]
  BY SumsFacts
<1>2. PICK g : Summed(g, w, n) /\ SumTo(w, n) = g[n]
  BY SumsFacts
<1> DEFINE S == {i \in Nat : i \in 0..n => f[i] = g[i] + (IF i < j THEN 0 ELSE u[j] - w[j])}
<1>3. 0 \in S
  <2>1. f[0] = 0 /\ g[0] = 0 /\ 0 < j
    BY <1>1, <1>2 DEF Summed
  <2>2. QED  BY <2>1
<1>4. ASSUME NEW i \in Nat, i \in S PROVE i + 1 \in S
  <2> SUFFICES ASSUME i + 1 \in 0..n
               PROVE  f[i + 1] = g[i + 1] + (IF i + 1 < j THEN 0 ELSE u[j] - w[j])
    OBVIOUS
  <2>1. PICK k \in 1..n : k = i + 1 /\ i = k - 1 /\ i \in 0..n
    OBVIOUS
  <2>2. /\ f[i] \in Nat /\ g[i] \in Nat /\ u[k] \in Nat /\ w[k] \in Nat /\ u[j] \in Nat /\ w[j] \in Nat
        /\ f[k] = f[i] + u[k] /\ g[k] = g[i] + w[k]
    BY <1>1, <1>2, <2>1 DEF Summed
  <2>3. f[i] = g[i] + (IF i < j THEN 0 ELSE u[j] - w[j])
    BY <1>4, <2>1
  <2>4. CASE k = j
    <3>1. i < j /\ ~(k < j) /\ f[i] = g[i] + 0
      BY <2>1, <2>3, <2>4
    <3>2. f[k] = g[k] + (u[j] - w[j])
      BY <2>2, <2>4, <3>1
    <3>3. QED  BY <2>1, <3>1, <3>2
  <2>5. CASE k # j
    <3>1. u[k] = w[k] /\ (k < j <=> i < j)
      BY <2>1, <2>5
    <3>2. PICK d \in Int : /\ d = (IF i < j THEN 0 ELSE u[j] - w[j])
                           /\ d = (IF k < j THEN 0 ELSE u[j] - w[j])
      BY <2>2, <3>1
    <3>3. f[i] = g[i] + d
      BY <2>3, <3>2
    <3>4. f[k] = g[k] + d
      <4>1. PICK b, c \in Nat : b = g[i] /\ c = w[k] /\ c = u[k]
        BY <2>2, <3>1
      <4>2. f[k] = (b + d) + c /\ g[k] = b + c
        BY <2>2, <3>3, <4>1
      <4>3. (b + d) + c = (b + c) + d
        OBVIOUS
      <4>4. QED  BY <4>2, <4>3
    <3>5. QED  BY <2>1, <3>2, <3>4
  <2>6. QED  BY <2>4, <2>5
<1> HIDE DEF S
<1>5. Nat \subseteq S
  BY <1>3, <1>4, SetInduction
<1>6. f[n] = g[n] + (u[j] - w[j])
  BY <1>5 DEF S
<1>7. QED  BY <1>1, <1>2, <1>6

-----------------------------------------------------------------------------
(* compute_checksum and RFC 1071 *)

\* The terms of the sum in the processor's and in the network's byte order.
Little(s) == [i \in 1..Len(s) |-> s[i] * (IF i % 2 = 1 THEN 1 ELSE B)]
Big(s) == [i \in 1..Len(s) |-> s[i] * (IF i % 2 = 1 THEN B ELSE 1)]

LEMMA Terms ==
  ASSUME NEW s \in Seq(Nat)
  PROVE  /\ Len(s) \in Nat
         /\ Little(s) \in [1..Len(s) -> Nat] /\ Big(s) \in [1..Len(s) -> Nat]
         /\ \A i \in 1..Len(s) : /\ s[i] \in Nat
                                 /\ Congruent(Big(s)[i], Little(s)[i] * B, M)
                                 /\ Big(s)[i] = 0 <=> Little(s)[i] = 0
<1>1. Len(s) \in Nat /\ \A i \in 1..Len(s) : s[i] \in Nat
  BY LenProperties
<1>2. \A x \in Nat : x * B \in Nat /\ (x * B = 0 <=> x = 0)
  <2> SUFFICES ASSUME NEW x \in Nat PROVE x * B \in Nat /\ (x * B = 0 <=> x = 0)
    OBVIOUS
  <2>1. x * B \in Nat /\ 0 * B = 0
    BY Products, WordFacts
  <2>2. CASE x # 0
    <3>1. x * (B - 1) \in Nat /\ x * B = x * (B - 1) + x
      BY Products, WordFacts
    <3>2. QED  BY <2>1, <2>2, <3>1
  <2>3. QED  BY <2>1, <2>2
<1>3. ASSUME NEW i \in 1..Len(s)
      PROVE  /\ Little(s)[i] \in Nat /\ Big(s)[i] \in Nat
             /\ Congruent(Big(s)[i], Little(s)[i] * B, M)
             /\ Big(s)[i] = 0 <=> Little(s)[i] = 0
  <2>1. PICK x \in Nat : x = s[i]
    BY <1>1
  <2>2. CASE i % 2 = 1
    <3>1. Little(s)[i] = x /\ Big(s)[i] = x * B
      BY <2>1, <2>2 DEF Little, Big
    <3>2. Congruent(x * B, x * B, M)
      BY <1>2, CongruentFacts, WordFacts
    <3>3. QED  BY <1>2, <3>1, <3>2
  <2>3. CASE i % 2 # 1
    <3>1. Little(s)[i] = x * B /\ Big(s)[i] = x
      BY <2>1, <2>3 DEF Little, Big
    <3>2. Congruent(x, (x * B) * B, M)
      <4>1. (x * B) * B = x * Word
        BY WordFacts
      <4>2. x * Word = x + x * M
        <5>1. M \in Nat /\ x * Word = x * (M + 1)
          BY WordFacts
        <5>2. QED  BY ONLY <5>1, x \in Nat
      <4>3. Congruent((x * B) * B, x, M)
        BY <4>1, <4>2 DEF Congruent
      <4>4. PICK z \in Int : z = (x * B) * B
        BY WordFacts
      <4>5. x \in Int /\ M \in Nat /\ Congruent(z, x, M)
        BY <4>3, <4>4, WordFacts
      <4>6. Congruent(x, z, M)
        BY <4>5, CongruentFacts
      <4>7. QED  BY <4>4, <4>6
    <3>3. QED  BY <1>2, <3>1, <3>2
  <2>4. QED  BY <2>2, <2>3
<1>4. Little(s) \in [1..Len(s) -> Nat] /\ Big(s) \in [1..Len(s) -> Nat]
  BY <1>1, <1>3 DEF Little, Big
<1>5. QED  BY <1>1, <1>3, <1>4

\* The representative of B times a number is that of the number with its bytes
\* exchanged.
LEMMA Exchanged ==
  ASSUME NEW l \in Nat, NEW b \in Nat, Congruent(b, l * B, M), b = 0 <=> l = 0,
         NEW x \in 0..(B - 1), NEW y \in 0..(B - 1), Ones(l) = B * y + x
  PROVE  Ones(b) = B * x + y
<1>1. B \in Nat /\ M \in Nat /\ Word = B * B /\ M + 1 = B * B /\ B >= 2
  BY WordFacts
<1>2. B * x \in Nat /\ B * y \in Nat
  BY <1>1, Products
<1>3. CASE l = 0
  <2>1. B * y + x = 0
    BY <1>3, OnesFacts
  <2>2. x = 0 /\ B * y = 0
    BY <1>2, <2>1
  <2>3. y = 0
    <3>1. y * (B - 1) \in Nat /\ B * y = y * (B - 1) + y
      BY <1>1, Products
    <3>2. QED  BY <2>2, <3>1
  <2>4. B * x + y = 0
    BY <1>1, <2>2, <2>3
  <2>5. QED  BY <1>3, <2>4, OnesFacts
<1>4. CASE l # 0
  <2>1. PICK a \in 1..M : a = Ones(l) /\ Congruent(l, a, M)
    BY <1>1, <1>4, OnesFacts
  <2>2. PICK z \in Nat : z = B * x + y
    BY <1>2
  <2>3. a * B = z + y * M
    <3>1. a = B * y + x
      BY <2>1
    <3>2. a * B = y * (B * B) + B * x
      BY ONLY <3>1, <1>1, x \in Int, y \in Int
    <3>3. y * (B * B) = y * M + y
      <4>1. PICK w \in Nat : w = B * B /\ w = M + 1
        BY <1>1
      <4>2. y * w = y * (M + 1)
        BY <4>1
      <4>3. y * (M + 1) = y * M + y
        BY <1>1
      <4>4. QED  BY <4>1, <4>2, <4>3
    <3>4. y * M \in Int
      BY <1>1
    <3>5. QED  BY <1>2, <2>2, <3>2, <3>3, <3>4
  <2>4. z \in 1..M
    <3>1. z > 0
      <4>1. SUFFICES ASSUME z = 0 PROVE FALSE
        BY <2>2
      <4>2. y = 0 /\ B * x = 0
        BY <1>2, <2>2, <4>1
      <4>3. x * (B - 1) \in Nat /\ B * x = x * (B - 1) + x
        BY <1>1, Products
      <4>4. x = 0
        BY <4>2, <4>3
      <4>5. a = 0
        BY <1>1, <2>1, <4>2, <4>4
      <4>6. QED  BY <4>5
    <3>2. z <= M
      <4>1. B * (B - 1 - x) \in Nat
        BY <1>1, Products
      <4>2. B * (B - 1 - x) = ((B * B) - B) - (B * x)
        BY <1>1
      <4>3. QED  BY <1>1, <1>2, <2>2, <4>1, <4>2
    <3>3. QED  BY <1>1, <3>1, <3>2
  <2>5. Congruent(b, z, M)
    <3>1. l * B \in Int /\ a * B \in Int /\ M \in Nat /\ b \in Int /\ z \in Int /\ l \in Int /\ a \in Int /\ B \in Int
      BY <1>1
    <3>2. Congruent(l * B, a * B, M)
      BY <2>1, <3>1, CongruentFacts
    <3>3. Congruent(a * B, z, M)
      BY <2>3 DEF Congruent
    <3>4. Congruent(b, a * B, M)
      BY <3>1, <3>2, CongruentFacts
    <3>5. QED  BY <3>1, <3>3, <3>4, CongruentFacts
  <2>6. b \in Nat /\ b > 0
    BY <1>4
  <2>7. Ones(b) = z
    BY <2>4, <2>5, <2>6, OnesOf
  <2>8. QED  BY <2>2, <2>7
<1>5. QED  BY <1>3, <1>4

\* The bytes of the complement.
LEMMA Complement ==
  ASSUME NEW x \in 0..(B - 1), NEW y \in 0..(B - 1)
  PROVE  /\ (M - (B * y + x)) % B = B - 1 - x
         /\ (M - (B * y + x)) \div B = B - 1 - y
<1>1. B \in Nat /\ B > 0 /\ M = (B * B) - 1
  BY WordFacts DEF M
<1>2. M - (B * y + x) = B * (B - 1 - y) + (B - 1 - x)
  BY <1>1
<1>3. B - 1 - y \in Nat /\ B - 1 - x \in 0..(B - 1)
  BY <1>1
<1>4. QED  BY <1>1, <1>2, <1>3, DivModUnique

\* For every block, of any length, compute_checksum gives the bytes that RFC
\* 1071 asks for, although it adds the words in the processor's byte order and
\* folds the carries in at the end (the six copies of compute_checksum, such as
\* pcap_sniffer core.c 187-205).
THEOREM ChecksumAgrees == \A s \in Seq(Nat) : compute_checksum(s) = RfcChecksum(s)
<1> SUFFICES ASSUME NEW s \in Seq(Nat) PROVE compute_checksum(s) = RfcChecksum(s)
  OBVIOUS
<1>1. PICK n, u, w : /\ n \in Nat /\ n = Len(s) /\ u = Big(s) /\ w = Little(s)
                     /\ u \in [1..n -> Nat] /\ w \in [1..n -> Nat]
  BY Terms
<1>2. PICK l, b \in Nat : l = SumTo(w, n) /\ b = SumTo(u, n)
  BY <1>1, SumsFacts
<1>3. Congruent(b, l * B, M) /\ (b = 0 <=> l = 0)
  <2>1. \A i \in 1..n : Congruent(u[i], w[i] * B, M) /\ (u[i] = 0 <=> w[i] = 0)
    BY <1>1, Terms
  <2>2. QED  BY <1>1, <1>2, <2>1, SumScaled
<1>4. WordSum(s) = l /\ OnesSum(s) = Ones(b)
  BY <1>1, <1>2 DEF WordSum, OnesSum, Little, Big, Ones, M
<1>5. PICK x, y \in 0..(B - 1) : Ones(l) = B * y + x
  <2>1. PICK a \in Nat : a = Ones(l) /\ a <= M
    BY OnesFacts, WordFacts
  <2>2. a = B * (a \div B) + (a % B) /\ a \div B \in Nat /\ a % B \in 0..(B - 1)
    BY DivMod, WordFacts
  <2>3. PICK q \in Nat : q = a \div B
    BY <2>2
  <2>4. q <= B - 1
    <3>1. SUFFICES ASSUME q >= B PROVE FALSE
      BY WordFacts
    <3>2. B * (q - B) \in Nat /\ B * (q - B) = (B * q) - (B * B)
      BY <3>1, Products, WordFacts
    <3>3. B * q \in Nat
      BY Products, WordFacts
    <3>4. PICK r \in Nat : a = B * q + r
      BY <2>2, <2>3
    <3>5. B * B = M + 1 /\ M \in Nat /\ B \in Nat
      BY WordFacts
    <3>6. PICK c, d \in Nat : c = B * q /\ d = B * B
      BY <3>3, <3>5
    <3>7. QED  BY <2>1, <3>2, <3>4, <3>5, <3>6
  <2>5. q \in 0..(B - 1)
    BY <2>4, WordFacts
  <2>6. QED  BY <2>1, <2>2, <2>3, <2>5
<1>6. Ones(b) = B * x + y
  BY <1>3, <1>5, Exchanged
<1>7. compute_checksum(s) = <<B - 1 - x, B - 1 - y>>
  <2>1. Carried(WordSum(s)) = B * y + x
    BY <1>4, <1>5, FoldsOnes
  <2>2. QED  BY <2>1, Complement DEF compute_checksum, M
<1>8. RfcChecksum(s) = <<B - 1 - x, B - 1 - y>>
  BY <1>4, <1>6, Complement DEF RfcChecksum, M
<1>9. QED  BY <1>7, <1>8

\* Sums that differ by less than M have different representatives.
LEMMA OnesApart ==
  ASSUME NEW a \in Nat, NEW b \in Nat, a # b, a - b < M, b - a < M
  PROVE  Ones(a) # Ones(b)
<1> SUFFICES ASSUME Ones(a) = Ones(b) PROVE FALSE
  OBVIOUS
<1>1. PICK r \in Int : r = Ones(a) /\ Congruent(a, r, M) /\ Congruent(b, r, M)
  BY OnesFacts, WordFacts
<1>2. Congruent(a, b, M)
  <2>1. M \in Nat /\ a \in Int /\ b \in Int
    BY WordFacts
  <2>2. Congruent(r, b, M)
    BY <1>1, <2>1, CongruentFacts
  <2>3. QED  BY <1>1, <2>1, <2>2, CongruentFacts
<1>3. PICK k \in Int : a = b + k * M
  BY <1>2 DEF Congruent
<1>4. PICK j \in Int : j = k * M
  BY WordFacts
<1>5. -M < k * M /\ k * M < M
  BY <1>3, <1>4, WordFacts
<1>6. k = 0
  BY <1>5, WordFacts, SmallMultiple
<1>7. QED  BY <1>3, <1>6, WordFacts

\* A byte weighs less than M at either place of a word.
LEMMA Weights ==
  ASSUME NEW k \in 1..(B - 1)
  PROVE  k < M /\ k * B \in Nat /\ k * B > 0 /\ k * B < M
<1>1. B \in Nat /\ M = (B * B) - 1
  BY WordFacts DEF M
<1>2. (k - 1) * B \in Nat /\ (B - 1 - k) * B \in Nat
  BY <1>1, Products
<1>3. (k - 1) * B = (k * B) - B /\ (B - 1 - k) * B = ((B * B) - B) - (k * B)
  BY <1>1
<1>4. PICK c, d \in Int : c = k * B /\ d = B * B
  BY <1>1
<1>5. c - B \in Nat /\ (d - B) - c \in Nat /\ M = d - 1
  BY <1>1, <1>2, <1>3, <1>4
<1>6. c \in Nat /\ c > 0 /\ c < M /\ k < M
  BY <1>1, <1>5
<1>7. QED  BY <1>4, <1>6

LEMMA SumsApart ==
  ASSUME NEW a \in Nat, NEW b \in Nat, NEW p \in 0..(B - 1), NEW q \in 0..(B - 1), p # q,
         NEW f \in {1, B}, a = b + ((p * f) - (q * f))
  PROVE  a # b /\ a - b < M /\ b - a < M
<1>1. B \in Nat /\ M \in Nat
  BY WordFacts
<1>2. PICK k \in 1..(B - 1) : k = p - q \/ k = q - p
  <2>1. p - q \in 1..(B - 1) \/ q - p \in 1..(B - 1)
    BY <1>1
  <2>2. QED  BY <2>1
<1>3. k < M /\ k * B \in Nat /\ k * B > 0 /\ k * B < M
  BY Weights
<1>4. PICK c \in Nat : c > 0 /\ c < M /\ c = k * f
  BY <1>1, <1>3
<1>5. c = (p * f) - (q * f) \/ c = (q * f) - (p * f)
  BY <1>1, <1>2, <1>4
<1>6. PICK x, y \in Int : x = p * f /\ y = q * f
  BY <1>1
<1>7. a = b + c \/ a = b - c
  BY <1>5, <1>6
<1>8. QED  BY <1>1, <1>4, <1>7

\* Changing one byte of a block changes its checksum.
LEMMA ChecksumApart ==
  ASSUME NEW s \in Seq(Nat), NEW t \in Seq(Nat), Len(s) = Len(t), NEW j \in 1..Len(s),
         \A i \in 1..Len(s) : i # j => s[i] = t[i],
         s[j] \in 0..(B - 1), t[j] \in 0..(B - 1), s[j] # t[j]
  PROVE  compute_checksum(s) # compute_checksum(t)
<1>1. PICK n, u, w : /\ n \in Nat /\ n = Len(s) /\ u = Little(s) /\ w = Little(t)
                     /\ u \in [1..n -> Nat] /\ w \in [1..n -> Nat]
  BY Terms
<1>2. \A i \in 1..n : i # j => u[i] = w[i]
  BY <1>1 DEF Little
<1>3. PICK a, b \in Nat : a = SumTo(u, n) /\ b = SumTo(w, n) /\ a = b + (u[j] - w[j])
  <2>1. SumTo(u, n) = SumTo(w, n) + (u[j] - w[j])
    BY <1>1, <1>2, SumChanged
  <2>2. QED  BY <1>1, <2>1, SumsFacts
<1>4. PICK p, q \in 0..(B - 1) : p = s[j] /\ q = t[j] /\ p # q
  OBVIOUS
<1>5. PICK f \in {1, B} : u[j] = p * f /\ w[j] = q * f
  <2>1. CASE j % 2 = 1
    BY <1>1, <1>4, <2>1 DEF Little
  <2>2. CASE j % 2 # 1
    BY <1>1, <1>4, <2>2 DEF Little
  <2>3. QED  BY <2>1, <2>2
<1>6. a # b /\ a - b < M /\ b - a < M
  <2>1. a = b + (p * f - q * f)
    BY <1>3, <1>5
  <2>2. QED  BY ONLY <1>3, <1>4, <1>5, <2>1, SumsApart
<1>7. Ones(a) # Ones(b)
  BY <1>6, OnesApart
<1>8. WordSum(s) = a /\ WordSum(t) = b
  BY <1>1, <1>3 DEF WordSum, Little
<1>9. Carried(WordSum(s)) = Ones(a) /\ Carried(WordSum(t)) = Ones(b)
  BY <1>8, FoldsOnes
<1>10. \A x, y \in 0..M : x # y =>
         <<(M - x) % B, (M - x) \div B>> # <<(M - y) % B, (M - y) \div B>>
  <2> SUFFICES ASSUME NEW x \in 0..M, NEW y \in 0..M, x # y
               PROVE  <<(M - x) % B, (M - x) \div B>> # <<(M - y) % B, (M - y) \div B>>
    OBVIOUS
  <2>1. PICK c, d \in Nat : c = M - x /\ d = M - y /\ c # d
    <3>1. M \in Nat
      BY WordFacts
    <3>2. M - x \in Nat /\ M - y \in Nat /\ M - x # M - y
      BY <3>1
    <3>3. QED  BY <3>2
  <2>2. c = B * (c \div B) + (c % B) /\ d = B * (d \div B) + (d % B)
    BY DivMod, WordFacts
  <2>3. c % B = d % B /\ c \div B = d \div B => c = d
    BY <2>2, Zenon
  <2>4. QED  BY <2>1, <2>3
<1>11. Ones(a) \in 0..M /\ Ones(b) \in 0..M
  BY OnesFacts
<1>12. QED  BY <1>7, <1>9, <1>10, <1>11 DEF compute_checksum, M

-----------------------------------------------------------------------------
(* Checksums in headers *)

\* A header or segment of n bytes, and one that agrees with it except for the
\* checksum.
Header6(h, n) == n \in Nat /\ n >= 6 /\ h \in [1..n -> Nat]
SameFields(r, h, n) == \A i \in 1..n : i # 5 /\ i # 6 => r[i] = h[i]
Unsummed(h) == h[5] = 0 /\ h[6] = 0

\* g is the sequence s with one element replaced.
Replaced(g, s, i, v) == g = [s EXCEPT ![i] = v]

LEMMA AsSeq ==
  ASSUME NEW n \in Nat, NEW S, NEW h \in [1..n -> S]
  PROVE  h \in Seq(S) /\ Len(h) = n
<1>1. h \in Seq(S)
  BY SeqDef
<1>2. QED  BY <1>1, LenProperties

LEMMA CheckStores ==
  ASSUME NEW n, NEW h, Header6(h, n), NEW c, NEW x \in Nat, NEW y \in Nat, c = <<x, y>>
  PROVE  LET r == WithCheck(h, c)
         IN  Header6(r, n) /\ r[5] = x /\ r[6] = y /\ SameFields(r, h, n) /\ CheckOf(r) = c
<1>1. n \in Nat /\ n >= 6 /\ h \in [1..n -> Nat] /\ c[1] = x /\ c[2] = y
  BY DEF Header6
<1>2. PICK g : g = [h EXCEPT ![5] = x]
  OBVIOUS
<1>3. g \in [1..n -> Nat] /\ g[5] = x /\ \A i \in 1..n : i # 5 => g[i] = h[i]
  BY <1>1, <1>2
<1>4. PICK r : r = WithCheck(h, c)
  OBVIOUS
<1>5. r = [g EXCEPT ![6] = y]
  BY <1>1, <1>2, <1>4 DEF WithCheck
<1>6. r \in [1..n -> Nat] /\ r[6] = y /\ \A i \in 1..n : i # 6 => r[i] = g[i]
  BY <1>1, <1>3, <1>5
<1>7. r[5] = x
  BY <1>1, <1>3, <1>6
<1>8. QED  BY <1>1, <1>3, <1>4, <1>6, <1>7 DEF Header6, SameFields, CheckOf

LEMMA ChecksumBytes ==
  ASSUME NEW s \in Seq(Nat)
  PROVE  \E x, y \in Nat : compute_checksum(s) = <<x, y>>
<1>1. PICK a \in Nat : a = WordSum(s)
  <2>1. Len(s) \in Nat /\ Little(s) \in [1..Len(s) -> Nat]
    BY Terms
  <2>2. SumTo(Little(s), Len(s)) \in Nat
    BY <2>1, SumsFacts
  <2>3. QED  BY <2>2 DEF WordSum, Little
<1>2. Ones(a) \in 0..M /\ M \in Nat
  BY OnesFacts, WordFacts
<1>3. PICK c \in Nat : c = M - Ones(a)
  BY <1>2
<1>4. compute_checksum(s) = <<c % B, c \div B>>
  BY <1>1, <1>3, FoldsOnes DEF compute_checksum, M
<1>5. c % B \in Nat /\ c \div B \in Nat
  BY DivMod, WordFacts
<1>6. QED  BY <1>4, <1>5

\* The program calls r valid, whose checksum is taken with ph before it.
Valid(ph, r) == CheckOf(r) = CheckOf(WithCheck(r, compute_checksum(ph \o Zeroed(r))))

\* It does when the checksum in r is that of its fields.
LEMMA Judged ==
  ASSUME NEW n, NEW r, NEW h, Header6(r, n), Header6(h, n), Unsummed(h), SameFields(r, h, n),
         NEW ph \in Seq(Nat)
  PROVE  Valid(ph, r) <=> <<r[5], r[6]>> = compute_checksum(ph \o h)
<1>1. Zeroed(r) = h
  <2>1. PICK z : z = WithCheck(r, <<0, 0>>)
    OBVIOUS
  <2>2. Header6(z, n) /\ z[5] = 0 /\ z[6] = 0 /\ SameFields(z, r, n)
    BY <2>1, CheckStores
  <2>3. \A i \in 1..n : z[i] = h[i]
    BY <2>2 DEF SameFields, Unsummed
  <2>4. z = h
    BY <2>2, <2>3 DEF Header6
  <2>5. QED  BY <2>1, <2>4 DEF Zeroed
<1>2. h \in Seq(Nat)
  BY AsSeq DEF Header6
<1>3. ph \o h \in Seq(Nat)
  BY <1>2, ConcatProperties
<1>4. PICK x, y \in Nat : compute_checksum(ph \o h) = <<x, y>>
  BY <1>3, ChecksumBytes
<1>5. CheckOf(WithCheck(r, compute_checksum(ph \o h))) = compute_checksum(ph \o h)
  BY <1>4, CheckStores
<1>6. QED  BY <1>1, <1>5 DEF Valid, CheckOf

\* A damaged field is noticed.
LEMMA FieldJudged ==
  ASSUME NEW n, NEW r, NEW h, Header6(r, n), Header6(h, n), Unsummed(h),
         NEW k \in 1..n, k # 5, k # 6, r[k] # h[k], r[k] \in 0..(B - 1), h[k] \in 0..(B - 1),
         \A i \in 1..n : i # 5 /\ i # 6 /\ i # k => r[i] = h[i],
         NEW ph \in Seq(Nat), <<r[5], r[6]>> = compute_checksum(ph \o h)
  PROVE  ~Valid(ph, r)
<1>1. n \in Nat /\ n >= 6 /\ h \in [1..n -> Nat] /\ r \in [1..n -> Nat]
  BY DEF Header6
<1>2. PICK g : g = [i \in 1..n |-> IF i = k THEN r[k] ELSE h[i]]
  OBVIOUS
<1>3. Header6(g, n) /\ Unsummed(g) /\ SameFields(r, g, n)
  <2>1. g \in [1..n -> Nat]
    BY <1>1, <1>2
  <2>2. g[5] = h[5] /\ g[6] = h[6]
    BY <1>1, <1>2
  <2>3. \A i \in 1..n : i # 5 /\ i # 6 => r[i] = g[i]
    BY <1>1, <1>2
  <2>4. QED  BY <1>1, <2>1, <2>2, <2>3 DEF Header6, Unsummed, SameFields
<1>4. h \in Seq(Nat) /\ g \in Seq(Nat) /\ Len(h) = n /\ Len(g) = n
  BY <1>1, <1>3, AsSeq DEF Header6
<1>5. PICK s, t \in Seq(Nat) : s = ph \o h /\ t = ph \o g
  BY <1>4, ConcatProperties
<1>6. PICK m \in Nat : m = Len(ph)
  BY LenProperties
<1>7. /\ Len(s) = m + n /\ Len(t) = m + n
      /\ \A i \in 1..(m + n) : s[i] = IF i <= m THEN ph[i] ELSE h[i - m]
      /\ \A i \in 1..(m + n) : t[i] = IF i <= m THEN ph[i] ELSE g[i - m]
  <2>1. /\ Len(ph \o h) = Len(ph) + Len(h)
        /\ \A i \in 1..(Len(ph) + Len(h)) :
             (ph \o h)[i] = IF i <= Len(ph) THEN ph[i] ELSE h[i - Len(ph)]
    BY <1>4, ConcatProperties
  <2>2. /\ Len(ph \o g) = Len(ph) + Len(g)
        /\ \A i \in 1..(Len(ph) + Len(g)) :
             (ph \o g)[i] = IF i <= Len(ph) THEN ph[i] ELSE g[i - Len(ph)]
    BY <1>4, ConcatProperties
  <2>3. QED  BY <1>4, <1>5, <1>6, <2>1, <2>2, Zenon
<1>8. PICK j \in 1..Len(s) : j = m + k
  BY <1>1, <1>7
<1>9. s[j] = h[k] /\ t[j] = r[k]
  <2>1. j \in 1..(m + n) /\ ~(j <= m) /\ j - m = k
    BY <1>1, <1>7, <1>8
  <2>2. s[j] = h[k] /\ t[j] = g[k]
    BY <1>7, <2>1
  <2>3. QED  BY <1>2, <2>2
<1>10. ASSUME NEW i \in 1..Len(s), i # j PROVE s[i] = t[i]
  <2>1. i \in 1..(m + n)
    BY <1>7
  <2>2. CASE i <= m
    BY <1>7, <2>1, <2>2
  <2>3. CASE ~(i <= m)
    <3>1. PICK l \in 1..n : l = i - m /\ l # k
      BY <1>1, <1>8, <1>10, <2>1, <2>3
    <3>2. g[l] = h[l]
      BY <1>2, <3>1
    <3>3. QED  BY <1>7, <2>1, <2>3, <3>1, <3>2
  <2>4. QED  BY <2>2, <2>3
<1>11. compute_checksum(s) # compute_checksum(t)
  <2>1. s[j] \in 0..(B - 1) /\ t[j] \in 0..(B - 1) /\ s[j] # t[j] /\ Len(s) = Len(t)
    BY <1>7, <1>9
  <2>2. QED  BY <1>10, <2>1, ChecksumApart
<1>12. QED  BY <1>3, <1>5, <1>11, Judged

-----------------------------------------------------------------------------
(* Packets as they are sent *)

\* What is known of the packet q sent: its IP header is h with its checksum,
\* and its segment is g with K for a checksum; ph is the pseudo header.
Sending(q, proto, addr, n, h, g, ph) ==
  /\ Header6(h, 6) /\ Unsummed(h)
  /\ h[3] = addr /\ h[4] = Number[proto] /\ Value(h) = 6 + n
  /\ Header6(q.ip, 6) /\ SameFields(q.ip, h, 6)
  /\ <<q.ip[5], q.ip[6]>> = compute_checksum(h)
  /\ Header6(g, n) /\ Unsummed(g)
  /\ \A i \in 1..n : i = 1 \/ i = 2 \/ i > 6 => g[i] \in 0..(B - 1)
  /\ proto = "udp" => <<g[3], g[4]>> = Length(n)
  /\ Header6(q.seg, n) /\ SameFields(q.seg, g, n)
  /\ ph = <<addr, addr, 0, Number[proto]>> \o Length(n) /\ ph \in Seq(Nat)
  /\ \/ <<q.seg[5], q.seg[6]>> = compute_checksum(ph \o g)
     \/ proto = "udp" /\ ~q.summed
     \/ /\ proto = "udp" /\ compute_checksum(ph \o g) = <<0, 0>>
        /\ <<q.seg[5], q.seg[6]>> = <<B - 1, B - 1>>

LEMMA Pairs ==
  \A x, y \in Nat : <<x, y>> \in Seq(Nat) /\ Len(<<x, y>>) = 2 /\ <<x, y>>[1] = x /\ <<x, y>>[2] = y
OBVIOUS

LEMMA Fours ==
  ASSUME NEW w \in Nat, NEW x \in Nat, NEW y \in Nat, NEW z \in Nat, NEW t, t = <<w, x, y, z>>
  PROVE  t \in Seq(Nat) /\ Len(t) = 4 /\ t[1] = w /\ t[2] = x /\ t[3] = y /\ t[4] = z
OBVIOUS

\* u is s followed by t.
Join(u, s, t) == u = s \o t /\ s \in Seq(Nat) /\ t \in Seq(Nat)

JoinedParts(u, s, t) ==
  /\ u \in Seq(Nat) /\ Len(u) = Len(s) + Len(t)
  /\ \A i \in 1..Len(s) : u[i] = s[i]
  /\ \A i \in Nat : i > Len(s) /\ i - Len(s) <= Len(t) => u[i] = t[i - Len(s)]

LEMMA JoinedElements ==
  ASSUME NEW u, NEW s, NEW t, Join(u, s, t)
  PROVE  JoinedParts(u, s, t)
<1>1. u \in Seq(Nat) /\ Len(u) = Len(s) + Len(t)
  BY ConcatProperties DEF Join
<1>2. \A i \in 1..(Len(s) + Len(t)) : (s \o t)[i] = IF i <= Len(s) THEN s[i] ELSE t[i - Len(s)]
  BY ConcatProperties DEF Join
<1>3. \A i \in 1..(Len(s) + Len(t)) : u[i] = IF i <= Len(s) THEN s[i] ELSE t[i - Len(s)]
  BY <1>2, Zenon DEF Join
<1>4. Len(s) \in Nat /\ Len(t) \in Nat
  BY LenProperties DEF Join
<1>5. \A i \in 1..Len(s) : u[i] = s[i]
  BY <1>3, <1>4
<1>6. ASSUME NEW i \in Nat, i > Len(s), i - Len(s) <= Len(t) PROVE u[i] = t[i - Len(s)]
  <2>1. i \in 1..(Len(s) + Len(t)) /\ ~(i <= Len(s))
    BY <1>4, <1>6
  <2>2. QED  BY <1>3, <2>1
<1>7. QED  BY <1>1, <1>5, <1>6 DEF JoinedParts

LEMMA LengthFacts ==
  ASSUME NEW n \in Nat
  PROVE  \E x, y \in Nat : Length(n) = <<x, y>> /\ (x * B) + y = n
<1>1. n = B * (n \div B) + (n % B) /\ n \div B \in Nat /\ n % B \in Nat
  BY DivMod, WordFacts
<1>2. PICK x, y \in Nat : x = n \div B /\ y = n % B
  BY <1>1
<1>3. (x * B) + y = n
  BY <1>1, <1>2, WordFacts
<1>4. QED  BY <1>2, <1>3 DEF Length

IpFields(h, proto, addr, n) ==
  /\ Header6(h, 6) /\ Unsummed(h) /\ h \in Seq(Nat)
  /\ h[3] = addr /\ h[4] = Number[proto] /\ Value(h) = 6 + n

LEMMA HeaderFacts ==
  ASSUME NEW proto \in {"tcp", "udp"}, NEW addr \in Nat, NEW n \in Nat
  PROVE  IpFields(IpHeader(proto, addr, n), proto, addr, n)
<1>a. PICK h : h = IpHeader(proto, addr, n)
  OBVIOUS
<1>1. PICK p \in Nat : p = Number[proto]
  BY DEF Number
<1>2. PICK x, y \in Nat : Length(6 + n) = <<x, y>> /\ (x * B) + y = 6 + n
  <2>1. 6 + n \in Nat
    OBVIOUS
  <2>2. QED  BY <2>1, LengthFacts
<1>3. PICK s : s = <<x, y>>
  OBVIOUS
<1>4. PICK t : t = <<addr, p, 0, 0>>
  OBVIOUS
<1>5. /\ s \in Seq(Nat) /\ 2 = Len(s) /\ s[1] = x /\ s[2] = y
      /\ t \in Seq(Nat) /\ 4 = Len(t) /\ t[1] = addr /\ t[2] = p /\ t[3] = 0 /\ t[4] = 0
  BY <1>3, <1>4, Pairs, Fours
<1>6. /\ h \in Seq(Nat) /\ Len(h) = 2 + 4
      /\ \A i \in 1..2 : h[i] = s[i]
      /\ \A i \in Nat : i > 2 /\ i - 2 <= 4 => h[i] = t[i - 2]
  <2>1. h = s \o t
    BY <1>a, <1>1, <1>2, <1>3, <1>4 DEF IpHeader
  <2>2. Join(h, s, t)
    BY <1>5, <2>1 DEF Join
  <2>3. JoinedParts(h, s, t)
    BY <2>2, JoinedElements
  <2>4. QED  BY <1>5, <2>3 DEF JoinedParts
<1>7. /\ h[1] = x /\ h[2] = y /\ Len(h) = 6
      /\ h[3] = addr /\ h[4] = p /\ h[5] = 0 /\ h[6] = 0
  BY <1>5, <1>6
<1>8. h \in [1..6 -> Nat]
  BY <1>6, <1>7, LenProperties
<1>9. Value(h) = 6 + n
  BY <1>2, <1>7 DEF Value
<1>10. QED  BY <1>a, <1>1, <1>6, <1>7, <1>8, <1>9 DEF Header6, Unsummed, IpFields

\* A segment of n bytes before its checksum is stored: its fields and data are
\* bytes, and UDP's tells its length.
SegmentFields(g, proto, n) ==
  /\ Header6(g, n) /\ Unsummed(g) /\ g \in Seq(Nat) /\ Len(g) = n
  /\ \A i \in 1..n : i = 1 \/ i = 2 \/ i > 6 => g[i] \in 0..(B - 1)
  /\ proto = "udp" => <<g[3], g[4]>> = Length(n)

LEMMA SegmentFacts ==
  ASSUME NEW proto \in {"tcp", "udp"}, NEW port \in 0..(B - 1), NEW data \in Seq(0..(B - 1)),
         NEW g, g = Segment(proto, port, data)
  PROVE  SegmentFields(g, proto, 6 + Len(data))
<1>1. PICK m \in Nat : m = Len(data) /\ data \in Seq(Nat) /\ \A i \in 1..m : data[i] \in 0..(B - 1)
  <2>1. Len(data) \in Nat /\ data \in [1..Len(data) -> 0..(B - 1)]
    BY LenProperties
  <2>2. data \in [1..Len(data) -> Nat]
    BY <2>1, WordFacts
  <2>3. data \in Seq(Nat)
    BY <2>1, <2>2, AsSeq
  <2>4. QED  BY <2>1, <2>3
<1>2. PICK l, x, y : /\ l = (IF proto = "udp" THEN Length(6 + Len(data)) ELSE <<0, 6>>)
                     /\ x \in Nat /\ y \in Nat /\ l = <<x, y>>
  <2>1. 6 + Len(data) \in Nat
    BY <1>1
  <2>2. CASE proto = "udp"
    <3>1. PICK x, y \in Nat : Length(6 + Len(data)) = <<x, y>>
      BY <2>1, LengthFacts
    <3>2. QED  BY <2>2, <3>1
  <2>3. CASE proto # "udp"
    <3>1. PICK x, y \in Nat : <<0, 6>> = <<x, y>>
      OBVIOUS
    <3>2. QED  BY <2>3, <3>1
  <2>4. QED  BY <2>2, <2>3
<1>3. PICK a : a = <<0, port>>
  OBVIOUS
<1>4. a \in Seq(Nat) /\ 2 = Len(a) /\ a[1] = 0 /\ a[2] = port
  <2>1. 0 \in Nat /\ port \in Nat
    BY WordFacts
  <2>2. QED  BY <1>3, <2>1, Pairs
<1>5. PICK b : /\ b = a \o l /\ b \in Seq(Nat) /\ Len(b) = 4
               /\ b[1] = 0 /\ b[2] = port /\ b[3] = x /\ b[4] = y
  <2>1. PICK b : b = a \o l
    OBVIOUS
  <2>2. l \in Seq(Nat) /\ 2 = Len(l) /\ l[1] = x /\ l[2] = y
    <3>1. x \in Nat /\ y \in Nat /\ l = <<x, y>>
      BY <1>2
    <3>2. QED  BY ONLY <3>1, Pairs
  <2>3. Join(b, a, l)
    BY <1>4, <2>1, <2>2 DEF Join
  <2>4. JoinedParts(b, a, l)
    BY <2>3, JoinedElements
  <2>5. b[1] = a[1] /\ b[2] = a[2] /\ b[3] = l[1] /\ b[4] = l[2] /\ Len(b) = 4
    <3>1. /\ Len(b) = 2 + 2 /\ \A i \in 1..2 : b[i] = a[i]
          /\ \A i \in Nat : i > 2 /\ i - 2 <= 2 => b[i] = l[i - 2]
      BY ONLY <1>4, <2>2, <2>4 DEF JoinedParts
    <3>2. QED  BY ONLY <3>1
  <2>6. QED  BY <1>4, <2>1, <2>2, <2>4, <2>5 DEF JoinedParts
<1>6. PICK d : /\ d = b \o <<0, 0>> /\ d \in Seq(Nat) /\ Len(d) = 6 /\ d[5] = 0 /\ d[6] = 0
               /\ d[1] = 0 /\ d[2] = port /\ d[3] = x /\ d[4] = y
  <2>1. PICK z : z = <<0, 0>>
    OBVIOUS
  <2>2. PICK d : d = b \o z
    OBVIOUS
  <2>3. z \in Seq(Nat) /\ 2 = Len(z) /\ z[1] = 0 /\ z[2] = 0
    BY <2>1, Pairs
  <2>4. Join(d, b, z)
    BY <1>5, <2>2, <2>3 DEF Join
  <2>5. JoinedParts(d, b, z)
    BY <2>4, JoinedElements
  <2>6. /\ d[1] = b[1] /\ d[2] = b[2] /\ d[3] = b[3] /\ d[4] = b[4]
        /\ d[5] = z[1] /\ d[6] = z[2] /\ Len(d) = 6
    <3>1. /\ Len(d) = 4 + 2 /\ \A i \in 1..4 : d[i] = b[i]
          /\ \A i \in Nat : i > 4 /\ i - 4 <= 2 => d[i] = z[i - 4]
      BY ONLY <1>5, <2>3, <2>5 DEF JoinedParts
    <3>2. QED  BY ONLY <3>1
  <2>7. QED  BY <1>5, <2>1, <2>2, <2>3, <2>5, <2>6 DEF JoinedParts
<1>7. g = d \o data
  BY <1>2, <1>3, <1>5, <1>6 DEF Segment
<1>8. /\ g \in Seq(Nat) /\ Len(g) = 6 + m
      /\ \A i \in 1..6 : g[i] = d[i]
      /\ \A i \in Nat : i > 6 /\ i - 6 <= m => g[i] = data[i - 6]
  <2>1. d \in Seq(Nat) /\ 6 = Len(d) /\ data \in Seq(Nat) /\ m = Len(data)
    BY <1>1, <1>6
  <2>2. Join(g, d, data)
    BY <1>7, <2>1 DEF Join
  <2>3. JoinedParts(g, d, data)
    BY <2>2, JoinedElements
  <2>4. QED  BY <2>1, <2>3 DEF JoinedParts
<1>9. g \in [1..(6 + m) -> Nat]
  BY <1>8, LenProperties
<1>10. g[1] = 0 /\ g[2] = port /\ g[3] = x /\ g[4] = y /\ g[5] = 0 /\ g[6] = 0
  <2>1. g[1] = d[1] /\ g[2] = d[2] /\ g[3] = d[3] /\ g[4] = d[4] /\ g[5] = d[5] /\ g[6] = d[6]
    BY <1>8
  <2>2. QED  BY <1>6, <2>1
<1>11. ASSUME NEW i \in 1..(6 + m), i = 1 \/ i = 2 \/ i > 6 PROVE g[i] \in 0..(B - 1)
  <2>1. CASE i > 6
    <3>1. i - 6 \in 1..m /\ i \in Nat /\ i - 6 <= m
      BY <2>1
    <3>2. g[i] = data[i - 6]
      BY <1>8, <2>1, <3>1
    <3>3. QED  BY <1>1, <3>1, <3>2
  <2>2. CASE i = 1 \/ i = 2
    BY <1>10, <2>2, WordFacts
  <2>3. QED  BY <1>11, <2>1, <2>2
<1>12. QED  BY <1>1, <1>2, <1>8, <1>9, <1>10, <1>11 DEF Header6, Unsummed, SegmentFields

\* A packet: its parts, its protocol and whether, and where, it was damaged.
Made(q, proto) ==
  /\ {"proto", "ip", "seg", "summed", "damaged"} \subseteq DOMAIN q
  /\ q.proto = proto

SentBy(q, proto, addr) ==
  /\ \E n, h, g, ph : Sending(q, proto, addr, n, h, g, ph)
  /\ Made(q, proto) /\ q.damaged = "none"

LEMMA SentFacts ==
  ASSUME NEW proto \in {"tcp", "udp"}, NEW addr \in 0..(B - 1), NEW port \in 0..(B - 1),
         NEW data \in Seq(0..(B - 1)), NEW unsummed \in {FALSE, proto = "udp"}
  PROVE  SentBy(Sent(proto, addr, port, data, unsummed), proto, addr)
<1>a. PICK q : q = Sent(proto, addr, port, data, unsummed)
  OBVIOUS
<1>1. PICK g : g = Segment(proto, port, data)
  OBVIOUS
<1>2. PICK n \in Nat : n = 6 + Len(data)
  BY LenProperties
<1>3. /\ Header6(g, n) /\ Unsummed(g) /\ g \in Seq(Nat) /\ Len(g) = n
      /\ \A i \in 1..n : i = 1 \/ i = 2 \/ i > 6 => g[i] \in 0..(B - 1)
      /\ proto = "udp" => <<g[3], g[4]>> = Length(n)
  <2>1. SegmentFields(g, proto, 6 + Len(data))
    BY <1>1, SegmentFacts
  <2>2. SegmentFields(g, proto, n)
    BY <1>2, <2>1
  <2>3. QED  BY <2>2 DEF SegmentFields
<1>4. PICK h : h = IpHeader(proto, addr, n)
  OBVIOUS
<1>5. /\ Header6(h, 6) /\ Unsummed(h) /\ h \in Seq(Nat)
      /\ h[3] = addr /\ h[4] = Number[proto] /\ Value(h) = 6 + n
  <2>1. addr \in Nat
    BY WordFacts
  <2>2. IpFields(h, proto, addr, n)
    BY <1>4, <2>1, HeaderFacts
  <2>3. QED  BY <2>2 DEF IpFields
<1>6. PICK ph : ph = <<addr, addr, 0, Number[proto]>> \o Length(n)
  OBVIOUS
<1>7. ph \in Seq(Nat)
  <2>1. addr \in Nat /\ Number[proto] \in Nat
    BY WordFacts DEF Number
  <2>2. PICK a : a = <<addr, addr, 0, Number[proto]>>
    OBVIOUS
  <2>3. a \in Seq(Nat)
    BY <2>1, <2>2, Fours
  <2>4. Length(n) \in Seq(Nat)
    <3>1. PICK x, y \in Nat : Length(n) = <<x, y>>
      BY LengthFacts
    <3>2. QED  BY ONLY <3>1, x \in Nat, y \in Nat, Pairs
  <2>5. Join(ph, a, Length(n))
    BY <1>6, <2>2, <2>3, <2>4 DEF Join
  <2>6. QED  BY <2>5, JoinedElements DEF JoinedParts
<1>8. ph \o g \in Seq(Nat)
  BY <1>3, <1>7, ConcatProperties
<1>9. PICK c : c = RfcChecksum(ph \o g)
  OBVIOUS
<1>10. c = compute_checksum(ph \o g) /\ \E x, y \in Nat : c = <<x, y>>
  BY <1>8, <1>9, ChecksumAgrees, ChecksumBytes
<1>11. PICK k : k = IF unsummed THEN <<0, 0>>
                    ELSE IF proto = "udp" /\ c = <<0, 0>> THEN <<B - 1, B - 1>> ELSE c
  OBVIOUS
<1>12. PICK x, y \in Nat : k = <<x, y>>
  <2>1. B - 1 \in Nat
    BY WordFacts
  <2>2. QED  BY <1>10, <1>11, <2>1
<1>13. PICK r, i : r = WithCheck(g, k) /\ i = WithCheck(h, RfcChecksum(h))
  OBVIOUS
<1>14. q = [proto |-> proto, ip |-> i, seg |-> r, summed |-> ~unsummed, damaged |-> "none"]
  BY <1>a, <1>1, <1>3, <1>4, <1>6, <1>9, <1>11, <1>13 DEF Sent
<1>15. Header6(r, n) /\ SameFields(r, g, n) /\ <<r[5], r[6]>> = k
  BY <1>3, <1>12, <1>13, CheckStores
<1>16. Header6(i, 6) /\ SameFields(i, h, 6) /\ <<i[5], i[6]>> = compute_checksum(h)
  <2>1. RfcChecksum(h) = compute_checksum(h)
    BY <1>5, ChecksumAgrees
  <2>2. PICK v, w \in Nat : compute_checksum(h) = <<v, w>>
    BY <1>5, ChecksumBytes
  <2>3. PICK d : d = <<v, w>> /\ i = WithCheck(h, d)
    BY <1>13, <2>1, <2>2
  <2>4. Header6(i, 6) /\ i[5] = v /\ i[6] = w /\ SameFields(i, h, 6)
    <3>1. Header6(h, 6)
      BY <1>5
    <3>2. PICK m : m = 6
      OBVIOUS
    <3>3. /\ Header6(WithCheck(h, d), m) /\ WithCheck(h, d)[5] = v /\ WithCheck(h, d)[6] = w
          /\ SameFields(WithCheck(h, d), h, m)
      BY <2>2, <2>3, <3>1, <3>2, CheckStores
    <3>4. QED  BY <2>3, <3>2, <3>3
  <2>5. QED  BY ONLY <2>2, <2>4
<1>17. \/ k = compute_checksum(ph \o g)
       \/ proto = "udp" /\ unsummed
       \/ proto = "udp" /\ compute_checksum(ph \o g) = <<0, 0>> /\ k = <<B - 1, B - 1>>
  BY <1>10, <1>11
<1>18. /\ Made(q, proto) /\ q.damaged = "none"
       /\ q.ip = i /\ q.seg = r /\ q.summed = ~unsummed
  BY <1>14 DEF Made
<1>19. Sending(q, proto, addr, n, h, g, ph)
  BY <1>3, <1>5, <1>6, <1>7, <1>15, <1>16, <1>17, <1>18 DEF Sending
<1>20. QED  BY <1>a, <1>18, <1>19 DEF SentBy

-----------------------------------------------------------------------------
(* Packets as they arrive *)

\* r is o, a header or segment of n bytes, with another byte v at k.
Hit(r, o, n, k, v) ==
  /\ Header6(r, n) /\ r[k] = v /\ v # o[k]
  /\ \A i \in 1..n : i # k => r[i] = o[i]

LEMMA HitFacts ==
  ASSUME NEW n, NEW o, Header6(o, n), NEW k \in 1..n, NEW v \in Nat, NEW r,
         Replaced(r, o, k, v), r # o
  PROVE  Hit(r, o, n, k, v)
<1>1. n \in Nat /\ n >= 6 /\ o \in [1..n -> Nat] /\ r = [o EXCEPT ![k] = v]
  BY DEF Header6, Replaced
<1>2. r \in [1..n -> Nat] /\ r[k] = v /\ \A i \in 1..n : i # k => r[i] = o[i]
  BY <1>1
<1>3. v # o[k]
  <2> SUFFICES ASSUME v = o[k] PROVE FALSE
    OBVIOUS
  <2>1. \A i \in 1..n : r[i] = o[i]
    BY <1>2
  <2>2. r = o
    BY <1>1, <1>2, <2>1
  <2>3. QED  BY <2>2
<1>4. QED  BY <1>1, <1>2, <1>3 DEF Hit, Header6

\* What arrives is a packet sent, or one with one byte damaged.
LEMMA ArrivingCases ==
  ASSUME NEW proto \in {"tcp", "udp"}, NEW p \in Arriving(proto)
  PROVE  \E addr \in Bytes, port \in Bytes, data \in SeqOf(Bytes, MaxData),
            unsummed \in {FALSE, proto = "udp"} :
           LET s == Sent(proto, addr, port, data, unsummed)
           IN  \/ p = s
               \/ p \in Damaged(s) /\ (p.ip # s.ip \/ p.seg # s.seg)
<1> DEFINE Sends(a, t, d, u) ==
      LET q == Sent(proto, a, t, d, u)
      IN  {q} \union {e \in Damaged(q) : e.ip # q.ip \/ e.seg # q.seg}
<1>1. Arriving(proto) =
        UNION {Sends(addr, port, data, unsummed) :
          addr \in Bytes, port \in Bytes, data \in SeqOf(Bytes, MaxData),
          unsummed \in {FALSE, proto = "udp"}}
  BY DEF Arriving
<1>2. ASSUME NEW a, NEW t, NEW d, NEW u, NEW e \in Sends(a, t, d, u), NEW q,
             q = Sent(proto, a, t, d, u)
      PROVE  e = q \/ (e \in Damaged(q) /\ (e.ip # q.ip \/ e.seg # q.seg))
  <2>1. e \in {q} \union {f \in Damaged(q) : f.ip # q.ip \/ f.seg # q.seg}
    BY <1>2
  <2>2. QED  BY <2>1
<1> HIDE DEF Sends
<1>3. PICK U : U = {FALSE, proto = "udp"}
  OBVIOUS
<1>4. PICK W : /\ p \in W
               /\ W \in {Sends(addr, port, data, unsummed) :
                          addr \in Bytes, port \in Bytes, data \in SeqOf(Bytes, MaxData),
                          unsummed \in U}
  <2> DEFINE Y == {Sends(addr, port, data, unsummed) :
                     addr \in Bytes, port \in Bytes, data \in SeqOf(Bytes, MaxData),
                     unsummed \in U}
  <2>1. SUFFICES \E W : p \in W /\ W \in Y
    OBVIOUS
  <2>2. Arriving(proto) = UNION Y
    BY <1>1, <1>3
  <2> HIDE DEF Y
  <2>3. QED  BY <2>2
<1>5. PICK a \in Bytes, t \in Bytes, d \in SeqOf(Bytes, MaxData), u \in U : W = Sends(a, t, d, u)
  BY <1>4
<1>6. LET q == Sent(proto, a, t, d, u)
      IN  p = q \/ (p \in Damaged(q) /\ (p.ip # q.ip \/ p.seg # q.seg))
  BY <1>2, <1>4, <1>5
<1>7. QED  BY <1>3, <1>5, <1>6

\* p is the packet s with byte k of its header, or of its segment, damaged.
InHeader(p, s, k, v) == p = [s EXCEPT !.damaged = "ip", !.ip[k] = v]
InSegment(p, s, k, v) == p = [s EXCEPT !.damaged = "seg", !.seg[k] = v]

LEMMA DamagedCases ==
  ASSUME NEW s, NEW p
  PROVE  p \in Damaged(s) =>
           \/ \E k \in {3, 5, 6}, v \in Bytes : InHeader(p, s, k, v)
           \/ \E k \in {1, 2} \union 5..Len(s.seg), v \in Bytes : InSegment(p, s, k, v)
<1> DEFINE Ip(k, v) == [s EXCEPT !.damaged = "ip", !.ip[k] = v]
           Seg(k, v) == [s EXCEPT !.damaged = "seg", !.seg[k] = v]
<1>1. Damaged(s) = {Ip(k, v) : k \in {3, 5, 6}, v \in Bytes} \union
                   {Seg(k, v) : k \in {1, 2} \union 5..Len(s.seg), v \in Bytes}
  BY DEF Damaged
<1>2. \A k, v : (InHeader(p, s, k, v) <=> p = Ip(k, v)) /\ (InSegment(p, s, k, v) <=> p = Seg(k, v))
  BY DEF InHeader, InSegment
<1> HIDE DEF Ip, Seg
<1>3. QED  BY <1>1, <1>2

\* What became of the packet s on its way.
Arrived(p, s, n) ==
  \/ p.damaged = "none" /\ p.ip = s.ip /\ p.seg = s.seg
  \/ /\ p.damaged = "ip" /\ p.seg = s.seg
     /\ \E k \in {3, 5, 6}, v \in 0..(B - 1) : Hit(p.ip, s.ip, 6, k, v)
  \/ /\ p.damaged = "seg" /\ p.ip = s.ip
     /\ \E k \in 1..n, v \in 0..(B - 1) : k # 3 /\ k # 4 /\ Hit(p.seg, s.seg, n, k, v)

LEMMA ArrivedFacts ==
  ASSUME NEW proto \in {"tcp", "udp"}, NEW p \in Arriving(proto)
  PROVE  /\ Made(p, proto)
         /\ \E s, addr, n, h, g, ph :
              /\ addr \in 0..(B - 1) /\ Sending(s, proto, addr, n, h, g, ph)
              /\ p.summed = s.summed /\ Arrived(p, s, n)
<1>1. PICK addr \in Bytes, port \in Bytes, data \in SeqOf(Bytes, MaxData),
           unsummed \in {FALSE, proto = "udp"} :
        LET s == Sent(proto, addr, port, data, unsummed)
        IN  p = s \/ (p \in Damaged(s) /\ (p.ip # s.ip \/ p.seg # s.seg))
  BY ArrivingCases
<1>2. PICK s : s = Sent(proto, addr, port, data, unsummed)
  OBVIOUS
<1>3. p = s \/ (p \in Damaged(s) /\ (p.ip # s.ip \/ p.seg # s.seg))
  BY <1>1, <1>2
<1>4. addr \in 0..(B - 1) /\ port \in 0..(B - 1) /\ data \in Seq(0..(B - 1))
  <2>1. PICK m \in 0..MaxData : data \in [1..m -> Bytes]
    BY DEF SeqOf
  <2>2. m \in Nat /\ data \in [1..m -> 0..(B - 1)]
    <3>1. m \in Nat /\ Bytes \subseteq 0..(B - 1)
      BY <2>1, PacketAssumption
    <3>2. QED  BY <2>1, <3>1, Zenon
  <2>3. data \in Seq(0..(B - 1))
    BY <2>2, AsSeq
  <2>4. QED  BY <2>3, PacketAssumption
<1>5. SentBy(s, proto, addr)
  BY <1>2, <1>4, SentFacts
<1>6. PICK n, h, g, ph : Sending(s, proto, addr, n, h, g, ph)
  BY <1>5 DEF SentBy
<1>a. Made(s, proto) /\ s.damaged = "none"
  BY <1>5 DEF SentBy
<1>7. Header6(s.ip, 6) /\ Header6(s.seg, n)
  BY <1>6 DEF Sending
<1>8. Made(p, proto) /\ p.summed = s.summed /\ Arrived(p, s, n)
  <2>1. CASE p = s
    BY <1>a, <2>1 DEF Arrived
  <2>2. CASE p # s /\ \E k \in {3, 5, 6}, v \in Bytes : InHeader(p, s, k, v)
    <3>1. PICK k \in {3, 5, 6}, v \in Bytes : InHeader(p, s, k, v)
      BY <2>2
    <3>2. /\ DOMAIN p = DOMAIN s /\ p.proto = s.proto /\ p.seg = s.seg /\ p.summed = s.summed
          /\ p.damaged = "ip" /\ Replaced(p.ip, s.ip, k, v)
      BY <1>a, <3>1 DEF Made, Replaced, InHeader, InSegment
    <3>3. v \in 0..(B - 1) /\ v \in Nat /\ k \in 1..6
      BY PacketAssumption, WordFacts
    <3>4. p.ip # s.ip
      BY <1>3, <2>2, <3>2
    <3>5. Hit(p.ip, s.ip, 6, k, v)
      BY <1>7, <3>2, <3>3, <3>4, HitFacts
    <3>6. QED  BY <1>a, <3>2, <3>3, <3>5 DEF Made, Arrived
  <2>3. CASE p # s /\ \E k \in {1, 2} \union 5..Len(s.seg), v \in Bytes :
               InSegment(p, s, k, v)
    <3>1. PICK k \in {1, 2} \union 5..Len(s.seg), v \in Bytes :
            InSegment(p, s, k, v)
      BY <2>3
    <3>2. /\ DOMAIN p = DOMAIN s /\ p.proto = s.proto /\ p.ip = s.ip /\ p.summed = s.summed
          /\ p.damaged = "seg" /\ Replaced(p.seg, s.seg, k, v)
      BY <1>a, <3>1 DEF Made, Replaced, InHeader, InSegment
    <3>3. n \in Nat /\ n >= 6 /\ Len(s.seg) = n
      BY <1>7, AsSeq DEF Header6
    <3>4. v \in 0..(B - 1) /\ v \in Nat /\ k \in 1..n /\ k # 3 /\ k # 4
      BY <3>3, PacketAssumption, WordFacts
    <3>5. p.seg # s.seg
      BY <1>3, <2>3, <3>2
    <3>6. Hit(p.seg, s.seg, n, k, v)
      BY <1>7, <3>2, <3>4, <3>5, HitFacts
    <3>7. QED  BY <1>a, <3>2, <3>4, <3>6 DEF Made, Arrived
  <2>4. CASE p # s
    <3>1. \/ \E k \in {3, 5, 6}, v \in Bytes : InHeader(p, s, k, v)
          \/ \E k \in {1, 2} \union 5..Len(s.seg), v \in Bytes :
               InSegment(p, s, k, v)
      BY <1>3, <2>4, DamagedCases
    <3>2. QED  BY <2>2, <2>3, <2>4, <3>1
  <2>5. QED  BY <2>1, <2>4
<1>9. QED  BY <1>4, <1>6, <1>8

-----------------------------------------------------------------------------
(* Verdicts *)

\* A damaged byte is noticed in a header or segment r that was sent as o with
\* the checksum of its fields h.
LEMMA HitJudged ==
  ASSUME NEW n, NEW o, NEW h, NEW r, Header6(o, n), Header6(h, n), Unsummed(h), SameFields(o, h, n),
         NEW ph \in Seq(Nat), <<o[5], o[6]>> = compute_checksum(ph \o h),
         NEW k \in 1..n, NEW v \in 0..(B - 1), Hit(r, o, n, k, v),
         k # 5 /\ k # 6 => h[k] \in 0..(B - 1)
  PROVE  ~Valid(ph, r)
<1>1. n \in Nat /\ n >= 6 /\ Header6(r, n) /\ r[k] = v /\ v # o[k]
  BY DEF Hit, Header6
<1>2. \A i \in 1..n : i # k => r[i] = o[i]
  BY DEF Hit
<1>3. CASE k = 5 \/ k = 6
  <2>1. SameFields(r, h, n)
    BY <1>2, <1>3 DEF SameFields
  <2>2. r[5] # o[5] \/ r[6] # o[6]
    BY <1>1, <1>3
  <2>3. <<r[5], r[6]>> # <<o[5], o[6]>>
    BY <2>2
  <2>4. QED  BY <1>1, <2>1, <2>3, Judged
<1>4. CASE k # 5 /\ k # 6
  <2>1. 5 \in 1..n /\ 6 \in 1..n
    BY <1>1
  <2>2. r[5] = o[5] /\ r[6] = o[6]
    BY <1>2, <1>4, <2>1
  <2>3. o[k] = h[k]
    BY <1>4 DEF SameFields
  <2>4. \A i \in 1..n : i # 5 /\ i # 6 /\ i # k => r[i] = h[i]
    BY <1>2 DEF SameFields
  <2>5. /\ r[k] # h[k] /\ r[k] \in 0..(B - 1) /\ h[k] \in 0..(B - 1)
        /\ <<r[5], r[6]>> = compute_checksum(ph \o h)
    BY <1>1, <1>4, <2>2, <2>3
  <2>6. QED  BY <1>1, <1>4, <2>4, <2>5, FieldJudged
<1>5. QED  BY <1>3, <1>4

LEMMA EmptyPrefix ==
  ASSUME NEW h \in Seq(Nat)
  PROVE  <<>> \in Seq(Nat) /\ <<>> \o h = h
BY EmptySeq, ConcatEmptySeq

\* The verdict on the IP header.
LEMMA IpVerdict ==
  ASSUME NEW proto, NEW p, NEW s, NEW addr \in 0..(B - 1), NEW n, NEW h, NEW g, NEW ph,
         Sending(s, proto, addr, n, h, g, ph), Arrived(p, s, n)
  PROVE  print_ip_header(p.ip).valid = (p.damaged # "ip")
<1>1. /\ Header6(h, 6) /\ Unsummed(h) /\ h[3] = addr
      /\ Header6(s.ip, 6) /\ SameFields(s.ip, h, 6) /\ <<s.ip[5], s.ip[6]>> = compute_checksum(h)
  BY DEF Sending
<1>2. h \in Seq(Nat)
  BY <1>1, AsSeq DEF Header6
<1>3. PICK e \in Seq(Nat) : e = <<>> /\ e \o h = h
  BY <1>2, EmptyPrefix
<1>4. Header6(p.ip, 6)
  BY <1>1 DEF Arrived, Hit
<1>5. print_ip_header(p.ip).valid = Valid(e, p.ip)
  <2>1. PICK z : z = Zeroed(p.ip)
    OBVIOUS
  <2>2. Header6(z, 6)
    BY <1>4, <2>1, CheckStores DEF Zeroed
  <2>3. z \in Seq(Nat)
    BY <2>2, AsSeq DEF Header6
  <2>4. e \o z = z
    BY <1>3, <2>3, EmptyPrefix
  <2>5. QED  BY <2>1, <2>4 DEF print_ip_header, compute_ip_checksum, Valid
<1>6. CASE p.ip = s.ip /\ p.damaged # "ip"
  <2>1. PICK r : r = p.ip /\ r = s.ip
    BY <1>6
  <2>2. Header6(r, 6) /\ SameFields(r, h, 6)
    BY <1>1, <2>1
  <2>3. <<r[5], r[6]>> = compute_checksum(e \o h)
    BY <1>1, <1>3, <2>1
  <2>4. Valid(e, r)
    BY ONLY <1>1, <1>3, <2>2, <2>3, Judged
  <2>5. QED  BY <1>5, <1>6, <2>1, <2>4
<1>7. CASE p.damaged = "ip" /\ \E k \in {3, 5, 6}, v \in 0..(B - 1) : Hit(p.ip, s.ip, 6, k, v)
  <2>1. PICK k \in {3, 5, 6}, v \in 0..(B - 1) : Hit(p.ip, s.ip, 6, k, v)
    BY <1>7
  <2>2. k \in 1..6 /\ (k # 5 /\ k # 6 => h[k] \in 0..(B - 1))
    BY <1>1
  <2>3. ~Valid(e, p.ip)
    BY <1>1, <1>3, <2>1, <2>2, HitJudged
  <2>4. Valid(e, p.ip) = FALSE
    BY <2>3, Zenon DEF Valid
  <2>5. (p.damaged # "ip") = FALSE
    BY <1>7
  <2>6. QED  BY <1>5, <2>4, <2>5
<1>8. QED  BY <1>6, <1>7 DEF Arrived

\* The segment's checksum is recomputed with the pseudo header ph.
LEMMA SegmentJudged ==
  ASSUME NEW proto \in {"tcp", "udp"}, NEW p, NEW s, NEW addr \in 0..(B - 1), NEW n, NEW h, NEW g, NEW ph,
         Sending(s, proto, addr, n, h, g, ph), Arrived(p, s, n), p.damaged # "ip",
         NEW seg, seg = IF proto = "tcp" THEN compute_tcp_checksum(p.ip, p.seg)
                                         ELSE compute_udp_checksum(p.ip, p.seg)
  PROVE  (CheckOf(p.seg) = CheckOf(seg)) <=> Valid(ph, p.seg)
<1>1. p.ip = s.ip
  BY DEF Arrived
<1>2. /\ s.ip[1] = h[1] /\ s.ip[2] = h[2] /\ s.ip[3] = addr /\ s.ip[4] = Number[proto]
      /\ Value(h) = 6 + n /\ n \in Nat /\ n >= 6
      /\ ph = <<addr, addr, 0, Number[proto]>> \o Length(n)
  <2>1. SameFields(s.ip, h, 6) /\ h[3] = addr /\ h[4] = Number[proto]
    BY DEF Sending
  <2>2. \A i \in 1..6 : i # 5 /\ i # 6 => s.ip[i] = h[i]
    BY <2>1 DEF SameFields
  <2>3. s.ip[1] = h[1] /\ s.ip[2] = h[2] /\ s.ip[3] = h[3] /\ s.ip[4] = h[4]
    BY <2>2
  <2>4. n \in Nat /\ n >= 6
    BY DEF Sending, Header6
  <2>5. QED  BY <2>1, <2>3, <2>4 DEF Sending
<1>3. CASE proto = "tcp"
  <2>1. Value(s.ip) = 6 + n
    BY <1>2 DEF Value
  <2>2. Value(s.ip) - 6 = n
    BY <1>2, <2>1
  <2>3. ph = <<p.ip[3], p.ip[3], 0, p.ip[4]>> \o Length(Value(p.ip) - 6)
    BY <1>1, <1>2, <2>2
  <2>4. seg = WithCheck(p.seg, compute_checksum(ph \o Zeroed(p.seg)))
    BY <1>3, <2>3 DEF compute_tcp_checksum
  <2>5. QED  BY <2>4 DEF Valid
<1>4. CASE proto = "udp"
  <2>1. Header6(p.seg, n) /\ p.seg[3] = g[3] /\ p.seg[4] = g[4]
    <3>1. Header6(s.seg, n) /\ SameFields(s.seg, g, n)
      BY DEF Sending
    <3>2. 3 \in 1..n /\ 4 \in 1..n
      BY <1>2
    <3>3. s.seg[3] = g[3] /\ s.seg[4] = g[4]
      BY <3>1, <3>2 DEF SameFields
    <3>4. CASE p.seg = s.seg
      BY <3>1, <3>3, <3>4
    <3>5. CASE \E k \in 1..n, v \in 0..(B - 1) : k # 3 /\ k # 4 /\ Hit(p.seg, s.seg, n, k, v)
      BY <3>2, <3>3, <3>5 DEF Hit
    <3>6. QED  BY <3>4, <3>5 DEF Arrived
  <2>2. <<g[3], g[4]>> = Length(n)
    BY <1>4 DEF Sending
  <2>3. SubSeq(p.seg, 3, 4) = <<p.seg[3], p.seg[4]>>
    <3>a. 3 \in 1..n /\ 4 \in 1..n /\ p.seg \in [1..n -> Nat]
      BY <1>2, <2>1 DEF Header6
    <3>b. p.seg[3] \in Nat /\ p.seg[4] \in Nat
      BY <3>a
    <3>1. PICK x, y \in Nat : x = p.seg[3] /\ y = p.seg[4]
      BY <3>b
    <3>2. PICK t : t = SubSeq(p.seg, 3, 4)
      OBVIOUS
    <3>3. \A i \in 3..4 : p.seg[i] \in Nat
      BY <3>b
    <3>4. t \in Seq(Nat) /\ Len(t) = 2 /\ \A i \in 1..2 : t[i] = p.seg[(3 + i) - 1]
      BY <3>2, <3>3, SubSeqProperties
    <3>5. t[1] = x /\ t[2] = y
      BY <3>1, <3>4
    <3>6. PICK u : u = <<x, y>>
      OBVIOUS
    <3>7. u \in Seq(Nat) /\ Len(u) = 2 /\ u[1] = x /\ u[2] = y
      BY <3>6, Pairs
    <3>8. \A i \in 1..Len(t) : t[i] = u[i]
      BY <3>4, <3>5, <3>7
    <3>9. t = u
      BY <3>4, <3>7, <3>8, SeqEqual
    <3>10. QED  BY <3>1, <3>2, <3>6, <3>9
  <2>4. ph = <<p.ip[3], p.ip[3], 0, p.ip[4]>> \o SubSeq(p.seg, 3, 4)
    BY <1>1, <1>2, <2>1, <2>2, <2>3
  <2>5. seg = WithCheck(p.seg, compute_checksum(ph \o Zeroed(p.seg)))
    BY <1>4, <2>4 DEF compute_udp_checksum
  <2>6. QED  BY <2>5 DEF Valid
<1>5. QED  BY <1>3, <1>4

\* The first verdict on a packet that arrived is right.
LEMMA ShownRight ==
  ASSUME NEW proto \in {"tcp", "udp"}, NEW p \in Arriving(proto),
         NEW seg, seg = IF proto = "tcp" THEN compute_tcp_checksum(p.ip, p.seg)
                                         ELSE compute_udp_checksum(p.ip, p.seg)
  PROVE  RightVerdict(p, Shown(p, seg).verdict)
<1>1. PICK s, addr, n, h, g, ph :
        /\ addr \in 0..(B - 1) /\ Sending(s, proto, addr, n, h, g, ph)
        /\ p.summed = s.summed /\ Arrived(p, s, n)
  BY ArrivedFacts
<1>2. p.proto = proto
  BY ArrivedFacts DEF Made
<1>3. PICK v : v = Shown(p, seg).verdict
  OBVIOUS
<1>4. /\ v.ip = print_ip_header(p.ip).valid
      /\ v.seg = (CheckOf(p.seg) = CheckOf(seg))
      /\ v.check = <<p.seg[5], p.seg[6]>>
  BY <1>3 DEF Shown, CheckOf
<1>5. v.ip = (p.damaged # "ip")
  BY <1>1, <1>4, IpVerdict
<1>6. \/ p.damaged = "ip"
      \/ p.proto = "udp" /\ (~p.summed \/ v.check = <<B - 1, B - 1>>)
      \/ v.seg = (p.damaged = "none")
  <2> SUFFICES ASSUME p.damaged # "ip", ~(proto = "udp" /\ (~p.summed \/ v.check = <<B - 1, B - 1>>))
               PROVE  v.seg = (p.damaged = "none")
    BY <1>2
  <2>1. v.seg <=> Valid(ph, p.seg)
    <3>1. (CheckOf(p.seg) = CheckOf(seg)) <=> Valid(ph, p.seg)
      BY <1>1, SegmentJudged
    <3>2. QED  BY <1>4, <3>1
  <2>2. /\ Header6(g, n) /\ Unsummed(g) /\ Header6(s.seg, n) /\ SameFields(s.seg, g, n)
        /\ ph \in Seq(Nat) /\ n \in Nat /\ n >= 6
        /\ \A i \in 1..n : i = 1 \/ i = 2 \/ i > 6 => g[i] \in 0..(B - 1)
    BY <1>1 DEF Sending, Header6
  <2>3. CASE p.damaged = "none" /\ p.seg = s.seg
    <3>1. PICK r : r = p.seg /\ r = s.seg
      BY <2>3
    <3>2. Header6(r, n) /\ SameFields(r, g, n)
      BY <2>2, <3>1
    <3>3. <<r[5], r[6]>> = compute_checksum(ph \o g)
      BY <1>1, <1>4, <3>1 DEF Sending
    <3>4. Valid(ph, r)
      BY ONLY <2>2, <3>2, <3>3, Judged
    <3>5. v.seg
      BY <2>1, <3>1, <3>4
    <3>6. QED  BY <1>4, <2>3, <3>5
  <2>4. CASE p.damaged = "seg" /\ \E k \in 1..n, x \in 0..(B - 1) :
                                     k # 3 /\ k # 4 /\ Hit(p.seg, s.seg, n, k, x)
    <3>1. PICK k \in 1..n, x \in 0..(B - 1) : k # 3 /\ k # 4 /\ Hit(p.seg, s.seg, n, k, x)
      BY <2>4
    <3>2. k # 5 /\ k # 6 => g[k] \in 0..(B - 1)
      BY <2>2, <3>1
    <3>3. <<s.seg[5], s.seg[6]>> = compute_checksum(ph \o g) => ~Valid(ph, p.seg)
      BY <2>2, <3>1, <3>2, HitJudged
    <3>4. ASSUME compute_checksum(ph \o g) = <<0, 0>>, proto = "udp",
                 <<s.seg[5], s.seg[6]>> = <<B - 1, B - 1>>
          PROVE  ~Valid(ph, p.seg)
      <4>1. Header6(p.seg, n) /\ \A i \in 1..n : i # k => p.seg[i] = s.seg[i]
        BY <3>1 DEF Hit
      <4>2. s.seg[5] = B - 1 /\ s.seg[6] = B - 1 /\ 5 \in 1..n /\ 6 \in 1..n /\ B - 1 # 0
        BY <2>2, <3>4, WordFacts
      <4>3. k = 5 \/ k = 6
        <5> SUFFICES ASSUME k # 5, k # 6 PROVE FALSE
          OBVIOUS
        <5>1. p.seg[5] = B - 1 /\ p.seg[6] = B - 1
          BY <4>1, <4>2
        <5>2. QED  BY <1>4, <3>4, <5>1
      <4>4. SameFields(p.seg, g, n)
        BY <2>2, <4>1, <4>3 DEF SameFields
      <4>5. p.seg[5] # 0 \/ p.seg[6] # 0
        <5>1. CASE k = 5
          <6>1. p.seg[6] = s.seg[6]
            BY <4>1, <4>2, <5>1
          <6>2. QED  BY <4>2, <6>1
        <5>2. CASE k = 6
          <6>1. p.seg[5] = s.seg[5]
            BY <4>1, <4>2, <5>2
          <6>2. QED  BY <4>2, <6>1
        <5>3. QED  BY <4>3, <5>1, <5>2
      <4>6. <<p.seg[5], p.seg[6]>> # compute_checksum(ph \o g)
        BY <3>4, <4>5
      <4>7. QED  BY <2>2, <4>1, <4>4, <4>6, Judged
    <3>5. ~Valid(ph, p.seg)
      <4>1. \/ <<s.seg[5], s.seg[6]>> = compute_checksum(ph \o g)
            \/ /\ compute_checksum(ph \o g) = <<0, 0>> /\ proto = "udp"
               /\ <<s.seg[5], s.seg[6]>> = <<B - 1, B - 1>>
        BY <1>1 DEF Sending
      <4>2. QED  BY <3>3, <3>4, <4>1
    <3>6. v.seg = FALSE
      BY <1>4, <2>1, <3>5
    <3>7. (p.damaged = "none") = FALSE
      BY <2>4
    <3>8. QED  BY <3>6, <3>7
  <2>5. QED  BY <1>1, <2>3, <2>4 DEF Arrived
<1>7. QED  BY <1>3, <1>5, <1>6 DEF RightVerdict

-----------------------------------------------------------------------------
(* The sniffer's verdicts *)

\* The inductive invariant: the packet to be handled is as it arrived, and
\* nothing is printed of it yet.
VerdictInv ==
  /\ "proto" \in DOMAIN packet
  /\ captured /\ packet.proto \in {"tcp", "udp"} => packet \in Arriving(packet.proto)
  /\ captured => printed = <<>>
  /\ VerdictRight

\* Printing changes the checksums in the packet only, and the verdict is right
\* for the packet that is left as well.
LEMMA PrintKeeps ==
  ASSUME NEW p, NEW seg, {"proto", "summed", "damaged"} \subseteq DOMAIN p
  PROVE  LET q == Shown(p, seg).packet
         IN  /\ {"proto", "summed", "damaged"} \subseteq DOMAIN q
             /\ q.proto = p.proto /\ q.summed = p.summed /\ q.damaged = p.damaged
<1>1. PICK q, h : q = Shown(p, seg).packet /\ q = [p EXCEPT !.ip = h, !.seg = seg]
  BY DEF Shown
<1>2. QED  BY <1>1

LEMMA VerdictKept ==
  ASSUME NEW p, NEW q, NEW v, RightVerdict(p, v),
         q.proto = p.proto, q.summed = p.summed, q.damaged = p.damaged
  PROVE  RightVerdict(q, v)
BY DEF RightVerdict

LEMMA VerdictCapture == VerdictInv /\ Capture => VerdictInv'
<1> SUFFICES ASSUME Capture PROVE VerdictInv'
  OBVIOUS
<1>1. captured' = TRUE /\ printed' = <<>>
  BY DEF Capture
<1>2. ASSUME NEW proto \in {"tcp", "udp"}, packet' \in Arriving(proto)
      PROVE  "proto" \in DOMAIN packet' /\ packet'.proto = proto
  BY <1>2, ArrivedFacts DEF Made
<1>3. /\ "proto" \in DOMAIN packet'
      /\ packet'.proto \in {"tcp", "udp"} => packet' \in Arriving(packet'.proto)
  <2>1. CASE packet' \in Arriving("tcp")
    BY <1>2, <2>1
  <2>2. CASE packet' \in Arriving("udp")
    BY <1>2, <2>2
  <2>3. CASE \E p \in {"icmp", "igmp", "other"} : packet' = [proto |-> p]
    BY <2>3
  <2>4. QED  BY <2>1, <2>2, <2>3 DEF Capture
<1>4. VerdictRight'
  BY <1>1 DEF VerdictRight
<1>5. QED  BY <1>1, <1>3, <1>4 DEF VerdictInv

LEMMA VerdictTcp == VerdictInv /\ HandleTcp => VerdictInv'
<1> SUFFICES ASSUME VerdictInv, HandleTcp PROVE VerdictInv'
  OBVIOUS
<1>1. captured /\ packet.proto = "tcp" /\ captured' = FALSE /\ printed = <<>> /\ "proto" \in DOMAIN packet
  BY DEF HandleTcp, Handled, VerdictInv
<1>2. packet \in Arriving("tcp")
  BY <1>1 DEF VerdictInv
<1>3. CASE UNCHANGED <<packet, printed>>
  BY <1>1, <1>3 DEF VerdictInv, VerdictRight
<1>4. CASE LET shown == print_tcp_packet(packet)
           IN  packet' = shown.packet /\ printed' = <<shown.verdict>>
  <2>1. PICK seg : seg = compute_tcp_checksum(packet.ip, packet.seg)
    OBVIOUS
  <2>2. packet' = Shown(packet, seg).packet /\ printed'[1] = Shown(packet, seg).verdict
    BY <1>4, <2>1 DEF print_tcp_packet
  <2>3. PICK v : v = Shown(packet, seg).verdict /\ RightVerdict(packet, v)
    BY <1>2, <2>1, ShownRight
  <2>4. /\ "proto" \in DOMAIN packet' /\ packet'.proto = packet.proto
        /\ packet'.summed = packet.summed /\ packet'.damaged = packet.damaged
    <3>1. {"proto", "summed", "damaged"} \subseteq DOMAIN packet
      BY <1>2, ArrivedFacts DEF Made
    <3>2. QED  BY <2>2, <3>1, PrintKeeps
  <2>5. RightVerdict(packet', printed'[1])
    BY <2>2, <2>3, <2>4, VerdictKept
  <2>6. QED  BY <1>1, <2>4, <2>5 DEF VerdictInv, VerdictRight
<1>5. QED  BY <1>3, <1>4 DEF HandleTcp

LEMMA VerdictUdp == VerdictInv /\ HandleUdp => VerdictInv'
<1> SUFFICES ASSUME VerdictInv, HandleUdp PROVE VerdictInv'
  OBVIOUS
<1>1. captured /\ packet.proto = "udp" /\ captured' = FALSE
  BY DEF HandleUdp, Handled
<1>2. packet \in Arriving("udp")
  BY <1>1 DEF VerdictInv
<1>3. PICK first, second :
        /\ first = print_udp_packet(packet) /\ second = print_udp_packet(first.packet)
        /\ packet' = first.packet \/ packet' = second.packet
        /\ printed'[1] = first.verdict
  BY DEF HandleUdp
<1>4. PICK seg : seg = compute_udp_checksum(packet.ip, packet.seg) /\ first = Shown(packet, seg)
  BY <1>3 DEF print_udp_packet
<1>5. RightVerdict(packet, first.verdict)
  BY <1>2, <1>4, ShownRight
<1>6. /\ {"proto", "summed", "damaged"} \subseteq DOMAIN first.packet
      /\ first.packet.proto = packet.proto
      /\ first.packet.summed = packet.summed /\ first.packet.damaged = packet.damaged
  <2>1. {"proto", "summed", "damaged"} \subseteq DOMAIN packet
    BY <1>2, ArrivedFacts DEF Made
  <2>2. QED  BY <1>4, <2>1, PrintKeeps
<1>7. /\ "proto" \in DOMAIN second.packet /\ second.packet.proto = packet.proto
      /\ second.packet.summed = packet.summed /\ second.packet.damaged = packet.damaged
  <2>1. PICK t : second = Shown(first.packet, t)
    BY <1>3 DEF print_udp_packet
  <2>2. QED  BY <1>6, <2>1, PrintKeeps
<1>8. /\ "proto" \in DOMAIN packet' /\ packet'.proto = packet.proto
      /\ packet'.summed = packet.summed /\ packet'.damaged = packet.damaged
  BY <1>3, <1>6, <1>7
<1>9. RightVerdict(packet', printed'[1])
  BY <1>3, <1>5, <1>8, VerdictKept
<1>10. QED  BY <1>1, <1>8, <1>9 DEF VerdictInv, VerdictRight

\* The first verdict printed on a TCP or UDP packet is right whatever the
\* bytes, the length of the data and the size of a byte: a packet that arrived
\* as it was sent is called valid, and one with a damaged byte is not, although
\* the checksum is computed on words of the other byte order and stored over
\* the one it is compared with (pcap_sniffer core.c 110-205, 367-458).
THEOREM VerdictsRight == SnifferSpec => []VerdictRight
<1>1. SnifferInit => VerdictInv
  <2> SUFFICES ASSUME SnifferInit PROVE VerdictInv
    OBVIOUS
  <2>1. packet = [proto |-> "none"] /\ captured = FALSE /\ printed = <<>>
    BY DEF SnifferInit
  <2>2. "proto" \in DOMAIN packet /\ packet.proto = "none"
    BY <2>1
  <2>3. QED  BY <2>1, <2>2 DEF VerdictInv, VerdictRight
<1>2. VerdictInv /\ [SnifferNext]_snifferVars => VerdictInv'
  <2> SUFFICES ASSUME VerdictInv, [SnifferNext]_snifferVars PROVE VerdictInv'
    OBVIOUS
  <2>1. CASE Capture
    BY <2>1, VerdictCapture
  <2>2. CASE HandleTcp
    BY <2>2, VerdictTcp
  <2>3. CASE HandleUdp
    BY <2>3, VerdictUdp
  <2>4. CASE HandleIcmp \/ HandleOther
    <3>1. captured' = FALSE /\ packet' = packet /\ packet.proto \notin {"tcp", "udp"}
      BY <2>4 DEF HandleIcmp, HandleOther, Handled
    <3>2. QED  BY <3>1 DEF VerdictInv, VerdictRight
  <2>5. CASE UNCHANGED snifferVars
    BY <2>5 DEF snifferVars, VerdictInv, VerdictRight
  <2>6. QED  BY <2>1, <2>2, <2>3, <2>4, <2>5 DEF SnifferNext, pckt_hndl
<1>3. VerdictInv => VerdictRight
  BY DEF VerdictInv
<1>4. QED  BY <1>1, <1>2, <1>3, PTL DEF SnifferSpec

-----------------------------------------------------------------------------
(* The sniffer: sequences *)

IsSeq(s) == \E S : s \in Seq(S)

LEMMA WiderSeq ==
  ASSUME NEW S, NEW T, NEW s \in Seq(S), S \subseteq T
  PROVE  s \in Seq(T)
<1>1. PICK n \in Nat : s \in [1..n -> S]
  BY SeqDef
<1>2. s \in [1..n -> T]
  BY <1>1
<1>3. QED  BY <1>2, SeqDef

LEMMA ReplacedSeq ==
  ASSUME NEW s, IsSeq(s), NEW i, NEW v, NEW g, Replaced(g, s, i, v)
  PROVE  /\ IsSeq(g) /\ Len(g) = Len(s)
         /\ \A k \in 1..Len(s) : k # i => g[k] = s[k]
<1>1. PICK S : s \in Seq(S)
  BY DEF IsSeq
<1>2. PICK n \in Nat : s \in [1..n -> S] /\ n = Len(s)
  BY <1>1, SeqDef, LenProperties
<1>3. g \in [1..n -> S \cup {v}]
  BY <1>2 DEF Replaced
<1>4. \A k \in 1..Len(s) : k # i => g[k] = s[k]
  BY <1>2 DEF Replaced
<1>5. PICK T : T = S \cup {v}
  OBVIOUS
<1>6. g \in [1..n -> T]
  BY <1>3, <1>5
<1>7. g \in Seq(T)
  BY ONLY <1>2, <1>6, SeqDef
<1>8. Len(g) = n
  BY ONLY <1>2, <1>6, <1>7, LenProperties
<1>9. QED  BY <1>2, <1>4, <1>7, <1>8 DEF IsSeq

\* Storing a checksum changes no byte of the data.
LEMMA CheckStored ==
  ASSUME NEW h, IsSeq(h), NEW c
  PROVE  /\ IsSeq(WithCheck(h, c)) /\ Len(WithCheck(h, c)) = Len(h)
         /\ \A k \in 1..Len(h) : k # 5 /\ k # 6 => WithCheck(h, c)[k] = h[k]
<1>1. PICK g : Replaced(g, h, 5, c[1])
  BY DEF Replaced
<1>2. /\ IsSeq(g) /\ Len(g) = Len(h)
      /\ \A k \in 1..Len(h) : k # 5 => g[k] = h[k]
  BY <1>1, ReplacedSeq
<1>3. PICK f : f = WithCheck(h, c)
  OBVIOUS
<1>4. Replaced(f, g, 6, c[2])
  BY <1>1, <1>3 DEF WithCheck, Replaced
<1>5. /\ IsSeq(f) /\ Len(f) = Len(g)
      /\ \A k \in 1..Len(g) : k # 6 => f[k] = g[k]
  BY <1>2, <1>4, ReplacedSeq
<1>6. QED  BY <1>2, <1>3, <1>5

-----------------------------------------------------------------------------
(* Packets *)

\* A packet with a segment.
WellFormed(p) == {"proto", "ip", "seg"} \subseteq DOMAIN p /\ IsSeq(p.seg)

LEMMA ArrivingWellFormed ==
  ASSUME NEW proto \in {"tcp", "udp"}, NEW p \in Arriving(proto)
  PROVE  WellFormed(p) /\ p.proto = proto
<1>1. {"proto", "ip", "seg"} \subseteq DOMAIN p /\ p.proto = proto
  BY ArrivedFacts DEF Made
<1>2. PICK s, addr, n, h, g, ph : Sending(s, proto, addr, n, h, g, ph) /\ Arrived(p, s, n)
  BY ArrivedFacts
<1>3. Header6(p.seg, n)
  <2>1. Header6(s.seg, n)
    BY <1>2 DEF Sending
  <2>2. QED  BY <1>2, <2>1 DEF Arrived, Hit
<1>4. p.seg \in Seq(Nat)
  BY <1>3, AsSeq DEF Header6
<1>5. QED  BY <1>1, <1>4 DEF WellFormed, IsSeq

-----------------------------------------------------------------------------
(* The search *)

\* The string given with -s is what the stored one begins with.
Stored ==
  /\ asked = NoSearch \/ asked \in Seq(1..(B - 1))
  /\ asked # NoSearch =>
       /\ search_str # NoSearch /\ IsSeq(search_str)
       /\ Len(asked) <= Len(search_str)
       /\ \A k \in 1..Len(asked) : search_str[k] = asked[k]

\* The inductive invariant: what is searched, in what, and that nothing is
\* printed of a packet before it is handled.
SearchInv ==
  /\ Stored
  /\ "proto" \in DOMAIN packet
  /\ packet.proto = "tcp" => WellFormed(packet)
  /\ IsSeq(after)
  /\ captured => printed = <<>>
  /\ MatchPrinted

LEMMA StoredString ==
  ASSUME NEW a \in Seq(1..(B - 1)), NEW b \in Seq(0..(B - 1)), NEW s,
         b # <<>>, s = a \/ s = a \o SubSeq(b, 1, 1)
  PROVE  /\ s # NoSearch /\ IsSeq(s) /\ Len(a) <= Len(s)
         /\ \A k \in 1..Len(a) : s[k] = a[k]
<1>1. PICK t : t = SubSeq(b, 1, 1)
  OBVIOUS
<1>2. s \in Seq(0..(B - 1)) /\ Len(a) <= Len(s) /\ \A k \in 1..Len(a) : s[k] = a[k]
  <2> a \in Seq(0..(B - 1))
    <3>1. PICK S, T : S = 1..(B - 1) /\ T = 0..(B - 1)
      OBVIOUS
    <3>2. S \subseteq T
      BY <3>1, ByteAssumption
    <3>3. a \in Seq(S)
      BY <3>1
    <3>4. a \in Seq(T)
      BY ONLY <3>2, <3>3, WiderSeq
    <3>5. QED  BY <3>1, <3>4
  <2>1. CASE s = a
    BY <2>1, LenProperties
  <2>2. CASE s = a \o t
    <3>1. t \in Seq(0..(B - 1))
      <4>1. Len(b) \in Nat \ {0}
        BY EmptySeq
      <4>2. b[1] \in 0..(B - 1)
        <5>1. PICK S, i : S = 0..(B - 1) /\ i = 1 /\ i \in 1..Len(b)
          BY <4>1
        <5>2. b[i] \in S
          BY <5>1, ElementOfSeq
        <5>3. QED  BY <5>1, <5>2
      <4>3. QED  BY <1>1, <4>2, SubSeqProperties
    <3>2. QED  BY <2>2, <3>1, ConcatProperties, LenProperties
  <2>3. QED  BY <1>1, <2>1, <2>2
<1>3. s # NoSearch
  <2>1. -1 \notin 0..(B - 1)
    BY ByteAssumption
  <2>2. s = <<-1>> => s[1] \in 0..(B - 1) /\ s[1] = -1
    BY <1>2, ElementOfSeq
  <2>3. QED  BY <2>1, <2>2 DEF NoSearch
<1>4. QED  BY <1>2, <1>3 DEF IsSeq

LEMMA SnifferInitInv == SnifferInit => SearchInv
<1> SUFFICES ASSUME SnifferInit PROVE SearchInv
  OBVIOUS
<1>1. Stored
  <2>1. CASE asked = NoSearch
    BY <2>1 DEF Stored
  <2>2. CASE asked # NoSearch
    <3>1. asked \in Seq(1..(B - 1))
      BY <2>2, SearchAssumption DEF SnifferInit
    <3>2. PICK b \in Seq(0..(B - 1)) : b # <<>> /\ (search_str = asked \/ search_str = asked \o SubSeq(b, 1, 1))
      <4>1. CASE search_str = asked
        <5>1. <<0>> \in Seq(0..(B - 1)) /\ <<0>> # <<>>
          BY ByteAssumption
        <5>2. QED  BY <4>1, <5>1
      <4>2. CASE search_str # asked
        BY <2>2, <4>2, SearchAssumption DEF SnifferInit
      <4>3. QED  BY <4>1, <4>2
    <3>3. /\ search_str # NoSearch /\ IsSeq(search_str) /\ Len(asked) <= Len(search_str)
          /\ \A k \in 1..Len(asked) : search_str[k] = asked[k]
      BY <3>1, <3>2, StoredString
    <3>4. QED  BY <3>1, <3>3 DEF Stored
  <2>3. QED  BY <2>1, <2>2
<1>2. IsSeq(<<>>)
  <2>1. <<>> \in Seq({})
    BY EmptySeq
  <2>2. QED  BY <2>1 DEF IsSeq
<1>3. packet.proto = "none" /\ "proto" \in DOMAIN packet /\ after = <<>> /\ captured = FALSE
  BY DEF SnifferInit
<1>4. MatchPrinted
  BY <1>3 DEF MatchPrinted
<1>5. QED  BY <1>1, <1>2, <1>3, <1>4 DEF SearchInv

\* Printing a packet keeps its data.
LEMMA PrintedPacket ==
  ASSUME NEW p, WellFormed(p)
  PROVE  LET q == print_tcp_packet(p).packet
         IN  /\ WellFormed(q) /\ q.proto = p.proto
             /\ SubSeq(q.seg, 7, Len(q.seg)) = SubSeq(p.seg, 7, Len(p.seg))
<1> DEFINE q == print_tcp_packet(p).packet
           seg == compute_tcp_checksum(p.ip, p.seg)
<1>1. PICK c : seg = WithCheck(p.seg, c)
  BY DEF compute_tcp_checksum
<1>2. /\ IsSeq(seg) /\ Len(seg) = Len(p.seg)
      /\ \A k \in 1..Len(p.seg) : k # 5 /\ k # 6 => seg[k] = p.seg[k]
  <2> HIDE DEF seg
  <2>1. QED  BY <1>1, CheckStored DEF WellFormed
<1>3. q = [p EXCEPT !.ip = print_ip_header(p.ip).ip, !.seg = seg]
  BY DEF print_tcp_packet, Shown
<1> HIDE DEF q, seg
<1>4. DOMAIN q = DOMAIN p /\ q.proto = p.proto /\ q.seg = seg
  BY <1>3 DEF WellFormed
<1>5. WellFormed(q)
  BY <1>2, <1>4 DEF WellFormed
<1>6. SubSeq(seg, 7, Len(seg)) = SubSeq(p.seg, 7, Len(p.seg))
  <2>1. PICK S : seg \in Seq(S)
    BY <1>2 DEF IsSeq
  <2>2. PICK T : p.seg \in Seq(T)
    BY DEF IsSeq, WellFormed
  <2>3. PICK u, w, n : n = Len(seg) /\ u = SubSeq(seg, 7, n) /\ w = SubSeq(p.seg, 7, n)
    OBVIOUS
  <2>4. n \in Nat
    BY <2>1, <2>3, LenProperties
  <2>5. QED  BY <1>2, <2>1, <2>2, <2>3, <2>4, SubSeqProperties, SeqEqual, SMTT(30)
<1>7. QED  BY <1>4, <1>5, <1>6 DEF q

\* Len, and a position of the packet, in what is searched: the data and what
\* follows it.
LEMMA SearchedData ==
  ASSUME NEW d, IsSeq(d), IsSeq(after)
  PROVE  Len(d) \in Nat /\ \A j \in 1..Len(d) : (d \o after)[j] = d[j]
<1>1. PICK S : d \in Seq(S)
  BY DEF IsSeq
<1>2. PICK T : after \in Seq(T)
  BY DEF IsSeq
<1>3. d \in Seq(S \cup T) /\ after \in Seq(S \cup T)
  BY <1>1, <1>2, WiderSeq
<1>4. QED  BY <1>3, ConcatProperties, LenProperties

LEMMA DataSeq ==
  ASSUME WellFormed(packet)
  PROVE  IsSeq(Data)
<1>1. PICK S : packet.seg \in Seq(S)
  BY DEF IsSeq, WellFormed
<1>2. PICK n \in Nat : n = Len(packet.seg)
  BY <1>1, LenProperties
<1>3. \A i \in 7..n : packet.seg[i] \in S
  BY <1>1, <1>2, LenProperties
<1>4. SubSeq(packet.seg, 7, n) \in Seq(S)
  BY <1>2, <1>3, SubSeqProperties
<1>5. QED  BY <1>2, <1>4 DEF Data, IsSeq

\* What check_data finds of the stored string, it finds of the given one.
LEMMA FoundIsThere ==
  ASSUME Stored, IsSeq(Data), IsSeq(after), asked \notin {NoSearch, <<>>}, Wanted
  PROVE  \E i \in 0..(Len(Data) - 2) : \A k \in 1..Len(asked) :
           i + k <= Len(Data) => Data[i + k] = asked[k]
<1>1. Len(asked) >= 1 /\ Len(asked) \in Nat
  BY EmptySeq, LenProperties DEF Stored
<1>2. Len(search_str) >= 1 /\ Len(search_str) \in Nat
  <2>1. PICK S : search_str \in Seq(S)
    BY DEF Stored, IsSeq
  <2>2. Len(search_str) \in Nat
    BY <2>1, LenProperties
  <2>3. QED  BY <1>1, <2>2 DEF Stored
<1>3. search_str # <<>> /\ search_str # NoSearch
  BY <1>2 DEF Stored
<1>4. PICK i \in 0..(Len(Data) - 2) : MatchAt(Data, i)
  BY <1>3 DEF Wanted, check_data
<1>5. Len(Data) \in Nat /\ \A j \in 1..Len(Data) : (Data \o after)[j] = Data[j]
  BY SearchedData
<1>6. ASSUME NEW k \in 1..Len(asked), i + k <= Len(Data)
      PROVE  Data[i + k] = asked[k]
  <2>1. k \in 1..Len(search_str) /\ search_str[k] = asked[k]
    BY <1>1, <1>2 DEF Stored
  <2>2. (Data \o after)[i + k] = search_str[k]
    BY <1>4, <2>1 DEF MatchAt, SameByte
  <2>3. i + k \in 1..Len(Data)
    BY <1>4, <1>5, <1>6, <1>1
  <2>4. QED  BY <1>5, <2>1, <2>2, <2>3
<1>7. QED  BY <1>6

LEMMA TcpHandled == SearchInv /\ HandleTcp => SearchInv'
<1> SUFFICES ASSUME SearchInv, HandleTcp PROVE SearchInv'
  OBVIOUS
<1>1. /\ captured /\ packet.proto = "tcp" /\ captured' = FALSE
      /\ UNCHANGED <<search_str, asked, after>>
  BY DEF HandleTcp, Handled
<1>2. Stored' /\ IsSeq(after') /\ Stored /\ IsSeq(after)
  BY <1>1 DEF SearchInv, Stored
<1>3. WellFormed(packet) /\ printed = <<>>
  BY <1>1 DEF SearchInv
<1>4. WellFormed(packet') /\ packet'.proto = "tcp" /\ Data' = Data
  <2>1. CASE packet' = packet
    BY <1>1, <1>3, <2>1 DEF Data
  <2>2. CASE packet' = print_tcp_packet(packet).packet
    BY <1>1, <1>3, <2>2, PrintedPacket DEF Data
  <2>3. QED  BY <2>1, <2>2 DEF HandleTcp
<1>5. IsSeq(Data)
  BY <1>3, DataSeq
<1>6. Wanted <=> printed' # <<>>
  <2>1. Wanted => \E v : printed' = <<v>>
    BY DEF HandleTcp
  <2>2. ~Wanted => printed' = printed
    BY DEF HandleTcp
  <2>3. \A v : <<v>> # <<>>
    OBVIOUS
  <2>4. QED  BY <1>3, <2>1, <2>2, <2>3, Zenon
<1>7. MatchPrinted'
  <2>1. ASSUME asked \notin {NoSearch, <<>>}, printed' # <<>>
        PROVE  \E i \in 0..(Len(Data) - 2) : \A k \in 1..Len(asked) :
                 i + k <= Len(Data) => Data[i + k] = asked[k]
    BY <1>2, <1>5, <1>6, <2>1, FoundIsThere
  <2>2. ASSUME Len(search_str) >= 2, asked \notin {NoSearch, <<>>},
               \A k \in 1..Len(search_str) : search_str[k] < B \div 2,
               NEW i \in 0..(Len(Data) - Len(search_str)),
               \A k \in 1..Len(search_str) : Data[i + k] = search_str[k]
        PROVE  printed' # <<>>
    <3>1. Len(Data) \in Nat
      BY <1>2, <1>5, SearchedData
    <3>2. Len(search_str) \in Nat
      <4>1. PICK S : search_str \in Seq(S)
        BY <1>2, <2>2 DEF Stored, IsSeq
      <4>2. QED  BY <4>1, LenProperties
    <3>3. i \in 0..(Len(Data) - 2)
      BY <2>2, <3>1, <3>2
    <3>4. MatchAt(Data, i)
      <4>1. ASSUME NEW k \in 1..Len(search_str)
            PROVE  (Data \o after)[i + k] = search_str[k] /\ search_str[k] < B \div 2
        <5>1. i + k \in 1..Len(Data)
          BY <2>2, <3>1, <3>2, <4>1
        <5>2. (Data \o after)[i + k] = Data[i + k]
          BY <1>2, <1>5, <5>1, SearchedData
        <5>3. QED  BY <2>2, <4>1, <5>2
      <4>2. QED  BY <4>1 DEF MatchAt, SameByte
    <3>5. check_data(Data)
      BY <3>3, <3>4 DEF check_data
    <3>6. QED  BY <1>6, <3>5 DEF Wanted
  <2>3. QED  BY <1>1, <1>4, <2>1, <2>2 DEF MatchPrinted
<1>8. QED  BY <1>1, <1>2, <1>4, <1>7 DEF SearchInv, WellFormed

LEMMA PacketCaptured == SearchInv /\ Capture => SearchInv'
<1> SUFFICES ASSUME SearchInv, Capture PROVE SearchInv'
  OBVIOUS
<1>1. captured' = TRUE /\ printed' = <<>> /\ UNCHANGED <<search_str, asked>>
  BY DEF Capture
<1>2. Stored'
  BY <1>1 DEF SearchInv, Stored
<1>3. IsSeq(after')
  <2>1. <<>> \in Seq(0..(B - 1))
    BY EmptySeq
  <2>2. after' \in Seq(0..(B - 1))
    BY <2>1, SearchAssumption DEF Capture
  <2>3. QED  BY <2>2 DEF IsSeq
<1>4. "proto" \in DOMAIN packet' /\ (packet'.proto = "tcp" => WellFormed(packet'))
  <2>1. CASE packet' \in Arriving("tcp")
    BY <2>1, ArrivingWellFormed DEF WellFormed
  <2>2. CASE packet' \in Arriving("udp")
    BY <2>2, ArrivingWellFormed DEF WellFormed
  <2>3. CASE \E p \in {"icmp", "igmp", "other"} : packet' = [proto |-> p]
    BY <2>3
  <2>4. QED  BY <2>1, <2>2, <2>3 DEF Capture
<1>5. MatchPrinted'
  BY <1>1 DEF MatchPrinted
<1>6. QED  BY <1>1, <1>2, <1>3, <1>4, <1>5 DEF SearchInv

\* A packet of another protocol stays one.
LEMMA OtherHandled == SearchInv /\ (HandleUdp \/ HandleIcmp \/ HandleOther) => SearchInv'
<1> SUFFICES ASSUME SearchInv, HandleUdp \/ HandleIcmp \/ HandleOther PROVE SearchInv'
  OBVIOUS
<1>1. captured' = FALSE /\ UNCHANGED <<search_str, asked, after>>
  BY DEF HandleUdp, HandleIcmp, HandleOther, Handled
<1>2. Stored' /\ IsSeq(after')
  BY <1>1 DEF SearchInv, Stored
<1>3. "proto" \in DOMAIN packet' /\ packet'.proto # "tcp"
  <2>1. CASE HandleUdp
    <3>1. ASSUME NEW p, "proto" \in DOMAIN p, NEW q, q = print_udp_packet(p).packet
          PROVE  "proto" \in DOMAIN q /\ q.proto = p.proto
      <4>1. PICK h, s : q = [p EXCEPT !.ip = h, !.seg = s]
        BY <3>1 DEF print_udp_packet, Shown
      <4>2. QED  BY <3>1, <4>1
    <3>2. packet.proto = "udp" /\ "proto" \in DOMAIN packet
      BY <2>1 DEF HandleUdp, Handled, SearchInv
    <3>3. PICK q : q = print_udp_packet(packet).packet
      OBVIOUS
    <3>4. "proto" \in DOMAIN q /\ q.proto = "udp"
      BY <3>1, <3>2, <3>3
    <3>5. packet' = q \/ packet' = print_udp_packet(q).packet
      BY <2>1, <3>3 DEF HandleUdp
    <3>6. QED  BY <3>1, <3>4, <3>5
  <2>2. CASE HandleIcmp \/ HandleOther
    BY <2>2 DEF HandleIcmp, HandleOther, Handled, SearchInv
  <2>3. QED  BY <2>1, <2>2
<1>4. QED  BY <1>1, <1>2, <1>3 DEF SearchInv, MatchPrinted

\* With -s, a TCP packet is printed when, and only when, check_data has found
\* the string: every packet printed has the string in its data, as far as the
\* data goes, and every packet with all of the stored string in its data is
\* printed when the string is ASCII (a byte above 127 is compared as a negative
\* char and never found), although storing the recomputed checksum changes the packet
\* between the search and the end of pckt_hndl (pcap_sniffer core.c 297-306).
THEOREM SearchExact == SnifferSpec => []MatchPrinted
<1>1. SnifferInit => SearchInv
  BY SnifferInitInv
<1>2. SearchInv /\ [SnifferNext]_snifferVars => SearchInv'
  <2>1. SearchInv /\ SnifferNext => SearchInv'
    BY PacketCaptured, TcpHandled, OtherHandled DEF SnifferNext, pckt_hndl
  <2>2. SearchInv /\ UNCHANGED snifferVars => SearchInv'
    <3> SUFFICES ASSUME SearchInv, UNCHANGED snifferVars PROVE SearchInv'
      OBVIOUS
    <3>1. Stored'
      BY DEF snifferVars, SearchInv, Stored
    <3>2. Data' = Data
      BY DEF snifferVars, Data
    <3>3. MatchPrinted'
      BY <3>2 DEF snifferVars, SearchInv, MatchPrinted
    <3>4. QED  BY <3>1, <3>3 DEF snifferVars, SearchInv
  <2>3. QED  BY <2>1, <2>2
<1>3. SearchInv => MatchPrinted
  BY DEF SearchInv
<1>4. QED  BY <1>1, <1>2, <1>3, PTL DEF SnifferSpec
=============================================================================
