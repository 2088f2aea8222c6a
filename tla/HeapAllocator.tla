---------------------------- MODULE HeapAllocator ----------------------------
(***************************************************************************)
(* backup/malloc: malloc and free hooks over sbrk.  Chunks, each with a    *)
(* header before its memory, form a doubly linked list between two         *)
(* sentinels.  malloc takes the first run of free chunks that is large     *)
(* enough, merges it and splits off what is left, or moves the break;      *)
(* free moves the break back over the free chunks at the end of the heap.  *)
(* Addresses and sizes are in bytes, address 0 is the heap's lower bound.  *)
(* The program frees what it holds, what it has freed before and NULL.     *)
(***************************************************************************)
EXTENDS Integers, FiniteSets

CONSTANTS
  H,          \* sizeof(MEM_CHUNK_STRUCT)  (32)
  MinRest,    \* the least memory worth a chunk of its own  (16)
  Sizes,      \* sizes the program asks for: H + 7 bytes or more below 2^64
  HeapMax,    \* bound: the break never exceeds this
  MayFail     \* whether sbrk fails at the bound, or is not called

ASSUME SizeAssumption == H \in Nat \ {0} /\ MinRest \in Nat /\ Sizes \subseteq Nat
ASSUME BoundAssumption == HeapMax \in Nat /\ HeapMax >= 2 * H /\ MayFail \in BOOLEAN

mem_head == 0
mem_tail == H
NULL == -1

VARIABLES
  hdr,       \* address |-> header of every chunk in the list
  brk,       \* the program break
  live,      \* pointer |-> size asked for, of memory the program holds
  crashed    \* "no", or what invalid pointer was dereferenced: the end of the
             \* list ("list"), sbrk's failure ("sbrk") or a freed NULL ("null")

vars == <<hdr, brk, live, crashed>>

Init ==
  /\ hdr = [a \in {mem_head, mem_tail} |->
              [size |-> H, stat |-> 1,
               mp_next |-> IF a = mem_head THEN mem_tail ELSE NULL,
               mp_prev |-> IF a = mem_head THEN NULL ELSE mem_head]]
  /\ brk = 2 * H
  /\ live = <<>>
  /\ crashed = "no"

-----------------------------------------------------------------------------
(* The list *)

\* The i-th chunk after mem_head; mem_tail from the end on.
Nth[i \in Nat] ==
  IF i = 0 THEN mem_head
  ELSE LET before == Nth[i - 1]
       IN  IF before = mem_tail THEN mem_tail ELSE hdr[before].mp_next

Count == Cardinality(DOMAIN hdr) - 2
IsFree(i) == hdr[Nth[i]].stat = 0
AllFree(i, j) == \A k \in i..j : IsFree(k)

\* Bytes of the first i chunks, headers included, and of the chunks i to j.
Total[i \in 0..Count] == IF i = 0 THEN 0 ELSE Total[i - 1] + hdr[Nth[i]].size + H
Span(i, j) == Total[j] - Total[i - 1]

\* The function f, with v at x.
With(f, x, v) == [y \in DOMAIN f \union {x} |-> IF y = x THEN v ELSE f[y]]

-----------------------------------------------------------------------------
(* my_malloc_hook *)

\* size_t wraps round for the sizes that Sizes leaves out.
Round(n) == ((n + 7) \div 8) * 8

\* Mutant of Fits: the first header is counted as memory.
FitsWithHeader(i, j, size) ==
  /\ AllFree(i, j) /\ (i = 1 \/ ~IsFree(i - 1))
  /\ Span(i, j) >= size
  /\ i < j => Span(i, j - 1) < size

\* The memory of chunk i grows over the free chunks up to j, and no further
\* than needed.
Fits(i, j, size) ==
  /\ AllFree(i, j) /\ (i = 1 \/ ~IsFree(i - 1))
  /\ Span(i, j) - H >= size
  /\ i < j => Span(i, j - 1) - H < size

Fit(size) == {p \in (1..Count) \X (1..Count) : p[1] <= p[2] /\ Fits(p[1], p[2], size)}

\* The first fit.
Found(size, i, j) ==
  <<i, j>> \in Fit(size) /\ \A p \in Fit(size) : i <= p[1]

Give(p, n) == live' = With(live, p, n)

\* malloc(0) returns NULL.
MallocNothing(n) == n = 0 /\ UNCHANGED vars

\* Mutant of Merge: the header of the chunk after the run is not updated.
MergeNoBackLink(i, j) ==
  [a \in DOMAIN hdr \ {Nth[k] : k \in (i + 1)..j} |->
     IF a = Nth[i]
     THEN [hdr[a] EXCEPT !.size = Span(i, j) - H, !.stat = 1, !.mp_next = Nth[j + 1]]
     ELSE hdr[a]]

\* The chunks i to j become one chunk in use.
Merge(i, j) ==
  [a \in DOMAIN hdr \ {Nth[k] : k \in (i + 1)..j} |->
     CASE a = Nth[i] ->
            [hdr[a] EXCEPT !.size = Span(i, j) - H, !.stat = 1, !.mp_next = Nth[j + 1]]
       [] a = Nth[j + 1] -> [hdr[a] EXCEPT !.mp_prev = Nth[i]]
       [] OTHER -> hdr[a]]

MallocWhole(n) ==
  \E i, j \in 1..Count :
    /\ n > 0 /\ Found(Round(n), i, j)
    /\ Span(i, j) - H - Round(n) < H + MinRest
    /\ hdr' = Merge(i, j)
    /\ Give(Nth[i] + H, n)
    /\ UNCHANGED <<brk, crashed>>

\* The chunks i to j become a chunk of the size in use and a free rest.
Split(i, j, size) ==
  LET rest == Nth[i] + H + size IN
  With([Merge(i, j) EXCEPT ![Nth[i]].size = size, ![Nth[i]].mp_next = rest,
                           ![Nth[j + 1]].mp_prev = rest],
       rest, [size |-> Span(i, j) - H - size - H, stat |-> 0,
              mp_next |-> Nth[j + 1], mp_prev |-> Nth[i]])

MallocSplit(n) ==
  \E i, j \in 1..Count :
    /\ n > 0 /\ Found(Round(n), i, j)
    /\ Span(i, j) - H - Round(n) >= H + MinRest
    /\ hdr' = Split(i, j, Round(n))
    /\ Give(Nth[i] + H, n)
    /\ UNCHANGED <<brk, crashed>>

\* No run fits.  The cursor has left the list when the last chunk was free (it
\* stands on mem_tail and moves on to NULL); otherwise sbrk makes a new chunk at
\* the break, before mem_tail.  When sbrk fails the header is written through
\* its result, (void*) -1.
MallocGrow(n) ==
  /\ n > 0 /\ Fit(Round(n)) = {}
  /\ MayFail \/ brk + H + Round(n) <= HeapMax
  /\ IF Count > 0 /\ IsFree(Count)
     THEN crashed' = "list" /\ UNCHANGED <<hdr, brk, live>>
     ELSE IF brk + H + Round(n) > HeapMax
     THEN crashed' = "sbrk" /\ UNCHANGED <<hdr, brk, live>>
     ELSE LET last == hdr[mem_tail].mp_prev
              new  == [size |-> Round(n), stat |-> 1,
                       mp_next |-> mem_tail, mp_prev |-> last]
          IN  /\ hdr' = With([hdr EXCEPT ![last].mp_next = brk, ![mem_tail].mp_prev = brk],
                             brk, new)
              /\ Give(brk + H, n)
              /\ brk' = brk + H + Round(n)
              /\ UNCHANGED crashed

-----------------------------------------------------------------------------
(* my_free_hook *)

Position(a) == CHOOSE i \in 1..Count : Nth[i] = a

Take(p) == live' = [q \in DOMAIN live \ {p} |-> live[q]]

\* Mutant of FreeInside: a chunk at the end of the heap stays in it.
FreeAnywhere(p) ==
  /\ p \in DOMAIN live
  /\ hdr' = [hdr EXCEPT ![p - H].stat = 0]
  /\ Take(p)
  /\ UNCHANGED <<brk, crashed>>

\* A chunk in use follows: the chunk stays in the list.
FreeInside(p) ==
  /\ p \in DOMAIN live
  /\ ~AllFree(Position(p - H) + 1, Count)
  /\ hdr' = [hdr EXCEPT ![p - H].stat = 0]
  /\ Take(p)
  /\ UNCHANGED <<brk, crashed>>

\* The first of the free chunks that end with chunk i.
FirstFree(i) == CHOOSE k \in 1..i : AllFree(k, i - 1) /\ (k = 1 \/ ~IsFree(k - 1))

\* Only free chunks follow: the list and the break go back to the last chunk in
\* use.
FreeAtEnd(p) ==
  /\ p \in DOMAIN live
  /\ AllFree(Position(p - H) + 1, Count)
  /\ LET k    == FirstFree(Position(p - H))
         last == Nth[k - 1]
     IN  /\ hdr' = [a \in DOMAIN hdr \ {Nth[m] : m \in k..Count} |->
                      IF a = last THEN [hdr[a] EXCEPT !.mp_next = mem_tail]
                      ELSE IF a = mem_tail THEN [hdr[a] EXCEPT !.mp_prev = last]
                      ELSE hdr[a]]
         /\ brk' = brk - Span(k, Count)
  /\ Take(p)
  /\ UNCHANGED crashed

\* A chunk of the list that is free already: nothing is done.
FreeAgain(p) == hdr[p - H].stat = 0 /\ UNCHANGED vars

\* free(NULL) reads the status of the header before address 0.
FreeNull ==
  /\ crashed' = "null"
  /\ UNCHANGED <<hdr, brk, live>>

-----------------------------------------------------------------------------
Malloc(n) == MallocNothing(n) \/ MallocWhole(n) \/ MallocSplit(n) \/ MallocGrow(n)
Free(p) == FreeInside(p) \/ FreeAtEnd(p) \/ FreeAgain(p)

Next ==
  /\ crashed = "no"
  /\ \/ \E n \in Sizes : Malloc(n)
     \/ \E a \in DOMAIN hdr \ {mem_head, mem_tail} : Free(a + H)
     \/ FreeNull

Spec == Init /\ [][Next]_vars

-----------------------------------------------------------------------------
(* Properties *)

\* The list is one chain in address order whose links agree in both
\* directions, and its chunks cover the heap without gap or overlap, however
\* malloc has merged and split them (main.c 62-88, 122-136).
Tiled ==
  /\ \A i \in 1..Count :
       Nth[i] + H + hdr[Nth[i]].size = IF i = Count THEN brk ELSE Nth[i + 1]
  /\ \A i \in 0..Count : hdr[Nth[i + 1]].mp_prev = Nth[i]
  /\ Nth[Count + 1] = mem_tail
  /\ Nth[1] = IF Count = 0 THEN mem_tail ELSE 2 * H

\* The chunks in use are exactly those the program holds, each with at least
\* the memory asked for: two pointers never share a byte (main.c 62-90).
LiveSeparate ==
  /\ {Nth[i] + H : i \in {k \in 1..Count : ~IsFree(k)}} = DOMAIN live
  /\ \A p \in DOMAIN live : hdr[p - H].size >= live[p]

\* malloc's search never follows the list past mem_tail, which it does when the
\* last chunk is free: whatever was freed, and in which order, free has given
\* the free chunks at the end of the heap back, so that a call dereferences an
\* invalid pointer only when sbrk fails or NULL is freed (main.c 15-35, 105-136).
SearchStaysInList == crashed # "list"
=============================================================================
