-------------------------- MODULE InternetChecksum --------------------------
(***************************************************************************)
(* compute_checksum, copied into the pcap sniffer, ping, traceroute and    *)
(* the three raw UDP clients: the 16-bit words of a block are added as the *)
(* processor reads them (little-endian), the carries are folded in, the    *)
(* complement is stored as the processor stores it.  The reference is RFC  *)
(* 1071: the one's complement of the one's complement sum of the           *)
(* big-endian words, in network order.  A block is a sequence of bytes.    *)
(***************************************************************************)
EXTENDS Integers, Sequences

CONSTANT B      \* values of a byte: 256

ASSUME ByteAssumption == B \in Nat \ {0, 1}

Word == B * B

\* w[1] + ... + w[n]
SumTo(w, n) ==
  LET Upto[i \in 0..n] == IF i = 0 THEN 0 ELSE Upto[i - 1] + w[i] IN Upto[n]

\* sum += *addr++, and (*addr) & htons(0xFF00) for an odd last byte: on a
\* little-endian machine the first byte of a word is its low one.
WordSum(s) ==
  SumTo([i \in 1..Len(s) |-> s[i] * (IF i % 2 = 1 THEN 1 ELSE B)], Len(s))

\* Mutant of Carried: the carry of the carry is lost.
CarriedOnce(n) == ((n % Word) + (n \div Word)) % Word

\* while (sum >> 16) sum = (sum & 0xffff) + (sum >> 16)
Folds[n \in Nat] == IF n < Word THEN n ELSE Folds[(n % Word) + (n \div Word)]

Carried(n) == Folds[n]

\* The two bytes stored, lowest address first.
compute_checksum(s) ==
  LET sum == Word - 1 - Carried(WordSum(s)) IN <<sum % B, sum \div B>>

-----------------------------------------------------------------------------
(* RFC 1071 *)

\* One's complement addition is addition modulo 2^16 - 1, in which only the
\* sum of nothing but zeros is 0.
OnesSum(s) ==
  LET total == SumTo([i \in 1..Len(s) |-> s[i] * (IF i % 2 = 1 THEN B ELSE 1)], Len(s))
  IN  IF total = 0 THEN 0 ELSE 1 + ((total - 1) % (Word - 1))

RfcChecksum(s) == LET c == Word - 1 - OnesSum(s) IN <<c \div B, c % B>>

=============================================================================
