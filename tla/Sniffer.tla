------------------------------- MODULE Sniffer -------------------------------
(***************************************************************************)
(* pcap_sniffer: pcap_loop hands pckt_hndl one captured packet after       *)
(* another; pckt_hndl counts it, searches its data for the string given    *)
(* with -s and prints it.                                                  *)
(***************************************************************************)
EXTENDS Packets

CONSTANTS
  MaxPackets,   \* packets that pcap_loop handles (-c)
  Searches,     \* arguments of -s: strings, without a NUL
  Beyond        \* what may follow a packet, or a string, in memory

ASSUME SearchAssumption ==
  Searches \subseteq Seq(1..(B - 1)) /\ Beyond \subseteq Seq(0..(B - 1)) \ {<<>>}

Protocols == {"icmp", "igmp", "tcp", "udp", "other"}
NoSearch == <<-1>>      \* -s is not given: search_str is NULL

VARIABLES
  search_str,   \* the string as strlen measures it, or NoSearch
  asked,        \* the argument of -s: search_str is stored without its end mark
  packet,       \* the packet captured last
  after,        \* the bytes that follow it in the buffer
  captured,     \* pckt_hndl has yet to handle it
  printed,      \* the verdicts shown of it, in order
  count         \* tcp, udp, icmp, igmp, others

snifferVars == <<search_str, asked, packet, after, captured, printed, count>>

\* main: malloc(strlen) and strncpy leave no room for the end of the string, so
\* it goes on with whatever follows it up to a NUL: here, a byte at most.
SnifferInit ==
  /\ asked \in Searches \union {NoSearch}
  /\ search_str \in IF asked = NoSearch THEN {NoSearch}
                    ELSE {asked} \union {asked \o SubSeq(b, 1, 1) : b \in {c \in Beyond : c[1] # 0}}
  /\ packet = [proto |-> "none"]
  /\ after = <<>>
  /\ captured = FALSE
  /\ printed = <<>>
  /\ count = [p \in Protocols |-> 0]

total == MapThenSumSet(LAMBDA p : count[p], Protocols)

\* A packet arrives at the device.
Capture ==
  /\ ~captured /\ total < MaxPackets
  /\ captured' = TRUE
  /\ packet' \in Arriving("tcp") \union Arriving("udp")
                   \union {[proto |-> p] : p \in {"icmp", "igmp", "other"}}
  /\ after' \in IF asked = NoSearch THEN {<<>>} ELSE Beyond
  /\ printed' = <<>>
  /\ UNCHANGED <<search_str, asked, count>>

-----------------------------------------------------------------------------
\* data[i + k] == search_str[k]: the data is unsigned and a char is signed, so
\* a byte of the upper half, which a char makes negative, equals none.
SameByte(d, c) == d = c /\ c < B \div 2

\* The string is at offset i of the data, or of what follows the packet.
MatchAt(data, i) ==
  \A k \in 1..Len(search_str) : SameByte((data \o after)[i + k], search_str[k])

\* Mutant of check_data: a match is looked for at one offset less.
check_dataShort(data) ==
  \/ Len(data) > 0 /\ search_str = <<>>
  \/ \E i \in 0..(Len(data) - 3) : MatchAt(data, i)

\* A match is noticed at the start of the next round of the loop, hence not
\* one at the last offset; the comparison may run past the end of the packet.
check_data(data) ==
  \/ Len(data) > 0 /\ search_str = <<>>
  \/ \E i \in 0..(Len(data) - 2) : MatchAt(data, i)

Data == SubSeq(packet.seg, 7, Len(packet.seg))
Wanted == search_str = NoSearch \/ check_data(Data)

Handled(proto) ==
  /\ captured /\ packet.proto = proto
  /\ captured' = FALSE
  /\ count' = [count EXCEPT ![proto] = @ + 1]
  /\ UNCHANGED <<search_str, asked, after>>

HandleTcp ==
  /\ Handled("tcp")
  /\ IF Wanted THEN LET shown == print_tcp_packet(packet)
                    IN  packet' = shown.packet /\ printed' = <<shown.verdict>>
     ELSE UNCHANGED <<packet, printed>>

\* A wanted packet is printed, and then every packet is: the second time its
\* checksums are those that the first has stored.
HandleUdp ==
  /\ Handled("udp")
  /\ LET first  == print_udp_packet(packet)
         second == print_udp_packet(first.packet)
     IN  IF Wanted THEN packet' = second.packet /\ printed' = <<first.verdict, second.verdict>>
         ELSE packet' = first.packet /\ printed' = <<first.verdict>>

\* print_icmp_packet takes the frame for the IP header: what it checks, and
\* where it stores the checksum, depend on the destination's hardware address.
HandleIcmp ==
  /\ Handled("icmp")
  /\ \E ip, icmp \in BOOLEAN : printed' = <<[ip |-> ip, seg |-> icmp]>>
  /\ UNCHANGED packet

\* Counted only.
HandleOther ==
  /\ Handled("igmp") \/ Handled("other")
  /\ UNCHANGED <<packet, printed>>

pckt_hndl == HandleTcp \/ HandleUdp \/ HandleIcmp \/ HandleOther

SnifferNext == Capture \/ pckt_hndl

SnifferSpec == SnifferInit /\ [][SnifferNext]_snifferVars

-----------------------------------------------------------------------------
(* Properties *)

\* Although the checksum is computed on little-endian words, with the carries
\* folded in afterwards and the result stored over the one received, the first
\* verdict on a TCP or UDP packet is the one RFC 1071 gives: an intact packet
\* is valid and a single damaged byte is noticed, whether the data is odd or
\* even (core.c 110-205, 367-458).
VerdictRight ==
  ~captured /\ packet.proto \in {"tcp", "udp"} /\ printed # <<>>
    => RightVerdict(packet, printed[1])

\* With -s, a TCP packet that is printed has the string in its data, or at
\* least two characters of it at the end, where the search runs past the
\* packet; and one that has all of the string as stored, two characters or
\* more and all of them ASCII, is printed (core.c 297-306, sniffer.c 73-80).
MatchPrinted ==
  ~captured /\ packet.proto = "tcp" /\ asked \notin {NoSearch, <<>>} =>
    /\ printed # <<>> =>
         \E i \in 0..(Len(Data) - 2) : \A k \in 1..Len(asked) :
           i + k <= Len(Data) => Data[i + k] = asked[k]
    /\ /\ Len(search_str) >= 2
       /\ \A k \in 1..Len(search_str) : search_str[k] < B \div 2
       /\ \E i \in 0..(Len(Data) - Len(search_str)) :
            \A k \in 1..Len(search_str) : Data[i + k] = search_str[k]
       => printed # <<>>
=============================================================================
