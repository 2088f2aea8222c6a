------------------------------- MODULE Packets -------------------------------
(***************************************************************************)
(* IP packets, what the network does to them, and the functions that       *)
(* compute_checksum's programs print them with: print_tcp_packet,          *)
(* print_udp_packet and print_ip_header recompute the checksums in the     *)
(* received packet itself and call each valid or invalid.                  *)
(* A header keeps its checksum, the fields that change the way the packet  *)
(* is read, and one of the others; the data is a few bytes.                *)
(***************************************************************************)
EXTENDS InternetChecksum, FiniteSetsExt, SequencesExt

CONSTANT
  Bytes,        \* bytes that addresses, ports and data are made of
  MaxData       \* bound: bytes of data in a packet

ASSUME PacketAssumption == Bytes \subseteq 0..(B - 1) /\ MaxData \in Nat

Number == [icmp |-> 1, igmp |-> 2, tcp |-> 6, udp |-> 17, other |-> 47]

Length(n) == <<n \div B, n % B>>
Value(b) == (b[1] * B) + b[2]
WithCheck(h, c) == [h EXCEPT ![5] = c[1], ![6] = c[2]]
CheckOf(h) == <<h[5], h[6]>>

\* An IP header: total length, address, protocol, checksum.
IpHeader(proto, addr, n) == Length(6 + n) \o <<addr, Number[proto], 0, 0>>

\* A UDP header (port, length, checksum) or a TCP header (port, data offset,
\* checksum), and the data.
Segment(proto, port, data) ==
  <<0, port>> \o (IF proto = "udp" THEN Length(6 + Len(data)) ELSE <<0, 6>>)
    \o <<0, 0>> \o data

\* A sender stores the RFC's checksums: the segment's is taken with a pseudo
\* header before it.  UDP sends all ones for zero, and a UDP sender may store
\* zero for no checksum (udp_raw_*/src/client.c do).
Sent(proto, addr, port, data, unsummed) ==
  LET seg == Segment(proto, port, data)
      ip  == IpHeader(proto, addr, Len(seg))
      c   == RfcChecksum(<<addr, addr, 0, Number[proto]>> \o Length(Len(seg)) \o seg)
  IN  [proto |-> proto,
       ip |-> WithCheck(ip, RfcChecksum(ip)),
       seg |-> WithCheck(seg, IF unsummed THEN <<0, 0>>
                              ELSE IF proto = "udp" /\ c = <<0, 0>> THEN <<B - 1, B - 1>>
                              ELSE c),
       summed |-> ~unsummed,
       damaged |-> "none"]

\* The packet with one byte damaged on the way, other than those that tell
\* where its parts are.
Damaged(p) ==
  {[p EXCEPT !.damaged = "ip", !.ip[i] = v] :
     i \in {3, 5, 6}, v \in Bytes} \union
  {[p EXCEPT !.damaged = "seg", !.seg[i] = v] :
     i \in {1, 2} \union 5..Len(p.seg), v \in Bytes}

\* What may arrive: packets sent, whole or damaged.
Arriving(proto) ==
  UNION {LET p == Sent(proto, addr, port, data, unsummed)
         IN  {p} \union {d \in Damaged(p) : d.ip # p.ip \/ d.seg # p.seg} :
           addr \in Bytes, port \in Bytes, data \in SeqOf(Bytes, MaxData),
           unsummed \in {FALSE, proto = "udp"}}

-----------------------------------------------------------------------------
(* Recomputing the checksums *)

Zeroed(h) == WithCheck(h, <<0, 0>>)

compute_ip_checksum(ip) == WithCheck(ip, compute_checksum(Zeroed(ip)))

\* The length comes from the IP header.
compute_tcp_checksum(ip, tcp) ==
  LET ph == <<ip[3], ip[3], 0, ip[4]>> \o Length(Value(ip) - 6)
  IN  WithCheck(tcp, compute_checksum(ph \o Zeroed(tcp)))

\* The length comes from the UDP header.
compute_udp_checksum(ip, udp) ==
  LET ph == <<ip[3], ip[3], 0, ip[4]>> \o SubSeq(udp, 3, 4)
  IN  WithCheck(udp, compute_checksum(ph \o Zeroed(udp)))

-----------------------------------------------------------------------------
(* Printing: the packet that is left, and the checksum and verdicts shown *)

print_ip_header(ip) ==
  LET new == compute_ip_checksum(ip) IN [ip |-> new, valid |-> CheckOf(ip) = CheckOf(new)]

\* The segment is recomputed first, then print_ip_header recomputes the header.
Shown(p, seg) ==
  LET header == print_ip_header(p.ip)
  IN  [packet  |-> [p EXCEPT !.ip = header.ip, !.seg = seg],
       verdict |-> [ip |-> header.valid, seg |-> CheckOf(p.seg) = CheckOf(seg),
                    check |-> CheckOf(p.seg)]]

print_tcp_packet(p) == Shown(p, compute_tcp_checksum(p.ip, p.seg))
print_udp_packet(p) == Shown(p, compute_udp_checksum(p.ip, p.seg))

-----------------------------------------------------------------------------
\* A verdict on packet p is right: what arrived as it was sent is valid, and
\* a damaged part is not.  UDP packets sent without a checksum, and those with
\* all ones in place of zero, are judged against a checksum that nobody sent.
RightVerdict(p, v) ==
  /\ v.ip = (p.damaged # "ip")
  /\ \/ p.damaged = "ip"
     \/ p.proto = "udp" /\ (~p.summed \/ v.check = <<B - 1, B - 1>>)
     \/ v.seg = (p.damaged = "none")
=============================================================================
