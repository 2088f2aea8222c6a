----------------------------- MODULE Traceroute -----------------------------
(***************************************************************************)
(* icmp_raw_socket_traceroute: one loop sends an echo request, waits three *)
(* seconds for one ICMP packet, whichever program it is for, and goes on   *)
(* with the next ttl.  A router at distance ttl answers with TIME_EXCEEDED,*)
(* the destination at distance Hops with an echo reply.                    *)
(***************************************************************************)
EXTENDS Naturals

CONSTANTS
  TPid,      \* getpid()
  IdWidth,   \* identifiers in a packet are taken modulo this (2^16)
  TtlWidth,  \* ttls in a packet are taken modulo this (2^8)
  Hops,      \* distance of DEST_IP
  MaxTtl     \* bound on the ttl: the loop has none

VARIABLES
  tpc,       \* "send", "wait", "sleep", "reply", "error"
  ttl,       \* the ttl printed
  ip_ttl,    \* reqs_iph->ttl
  air,       \* ICMP packets on their way to the socket or in its buffer
  printed,   \* lines printed: ttl and the distance of the router named
  idle       \* whether a turn has passed without a packet for this program, or
             \* a router's answer will come again

tvars == <<tpc, ttl, ip_ttl, air, printed, idle>>

TInit ==
  /\ tpc = "send" /\ ttl = 1 /\ ip_ttl = 1
  /\ air = {} /\ printed = {} /\ idle = FALSE

\* What the network answers to a request that is sent with this ttl.
Answer(t) ==
  IF t >= Hops THEN [type |-> "reply", id |-> TPid % IdWidth, from |-> Hops]
  ELSE [type |-> "exceeded", id |-> TPid % IdWidth, from |-> t]

\* sendto.  The answer may be lost.
Probe ==
  /\ tpc = "send" /\ ttl <= MaxTtl
  /\ \/ air' = air \cup {Answer(ip_ttl)}
     \/ UNCHANGED air
  /\ tpc' = "wait"
  /\ UNCHANGED <<ttl, ip_ttl, printed, idle>>

\* Mutant of NextTtl: only the header is advanced.
NextTtlHeaderOnly == ip_ttl' = (ip_ttl + 1) % TtlWidth /\ UNCHANGED ttl

\* reqs_iph->ttl = ++ttl, ++seq, and the checksums.
NextTtl == ttl' = ttl + 1 /\ ip_ttl' = (ttl + 1) % TtlWidth

\* epoll_wait returns 0 after three seconds; no sleep follows.
Timeout ==
  /\ tpc = "wait"
  /\ NextTtl
  /\ idle' = TRUE
  /\ tpc' = "send"
  /\ UNCHANGED <<air, printed>>

Mine(p) == p.id = TPid

\* recvfrom.  Any echo reply ends the program; a line is printed for its own.
EchoReply(p) ==
  /\ p.type = "reply"
  /\ printed' = IF Mine(p) THEN printed \cup {<<ttl, p.from>>} ELSE printed
  /\ tpc' = "reply"
  /\ UNCHANGED <<ttl, ip_ttl, idle>>

DestUnreach(p) ==
  /\ p.type = "unreach"
  /\ idle' = TRUE
  /\ NextTtl
  /\ tpc' = "sleep"
  /\ UNCHANGED printed

\* The identifier is taken from the request the router quotes.
TimeExceeded(p, again) ==
  /\ p.type = "exceeded"
  /\ printed' = IF Mine(p) THEN printed \cup {<<ttl, p.from>>} ELSE printed
  /\ idle' = (idle \/ ~Mine(p) \/ again)
  /\ NextTtl
  /\ tpc' = "sleep"

\* The network may deliver a packet again.
Receive(p, again) ==
  /\ tpc = "wait"
  /\ air' = IF again THEN air ELSE air \ {p}
  /\ EchoReply(p) \/ DestUnreach(p) \/ TimeExceeded(p, again)

Sleep ==
  /\ tpc = "sleep"
  /\ tpc' = "send"
  /\ UNCHANGED <<ttl, ip_ttl, air, printed, idle>>

\* sendto, epoll_wait or recvfrom fails.
CallFails ==
  /\ tpc \in {"send", "wait"}
  /\ tpc' = "error"
  /\ UNCHANGED <<ttl, ip_ttl, air, printed, idle>>

TNext == \/ Probe \/ Timeout \/ Sleep \/ CallFails
         \/ \E p \in air, again \in BOOLEAN : Receive(p, again)

TSpec == TInit /\ [][TNext]_tvars

-----------------------------------------------------------------------------
\* A router is never printed under a ttl smaller than its distance, late as its
\* answer may be, however often it comes and whatever other programs receive; and
\* as long as every turn got an answer of its own, and none comes twice, it is
\* printed under exactly its distance (main.c 103-161).
HopsAttributed ==
  \A h \in printed : h[2] <= h[1] /\ (~idle => h[1] = h[2])
=============================================================================
