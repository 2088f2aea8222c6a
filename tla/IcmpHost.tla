------------------------------ MODULE IcmpHost ------------------------------
(***************************************************************************)
(* ping and traceroute on one host.  The kernel gives every ICMP packet to *)
(* every raw socket: an answer to one program also reaches the other.      *)
(***************************************************************************)
EXTENDS Ping

CONSTANTS TPid, TtlWidth, Hops, MaxTtl

\* Identifiers tell the two programs apart, and the destination is within the
\* reach of a ttl.
ASSUME ProgramsAssumption == TPid \in Nat /\ \A pid \in Pids : TPid % IdMod # pid % IdMod
ASSUME HopsAssumption == TtlWidth \in Nat /\ Hops \in 1..(TtlWidth - 1)

VARIABLES tpc, ttl, ip_ttl, air, printed, idle

T == INSTANCE Traceroute WITH IdWidth <- IdMod

hostVars == <<vars, T!tvars>>

HostInit == Init /\ T!TInit

\* What traceroute's socket gets of ping's packets: the identifier traceroute
\* looks at is that of the request, which an error quotes.
Overheard(ps) == {[type |-> p.type, id |-> IF p.type = "reply" THEN p.id
                                           ELSE reqs_id % IdMod,
                   from |-> 0] : p \in ps}

\* What ping's socket gets of traceroute's: it looks at the identifier field,
\* which an error leaves zero.
SeenByPing(ps) == {[type |-> p.type, id |-> IF p.type = "reply" THEN p.id ELSE 0,
                    seq |-> 0] : p \in ps}

PingStep(step) ==
  /\ exited = "no" /\ step
  /\ air' = IF tpc \in {"reply", "error"} THEN {} ELSE air \cup Overheard(net' \ net)
  /\ UNCHANGED <<tpc, ttl, ip_ttl, printed, idle>>

TracerouteStep ==
  /\ T!TNext
  /\ net' = IF exited = "no" THEN net \cup SeenByPing(air' \ air) ELSE net
  /\ UNCHANGED <<mainVars, sendVars, recvVars, lost, dup, exited>>

HostNext == PingStep(Next) \/ TracerouteStep

HostSpec == HostInit /\ [][HostNext]_hostVars

\* The fairness of Ping; traceroute may stop at any time.
HostFairness ==
  /\ WF_hostVars(PingStep(Sender))
  /\ WF_hostVars(PingStep(Receiver))
  /\ WF_hostVars(PingStep(Main))

-----------------------------------------------------------------------------
\* As HopsAttributed of Traceroute, with ping's replies and errors in between.
HopsAttributed == T!HopsAttributed
=============================================================================
