------------------------------ MODULE DnsProxy ------------------------------
(***************************************************************************)
(* dns_proxy_server: a kernel module with a cache of DNS answers between   *)
(* two netfilter hooks.  dns_request_hook (POST_ROUTING) answers a query   *)
(* from the cache and drops it, or lets it go to the server;               *)
(* dns_reply_hook (LOCAL_IN) stores four bytes of a reply whose name it    *)
(* does not hold.  Neither takes a lock, and replies are handled on        *)
(* several processors: insertions into the red-black tree may overlap.     *)
(* The packet filter of netfilter/port_filter.c (LOCAL_OUT) sees the       *)
(* replies the module makes itself.                                        *)
(***************************************************************************)
EXTENDS Naturals

CONSTANTS
  Queries,     \* queries of applications
  Name,        \* [Queries -> Nat], the name asked for; strcmp is the order
  Port,        \* [Queries -> Nat], the port it is sent from
  BlockPort,   \* BLOCK_PORT of the port filter
  Answers,     \* what servers reply: records with the type of the first answer
               \* ("A", another, or "none") and the four bytes, rdata, that lie
               \* where the address of an A answer would
  Cpus,
  DnsMayFail   \* whether kmalloc may fail

VARIABLES
  loaded,      \* the hooks are registered
  tree,        \* the records linked into dr_tree; none is ever freed
  torn,        \* insertions have overlapped: the links of dr_tree may be anything
  query,       \* "new", "asked", "answered", "dropped", "failed", "hung"
  told,        \* what an answered query was told
  packets,     \* replies on their way to LOCAL_IN
  cpu,         \* what each processor does in dns_reply_hook
  given        \* the answers servers have given

dnsVars == <<loaded, tree, torn, query, told, packets, cpu, given>>

NoAnswer == [type |-> "none", rdata |-> 0]
NoPacket == [q |-> 0, ans |-> NoAnswer]
Rest == [at |-> "rest", pkt |-> NoPacket, alone |-> TRUE]

DnsInit ==
  /\ loaded = FALSE
  /\ tree = {} /\ torn = FALSE
  /\ query = [q \in Queries |-> "new"]
  /\ told = [q \in Queries |-> NoAnswer]
  /\ packets = {}
  /\ cpu = [c \in Cpus |-> Rest]
  /\ given = {}

-----------------------------------------------------------------------------
\* pf_init.  The root of the tree belongs to the module that is loaded.
pf_init ==
  /\ ~loaded /\ loaded' = TRUE
  /\ tree' = {} /\ torn' = FALSE
  /\ UNCHANGED <<query, told, packets, cpu, given>>

\* pf_exit: unregistering a hook waits for the processors that are in it.
pf_exit ==
  /\ loaded /\ \A c \in Cpus : cpu[c] = Rest
  /\ \A q \in Queries : query[q] # "hung"
  /\ loaded' = FALSE
  /\ UNCHANGED <<tree, torn, query, told, packets, cpu, given>>

\* Mutant of search_dr: names are compared the wrong way round at the end.
search_drNearest(name) == {r \in tree : r.name <= name}

\* The records a search may find.  Nodes are never freed and strcmp decides, so
\* whatever the links are, a search finds a record of that name or none.
search_dr(name) == {r \in tree : r.name = name}

\* A search may find nothing: there is nothing, or a processor is rebalancing the
\* tree while it walks down, or the tree is torn.
MayMiss(name) ==
  search_dr(name) = {} \/ torn \/ \E c \in Cpus : cpu[c].at = "color"

\* netfilter_hook of port_filter.c, for a packet that leaves this host.
netfilter_hook(dest) == dest # BlockPort

\* The record's four bytes are given out as an address, whatever they were.
AsA(rdata) == [type |-> "A", rdata |-> rdata]

\* send_reply: a copy of the query is turned into its answer and leaves through
\* ip_local_out, past the port filter, back to this host.
send_reply(q, r) ==
  IF netfilter_hook(Port[q])
  THEN /\ query' = [query EXCEPT ![q] = "asked"]
       /\ packets' = packets \cup {[q |-> q, ans |-> AsA(r.rdata)]}
  ELSE /\ query' = [query EXCEPT ![q] = "dropped"]
       /\ UNCHANGED packets

\* The query goes to the server, which answers sooner or later.
Upstream(q) ==
  /\ query' = [query EXCEPT ![q] = "asked"]
  /\ \E d \in Answers :
       /\ packets' = packets \cup {[q |-> q, ans |-> d]}
       /\ given' = given \cup {<<Name[q], d>>}

\* Mutant of dns_request_hook: NF_DROP whether or not there is an answer to send.
dns_request_hookDrops(q) ==
  \/ \E r \in search_dr(Name[q]) : send_reply(q, r) /\ UNCHANGED given
  \/ /\ MayMiss(Name[q]) \/ DnsMayFail
     /\ query' = [query EXCEPT ![q] = "dropped"]
     /\ UNCHANGED <<packets, given>>

\* dns_request_hook.  A record is allocated, and lost, for every query; a failed
\* allocation returns -ENOMEM, which is no verdict: the packet is not sent.  In a
\* torn tree the search need not end.
dns_request_hook(q) ==
  \/ \E r \in search_dr(Name[q]) : send_reply(q, r) /\ UNCHANGED given
  \/ MayMiss(Name[q]) /\ Upstream(q)
  \/ /\ DnsMayFail
     /\ query' = [query EXCEPT ![q] = "failed"]
     /\ UNCHANGED <<packets, given>>
  \/ /\ torn
     /\ query' = [query EXCEPT ![q] = "hung"]
     /\ UNCHANGED <<packets, given>>

Ask(q) ==
  /\ query[q] = "new"
  /\ IF loaded THEN dns_request_hook(q) ELSE Upstream(q)
  /\ UNCHANGED <<loaded, tree, torn, told, cpu>>

-----------------------------------------------------------------------------
(* dns_reply_hook *)

Deliver(p) ==
  /\ query' = [query EXCEPT ![p.q] = "answered"]
  /\ told' = [told EXCEPT ![p.q] = p.ans]

\* A processor takes a packet from the device.
Arrive(c, p) ==
  /\ cpu[c] = Rest /\ packets' = packets \ {p}
  /\ IF loaded
     THEN /\ cpu' = [cpu EXCEPT ![c] = [at |-> "search", pkt |-> p, alone |-> TRUE]]
          /\ UNCHANGED <<query, told>>
     ELSE Deliver(p) /\ UNCHANGED cpu
  /\ UNCHANGED <<loaded, tree, torn, given>>

\* The hook accepts the packet: the application gets it.
Accept(c) == Deliver(cpu[c].pkt) /\ cpu' = [cpu EXCEPT ![c] = Rest]

\* The links of a torn tree may lead a walk in circles.
Hang(c) ==
  /\ torn
  /\ cpu' = [cpu EXCEPT ![c].at = "hung"]
  /\ UNCHANGED <<query, told>>

\* search_dr and kmalloc: a name that is found is not stored again.
Search(c) ==
  /\ cpu[c].at = "search"
  /\ \/ search_dr(Name[cpu[c].pkt.q]) # {} /\ Accept(c)
     \/ /\ MayMiss(Name[cpu[c].pkt.q])
        /\ cpu' = [cpu EXCEPT ![c].at = "place"]
        /\ UNCHANGED <<query, told>>
     \/ /\ DnsMayFail
        /\ query' = [query EXCEPT ![cpu[c].pkt.q] = "failed"]
        /\ cpu' = [cpu EXCEPT ![c] = Rest]
        /\ UNCHANGED told
     \/ Hang(c)
  /\ UNCHANGED <<loaded, tree, torn, packets, given>>

\* insert_dr goes down to the empty link where the name belongs.
Place(c) ==
  /\ cpu[c].at = "place"
  /\ \/ search_dr(Name[cpu[c].pkt.q]) # {} /\ Accept(c)
     \/ /\ MayMiss(Name[cpu[c].pkt.q])
        /\ cpu' = [cpu EXCEPT ![c].at = "link",
                              ![c].alone = \A d \in Cpus : cpu[d].at # "color"]
        /\ UNCHANGED <<query, told>>
     \/ Hang(c)
  /\ UNCHANGED <<loaded, tree, torn, packets, given>>

\* rb_link_node writes the link that was found, whatever is there now.  After
\* another processor's insertion, or during its rebalancing, it may be the wrong
\* one or hold a subtree, and two may rebalance at once: from then on nothing is
\* known of the tree's shape.
Link(c) ==
  /\ cpu[c].at = "link"
  /\ tree' = tree \cup {[name |-> Name[cpu[c].pkt.q], rdata |-> cpu[c].pkt.ans.rdata]}
  /\ torn' = (torn \/ ~cpu[c].alone \/ \E d \in Cpus : cpu[d].at = "color")
  /\ cpu' = [d \in Cpus |-> IF d = c THEN [cpu[d] EXCEPT !.at = "color"]
                            ELSE [cpu[d] EXCEPT !.alone = @ /\ cpu[d].at # "link"]]
  /\ UNCHANGED <<loaded, query, told, packets, given>>

\* rb_insert_color rebalances the tree, rotation by rotation.
Color(c) ==
  /\ cpu[c].at = "color"
  /\ Accept(c) \/ Hang(c)
  /\ UNCHANGED <<loaded, tree, torn, packets, given>>

-----------------------------------------------------------------------------
Reply(c) == Search(c) \/ Place(c) \/ Link(c) \/ Color(c)

DnsNext ==
  \/ pf_init \/ pf_exit
  \/ \E q \in Queries : Ask(q)
  \/ \E c \in Cpus : Reply(c) \/ \E p \in packets : Arrive(c, p)

\* Packets are delivered and the hooks run; nobody need ask, load or unload.
DnsFairness == \A c \in Cpus : /\ WF_dnsVars(Reply(c))
                               /\ WF_dnsVars(\E p \in packets : Arrive(c, p))

DnsSpec == DnsInit /\ [][DnsNext]_dnsVars /\ DnsFairness

-----------------------------------------------------------------------------
\* An answer for name is one that a server has given for it, or the four bytes of
\* one, dressed up as an address by the cache.
Honest(name, ans) ==
  \E d \in Answers : <<name, d>> \in given /\ ans \in {d, AsA(d.rdata)}

\* What a query is told comes from an answer that a server has given for that very
\* name, however the processors' searches and insertions interleave or tear the
\* tree, and although answers from the cache pass dns_reply_hook again.  It is that
\* answer itself if it was an address; of any other, or of none, the cache gives
\* four bytes out as an address (58-195, 248-318).
AnswersGiven ==
  \A q \in Queries : query[q] = "answered" => Honest(Name[q], told[q])

\* A query is answered unless memory runs out or insertions have overlapped, for
\* then searches need not end: the hook that drops it has sent an answer itself.
\* The port the filter blocks is the other exception, for answers from the cache
\* are the only ones that leave through LOCAL_OUT (242-245; port_filter.c 35-38).
QueriesAnswered ==
  \A q \in Queries : query[q] # "new" /\ Port[q] # BlockPort
                       ~> query[q] \in {"answered", "failed"} \/ torn
=============================================================================
