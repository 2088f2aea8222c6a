------------------------------- MODULE MCTools -------------------------------
(* Programs of one thread side by side: the allocator, the sniffer and the raw *)
(* UDP clients.  Each behaviour is one program's, and the others stay in their *)
(* initial state.                                                              *)
EXTENDS HeapAllocator, Sniffer, RawUdp

\* Strings of ASCII characters, with and without one that is not.
SomeSearches == {<<>>, <<118, 118>>, <<118, 255>>}
SomeBeyond == {<<0, 0, 0, 0>>, <<118, 0, 118, 0>>}

VARIABLE tool

toolVars == <<tool, vars, snifferVars, rawVars>>

ToolInit ==
  /\ tool \in {"malloc", "sniffer", "raw"}
  /\ Init /\ SnifferInit /\ RawInit
  /\ tool # "sniffer" => asked = NoSearch
  /\ tool # "raw" => layer = "tl" /\ addressed

MallocStep == tool = "malloc" /\ Next /\ UNCHANGED <<tool, snifferVars, rawVars>>
SnifferStep == tool = "sniffer" /\ SnifferNext /\ UNCHANGED <<tool, vars, rawVars>>
RawStep == tool = "raw" /\ RawNext /\ UNCHANGED <<tool, vars, snifferVars>>

ToolNext == MallocStep \/ SnifferStep \/ RawStep

ToolSpec == ToolInit /\ [][ToolNext]_toolVars /\ RawFairness
=============================================================================
