--------------------------- MODULE MCKernelModules ---------------------------
(* Kernel modules side by side: each behaviour has one of them loaded, and the *)
(* others stay in their initial state.  They share nothing, so the run is the  *)
(* union of theirs.                                                            *)
EXTENDS MCCharDevice, DnsProxy, SharedReads

VARIABLE module

\* Three queries of one name and one of another; the fourth is from the port that
\* is blocked.
NameOf == <<1, 1, 2, 1>>
PortOf == <<1024, 1024, 1025, 7777>>

\* An address, and a reply without one.
SomeAnswers == {[type |-> "A", rdata |-> 1], [type |-> "none", rdata |-> 2]}

KernelVars == <<module, vars, dnsVars, readVars>>

KernelInit == /\ module \in {"ioctl", "dns_proxy_server", "procfs"}
              /\ Init /\ DnsInit
              /\ ReadInit /\ (module # "procfs" => driver = "procfs" /\ len = 2 /\ reader[1].count = 2)

IoctlStep == module = "ioctl" /\ Next /\ UNCHANGED <<module, dnsVars, readVars>>
DnsStep == module = "dns_proxy_server" /\ DnsNext /\ UNCHANGED <<module, vars, readVars>>
ReadStep == module = "procfs" /\ ReadNext /\ UNCHANGED <<module, vars, dnsVars>>

KernelNext == IoctlStep \/ DnsStep \/ ReadStep

KernelSpec == KernelInit /\ [][KernelNext]_KernelVars /\ DnsFairness
=============================================================================
