----------------------------- MODULE MCIcmpHost -----------------------------
(* An instance of IcmpHost for TLC. *)
EXTENDS IcmpHost

\* A reply to a third program, and an error whose unused field equals our pid.
Others == {[type |-> "reply", id |-> 8, seq |-> 5],
           [type |-> "exceeded", id |-> 7, seq |-> 0]}

\* Ping starts with nothing of the third program on its way, or with all of it and
\* the usual settings.
MCInit == /\ HostInit
          /\ net = {} \/ (net = Others /\ reqs_count = 2 /\ reqs_id = 7)

MCSpec == MCInit /\ [][HostNext]_hostVars /\ HostFairness
=============================================================================
