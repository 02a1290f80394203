----------------------------- MODULE MCThreads ------------------------------
(* An instance of ProtocolThreads for TLC: two devices of one protocol,    *)
(* whose threads share a name, and the broadcaster of the daemon.          *)
EXTENDS ProtocolThreads

CONSTANTS n1, n2, n3, main, adhoc

MCNodes == {n1, n2, n3}
MCPolling == {n1, n2}
MCIds == {"ping", "broadcaster"}
MCid == [n \in Nodes |-> IF n \in Polling THEN "ping" ELSE "broadcaster"]
MCCallers == {main, adhoc}
=============================================================================
