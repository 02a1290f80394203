--------------------------- MODULE MCDaemonQueues ---------------------------
(* Instances of DaemonQueues for TLC.                                      *)
EXTENDS DaemonQueues
=============================================================================
