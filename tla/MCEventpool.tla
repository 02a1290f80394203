---------------------------- MODULE MCEventpool ----------------------------
(* Instances of Eventpool for TLC.  The symmetry is used for invariants    *)
(* only: workers, listeners, reasons and events are interchangeable.       *)
EXTENDS EventpoolInv, TLC

Symmetry ==
  Permutations(Workers) \cup Permutations(Listeners) \cup Permutations(Reasons)
    \cup Permutations(Events)
============================================================================
