------------------------------ MODULE EventBus ------------------------------
(***************************************************************************)
(* What the event pool promises its users, without queue, lock, semaphore  *)
(* or thread pool: an event that was accepted is delivered once to each of *)
(* a fixed set of listeners, and its done callback runs once, after them.  *)
(***************************************************************************)
EXTENDS FiniteSets

CONSTANTS Events, Listeners

VARIABLES
  state,  \* "none", "pending", "delivering" or "done"
  todo    \* the listeners that have still to see the event

busState == <<state, todo>>

Init ==
  /\ state = [e \in Events |-> "none"]
  /\ todo = [e \in Events |-> {}]

Accept(e) ==
  /\ state[e] = "none"
  /\ state' = [state EXCEPT ![e] = "pending"]
  /\ UNCHANGED todo

(* The listeners of an event are fixed in one instant.                     *)
Snapshot(e) ==
  /\ state[e] = "pending"
  /\ state' = [state EXCEPT ![e] = "delivering"]
  /\ \E L \in (SUBSET Listeners) \ {{}} : todo' = [todo EXCEPT ![e] = L]

Deliver(e, l) ==
  /\ state[e] = "delivering"
  /\ l \in todo[e]
  /\ todo' = [todo EXCEPT ![e] = @ \ {l}]
  /\ UNCHANGED state

(* An event without listeners is finished straight from the queue.         *)
Finish(e) ==
  /\ state[e] \in {"pending", "delivering"}
  /\ todo[e] = {}
  /\ state' = [state EXCEPT ![e] = "done"]
  /\ UNCHANGED todo

Next ==
  \E e \in Events :
    Accept(e) \/ Snapshot(e) \/ Finish(e) \/ \E l \in Listeners : Deliver(e, l)

Fairness ==
  \A e \in Events :
    /\ WF_busState(Snapshot(e) \/ Finish(e))
    /\ \A l \in Listeners : WF_busState(Deliver(e, l))

SafetySpec == Init /\ [][Next]_busState
Spec == SafetySpec /\ Fairness
============================================================================
