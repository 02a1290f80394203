------------------------ MODULE EventpoolRefinement ------------------------
(***************************************************************************)
(* The threaded event pool implements EventBus.  An event is accepted when *)
(* it enters the queue, its listeners are fixed when the main thread       *)
(* starts to walk the listener list for it, a listener has seen it when    *)
(* its callback returned, and it is done when done was called.             *)
(***************************************************************************)
EXTENDS Eventpool

busStateOf(e) ==
  IF ndone[e] > 0 THEN "done"
  ELSE IF sem[e] # NoRef THEN "delivering"
  ELSE IF stamp[e] > 0 THEN "pending"
  ELSE "none"

busTodoOf(e) == {l \in snap[e] : runs[e][l] = 0}

Bus == INSTANCE EventBus WITH
         state <- [e \in Events |-> busStateOf(e)],
         todo  <- [e \in Events |-> busTodoOf(e)]

(* Every behaviour of the event pool, in threaded mode and until           *)
(* eventpool_gc, is a behaviour of EventBus: no delivery is lost, doubled  *)
(* or made after done, and every accepted event is eventually done.        *)
ImplementsEventBus == Bus!Spec
============================================================================
