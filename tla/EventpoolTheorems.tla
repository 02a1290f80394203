------------------------- MODULE EventpoolTheorems -------------------------
(***************************************************************************)
(* What the event pool guarantees, for any number of reasons, listeners,   *)
(* events and workers.                                                     *)
(***************************************************************************)
EXTENDS EventpoolProofs, FiniteSetTheorems

(* The finite sets of the constants are counted.                           *)
LEMMA FiniteCounted ==
  ASSUME NEW T, IsFiniteSet(T)
  PROVE  Counted(T)
<1>1. Cardinality({}) = 0
  BY FS_EmptySet
<1>2. ASSUME NEW S \in SUBSET T
      PROVE  /\ IsFiniteSet(S) /\ Cardinality(S) \in Nat
             /\ Cardinality(S) = 0 => S = {}
             /\ \A R \in SUBSET S : R # S => Cardinality(R) # Cardinality(S)
             /\ \A x \in S : Cardinality(S \ {x}) = Cardinality(S) - 1
             /\ \A x \in T \ S : Cardinality(S \cup {x}) = Cardinality(S) + 1
  <2>1. IsFiniteSet(S)
    BY FS_Subset
  <2>2. Cardinality(S) \in Nat /\ (Cardinality(S) = 0 => S = {})
    BY <2>1, FS_CardinalityType, FS_EmptySet
  <2>3. \A R \in SUBSET S : R # S => Cardinality(R) # Cardinality(S)
    BY <2>1, FS_Subset
  <2>4. \A x \in S : Cardinality(S \ {x}) = Cardinality(S) - 1
    BY <2>1, FS_RemoveElement
  <2>5. \A x \in T \ S : Cardinality(S \cup {x}) = Cardinality(S) + 1
    BY <2>1, FS_AddElement
  <2> QED BY <2>1, <2>2, <2>3, <2>4, <2>5
<1> QED BY <1>1, <1>2 DEF Counted

(* What the lemmas about the steps assume of Cardinality is true.          *)
LEMMA LawsHold == CardinalityLaws
  BY FiniteCounted, EventpoolConstants DEF CardinalityLaws

(* Types, control and the counted list hold in every reachable state.      *)
LEMMA TypesAndList == Spec => [](TypeControl /\ ListInv)
<1>1. Init => TypeControl /\ ListInv
  BY LawsHold, TypeControlInit, ListInit
<1>2. TypeControl /\ ListInv /\ [Next]_vars => (TypeControl /\ ListInv)'
  BY LawsHold, TypeControlNext, ListNext
<1> QED BY <1>1, <1>2, PTL DEF Spec

(* So does the invariant behind the delivery of events.                    *)
LEMMA Invariant == Spec => []IInv
<1>1. Init => IInv
  BY LawsHold, DeliveryInit
<1>2. IInv /\ [Next]_vars => IInv'
  BY LawsHold, DeliveryNext
<1> QED BY <1>1, <1>2, PTL DEF Spec

----------------------------------------------------------------------------
(* The variables always have their types, for every Spec behaviour.        *)
THEOREM TypeCorrect == Spec => []TypeOK
<1>1. TypeControl /\ ListInv => TypeOK
  BY DEF TypeControl
<1> QED BY <1>1, TypesAndList, PTL

(* The main thread always learns of a queued event: eventpool_trigger      *)
(* sends the async handle after releasing the lock, and eventpool_execute  *)
(* sends it again when the queue filled up while it dispatched.            *)
THEOREM NoEventStranded == Spec => []NoStrandedEvent
<1>1. Init => NoStrandedEvent
  BY DEF Init, NoStrandedEvent
<1>2. TypeOK /\ NoStrandedEvent /\ [Next]_vars => NoStrandedEvent'
  BY NoStrandedNext
<1> QED BY <1>1, <1>2, TypeCorrect, PTL DEF Spec

(* nrlisteners[reason] is the number of listeners in the list with that    *)
(* reason, whatever eventpool_callback and eventpool_callback_remove calls *)
(* are interleaved with eventpool_execute and eventpool_gc.                *)
THEOREM CountersMatchList == Spec => []CountMatchesList
<1>1. TypeControl /\ ListInv => CountMatchesList
  BY DEF ListInv
<1> QED BY <1>1, TypesAndList, PTL

----------------------------------------------------------------------------
(* The invariant holds in every reachable state: each task is in one place *)
(* and the semaphore counts the tasks that have not tried it.              *)
THEOREM TasksAccounted == Spec => []DeliveryInv
<1>1. IInv => DeliveryInv
  BY DEF IInv
<1> QED BY <1>1, Invariant, PTL

(* Exactly-once delivery: when done has been called for an event, it was   *)
(* called once, after every listener of the snapshot had run once - by the *)
(* thread pool always, by the main thread if no listener of the reason was *)
(* added or removed meanwhile.                                             *)
THEOREM DeliveredThenDone == Spec => []Delivery
<1>1. IInv => Delivery
  <2> SUFFICES ASSUME IInv, NEW e \in Events, ndone[e] > 0, sem[e] # NoRef \/ e \notin churned
               PROVE  ndone[e] = 1 /\ DeliveredOnce(e)
    BY DEF Delivery
  <2>1. ndone[e] \in Nat
    BY DEF IInv, TypeOK
  <2>2. Unrun(e) = {}
    BY <2>1, UnrunNotDone
  <2>3. ndone[e] <= 1
    BY DEF IInv, DeliveryInv, SemInv, SyncInv, SyncOnce
  <2> QED BY <2>1, <2>2, <2>3, NothingLeft
<1> QED BY <1>1, Invariant, PTL

(* No use after free: no listener is called with the data of an event that *)
(* is done, and no worker touches a semaphore that was freed.              *)
THEOREM WorkersFindAllocated == Spec => []TasksAlive
<1>1. IInv => TasksAlive
  <2> SUFFICES ASSUME IInv, NEW e \in Events
               PROVE  /\ Waiting(e) /\ e \notin churned => ndone[e] = 0
                      /\ (Waiting(e) \/ \E w \in Workers : wpc[w] # "idle" /\ wtask[w].ev = e)
                           => e \notin freed
    BY DEF TasksAlive
  <2>1. Waiting(e) => (e \notin churned => ndone[e] = 0) /\ e \notin freed
    BY WaitingUnrun, UnrunNotDone
  <2>2. ASSUME NEW w \in Workers, wpc[w] # "idle", wtask[w].ev = e PROVE e \notin freed
    <3>1. PICK l \in Listeners : wtask[w] = Task(e, l) /\ sem[e] # NoRef
      BY <2>2, WorkerTask, TaskFacts
    <3>2. wpc[w] \in {"func", "trywait"} => Todo(e) # {}
      BY <3>1 DEF Todo, ToRun, AtFunc, AtTrywait
    <3>3. wpc[w] = "done" => AtDone(w, e)
      BY <2>2 DEF AtDone
    <3>4. wpc[w] \in {"func", "trywait", "done"}
      BY <2>2 DEF IInv, TypeOK
    <3> QED BY <3>1, <3>2, <3>3, <3>4 DEF IInv, DeliveryInv, SemInv
  <2> QED BY <2>1, <2>2
<1> QED BY <1>1, Invariant, PTL

(* Events leave the bus in the order in which eventpool_trigger queued     *)
(* them.                                                                   *)
THEOREM DeliveredInOrder == Spec => []DeliveryOrder
<1>1. IInv => DeliveryOrder
  BY DEF IInv
<1> QED BY <1>1, Invariant, PTL

----------------------------------------------------------------------------
(* As long as eventpool_gc has not changed the mode, whatever the event    *)
(* pool does is what EventBus allows: an event that entered the queue is   *)
(* delivered once to each listener of one instant's list, and done once,   *)
(* after the last of them.                                                 *)
THEOREM ThreadedImplementsBus == Spec /\ [](threads = Threaded) => Bus!SafetySpec
<1>1. IInv /\ [Next]_vars /\ threads = Threaded /\ (threads = Threaded)'
        => [Bus!Next]_(Bus!busState)
  BY LawsHold, BusNext
<1> QED BY <1>1, Invariant, BusInit, PTL DEF Spec, Bus!SafetySpec

(* A daemon that called eventpool_init(EVENTPOOL_THREADED) and not yet     *)
(* eventpool_gc implements EventBus, but for its fairness.                 *)
THEOREM ImplementsBusSafety ==
  InitModes = {Threaded} /\ GcCalls = 0 => (Spec => Bus!SafetySpec)
<1> SUFFICES ASSUME InitModes = {Threaded}, GcCalls = 0 PROVE Spec => Bus!SafetySpec
  OBVIOUS
<1>1. Init => threads = Threaded
  BY DEF Init
<1>2. threads = Threaded /\ [Next]_vars => (threads = Threaded)'
  BY ModeStays
<1>3. Spec => [](threads = Threaded)
  BY <1>1, <1>2, PTL DEF Spec
<1> QED BY <1>3, ThreadedImplementsBus, PTL

============================================================================
