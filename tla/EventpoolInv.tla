---------------------------- MODULE EventpoolInv ----------------------------
(***************************************************************************)
(* The inductive invariant of Eventpool, in layers: ControlInv and ListInv *)
(* are about the list of listeners, DeliveryInv is what the delivery of an *)
(* event to each of its listeners rests on.                                *)
(***************************************************************************)
EXTENDS Eventpool

Task(e, l) == [ev |-> e, lis |-> l]

(* Where the task of event e and listener l can be before its trywait.     *)
InNodes(e, l) == \E i \in DOMAIN nodes : nodes[i] = Task(e, l)
InWq(e, l) == \E i \in DOMAIN wq : wq[i] = Task(e, l)
AtFunc(e, l) == \E w \in Workers : wpc[w] = "func" /\ wtask[w] = Task(e, l)
AtTrywait(e, l) == \E w \in Workers : wpc[w] = "trywait" /\ wtask[w] = Task(e, l)
Pooled(e, l) == InWq(e, l) \/ AtFunc(e, l)

(* The listeners the walk over the list has still to make a task for.      *)
Walking(e) == mpc = "walk" /\ Head(eventqueue) = e
ToWalk(e, l) ==
  /\ Walking(e)
  /\ lreason[l] = evreason[e]
  /\ \E i \in DOMAIN listeners : i >= cur /\ listeners[i] = l

(* The task whose listener the main thread has just called.                *)
Counting(e, l) == mpc = "count" /\ Head(nodes) = Task(e, l)

(* The listeners that have not run for e, and those that have not done     *)
(* their trywait.                                                          *)
ToRun(e, l) ==
  \/ ToWalk(e, l)
  \/ InNodes(e, l) /\ ~Counting(e, l)
  \/ InWq(e, l)
  \/ AtFunc(e, l)
Unrun(e) == {l \in Listeners : ToRun(e, l)}
Todo(e) == {l \in Listeners : ToRun(e, l) \/ AtTrywait(e, l)}

AtDone(w, e) == wpc[w] = "done" /\ wtask[w].ev = e

(* Events eventpool_execute has begun to make tasks for and not finished   *)
(* to hand out or run.                                                     *)
InHand(e) == Walking(e) \/ \E i \in DOMAIN nodes : nodes[i].ev = e

(* Control: who holds the lock and what the program counters imply.        *)
ControlInv ==
  /\ locked = 1 <=> mpc \in {"drain", "walk"}
  /\ mpc = "walk" => eventqueue # <<>>
  /\ mpc = "count" => nodes # <<>> /\ threads = NoThreads
  /\ mpc \in {"loop", "gc"} => nodes = <<>>
  /\ \A e \in Events : tpc[e] # "new" => evreason[e] \in Reasons
  /\ \A w \in Workers : wpc[w] # "idle" => wtask[w] \in Tasks
  /\ \A i \in DOMAIN listeners : lreason[listeners[i]] \in Reasons
  /\ \A i \in DOMAIN eventqueue : evreason[eventqueue[i]] \in Reasons
  /\ \A i \in DOMAIN nodes : evreason[nodes[i].ev] \in Reasons

(* The listener list has no duplicates, and the counters count it.         *)
ListInv ==
  /\ \A i, j \in DOMAIN listeners : listeners[i] = listeners[j] => i = j
  /\ CountMatchesList

(* Nothing has happened to e yet.                                          *)
Fresh(e) ==
  /\ sem[e] = NoRef
  /\ snap[e] = {}
  /\ ndone[e] = 0
  /\ e \notin churned

(* A queued event is fresh unless it is the one the walk is for.           *)
QueueInv ==
  /\ \A i, j \in DOMAIN eventqueue : eventqueue[i] = eventqueue[j] => i = j
  /\ \A i \in DOMAIN eventqueue :
       /\ tpc[eventqueue[i]] \in {"send", "sent"}
       /\ Walking(eventqueue[i]) \/ Fresh(eventqueue[i])
  /\ \A e \in Events : tpc[e] \in {"new", "append", "ignored"} => Fresh(e)

(* A task exists in one place only.                                        *)
UniqueInv ==
  /\ \A i, j \in DOMAIN nodes : nodes[i] = nodes[j] => i = j
  /\ \A i, j \in DOMAIN wq : wq[i] = wq[j] => i = j
  /\ \A u, w \in Workers :
       wpc[u] \in {"func", "trywait"} /\ wpc[w] \in {"func", "trywait"}
         /\ wtask[u] = wtask[w] => u = w
  /\ \A e \in Events, l \in Listeners :
       /\ ~(ToWalk(e, l) /\ (InNodes(e, l) \/ InWq(e, l) \/ AtFunc(e, l) \/ AtTrywait(e, l)))
       /\ ~(InNodes(e, l) /\ (InWq(e, l) \/ AtFunc(e, l) \/ AtTrywait(e, l)))
       /\ ~(InWq(e, l) /\ (AtFunc(e, l) \/ AtTrywait(e, l)))
       /\ InNodes(e, l) => l \in snap[e]

(* Only events with a semaphore reach the thread pool.                     *)
ModeInv ==
  /\ \A e \in Events : InHand(e) => (sem[e] = NoRef <=> threads = NoThreads)
  /\ \A i \in DOMAIN wq : sem[wq[i].ev] # NoRef
  /\ \A w \in Workers : wpc[w] # "idle" => sem[wtask[w].ev] # NoRef
  /\ \A e \in freed : sem[e] # NoRef

(* The semaphore is one less than the tasks that have not tried it.        *)
SemInv ==
  \A e \in Events : sem[e] # NoRef =>
    /\ Todo(e) # {} => sem[e] = Cardinality(Todo(e)) - 1 /\ ndone[e] = 0 /\ e \notin freed
    /\ \A w \in Workers : AtDone(w, e) => Todo(e) = {} /\ ndone[e] = 0 /\ e \notin freed
    /\ \A u, w \in Workers : AtDone(u, e) /\ AtDone(w, e) => u = w
    /\ ndone[e] <= 1

(* A listener of the snapshot has run unless its task is still under way.  *)
RunInv ==
  \A e \in Events :
    /\ Todo(e) \subseteq snap[e]
    /\ \A l \in Listeners : runs[e][l] = IF l \in snap[e] /\ l \notin Unrun(e) THEN 1 ELSE 0

(* With the lock held no task in hand has run or been handed out, and the  *)
(* snapshots are what is registered.                                       *)
WalkInv ==
  mpc \in {"drain", "walk"} =>
    \A e \in Events : InHand(e) =>
      /\ Unrun(e) = snap[e] /\ \A l \in Listeners : ~Pooled(e, l)
      /\ e \notin churned /\ snap[e] = Matching(evreason[e])

(* Without threads: nrlisteners1 starts at 0, ...                          *)
SyncIdle == mpc \in {"loop", "gc", "drain", "walk"} => \A r \in Reasons : nrlisteners1[r] = 0

(* ... done is called once, when all tasks of the event have been run, ... *)
SyncOnce ==
  \A e \in Events : sem[e] = NoRef /\ e \notin churned =>
    ndone[e] <= 1 /\ (InHand(e) => ndone[e] = 0)

(* ... and events that were not churned are run one after the other:       *)
(* nrlisteners1 counts the listeners of the first one that have run, and   *)
(* nrlisteners, the number of registered ones, all of them.                *)
SyncTurn ==
  threads = NoThreads /\ nodes # <<>> /\ mpc \in {"dispatch", "count"} =>
    LET d == Head(nodes).ev IN
    /\ \A e \in Events : InHand(e) /\ e # d => Unrun(e) = snap[e]
    /\ \A e \in Events : InHand(e) /\ e \notin churned =>
         /\ snap[e] = Matching(evreason[e])
         /\ nrlisteners1[evreason[e]] =
              IF evreason[e] = evreason[d] THEN Cardinality(snap[d] \ Unrun(d)) ELSE 0
    /\ \A e, x \in Events : InHand(e) /\ InHand(x) /\ evreason[e] = evreason[x] =>
         (e \in churned <=> x \in churned)

SyncInv == SyncIdle /\ SyncOnce /\ SyncTurn

(* Stamps number the events in the order in which they entered the queue.  *)
StampInv ==
  /\ \A e \in Events : stamp[e] > 0 <=> tpc[e] \in {"send", "sent"}
  /\ \A e \in Events : stamp[e] <= Cardinality({x \in Events : stamp[x] > 0})
  /\ \A e, x \in Events : stamp[e] = stamp[x] /\ stamp[e] > 0 => e = x

(* Where every task of every queued or dispatched event is: in the queue,  *)
(* still to be made by the walk of eventpool_execute, in nodes, in the     *)
(* work queue or with one worker; the semaphore of the event is one less   *)
(* than the tasks that have not done their trywait; and without threads    *)
(* nrlisteners1 is the number of listeners called for the event in hand.   *)
DeliveryInv ==
  QueueInv /\ UniqueInv /\ ModeInv /\ SemInv /\ RunInv /\ WalkInv /\ SyncInv /\ StampInv
=============================================================================
