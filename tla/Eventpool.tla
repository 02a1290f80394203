----------------------------- MODULE Eventpool -----------------------------
(***************************************************************************)
(* The event bus of the pilight daemon: libs/pilight/core/eventpool.c.     *)
(*                                                                         *)
(* Any thread may register a listener for a reason (eventpool_callback),   *)
(* remove it (eventpool_callback_remove) or trigger an event               *)
(* (eventpool_trigger).  The main thread, woken through a libuv async      *)
(* handle, drains the event queue (eventpool_execute), takes a snapshot of *)
(* the listeners of each event and hands one task per listener to the      *)
(* libuv thread pool, whose workers run fib.  The workers of one event     *)
(* share a semaphore that tells the last of them to call the event's       *)
(* "done" callback, which frees the event's data.                          *)
(*                                                                         *)
(* listeners_lock is a plain (not recursive) mutex.  A critical section    *)
(* that touches nothing else is one step, guarded by the lock being free;  *)
(* the long one of eventpool_execute is several steps that hold it.        *)
(***************************************************************************)
EXTENDS Integers, Sequences, FiniteSets

CONSTANTS
  Reasons,     \* event reasons (REASON_* and the Lua range REASON_* + 10000)
  Listeners,   \* listener nodes that may be allocated, each one at most once
  Events,      \* calls of eventpool_trigger, each one with its own data
  Workers,     \* threads of the libuv thread pool
  QueueLimit,  \* the 50 of assert(eventqueue_size < 50)
  InitModes,   \* modes eventpool_init is called with
  GcCalls,     \* how often eventpool_gc may run: 0 or 1
  NoTask       \* what an idle worker executes

Threaded == "threaded"
NoThreads == "no_threads"
Unset == "unset"
Tasks == [ev : Events, lis : Listeners]

ASSUME EventpoolConstants ==
  /\ IsFiniteSet(Listeners)
  /\ IsFiniteSet(Events)
  /\ QueueLimit \in Nat
  /\ InitModes \subseteq {Threaded, NoThreads}
  /\ GcCalls \in {0, 1}
  /\ NoTask \notin Tasks
  /\ Unset \notin Reasons

VARIABLES
  eventpoolinit, \* eventpoolinit: 0 or 1
  threads,       \* EVENTPOOL_THREADED or EVENTPOOL_NO_THREADS
  listeners,     \* eventpool_listeners, head of the linked list first
  lreason,       \* reason of every listener node; Unset until it is registered
  nrlisteners,   \* nrlisteners[reason]
  eventqueue,    \* eventqueue, next event to execute first
  evreason,      \* reason of every event; Unset until it is triggered
  locked,        \* 1 while eventpool_execute holds listeners_lock
  async,         \* 1 while async_event_req is pending (sends coalesce)
  tpc,           \* progress of every eventpool_trigger call
  aborted,       \* 1 once assert(eventqueue_size < 50) has failed
  mpc,           \* progress of the main thread
  cur,           \* the listener the snapshot loop looks at
  nodes,         \* node[]: tasks of the snapshot, not handed out yet
  nrlisteners1,  \* nrlisteners1[reason], used when there are no threads
  wq,            \* the work queue of the thread pool
  wpc,           \* progress of every worker
  wtask,         \* the task a worker executes
  sem,           \* value of the event's semaphore; NoRef while ref == NULL
  freed,         \* events whose semaphore has been freed
  snap,          \* history: the listeners registered when the event was drained
  runs,          \* history: how often a listener ran for an event
  ndone,         \* history: how often done was called for an event
  stamp,         \* history: the order in which events entered the queue
  churned        \* history: see Churn

triggerVars == <<tpc, evreason, stamp, aborted>>
busVars == <<listeners, lreason, nrlisteners>>
mainVars == <<mpc, cur, nodes, nrlisteners1, locked>>
workVars == <<wpc, wtask>>
initVars == <<eventpoolinit, threads>>
vars == <<initVars, busVars, eventqueue, async, triggerVars, mainVars, wq,
          workVars, sem, freed, snap, runs, ndone, churned>>

NoRef == -1
(* The listeners of reason r that are in the list.                         *)
Registered == {listeners[i] : i \in DOMAIN listeners}
Matching(r) == {l \in Registered : lreason[l] = r}

Init ==
  /\ eventpoolinit = 1
  /\ threads \in InitModes
  /\ listeners = <<>>
  /\ lreason = [l \in Listeners |-> Unset]
  /\ nrlisteners = [r \in Reasons |-> 0]
  /\ eventqueue = <<>>
  /\ evreason = [e \in Events |-> Unset]
  /\ locked = 0
  /\ async = 0
  /\ tpc = [e \in Events |-> "new"]
  /\ aborted = 0
  /\ mpc = "loop"
  /\ cur = 1
  /\ nodes = <<>>
  /\ nrlisteners1 = [r \in Reasons |-> 0]
  /\ wq = <<>>
  /\ wpc = [w \in Workers |-> "idle"]
  /\ wtask = [w \in Workers |-> NoTask]
  /\ sem = [e \in Events |-> NoRef]
  /\ freed = {}
  /\ snap = [e \in Events |-> {}]
  /\ runs = [e \in Events |-> [l \in Listeners |-> 0]]
  /\ ndone = [e \in Events |-> 0]
  /\ stamp = [e \in Events |-> 0]
  /\ churned = {}

----------------------------------------------------------------------------
(* eventpool_callback and eventpool_callback_remove                        *)

(* Without threads, eventpool_execute compares the listeners it has run    *)
(* with the live nrlisteners[reason].  An event of reason r whose tasks    *)
(* are being run when the listeners of r change is recorded in "churned".  *)
Churn(r) ==
  churned' = churned \cup
    IF threads = NoThreads
    THEN {e \in Events : evreason[e] = r /\ \E i \in DOMAIN nodes : nodes[i].ev = e}
    ELSE {}

AddListener(l, r) ==
  /\ lreason[l] = Unset
  /\ locked = 0
  /\ lreason' = [lreason EXCEPT ![l] = r]
  /\ listeners' = <<l>> \o listeners
  /\ nrlisteners' = [nrlisteners EXCEPT ![r] = @ + 1]
  /\ Churn(r)
  /\ UNCHANGED <<initVars, eventqueue, async, triggerVars, mainVars, wq,
                 workVars, sem, freed, snap, runs, ndone>>

RemoveAt(s, i) == SubSeq(s, 1, i - 1) \o SubSeq(s, i + 1, Len(s))

(* Mutant: nrlisteners[reason]-- is missing.                               *)
RemoveListenerNoCount(i) ==
  /\ i \in DOMAIN listeners
  /\ locked = 0
  /\ listeners' = RemoveAt(listeners, i)
  /\ Churn(lreason[listeners[i]])
  /\ UNCHANGED <<initVars, lreason, nrlisteners, eventqueue, async, triggerVars,
                 mainVars, wq, workVars, sem, freed, snap, runs, ndone>>

(* The node at position i of the list is the one being removed; its owner  *)
(* holds the only pointer to it and drops it afterwards.                   *)
RemoveListener(i) ==
  /\ i \in DOMAIN listeners
  /\ locked = 0
  /\ listeners' = RemoveAt(listeners, i)
  /\ nrlisteners' = [nrlisteners EXCEPT ![lreason[listeners[i]]] = @ - 1]
  /\ Churn(lreason[listeners[i]])
  /\ UNCHANGED <<initVars, lreason, eventqueue, async, triggerVars, mainVars,
                 wq, workVars, sem, freed, snap, runs, ndone>>

----------------------------------------------------------------------------
(* eventpool_trigger: the test of eventpoolinit, the critical section and  *)
(* uv_async_send are three steps of the calling thread.                    *)

TriggerCheck(e, r) ==
  /\ tpc[e] = "new"
  /\ tpc' = [tpc EXCEPT ![e] = IF eventpoolinit = 1 THEN "append" ELSE "ignored"]
  /\ evreason' = [evreason EXCEPT ![e] = r]
  /\ UNCHANGED <<initVars, busVars, eventqueue, async, stamp, aborted,
                 mainVars, wq, workVars, sem, freed, snap, runs, ndone, churned>>

(* The loop that looks for the last entry counts the entries before it.    *)
EventqueueSize == IF eventqueue = <<>> THEN 0 ELSE Len(eventqueue) - 1

(* Mutant: the event enters the queue at its head, as listeners do.        *)
TriggerPrepend(e) ==
  /\ tpc[e] = "append"
  /\ locked = 0
  /\ EventqueueSize < QueueLimit
  /\ eventqueue' = <<e>> \o eventqueue
  /\ tpc' = [tpc EXCEPT ![e] = "send"]
  /\ stamp' = [stamp EXCEPT ![e] = 1 + Cardinality({x \in Events : stamp[x] > 0})]
  /\ UNCHANGED <<initVars, busVars, async, evreason, aborted, mainVars, wq,
                 workVars, sem, freed, snap, runs, ndone, churned>>

TriggerAppend(e) ==
  /\ tpc[e] = "append"
  /\ locked = 0
  /\ EventqueueSize < QueueLimit
  /\ eventqueue' = Append(eventqueue, e)
  /\ tpc' = [tpc EXCEPT ![e] = "send"]
  /\ stamp' = [stamp EXCEPT ![e] = 1 + Cardinality({x \in Events : stamp[x] > 0})]
  /\ UNCHANGED <<initVars, busVars, async, evreason, aborted, mainVars, wq,
                 workVars, sem, freed, snap, runs, ndone, churned>>

TriggerAbort(e) ==
  /\ tpc[e] = "append"
  /\ locked = 0
  /\ EventqueueSize >= QueueLimit
  /\ aborted' = 1
  /\ UNCHANGED <<initVars, busVars, eventqueue, async, tpc, evreason, stamp,
                 mainVars, wq, workVars, sem, freed, snap, runs, ndone, churned>>

(* Mutants: uv_async_send is missing; sends are counted, not coalesced.    *)
TriggerNoSend(e) ==
  /\ tpc[e] = "send"
  /\ tpc' = [tpc EXCEPT ![e] = "sent"]
  /\ UNCHANGED <<initVars, busVars, eventqueue, async, evreason, stamp, aborted,
                 mainVars, wq, workVars, sem, freed, snap, runs, ndone, churned>>

TriggerSendCounted(e) ==
  /\ tpc[e] = "send"
  /\ async' = async + 1
  /\ tpc' = [tpc EXCEPT ![e] = "sent"]
  /\ UNCHANGED <<initVars, busVars, eventqueue, evreason, stamp, aborted,
                 mainVars, wq, workVars, sem, freed, snap, runs, ndone, churned>>

TriggerSend(e) ==
  /\ tpc[e] = "send"
  /\ async' = 1
  /\ tpc' = [tpc EXCEPT ![e] = "sent"]
  /\ UNCHANGED <<initVars, busVars, eventqueue, evreason, stamp, aborted,
                 mainVars, wq, workVars, sem, freed, snap, runs, ndone, churned>>

----------------------------------------------------------------------------
(* eventpool_execute, on the main thread, called by libuv after the async  *)
(* handle was sent.  libuv clears the pending flag before the call.        *)

Done(e) == ndone' = [ndone EXCEPT ![e] = @ + 1]

ExecuteBegin ==
  /\ mpc = "loop"
  /\ async = 1
  /\ locked = 0
  /\ async' = 0
  /\ locked' = 1
  /\ mpc' = "drain"
  /\ UNCHANGED <<initVars, busVars, eventqueue, triggerVars, cur, nodes,
                 nrlisteners1, wq, workVars, sem, freed, snap, runs, ndone, churned>>

(* Nobody listens: done is called at once, with the lock held.             *)
DrainIdle ==
  /\ mpc = "drain"
  /\ eventqueue # <<>>
  /\ nrlisteners[evreason[Head(eventqueue)]] = 0
  /\ Done(Head(eventqueue))
  /\ eventqueue' = Tail(eventqueue)
  /\ UNCHANGED <<initVars, busVars, async, triggerVars, mainVars, wq, workVars,
                 sem, freed, snap, runs, churned>>

(* Mutants: the semaphore starts one too high or one too low.              *)
RefInitHigh(nr1) == IF threads = Threaded THEN nr1 ELSE NoRef
RefInitLow(nr1) == IF threads = Threaded THEN (IF nr1 > 1 THEN nr1 - 2 ELSE 0) ELSE NoRef

RefInit(nr1) == IF threads = Threaded THEN nr1 - 1 ELSE NoRef

(* The semaphore counts the listeners but one; the walk over the list      *)
(* starts.  (A counter above 0 with an empty list would call done too.)    *)
DrainEvent ==
  /\ mpc = "drain"
  /\ eventqueue # <<>>
  /\ LET e == Head(eventqueue) IN
       /\ nrlisteners[evreason[e]] # 0
       /\ sem' = [sem EXCEPT ![e] = RefInit(nrlisteners[evreason[e]])]
       /\ snap' = [snap EXCEPT ![e] = Matching(evreason[e])]
       /\ IF listeners = <<>> THEN Done(e) ELSE UNCHANGED ndone
  /\ mpc' = "walk"
  /\ cur' = 1
  /\ UNCHANGED <<initVars, busVars, eventqueue, async, triggerVars, nodes,
                 nrlisteners1, locked, wq, workVars, freed, runs, churned>>

WalkListener ==
  /\ mpc = "walk"
  /\ cur <= Len(listeners)
  /\ LET e == Head(eventqueue) IN
       nodes' = IF lreason[listeners[cur]] = evreason[e]
                THEN Append(nodes, [ev |-> e, lis |-> listeners[cur]])
                ELSE nodes
  /\ cur' = cur + 1
  /\ UNCHANGED <<initVars, busVars, eventqueue, async, triggerVars, mpc,
                 nrlisteners1, locked, wq, workVars, sem, freed, snap, runs,
                 ndone, churned>>

WalkEnd ==
  /\ mpc = "walk"
  /\ cur > Len(listeners)
  /\ eventqueue' = Tail(eventqueue)
  /\ mpc' = "drain"
  /\ UNCHANGED <<initVars, busVars, async, triggerVars, cur, nodes,
                 nrlisteners1, locked, wq, workVars, sem, freed, snap, runs,
                 ndone, churned>>

DrainEnd ==
  /\ mpc = "drain"
  /\ eventqueue = <<>>
  /\ locked' = 0
  /\ mpc' = "dispatch"
  /\ UNCHANGED <<initVars, busVars, eventqueue, async, triggerVars, cur, nodes,
                 nrlisteners1, wq, workVars, sem, freed, snap, runs, ndone, churned>>

(* One uv_queue_work per task, outside the lock.                           *)
Dispatch ==
  /\ mpc = "dispatch"
  /\ nodes # <<>>
  /\ threads = Threaded
  /\ wq' = Append(wq, Head(nodes))
  /\ nodes' = Tail(nodes)
  /\ UNCHANGED <<initVars, busVars, eventqueue, async, triggerVars, mpc, cur,
                 nrlisteners1, locked, workVars, sem, freed, snap, runs, ndone,
                 churned>>

Run(t) == runs' = [runs EXCEPT ![t.ev][t.lis] = @ + 1]

(* Without threads the listener runs here; the test whether it was the     *)
(* last one reads the live nrlisteners[reason] afterwards.                 *)
SyncRun ==
  /\ mpc = "dispatch"
  /\ nodes # <<>>
  /\ threads = NoThreads
  /\ nrlisteners1' = [nrlisteners1 EXCEPT ![evreason[Head(nodes).ev]] = @ + 1]
  /\ Run(Head(nodes))
  /\ mpc' = "count"
  /\ UNCHANGED <<initVars, busVars, eventqueue, async, triggerVars, cur, nodes,
                 locked, wq, workVars, sem, freed, snap, ndone, churned>>

SyncCount ==
  /\ mpc = "count"
  /\ LET r == evreason[Head(nodes).ev] IN
       IF nrlisteners1[r] = nrlisteners[r]
       THEN /\ Done(Head(nodes).ev)
            /\ nrlisteners1' = [nrlisteners1 EXCEPT ![r] = 0]
       ELSE UNCHANGED <<ndone, nrlisteners1>>
  /\ nodes' = Tail(nodes)
  /\ mpc' = "dispatch"
  /\ UNCHANGED <<initVars, busVars, eventqueue, async, triggerVars, cur,
                 locked, wq, workVars, sem, freed, snap, runs, churned>>

(* Events that arrived meanwhile are announced once more.                  *)
ExecuteEnd ==
  /\ mpc = "dispatch"
  /\ nodes = <<>>
  /\ locked = 0
  /\ nrlisteners1' = [r \in Reasons |-> 0]
  /\ async' = IF eventqueue # <<>> THEN 1 ELSE async
  /\ mpc' = "loop"
  /\ UNCHANGED <<initVars, busVars, eventqueue, triggerVars, cur, nodes,
                 locked, wq, workVars, sem, freed, snap, runs, ndone, churned>>

----------------------------------------------------------------------------
(* fib, on a worker of the thread pool                                     *)

WorkerTake(w) ==
  /\ wpc[w] = "idle"
  /\ wq # <<>>
  /\ wtask' = [wtask EXCEPT ![w] = Head(wq)]
  /\ wpc' = [wpc EXCEPT ![w] = "func"]
  /\ wq' = Tail(wq)
  /\ UNCHANGED <<initVars, busVars, eventqueue, async, triggerVars, mainVars,
                 sem, freed, snap, runs, ndone, churned>>

FibFunc(w) ==
  /\ wpc[w] = "func"
  /\ Run(wtask[w])
  /\ wpc' = [wpc EXCEPT ![w] = "trywait"]
  /\ UNCHANGED <<initVars, busVars, eventqueue, async, triggerVars, mainVars,
                 wq, wtask, sem, freed, snap, ndone, churned>>

(* Mutant: a worker that finds the value 1 takes itself for the last one.  *)
FibTrywaitEarly(w) ==
  /\ wpc[w] = "trywait"
  /\ LET e == wtask[w].ev IN
       IF sem[e] > 1
       THEN /\ sem' = [sem EXCEPT ![e] = @ - 1]
            /\ wpc' = [wpc EXCEPT ![w] = "idle"]
            /\ wtask' = [wtask EXCEPT ![w] = NoTask]
       ELSE /\ wpc' = [wpc EXCEPT ![w] = "done"]
            /\ UNCHANGED <<sem, wtask>>
  /\ UNCHANGED <<initVars, busVars, eventqueue, async, triggerVars, mainVars,
                 wq, freed, snap, runs, ndone, churned>>

(* uv_sem_trywait: EAGAIN, when the semaphore is 0, marks the last task.   *)
FibTrywait(w) ==
  /\ wpc[w] = "trywait"
  /\ LET e == wtask[w].ev IN
       IF sem[e] > 0
       THEN /\ sem' = [sem EXCEPT ![e] = @ - 1]
            /\ wpc' = [wpc EXCEPT ![w] = "idle"]
            /\ wtask' = [wtask EXCEPT ![w] = NoTask]
       ELSE /\ wpc' = [wpc EXCEPT ![w] = "done"]
            /\ UNCHANGED <<sem, wtask>>
  /\ UNCHANGED <<initVars, busVars, eventqueue, async, triggerVars, mainVars,
                 wq, freed, snap, runs, ndone, churned>>

FibDone(w) ==
  /\ wpc[w] = "done"
  /\ Done(wtask[w].ev)
  /\ freed' = freed \cup {wtask[w].ev}
  /\ wpc' = [wpc EXCEPT ![w] = "idle"]
  /\ wtask' = [wtask EXCEPT ![w] = NoTask]
  /\ UNCHANGED <<initVars, busVars, eventqueue, async, triggerVars, mainVars,
                 wq, sem, snap, runs, churned>>

----------------------------------------------------------------------------
(* eventpool_gc, on the main thread: what is queued is freed through its   *)
(* done callback, the listeners are freed and the mode falls back;         *)
(* eventpoolinit is cleared after the lock has been released.              *)

GcDone(e) == \E i \in DOMAIN eventqueue : eventqueue[i] = e

GcClear ==
  /\ mpc = "loop"
  /\ GcCalls > 0
  /\ eventpoolinit = 1
  /\ locked = 0
  /\ ndone' = [e \in Events |-> IF GcDone(e) THEN ndone[e] + 1 ELSE ndone[e]]
  /\ eventqueue' = <<>>
  /\ listeners' = <<>>
  /\ threads' = NoThreads
  /\ nrlisteners' = [r \in Reasons |-> 0]
  /\ mpc' = "gc"
  /\ UNCHANGED <<eventpoolinit, lreason, async, triggerVars, cur, nodes,
                 nrlisteners1, locked, wq, workVars, sem, freed, snap, runs, churned>>

GcEnd ==
  /\ mpc = "gc"
  /\ eventpoolinit' = 0
  /\ mpc' = "loop"
  /\ UNCHANGED <<threads, busVars, eventqueue, async, triggerVars, cur, nodes,
                 nrlisteners1, locked, wq, workVars, sem, freed, snap, runs,
                 ndone, churned>>

----------------------------------------------------------------------------
Trigger(e) ==
  \/ \E r \in Reasons : TriggerCheck(e, r)
  \/ TriggerAppend(e)
  \/ TriggerAbort(e)
  \/ TriggerSend(e)

Register ==
  \/ \E l \in Listeners, r \in Reasons : AddListener(l, r)
  \/ \E i \in 1..Len(listeners) : RemoveListener(i)

Execute ==
  \/ ExecuteBegin \/ DrainIdle \/ DrainEvent \/ WalkListener \/ WalkEnd
  \/ DrainEnd \/ Dispatch \/ SyncRun \/ SyncCount \/ ExecuteEnd

Gc == GcClear \/ GcEnd

Fib(w) == FibFunc(w) \/ FibTrywait(w) \/ FibDone(w)

Next ==
  /\ aborted = 0
  /\ \/ Register
     \/ \E e \in Events : Trigger(e)
     \/ Execute
     \/ Gc
     \/ \E w \in Workers : WorkerTake(w) \/ Fib(w)

(* A caller that entered eventpool_trigger leaves it, the main thread runs *)
(* its loop, an idle worker takes a task, and a callback returns.          *)
Fairness ==
  /\ \A e \in Events : WF_vars(aborted = 0 /\ (TriggerAppend(e) \/ TriggerSend(e)))
  /\ WF_vars(aborted = 0 /\ (Execute \/ GcEnd))
  /\ \A w \in Workers : WF_vars(aborted = 0 /\ (WorkerTake(w) \/ Fib(w)))

Spec == Init /\ [][Next]_vars
FairSpec == Spec /\ Fairness

----------------------------------------------------------------------------
(* Properties                                                              *)

(* The variables stay in their ranges: uv_async_send leaves one pending    *)
(* wake-up, however often eventpool_trigger calls it.                      *)
TypeOK ==
  /\ eventpoolinit \in {0, 1}
  /\ threads \in {Threaded, NoThreads}
  /\ listeners \in Seq(Listeners)
  /\ lreason \in [Listeners -> Reasons \cup {Unset}]
  /\ nrlisteners \in [Reasons -> Int]
  /\ eventqueue \in Seq(Events)
  /\ evreason \in [Events -> Reasons \cup {Unset}]
  /\ locked \in {0, 1}
  /\ async \in {0, 1}
  /\ tpc \in [Events -> {"new", "append", "send", "sent", "ignored"}]
  /\ aborted \in {0, 1}
  /\ mpc \in {"loop", "drain", "walk", "dispatch", "count", "gc"}
  /\ cur \in Nat \ {0}
  /\ nodes \in Seq(Tasks)
  /\ nrlisteners1 \in [Reasons -> Nat]
  /\ wq \in Seq(Tasks)
  /\ wpc \in [Workers -> {"idle", "func", "trywait", "done"}]
  /\ wtask \in [Workers -> Tasks \cup {NoTask}]
  /\ sem \in [Events -> Int]
  /\ freed \in SUBSET Events
  /\ snap \in [Events -> SUBSET Listeners]
  /\ runs \in [Events -> [Listeners -> Nat]]
  /\ ndone \in [Events -> Nat]
  /\ stamp \in [Events -> Nat]
  /\ churned \in SUBSET Events

(* The counter kept beside the listener list always equals the number of   *)
(* nodes of that reason in the list.  eventpool_execute relies on it: the  *)
(* counter sizes the semaphore, the list makes the tasks.                  *)
CountMatchesList ==
  \A r \in Reasons : nrlisteners[r] = Cardinality(Matching(r))

(* Every listener registered when the event was drained has run for it     *)
(* exactly once, and no other listener has.                                *)
DeliveredOnce(e) ==
  \A l \in Listeners : runs[e][l] = IF l \in snap[e] THEN 1 ELSE 0

(* When done has been called for an event, it was called once, and every   *)
(* listener of the snapshot has run exactly once before.  If workers ran   *)
(* them, so that the last trywait called done, this holds whatever was     *)
(* registered or removed since.  If the main thread called done (without   *)
(* threads, without listeners, or from eventpool_gc), eventpool_execute    *)
(* compares with the live number of listeners, and the listeners of the    *)
(* reason must not have changed while they were being called.              *)
Delivery ==
  \A e \in Events :
    ndone[e] > 0 /\ (sem[e] # NoRef \/ e \notin churned)
      => ndone[e] = 1 /\ DeliveredOnce(e)

(* The tasks of event e that have not called the listener yet.             *)
Waiting(e) ==
  \/ \E i \in DOMAIN nodes : nodes[i].ev = e /\ ~(mpc = "count" /\ i = 1)
  \/ \E i \in DOMAIN wq : wq[i].ev = e
  \/ \E w \in Workers : wpc[w] = "func" /\ wtask[w].ev = e

(* What the last task of an event frees, no other task still needs: no     *)
(* listener is handed the data of an event whose done callback, which      *)
(* frees it, has been called, and a worker that uses an event's semaphore, *)
(* or will, finds it allocated.                                            *)
TasksAlive ==
  \A e \in Events :
    /\ Waiting(e) /\ e \notin churned => ndone[e] = 0
    /\ (Waiting(e) \/ \E w \in Workers : wpc[w] # "idle" /\ wtask[w].ev = e)
         => e \notin freed

(* No event is stranded: as long as the queue is not empty the main thread *)
(* is inside eventpool_execute, has a pending wake-up, or the caller of    *)
(* eventpool_trigger is about to send one.                                 *)
NoStrandedEvent ==
  eventqueue # <<>> =>
    \/ mpc \in {"drain", "walk", "dispatch", "count"}
    \/ async = 1
    \/ \E e \in Events : tpc[e] = "send"

(* Events leave the bus in the order in which they entered it: the tasks   *)
(* the workers have still to take are sorted by it, and everything in the  *)
(* event queue comes after them.                                           *)
DeliveryOrder ==
  LET pending == wq \o nodes IN
    /\ \A i, j \in DOMAIN pending :
         i < j => stamp[pending[i].ev] <= stamp[pending[j].ev]
    /\ \A i \in DOMAIN pending, j \in DOMAIN eventqueue :
         stamp[pending[i].ev] <= stamp[eventqueue[j]]
    /\ \A i, j \in DOMAIN eventqueue :
         i < j => stamp[eventqueue[i]] < stamp[eventqueue[j]]

(* Every event whose trigger call passed the test of eventpoolinit is      *)
(* eventually done, so that its data is freed, unless the assertion on the *)
(* queue length ended the program.                                         *)
EventuallyDone ==
  \A e \in Events :
    tpc[e] = "append" ~> (ndone[e] > 0 \/ aborted = 1 \/ e \in churned)
============================================================================
