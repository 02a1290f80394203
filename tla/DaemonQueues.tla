---------------------------- MODULE DaemonQueues ----------------------------
(***************************************************************************)
(* The three work queues of the pilight daemon (daemon.c) and its          *)
(* shutdown.                                                               *)
(*                                                                         *)
(* send_queue, receive_queue and broadcast_queue append to a list under a  *)
(* recursive mutex and signal a condition.  One thread per queue           *)
(* (send_code, receive_parse_code, broadcast) takes the mutex once, keeps  *)
(* it from item to item, gives it up only inside pthread_cond_wait, and    *)
(* returns with the mutex held when main_loop is 0.  Handling an item may  *)
(* append to a later queue (send -> recv, send -> bc, recv -> bc, and      *)
(* bc -> bc through the recursive mutex) and trigger events that only the  *)
(* main thread drains.  The main thread broadcasts its statistics, and     *)
(* main_gc stops the threads from there.                                   *)
(***************************************************************************)
EXTENDS Integers, Sequences, FiniteSets

CONSTANTS
  Callers,     \* threads that call send_queue, receive_queue, broadcast_queue
  Calls,       \* how many such calls, and runs of pilight_stats, are made
  CallQueues,  \* the queues they are made to
  Limit,       \* 1024 in "number <= 1024"
  EventLimit,  \* 50 in assert(eventqueue_size < 50)
  MaxMessages, \* most protocols that recognise one received code
  GcCalls      \* how often a signal starts main_gc: 0 or 1

Queues == {"send", "recv", "bc"}
(* Threads are named after the queue they serve.                           *)
Workers == Queues
Main == "main"
Threads == Workers \cup Callers \cup {Main}
Nobody == "nobody"
(* What broadcast looks at: messages whose origin is "core", and others.   *)
Kinds == {"core", "code"}

ASSUME DaemonQueuesConstants ==
  /\ Callers \cap (Workers \cup {Main, Nobody}) = {}
  /\ Calls \in Nat /\ Limit \in Nat /\ EventLimit \in Nat /\ MaxMessages \in Nat
  /\ CallQueues \subseteq Queues
  /\ GcCalls \in {0, 1}

VARIABLES
  main_loop,  \* main_loop: 0 or 1
  queue,      \* the linked list of every queue; its length is *queue_number
  owner,      \* the thread that holds the mutex of a queue
  depth,      \* how often it holds it
  wpc,        \* progress of the thread of a queue
  todo,       \* what is left of the item it handles
  cpc,        \* progress of a thread inside *_queue
  target,     \* the queue and the kind of item of that call
  sending,    \* sending: 0 or 1
  events,     \* number of entries in the event queue of the event pool
  aborted,    \* 1 once the assertion of eventpool_trigger has failed
  mpc,        \* progress of main_gc, "run" before it
  calls,      \* bound: calls left to the callers and to pilight_stats
  late,       \* history: items sent after main_gc waited for "sending"
  calm        \* history: 1 if main_gc began with all three threads waiting

lockVars == <<owner, depth>>
callVars == <<cpc, target>>
mainVars == <<main_loop, mpc, calm>>
vars == <<mainVars, queue, lockVars, wpc, todo, callVars, sending, events,
          aborted, calls, late>>

NoCall == [queue |-> "bc", kind |-> "code"]

Init ==
  /\ main_loop = 1
  /\ queue = [q \in Queues |-> <<>>]
  /\ owner = [q \in Queues |-> Nobody]
  /\ depth = [q \in Queues |-> 0]
  /\ wpc = [w \in Workers |-> "lock"]
  /\ todo = [w \in Workers |-> <<>>]
  /\ cpc = [t \in Threads |-> "none"]
  /\ target = [t \in Threads |-> NoCall]
  /\ sending = 0
  /\ events = 0
  /\ aborted = 0
  /\ mpc = "run"
  /\ calls = Calls
  /\ late = 0
  /\ calm = 0

----------------------------------------------------------------------------
(* send_queue, receive_queue, broadcast_queue.  The latter two test        *)
(* main_loop before they take the mutex, send_queue under it.              *)

Entry(q) == IF q = "send" THEN "lock" ELSE "check"

Enter(t, q, kind) ==
  /\ cpc[t] = "none"
  /\ cpc' = [cpc EXCEPT ![t] = Entry(q)]
  /\ target' = [target EXCEPT ![t] = [queue |-> q, kind |-> kind]]

Call(t, q) ==
  /\ calls > 0
  /\ calls' = calls - 1
  /\ Enter(t, q, "code")
  /\ UNCHANGED <<mainVars, queue, lockVars, wpc, todo, sending, events, aborted,
                 late>>

CallCheck(t) ==
  /\ cpc[t] = "check"
  /\ cpc' = [cpc EXCEPT ![t] = IF main_loop = 1 THEN "lock" ELSE "none"]
  /\ UNCHANGED <<mainVars, queue, lockVars, wpc, todo, target, sending, events,
                 aborted, calls, late>>

(* The mutex is recursive: a thread that holds it takes it again.          *)
MayLock(t, q) == owner[q] \in {Nobody, t}

Room(q) == Len(queue[q]) <= Limit

(* Mutant: the signal after an append is missing.                          *)
CallAppendNoSignal(t) ==
  LET q == target[t].queue IN
  /\ cpc[t] = "lock"
  /\ MayLock(t, q)
  /\ q = "send" => main_loop = 1
  /\ Room(q)
  /\ queue' = [queue EXCEPT ![q] = Append(@, target[t].kind)]
  /\ cpc' = [cpc EXCEPT ![t] = "none"]
  /\ UNCHANGED <<mainVars, lockVars, wpc, todo, target, sending, events,
                 aborted, calls, late>>

(* The critical section: append, or "queue full".                          *)
CallAppend(t) ==
  LET q == target[t].queue IN
  /\ cpc[t] = "lock"
  /\ MayLock(t, q)
  /\ q = "send" => main_loop = 1
  /\ Room(q)
  /\ queue' = [queue EXCEPT ![q] = Append(@, target[t].kind)]
  /\ cpc' = [cpc EXCEPT ![t] = "signal"]
  /\ UNCHANGED <<mainVars, lockVars, wpc, todo, target, sending, events,
                 aborted, calls, late>>

(* A full queue; send_queue also gives up on a code no protocol accepts,   *)
(* on a code for another node and during shutdown, and then does not       *)
(* signal.                                                                 *)
CallDrop(t) ==
  LET q == target[t].queue IN
  /\ cpc[t] = "lock"
  /\ MayLock(t, q)
  /\ q = "send" \/ ~Room(q)
  /\ cpc' = [cpc EXCEPT ![t] = IF q = "send" THEN "none" ELSE "signal"]
  /\ UNCHANGED <<mainVars, queue, lockVars, wpc, todo, target, sending, events,
                 aborted, calls, late>>

(* pthread_cond_signal, after the mutex was released: the thread of the    *)
(* queue, if it waits, goes on to take the mutex back.                     *)
Signalled(q) ==
  wpc' = IF wpc[q] = "waiting" THEN [wpc EXCEPT ![q] = "lock"] ELSE wpc

CallSignal(t) ==
  /\ cpc[t] = "signal"
  /\ Signalled(target[t].queue)
  /\ cpc' = [cpc EXCEPT ![t] = "none"]
  /\ UNCHANGED <<mainVars, queue, lockVars, todo, target, sending, events,
                 aborted, calls, late>>

----------------------------------------------------------------------------
(* send_code, receive_parse_code and broadcast: the common loop            *)

WorkerLock(w) ==
  /\ wpc[w] = "lock"
  /\ owner[w] = Nobody
  /\ owner' = [owner EXCEPT ![w] = w]
  /\ depth' = [depth EXCEPT ![w] = 1]
  /\ wpc' = [wpc EXCEPT ![w] = "test"]
  /\ UNCHANGED <<mainVars, queue, todo, callVars, sending, events, aborted,
                 calls, late>>

(* Mutant: the mutex is released before pthread_cond_wait.                 *)
WorkerTestUnlock(w) ==
  LET next == IF main_loop = 0 THEN "returned"
              ELSE IF queue[w] # <<>> THEN "item" ELSE "towait" IN
  /\ wpc[w] = "test"
  /\ wpc' = [wpc EXCEPT ![w] = next]
  /\ IF next = "towait"
     THEN owner' = [owner EXCEPT ![w] = Nobody] /\ depth' = [depth EXCEPT ![w] = 0]
     ELSE UNCHANGED lockVars
  /\ UNCHANGED <<mainVars, queue, todo, callVars, sending, events, aborted,
                 calls, late>>

(* while(main_loop) and if(number > 0).  A thread that returns does not    *)
(* unlock.                                                                 *)
WorkerTest(w) ==
  /\ wpc[w] = "test"
  /\ wpc' = [wpc EXCEPT ![w] = IF main_loop = 0 THEN "returned"
                               ELSE IF queue[w] # <<>> THEN "item" ELSE "towait"]
  /\ UNCHANGED <<mainVars, queue, lockVars, todo, callVars, sending, events,
                 aborted, calls, late>>

(* Mutant: the mutex is kept while waiting.                                *)
WorkerWaitLocked(w) ==
  /\ wpc[w] = "towait"
  /\ wpc' = [wpc EXCEPT ![w] = "waiting"]
  /\ UNCHANGED <<mainVars, queue, lockVars, todo, callVars, sending, events,
                 aborted, calls, late>>

(* pthread_cond_wait unlocks the mutex once and waits, in one step.        *)
WorkerWait(w) ==
  /\ wpc[w] = "towait"
  /\ owner' = IF depth[w] = 1 THEN [owner EXCEPT ![w] = Nobody] ELSE owner
  /\ depth' = [depth EXCEPT ![w] = @ - 1]
  /\ wpc' = [wpc EXCEPT ![w] = "waiting"]
  /\ UNCHANGED <<mainVars, queue, todo, callVars, sending, events, aborted,
                 calls, late>>

(* What one item of a queue may lead to, in the order of the code.         *)
Maybe(x) == {<<>>, <<x>>}
FollowUps(w) ==
  CASE w = "send" -> {e \o r \o b : e \in Maybe("event"), r \in Maybe("recv"), b \in Maybe("bc")}
    [] w = "recv" -> {[i \in 1..n |-> "bc"] : n \in 0..MaxMessages}
    [] w = "bc"   -> IF Head(queue["bc"]) = "core" THEN {<<"event">>}
                     ELSE {<<>>} \cup {u \o f \o <<"event">> :
                                        u \in Maybe("event"), f \in Maybe("core")}

WorkerItem(w) ==
  /\ wpc[w] = "item"
  /\ depth' = [depth EXCEPT ![w] = @ + 1]
  /\ sending' = IF w = "send" THEN 1 ELSE sending
  /\ late' = IF w = "send" /\ mpc \notin {"run", "sending"} THEN late + 1 ELSE late
  /\ \E f \in FollowUps(w) : todo' = [todo EXCEPT ![w] = f]
  /\ wpc' = [wpc EXCEPT ![w] = "work"]
  /\ UNCHANGED <<mainVars, queue, owner, callVars, events, aborted, calls>>

(* eventpool_trigger: nothing after eventpool_gc; the loop that looks for  *)
(* the last entry of the queue counts the entries before it.               *)
EventqueueSize == IF events = 0 THEN 0 ELSE events - 1

WorkerTrigger(w) ==
  /\ wpc[w] = "work" /\ cpc[w] = "none"
  /\ todo[w] # <<>> /\ Head(todo[w]) = "event"
  /\ IF mpc \in {"join", "done"} THEN UNCHANGED <<events, aborted>>
     ELSE IF EventqueueSize < EventLimit THEN events' = events + 1 /\ UNCHANGED aborted
     ELSE aborted' = 1 /\ UNCHANGED events
  /\ todo' = [todo EXCEPT ![w] = Tail(@)]
  /\ UNCHANGED <<mainVars, queue, lockVars, wpc, callVars, sending, calls, late>>

(* The calls of *_queue made for an item; "core" is the message about a    *)
(* new firmware that broadcast appends to its own queue.                   *)
WorkerCall(w) ==
  /\ wpc[w] = "work"
  /\ todo[w] # <<>> /\ Head(todo[w]) # "event"
  /\ LET x == Head(todo[w]) IN
       IF x = "core" THEN Enter(w, "bc", "core") ELSE Enter(w, x, "code")
  /\ todo' = [todo EXCEPT ![w] = Tail(@)]
  /\ UNCHANGED <<mainVars, queue, lockVars, wpc, sending, events, aborted,
                 calls, late>>

WorkerPop(w) ==
  /\ wpc[w] = "work" /\ cpc[w] = "none"
  /\ todo[w] = <<>>
  /\ queue' = [queue EXCEPT ![w] = Tail(@)]
  /\ sending' = IF w = "send" THEN 0 ELSE sending
  /\ depth' = [depth EXCEPT ![w] = @ - 1]
  /\ wpc' = [wpc EXCEPT ![w] = "test"]
  /\ UNCHANGED <<mainVars, owner, todo, callVars, events, aborted, calls, late>>

----------------------------------------------------------------------------
(* The main thread: its loop runs eventpool_execute, pilight_stats and, on *)
(* a signal, main_gc.                                                      *)

MainIdle == mpc = "run" /\ cpc[Main] = "none"

MainDrain ==
  /\ MainIdle
  /\ events > 0
  /\ events' = 0
  /\ UNCHANGED <<mainVars, queue, lockVars, wpc, todo, callVars, sending,
                 aborted, calls, late>>

MainStats ==
  /\ MainIdle
  /\ calls > 0
  /\ calls' = calls - 1
  /\ Enter(Main, "bc", "core")
  /\ UNCHANGED <<mainVars, queue, lockVars, wpc, todo, sending, events, aborted,
                 late>>

GcBegin ==
  /\ MainIdle
  /\ GcCalls > 0
  /\ main_loop' = 0
  /\ mpc' = "sending"
  /\ calm' = IF (\A w \in Workers : wpc[w] = "waiting") /\ (\A t \in Threads : cpc[t] = "none")
             THEN 1 ELSE 0
  /\ UNCHANGED <<queue, lockVars, wpc, todo, callVars, sending, events, aborted,
                 calls, late>>

(* Mutant: main_gc does not wait for the code that is being sent.          *)
GcSendingNoWait ==
  /\ mpc = "sending"
  /\ mpc' = "recv"
  /\ UNCHANGED <<main_loop, calm, queue, lockVars, wpc, todo, callVars, sending,
                 events, aborted, calls, late>>

(* while(sending) usleep(1000)                                             *)
GcSending ==
  /\ mpc = "sending"
  /\ sending = 0
  /\ mpc' = "recv"
  /\ UNCHANGED <<main_loop, calm, queue, lockVars, wpc, todo, callVars, sending,
                 events, aborted, calls, late>>

(* Mutant: the thread of the send queue is not signalled.                  *)
AfterSignalSkip(q) == CASE q = "recv" -> "bc" [] q = "send" -> "bc" [] q = "bc" -> "pool"

AfterSignal(q) == CASE q = "recv" -> "send" [] q = "send" -> "bc" [] q = "bc" -> "pool"

(* One queue after the other: the unlock of a mutex that main does not     *)
(* hold has no effect, the signal wakes the thread if it waits.            *)
GcSignal ==
  /\ mpc \in Queues
  /\ Signalled(mpc)
  /\ mpc' = AfterSignal(mpc)
  /\ UNCHANGED <<main_loop, calm, queue, lockVars, todo, callVars, sending,
                 events, aborted, calls, late>>

(* eventpool_gc                                                            *)
GcPool ==
  /\ mpc = "pool"
  /\ events' = 0
  /\ mpc' = "join"
  /\ UNCHANGED <<main_loop, calm, queue, lockVars, wpc, todo, callVars, sending,
                 aborted, calls, late>>

(* threads_gc joins the threads, which were registered without "force".    *)
GcJoin ==
  /\ mpc = "join"
  /\ \A w \in Workers : wpc[w] = "returned"
  /\ mpc' = "done"
  /\ UNCHANGED <<main_loop, calm, queue, lockVars, wpc, todo, callVars, sending,
                 events, aborted, calls, late>>

----------------------------------------------------------------------------
InCall(t) == CallCheck(t) \/ CallAppend(t) \/ CallDrop(t) \/ CallSignal(t)

Work(w) ==
  \/ WorkerLock(w) \/ WorkerTest(w) \/ WorkerWait(w) \/ WorkerItem(w)
  \/ WorkerTrigger(w) \/ WorkerCall(w) \/ WorkerPop(w)

Gc == GcSending \/ GcSignal \/ GcPool \/ GcJoin

Next ==
  /\ aborted = 0
  /\ \/ \E t \in Callers, q \in CallQueues : Call(t, q)
     \/ \E t \in Threads : InCall(t)
     \/ \E w \in Workers : Work(w)
     \/ MainDrain \/ MainStats \/ GcBegin \/ Gc

(* Threads run, and the main thread keeps running its loop.  Mutexes are   *)
(* handed over eventually because only finitely many calls are made.       *)
Fairness ==
  /\ \A t \in Threads : WF_vars(aborted = 0 /\ InCall(t))
  /\ \A w \in Workers : WF_vars(aborted = 0 /\ Work(w))
  /\ WF_vars(aborted = 0 /\ (MainDrain \/ Gc))

Spec == Init /\ [][Next]_vars
FairSpec == Spec /\ Fairness

----------------------------------------------------------------------------
(* Properties                                                              *)

(* The variables stay in their ranges: a recursive mutex is never locked   *)
(* more than twice, and a thread only ever has later items to queue.       *)
TypeOK ==
  /\ main_loop \in {0, 1}
  /\ queue \in [Queues -> Seq(Kinds)]
  /\ owner \in [Queues -> Threads \cup {Nobody}]
  /\ depth \in [Queues -> 0..2]
  /\ wpc \in [Workers -> {"lock", "test", "towait", "waiting", "item", "work", "returned"}]
  /\ todo \in [Workers -> Seq({"event", "recv", "bc", "core"})]
  /\ cpc \in [Threads -> {"none", "check", "lock", "signal"}]
  /\ target \in [Threads -> [queue : Queues, kind : Kinds]]
  /\ sending \in {0, 1}
  /\ events \in Nat
  /\ aborted \in {0, 1}
  /\ mpc \in {"run", "sending", "recv", "send", "bc", "pool", "join", "done"}
  /\ calls \in Nat
  /\ late \in Nat
  /\ calm \in {0, 1}

(* While the daemon runs no signal is lost: a thread of a non-empty queue  *)
(* that waits on the condition is about to be signalled, although the      *)
(* callers signal after they have released the mutex.                      *)
NoLostWakeup ==
  \A q \in Queues :
    main_loop = 1 /\ queue[q] # <<>> /\ wpc[q] = "waiting" =>
      \E t \in Threads : cpc[t] = "signal" /\ target[t].queue = q

Rank(q) == CASE q = "send" -> 1 [] q = "recv" -> 2 [] q = "bc" -> 3

(* No deadlock between the mutexes: a thread that asks for the mutex of a  *)
(* queue holds only mutexes of earlier queues, or that same one.           *)
LockOrder ==
  \A t \in Threads, q \in Queues :
    owner[q] = t =>
      /\ cpc[t] = "lock" => target[t].queue = q \/ Rank(q) < Rank(target[t].queue)
      /\ t \in Workers => wpc[t] # "lock"

(* The wait of main_gc for "sending" leaves at most one code to be sent    *)
(* after it: one whose thread had tested main_loop before it was cleared.  *)
SendingRespected ==
  mpc \notin {"run", "sending"} => late <= 1 /\ (sending = 1 => late = 1)

(* Every queue is emptied again, as long as the daemon runs.               *)
QueuesEmptied ==
  \A q \in Queues :
    queue[q] # <<>> ~> (queue[q] = <<>> \/ main_loop = 0 \/ aborted = 1)

(* main_gc stops the threads when it finds all of them waiting.            *)
CalmShutdown == calm = 1 ~> mpc = "done"

(* What the comment in eventpool_trigger says: more than 50 entries are a  *)
(* bug at the trigger side, so the daemon's own triggers never fail the    *)
(* assertion.                                                              *)
AssertionHolds == aborted = 0
============================================================================
