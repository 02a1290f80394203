---------------------------- MODULE EventsQueue -----------------------------
(***************************************************************************)
(* The queue of the events library (events/events.c).  events_clientize    *)
(* hands broadcasts of the daemon to events_queue; events_loop evaluates   *)
(* the rules for each; events_gc ends both and then frees the operators,   *)
(* actions and functions the rules are evaluated with.  EventsClient       *)
(* composes the actions with the way of the broadcasts to events_queue.    *)
(*                                                                         *)
(* The mutex is created by events_loop, so a message that arrives earlier  *)
(* is queued without it.  events_loop keeps the mutex from message to      *)
(* message, gives it up only inside pthread_cond_wait, and returns with it *)
(* locked.                                                                 *)
(***************************************************************************)
EXTENDS Integers, Sequences

CONSTANTS
  Limit  \* 1024 in "eventsqueue_number < 1024"

ASSUME EventsQueueConstants == Limit \in Nat \ {0}

VARIABLES
  loop, eventslock_init, running,
  eventsqueue,         \* the messages in the list, by number
  eventsqueue_number,
  owner,               \* holder of events_lock: "loop", "client" or "nobody"
  lpc,                 \* progress of events_loop
  cpc,                 \* progress of events_clientize in events_queue
  empty,               \* its test of eventsqueue_number = 0
  mpc,                 \* progress of events_gc
  received,            \* the message events_queue was called with
  accepted, handled,   \* history: messages queued, and evaluated
  refused,             \* history: messages that found the queue full
  raced,               \* history: 1 if events_loop began during an events_queue
                       \* that had found no mutex
  calm                 \* history: 1 if events_gc found events_loop waiting,
                       \* 2 if no message was on its way either

flagVars == <<loop, eventslock_init>>
listVars == <<eventsqueue, eventsqueue_number>>
clientVars == <<cpc, empty, received, accepted, refused>>
loopVars == <<lpc, running, handled>>
gcVars == <<mpc, calm>>
eventsVars == <<flagVars, listVars, owner, clientVars, loopVars, gcVars, raced>>

EventsInit ==
  /\ loop = 1 /\ eventslock_init = 0 /\ running = 0
  /\ eventsqueue = <<>> /\ eventsqueue_number = 0
  /\ owner = "nobody"
  /\ lpc = "none" /\ cpc = "read" /\ empty = 0 /\ mpc = "run"
  /\ received = 0 /\ accepted = <<>> /\ handled = <<>> /\ refused = {}
  /\ raced = 0 /\ calm = 0

----------------------------------------------------------------------------
(* events_clientize and events_queue                                       *)

(* events_queue is called with message m and looks for the mutex.          *)
QueueBegin(m) ==
  /\ cpc = "read"
  /\ received' = m
  /\ cpc' = IF eventslock_init = 1 THEN "lock" ELSE "test"
  /\ UNCHANGED <<flagVars, listVars, owner, empty, accepted, refused, loopVars, gcVars, raced>>

QueueLock ==
  /\ cpc = "lock" /\ owner = "nobody"
  /\ owner' = "client"
  /\ cpc' = "test"
  /\ UNCHANGED <<flagVars, listVars, empty, received, accepted, refused, loopVars, gcVars, raced>>

QueueTest ==
  /\ cpc = "test"
  /\ cpc' = IF eventsqueue_number < Limit THEN "link" ELSE "unlock"
  /\ empty' = IF eventsqueue_number = 0 THEN 1 ELSE 0
  /\ refused' = IF eventsqueue_number < Limit THEN refused
                ELSE refused \cup {received}
  /\ UNCHANGED <<flagVars, listVars, owner, received, accepted, loopVars, gcVars, raced>>

(* An empty queue becomes this message, whatever eventsqueue pointed to;   *)
(* else it is linked behind eventsqueue_head, and lost when that node has  *)
(* been freed since the test.                                              *)
QueueLink ==
  /\ cpc = "link"
  /\ eventsqueue' = IF empty = 1 THEN <<received>>
                    ELSE IF eventsqueue = <<>> THEN <<>>
                    ELSE Append(eventsqueue, received)
  /\ eventsqueue_number' = eventsqueue_number + 1
  /\ accepted' = Append(accepted, received)
  /\ cpc' = "unlock"
  /\ UNCHANGED <<flagVars, owner, empty, received, refused, loopVars, gcVars, raced>>

(* The mutex is unlocked when it exists by now; a thread that does not own *)
(* it leaves it as it is.                                                  *)
QueueUnlock ==
  /\ cpc = "unlock"
  /\ owner' = IF owner = "client" THEN "nobody" ELSE owner
  /\ cpc' = IF eventslock_init = 1 THEN "signal" ELSE "read"
  /\ UNCHANGED <<flagVars, listVars, empty, received, accepted, refused, loopVars, gcVars, raced>>

Signalled == lpc' = IF lpc = "waiting" THEN "lock" ELSE lpc

(* Mutant: the condition is not signalled.                                 *)
QueueSignalNone ==
  /\ cpc = "signal"
  /\ cpc' = "read"
  /\ UNCHANGED <<flagVars, listVars, owner, empty, received, accepted, refused,
                 loopVars, gcVars, raced>>

QueueSignal ==
  /\ cpc = "signal"
  /\ Signalled
  /\ cpc' = "read"
  /\ UNCHANGED <<flagVars, listVars, owner, empty, received, accepted, refused,
                 running, handled, gcVars, raced>>

----------------------------------------------------------------------------
(* events_loop                                                             *)

(* The thread starts and creates the mutex.                                *)
LoopStart ==
  /\ lpc = "none"
  /\ eventslock_init' = 1
  /\ raced' = IF cpc \in {"test", "link"} THEN 1 ELSE raced
  /\ lpc' = "lock"
  /\ UNCHANGED <<loop, listVars, owner, clientVars, running, handled, gcVars>>

(* The first lock, and the one pthread_cond_wait takes before it returns.  *)
LoopLock ==
  /\ lpc = "lock" /\ owner = "nobody"
  /\ owner' = "loop"
  /\ lpc' = "test"
  /\ UNCHANGED <<flagVars, listVars, clientVars, running, handled, gcVars, raced>>

(* Mutant: loop is tested only when the queue is empty.                    *)
LoopTestQueueFirst ==
  /\ lpc = "test"
  /\ lpc' = IF eventsqueue_number > 0 THEN "item"
            ELSE IF loop = 0 THEN "done" ELSE "towait"
  /\ UNCHANGED <<flagVars, listVars, owner, clientVars, running, handled, gcVars, raced>>

(* The head of the loop and the test of the queue; running stays as it is. *)
LoopTest ==
  /\ lpc = "test"
  /\ lpc' = IF loop = 0 THEN "done"
            ELSE IF eventsqueue_number > 0 THEN "item" ELSE "towait"
  /\ UNCHANGED <<flagVars, listVars, owner, clientVars, running, handled, gcVars, raced>>

LoopRunning ==
  /\ lpc = "item"
  /\ running' = 1
  /\ lpc' = "rules"
  /\ UNCHANGED <<flagVars, listVars, owner, clientVars, handled, gcVars, raced>>

(* The rules are evaluated for the first message, which is then freed.     *)
LoopRules ==
  /\ lpc = "rules" /\ eventsqueue /= <<>>
  /\ handled' = Append(handled, Head(eventsqueue))
  /\ eventsqueue' = Tail(eventsqueue)
  /\ eventsqueue_number' = eventsqueue_number - 1
  /\ lpc' = "test"
  /\ UNCHANGED <<flagVars, owner, clientVars, running, gcVars, raced>>

(* Mutant: running is left set.                                            *)
LoopIdleBusy ==
  /\ lpc = "towait"
  /\ lpc' = "wait"
  /\ UNCHANGED <<flagVars, listVars, owner, clientVars, running, handled, gcVars, raced>>

LoopIdle ==
  /\ lpc = "towait"
  /\ running' = 0
  /\ lpc' = "wait"
  /\ UNCHANGED <<flagVars, listVars, owner, clientVars, handled, gcVars, raced>>

LoopWait ==
  /\ lpc = "wait"
  /\ owner' = "nobody"
  /\ lpc' = "waiting"
  /\ UNCHANGED <<flagVars, listVars, clientVars, running, handled, gcVars, raced>>

----------------------------------------------------------------------------
(* events_gc                                                               *)

(* quiet: no message is on its way to the queue.                           *)
GcBegin(quiet) ==
  /\ mpc = "run"
  /\ loop' = 0
  /\ calm' = IF lpc = "waiting" /\ cpc = "read" /\ eventsqueue_number = 0
             THEN (IF quiet THEN 2 ELSE 1) ELSE 0
  /\ mpc' = "signal"
  /\ UNCHANGED <<eventslock_init, listVars, owner, clientVars, loopVars, raced>>

(* The unlock is refused, as main does not own the mutex.                  *)
GcSignal ==
  /\ mpc = "signal"
  /\ IF eventslock_init = 1 THEN Signalled ELSE UNCHANGED lpc
  /\ mpc' = "wait"
  /\ UNCHANGED <<flagVars, listVars, owner, clientVars, running, handled, calm, raced>>

(* The wait until running is 0; then operators, actions and functions are  *)
(* freed.                                                                  *)
GcFree ==
  /\ mpc = "wait" /\ running = 0
  /\ mpc' = "freed"
  /\ UNCHANGED <<flagVars, listVars, owner, clientVars, loopVars, calm, raced>>

----------------------------------------------------------------------------
QueueStep ==
  QueueLock \/ QueueTest \/ QueueLink \/ QueueUnlock \/ QueueSignal
LoopStep ==
  \/ LoopStart \/ LoopLock \/ LoopTest \/ LoopRunning \/ LoopRules
  \/ LoopIdle \/ LoopWait
GcStep == GcSignal \/ GcFree

----------------------------------------------------------------------------
(* The rules see the queued messages once and in order, eventsqueue_number *)
(* counts the list, and events_loop finds a message where it expects one.  *)
QueueInOrder ==
  /\ accepted = handled \o eventsqueue
  /\ Len(eventsqueue) = eventsqueue_number
  /\ lpc \in {"item", "rules"} => eventsqueue /= <<>>

(* When events_gc found events_loop waiting, no rule is evaluated after    *)
(* the operators, actions and functions have been freed.                   *)
CalmGcSafe == calm > 0 => lpc \notin {"item", "rules"}
=============================================================================
