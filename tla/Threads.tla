------------------------------ MODULE Threads -------------------------------
(***************************************************************************)
(* The threads library (core/threads.c): threads_register queues a thread, *)
(* threads_loop starts the queued ones, thread_stop removes and joins one, *)
(* threads_gc joins all of them at shutdown.                               *)
(*                                                                         *)
(* threads_loop holds threadqueue_lock from its start on, gives it up only *)
(* inside pthread_cond_wait and returns with it locked.  thread_stop joins *)
(* with the mutex held.  threads_gc walks and frees the list without it:   *)
(* its pthread_mutex_unlock is refused, as it is not the owner.            *)
(* The callers of the library, and what the started threads do, are in     *)
(* ProtocolThreads.                                                        *)
(***************************************************************************)
EXTENDS Integers, Sequences, FiniteSets, SequencesExt

CONSTANTS
  Nodes,     \* the threads that get registered, one list node each
  Ids,       \* their names, which several of them may share
  id,        \* node->id
  Callers    \* the threads that register and stop them

Nobody == "nobody"
Loop == "loop"
NoNode == "none"

ASSUME ThreadsConstants ==
  /\ IsFiniteSet(Nodes) /\ NoNode \notin Nodes
  /\ id \in [Nodes -> Ids]
  /\ Callers \cap {Nobody, Loop} = {}

VARIABLES
  thread_loop, threads_initialized, threads_loop_running,
  threadqueue,         \* the list of nodes
  running,             \* node->running
  threadqueue_number,  \* nodes still to be started
  thread_running,      \* started threads
  owner,               \* holder of threadqueue_lock
  lpc,                 \* progress of threads_loop
  lnode,               \* the node it is starting
  pthread,             \* the thread of a node: none, live, ended, joined
  created,             \* history: how often it was created
  cpc, cnode,          \* progress of a caller, and the node it joins
  mpc, mwalk,          \* progress of threads_gc, and the nodes left to walk
  broken               \* 1 after a NULL or freed node was used

flagVars == <<thread_loop, threads_initialized, threads_loop_running>>
listVars == <<threadqueue, running, threadqueue_number, thread_running>>
loopVars == <<lpc, lnode>>
pthVars == <<pthread, created>>
callVars == <<cpc, cnode>>
gcVars == <<mpc, mwalk>>
threadsVars == <<flagVars, listVars, owner, loopVars, pthVars, callVars, gcVars, broken>>

ThreadsInit ==
  /\ thread_loop = 1 /\ threads_initialized = 0 /\ threads_loop_running = 0
  /\ threadqueue = <<>>
  /\ running = [n \in Nodes |-> 0]
  /\ threadqueue_number = 0 /\ thread_running = 0
  /\ owner = Nobody
  /\ lpc = "none" /\ lnode = NoNode
  /\ pthread = [n \in Nodes |-> "none"]
  /\ created = [n \in Nodes |-> 0]
  /\ cpc = [c \in Callers |-> "idle"] /\ cnode = [c \in Callers |-> NoNode]
  /\ mpc = "run" /\ mwalk = <<>>
  /\ broken = 0

Listed == ToSet(threadqueue)
Pending == {n \in Listed : running[n] = 0}
CallersIdle == \A c \in Callers : cpc[c] = "idle"

----------------------------------------------------------------------------
(* threads_register                                                        *)

Register(c, n) ==
  /\ mpc = "run" /\ cpc[c] = "idle"
  /\ n \notin Listed /\ pthread[n] = "none"
  /\ owner = Nobody
  /\ threadqueue' = Append(threadqueue, n)
  /\ threadqueue_number' = threadqueue_number + 1
  /\ cpc' = [cpc EXCEPT ![c] = IF threads_initialized = 1 THEN "signal" ELSE "idle"]
  /\ UNCHANGED <<flagVars, running, thread_running, owner, loopVars, pthVars,
                 cnode, gcVars, broken>>

Signalled == lpc' = IF lpc = "waiting" THEN "lock" ELSE lpc

(* pthread_cond_signal, after the unlock.                                  *)
RegisterSignal(c) ==
  /\ cpc[c] = "signal"
  /\ Signalled
  /\ cpc' = [cpc EXCEPT ![c] = "idle"]
  /\ UNCHANGED <<flagVars, listVars, owner, lnode, pthVars, cnode,
                 gcVars, broken>>

----------------------------------------------------------------------------
(* threads_start and threads_loop                                          *)

Start ==
  /\ mpc = "run" /\ threads_initialized = 0
  /\ threads_initialized' = 1
  /\ lpc' = "lock"
  /\ UNCHANGED <<thread_loop, threads_loop_running, listVars, owner, lnode,
                 pthVars, callVars, gcVars, broken>>

(* The lock at the start of threads_loop, and the one pthread_cond_wait    *)
(* takes again before it returns.                                          *)
LoopLock ==
  /\ lpc = "lock" /\ owner = Nobody
  /\ owner' = Loop
  /\ threads_loop_running' = 1
  /\ lpc' = "test"
  /\ UNCHANGED <<thread_loop, threads_initialized, listVars, lnode, pthVars,
                 callVars, gcVars, broken>>

(* Mutant: the number of threads to be started is not looked at again      *)
(* after one has been started.                                             *)
LoopTestOnce ==
  /\ lpc = "test"
  /\ lpc' = IF thread_loop = 0 THEN "done"
            ELSE IF threadqueue_number > 0 /\ lnode = NoNode THEN "item"
            ELSE "towait"
  /\ threads_loop_running' = IF thread_loop = 0 THEN 0 ELSE 1
  /\ UNCHANGED <<thread_loop, threads_initialized, listVars, owner, lnode,
                 pthVars, callVars, gcVars, broken>>

(* The head of the loop and the test of the queue.  At the end the mutex   *)
(* stays locked.                                                           *)
LoopTest ==
  /\ lpc = "test"
  /\ lpc' = IF thread_loop = 0 THEN "done"
            ELSE IF threadqueue_number > 0 THEN "item" ELSE "towait"
  /\ threads_loop_running' = IF thread_loop = 0 THEN 0 ELSE 1
  /\ UNCHANGED <<thread_loop, threads_initialized, listVars, owner, lnode,
                 pthVars, callVars, gcVars, broken>>

FirstPending(n) ==
  \E i \in DOMAIN threadqueue :
    /\ threadqueue[i] = n
    /\ running[n] = 0
    /\ \A j \in 1..(i - 1) : running[threadqueue[j]] = 1

(* threads_create of the first node that is not running.                   *)
LoopCreate ==
  /\ lpc = "item"
  /\ \E n \in Nodes :
       /\ FirstPending(n)
       /\ lnode' = n
       /\ pthread' = [pthread EXCEPT ![n] = "live"]
       /\ created' = [created EXCEPT ![n] = @ + 1]
  /\ lpc' = "mark"
  /\ UNCHANGED <<flagVars, listVars, owner, callVars, gcVars, broken>>

(* No such node: tmp_threads is NULL when threads_create gets its fields.  *)
LoopNull ==
  /\ lpc = "item" /\ Pending = {}
  /\ broken' = 1
  /\ lpc' = "crashed"
  /\ UNCHANGED <<flagVars, listVars, owner, lnode, pthVars, callVars, gcVars>>

LoopMark ==
  /\ lpc = "mark" /\ lnode \in Listed
  /\ thread_running' = thread_running + 1
  /\ running' = [running EXCEPT ![lnode] = 1]
  /\ threadqueue_number' = threadqueue_number - 1
  /\ lpc' = "test"
  /\ UNCHANGED <<flagVars, threadqueue, owner, lnode, pthVars, callVars,
                 gcVars, broken>>

(* threads_gc has freed the node in the meantime.                          *)
LoopMarkFreed ==
  /\ lpc = "mark" /\ lnode \notin Listed
  /\ thread_running' = thread_running + 1
  /\ threadqueue_number' = threadqueue_number - 1
  /\ broken' = 1
  /\ lpc' = "test"
  /\ UNCHANGED <<flagVars, threadqueue, running, owner, lnode, pthVars,
                 callVars, gcVars>>

LoopWait ==
  /\ lpc = "towait"
  /\ owner' = Nobody
  /\ lpc' = "waiting"
  /\ UNCHANGED <<flagVars, listVars, lnode, pthVars, callVars, gcVars, broken>>

(* The function of a thread returns.                                       *)
ThreadEnds(n) ==
  /\ pthread[n] = "live"
  /\ pthread' = [pthread EXCEPT ![n] = "ended"]
  /\ UNCHANGED <<flagVars, listVars, owner, loopVars, created, callVars,
                 gcVars, broken>>

----------------------------------------------------------------------------
(* thread_stop                                                             *)

FirstWithId(name, i) ==
  /\ id[threadqueue[i]] = name
  /\ \A j \in 1..(i - 1) : id[threadqueue[j]] /= name

(* Mutant: the thread is not joined.                                       *)
StopUnlinkOnly(c, name) ==
  /\ cpc[c] = "stop" /\ owner = Nobody
  /\ \E i \in DOMAIN threadqueue :
       /\ FirstWithId(name, i)
       /\ threadqueue' = RemoveAt(threadqueue, i)
       /\ thread_running' = thread_running - running[threadqueue[i]]
  /\ cpc' = [cpc EXCEPT ![c] = "devices"]
  /\ UNCHANGED <<flagVars, running, threadqueue_number, owner, loopVars,
                 pthVars, cnode, gcVars>>

(* The first node of that name is unlinked; a running thread is joined     *)
(* with the mutex held.  threadqueue_number is not looked at.  Each device *)
(* has registered one, so there is one of its name to be found.            *)
Stop(c, name) ==
  /\ cpc[c] = "stop" /\ owner = Nobody
  /\ \E i \in DOMAIN threadqueue :
       LET n == threadqueue[i] IN
       /\ FirstWithId(name, i)
       /\ threadqueue' = RemoveAt(threadqueue, i)
       /\ thread_running' = thread_running - running[n]
       /\ owner' = IF running[n] = 1 THEN c ELSE Nobody
       /\ cpc' = [cpc EXCEPT ![c] = IF running[n] = 1 THEN "join" ELSE "devices"]
       /\ cnode' = [cnode EXCEPT ![c] = n]
  /\ UNCHANGED <<flagVars, running, threadqueue_number, loopVars, pthVars,
                 gcVars>>

StopJoin(c) ==
  /\ cpc[c] = "join" /\ pthread[cnode[c]] = "ended"
  /\ pthread' = [pthread EXCEPT ![cnode[c]] = "joined"]
  /\ owner' = Nobody
  /\ cpc' = [cpc EXCEPT ![c] = "devices"]
  /\ UNCHANGED <<flagVars, listVars, loopVars, created, cnode, gcVars, broken>>

----------------------------------------------------------------------------
(* threads_gc                                                              *)

GcBegin ==
  /\ mpc = "config" /\ CallersIdle
  /\ thread_loop' = 0
  /\ mpc' = "signal"
  /\ UNCHANGED <<threads_initialized, threads_loop_running, listVars, owner,
                 loopVars, pthVars, callVars, mwalk, broken>>

GcSignal ==
  /\ mpc = "signal"
  /\ Signalled
  /\ mwalk' = threadqueue
  /\ mpc' = "walk"
  /\ UNCHANGED <<flagVars, listVars, owner, lnode, pthVars, callVars, broken>>

GcWalk ==
  /\ mpc = "walk" /\ mwalk /= <<>>
  /\ running' = [running EXCEPT ![Head(mwalk)] = 0]
  /\ thread_running' = thread_running - running[Head(mwalk)]
  /\ mpc' = IF running[Head(mwalk)] = 1 THEN "join" ELSE "walk"
  /\ mwalk' = IF running[Head(mwalk)] = 1 THEN mwalk ELSE Tail(mwalk)
  /\ UNCHANGED <<flagVars, threadqueue, threadqueue_number, owner, loopVars,
                 pthVars, callVars, broken>>

GcJoin ==
  /\ mpc = "join" /\ pthread[Head(mwalk)] = "ended"
  /\ pthread' = [pthread EXCEPT ![Head(mwalk)] = "joined"]
  /\ mwalk' = Tail(mwalk)
  /\ mpc' = "walk"
  /\ UNCHANGED <<flagVars, listVars, owner, loopVars, created, callVars, broken>>

GcFree ==
  /\ mpc = "walk" /\ mwalk = <<>>
  /\ threadqueue' = <<>>
  /\ mpc' = "spin"
  /\ UNCHANGED <<flagVars, running, threadqueue_number, thread_running, owner,
                 loopVars, pthVars, callVars, mwalk, broken>>

GcSpin ==
  /\ mpc = "spin" /\ threads_loop_running = 0
  /\ mpc' = "joinloop"
  /\ UNCHANGED <<flagVars, listVars, owner, loopVars, pthVars, callVars, mwalk, broken>>

GcJoinLoop ==
  /\ mpc = "joinloop"
  /\ threads_initialized = 0 \/ lpc = "done"
  /\ mpc' = "done"
  /\ UNCHANGED <<flagVars, listVars, owner, loopVars, pthVars, callVars, mwalk, broken>>

----------------------------------------------------------------------------
LoopStep ==
  \/ LoopLock \/ LoopTest \/ LoopCreate \/ LoopNull \/ LoopMark
  \/ LoopMarkFreed \/ LoopWait

GcStep ==
  \/ GcSignal \/ GcWalk \/ GcJoin \/ GcFree \/ GcSpin \/ GcJoinLoop

----------------------------------------------------------------------------
(* What thread_stop and threads_gc rely on, whatever was stopped before:   *)
(* the function of a registered node is started exactly once, so that a    *)
(* node that runs was created once and one that does not was not; a thread *)
(* that was started and not joined is in the list or being joined; and     *)
(* threadqueue_number never falls short of the listed nodes still to be    *)
(* started, with thread_running the number of those that run.              *)
ThreadsTracked ==
  thread_loop = 1 =>
    /\ \A n \in Listed :
         created[n] = IF running[n] = 1 \/ (lpc = "mark" /\ lnode = n) THEN 1 ELSE 0
    /\ \A n \in Nodes : pthread[n] \in {"live", "ended"} =>
         n \in Listed \/ \E c \in Callers : cpc[c] = "join" /\ cnode[c] = n
    /\ Cardinality(Pending) <= threadqueue_number
    /\ thread_running = Cardinality(Listed \ Pending)
=============================================================================
