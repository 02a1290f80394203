--------------------------- MODULE ProtocolThreads --------------------------
(***************************************************************************)
(* The threads of a protocol that polls (protocols/protocol.c, with        *)
(* network/ping.c as the protocol) on top of the threads library, and the  *)
(* callers of both: main reads the devices before threads_start, registers *)
(* the threads of the daemon and in main_gc runs devices_gc, protocol_gc   *)
(* and threads_gc; clientize drops the devices and reads those of the      *)
(* master while threads run.                                               *)
(*                                                                         *)
(* devices_gc calls threadGC for each device: it clears loop, signals the  *)
(* threads without their mutex, waits until threads is 0 and frees what    *)
(* the threads wait on.  threads is a plain unsigned short that every      *)
(* thread increments and decrements: a load and a store.                   *)
(*                                                                         *)
(* A device whose state has changed is broadcast: broadcast_queue tests    *)
(* main_loop and then locks bcqueue_lock, which the thread of the daemon   *)
(* that serves the queue keeps for ever when it returns.                   *)
(***************************************************************************)
EXTENDS Threads

CONSTANTS
  Main,      \* the caller that is the main thread; the others are clientize
  Polling,   \* the nodes of Nodes that belong to devices of the protocol
  Broadcaster,   \* the node of the thread that runs broadcast()
  Reloads    \* bound: how often clientize gets a configuration

ASSUME ProtocolThreadsConstants ==
  /\ Main \in Callers
  /\ Polling \subseteq Nodes /\ Broadcaster \in Nodes \ Polling
  /\ Reloads \in Nat

VARIABLES
  main_loop,      \* of the daemon
  loop, threads,  \* of the protocol
  nodes,          \* proto->threads
  devices,        \* the thread of each device, in the order of the devices
  ppc, reg,       \* progress of a polling thread, and its copy of threads
  reloads,        \* configurations clientize has got
  calm,           \* history: each devices_gc found all threads under way,
                  \* and main_gc none about to lock bcqueue_lock
  raced           \* history: two threads changed threads at the same time

pollVars ==
  <<main_loop, loop, threads, nodes, devices, ppc, reg, reloads, calm, raced>>
vars == <<threadsVars, pollVars>>

Init ==
  /\ ThreadsInit
  /\ main_loop = 1 /\ loop = 1 /\ threads = 0
  /\ nodes = {} /\ devices = <<>>
  /\ ppc = [n \in Polling |-> "start"] /\ reg = [n \in Polling |-> 0]
  /\ reloads = 0
  /\ calm = 1 /\ raced = 0

(* A caller is inside devices_gc.                                          *)
Collecting == \E c \in Callers : cpc[c] \notin {"idle", "signal"}

----------------------------------------------------------------------------
(* The memory of a new node: which one is all the same.                    *)
Fresh(n) ==
  LET unused == {m \in Polling \ Listed : pthread[m] = "none"}
  IN  n \in unused /\ n = CHOOSE m \in unused : TRUE

(* initDev with protocol_thread_init and threads_register: main before it  *)
(* calls threads_start, clientize after it has dropped the devices.        *)
initDev(c, n) ==
  /\ ~ Collecting
  /\ IF c = Main THEN threads_initialized = 0 /\ main_loop = 1 ELSE reloads > 0
  /\ Fresh(n) /\ Register(c, n)
  /\ loop' = 1
  /\ nodes' = nodes \cup {n}
  /\ devices' = Append(devices, n)
  /\ UNCHANGED <<main_loop, threads, ppc, reg, reloads, calm, raced>>

(* The threads of the daemon.                                              *)
RegisterDaemon(n) ==
  /\ n \notin Polling /\ threads_initialized = 1 /\ main_loop = 1
  /\ Register(Main, n)
  /\ UNCHANGED pollVars

----------------------------------------------------------------------------
(* The function of a polling thread                                        *)

At(n, where) == n \in Polling /\ pthread[n] = "live" /\ ppc[n] = where
Goes(n, where) == ppc' = [ppc EXCEPT ![n] = where]

(* The thread uses its struct protocol_threads_t.                          *)
Uses(n) == broken' = IF n \in nodes THEN broken ELSE 1

threadOnly == <<flagVars, listVars, owner, loopVars, pthVars, callVars, gcVars>>
pollOnly ==
  <<threadOnly, main_loop, loop, threads, nodes, devices, reg, reloads, calm, raced>>

(* The load of threads++ or threads--.                                     *)
Load(n) ==
  /\ reg' = [reg EXCEPT ![n] = threads]
  /\ raced' = IF \E m \in Polling \ {n} : At(m, "count") \/ At(m, "uncount")
              THEN 1 ELSE raced

PollStart(n) ==
  /\ At(n, "start")
  /\ Uses(n) /\ Load(n)
  /\ Goes(n, "count")
  /\ UNCHANGED <<threadOnly, main_loop, loop, threads, nodes, devices, reloads,
                 calm>>

PollCount(n) ==
  /\ At(n, "count")
  /\ Uses(n)
  /\ threads' = (reg[n] + 1) % 65536
  /\ Goes(n, "test")
  /\ UNCHANGED <<threadOnly, main_loop, loop, nodes, devices, reg, reloads, calm,
                 raced>>

PollTest(n) ==
  /\ At(n, "test") /\ loop = 1
  /\ Goes(n, "enter")
  /\ UNCHANGED <<pollOnly, broken>>

(* protocol_thread_wait: the wait gives up the mutex of the node.          *)
PollWait(n) ==
  /\ At(n, "enter")
  /\ Uses(n)
  /\ Goes(n, "wait")
  /\ UNCHANGED pollOnly

(* Mutant: the wait has no end of its own.                                 *)
PollTimeoutNever(n) == FALSE /\ UNCHANGED vars

(* The interval is over: pthread_cond_timedwait returns ETIMEDOUT.         *)
PollTimeout(n) ==
  /\ At(n, "wait")
  /\ Uses(n)
  /\ Goes(n, "poll")
  /\ UNCHANGED pollOnly

(* Under the mutex of the protocol the device is polled; if its state has  *)
(* changed, broadcast_queue returns at once or goes for bcqueue_lock.      *)
PollDevice(n) ==
  /\ At(n, "poll") /\ \A m \in Polling : ~ At(m, "broadcast")
  /\ Uses(n)
  /\ Goes(n, "test") \/ (main_loop = 1 /\ Goes(n, "broadcast"))
  /\ UNCHANGED pollOnly

(* The mutex that broadcast() returns with is never unlocked: main_gc is   *)
(* not its owner.                                                          *)
PollBroadcast(n) ==
  /\ At(n, "broadcast") /\ pthread[Broadcaster] \notin {"ended", "joined"}
  /\ Goes(n, "test")
  /\ UNCHANGED <<pollOnly, broken>>

(* The wait was signalled: nothing is polled.                              *)
PollWoken(n) ==
  /\ At(n, "woken")
  /\ Uses(n)
  /\ Goes(n, "test")
  /\ UNCHANGED pollOnly

(* The end of the loop: the mutex is not the thread's to unlock.           *)
PollLeave(n) ==
  /\ At(n, "test") /\ loop = 0
  /\ Load(n)
  /\ Goes(n, "uncount")
  /\ UNCHANGED <<threadOnly, broken, main_loop, loop, threads, nodes, devices,
                 reloads, calm>>

PollEnd(n) ==
  /\ At(n, "uncount")
  /\ threads' = (reg[n] + 65535) % 65536
  /\ ThreadEnds(n)
  /\ UNCHANGED <<main_loop, loop, nodes, devices, ppc, reg, reloads, calm, raced>>

PollStep(n) ==
  \/ PollStart(n) \/ PollCount(n) \/ PollTest(n) \/ PollWait(n)
  \/ PollTimeout(n) \/ PollDevice(n) \/ PollBroadcast(n) \/ PollWoken(n)
  \/ PollLeave(n) \/ PollEnd(n)

----------------------------------------------------------------------------
(* devices_gc                                                              *)

(* The beginning of main_gc.                                               *)
MainGc ==
  /\ mpc = "run" /\ main_loop = 1 /\ cpc[Main] = "idle"
  /\ main_loop' = 0
  /\ calm' = IF \E n \in Polling : At(n, "broadcast") THEN 0 ELSE calm
  /\ UNCHANGED <<threadsVars, loop, threads, nodes, devices, ppc, reg, reloads,
                 raced>>

(* threads_loop is at rest, and every thread of the protocol has counted   *)
(* itself and is not about to end.                                         *)
UnderWay ==
  \/ threads_initialized = 0
  \/ /\ lpc = "waiting" /\ threadqueue_number = 0
     /\ \A n \in nodes :
          \E p \in {"test", "enter", "wait", "poll", "broadcast"} : At(n, p)

(* clientize has got a configuration, or main_gc has waited for clientize  *)
(* and come to config_gc.                                                  *)
DevicesGc(c) ==
  /\ mpc = "run" /\ cpc[c] = "idle"
  /\ \/ /\ c = Main /\ main_loop = 0 /\ CallersIdle
        /\ mpc' = "config"
        /\ UNCHANGED reloads
     \/ /\ c /= Main /\ threads_initialized = 1 /\ reloads < Reloads
        /\ reloads' = reloads + 1
        /\ UNCHANGED mpc
  /\ calm' = IF UnderWay THEN calm ELSE 0
  /\ cpc' = [cpc EXCEPT ![c] = "devices"]
  /\ UNCHANGED <<flagVars, listVars, owner, loopVars, pthVars, cnode, mwalk, broken,
                 main_loop, loop, threads, nodes, devices, ppc, reg, raced>>

gcOnly == <<flagVars, listVars, owner, loopVars, pthVars, cnode, gcVars, broken,
            main_loop, threads, reg, reloads, calm, raced>>

(* threadGC of the next device: loop = 0 and protocol_thread_stop.  A      *)
(* thread that is not in its wait misses the signal.                       *)
ThreadGcStop(c) ==
  /\ cpc[c] = "devices" /\ devices /= <<>>
  /\ loop' = 0
  /\ ppc' = [n \in Polling |-> IF n \in nodes /\ At(n, "wait") THEN "woken" ELSE ppc[n]]
  /\ cpc' = [cpc EXCEPT ![c] = "spin"]
  /\ UNCHANGED <<gcOnly, nodes, devices>>

(* Mutant: the threads are not waited for.                                 *)
ThreadGcSpinNot(c) ==
  /\ cpc[c] = "spin"
  /\ cpc' = [cpc EXCEPT ![c] = "free"]
  /\ UNCHANGED <<gcOnly, loop, nodes, devices, ppc>>

ThreadGcSpin(c) ==
  /\ cpc[c] = "spin" /\ threads = 0
  /\ cpc' = [cpc EXCEPT ![c] = "free"]
  /\ UNCHANGED <<gcOnly, loop, nodes, devices, ppc>>

(* protocol_thread_free                                                    *)
ThreadGcFree(c) ==
  /\ cpc[c] = "free"
  /\ nodes' = {}
  /\ cpc' = [cpc EXCEPT ![c] = "stop"]
  /\ UNCHANGED <<gcOnly, loop, devices, ppc>>

(* thread_stop of the name found in the device's node of the list.         *)
StopDevice(c) ==
  /\ cpc[c] = "stop"
  /\ Stop(c, id[Head(devices)])
  /\ broken' = IF Head(devices) \in Listed THEN broken ELSE 1
  /\ devices' = Tail(devices)
  /\ UNCHANGED <<main_loop, loop, threads, nodes, ppc, reg, reloads, calm, raced>>

DevicesGcEnd(c) ==
  /\ cpc[c] = "devices" /\ devices = <<>>
  /\ cpc' = [cpc EXCEPT ![c] = "idle"]
  /\ UNCHANGED <<gcOnly, loop, nodes, devices, ppc>>

CallerStep(c) ==
  \/ RegisterSignal(c) /\ UNCHANGED pollVars
  \/ ThreadGcStop(c) \/ ThreadGcSpin(c) \/ ThreadGcFree(c) \/ StopDevice(c)
  \/ StopJoin(c) /\ UNCHANGED pollVars
  \/ DevicesGcEnd(c)

(* threadGC once more, from protocol_gc, on the way to threads_gc.         *)
ProtocolGc ==
  /\ threads = 0
  /\ GcBegin
  /\ loop' = 0
  /\ UNCHANGED <<main_loop, threads, nodes, devices, ppc, reg, reloads, calm,
                 raced>>

MainStep ==
  ProtocolGc \/ (((main_loop = 1 /\ Start) \/ GcStep) /\ UNCHANGED pollVars)

(* A thread of the daemon has seen that main_loop is 0.                    *)
DaemonThreadEnds(n) == main_loop = 0 /\ ThreadEnds(n) /\ UNCHANGED pollVars

----------------------------------------------------------------------------
(* After a freed node was used, nothing is known of what follows.          *)
Next ==
  /\ broken = 0
  /\ \/ LoopStep /\ UNCHANGED pollVars
     \/ MainGc \/ MainStep
     \/ \E n \in Nodes : RegisterDaemon(n)
     \/ \E c \in Callers, n \in Polling : initDev(c, n)
     \/ \E c \in Callers : DevicesGc(c) \/ CallerStep(c)
     \/ \E n \in Polling : PollStep(n)
     \/ \E n \in Nodes \ Polling : DaemonThreadEnds(n)

Spec == Init /\ [][Next]_vars

(* Every thread of the process is scheduled, a timed wait ends, main_gc    *)
(* goes on once it has begun, and the threads of the daemon then return.   *)
Fairness ==
  /\ WF_vars(broken = 0 /\ LoopStep /\ UNCHANGED pollVars)
  /\ WF_vars(broken = 0 /\ MainStep) /\ WF_vars(broken = 0 /\ DevicesGc(Main))
  /\ \A c \in Callers : WF_vars(broken = 0 /\ CallerStep(c))
  /\ \A n \in Polling : WF_vars(broken = 0 /\ PollStep(n))
  /\ \A n \in Nodes \ Polling : WF_vars(broken = 0 /\ DaemonThreadEnds(n))

FairSpec == Spec /\ Fairness

----------------------------------------------------------------------------
(* A shutdown, and every reload before it, that found the threads under    *)
(* way and in which no two of them changed threads at the same time leaves *)
(* no thread behind: nobody uses a node of either list after it was freed, *)
(* and all threads are joined.                                             *)
CalmGcJoinsAll ==
  calm = 1 /\ raced = 0 =>
    /\ broken = 0
    /\ mpc = "done" => \A n \in Nodes : pthread[n] \in {"none", "joined"}

(* Every registered thread is started, unless it is stopped, the library   *)
(* ends first or freed memory was used.                                    *)
EveryThreadStarts ==
  \A n \in Nodes :
    (n \in Pending) ~> (running[n] = 1 \/ n \notin Listed \/ thread_loop = 0 \/ broken = 1)

(* Such a shutdown ends, although the threads are signalled without their  *)
(* mutexes and may be about to wait, unless it began while a polling       *)
(* thread was between the test of main_loop and bcqueue_lock, which        *)
(* broadcast() may keep for ever (calm); this includes that main_gc waits  *)
(* for a clientize that is dropping the devices.                           *)
CalmGcEnds ==
  main_loop = 0 ~> (mpc = "done" \/ calm = 0 \/ raced = 1)
=============================================================================
