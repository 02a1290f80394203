------------------------------ MODULE LogQueue ------------------------------
(***************************************************************************)
(* The log library (core/log.c): logprintf queues a line, the thread       *)
(* logloop writes the lines to the log file, log_gc stops it.              *)
(*                                                                         *)
(* Before daemonize() the main thread only queues; logloop is started      *)
(* after the fork.  logloop holds the recursive mutex from its first line  *)
(* on, gives it up only inside pthread_cond_wait, and returns without      *)
(* unlocking it.  log_gc runs last in main_gc: with no active log thread   *)
(* it flushes the queue itself, without the mutex, otherwise it waits for  *)
(* the thread.  The tools (pilight-send, ...) use the library without the  *)
(* thread and without log_file_enable.                                     *)
(***************************************************************************)
EXTENDS Integers, Sequences

CONSTANTS
  Writers,   \* threads that log, besides the main thread
  Lines,     \* how many lines are logged
  Limit,     \* 1024 in "logqueue_number < 1024"
  GcCalls    \* how often log_gc runs: 0 or 1

Main == "main"
LogThread == "log"
Nobody == "nobody"
Threads == Writers \cup {Main}

ASSUME LogQueueConstants ==
  /\ Writers \cap {Main, LogThread, Nobody} = {}
  /\ Lines \in Nat /\ Limit \in Nat \ {0}
  /\ GcCalls \in {0, 1}

VARIABLES
  stop, loop,                       \* the flags log_gc sets
  pthinitialized, pthactive, pthfree,
  filelog, logfile,                 \* logfile: 1 when it is not NULL
  logqueue,                         \* the lines reachable from logqueue
  logqueue_number,
  owner,                            \* holder of logqueue_lock
  lpc,                              \* progress of logloop
  cpc,                              \* progress of a thread in logprintf
  mpc,                              \* progress of the main thread
  lines,                            \* bound: calls of logprintf so far
  queued,                           \* history: lines queued, their numbers
  accepted,                         \* history: those queued before log_gc
  out,                              \* history: the lines taken off the queue
  calm                              \* history: 1 if log_gc found everybody idle

flagVars == <<stop, loop>>
pthVars == <<pthinitialized, pthactive, pthfree>>
fileVars == <<filelog, logfile>>
queueVars == <<logqueue, logqueue_number>>
histVars == <<lines, queued, accepted, out, calm>>
vars == <<flagVars, pthVars, fileVars, queueVars, owner, lpc, cpc, mpc, histVars>>

Init ==
  /\ stop = 0 /\ loop = 1
  /\ pthinitialized = 0 /\ pthactive = 0 /\ pthfree = 0
  /\ filelog = 1 /\ logfile = 0
  /\ logqueue = <<>> /\ logqueue_number = 0
  /\ owner = Nobody
  /\ lpc = "none"
  /\ cpc = [t \in Threads |-> "idle"]
  /\ mpc = "start"
  /\ lines = 0 /\ queued = 0 /\ accepted = 0
  /\ out = <<>>
  /\ calm = 0

----------------------------------------------------------------------------
(* logprintf of a line that is to be queued.  The threads that log besides *)
(* main are started after logloop.                                         *)

MayLog(t) ==
  /\ cpc[t] = "idle"
  /\ IF t = Main THEN mpc \in {"start", "enabled", "set", "run"} ELSE lpc # "none"

LogCheck(t) ==
  /\ MayLog(t)
  /\ lines < Lines
  /\ lines' = lines + 1
  /\ cpc' = [cpc EXCEPT ![t] = IF stop = 0 THEN "append" ELSE "idle"]
  /\ UNCHANGED <<flagVars, pthVars, fileVars, queueVars, owner, lpc, mpc,
                 queued, accepted, out, calm>>

MayLock == pthinitialized = 1 => owner = Nobody

(* Mutant: a queue of one line is taken for an empty one.                  *)
AppendedOffByOne(l) ==
  /\ logqueue' = IF logqueue_number <= 1 THEN <<l>>
                 ELSE IF logqueue = <<>> THEN <<>> ELSE Append(logqueue, l)
  /\ logqueue_number' = logqueue_number + 1

(* The new node goes behind logqueue_head.  If log_gc, which flushes       *)
(* without the mutex, has taken the last node off and not yet counted it,  *)
(* logqueue_head is that freed node and the line is lost.                  *)
Appended(l) ==
  /\ logqueue' = IF logqueue_number = 0 THEN <<l>>
                 ELSE IF logqueue = <<>> THEN <<>> ELSE Append(logqueue, l)
  /\ logqueue_number' = logqueue_number + 1

(* Mutant: one line too many fits in the queue.                            *)
LogAppendFull(t) ==
  /\ cpc[t] = "append"
  /\ MayLock
  /\ IF logqueue_number <= Limit
     THEN /\ Appended(queued + 1)
          /\ queued' = queued + 1
          /\ accepted' = IF stop = 0 THEN accepted + 1 ELSE accepted
     ELSE UNCHANGED <<queueVars, queued, accepted>>
  /\ cpc' = [cpc EXCEPT ![t] = IF pthinitialized = 1 THEN "signal" ELSE "idle"]
  /\ UNCHANGED <<flagVars, pthVars, fileVars, owner, lpc, mpc, lines, out, calm>>

(* Mutant: the condition is not signalled.                                 *)
LogAppendSilent(t) ==
  /\ cpc[t] = "append"
  /\ MayLock
  /\ IF logqueue_number < Limit
     THEN /\ Appended(queued + 1)
          /\ queued' = queued + 1
          /\ accepted' = IF stop = 0 THEN accepted + 1 ELSE accepted
     ELSE UNCHANGED <<queueVars, queued, accepted>>
  /\ cpc' = [cpc EXCEPT ![t] = "idle"]
  /\ UNCHANGED <<flagVars, pthVars, fileVars, owner, lpc, mpc, lines, out, calm>>

(* The critical section, without a mutex until log_file_enable.            *)
LogAppend(t) ==
  /\ cpc[t] = "append"
  /\ MayLock
  /\ IF logqueue_number < Limit
     THEN /\ Appended(queued + 1)
          /\ queued' = queued + 1
          /\ accepted' = IF stop = 0 THEN accepted + 1 ELSE accepted
     ELSE UNCHANGED <<queueVars, queued, accepted>>
  /\ cpc' = [cpc EXCEPT ![t] = IF pthinitialized = 1 THEN "signal" ELSE "idle"]
  /\ UNCHANGED <<flagVars, pthVars, fileVars, owner, lpc, mpc, lines, out, calm>>

(* pthread_cond_signal, after the unlock.                                  *)
Signalled == lpc' = IF lpc = "waiting" THEN "lock" ELSE lpc

LogSignal(t) ==
  /\ cpc[t] = "signal"
  /\ Signalled
  /\ cpc' = [cpc EXCEPT ![t] = "idle"]
  /\ UNCHANGED <<flagVars, pthVars, fileVars, queueVars, owner, mpc, histVars>>

----------------------------------------------------------------------------
(* logloop                                                                 *)

LoopStart ==
  /\ lpc = "created"
  /\ pthactive' = 1 /\ pthfree' = 1
  /\ lpc' = "lock"
  /\ UNCHANGED <<flagVars, pthinitialized, fileVars, queueVars, owner, cpc, mpc,
                 histVars>>

LoopLock ==
  /\ lpc = "lock"
  /\ owner = Nobody
  /\ owner' = LogThread
  /\ lpc' = "test"
  /\ UNCHANGED <<flagVars, pthVars, fileVars, queueVars, cpc, mpc, histVars>>

LoopTest ==
  /\ lpc = "test"
  /\ lpc' = IF loop = 0 THEN "exit" ELSE IF logqueue_number > 0 THEN "item" ELSE "towait"
  /\ UNCHANGED <<flagVars, pthVars, fileVars, queueVars, owner, cpc, mpc, histVars>>

(* logwrite: without a log file the line is dropped; a file that cannot be *)
(* opened turns filelog off.                                               *)
LogWrite(l) ==
  \/ /\ out' = Append(out, [line |-> l, to |-> IF logfile = 1 THEN "file" ELSE "lost"])
     /\ UNCHANGED filelog
  \/ /\ logfile = 1
     /\ out' = Append(out, [line |-> l, to |-> "lost"])
     /\ filelog' = 0

(* One line: the second lock, the write, the removal, the unlock.          *)
LoopItem ==
  /\ lpc = "item"
  /\ LogWrite(Head(logqueue))
  /\ logqueue' = Tail(logqueue)
  /\ logqueue_number' = logqueue_number - 1
  /\ lpc' = "test"
  /\ UNCHANGED <<flagVars, pthVars, logfile, owner, cpc, mpc, lines, queued,
                 accepted, calm>>

LoopWait ==
  /\ lpc = "towait"
  /\ owner' = Nobody
  /\ lpc' = "waiting"
  /\ UNCHANGED <<flagVars, pthVars, fileVars, queueVars, cpc, mpc, histVars>>

(* The thread returns with the mutex locked.                               *)
LoopExit ==
  /\ lpc = "exit"
  /\ pthactive' = 0
  /\ lpc' = "done"
  /\ UNCHANGED <<flagVars, pthinitialized, pthfree, fileVars, queueVars, owner,
                 cpc, mpc, histVars>>

----------------------------------------------------------------------------
(* The main thread: start_pilight                                          *)

MainIdle == cpc[Main] = "idle"

LogFileEnable ==
  /\ MainIdle /\ mpc = "start"
  /\ filelog' = 1 /\ pthinitialized' = 1
  /\ mpc' = "enabled"
  /\ UNCHANGED <<flagVars, pthactive, pthfree, logfile, queueVars, owner, lpc,
                 cpc, histVars>>

LogFileSet ==
  /\ MainIdle /\ mpc = "enabled"
  /\ logfile' = 1
  /\ mpc' = "set"
  /\ UNCHANGED <<flagVars, pthVars, filelog, queueVars, owner, lpc, cpc, histVars>>

(* The tools do this at their start, the daemon when it stays in the       *)
(* foreground.                                                             *)
LogFileDisable ==
  /\ MainIdle /\ mpc \in {"start", "set"}
  /\ filelog = 1
  /\ filelog' = 0
  /\ UNCHANGED <<flagVars, pthVars, logfile, queueVars, owner, lpc, cpc, mpc,
                 histVars>>

(* threads_create(&logpth, ...), after daemonize()                         *)
StartLogThread ==
  /\ MainIdle /\ mpc = "set"
  /\ lpc' = "created"
  /\ mpc' = "run"
  /\ UNCHANGED <<flagVars, pthVars, fileVars, queueVars, owner, cpc, histVars>>

----------------------------------------------------------------------------
(* log_gc, called at shutdown, after a failed start and by the tools       *)

GcBegin ==
  /\ MainIdle /\ mpc \in {"start", "enabled", "set", "run"}
  /\ GcCalls > 0
  /\ stop' = 1 /\ loop' = 0
  /\ mpc' = "signal"
  /\ calm' = IF lpc = "waiting" /\ \A t \in Threads : cpc[t] = "idle" THEN 1 ELSE 0
  /\ UNCHANGED <<pthVars, fileVars, queueVars, owner, lpc, cpc, lines, queued,
                 accepted, out>>

(* Mutant: the log thread is not signalled.                                *)
GcSignalNone ==
  /\ mpc = "signal"
  /\ mpc' = "test"
  /\ UNCHANGED <<flagVars, pthVars, fileVars, queueVars, owner, lpc, cpc, histVars>>

(* The unlock of a mutex that main does not hold has no effect.            *)
GcSignal ==
  /\ mpc = "signal"
  /\ IF pthinitialized = 1 THEN Signalled ELSE UNCHANGED lpc
  /\ mpc' = "test"
  /\ UNCHANGED <<flagVars, pthVars, fileVars, queueVars, owner, cpc, histVars>>

GcTest ==
  /\ mpc = "test"
  /\ mpc' = IF pthactive = 0 THEN "flush" ELSE "waitqueue"
  /\ UNCHANGED <<flagVars, pthVars, fileVars, queueVars, owner, lpc, cpc, histVars>>

(* The flush loop without the thread: the line goes to the log file, or to *)
(* pilight.err without one.  The count follows in a step of its own.       *)
GcFlush ==
  /\ mpc = "flush"
  /\ logqueue # <<>>
  /\ IF filelog = 1 /\ logfile = 1
     THEN LogWrite(Head(logqueue))
     ELSE /\ out' = Append(out, [line |-> Head(logqueue), to |-> "err"])
          /\ UNCHANGED filelog
  /\ logqueue' = Tail(logqueue)
  /\ mpc' = "count"
  /\ UNCHANGED <<flagVars, pthVars, logfile, logqueue_number, owner, lpc, cpc,
                 lines, queued, accepted, calm>>

GcCount ==
  /\ mpc = "count"
  /\ logqueue_number' = logqueue_number - 1
  /\ mpc' = "flush"
  /\ UNCHANGED <<flagVars, pthVars, fileVars, logqueue, owner, lpc, cpc, histVars>>

(* Mutant: the last line is left in the queue.                             *)
GcFlushedEarly ==
  /\ mpc = "flush"
  /\ Len(logqueue) <= 1
  /\ mpc' = IF pthfree = 1 THEN "join" ELSE "free"
  /\ UNCHANGED <<flagVars, pthVars, fileVars, queueVars, owner, lpc, cpc, histVars>>

GcFlushed ==
  /\ mpc = "flush"
  /\ logqueue = <<>>
  /\ mpc' = IF pthfree = 1 THEN "join" ELSE "free"
  /\ UNCHANGED <<flagVars, pthVars, fileVars, queueVars, owner, lpc, cpc, histVars>>

GcWaitQueue ==
  /\ mpc = "waitqueue"
  /\ logqueue_number = 0
  /\ mpc' = "waitthread"
  /\ UNCHANGED <<flagVars, pthVars, fileVars, queueVars, owner, lpc, cpc, histVars>>

GcWaitThread ==
  /\ mpc = "waitthread"
  /\ pthactive = 0
  /\ mpc' = "join"
  /\ UNCHANGED <<flagVars, pthVars, fileVars, queueVars, owner, lpc, cpc, histVars>>

GcJoin ==
  /\ mpc = "join"
  /\ lpc = "done"
  /\ mpc' = "free"
  /\ UNCHANGED <<flagVars, pthVars, fileVars, queueVars, owner, lpc, cpc, histVars>>

GcFree ==
  /\ mpc = "free"
  /\ logfile' = 0
  /\ mpc' = "ended"
  /\ UNCHANGED <<flagVars, pthVars, filelog, queueVars, owner, lpc, cpc, histVars>>

----------------------------------------------------------------------------
Log(t) == LogAppend(t) \/ LogSignal(t)
Loop == LoopStart \/ LoopLock \/ LoopTest \/ LoopItem \/ LoopWait \/ LoopExit
Start == LogFileEnable \/ LogFileSet \/ LogFileDisable \/ StartLogThread
Gc ==
  \/ GcSignal \/ GcTest \/ GcFlush \/ GcCount \/ GcFlushed
  \/ GcWaitQueue \/ GcWaitThread \/ GcJoin \/ GcFree

Next ==
  \/ \E t \in Threads : LogCheck(t) \/ Log(t)
  \/ Loop \/ Start \/ GcBegin \/ Gc

(* Every thread keeps running; the mutex is handed over eventually because *)
(* only finitely many lines are logged.                                    *)
Fairness ==
  /\ \A t \in Threads : WF_vars(Log(t))
  /\ WF_vars(Loop)
  /\ WF_vars(Gc)
  /\ WF_vars(LogFileEnable \/ LogFileSet \/ StartLogThread)

Spec == Init /\ [][Next]_vars
FairSpec == Spec /\ Fairness

----------------------------------------------------------------------------
(* Properties                                                              *)

Dests == {"file", "err", "lost"}

(* The variables stay in their ranges: logqueue_number never exceeds the   *)
(* limit logprintf tests and never drops below zero.                       *)
TypeOK ==
  /\ stop \in {0, 1} /\ loop \in {0, 1}
  /\ pthinitialized \in {0, 1} /\ pthactive \in {0, 1} /\ pthfree \in {0, 1}
  /\ filelog \in {0, 1} /\ logfile \in {0, 1}
  /\ logqueue \in Seq(Nat)
  /\ logqueue_number \in 0..Limit
  /\ owner \in {LogThread, Nobody}
  /\ lpc \in {"none", "created", "lock", "test", "item", "towait", "waiting", "exit", "done"}
  /\ cpc \in [Threads -> {"idle", "append", "signal"}]
  /\ mpc \in {"start", "enabled", "set", "run", "signal", "test", "flush", "count",
              "waitqueue", "waitthread", "join", "free", "ended"}
  /\ lines \in Nat /\ queued \in Nat /\ accepted \in 0..queued
  /\ out \in Seq([line : Nat, to : Dests])
  /\ calm \in {0, 1}

(* The i-th line that was queued: taken off already, or still queued.      *)
LineAt(i) == IF i <= Len(out) THEN out[i].line ELSE logqueue[i - Len(out)]

(* The lines that logprintf queued leave the queue in that order, each     *)
(* once and none skipped, whoever takes them off: logloop, or log_gc       *)
(* without the mutex.  While nobody calls log_gc nothing else is in the    *)
(* queue, and logqueue_number counts it.                                   *)
LinesInOrder ==
  /\ accepted <= Len(out) + Len(logqueue)
  /\ \A i \in 1..accepted : LineAt(i) = i
  /\ stop = 0 => /\ Len(out) + Len(logqueue) = accepted
                 /\ logqueue_number = Len(logqueue)

(* logloop dereferences logqueue only when there is a line: the count it   *)
(* tests agrees with the list it then reads.                               *)
DequeueSafe == lpc = "item" => logqueue # <<>>

(* logloop does not sleep on a queued line that nobody is going to signal. *)
NoLostWakeup ==
  stop = 0 /\ logqueue_number > 0 /\ lpc = "waiting" =>
    \E t \in Threads : cpc[t] = "signal"

(* When log_gc returns, every line queued before it was called has been    *)
(* taken off the queue by somebody.                                        *)
FlushedAtEnd == mpc = "ended" => accepted <= Len(out)

(* A daemon that keeps running writes every line it has queued.            *)
LinesWritten ==
  \A n \in 1..Lines : (queued = n /\ lpc # "none") ~> (Len(out) >= n \/ stop = 1)

(* log_gc ends when it finds the log thread waiting and nobody logging.    *)
CalmGc == calm = 1 ~> mpc = "ended"

(* What log_gc says of its wait for logqueue_number: "Flush log queue by   *)
(* log thread".                                                            *)
FlushedByThread == mpc = "waitqueue" ~> logqueue_number = 0
============================================================================
