--------------------------- MODULE LogQueueProofs ---------------------------
(***************************************************************************)
(* Proofs about LogQueue, for any set of threads, any number of lines and  *)
(* any limit of the queue.                                                 *)
(***************************************************************************)
EXTENDS LogQueue, TLAPS

Running == {"start", "enabled", "set", "run"}
Flushing == {"flush", "count", "join", "free", "ended"}
LoopHolds == {"test", "item", "towait", "exit", "done"}

(* What the program counters of main and logloop imply about the flags,    *)
(* the mutex and the list.                                                 *)
ControlInv ==
  /\ stop = 0 <=> mpc \in Running
  /\ loop = 1 <=> stop = 0
  /\ pthactive = 1 <=> lpc \in {"lock", "test", "item", "towait", "waiting", "exit"}
  /\ owner = LogThread <=> lpc \in LoopHolds
  /\ mpc \in {"enabled", "set", "run"} => pthinitialized = 1
  /\ lpc # "none" => pthinitialized = 1 /\ mpc \notin {"start", "enabled", "set"}
  /\ mpc \in Flushing => lpc \notin {"item", "towait", "waiting"}

(* logqueue_number counts the list until log_gc flushes; after that it is  *)
(* never too small.                                                        *)
CountInv ==
  /\ mpc \notin Flushing => logqueue_number = Len(logqueue)
  /\ mpc = "count" => logqueue_number >= Len(logqueue) + 1
  /\ logqueue_number >= Len(logqueue)
  /\ lpc = "item" => logqueue_number > 0
  /\ lpc = "towait" /\ stop = 0 => logqueue_number = 0
  /\ stop = 0 => queued = accepted
  /\ mpc \in {"waitthread", "join", "free", "ended"} => accepted <= Len(out)

IInv == TypeOK /\ ControlInv /\ CountInv /\ LinesInOrder /\ NoLostWakeup

----------------------------------------------------------------------------
(* The log library starts with the invariant.                              *)
LEMMA InvInit == Init => IInv
  BY LogQueueConstants
  DEF Init, IInv, TypeOK, ControlInv, CountInv, LinesInOrder, NoLostWakeup,
      Running, Flushing, LoopHolds, LineAt, LogThread, Nobody

(* A step that takes nothing off the queue and adds nothing to it.         *)
LEMMA OrderStutter ==
  ASSUME LinesInOrder, UNCHANGED <<out, logqueue, accepted>>,
         stop' = 0 => stop = 0 /\ logqueue_number' = logqueue_number
  PROVE  LinesInOrder'
  BY DEF LinesInOrder, LineAt

(* Taking the first line off leaves every line at its place.               *)
LEMMA OrderTaken ==
  ASSUME TypeOK, LinesInOrder, logqueue # <<>>,
         NEW d \in Dests, out' = Append(out, [line |-> Head(logqueue), to |-> d]),
         logqueue' = Tail(logqueue), accepted' = accepted,
         stop' = 0 => stop = 0 /\ logqueue_number' = logqueue_number - 1
  PROVE  LinesInOrder'
<1> DEFINE r == [line |-> Head(logqueue), to |-> d]
<1>1. /\ out \in Seq([line : Nat, to : Dests]) /\ logqueue \in Seq(Nat)
      /\ accepted \in Int /\ logqueue_number \in Int
      /\ Len(out) \in Nat /\ Len(logqueue) \in Nat
  BY DEF TypeOK
<1>2. /\ Len(out') = Len(out) + 1
      /\ \A i \in 1..Len(out) : out'[i] = out[i]
      /\ out'[Len(out) + 1] = r
  BY <1>1
<1>3. /\ Len(logqueue') = Len(logqueue) - 1 /\ Len(logqueue) \in Nat /\ Len(logqueue) > 0
      /\ \A i \in 1..(Len(logqueue) - 1) : logqueue'[i] = logqueue[i + 1]
      /\ Head(logqueue) = logqueue[1]
  BY <1>1
<1>4. r.line = logqueue[1]
  BY <1>3
<1> HIDE DEF r
<1>5. ASSUME NEW i \in 1..(Len(out) + Len(logqueue)) PROVE LineAt(i)' = LineAt(i)
  <2>1. CASE i <= Len(out)
    BY <1>1, <1>2, <2>1 DEF LineAt
  <2>2. CASE i = Len(out) + 1
    BY <1>1, <1>2, <1>4, <2>2 DEF LineAt
  <2>3. CASE i > Len(out) + 1
    <3>1. i - Len(out) - 1 \in 1..(Len(logqueue) - 1) /\ i \in Int /\ Len(out) \in Int
      BY <1>1, <1>3, <2>3
    <3>2. logqueue'[i - Len(out) - 1] = logqueue[i - Len(out)]
      BY <1>3, <3>1
    <3>3. LineAt(i)' = logqueue'[i - (Len(out) + 1)]
      BY <1>2, <2>3, <3>1 DEF LineAt
    <3>4. LineAt(i) = logqueue[i - Len(out)]
      BY <2>3, <3>1 DEF LineAt
    <3> QED BY <3>1, <3>2, <3>3, <3>4
  <2> QED BY <1>1, <2>1, <2>2, <2>3
<1>6. accepted <= Len(out) + Len(logqueue) /\ \A i \in 1..accepted : LineAt(i) = i
  BY DEF LinesInOrder
<1>7. \A i \in 1..accepted : LineAt(i)' = i
  BY <1>1, <1>5, <1>6
<1>8. stop' = 0 => /\ Len(out') + Len(logqueue') = accepted'
                   /\ logqueue_number' = Len(logqueue')
  <2>1. stop = 0 => Len(out) + Len(logqueue) = accepted /\ logqueue_number = Len(logqueue)
    BY DEF LinesInOrder
  <2>2. Len(out') + Len(logqueue') = Len(out) + Len(logqueue)
    BY <1>1, <1>2, <1>3
  <2>3. stop' = 0 => Len(out') + Len(logqueue') = accepted'
    BY <2>1, <2>2
  <2>4. stop' = 0 => logqueue_number' = Len(logqueue')
    BY <1>3, <2>1
  <2> QED BY <2>3, <2>4
<1>9. accepted' <= Len(out') + Len(logqueue')
  BY <1>1, <1>2, <1>3, <1>6
<1>10. \A i \in 1..accepted' : LineAt(i)' = i
  BY <1>7
<1> QED BY <1>8, <1>9, <1>10 DEF LinesInOrder

(* Queueing a line, when the count is right or log_gc has been called.     *)
LEMMA OrderQueued ==
  ASSUME TypeOK, LinesInOrder, logqueue_number >= Len(logqueue),
         Appended(queued + 1), UNCHANGED <<stop, out>>,
         stop = 0 => queued = accepted /\ logqueue_number = Len(logqueue),
         accepted' = IF stop = 0 THEN accepted + 1 ELSE accepted
  PROVE  LinesInOrder'
<1>1. /\ out \in Seq([line : Nat, to : Dests]) /\ logqueue \in Seq(Nat)
      /\ Len(out) \in Nat /\ Len(logqueue) \in Nat
      /\ accepted \in Nat /\ queued \in Nat /\ logqueue_number \in Nat
  BY DEF TypeOK
<1>2. CASE logqueue_number # 0 /\ logqueue = <<>>
  <2>1. UNCHANGED <<out, logqueue, accepted>> /\ stop' # 0
    BY <1>1, <1>2 DEF Appended
  <2> QED BY <2>1, OrderStutter
<1>3. CASE logqueue_number = 0 \/ logqueue # <<>>
  <2>1. logqueue' = Append(logqueue, queued + 1)
    <3>1. CASE logqueue_number = 0
      <4>1. Len(logqueue) = 0
        BY <1>1, <3>1
      <4>2. logqueue = <<>>
        BY <1>1, <4>1
      <4> QED BY <1>1, <3>1, <4>2 DEF Appended
    <3>2. CASE logqueue_number # 0
      BY <1>3, <3>2 DEF Appended
    <3> QED BY <3>1, <3>2
  <2>2. /\ Len(logqueue') = Len(logqueue) + 1
        /\ \A i \in 1..Len(logqueue) : logqueue'[i] = logqueue[i]
        /\ logqueue'[Len(logqueue) + 1] = queued + 1
    BY <1>1, <2>1
  <2>3. ASSUME NEW i \in 1..(Len(out) + Len(logqueue)) PROVE LineAt(i)' = LineAt(i)
    <3>1. CASE i <= Len(out)
      BY <3>1 DEF LineAt
    <3>2. CASE ~(i <= Len(out))
      <4>1. i - Len(out) \in 1..Len(logqueue)
        BY <1>1, <3>2
      <4>2. logqueue'[i - Len(out)] = logqueue[i - Len(out)]
        BY <2>2, <4>1
      <4> QED BY <3>2, <4>2 DEF LineAt
    <3> QED BY <3>1, <3>2
  <2>4. ASSUME NEW i, i = Len(out) + Len(logqueue) + 1 PROVE LineAt(i)' = queued + 1
    <3>1. ~(i <= Len(out)) /\ i - Len(out) = Len(logqueue) + 1
      BY <1>1, <2>4
    <3> QED BY <2>2, <3>1 DEF LineAt
  <2>5. accepted <= Len(out) + Len(logqueue) /\ \A i \in 1..accepted : LineAt(i) = i
    BY DEF LinesInOrder
  <2>6. CASE stop = 0
    <3>1. Len(out) + Len(logqueue) = accepted /\ queued = accepted
      BY <2>6 DEF LinesInOrder
    <3>2. \A i \in 1..accepted' : LineAt(i)' = i
      <4> SUFFICES ASSUME NEW i \in 1..accepted' PROVE LineAt(i)' = i
        OBVIOUS
      <4>1. accepted' = accepted + 1
        BY <2>6
      <4>2. CASE i \in 1..accepted
        BY <2>3, <2>5, <3>1, <4>2
      <4>3. CASE i = accepted + 1
        BY <1>1, <2>4, <3>1, <4>3
      <4> QED BY <1>1, <4>1, <4>2, <4>3
    <3>3. logqueue_number' = logqueue_number + 1
      BY DEF Appended
    <3>4. /\ Len(out') + Len(logqueue') = accepted'
          /\ logqueue_number' = Len(logqueue')
          /\ accepted' <= Len(out') + Len(logqueue')
      <4>1. accepted' = accepted + 1 /\ out' = out /\ logqueue_number = Len(logqueue)
        BY <2>6
      <4>2. Len(out') + Len(logqueue') = Len(out) + Len(logqueue) + 1
        BY <1>1, <2>2, <4>1
      <4>3. Len(out') + Len(logqueue') = accepted'
        BY <3>1, <4>1, <4>2
      <4>4. logqueue_number' = Len(logqueue')
        BY <2>2, <3>3, <4>1
      <4> QED BY <1>1, <4>1, <4>3, <4>4
    <3> QED BY <3>2, <3>4 DEF LinesInOrder
  <2>7. CASE stop # 0
    <3>1. accepted' = accepted /\ out' = out /\ stop' # 0
      BY <2>7
    <3>2. \A i \in 1..accepted : LineAt(i)' = i
      BY <1>1, <2>3, <2>5
    <3> QED BY <1>1, <2>2, <2>5, <3>1, <3>2 DEF LinesInOrder
  <2> QED BY <2>6, <2>7
<1> QED BY <1>2, <1>3

(* logloop has a line to take when it takes one.                           *)
LEMMA ItemThere == TypeOK /\ ControlInv /\ CountInv => DequeueSafe
<1> SUFFICES ASSUME TypeOK, ControlInv, CountInv, lpc = "item" PROVE logqueue # <<>>
  BY DEF DequeueSafe
<1>1. logqueue_number = Len(logqueue) /\ logqueue_number > 0
  BY DEF ControlInv, CountInv, Flushing
<1> QED BY <1>1

(* A line that is written, or flushed, ends up in out.                     *)
LEMMA LineTaken ==
  ASSUME TypeOK, LoopItem \/ GcFlush
  PROVE  /\ \E d \in Dests : out' = Append(out, [line |-> Head(logqueue), to |-> d])
         /\ filelog' \in {0, 1}
<1>1. CASE LogWrite(Head(logqueue))
  <2>1. PICK d \in Dests : out' = Append(out, [line |-> Head(logqueue), to |-> d])
    BY <1>1 DEF LogWrite, Dests
  <2>2. filelog' \in {0, 1}
    BY <1>1 DEF LogWrite, TypeOK
  <2> QED BY <2>1, <2>2
<1>2. CASE /\ out' = Append(out, [line |-> Head(logqueue), to |-> "err"])
           /\ UNCHANGED filelog
  BY <1>2 DEF Dests, TypeOK
<1> QED BY <1>1, <1>2 DEF LoopItem, GcFlush

(* The flags, the mutex and the program counters of every step.            *)
LEMMA ControlNext == IInv /\ [Next]_vars => ControlInv'
<1> SUFFICES ASSUME IInv, [Next]_vars PROVE ControlInv'
  OBVIOUS
<1> USE LogQueueConstants DEF flagVars, pthVars, fileVars, queueVars, histVars,
        Running, Flushing, LoopHolds, LogThread, Nobody
<1>0. TypeOK /\ ControlInv
  BY DEF IInv
<1>1. ASSUME NEW t \in Threads, LogCheck(t) PROVE ControlInv'
  BY <1>0, <1>1 DEF LogCheck, ControlInv, TypeOK
<1>2. ASSUME NEW t \in Threads, LogAppend(t) PROVE ControlInv'
  BY <1>0, <1>2 DEF LogAppend, ControlInv, TypeOK
<1>3. ASSUME NEW t \in Threads, LogSignal(t) PROVE ControlInv'
  BY <1>0, <1>3 DEF LogSignal, Signalled, ControlInv, TypeOK
<1>4. CASE LoopStart
  BY <1>0, <1>4 DEF LoopStart, ControlInv, TypeOK
<1>5. CASE LoopLock
  BY <1>0, <1>5 DEF LoopLock, ControlInv, TypeOK
<1>6. CASE LoopTest
  BY <1>0, <1>6 DEF LoopTest, ControlInv, TypeOK
<1>7. CASE LoopItem
  BY <1>0, <1>7 DEF LoopItem, ControlInv, TypeOK
<1>8. CASE LoopWait
  BY <1>0, <1>8 DEF LoopWait, ControlInv, TypeOK
<1>9. CASE LoopExit
  BY <1>0, <1>9 DEF LoopExit, ControlInv, TypeOK
<1>10. CASE LogFileEnable
  BY <1>0, <1>10 DEF LogFileEnable, ControlInv, TypeOK
<1>11. CASE LogFileSet
  BY <1>0, <1>11 DEF LogFileSet, ControlInv, TypeOK
<1>12. CASE LogFileDisable
  BY <1>0, <1>12 DEF LogFileDisable, ControlInv, TypeOK
<1>13. CASE StartLogThread
  BY <1>0, <1>13 DEF StartLogThread, ControlInv, TypeOK
<1>14. CASE GcBegin
  BY <1>0, <1>14 DEF GcBegin, ControlInv, TypeOK
<1>15. CASE GcSignal
  BY <1>0, <1>15 DEF GcSignal, Signalled, ControlInv, TypeOK
<1>16. CASE GcTest
  BY <1>0, <1>16 DEF GcTest, ControlInv, TypeOK
<1>17. CASE GcFlush
  BY <1>0, <1>17 DEF GcFlush, ControlInv, TypeOK
<1>18. CASE GcCount
  BY <1>0, <1>18 DEF GcCount, ControlInv, TypeOK
<1>19. CASE GcFlushed
  BY <1>0, <1>19 DEF GcFlushed, ControlInv, TypeOK
<1>20. CASE GcWaitQueue
  BY <1>0, <1>20 DEF GcWaitQueue, ControlInv, TypeOK
<1>21. CASE GcWaitThread
  BY <1>0, <1>21 DEF GcWaitThread, ControlInv, TypeOK
<1>22. CASE GcJoin
  BY <1>0, <1>22 DEF GcJoin, ControlInv, TypeOK
<1>23. CASE GcFree
  BY <1>0, <1>23 DEF GcFree, ControlInv, TypeOK
<1>24. CASE UNCHANGED vars
  BY <1>0, <1>24 DEF vars, ControlInv, TypeOK
<1> QED
  BY <1>1, <1>2, <1>3, <1>4, <1>5, <1>6, <1>7, <1>8, <1>9, <1>10, <1>11, <1>12,
     <1>13, <1>14, <1>15, <1>16, <1>17, <1>18, <1>19, <1>20, <1>21, <1>22, <1>23, <1>24
  DEF Next, Log, Loop, Start, Gc

(* Types are preserved: logqueue_number stays between 0 and its limit      *)
(* because it is decremented only for a line that was there.               *)
LEMMA TypeNext == IInv /\ [Next]_vars => TypeOK'
<1> SUFFICES ASSUME IInv, [Next]_vars PROVE TypeOK'
  OBVIOUS
<1> USE LogQueueConstants DEF flagVars, pthVars, fileVars, queueVars, histVars
<1>0. TypeOK /\ ControlInv /\ CountInv
  BY DEF IInv
<1>1. ASSUME NEW t \in Threads, LogCheck(t) PROVE TypeOK'
  BY <1>0, <1>1 DEF LogCheck, TypeOK
<1>2. ASSUME NEW t \in Threads, LogAppend(t) PROVE TypeOK'
  <2>1. logqueue' \in Seq(Nat) /\ logqueue_number' \in 0..Limit
    <3>1. logqueue \in Seq(Nat) /\ logqueue_number \in 0..Limit /\ queued + 1 \in Nat
      BY <1>0 DEF TypeOK
    <3>2. CASE logqueue_number < Limit
      <4>1. Appended(queued + 1)
        BY <1>2, <3>2 DEF LogAppend
      <4>2. Append(logqueue, queued + 1) \in Seq(Nat) /\ <<queued + 1>> \in Seq(Nat)
        BY <3>1
      <4>3. logqueue' \in Seq(Nat)
        BY <3>1, <4>1, <4>2 DEF Appended
      <4> QED BY <3>1, <3>2, <4>1, <4>3 DEF Appended
    <3>3. CASE ~(logqueue_number < Limit)
      BY <1>2, <3>1, <3>3 DEF LogAppend
    <3> QED BY <3>2, <3>3
  <2>2. queued' \in Nat /\ accepted' \in 0..queued'
    BY <1>0, <1>2 DEF LogAppend, TypeOK
  <2> QED BY <1>0, <1>2, <2>1, <2>2 DEF LogAppend, TypeOK
<1>3. ASSUME NEW t \in Threads, LogSignal(t) PROVE TypeOK'
  BY <1>0, <1>3 DEF LogSignal, Signalled, TypeOK
<1>4. CASE LoopStart
  BY <1>0, <1>4 DEF LoopStart, TypeOK
<1>5. CASE LoopLock
  BY <1>0, <1>5 DEF LoopLock, TypeOK
<1>6. CASE LoopTest
  BY <1>0, <1>6 DEF LoopTest, TypeOK
<1>7. CASE LoopItem
  <2>1. logqueue # <<>> /\ logqueue \in Seq(Nat)
    BY <1>0, <1>7, ItemThere DEF LoopItem, TypeOK, DequeueSafe
  <2>2. Head(logqueue) \in Nat /\ Tail(logqueue) \in Seq(Nat)
    BY <2>1
  <2>3. out' \in Seq([line : Nat, to : Dests]) /\ filelog' \in {0, 1}
    <3>1. PICK d \in Dests : out' = Append(out, [line |-> Head(logqueue), to |-> d])
      BY <1>0, <1>7, LineTaken
    <3>2. out \in Seq([line : Nat, to : Dests])
      BY <1>0 DEF TypeOK
    <3>3. [line |-> Head(logqueue), to |-> d] \in [line : Nat, to : Dests]
      BY <2>2
    <3> QED BY <1>0, <1>7, <3>1, <3>2, <3>3, LineTaken
  <2>4. logqueue' \in Seq(Nat) /\ logqueue_number' \in 0..Limit
    BY <1>0, <1>7, <2>2 DEF LoopItem, TypeOK, CountInv
  <2> QED BY <1>0, <1>7, <2>3, <2>4 DEF LoopItem, TypeOK
<1>8. CASE LoopWait
  BY <1>0, <1>8 DEF LoopWait, TypeOK
<1>9. CASE LoopExit
  BY <1>0, <1>9 DEF LoopExit, TypeOK
<1>10. CASE LogFileEnable
  BY <1>0, <1>10 DEF LogFileEnable, TypeOK
<1>11. CASE LogFileSet
  BY <1>0, <1>11 DEF LogFileSet, TypeOK
<1>12. CASE LogFileDisable
  BY <1>0, <1>12 DEF LogFileDisable, TypeOK
<1>13. CASE StartLogThread
  BY <1>0, <1>13 DEF StartLogThread, TypeOK
<1>14. CASE GcBegin
  BY <1>0, <1>14 DEF GcBegin, TypeOK
<1>15. CASE GcSignal
  BY <1>0, <1>15 DEF GcSignal, Signalled, TypeOK
<1>16. CASE GcTest
  BY <1>0, <1>16 DEF GcTest, TypeOK
<1>17. CASE GcFlush
  <2>1. logqueue # <<>> /\ logqueue \in Seq(Nat)
    BY <1>0, <1>17, ItemThere DEF GcFlush, TypeOK, DequeueSafe
  <2>2. Head(logqueue) \in Nat /\ Tail(logqueue) \in Seq(Nat)
    BY <2>1
  <2>3. out' \in Seq([line : Nat, to : Dests]) /\ filelog' \in {0, 1}
    <3>1. PICK d \in Dests : out' = Append(out, [line |-> Head(logqueue), to |-> d])
      BY <1>0, <1>17, LineTaken
    <3>2. out \in Seq([line : Nat, to : Dests])
      BY <1>0 DEF TypeOK
    <3>3. [line |-> Head(logqueue), to |-> d] \in [line : Nat, to : Dests]
      BY <2>2
    <3> QED BY <1>0, <1>17, <3>1, <3>2, <3>3, LineTaken
  <2>4. logqueue' \in Seq(Nat) /\ logqueue_number' \in 0..Limit
    BY <1>0, <1>17, <2>2 DEF GcFlush, TypeOK, CountInv
  <2> QED BY <1>0, <1>17, <2>3, <2>4 DEF GcFlush, TypeOK
<1>18. CASE GcCount
  <2>1. Len(logqueue) \in Nat
    BY <1>0 DEF TypeOK
  <2> QED BY <1>0, <1>18, <2>1 DEF GcCount, TypeOK, CountInv
<1>19. CASE GcFlushed
  BY <1>0, <1>19 DEF GcFlushed, TypeOK
<1>20. CASE GcWaitQueue
  BY <1>0, <1>20 DEF GcWaitQueue, TypeOK
<1>21. CASE GcWaitThread
  BY <1>0, <1>21 DEF GcWaitThread, TypeOK
<1>22. CASE GcJoin
  BY <1>0, <1>22 DEF GcJoin, TypeOK
<1>23. CASE GcFree
  BY <1>0, <1>23 DEF GcFree, TypeOK
<1>24. CASE UNCHANGED vars
  BY <1>0, <1>24 DEF vars, TypeOK
<1> QED
  BY <1>1, <1>2, <1>3, <1>4, <1>5, <1>6, <1>7, <1>8, <1>9, <1>10, <1>11, <1>12,
     <1>13, <1>14, <1>15, <1>16, <1>17, <1>18, <1>19, <1>20, <1>21, <1>22, <1>23, <1>24
  DEF Next, Log, Loop, Start, Gc

(* The count is right, or at least not too small while log_gc flushes.     *)
LEMMA CountNext == IInv /\ [Next]_vars => CountInv'
<1> SUFFICES ASSUME IInv, [Next]_vars PROVE CountInv'
  OBVIOUS
<1> USE LogQueueConstants DEF flagVars, pthVars, fileVars, queueVars, histVars,
        Running, Flushing
<1>0. TypeOK /\ ControlInv /\ CountInv /\ LinesInOrder
  BY DEF IInv
<1>1. ASSUME NEW t \in Threads, LogCheck(t) PROVE CountInv'
  BY <1>0, <1>1 DEF LogCheck, CountInv, ControlInv, TypeOK
<1>2. ASSUME NEW t \in Threads, LogAppend(t) PROVE CountInv'
  <2>1. /\ logqueue \in Seq(Nat) /\ Len(logqueue) \in Nat /\ logqueue_number \in Nat
        /\ queued \in Nat /\ accepted \in Nat
    BY <1>0 DEF TypeOK
  <2>2. lpc # "towait"
    BY <1>0, <1>2 DEF LogAppend, MayLock, ControlInv, LoopHolds, LogThread, Nobody
  <2>3. CASE ~(logqueue_number < Limit)
    BY <1>0, <1>2, <2>3 DEF LogAppend, CountInv
  <2>4. CASE logqueue_number < Limit
    <3>1. Appended(queued + 1) /\ logqueue_number' = logqueue_number + 1
      BY <1>2, <2>4 DEF LogAppend, Appended
    <3>2. /\ Len(Append(logqueue, queued + 1)) = Len(logqueue) + 1
          /\ Len(<<queued + 1>>) = 1
          /\ logqueue = <<>> <=> Len(logqueue) = 0
      BY <2>1
    <3>3. /\ Len(logqueue') <= Len(logqueue) + 1
          /\ logqueue_number = Len(logqueue) => Len(logqueue') = Len(logqueue) + 1
          /\ Len(logqueue') \in Nat
      BY <2>1, <3>1, <3>2 DEF Appended
    <3>4. UNCHANGED <<mpc, lpc, stop, out>>
      BY <1>2 DEF LogAppend
    <3>5. /\ mpc' \notin Flushing => logqueue_number' = Len(logqueue')
          /\ mpc' = "count" => logqueue_number' >= Len(logqueue') + 1
          /\ logqueue_number' >= Len(logqueue') /\ logqueue_number' > 0
      BY <1>0, <2>1, <3>1, <3>3, <3>4 DEF CountInv
    <3>6. stop' = 0 => queued' = accepted'
      BY <1>0, <1>2, <2>1, <2>4 DEF LogAppend, CountInv
    <3>7. mpc' \in {"waitthread", "join", "free", "ended"} => accepted' <= Len(out')
      BY <1>0, <1>2, <3>4 DEF LogAppend, CountInv, ControlInv, Running
    <3> QED BY <2>2, <3>4, <3>5, <3>6, <3>7 DEF CountInv
  <2> QED BY <2>3, <2>4
<1>3. ASSUME NEW t \in Threads, LogSignal(t) PROVE CountInv'
  BY <1>0, <1>3 DEF LogSignal, Signalled, CountInv, ControlInv, TypeOK
<1>4. CASE LoopStart
  BY <1>0, <1>4 DEF LoopStart, CountInv, ControlInv, TypeOK
<1>5. CASE LoopLock
  BY <1>0, <1>5 DEF LoopLock, CountInv, ControlInv, TypeOK
<1>6. CASE LoopTest
  BY <1>0, <1>6 DEF LoopTest, CountInv, ControlInv, TypeOK
<1>7. CASE LoopItem
  <2>1. logqueue # <<>> /\ logqueue \in Seq(Nat) /\ logqueue' = Tail(logqueue)
    BY <1>0, <1>7, ItemThere DEF LoopItem, TypeOK, DequeueSafe
  <2>2. /\ Len(logqueue') = Len(logqueue) - 1 /\ Len(logqueue) \in Nat
        /\ logqueue_number \in Nat /\ accepted \in Nat /\ Len(out) \in Nat
    BY <1>0, <2>1 DEF TypeOK
  <2>3. Len(out') = Len(out) + 1
    <3>1. PICK d \in Dests : out' = Append(out, [line |-> Head(logqueue), to |-> d])
      BY <1>0, <1>7, LineTaken
    <3>2. out \in Seq([line : Nat, to : Dests]) /\ Head(logqueue) \in Nat
      BY <1>0, <2>1 DEF TypeOK
    <3> QED BY <3>1, <3>2
  <2>4. lpc' = "test" /\ logqueue_number' = logqueue_number - 1 /\ mpc' = mpc /\ mpc \notin Flushing
    BY <1>0, <1>7 DEF LoopItem, ControlInv, Flushing
  <2>5. UNCHANGED <<stop, queued, accepted>>
    BY <1>7 DEF LoopItem
  <2> QED BY <1>0, <2>1, <2>2, <2>3, <2>4, <2>5 DEF CountInv, Flushing
<1>8. CASE LoopWait
  BY <1>0, <1>8 DEF LoopWait, CountInv, ControlInv, TypeOK
<1>9. CASE LoopExit
  BY <1>0, <1>9 DEF LoopExit, CountInv, ControlInv, TypeOK
<1>10. CASE LogFileEnable
  BY <1>0, <1>10 DEF LogFileEnable, CountInv, ControlInv, TypeOK
<1>11. CASE LogFileSet
  BY <1>0, <1>11 DEF LogFileSet, CountInv, ControlInv, TypeOK
<1>12. CASE LogFileDisable
  BY <1>0, <1>12 DEF LogFileDisable, CountInv, ControlInv, TypeOK
<1>13. CASE StartLogThread
  BY <1>0, <1>13 DEF StartLogThread, CountInv, ControlInv, TypeOK
<1>14. CASE GcBegin
  BY <1>0, <1>14 DEF GcBegin, CountInv, ControlInv, TypeOK
<1>15. CASE GcSignal
  BY <1>0, <1>15 DEF GcSignal, Signalled, CountInv, ControlInv, TypeOK
<1>16. CASE GcTest
  BY <1>0, <1>16 DEF GcTest, CountInv, ControlInv, TypeOK
<1>17. CASE GcFlush
  <2>1. logqueue # <<>> /\ logqueue \in Seq(Nat) /\ logqueue' = Tail(logqueue)
    BY <1>0, <1>17, ItemThere DEF GcFlush, TypeOK, DequeueSafe
  <2>2. /\ Len(logqueue') = Len(logqueue) - 1 /\ Len(logqueue) \in Nat
        /\ logqueue_number \in Nat /\ accepted \in Nat /\ Len(out) \in Nat
    BY <1>0, <2>1 DEF TypeOK
  <2>3. Len(out') = Len(out) + 1
    <3>1. PICK d \in Dests : out' = Append(out, [line |-> Head(logqueue), to |-> d])
      BY <1>0, <1>17, LineTaken
    <3>2. out \in Seq([line : Nat, to : Dests]) /\ Head(logqueue) \in Nat
      BY <1>0, <2>1 DEF TypeOK
    <3> QED BY <3>1, <3>2
  <2>4. /\ mpc = "flush" /\ mpc' = "count"
        /\ UNCHANGED <<lpc, logqueue_number, stop, queued, accepted>>
    BY <1>17 DEF GcFlush
  <2> QED BY <1>0, <2>1, <2>2, <2>3, <2>4 DEF CountInv, ControlInv, Flushing
<1>18. CASE GcCount
  <2>1. Len(logqueue) \in Nat /\ logqueue_number \in Nat
    BY <1>0 DEF TypeOK
  <2> QED BY <1>0, <1>18, <2>1 DEF GcCount, CountInv, ControlInv, Flushing, Running
<1>19. CASE GcFlushed
  <2>1. Len(logqueue) = 0 /\ accepted \in Nat /\ Len(out) \in Nat
    BY <1>0, <1>19 DEF GcFlushed, TypeOK, CountInv, Flushing
  <2>2. accepted <= Len(out)
    BY <1>0, <2>1 DEF LinesInOrder
  <2> QED BY <1>0, <1>19, <2>2 DEF GcFlushed, CountInv, ControlInv, Flushing, Running
<1>20. CASE GcWaitQueue
  <2>1. Len(logqueue) = 0 /\ accepted \in Nat /\ Len(out) \in Nat
    BY <1>0, <1>20 DEF GcWaitQueue, TypeOK, CountInv, Flushing
  <2>2. accepted <= Len(out)
    BY <1>0, <2>1 DEF LinesInOrder
  <2> QED BY <1>0, <1>20, <2>2 DEF GcWaitQueue, CountInv, ControlInv, Flushing, Running
<1>21. CASE GcWaitThread
  BY <1>0, <1>21 DEF GcWaitThread, CountInv, ControlInv, TypeOK
<1>22. CASE GcJoin
  BY <1>0, <1>22 DEF GcJoin, CountInv, ControlInv, TypeOK
<1>23. CASE GcFree
  BY <1>0, <1>23 DEF GcFree, CountInv, ControlInv, TypeOK
<1>24. CASE UNCHANGED vars
  BY <1>0, <1>24 DEF vars, CountInv, ControlInv, TypeOK
<1> QED
  BY <1>1, <1>2, <1>3, <1>4, <1>5, <1>6, <1>7, <1>8, <1>9, <1>10, <1>11, <1>12,
     <1>13, <1>14, <1>15, <1>16, <1>17, <1>18, <1>19, <1>20, <1>21, <1>22, <1>23, <1>24
  DEF Next, Log, Loop, Start, Gc

(* Lines keep their order, whoever adds them or takes them off.            *)
LEMMA OrderNext == IInv /\ [Next]_vars => LinesInOrder'
<1> SUFFICES ASSUME IInv, [Next]_vars PROVE LinesInOrder'
  OBVIOUS
<1> USE LogQueueConstants DEF flagVars, pthVars, fileVars, queueVars, histVars
<1>0. TypeOK /\ ControlInv /\ CountInv /\ LinesInOrder
  BY DEF IInv
<1>1. ASSUME NEW t \in Threads, LogCheck(t) PROVE LinesInOrder'
  BY <1>0, <1>1, OrderStutter DEF LogCheck
<1>2. ASSUME NEW t \in Threads, LogAppend(t) PROVE LinesInOrder'
  <2>1. CASE ~(logqueue_number < Limit)
    BY <1>0, <1>2, <2>1, OrderStutter DEF LogAppend
  <2>2. CASE logqueue_number < Limit
    <3>1. /\ Appended(queued + 1) /\ UNCHANGED <<stop, out>>
          /\ accepted' = IF stop = 0 THEN accepted + 1 ELSE accepted
      BY <1>2, <2>2 DEF LogAppend
    <3>2. /\ logqueue_number >= Len(logqueue)
          /\ stop = 0 => queued = accepted /\ logqueue_number = Len(logqueue)
      BY <1>0 DEF CountInv, ControlInv, Running, Flushing
    <3> QED BY <1>0, <3>1, <3>2, OrderQueued
  <2> QED BY <2>1, <2>2
<1>3. ASSUME NEW t \in Threads, LogSignal(t) PROVE LinesInOrder'
  BY <1>0, <1>3, OrderStutter DEF LogSignal
<1>4. CASE LoopStart
  BY <1>0, <1>4, OrderStutter DEF LoopStart
<1>5. CASE LoopLock
  BY <1>0, <1>5, OrderStutter DEF LoopLock
<1>6. CASE LoopTest
  BY <1>0, <1>6, OrderStutter DEF LoopTest
<1>7. CASE LoopItem
  <2>1. logqueue # <<>> /\ logqueue' = Tail(logqueue) /\ accepted' = accepted
    BY <1>0, <1>7, ItemThere DEF LoopItem, DequeueSafe
  <2>2. PICK d \in Dests : out' = Append(out, [line |-> Head(logqueue), to |-> d])
    BY <1>0, <1>7, LineTaken
  <2>3. stop' = stop /\ logqueue_number' = logqueue_number - 1
    BY <1>0, <1>7 DEF LoopItem
  <2> QED BY <1>0, <2>1, <2>2, <2>3, OrderTaken
<1>8. CASE LoopWait
  BY <1>0, <1>8, OrderStutter DEF LoopWait
<1>9. CASE LoopExit
  BY <1>0, <1>9, OrderStutter DEF LoopExit
<1>10. CASE LogFileEnable
  BY <1>0, <1>10, OrderStutter DEF LogFileEnable
<1>11. CASE LogFileSet
  BY <1>0, <1>11, OrderStutter DEF LogFileSet
<1>12. CASE LogFileDisable
  BY <1>0, <1>12, OrderStutter DEF LogFileDisable
<1>13. CASE StartLogThread
  BY <1>0, <1>13, OrderStutter DEF StartLogThread
<1>14. CASE GcBegin
  BY <1>0, <1>14, OrderStutter DEF GcBegin
<1>15. CASE GcSignal
  BY <1>0, <1>15, OrderStutter DEF GcSignal
<1>16. CASE GcTest
  BY <1>0, <1>16, OrderStutter DEF GcTest
<1>17. CASE GcFlush
  <2>1. logqueue # <<>> /\ logqueue' = Tail(logqueue) /\ accepted' = accepted
    BY <1>0, <1>17, ItemThere DEF GcFlush, DequeueSafe
  <2>2. PICK d \in Dests : out' = Append(out, [line |-> Head(logqueue), to |-> d])
    BY <1>0, <1>17, LineTaken
  <2>3. stop' = stop /\ stop # 0
    BY <1>0, <1>17 DEF GcFlush, ControlInv, Running
  <2> QED BY <1>0, <2>1, <2>2, <2>3, OrderTaken
<1>18. CASE GcCount
  BY <1>0, <1>18, OrderStutter DEF GcCount, ControlInv, Running
<1>19. CASE GcFlushed
  BY <1>0, <1>19, OrderStutter DEF GcFlushed
<1>20. CASE GcWaitQueue
  BY <1>0, <1>20, OrderStutter DEF GcWaitQueue
<1>21. CASE GcWaitThread
  BY <1>0, <1>21, OrderStutter DEF GcWaitThread
<1>22. CASE GcJoin
  BY <1>0, <1>22, OrderStutter DEF GcJoin
<1>23. CASE GcFree
  BY <1>0, <1>23, OrderStutter DEF GcFree
<1>24. CASE UNCHANGED vars
  BY <1>0, <1>24 DEF vars, LinesInOrder, LineAt
<1> QED
  BY <1>1, <1>2, <1>3, <1>4, <1>5, <1>6, <1>7, <1>8, <1>9, <1>10, <1>11, <1>12,
     <1>13, <1>14, <1>15, <1>16, <1>17, <1>18, <1>19, <1>20, <1>21, <1>22, <1>23, <1>24
  DEF Next, Log, Loop, Start, Gc

(* A line is queued with the signal still to come, or with logloop awake.  *)
LEMMA WakeupNext == IInv /\ [Next]_vars => NoLostWakeup'
<1> SUFFICES ASSUME IInv, [Next]_vars PROVE NoLostWakeup'
  OBVIOUS
<1> USE LogQueueConstants DEF flagVars, pthVars, fileVars, queueVars, histVars
<1>0. TypeOK /\ ControlInv /\ CountInv /\ NoLostWakeup
  BY DEF IInv
<1>1. ASSUME NEW t \in Threads, LogCheck(t) PROVE NoLostWakeup'
  BY <1>0, <1>1 DEF LogCheck, MayLog, NoLostWakeup, TypeOK
<1>2. ASSUME NEW t \in Threads, LogAppend(t) PROVE NoLostWakeup'
  <2>1. CASE lpc = "waiting"
    <3>1. pthinitialized = 1
      BY <1>0, <2>1 DEF ControlInv
    <3>2. cpc'[t] = "signal"
      BY <1>0, <1>2, <3>1 DEF LogAppend, TypeOK
    <3> QED BY <3>2 DEF NoLostWakeup
  <2>2. CASE lpc # "waiting"
    BY <1>2, <2>2 DEF LogAppend, NoLostWakeup
  <2> QED BY <2>1, <2>2
<1>3. ASSUME NEW t \in Threads, LogSignal(t) PROVE NoLostWakeup'
  <2>1. lpc' # "waiting"
    BY <1>3 DEF LogSignal, Signalled
  <2> QED BY <2>1 DEF NoLostWakeup
<1>4. CASE LoopStart
  BY <1>0, <1>4 DEF LoopStart, NoLostWakeup, CountInv, ControlInv, TypeOK
<1>5. CASE LoopLock
  BY <1>0, <1>5 DEF LoopLock, NoLostWakeup, CountInv, ControlInv, TypeOK
<1>6. CASE LoopTest
  BY <1>0, <1>6 DEF LoopTest, NoLostWakeup, CountInv, ControlInv, TypeOK
<1>7. CASE LoopItem
  BY <1>0, <1>7 DEF LoopItem, NoLostWakeup, CountInv, ControlInv, TypeOK
<1>8. CASE LoopWait
  BY <1>0, <1>8 DEF LoopWait, NoLostWakeup, CountInv, ControlInv, TypeOK
<1>9. CASE LoopExit
  BY <1>0, <1>9 DEF LoopExit, NoLostWakeup, CountInv, ControlInv, TypeOK
<1>10. CASE LogFileEnable
  BY <1>0, <1>10 DEF LogFileEnable, NoLostWakeup, CountInv, ControlInv, TypeOK
<1>11. CASE LogFileSet
  BY <1>0, <1>11 DEF LogFileSet, NoLostWakeup, CountInv, ControlInv, TypeOK
<1>12. CASE LogFileDisable
  BY <1>0, <1>12 DEF LogFileDisable, NoLostWakeup, CountInv, ControlInv, TypeOK
<1>13. CASE StartLogThread
  BY <1>0, <1>13 DEF StartLogThread, NoLostWakeup, CountInv, ControlInv, TypeOK
<1>14. CASE GcBegin
  BY <1>0, <1>14 DEF GcBegin, NoLostWakeup, CountInv, ControlInv, TypeOK
<1>15. CASE GcSignal
  <2>1. stop' # 0
    BY <1>0, <1>15 DEF GcSignal, ControlInv, Running
  <2> QED BY <2>1 DEF NoLostWakeup
<1>16. CASE GcTest
  BY <1>0, <1>16 DEF GcTest, NoLostWakeup, CountInv, ControlInv, TypeOK
<1>17. CASE GcFlush
  <2>1. stop' # 0
    BY <1>0, <1>17 DEF GcFlush, ControlInv, Running
  <2> QED BY <2>1 DEF NoLostWakeup
<1>18. CASE GcCount
  <2>1. stop' # 0
    BY <1>0, <1>18 DEF GcCount, ControlInv, Running
  <2> QED BY <2>1 DEF NoLostWakeup
<1>19. CASE GcFlushed
  BY <1>0, <1>19 DEF GcFlushed, NoLostWakeup, CountInv, ControlInv, TypeOK
<1>20. CASE GcWaitQueue
  BY <1>0, <1>20 DEF GcWaitQueue, NoLostWakeup, CountInv, ControlInv, TypeOK
<1>21. CASE GcWaitThread
  BY <1>0, <1>21 DEF GcWaitThread, NoLostWakeup, CountInv, ControlInv, TypeOK
<1>22. CASE GcJoin
  BY <1>0, <1>22 DEF GcJoin, NoLostWakeup, CountInv, ControlInv, TypeOK
<1>23. CASE GcFree
  BY <1>0, <1>23 DEF GcFree, NoLostWakeup, CountInv, ControlInv, TypeOK
<1>24. CASE UNCHANGED vars
  BY <1>0, <1>24 DEF vars, NoLostWakeup, CountInv, ControlInv, TypeOK
<1> QED
  BY <1>1, <1>2, <1>3, <1>4, <1>5, <1>6, <1>7, <1>8, <1>9, <1>10, <1>11, <1>12,
     <1>13, <1>14, <1>15, <1>16, <1>17, <1>18, <1>19, <1>20, <1>21, <1>22, <1>23, <1>24
  DEF Next, Log, Loop, Start, Gc

----------------------------------------------------------------------------
(* Theorems                                                                *)

(* The inductive invariant of the log library: its three parts, the order  *)
(* of the lines and the wake-ups hold in every reachable state.            *)
THEOREM Invariant == Spec => []IInv
<1>1. IInv /\ [Next]_vars => IInv'
  BY TypeNext, ControlNext, CountNext, OrderNext, WakeupNext DEF IInv
<1> QED BY <1>1, InvInit, PTL DEF Spec

(* The variables of the log library stay in their ranges: the count of     *)
(* the queued lines neither drops below zero nor passes the limit, even    *)
(* with log_gc taking lines off without the mutex.                         *)
THEOREM LogTypeCorrect == Spec => []TypeOK
<1>1. IInv => TypeOK
  BY DEF IInv
<1> QED BY <1>1, Invariant, PTL

(* The lines that logprintf queued are taken off in that order, each once, *)
(* by logloop or by log_gc, for any number of threads and lines.           *)
THEOREM LinesKeepOrder == Spec => []LinesInOrder
<1>1. IInv => LinesInOrder
  BY DEF IInv
<1> QED BY <1>1, Invariant, PTL

(* logloop never takes a line from an empty list.                          *)
THEOREM LoopDequeuesSafely == Spec => []DequeueSafe
<1>1. IInv => DequeueSafe
  BY ItemThere DEF IInv
<1> QED BY <1>1, Invariant, PTL

(* logloop never sleeps through a queued line, although logprintf signals  *)
(* the condition after it has released the mutex.                          *)
THEOREM LogWakeupsNeverLost == Spec => []NoLostWakeup
<1>1. IInv => NoLostWakeup
  BY DEF IInv
<1> QED BY <1>1, Invariant, PTL

(* log_gc, if it returns, leaves no line behind that was queued before it. *)
THEOREM NothingLeftAtEnd == Spec => []FlushedAtEnd
<1>1. IInv => FlushedAtEnd
  BY DEF IInv, CountInv, FlushedAtEnd
<1> QED BY <1>1, Invariant, PTL
============================================================================
