-------------------------- MODULE EventsQueueProofs -------------------------
(***************************************************************************)
(* Proofs about the queue of the events library, within EventsClient: for  *)
(* any limit of the queue, any messages and any number of connections.     *)
(***************************************************************************)
EXTENDS EventsClient, TLAPS

(* What the steps of the socket library and of the daemon leave alone.     *)
LEMMA QueueFrame ==
  ASSUME [Next]_vars
  PROVE  \/ UNCHANGED eventsVars
         \/ \E m : QueueBegin(m)
         \/ QueueStep \/ LoopStep \/ GcStep \/ GcBegin(Quiet)
         \/ /\ mpc = "freed" /\ mpc' = "ended"
            /\ UNCHANGED <<flagVars, listVars, owner, clientVars, loopVars, calm, raced>>
<1>1. CASE Broadcast \/ SendPart("broadcast") \/ SocketStep \/ RecvOther
  BY <1>1 DEF Broadcast, SendPart, SocketStep, Accept, RecvIdentify, ParseRequest,
     Answer, RecvOther
<1>2. CASE QueueNext
  BY <1>2 DEF QueueNext
<1>3. CASE Connect \/ TestLoop \/ ReadRecv \/ ReadCopy \/ ReadTimeout \/ ReadStopped
  BY <1>3 DEF Connect, TestLoop, ReadRecv, ReadCopy, ReadTimeout, ReadStopped
<1>4. CASE QueueCall \/ EventsLoop \/ EventsGc
  BY <1>4 DEF QueueCall, EventsLoop, EventsGc
<1>5. CASE MainGc
  BY <1>5 DEF MainGc
<1>6. CASE SocketGc
  BY <1>6 DEF SocketGc
<1>7. CASE UNCHANGED vars
  BY <1>7 DEF vars
<1> QED BY <1>1, <1>2, <1>3, <1>4, <1>5, <1>6, <1>7 DEF Next, ClientStep, GcEnd

----------------------------------------------------------------------------
(* A calm events_gc                                                        *)

(* events_gc has cleared loop while events_loop waited, which then goes    *)
(* from the wait to its end.                                               *)
CalmInv ==
  /\ calm \in 0 .. 2
  /\ calm > 0 => loop = 0 /\ mpc # "run" /\ lpc \in {"waiting", "lock", "test", "done"}

(* Every step keeps it.                                                    *)
LEMMA CalmNext == CalmInv /\ [Next]_vars => CalmInv'
<1> SUFFICES ASSUME CalmInv, [Next]_vars PROVE CalmInv'
  OBVIOUS
<1> USE DEF CalmInv, flagVars, loopVars, gcVars
<1>1. CASE UNCHANGED eventsVars
  BY <1>1 DEF eventsVars
<1>2. ASSUME NEW m, QueueBegin(m) PROVE CalmInv'
  BY <1>2 DEF QueueBegin
<1>3. CASE QueueStep
  <2>1. CASE QueueLock \/ QueueTest \/ QueueLink
    BY <2>1 DEF QueueLock, QueueTest, QueueLink
  <2>2. CASE QueueUnlock \/ QueueSignal
    BY <2>2 DEF QueueUnlock, QueueSignal, Signalled
  <2> QED BY <1>3, <2>1, <2>2 DEF QueueStep
<1>4. CASE LoopStep
  <2>1. CASE LoopStart \/ LoopLock \/ LoopTest
    BY <2>1 DEF LoopStart, LoopLock, LoopTest
  <2>2. CASE LoopRunning \/ LoopRules
    BY <2>2 DEF LoopRunning, LoopRules
  <2>3. CASE LoopIdle \/ LoopWait
    BY <2>3 DEF LoopIdle, LoopWait
  <2> QED BY <1>4, <2>1, <2>2, <2>3 DEF LoopStep
<1>5. CASE GcStep
  BY <1>5 DEF GcStep, GcSignal, GcFree, Signalled
<1>6. CASE GcBegin(Quiet)
  BY <1>6 DEF GcBegin
<1>7. CASE mpc' = "ended" /\ UNCHANGED <<flagVars, listVars, owner, clientVars, loopVars, calm, raced>>
  BY <1>7
<1> QED BY <1>1, <1>2, <1>3, <1>4, <1>5, <1>6, <1>7, QueueFrame

(* A rule that runs uses no operator, action or function that events_gc    *)
(* has freed, if it found events_loop waiting.                             *)
THEOREM CalmGcIsSafe == Spec => []CalmGcSafe
<1>1. Init => CalmInv
  BY DEF Init, EventsInit, CalmInv
<1>2. CalmInv => CalmGcSafe
  BY DEF CalmInv, CalmGcSafe
<1> QED BY <1>1, <1>2, CalmNext, PTL DEF Spec

----------------------------------------------------------------------------
(* The queue                                                               *)

Elements(s) == {s[i] : i \in DOMAIN s}
IsSequence(s) == s \in Seq(Elements(s))

(* Nothing is known of a message, so that sequences of them are sequences  *)
(* of their own elements.                                                  *)
LEMMA OwnElements ==
  ASSUME NEW S, NEW s \in Seq(S)
  PROVE  IsSequence(s)
<1>1. s \in [1 .. Len(s) -> Elements(s)] /\ Len(s) \in Nat
  BY DEF Elements
<1> QED BY <1>1 DEF IsSequence

(* Taking the head of t to the end of s leaves s \o t as it is.            *)
LEMMA HeadMoved ==
  ASSUME NEW S, NEW s \in Seq(S), NEW t \in Seq(S), t /= <<>>
  PROVE  Append(s, Head(t)) \o Tail(t) = s \o t
<1>1. Append(s, Head(t)) \in Seq(S) /\ Tail(t) \in Seq(S) /\ s \o t \in Seq(S)
  OBVIOUS
<1>2. Len(Append(s, Head(t)) \o Tail(t)) = Len(s \o t)
  BY <1>1
<1>3. \A i \in 1 .. Len(s \o t) : (Append(s, Head(t)) \o Tail(t))[i] = (s \o t)[i]
  BY <1>1
<1> QED BY <1>1, <1>2, <1>3

(* Who holds events_lock, and what events_queue has found out under it or, *)
(* before events_loop has begun, without it.                               *)
LockInv ==
  /\ eventslock_init \in {0, 1} /\ raced \in {0, 1}
  /\ lpc = "none" <=> eventslock_init = 0
  /\ owner = "loop" <=> lpc \in {"test", "item", "rules", "towait", "wait", "done"}
  /\ owner = "client" => cpc \in {"test", "link", "unlock"}
  /\ raced = 0 /\ cpc \in {"test", "link"} => owner = "client" \/ lpc = "none"

(* While raced = 0, the list is what has been queued and not been handled. *)
ListInv ==
  /\ IsSequence(handled) /\ IsSequence(eventsqueue)
  /\ accepted = handled \o eventsqueue
  /\ Len(eventsqueue) = eventsqueue_number
  /\ cpc = "link" => empty = IF eventsqueue_number = 0 THEN 1 ELSE 0
  /\ lpc \in {"item", "rules"} => eventsqueue_number > 0

EventsInv == LockInv /\ (raced = 0 => ListInv)

(* The mutex.                                                              *)
LEMMA LockNext == LockInv /\ [Next]_vars => LockInv'
<1> SUFFICES ASSUME LockInv, [Next]_vars PROVE LockInv'
  OBVIOUS
<1> USE DEF LockInv, flagVars, loopVars, clientVars, gcVars
<1>1. CASE UNCHANGED eventsVars
  BY <1>1 DEF eventsVars
<1>2. ASSUME NEW m, QueueBegin(m) PROVE LockInv'
  BY <1>2 DEF QueueBegin
<1>3. CASE QueueStep
  <2>1. CASE QueueLock \/ QueueTest \/ QueueLink
    BY <2>1 DEF QueueLock, QueueTest, QueueLink
  <2>2. CASE QueueUnlock \/ QueueSignal
    BY <2>2 DEF QueueUnlock, QueueSignal, Signalled
  <2> QED BY <1>3, <2>1, <2>2 DEF QueueStep
<1>4. CASE LoopStep
  <2>1. CASE LoopStart \/ LoopLock \/ LoopTest
    BY <2>1 DEF LoopStart, LoopLock, LoopTest
  <2>2. CASE LoopRunning \/ LoopRules
    BY <2>2 DEF LoopRunning, LoopRules
  <2>3. CASE LoopIdle \/ LoopWait
    BY <2>3 DEF LoopIdle, LoopWait
  <2> QED BY <1>4, <2>1, <2>2, <2>3 DEF LoopStep
<1>5. CASE GcStep
  BY <1>5 DEF GcStep, GcSignal, GcFree, Signalled
<1>6. CASE GcBegin(Quiet)
  BY <1>6 DEF GcBegin
<1>7. CASE mpc' = "ended" /\ UNCHANGED <<flagVars, listVars, owner, clientVars, loopVars, calm, raced>>
  BY <1>7
<1> QED BY <1>1, <1>2, <1>3, <1>4, <1>5, <1>6, <1>7, QueueFrame

(* events_queue links a message behind the others.                         *)
LEMMA LinkStep ==
  ASSUME LockInv, ListInv, raced = 0, QueueLink
  PROVE  ListInv'
<1>1. /\ cpc = "link" /\ cpc' = "unlock" /\ UNCHANGED <<handled, lpc, empty>>
      /\ eventsqueue' = IF empty = 1 THEN <<received>>
                        ELSE IF eventsqueue = <<>> THEN <<>>
                        ELSE Append(eventsqueue, received)
      /\ eventsqueue_number' = eventsqueue_number + 1
      /\ accepted' = Append(accepted, received)
  BY DEF QueueLink, loopVars
<1>2. PICK S : handled \in Seq(S) /\ eventsqueue \in Seq(S) /\ received \in S
  <2> DEFINE H == Elements(handled)
             Q == Elements(eventsqueue)
  <2>1. handled \in Seq(H) /\ eventsqueue \in Seq(Q)
    BY DEF ListInv, IsSequence
  <2>2. handled \in Seq(H \cup Q \cup {received}) /\ eventsqueue \in Seq(H \cup Q \cup {received})
    BY <2>1
  <2> QED BY <2>2
<1>3. eventsqueue' = Append(eventsqueue, received)
  <2>1. empty = IF eventsqueue_number = 0 THEN 1 ELSE 0
    BY <1>1 DEF ListInv
  <2>2. Len(eventsqueue) = eventsqueue_number
    BY DEF ListInv
  <2>3. eventsqueue_number = 0 => eventsqueue = <<>>
    BY <1>2, <2>2
  <2> QED BY <1>1, <1>2, <2>1, <2>2, <2>3
<1>4. IsSequence(handled) /\ IsSequence(Append(eventsqueue, received))
  <2>1. Append(eventsqueue, received) \in Seq(S)
    BY <1>2
  <2> QED BY <1>2, <2>1, OwnElements, Zenon
<1>5. Append(handled \o eventsqueue, received) = handled \o Append(eventsqueue, received)
  <2>1. handled \o eventsqueue \in Seq(S) /\ Append(eventsqueue, received) \in Seq(S)
    BY <1>2
  <2> QED BY <1>2, <2>1
<1>6. /\ Len(Append(eventsqueue, received)) = Len(eventsqueue) + 1
      /\ Len(eventsqueue) + 1 > 0
  BY <1>2
<1>7. IsSequence(handled)' /\ IsSequence(eventsqueue)'
  BY <1>1, <1>3, <1>4 DEF IsSequence, Elements
<1>8. (accepted = handled \o eventsqueue)'
  BY <1>1, <1>3, <1>5 DEF ListInv
<1> QED BY <1>1, <1>3, <1>6, <1>7, <1>8 DEF ListInv

(* events_loop takes the first message.                                    *)
LEMMA RulesStep ==
  ASSUME LockInv, ListInv, raced = 0, LoopRules
  PROVE  ListInv'
<1>1. /\ lpc = "rules" /\ lpc' = "test" /\ eventsqueue /= <<>> /\ UNCHANGED <<accepted, cpc, empty>>
      /\ handled' = Append(handled, Head(eventsqueue))
      /\ eventsqueue' = Tail(eventsqueue)
      /\ eventsqueue_number' = eventsqueue_number - 1
  BY DEF LoopRules, clientVars
<1>2. cpc # "link"
  BY <1>1 DEF LockInv
<1>3. PICK S : handled \in Seq(S) /\ eventsqueue \in Seq(S)
  <2> DEFINE H == Elements(handled)
             Q == Elements(eventsqueue)
  <2>1. handled \in Seq(H) /\ eventsqueue \in Seq(Q)
    BY DEF ListInv, IsSequence
  <2>2. handled \in Seq(H \cup Q) /\ eventsqueue \in Seq(H \cup Q)
    BY <2>1
  <2> QED BY <2>2
<1>4. Head(eventsqueue) \in S /\ Tail(eventsqueue) \in Seq(S)
  BY <1>1, <1>3
<1>5. IsSequence(Append(handled, Head(eventsqueue))) /\ IsSequence(Tail(eventsqueue))
  <2>1. Append(handled, Head(eventsqueue)) \in Seq(S)
    BY <1>3, <1>4
  <2> QED BY <1>4, <2>1, OwnElements, Zenon
<1>6. accepted = Append(handled, Head(eventsqueue)) \o Tail(eventsqueue)
  BY <1>1, <1>3, HeadMoved DEF ListInv
<1>7. Len(Tail(eventsqueue)) = Len(eventsqueue) - 1
  BY <1>1, <1>3
<1>8. IsSequence(handled)' /\ IsSequence(eventsqueue)'
  BY <1>1, <1>5 DEF IsSequence, Elements
<1> QED BY <1>1, <1>2, <1>6, <1>7, <1>8 DEF ListInv

(* Every step of a behaviour without that race.                            *)
LEMMA EventsNext == EventsInv /\ [Next]_vars => EventsInv'
<1> SUFFICES ASSUME LockInv, ListInv, raced = 0, raced' = 0, [Next]_vars PROVE ListInv'
  <2>1. ASSUME raced' = 0, LockInv, [Next]_vars PROVE raced = 0
    <3>1. CASE LoopStart
      BY <2>1, <3>1 DEF LoopStart, LockInv
    <3>2. ~LoopStart => raced' = raced
      BY <2>1, QueueFrame DEF QueueBegin, QueueStep, QueueLock, QueueTest, QueueLink, QueueUnlock,
         QueueSignal, LoopStep, LoopLock, LoopTest, LoopRunning, LoopRules, LoopIdle,
         LoopWait, GcStep, GcSignal, GcFree, GcBegin, eventsVars
    <3> QED BY <2>1, <3>1, <3>2
  <2> QED BY <2>1, LockNext DEF EventsInv
<1> USE DEF flagVars, listVars, loopVars, clientVars, gcVars
<1>1. CASE UNCHANGED eventsVars
  BY <1>1 DEF eventsVars, ListInv
<1>2. ASSUME NEW m, QueueBegin(m) PROVE ListInv'
  BY <1>2 DEF QueueBegin, ListInv
<1>3. CASE QueueStep
  <2>1. CASE QueueLink
    BY <2>1, LinkStep
  <2>2. CASE QueueTest
    BY <2>2 DEF QueueTest, ListInv
  <2>3. CASE QueueLock \/ QueueUnlock \/ QueueSignal
    BY <2>3 DEF QueueLock, QueueUnlock, QueueSignal, Signalled, ListInv
  <2> QED BY <1>3, <2>1, <2>2, <2>3 DEF QueueStep
<1>4. CASE LoopStep
  <2>1. CASE LoopRules
    BY <2>1, RulesStep
  <2>2. CASE LoopStart \/ LoopLock \/ LoopTest
    BY <2>2 DEF LoopStart, LoopLock, LoopTest, ListInv
  <2>3. CASE LoopRunning \/ LoopIdle \/ LoopWait
    BY <2>3 DEF LoopRunning, LoopIdle, LoopWait, ListInv
  <2> QED BY <1>4, <2>1, <2>2, <2>3 DEF LoopStep
<1>5. CASE GcStep
  BY <1>5 DEF GcStep, GcSignal, GcFree, Signalled, ListInv
<1>6. CASE GcBegin(Quiet)
  BY <1>6 DEF GcBegin, ListInv
<1>7. CASE mpc' = "ended" /\ UNCHANGED <<flagVars, listVars, owner, clientVars, loopVars, calm, raced>>
  BY <1>7 DEF ListInv
<1> QED BY <1>1, <1>2, <1>3, <1>4, <1>5, <1>6, <1>7, QueueFrame

(* The rules see every queued message once and in the order of events_queue *)
(* although events_loop creates the mutex only after messages may have      *)
(* been queued, unless it does so in the middle of an events_queue.         *)
THEOREM RulesSeeQueueInOrder == Spec => [](raced = 0 => QueueInOrder)
<1>1. Init => EventsInv
  <2> SUFFICES ASSUME Init PROVE EventsInv
    OBVIOUS
  <2>1. IsSequence(handled) /\ IsSequence(eventsqueue)
    <3>1. <<>> \in Seq({})
      OBVIOUS
    <3> QED BY <3>1, OwnElements DEF Init, EventsInit
  <2>2. accepted = handled \o eventsqueue
    BY DEF Init, EventsInit
  <2> QED BY <2>1, <2>2 DEF Init, EventsInit, EventsInv, LockInv, ListInv
<1>2. EventsInv => (raced = 0 => QueueInOrder)
  BY DEF EventsInv, ListInv, QueueInOrder
<1> QED BY <1>1, <1>2, EventsNext, PTL DEF Spec

============================================================================
