------------------------- MODULE DaemonQueuesProofs -------------------------
(***************************************************************************)
(* Proofs about DaemonQueues, for any set of callers, any number of calls  *)
(* and any limits.                                                         *)
(***************************************************************************)
EXTENDS DaemonQueues, SequenceTheorems, TLAPS

----------------------------------------------------------------------------
(* The inductive invariant                                                 *)

(* Between two steps only the thread of a queue holds its mutex, once      *)
(* between the items and twice while it handles one.                       *)
LockInv ==
  \A q \in Queues :
    /\ wpc[q] \in {"lock", "waiting"} => owner[q] = Nobody /\ depth[q] = 0
    /\ wpc[q] \in {"test", "towait", "item", "returned"} => owner[q] = q /\ depth[q] = 1
    /\ wpc[q] = "work" => owner[q] = q /\ depth[q] = 2
    /\ wpc[q] \in {"item", "work"} => queue[q] # <<>>
    /\ wpc[q] = "towait" => queue[q] = <<>>

(* An item leads only to later queues, or from bc to bc.                   *)
Leads(w) ==
  CASE w = "send" -> {"event", "recv", "bc"}
    [] w = "recv" -> {"bc"}
    [] w = "bc"   -> {"event", "core"}

CallInv ==
  \A w \in Workers :
    /\ todo[w] \in Seq(Leads(w))
    /\ cpc[w] # "none" => wpc[w] = "work"
    /\ cpc[w] # "none" => target[w].queue = w \/ Rank(w) < Rank(target[w].queue)
    /\ cpc[w] # "none" => target[w].queue # "send"

IInv == TypeOK /\ LockInv /\ CallInv /\ NoLostWakeup

----------------------------------------------------------------------------
(* Facts about the parts of the model                                      *)

(* The worker threads, main and the callers are different threads.         *)
LEMMA ThreadFacts ==
  /\ Workers \subseteq Threads /\ Main \in Threads /\ Nobody \notin Threads
  /\ Main \notin Workers /\ \A t \in Callers : t \in Threads /\ t \notin Workers
  BY DaemonQueuesConstants DEF Threads, Workers, Queues, Main, Nobody

(* Two sequences over a set make a sequence over it.                       *)
LEMMA ConcatSeq ==
  ASSUME NEW S, NEW s \in Seq(S), NEW t \in Seq(S)
  PROVE  s \o t \in Seq(S)
  BY ConcatProperties

(* An optional element of a set is a sequence over it.                     *)
LEMMA MaybeSeq ==
  ASSUME NEW S, NEW x \in S
  PROVE  <<>> \in Seq(S) /\ <<x>> \in Seq(S) /\ \A m \in Maybe(x) : m \in Seq(S)
  BY DEF Maybe

(* The follow-ups of an item stay within Leads.                            *)
LEMMA FollowUpsLead ==
  ASSUME NEW w \in Workers, NEW f \in FollowUps(w)
  PROVE  f \in Seq(Leads(w)) /\ Leads(w) \subseteq {"event", "recv", "bc", "core"}
<1>1. CASE w = "send"
  <2>1. Leads(w) = {"event", "recv", "bc"}
    BY <1>1 DEF Leads
  <2>2. PICK e \in Maybe("event"), r \in Maybe("recv"), b \in Maybe("bc") : f = e \o r \o b
    BY <1>1 DEF FollowUps
  <2>3. e \in Seq(Leads(w)) /\ r \in Seq(Leads(w)) /\ b \in Seq(Leads(w))
    BY <2>1, MaybeSeq
  <2> QED BY <2>1, <2>2, <2>3, ConcatSeq
<1>2. CASE w = "recv"
  <2>1. Leads(w) = {"bc"}
    BY <1>2 DEF Leads
  <2>2. PICK n \in 0..MaxMessages : f = [i \in 1..n |-> "bc"]
    BY <1>2 DEF FollowUps
  <2> QED BY <2>1, <2>2, DaemonQueuesConstants
<1>3. CASE w = "bc"
  <2>1. Leads(w) = {"event", "core"}
    BY <1>3 DEF Leads
  <2>2. f \in {<<>>, <<"event">>} \/ \E u \in Maybe("event"), k \in Maybe("core") : f = u \o k \o <<"event">>
    BY <1>3 DEF FollowUps
  <2>3. CASE f \in {<<>>, <<"event">>}
    BY <2>1, <2>3, MaybeSeq
  <2>4. ASSUME NEW u \in Maybe("event"), NEW k \in Maybe("core"), f = u \o k \o <<"event">>
        PROVE  f \in Seq(Leads(w))
    <3>1. u \in Seq(Leads(w)) /\ k \in Seq(Leads(w)) /\ <<"event">> \in Seq(Leads(w))
      BY <2>1, MaybeSeq
    <3> QED BY <2>4, <3>1, ConcatSeq
  <2> QED BY <2>1, <2>2, <2>3, <2>4
<1> QED BY <1>1, <1>2, <1>3 DEF Workers, Queues

(* The daemon starts with the invariant.                                   *)
LEMMA InvInit == Init => IInv
<1> SUFFICES ASSUME Init PROVE IInv
  OBVIOUS
<1> USE DaemonQueuesConstants DEF Init
<1>1. TypeOK
  BY DEF TypeOK, Queues, Workers, Threads, Kinds, NoCall
<1>2. LockInv
  BY DEF LockInv, Queues, Workers
<1>3. CallInv
  BY ThreadFacts DEF CallInv, Leads, Queues, Workers
<1>4. NoLostWakeup
  BY DEF NoLostWakeup, Queues
<1> QED BY <1>1, <1>2, <1>3, <1>4 DEF IInv

----------------------------------------------------------------------------
(* Types                                                                   *)

(* Every step keeps the types.                                             *)
LEMMA TypeNext == IInv /\ [Next]_vars => TypeOK'
<1> SUFFICES ASSUME TypeOK, LockInv, CallInv, [Next]_vars PROVE TypeOK'
  BY DEF IInv
<1> USE DaemonQueuesConstants, ThreadFacts DEF mainVars, lockVars, callVars
<1>1. ASSUME NEW t \in Threads, NEW q \in Queues, NEW k \in Kinds, Enter(t, q, k)
      PROVE  /\ cpc' \in [Threads -> {"none", "check", "lock", "signal"}]
             /\ target' \in [Threads -> [queue : Queues, kind : Kinds]]
  BY <1>1 DEF Enter, Entry, TypeOK
<1>2. ASSUME NEW t \in Callers, NEW q \in CallQueues, Call(t, q) PROVE TypeOK'
  <2>1. /\ cpc' \in [Threads -> {"none", "check", "lock", "signal"}]
        /\ target' \in [Threads -> [queue : Queues, kind : Kinds]]
    BY <1>1, <1>2 DEF Call, Kinds
  <2> QED BY <1>2, <2>1 DEF Call, TypeOK
<1>3. ASSUME NEW t \in Threads, CallCheck(t) PROVE TypeOK'
  BY <1>3 DEF CallCheck, TypeOK
<1>4. ASSUME NEW t \in Threads, CallAppend(t) PROVE TypeOK'
  <2> DEFINE q == target[t].queue
             k == target[t].kind
  <2>1. q \in Queues /\ k \in Kinds
    BY DEF TypeOK
  <2>2. queue \in [Queues -> Seq(Kinds)] /\ queue' = [queue EXCEPT ![q] = Append(@, k)]
    BY <1>4 DEF CallAppend, TypeOK
  <2>3. queue' \in [Queues -> Seq(Kinds)]
    <3> HIDE DEF q, k
    <3> QED BY <2>1, <2>2
  <2> QED BY <1>4, <2>3 DEF CallAppend, TypeOK
<1>5. ASSUME NEW t \in Threads, CallDrop(t) PROVE TypeOK'
  BY <1>5 DEF CallDrop, TypeOK
<1>6. ASSUME NEW t \in Threads, CallSignal(t) PROVE TypeOK'
  BY <1>6 DEF CallSignal, Signalled, TypeOK, Workers
<1>7. ASSUME NEW w \in Workers, WorkerLock(w) PROVE TypeOK'
  BY <1>7 DEF WorkerLock, TypeOK, Workers
<1>8. ASSUME NEW w \in Workers, WorkerTest(w) PROVE TypeOK'
  BY <1>8 DEF WorkerTest, TypeOK, Workers
<1>9. ASSUME NEW w \in Workers, WorkerWait(w) PROVE TypeOK'
  <2>1. depth[w] = 1
    BY <1>9 DEF WorkerWait, LockInv, Workers
  <2> QED BY <1>9, <2>1 DEF WorkerWait, TypeOK, Workers
<1>10. ASSUME NEW w \in Workers, WorkerItem(w) PROVE TypeOK'
  <2>1. depth[w] = 1
    BY <1>10 DEF WorkerItem, LockInv, Workers
  <2>2. PICK f \in FollowUps(w) : todo' = [todo EXCEPT ![w] = f]
    BY <1>10 DEF WorkerItem
  <2>3. f \in Seq({"event", "recv", "bc", "core"})
    BY FollowUpsLead
  <2>4. todo' \in [Workers -> Seq({"event", "recv", "bc", "core"})]
    BY <2>2, <2>3 DEF TypeOK
  <2>5. depth' \in [Queues -> 0..2] /\ late' \in Nat /\ sending' \in {0, 1}
    BY <1>10, <2>1 DEF WorkerItem, TypeOK, Workers
  <2> QED BY <1>10, <2>4, <2>5 DEF WorkerItem, TypeOK
<1>11. ASSUME NEW w \in Workers, WorkerTrigger(w) PROVE TypeOK'
  <2>1. todo' \in [Workers -> Seq({"event", "recv", "bc", "core"})]
    BY <1>11 DEF WorkerTrigger, TypeOK
  <2> QED BY <1>11, <2>1 DEF WorkerTrigger, TypeOK
<1>12. ASSUME NEW w \in Workers, WorkerCall(w) PROVE TypeOK'
  <2>1. todo' \in [Workers -> Seq({"event", "recv", "bc", "core"})]
    BY <1>12 DEF WorkerCall, TypeOK
  <2>2. Head(todo[w]) \in {"event", "recv", "bc", "core"}
    BY <1>12 DEF WorkerCall, TypeOK
  <2>3. \E q \in Queues, k \in Kinds : Enter(w, q, k)
    BY <1>12, <2>2 DEF WorkerCall, Queues, Kinds
  <2>4. /\ cpc' \in [Threads -> {"none", "check", "lock", "signal"}]
        /\ target' \in [Threads -> [queue : Queues, kind : Kinds]]
    BY <1>1, <2>3
  <2> QED BY <1>12, <2>1, <2>4 DEF WorkerCall, TypeOK
<1>13. ASSUME NEW w \in Workers, WorkerPop(w) PROVE TypeOK'
  <2>1. depth[w] = 2 /\ queue[w] # <<>>
    BY <1>13 DEF WorkerPop, LockInv, Workers
  <2>2. queue' \in [Queues -> Seq(Kinds)] /\ depth' \in [Queues -> 0..2]
    BY <1>13, <2>1 DEF WorkerPop, TypeOK, Workers
  <2> QED BY <1>13, <2>2 DEF WorkerPop, TypeOK
<1>14. CASE MainDrain
  BY <1>14 DEF MainDrain, TypeOK
<1>15. CASE MainStats
  <2>1. /\ cpc' \in [Threads -> {"none", "check", "lock", "signal"}]
        /\ target' \in [Threads -> [queue : Queues, kind : Kinds]]
    BY <1>1, <1>15 DEF MainStats, Kinds, Queues
  <2> QED BY <1>15, <2>1 DEF MainStats, TypeOK
<1>16. CASE GcBegin
  BY <1>16 DEF GcBegin, TypeOK
<1>17. CASE GcSending
  BY <1>17 DEF GcSending, TypeOK
<1>18. CASE GcSignal
  <2>1. mpc' \in {"run", "sending", "recv", "send", "bc", "pool", "join", "done"}
    BY <1>18 DEF GcSignal, AfterSignal, Queues
  <2> QED BY <1>18, <2>1 DEF GcSignal, Signalled, TypeOK, Workers
<1>19. CASE GcPool
  BY <1>19 DEF GcPool, TypeOK
<1>20. CASE GcJoin
  BY <1>20 DEF GcJoin, TypeOK
<1>21. CASE UNCHANGED vars
  BY <1>21 DEF vars, TypeOK
<1> QED
  BY <1>2, <1>3, <1>4, <1>5, <1>6, <1>7, <1>8, <1>9, <1>10, <1>11, <1>12, <1>13,
     <1>14, <1>15, <1>16, <1>17, <1>18, <1>19, <1>20, <1>21
  DEF Next, InCall, Work, Gc

----------------------------------------------------------------------------
(* The mutexes                                                             *)

(* A step that leaves alone everything LockInv speaks of.                  *)
LEMMA LockStutter == LockInv /\ UNCHANGED <<wpc, owner, depth, queue>> => LockInv'
  BY DEF LockInv

(* A signal only makes a waiting thread ask for its mutex.                 *)
LEMMA LockSignal ==
  ASSUME TypeOK, LockInv, NEW q \in Queues, Signalled(q), UNCHANGED <<owner, depth, queue>>
  PROVE  LockInv'
  BY DEF TypeOK, LockInv, Signalled, Workers

(* Every step keeps who holds which mutex, and how often.                  *)
LEMMA LockNext == IInv /\ [Next]_vars => LockInv'
<1> SUFFICES ASSUME TypeOK, LockInv, CallInv, [Next]_vars PROVE LockInv'
  BY DEF IInv
<1> USE ThreadFacts DEF mainVars, lockVars, callVars
<1>1. ASSUME NEW t \in Callers, NEW q \in CallQueues, Call(t, q) PROVE LockInv'
  BY <1>1, LockStutter DEF Call
<1>2. ASSUME NEW t \in Threads, CallCheck(t) \/ CallDrop(t) PROVE LockInv'
  BY <1>2, LockStutter DEF CallCheck, CallDrop
<1>3. ASSUME NEW t \in Threads, CallAppend(t) PROVE LockInv'
  <2> DEFINE q == target[t].queue
             k == target[t].kind
  <2>1. /\ q \in Queues /\ k \in Kinds
        /\ queue \in [Queues -> Seq(Kinds)] /\ queue' = [queue EXCEPT ![q] = Append(@, k)]
        /\ UNCHANGED <<wpc, owner, depth>>
    BY <1>3 DEF CallAppend, TypeOK
  <2>2. owner[q] \in {Nobody, t}
    BY <1>3 DEF CallAppend, MayLock
  <2>3. wpc[q] # "towait"
    <3> SUFFICES ASSUME wpc[q] = "towait" PROVE FALSE
      OBVIOUS
    <3>1. owner[q] = q
      BY <2>1 DEF LockInv
    <3>2. t = q /\ t \in Workers
      BY <2>1, <2>2, <3>1 DEF Workers
    <3>3. cpc[t] # "none"
      BY <1>3 DEF CallAppend
    <3> QED BY <3>2, <3>3 DEF CallInv
  <2> HIDE DEF q, k
  <2>4. \A p \in Queues : queue'[p] = IF p = q THEN Append(queue[q], k) ELSE queue[p]
    BY <2>1
  <2>5. Append(queue[q], k) # <<>>
    BY <2>1
  <2> QED BY <2>1, <2>3, <2>4, <2>5 DEF LockInv
<1>4. ASSUME NEW t \in Threads, CallSignal(t) PROVE LockInv'
  <2>1. target[t].queue \in Queues
    BY DEF TypeOK
  <2> QED BY <1>4, <2>1, LockSignal DEF CallSignal
<1>5. ASSUME NEW w \in Workers, WorkerLock(w) PROVE LockInv'
  BY <1>5 DEF WorkerLock, LockInv, TypeOK, Workers
<1>6. ASSUME NEW w \in Workers, WorkerTest(w) PROVE LockInv'
  <2>1. /\ w \in Queues /\ wpc[w] = "test" /\ UNCHANGED <<owner, depth, queue>>
        /\ \A q \in Queues : q # w => wpc'[q] = wpc[q]
        /\ \/ wpc'[w] = "returned"
           \/ wpc'[w] = "item" /\ queue[w] # <<>>
           \/ wpc'[w] = "towait" /\ queue[w] = <<>>
    BY <1>6 DEF WorkerTest, TypeOK, Workers
  <2> QED BY <2>1 DEF LockInv
<1>7. ASSUME NEW w \in Workers, WorkerWait(w) PROVE LockInv'
  BY <1>7 DEF WorkerWait, LockInv, TypeOK, Workers
<1>8. ASSUME NEW w \in Workers, WorkerItem(w) PROVE LockInv'
  BY <1>8 DEF WorkerItem, LockInv, TypeOK, Workers
<1>9. ASSUME NEW w \in Workers, WorkerTrigger(w) \/ WorkerCall(w) PROVE LockInv'
  BY <1>9, LockStutter DEF WorkerTrigger, WorkerCall
<1>10. ASSUME NEW w \in Workers, WorkerPop(w) PROVE LockInv'
  BY <1>10 DEF WorkerPop, LockInv, TypeOK, Workers
<1>11. CASE MainDrain \/ MainStats \/ GcBegin \/ GcSending \/ GcPool \/ GcJoin
  BY <1>11, LockStutter DEF MainDrain, MainStats, GcBegin, GcSending, GcPool, GcJoin
<1>12. CASE GcSignal
  BY <1>12, LockSignal DEF GcSignal
<1>13. CASE UNCHANGED vars
  BY <1>13, LockStutter DEF vars
<1> QED
  BY <1>1, <1>2, <1>3, <1>4, <1>5, <1>6, <1>7, <1>8, <1>9, <1>10, <1>11, <1>12, <1>13
  DEF Next, InCall, Work, Gc

----------------------------------------------------------------------------
(* The calls made for an item                                              *)

(* A step that leaves alone everything CallInv speaks of.                  *)
LEMMA CallStutter == CallInv /\ UNCHANGED <<wpc, todo, cpc, target>> => CallInv'
  BY DEF CallInv

(* A thread leaves or goes on in its call.                                 *)
LEMMA CallGoesOn ==
  ASSUME TypeOK, CallInv, NEW t \in Threads, cpc[t] # "none",
         NEW v \in {"none", "check", "lock", "signal"}, cpc' = [cpc EXCEPT ![t] = v],
         UNCHANGED <<wpc, todo, target>>
  PROVE  CallInv'
  BY ThreadFacts DEF CallInv, TypeOK

(* A thread that is not a worker enters a call.                            *)
LEMMA CallEntered ==
  ASSUME TypeOK, CallInv, NEW t \in Threads \ Workers, NEW q, NEW k, Enter(t, q, k),
         UNCHANGED <<wpc, todo>>
  PROVE  CallInv'
  BY ThreadFacts DEF Enter, CallInv, TypeOK

(* A signal ends a call and makes a waiting thread ask for its mutex.      *)
LEMMA CallSignalled ==
  ASSUME TypeOK, CallInv, NEW q \in Queues, Signalled(q), UNCHANGED <<todo, target>>,
         \A w \in Workers : cpc'[w] # "none" => cpc[w] # "none"
  PROVE  CallInv'
  BY DEF Signalled, CallInv, TypeOK, Workers

(* A worker that is not in a call moves on.                                *)
LEMMA CallWorker ==
  ASSUME TypeOK, CallInv, NEW w \in Workers, cpc[w] = "none", NEW v,
         wpc' = [wpc EXCEPT ![w] = v], UNCHANGED <<cpc, target>>,
         todo' = todo \/ \E f \in Seq(Leads(w)) : todo' = [todo EXCEPT ![w] = f]
  PROVE  CallInv'
  BY DEF CallInv, TypeOK

(* Every step keeps the calls of the worker threads within Leads.          *)
LEMMA CallNext == IInv /\ [Next]_vars => CallInv'
<1> SUFFICES ASSUME TypeOK, LockInv, CallInv, [Next]_vars PROVE CallInv'
  BY DEF IInv
<1> USE ThreadFacts DEF mainVars, lockVars, callVars
<1>1. ASSUME NEW t \in Callers, NEW q \in CallQueues, Call(t, q) PROVE CallInv'
  BY <1>1, CallEntered DEF Call
<1>2. ASSUME NEW t \in Threads, CallCheck(t) \/ CallDrop(t) \/ CallAppend(t) PROVE CallInv'
  <2>1. PICK v \in {"none", "check", "lock", "signal"} : cpc' = [cpc EXCEPT ![t] = v]
    BY <1>2 DEF CallCheck, CallDrop, CallAppend
  <2>2. cpc[t] # "none" /\ UNCHANGED <<wpc, todo, target>>
    BY <1>2 DEF CallCheck, CallDrop, CallAppend
  <2> QED BY <2>1, <2>2, CallGoesOn
<1>3. ASSUME NEW t \in Threads, CallSignal(t) PROVE CallInv'
  <2>1. target[t].queue \in Queues
    BY DEF TypeOK
  <2>2. \A w \in Workers : cpc'[w] # "none" => cpc[w] # "none"
    BY <1>3 DEF CallSignal, TypeOK
  <2> QED BY <1>3, <2>1, <2>2, CallSignalled DEF CallSignal
<1>4. ASSUME NEW w \in Workers, WorkerLock(w) \/ WorkerTest(w) \/ WorkerWait(w)
      PROVE  CallInv'
  <2>1. cpc[w] = "none"
    BY <1>4 DEF WorkerLock, WorkerTest, WorkerWait, CallInv
  <2>2. \E v : wpc' = [wpc EXCEPT ![w] = v]
    BY <1>4 DEF WorkerLock, WorkerTest, WorkerWait
  <2>3. UNCHANGED <<cpc, target, todo>>
    BY <1>4 DEF WorkerLock, WorkerTest, WorkerWait
  <2> QED BY <2>1, <2>2, <2>3, CallWorker
<1>5. ASSUME NEW w \in Workers, WorkerItem(w) PROVE CallInv'
  <2>1. cpc[w] = "none"
    BY <1>5 DEF WorkerItem, CallInv
  <2>2. PICK f \in FollowUps(w) : todo' = [todo EXCEPT ![w] = f]
    BY <1>5 DEF WorkerItem
  <2>3. f \in Seq(Leads(w))
    BY FollowUpsLead
  <2>4. wpc' = [wpc EXCEPT ![w] = "work"] /\ UNCHANGED <<cpc, target>>
    BY <1>5 DEF WorkerItem
  <2> QED BY <2>1, <2>2, <2>3, <2>4, CallWorker
<1>6. ASSUME NEW w \in Workers, WorkerTrigger(w) \/ WorkerPop(w) PROVE CallInv'
  <2>1. cpc[w] = "none" /\ UNCHANGED <<cpc, target>>
    BY <1>6 DEF WorkerTrigger, WorkerPop
  <2>2. todo[w] \in Seq(Leads(w))
    BY DEF CallInv
  <2>3. todo' = todo \/ \E f \in Seq(Leads(w)) : todo' = [todo EXCEPT ![w] = f]
    <3>1. CASE WorkerTrigger(w)
      <4>1. Tail(todo[w]) \in Seq(Leads(w)) /\ todo' = [todo EXCEPT ![w] = Tail(todo[w])]
        BY <2>2, <3>1 DEF WorkerTrigger
      <4> QED BY <4>1
    <3>2. CASE WorkerPop(w)
      BY <3>2 DEF WorkerPop
    <3> QED BY <1>6, <3>1, <3>2
  <2>4. \E v : wpc' = [wpc EXCEPT ![w] = v]
    BY <1>6 DEF WorkerTrigger, WorkerPop, TypeOK
  <2> QED BY <2>1, <2>3, <2>4, CallWorker
<1>7. ASSUME NEW w \in Workers, WorkerCall(w) PROVE CallInv'
  <2> DEFINE x == Head(todo[w])
             q == IF x = "core" THEN "bc" ELSE x
  <2>1. todo[w] \in Seq(Leads(w)) /\ todo[w] # <<>> /\ x # "event" /\ wpc[w] = "work"
    BY <1>7 DEF WorkerCall, CallInv
  <2>2. x \in Leads(w) /\ Tail(todo[w]) \in Seq(Leads(w))
    BY <2>1
  <2>3. \E k : Enter(w, q, k)
    BY <1>7 DEF WorkerCall
  <2>4. UNCHANGED wpc /\ todo' = [todo EXCEPT ![w] = Tail(@)]
    BY <1>7 DEF WorkerCall
  <2>5. q # "send" /\ (q = w \/ Rank(w) < Rank(q))
    BY <2>1, <2>2 DEF Leads, Rank, Workers, Queues
  <2> HIDE DEF x, q
  <2>6. /\ \A u \in Workers : u # w => cpc'[u] = cpc[u] /\ target'[u] = target[u] /\ todo'[u] = todo[u]
        /\ target'[w].queue = q /\ todo'[w] = Tail(todo[w])
    BY <2>3, <2>4 DEF Enter, TypeOK
  <2> QED BY <2>1, <2>2, <2>4, <2>5, <2>6 DEF CallInv
<1>8. CASE MainStats
  BY <1>8, CallEntered DEF MainStats
<1>9. CASE MainDrain \/ GcBegin \/ GcSending \/ GcPool \/ GcJoin
  BY <1>9, CallStutter DEF MainDrain, GcBegin, GcSending, GcPool, GcJoin
<1>10. CASE GcSignal
  BY <1>10, CallSignalled DEF GcSignal
<1>11. CASE UNCHANGED vars
  BY <1>11, CallStutter DEF vars
<1> QED
  BY <1>1, <1>2, <1>3, <1>4, <1>5, <1>6, <1>7, <1>8, <1>9, <1>10, <1>11
  DEF Next, InCall, Work, Gc

----------------------------------------------------------------------------
(* No wake-up is lost                                                      *)

(* The witness of a queue that is about to be signalled.                   *)
Signaller(t, q) == cpc[t] = "signal" /\ target[t].queue = q

(* A step that leaves alone everything NoLostWakeup speaks of.             *)
LEMMA WakeupStutter ==
  ASSUME NoLostWakeup, main_loop' = main_loop \/ main_loop' = 0, UNCHANGED queue,
         \A q \in Queues : wpc'[q] = "waiting" => wpc[q] = "waiting",
         \A t \in Threads, q \in Queues : Signaller(t, q) /\ wpc'[q] = "waiting" => Signaller(t, q)'
  PROVE  NoLostWakeup'
  BY DEF NoLostWakeup, Signaller

(* No step puts a thread to sleep on an item it would not be woken for.    *)
LEMMA WakeupNext == IInv /\ [Next]_vars => NoLostWakeup'
<1> SUFFICES ASSUME TypeOK, LockInv, CallInv, NoLostWakeup, [Next]_vars PROVE NoLostWakeup'
  BY DEF IInv
<1> USE ThreadFacts DEF mainVars, lockVars, callVars
<1>1. ASSUME NEW t \in Threads, NEW q, NEW k, Enter(t, q, k), UNCHANGED <<main_loop, queue, wpc>>
      PROVE  NoLostWakeup'
  <2>1. \A u \in Threads, p \in Queues : Signaller(u, p) => Signaller(u, p)'
    BY <1>1 DEF Enter, Signaller, TypeOK
  <2> QED BY <1>1, <2>1, WakeupStutter
<1>2. ASSUME NEW t \in Callers, NEW q \in CallQueues, Call(t, q) PROVE NoLostWakeup'
  BY <1>1, <1>2 DEF Call
<1>3. ASSUME NEW t \in Threads, CallCheck(t) \/ CallDrop(t) PROVE NoLostWakeup'
  <2>1. \A u \in Threads, p \in Queues : Signaller(u, p) => Signaller(u, p)'
    BY <1>3 DEF CallCheck, CallDrop, Signaller, TypeOK
  <2>2. UNCHANGED <<main_loop, queue, wpc>>
    BY <1>3 DEF CallCheck, CallDrop
  <2> QED BY <2>1, <2>2, WakeupStutter
<1>4. ASSUME NEW t \in Threads, CallAppend(t) PROVE NoLostWakeup'
  <2>1. \A u \in Threads, p \in Queues : Signaller(u, p) => Signaller(u, p)'
    BY <1>4 DEF CallAppend, Signaller, TypeOK
  <2>2. cpc'[t] = "signal" /\ target' = target
    BY <1>4 DEF CallAppend, TypeOK
  <2>3. \A p \in Queues : p # target[t].queue => queue'[p] = queue[p]
    BY <1>4 DEF CallAppend, TypeOK
  <2>4. UNCHANGED <<main_loop, wpc>>
    BY <1>4 DEF CallAppend
  <2> SUFFICES ASSUME NEW p \in Queues, main_loop' = 1, queue'[p] # <<>>, wpc'[p] = "waiting"
               PROVE  \E u \in Threads : Signaller(u, p)'
    BY DEF NoLostWakeup, Signaller
  <2>5. CASE p = target[t].queue
    BY <2>2, <2>5 DEF Signaller
  <2>6. CASE p # target[t].queue
    <3>1. \E u \in Threads : Signaller(u, p)
      BY <2>3, <2>4, <2>6 DEF NoLostWakeup, Signaller
    <3> QED BY <2>1, <3>1
  <2> QED BY <2>5, <2>6
<1>5. ASSUME NEW t \in Threads, CallSignal(t) PROVE NoLostWakeup'
  <2> DEFINE q == target[t].queue
  <2>1. q \in Queues /\ UNCHANGED <<main_loop, queue>>
    BY <1>5 DEF CallSignal, TypeOK
  <2>2. /\ wpc'[q] # "waiting"
        /\ \A p \in Queues : wpc'[p] = "waiting" => wpc[p] = "waiting"
    BY <1>5, <2>1 DEF CallSignal, Signalled, TypeOK, Workers
  <2>3. \A u \in Threads, p \in Queues : Signaller(u, p) /\ p # q => Signaller(u, p)'
    BY <1>5 DEF CallSignal, Signaller, TypeOK
  <2> QED BY <2>1, <2>2, <2>3, WakeupStutter
<1>6. ASSUME NEW w \in Workers, WorkerLock(w) \/ WorkerTest(w) \/ WorkerItem(w) \/ WorkerTrigger(w)
      PROVE  NoLostWakeup'
  <2>1. \A p \in Queues : wpc'[p] = "waiting" => wpc[p] = "waiting"
    BY <1>6 DEF WorkerLock, WorkerTest, WorkerItem, WorkerTrigger, TypeOK, Workers
  <2>2. UNCHANGED <<main_loop, queue, cpc, target>>
    BY <1>6 DEF WorkerLock, WorkerTest, WorkerItem, WorkerTrigger
  <2> QED BY <2>1, <2>2, WakeupStutter DEF Signaller
<1>7. ASSUME NEW w \in Workers, WorkerWait(w) PROVE NoLostWakeup'
  <2>1. queue'[w] = <<>>
    BY <1>7 DEF WorkerWait, LockInv, Workers
  <2>2. UNCHANGED <<main_loop, queue, cpc, target>> /\ \A p \in Queues : p # w => wpc'[p] = wpc[p]
    BY <1>7 DEF WorkerWait, TypeOK, Workers
  <2> QED BY <2>1, <2>2 DEF NoLostWakeup
<1>8. ASSUME NEW w \in Workers, WorkerCall(w) PROVE NoLostWakeup'
  <2>1. \E q, k : Enter(w, q, k)
    BY <1>8 DEF WorkerCall
  <2>2. UNCHANGED <<main_loop, queue, wpc>>
    BY <1>8 DEF WorkerCall
  <2> QED BY <1>1, <2>1, <2>2
<1>9. ASSUME NEW w \in Workers, WorkerPop(w) PROVE NoLostWakeup'
  <2>1. /\ wpc'[w] # "waiting" /\ UNCHANGED <<main_loop, cpc, target>>
        /\ \A p \in Queues : p # w => wpc'[p] = wpc[p] /\ queue'[p] = queue[p]
    BY <1>9 DEF WorkerPop, TypeOK, Workers
  <2> QED BY <2>1 DEF NoLostWakeup
<1>10. CASE MainStats
  BY <1>1, <1>10 DEF MainStats
<1>11. CASE MainDrain \/ GcBegin \/ GcSending \/ GcPool \/ GcJoin
  <2>1. (main_loop' = main_loop \/ main_loop' = 0) /\ UNCHANGED <<queue, wpc, cpc, target>>
    BY <1>11 DEF MainDrain, GcBegin, GcSending, GcPool, GcJoin
  <2> QED BY <2>1, WakeupStutter DEF Signaller
<1>12. CASE GcSignal
  <2>1. \A p \in Queues : wpc'[p] = "waiting" => wpc[p] = "waiting"
    BY <1>12 DEF GcSignal, Signalled, TypeOK, Workers
  <2>2. UNCHANGED <<main_loop, queue, cpc, target>>
    BY <1>12 DEF GcSignal
  <2> QED BY <2>1, <2>2, WakeupStutter DEF Signaller
<1>13. CASE UNCHANGED vars
  BY <1>13, WakeupStutter DEF vars, Signaller
<1> QED
  BY <1>2, <1>3, <1>4, <1>5, <1>6, <1>7, <1>8, <1>9, <1>10, <1>11, <1>12, <1>13
  DEF Next, InCall, Work, Gc

----------------------------------------------------------------------------
(* What is sent during the shutdown                                        *)

(* send_code sets "sending" for as long as it handles an item.  A code it  *)
(* starts to send after main_gc has waited is its last one: main_loop is   *)
(* clear by then, so the thread leaves at its next test.                   *)
SendingInv ==
  /\ main_loop = 1 <=> mpc = "run"
  /\ sending = 1 <=> wpc["send"] = "work"
  /\ mpc \in {"run", "sending"} => late = 0
  /\ late > 0 => late = 1 /\ wpc["send"] \in {"work", "test", "returned"}
  /\ mpc \notin {"run", "sending"} => (sending = 1 => late = 1)

(* A step after which neither the send thread nor main_gc has moved on.    *)
LEMMA SendingStutter ==
  ASSUME SendingInv, UNCHANGED <<main_loop, mpc, sending, late>>, wpc'["send"] = wpc["send"]
  PROVE  SendingInv'
  BY DEF SendingInv

(* A signal does not touch a thread that is not waiting.                   *)
LEMMA SendingSignal ==
  ASSUME TypeOK, SendingInv, NEW q \in Queues, Signalled(q), UNCHANGED <<sending, late>>,
         main_loop' = main_loop, mpc' = mpc \/ (mpc \notin {"run", "sending"} /\ mpc' \notin {"run", "sending"})
  PROVE  SendingInv'
  BY DEF TypeOK, SendingInv, Signalled, Workers, Queues

(* Every step keeps the account of what is sent during the shutdown.       *)
LEMMA SendingNext == IInv /\ SendingInv /\ [Next]_vars => SendingInv'
<1> SUFFICES ASSUME TypeOK, LockInv, SendingInv, [Next]_vars PROVE SendingInv'
  BY DEF IInv
<1> USE DEF mainVars, lockVars, callVars
<1>1. ASSUME NEW t \in Callers, NEW q \in CallQueues, Call(t, q) PROVE SendingInv'
  BY <1>1, SendingStutter DEF Call
<1>2. ASSUME NEW t \in Threads, CallCheck(t) \/ CallDrop(t) \/ CallAppend(t) PROVE SendingInv'
  BY <1>2, SendingStutter DEF CallCheck, CallDrop, CallAppend
<1>3. ASSUME NEW t \in Threads, CallSignal(t) PROVE SendingInv'
  <2>1. target[t].queue \in Queues
    BY DEF TypeOK
  <2> QED BY <1>3, <2>1, SendingSignal DEF CallSignal
<1>4. ASSUME NEW w \in Workers, w # "send", Work(w) PROVE SendingInv'
  <2>1. UNCHANGED <<main_loop, mpc, sending, late>>
    BY <1>4 DEF Work, WorkerLock, WorkerTest, WorkerWait, WorkerItem, WorkerTrigger,
                WorkerCall, WorkerPop
  <2>2. wpc'["send"] = wpc["send"]
    BY <1>4 DEF Work, WorkerLock, WorkerTest, WorkerWait, WorkerItem, WorkerTrigger,
                WorkerCall, WorkerPop, TypeOK, Workers, Queues
  <2> QED BY <2>1, <2>2, SendingStutter
<1>5. CASE WorkerLock("send")
  BY <1>5 DEF WorkerLock, SendingInv, TypeOK, Workers, Queues
<1>6. CASE WorkerTest("send")
  BY <1>6 DEF WorkerTest, SendingInv, TypeOK, Workers, Queues
<1>7. CASE WorkerWait("send")
  BY <1>7 DEF WorkerWait, SendingInv, TypeOK, Workers, Queues
<1>8. CASE WorkerItem("send")
  BY <1>8 DEF WorkerItem, SendingInv, TypeOK, Workers, Queues
<1>9. CASE WorkerTrigger("send") \/ WorkerCall("send")
  BY <1>9, SendingStutter DEF WorkerTrigger, WorkerCall
<1>10. CASE WorkerPop("send")
  BY <1>10 DEF WorkerPop, SendingInv, TypeOK, Workers, Queues
<1>11. CASE MainDrain \/ MainStats
  BY <1>11, SendingStutter DEF MainDrain, MainStats
<1>12. CASE GcBegin
  BY <1>12 DEF GcBegin, MainIdle, SendingInv
<1>13. CASE GcSending
  BY <1>13 DEF GcSending, SendingInv
<1>14. CASE GcSignal
  <2>1. mpc \notin {"run", "sending"} /\ mpc' \notin {"run", "sending"}
    BY <1>14 DEF GcSignal, AfterSignal, Queues
  <2> QED BY <1>14, <2>1, SendingSignal DEF GcSignal
<1>15. CASE GcPool \/ GcJoin
  BY <1>15 DEF GcPool, GcJoin, SendingInv
<1>16. CASE UNCHANGED vars
  BY <1>16, SendingStutter DEF vars
<1> QED
  BY <1>1, <1>2, <1>3, <1>4, <1>5, <1>6, <1>7, <1>8, <1>9, <1>10, <1>11, <1>12, <1>13,
     <1>14, <1>15, <1>16
  DEF Next, InCall, Work, Gc

----------------------------------------------------------------------------
(* Theorems                                                                *)

(* Types, mutexes, calls and wake-ups of the three queues are right in     *)
(* every reachable state.                                                  *)
THEOREM Invariant == Spec => []IInv
<1>1. IInv /\ [Next]_vars => IInv'
  BY TypeNext, LockNext, CallNext, WakeupNext DEF IInv
<1> QED BY <1>1, InvInit, PTL DEF Spec

(* The variables of the queues stay in their ranges: the depth of a mutex  *)
(* and the length of a queue above all.                                    *)
THEOREM QueuesTypeCorrect == Spec => []TypeOK
<1>1. IInv => TypeOK
  BY DEF IInv
<1> QED BY <1>1, Invariant, PTL

(* No call of send_queue, receive_queue or broadcast_queue is slept        *)
(* through by the thread of that queue while the daemon runs, although the *)
(* condition is signalled outside the mutex.                               *)
THEOREM WakeupsNeverLost == Spec => []NoLostWakeup
<1>1. IInv => NoLostWakeup
  BY DEF IInv
<1> QED BY <1>1, Invariant, PTL

(* The threads of the daemon take the mutexes of the queues in the order   *)
(* send, recv, bc, so they cannot wait for each other in a circle.         *)
THEOREM MutexesOrdered == Spec => []LockOrder
<1>1. ASSUME IInv PROVE LockOrder
  <2> SUFFICES ASSUME NEW t \in Threads, NEW q \in Queues, owner[q] = t
               PROVE  /\ cpc[t] = "lock" => target[t].queue = q \/ Rank(q) < Rank(target[t].queue)
                      /\ t \in Workers => wpc[t] # "lock"
    BY DEF LockOrder
  <2>1. t # Nobody
    BY ThreadFacts
  <2>2. t = q /\ wpc[q] \notin {"lock", "waiting"}
    BY <1>1, <2>1 DEF IInv, LockInv, TypeOK, Workers
  <2> QED BY <1>1, <2>2 DEF IInv, CallInv, Workers
<1> QED BY <1>1, Invariant, PTL

(* The wait of main_gc for "sending" is enough, although send_code may     *)
(* have tested main_loop just before it was cleared: at most one code is   *)
(* sent after the wait.                                                    *)
THEOREM WaitForSending == Spec => []SendingRespected
<1>1. Init => SendingInv
  BY DEF Init, SendingInv, Workers, Queues
<1>2. TypeOK /\ SendingInv => SendingRespected
  BY DEF TypeOK, SendingInv, SendingRespected
<1>3. Spec => []SendingInv
  BY <1>1, SendingNext, Invariant, PTL DEF Spec
<1> QED BY <1>2, <1>3, QueuesTypeCorrect, PTL
============================================================================
