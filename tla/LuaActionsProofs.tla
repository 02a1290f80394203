-------------------------- MODULE LuaActionsProofs --------------------------
(***************************************************************************)
(* Proofs about the pool of Lua states and the actions that run on it, for *)
(* any number of states, worker threads and actions.                       *)
(***************************************************************************)
EXTENDS LuaActions, FiniteSetTheorems, TLAPS

----------------------------------------------------------------------------
(* The inductive invariant of the pool, until plua_gc takes the states     *)

PoolTypes ==
  /\ owner \in [States -> Threads \cup {Nobody}]
  /\ sem \in Nat
  /\ pc \in [Threads -> {"idle", "scan", "wait", "script", "clear", "unlock", "post"}]
  /\ pos \in [Threads -> States]

FreeBelow(p) == {s \in States : s < p /\ owner[s] = Nobody}
TryingBelow(p) == {t \in Threads : pc[t] = "scan" /\ pos[t] < p}
Posting == {t \in Threads : pc[t] = "post"}

(* A thread has found all states before p taken.                           *)
Reached(p) ==
  \E t \in Threads : \/ pc[t] = "scan" /\ pos[t] = p
                     \/ pc[t] = "wait" /\ p = NRLUASTATES + 1

(* A state that is free behind the back of a thread was released after the *)
(* thread tried it: its post is still to be done, is in the semaphore, or  *)
(* woke a thread that has not come as far yet.                             *)
Covered(p) ==
  Cardinality(FreeBelow(p)) <= sem + Cardinality(Posting) + Cardinality(TryingBelow(p))

Pool == PoolTypes /\ \A p \in 1 .. NRLUASTATES + 1 : Reached(p) => Covered(p)

PoolInv == Running => Pool

----------------------------------------------------------------------------
(* Sets of states and threads are finite, and numbers of them are numbers. *)
LEMMA PoolFinite ==
  ASSUME NEW p
  PROVE  /\ IsFiniteSet(FreeBelow(p)) /\ Cardinality(FreeBelow(p)) \in Nat
         /\ IsFiniteSet(TryingBelow(p)) /\ Cardinality(TryingBelow(p)) \in Nat
         /\ IsFiniteSet(Posting) /\ Cardinality(Posting) \in Nat
<1>1. IsFiniteSet(States) /\ IsFiniteSet(Threads)
  BY LuaStatesConstants, FS_Interval DEF States
<1>2. FreeBelow(p) \subseteq States /\ TryingBelow(p) \subseteq Threads /\ Posting \subseteq Threads
  BY DEF FreeBelow, TryingBelow, Posting
<1> QED BY <1>1, <1>2, FS_Subset, FS_CardinalityType

(* The same numbers after a step.                                          *)
LEMMA PoolFiniteNext ==
  ASSUME NEW p
  PROVE  /\ IsFiniteSet(FreeBelow(p)') /\ Cardinality(FreeBelow(p)') \in Nat
         /\ IsFiniteSet(TryingBelow(p)') /\ Cardinality(TryingBelow(p)') \in Nat
         /\ IsFiniteSet(Posting') /\ Cardinality(Posting') \in Nat
<1>1. IsFiniteSet(States) /\ IsFiniteSet(Threads)
  BY LuaStatesConstants, FS_Interval DEF States
<1>2. FreeBelow(p)' \subseteq States /\ TryingBelow(p)' \subseteq Threads
      /\ Posting' \subseteq Threads
  BY DEF FreeBelow, TryingBelow, Posting
<1> QED BY <1>1, <1>2, FS_Subset, FS_CardinalityType

(* A step that neither frees a state nor takes away a post or a thread     *)
(* that tries keeps a state covered.                                       *)
LEMMA CoveredMonotone ==
  ASSUME NEW p, Covered(p), sem \in Nat, sem' \in Nat, sem' >= sem,
         FreeBelow(p)' \subseteq FreeBelow(p), Posting \subseteq Posting',
         TryingBelow(p) \subseteq TryingBelow(p)'
  PROVE  Covered(p)'
<1>1. Cardinality(FreeBelow(p)') <= Cardinality(FreeBelow(p))
  BY PoolFinite, FS_Subset
<1>2. Cardinality(Posting) <= Cardinality(Posting')
  BY PoolFiniteNext, FS_Subset
<1>3. Cardinality(TryingBelow(p)) <= Cardinality(TryingBelow(p)')
  BY PoolFiniteNext, FS_Subset
<1>4. Cardinality(FreeBelow(p)') <= sem' + Cardinality(Posting') + Cardinality(TryingBelow(p)')
  BY <1>1, <1>2, <1>3, PoolFinite, PoolFiniteNext DEF Covered
<1> QED BY <1>4 DEF Covered

(* Nothing is free below the first state.                                  *)
LEMMA NothingBelowFirst ==
  ASSUME sem' \in Nat
  PROVE  Covered(1)'
<1>1. FreeBelow(1)' = {}
  BY LuaStatesConstants DEF FreeBelow, States
<1>2. Cardinality(FreeBelow(1)') = 0
  BY <1>1, FS_EmptySet
<1>3. Cardinality(FreeBelow(1)') <= sem' + Cardinality(Posting') + Cardinality(TryingBelow(1)')
  BY <1>2, PoolFiniteNext
<1> QED BY <1>3 DEF Covered

(* Steps of a script, which holds its state.                               *)
LEMMA PoolScript ==
  ASSUME Pool, NEW t \in Threads, UNCHANGED <<owner, sem, pos>>,
         \/ UNCHANGED pc
         \/ pc[t] = "script" /\ pc' = [pc EXCEPT ![t] = "clear"]
         \/ pc[t] = "clear" /\ pc' = [pc EXCEPT ![t] = "unlock"]
  PROVE  Pool'
<1>1. PoolTypes'
  BY DEF Pool, PoolTypes
<1>2. \A u \in Threads : /\ pc'[u] = "scan" <=> pc[u] = "scan"
                         /\ pc'[u] = "wait" <=> pc[u] = "wait"
                         /\ pc'[u] = "post" <=> pc[u] = "post"
  BY DEF Pool, PoolTypes
<1>3. ASSUME NEW p \in 1 .. NRLUASTATES + 1, Reached(p)'
      PROVE  Covered(p)'
  <2>1. Reached(p)
    BY <1>2, <1>3 DEF Reached
  <2>2. FreeBelow(p)' = FreeBelow(p) /\ TryingBelow(p)' = TryingBelow(p) /\ Posting' = Posting
    BY <1>2 DEF FreeBelow, TryingBelow, Posting
  <2> QED BY <2>1, <2>2, CoveredMonotone DEF Pool, PoolTypes
<1> QED BY <1>1, <1>3 DEF Pool

(* plua_get_free_state begins at the first state.                          *)
LEMMA PoolGet ==
  ASSUME Pool, NEW t \in Threads, plua_get_free_state(t)
  PROVE  Pool'
<1>1. /\ pc[t] = "idle" /\ pc' = [pc EXCEPT ![t] = "scan"] /\ pos' = [pos EXCEPT ![t] = 1]
      /\ UNCHANGED <<owner, sem>>
  BY DEF plua_get_free_state
<1>2. PoolTypes'
  BY <1>1, LuaStatesConstants DEF Pool, PoolTypes, States
<1>3. /\ pc'[t] = "scan" /\ pos'[t] = 1
      /\ \A u \in Threads \ {t} : pc'[u] = pc[u] /\ pos'[u] = pos[u]
  BY <1>1 DEF Pool, PoolTypes
<1>4. ASSUME NEW p \in 1 .. NRLUASTATES + 1, Reached(p)'
      PROVE  Covered(p)'
  <2>1. CASE p = 1
    BY <1>2, <2>1, NothingBelowFirst DEF PoolTypes
  <2>2. CASE p # 1
    <3>1. Reached(p)
      BY <1>3, <1>4, <2>2 DEF Reached
    <3>2. /\ FreeBelow(p)' = FreeBelow(p) /\ TryingBelow(p) \subseteq TryingBelow(p)'
          /\ Posting \subseteq Posting'
      BY <1>1, <1>3 DEF FreeBelow, TryingBelow, Posting
    <3> QED BY <1>1, <3>1, <3>2, CoveredMonotone DEF Pool, PoolTypes
  <2> QED BY <2>1, <2>2
<1> QED BY <1>2, <1>4 DEF Pool

(* uv_mutex_trylock of one state: a thread that finds it free takes it and *)
(* no longer covers one, but there is one less to be covered; a thread     *)
(* that finds it taken goes on and needs no more cover than before.        *)
LEMMA PoolTryLock ==
  ASSUME Pool, NEW t \in Threads, TryLock(t)
  PROVE  Pool'
<1>1. PICK q \in States : q = pos[t] /\ pc[t] = "scan" /\ UNCHANGED sem
  BY DEF TryLock, Pool, PoolTypes
<1>2. CASE owner[q] = Nobody
  <2>1. /\ owner' = [owner EXCEPT ![q] = t] /\ pc' = [pc EXCEPT ![t] = "script"]
        /\ UNCHANGED pos
    BY <1>1, <1>2 DEF TryLock
  <2>2. PoolTypes'
    BY <1>1, <2>1 DEF Pool, PoolTypes
  <2>3. /\ pc'[t] = "script" /\ \A u \in Threads \ {t} : pc'[u] = pc[u]
        /\ owner'[q] # Nobody /\ \A s \in States \ {q} : owner'[s] = owner[s]
    BY <2>1, LuaStatesConstants DEF Pool, PoolTypes
  <2>4. ASSUME NEW p \in 1 .. NRLUASTATES + 1, Reached(p)'
        PROVE  Covered(p)'
    <3>1. Covered(p)
      BY <2>1, <2>3, <2>4 DEF Reached, Pool
    <3>2. Posting' = Posting
      BY <1>1, <2>3 DEF Posting
    <3>3. CASE q < p
      <4>1. q \in FreeBelow(p) /\ FreeBelow(p)' = FreeBelow(p) \ {q}
        BY <1>2, <2>3, <3>3 DEF FreeBelow
      <4>2. t \in TryingBelow(p) /\ TryingBelow(p)' = TryingBelow(p) \ {t}
        BY <1>1, <2>1, <2>3, <3>3 DEF TryingBelow
      <4>3. Cardinality(FreeBelow(p)') = Cardinality(FreeBelow(p)) - 1
        BY <4>1, PoolFinite, FS_RemoveElement
      <4>4. Cardinality(TryingBelow(p)') = Cardinality(TryingBelow(p)) - 1
        BY <4>2, PoolFinite, FS_RemoveElement
      <4>5. Cardinality(FreeBelow(p)')
              <= sem' + Cardinality(Posting') + Cardinality(TryingBelow(p)')
        BY <1>1, <3>1, <3>2, <4>3, <4>4, PoolFinite DEF Covered, Pool, PoolTypes
      <4> QED BY <4>5 DEF Covered
    <3>4. CASE ~ (q < p)
      <4>1. FreeBelow(p)' = FreeBelow(p)
        BY <2>3, <3>4 DEF FreeBelow
      <4>2. TryingBelow(p)' = TryingBelow(p)
        BY <1>1, <2>1, <2>3, <3>4 DEF TryingBelow
      <4> QED BY <1>1, <3>1, <3>2, <4>1, <4>2, CoveredMonotone DEF Pool, PoolTypes
    <3> QED BY <3>3, <3>4
  <2> QED BY <2>2, <2>4 DEF Pool
<1>3. CASE owner[q] # Nobody
  <2>1. /\ UNCHANGED owner
        /\ \/ q < NRLUASTATES /\ pos' = [pos EXCEPT ![t] = q + 1] /\ UNCHANGED pc
           \/ ~ (q < NRLUASTATES) /\ pc' = [pc EXCEPT ![t] = "wait"] /\ UNCHANGED pos
    BY <1>1, <1>3 DEF TryLock, Pool, PoolTypes
  <2>2. PoolTypes'
    BY <1>1, <2>1, LuaStatesConstants DEF Pool, PoolTypes, States
  <2>3. /\ \A u \in Threads \ {t} : pc'[u] = pc[u] /\ pos'[u] = pos[u]
        /\ \/ q < NRLUASTATES /\ pc'[t] = "scan" /\ pos'[t] = q + 1
           \/ q = NRLUASTATES /\ pc'[t] = "wait"
    BY <1>1, <2>1, LuaStatesConstants DEF Pool, PoolTypes, States
  <2>4. Posting' = Posting
    BY <1>1, <2>3 DEF Posting
  <2>5. ASSUME NEW p \in 1 .. NRLUASTATES + 1, Reached(p)'
        PROVE  Covered(p)'
    <3>1. FreeBelow(p)' = FreeBelow(p)
      BY <2>1 DEF FreeBelow
    <3>2. CASE p = q + 1
      <4>1. Covered(q)
        BY <1>1, LuaStatesConstants DEF Pool, Reached, States
      <4>2. FreeBelow(p) = FreeBelow(q)
        BY <1>3, <3>2 DEF FreeBelow, States
      <4>3. TryingBelow(q) \subseteq TryingBelow(p)'
        BY <1>1, <2>3, <3>2 DEF TryingBelow, States, Pool, PoolTypes
      <4>4. Cardinality(TryingBelow(q)) <= Cardinality(TryingBelow(p)')
        BY <4>3, PoolFiniteNext, FS_Subset
      <4>5. Cardinality(FreeBelow(p)')
              <= sem' + Cardinality(Posting') + Cardinality(TryingBelow(p)')
        BY <1>1, <2>4, <3>1, <4>1, <4>2, <4>4, PoolFinite, PoolFiniteNext
           DEF Covered, Pool, PoolTypes
      <4> QED BY <4>5 DEF Covered
    <3>3. CASE p # q + 1
      <4>1. Covered(p)
        BY <1>1, <2>3, <2>5, <3>3 DEF Reached, Pool
      <4>2. TryingBelow(p) \subseteq TryingBelow(p)'
        BY <1>1, <2>3, <3>3, LuaStatesConstants DEF TryingBelow, States, Pool, PoolTypes
      <4> QED BY <1>1, <2>4, <3>1, <4>1, <4>2, CoveredMonotone DEF Pool, PoolTypes
    <3> QED BY <3>2, <3>3
  <2> QED BY <2>2, <2>5 DEF Pool
<1> QED BY <1>2, <1>3

(* uv_sem_wait: the post becomes a thread that tries all states.           *)
LEMMA PoolSemWait ==
  ASSUME Pool, NEW t \in Threads, SemWait(t)
  PROVE  Pool'
<1>1. /\ pc[t] = "wait" /\ sem > 0 /\ sem' = sem - 1
      /\ pc' = [pc EXCEPT ![t] = "scan"] /\ pos' = [pos EXCEPT ![t] = 1]
      /\ UNCHANGED owner
  BY DEF SemWait
<1>2. PoolTypes'
  BY <1>1, LuaStatesConstants DEF Pool, PoolTypes, States
<1>3. /\ pc'[t] = "scan" /\ pos'[t] = 1
      /\ \A u \in Threads \ {t} : pc'[u] = pc[u] /\ pos'[u] = pos[u]
  BY <1>1 DEF Pool, PoolTypes
<1>4. ASSUME NEW p \in 1 .. NRLUASTATES + 1, Reached(p)'
      PROVE  Covered(p)'
  <2>1. CASE p = 1
    BY <1>2, <2>1, NothingBelowFirst DEF PoolTypes
  <2>2. CASE p # 1
    <3>1. Covered(p)
      BY <1>3, <1>4, <2>2 DEF Reached, Pool
    <3>2. FreeBelow(p)' = FreeBelow(p) /\ Posting' = Posting
      BY <1>1, <1>3 DEF FreeBelow, Posting
    <3>3. TryingBelow(p)' = TryingBelow(p) \cup {t} /\ t \notin TryingBelow(p)
      BY <1>1, <1>3, <2>2, LuaStatesConstants DEF TryingBelow
    <3>4. Cardinality(TryingBelow(p)') = Cardinality(TryingBelow(p)) + 1
      BY <3>3, PoolFinite, FS_AddElement
    <3>5. Cardinality(FreeBelow(p)')
            <= sem' + Cardinality(Posting') + Cardinality(TryingBelow(p)')
      BY <1>1, <3>1, <3>2, <3>4, PoolFinite DEF Covered, Pool, PoolTypes
    <3> QED BY <3>5 DEF Covered
  <2> QED BY <2>1, <2>2
<1> QED BY <1>2, <1>4 DEF Pool

(* plua_clear_state: the state is unlocked before the semaphore is posted. *)
LEMMA PoolUnlock ==
  ASSUME Pool, NEW t \in Threads, ClearUnlock(t)
  PROVE  Pool'
<1>1. PICK q \in States :
        /\ pc[t] = "unlock" /\ owner' = [owner EXCEPT ![q] = Nobody]
        /\ pc' = [pc EXCEPT ![t] = "post"] /\ UNCHANGED <<sem, pos>>
  BY DEF ClearUnlock, Pool, PoolTypes
<1>2. PoolTypes'
  BY <1>1 DEF Pool, PoolTypes
<1>3. /\ pc'[t] = "post" /\ \A u \in Threads \ {t} : pc'[u] = pc[u]
      /\ \A s \in States \ {q} : owner'[s] = owner[s]
  BY <1>1 DEF Pool, PoolTypes
<1>4. Posting' = Posting \cup {t} /\ t \notin Posting
  BY <1>1, <1>3 DEF Posting
<1>5. Cardinality(Posting') = Cardinality(Posting) + 1
  BY <1>4, PoolFinite, FS_AddElement
<1>6. ASSUME NEW p \in 1 .. NRLUASTATES + 1, Reached(p)'
      PROVE  Covered(p)'
  <2>1. Covered(p)
    BY <1>1, <1>3, <1>6 DEF Reached, Pool
  <2>2. TryingBelow(p)' = TryingBelow(p)
    BY <1>1, <1>3 DEF TryingBelow
  <2>3. PICK F : F = FreeBelow(p) \cup {q}
    OBVIOUS
  <2>4. IsFiniteSet(F) /\ Cardinality(F) \in Nat /\ Cardinality(F) <= Cardinality(FreeBelow(p)) + 1
    <3>1. IsFiniteSet(F) /\ (Cardinality(F) = Cardinality(FreeBelow(p))
                             \/ Cardinality(F) = Cardinality(FreeBelow(p)) + 1)
      BY <2>3, PoolFinite, FS_AddElement
    <3> QED BY <3>1, PoolFinite
  <2>5. FreeBelow(p)' \subseteq F
    BY <1>3, <2>3 DEF FreeBelow
  <2>6. Cardinality(FreeBelow(p)') <= Cardinality(F)
    BY <2>4, <2>5, FS_Subset
  <2>7. Cardinality(FreeBelow(p)')
          <= sem' + Cardinality(Posting') + Cardinality(TryingBelow(p)')
    BY <1>1, <1>5, <2>1, <2>2, <2>4, <2>6, PoolFinite, PoolFiniteNext
       DEF Covered, Pool, PoolTypes
  <2> QED BY <2>7 DEF Covered
<1> QED BY <1>2, <1>6 DEF Pool

(* uv_sem_post: the pending post is in the semaphore.                      *)
LEMMA PoolPost ==
  ASSUME Pool, NEW t \in Threads, ClearPost(t)
  PROVE  Pool'
<1>1. /\ pc[t] = "post" /\ sem' = sem + 1 /\ pc' = [pc EXCEPT ![t] = "idle"]
      /\ UNCHANGED <<owner, pos>>
  BY DEF ClearPost
<1>2. PoolTypes'
  BY <1>1 DEF Pool, PoolTypes
<1>3. pc'[t] = "idle" /\ \A u \in Threads \ {t} : pc'[u] = pc[u]
  BY <1>1 DEF Pool, PoolTypes
<1>4. Posting' = Posting \ {t} /\ t \in Posting
  BY <1>1, <1>3 DEF Posting
<1>5. Cardinality(Posting') = Cardinality(Posting) - 1
  BY <1>4, PoolFinite, FS_RemoveElement
<1>6. ASSUME NEW p \in 1 .. NRLUASTATES + 1, Reached(p)'
      PROVE  Covered(p)'
  <2>1. Covered(p)
    BY <1>1, <1>3, <1>6 DEF Reached, Pool
  <2>2. TryingBelow(p)' = TryingBelow(p) /\ FreeBelow(p)' = FreeBelow(p)
    BY <1>1, <1>3 DEF TryingBelow, FreeBelow
  <2>3. Cardinality(FreeBelow(p)')
          <= sem' + Cardinality(Posting') + Cardinality(TryingBelow(p)')
    BY <1>1, <1>5, <2>1, <2>2, PoolFinite DEF Covered, Pool, PoolTypes
  <2> QED BY <2>3 DEF Covered
<1> QED BY <1>2, <1>6 DEF Pool

----------------------------------------------------------------------------
(* The steps of the scripts and of the main loop                           *)

(* A line of a script of thread t, and the release of its state.           *)
LEMMA PoolThread ==
  ASSUME Pool, NEW t \in Threads, Script(t), Running'
  PROVE  Pool'
<1>1. CASE CallbackData(t) \/ CallbackSend(t) \/ CallbackNext(t)
  <2>1. pc[t] = "script" /\ UNCHANGED <<owner, sem, pos>>
    BY <1>1 DEF CallbackData, CallbackSend, CallbackNext, At, plua_gc_reg, poolRest
  <2>2. UNCHANGED pc \/ pc' = [pc EXCEPT ![t] = "clear"]
    BY <1>1 DEF CallbackData, CallbackSend, CallbackNext, Goto, EndScript
  <2> QED BY <2>1, <2>2, PoolScript
<1>2. CASE GetState(t)
  BY <1>2, PoolTryLock, PoolSemWait DEF GetState
<1>3. CASE ClearState(t)
  <2>1. CASE ClearList(t)
    BY <2>1, PoolScript DEF ClearList
  <2> QED BY <1>3, <2>1, PoolUnlock DEF ClearState
<1>4. CASE ClearDone(t)
  BY <1>4, PoolPost DEF ClearDone
<1>5. CASE Crash(t)
  BY <1>5 DEF Crash, Running
<1> QED BY <1>1, <1>2, <1>3, <1>4, <1>5 DEF Script

(* The rest of the events thread: an action of a rule.                     *)
LEMMA PoolEvents ==
  ASSUME Pool, EventsStep \/ (\E p \in Params : event_operator_callback(p)), Running'
  PROVE  Pool'
<1>1. Ev \in Threads
  BY LuaActionsConstants
<1>2. CASE event_action_run \/ \E p \in Params : event_operator_callback(p)
  BY <1>1, <1>2, PoolGet DEF event_action_run, event_operator_callback
<1>3. CASE OperatorScript \/ RunObject \/ RunSetId \/ RunStartTimer \/ RunTrigger \/ RunUnreg
  <2>1. pc[Ev] = "script"
    BY <1>3 DEF OperatorScript, RunObject, RunSetId, RunStartTimer, RunTrigger, RunUnreg, At
  <2>2. UNCHANGED <<owner, sem, pos>>
    <3>1. CASE OperatorScript \/ RunSetId \/ RunStartTimer \/ RunTrigger
      BY <3>1 DEF OperatorScript, RunSetId, RunStartTimer, RunTrigger, poolRest
    <3>2. CASE RunObject \/ RunUnreg
      BY <3>2 DEF RunObject, RunUnreg, plua_gc_reg, plua_gc_unreg
    <3> QED BY <1>3, <3>1, <3>2
  <2>3. UNCHANGED pc \/ pc' = [pc EXCEPT ![Ev] = "clear"]
    BY <1>3 DEF OperatorScript, RunObject, RunSetId, RunStartTimer, RunTrigger, RunUnreg, Goto,
                EndScript
  <2> QED BY <1>1, <2>1, <2>2, <2>3, PoolScript
<1> QED BY <1>1, <1>2, <1>3, PoolThread DEF EventsStep

(* The main thread until plua_gc, and the steps that start its end.        *)
LEMMA PoolMain ==
  ASSUME Pool, MainStep \/ main_gc, Running, Running'
  PROVE  Pool'
<1>1. Main \in Threads
  BY LuaActionsConstants
<1>2. ASSUME NEW o \in Objects, timer_callback(o)
      PROVE  Pool'
  BY <1>1, <1>2, PoolGet DEF timer_callback, Callback
<1>3. CASE safe_thread_loop \/ main_gc
  BY <1>1, <1>3, PoolScript DEF safe_thread_loop, main_gc, poolVars
<1>4. CASE thread_free
  <2>1. UNCHANGED <<owner, sem, pos, pc>>
    BY <1>4 DEF thread_free, plua_gc_unreg, poolVars
  <2> QED BY <1>1, <2>1, PoolScript
<1>5. ~ eventpool_gc /\ ~ GcState /\ ~ GcUnlock /\ ~ GcGlobal
  BY DEF eventpool_gc, GcState, GcUnlock, GcGlobal, Running
<1> QED BY <1>1, <1>2, <1>3, <1>4, <1>5, PoolThread DEF MainStep

(* main_gc never goes back.                                                *)
LEMMA StillRunning ==
  ASSUME [Next]_vars, Running'
  PROVE  Running
<1>1. CASE UNCHANGED mpc
  BY <1>1 DEF Running
<1>2. CASE ~ UNCHANGED mpc
  <2>1. ASSUME NEW t \in Threads, Script(t) PROVE Running
    BY <1>2, <2>1 DEF Script, CallbackData, CallbackSend, CallbackNext, GetState, ClearState,
                      ClearDone, Crash, gcVars, Running
  <2>2. CASE EventsStep \/ \E p \in Params : event_operator_callback(p)
    <3>1. CASE Script(Ev)
      BY <2>1, <3>1, LuaActionsConstants
    <3>2. CASE ~ Script(Ev)
      BY <1>2, <2>2, <3>2 DEF EventsStep, event_operator_callback, OperatorScript,
           event_action_run, RunObject, RunSetId, RunStartTimer, RunTrigger, RunUnreg, gcVars
    <3> QED BY <3>1, <3>2
  <2>3. CASE MainStep \/ main_gc
    <3>1. CASE Script(Main)
      BY <2>1, <3>1, LuaActionsConstants
    <3>2. CASE ~ Script(Main)
      BY <1>2, <2>3, <3>2 DEF MainStep, main_gc, timer_callback, safe_thread_loop, thread_free,
           eventpool_gc, GcState, GcUnlock, GcGlobal, gcVars, Running
    <3> QED BY <3>1, <3>2
  <2>4. ASSUME NEW w \in Workers, WorkerStep(w) PROVE Running
    BY <1>2, <2>1, <2>4, LuaActionsConstants DEF WorkerStep, thread_callback, gcVars
  <2> QED BY <1>2, <2>2, <2>3, <2>4 DEF Next, vars, gcVars
<1> QED BY <1>1, <1>2

(* The step cases together.                                                *)
LEMMA PoolNext ==
  ASSUME PoolInv, [Next]_vars
  PROVE  PoolInv'
<1> SUFFICES ASSUME Running' PROVE Pool'
  BY DEF PoolInv
<1>1. Running /\ Pool
  BY StillRunning DEF PoolInv
<1>2. CASE UNCHANGED vars
  <2>1. Main \in Threads
    BY LuaActionsConstants
  <2> QED BY <1>1, <1>2, <2>1, PoolScript DEF vars, poolVars
<1>3. ASSUME NEW w \in Workers, WorkerStep(w)
      PROVE  Pool'
  <2>1. w \in Threads
    BY LuaActionsConstants
  <2>2. CASE thread_callback(w)
    BY <1>1, <2>1, <2>2, PoolGet DEF thread_callback, Callback
  <2> QED BY <1>1, <1>3, <2>1, <2>2, PoolThread DEF WorkerStep
<1> QED BY <1>1, <1>2, <1>3, PoolEvents, PoolMain DEF Next

(* However many threads share however few states, no thread of the daemon  *)
(* sleeps in plua_get_free_state with nobody left to wake it while a state *)
(* is free: the semaphore is posted after the state is unlocked, and posts *)
(* that nobody waited for are kept.                                        *)
THEOREM NoThreadSleepsForFreeState == Spec => []StatesServed
<1>1. Init => PoolInv
  <2> SUFFICES ASSUME Init PROVE Pool
    BY DEF PoolInv
  <2>1. PoolTypes
    BY LuaStatesConstants DEF Init, plua_init, PoolTypes, States
  <2>2. \A p : ~ Reached(p)
    BY DEF Init, plua_init, Reached
  <2> QED BY <2>1, <2>2 DEF Pool
<1>2. PoolInv /\ [Next]_vars => PoolInv'
  BY PoolNext
<1>3. PoolInv => StatesServed
  <2> SUFFICES ASSUME Pool, NEW t \in Threads, pc[t] = "wait"
               PROVE  Cardinality({s \in States : owner[s] = Nobody}) <= sem + Cardinality(Busy)
    BY DEF PoolInv, StatesServed, NoIdleState
  <2>1. PICK p \in 1 .. NRLUASTATES + 1 : p = NRLUASTATES + 1
    BY LuaStatesConstants
  <2>2. Covered(p)
    BY <2>1 DEF Pool, Reached
  <2>3. {s \in States : owner[s] = Nobody} = FreeBelow(p)
    BY <2>1, LuaStatesConstants DEF FreeBelow, States
  <2>4. Busy = Posting \cup TryingBelow(p) /\ Posting \cap TryingBelow(p) = {}
    BY <2>1, LuaStatesConstants DEF Busy, Posting, TryingBelow, Pool, PoolTypes, States
  <2>5. Cardinality(Posting \cap TryingBelow(p)) = 0
    BY <2>4, FS_EmptySet
  <2>6. Cardinality(Busy) = Cardinality(Posting) + Cardinality(TryingBelow(p))
    <3>1. PICK A, B : A = Posting /\ B = TryingBelow(p)
      OBVIOUS
    <3>2. /\ IsFiniteSet(A) /\ IsFiniteSet(B) /\ Cardinality(A \cap B) = 0
          /\ Cardinality(A) \in Nat /\ Cardinality(B) \in Nat
      BY <2>5, <3>1, PoolFinite
    <3>3. Cardinality(A \cup B) = Cardinality(A) + Cardinality(B) - Cardinality(A \cap B)
      BY <3>2, FS_Union
    <3>4. Cardinality(A \cup B) = Cardinality(A) + Cardinality(B)
      BY <3>2, <3>3
    <3> QED BY <2>4, <3>1, <3>4
  <2>7. Cardinality(FreeBelow(p)) <= sem + Cardinality(Busy)
    BY <2>2, <2>6, PoolFinite DEF Covered, Pool, PoolTypes
  <2> QED BY <2>3, <2>7
<1> QED BY <1>1, <1>2, <1>3, PTL DEF Spec

============================================================================
