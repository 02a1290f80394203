----------------------------- MODULE LuaStates -----------------------------
(***************************************************************************)
(* The pool of Lua states of lua_c/lua.c: plua_get_free_state tries the    *)
(* lock of every state and sleeps on a semaphore when all are taken, and   *)
(* plua_clear_state runs the garbage collector of a state, unlocks it and  *)
(* posts the semaphore, whether or not a thread waits.                     *)
(* The actions change the variables of this module only; the module that   *)
(* runs scripts on the states composes them with what the scripts do.      *)
(***************************************************************************)
EXTENDS Naturals, FiniteSets

CONSTANTS
  NRLUASTATES,  \* number of states
  Threads       \* the threads that run Lua

Nobody == "nobody"
States == 1 .. NRLUASTATES

ASSUME LuaStatesConstants ==
  /\ NRLUASTATES \in Nat \ {0}
  /\ IsFiniteSet(Threads) /\ Nobody \notin Threads

VARIABLES
  owner,  \* the thread that holds the lock of a state
  sem,    \* sem_used_states
  pc,     \* where a thread is between plua_get_free_state and plua_clear_state
  pos,    \* the state it tries, or has
  gc      \* what is registered with the collector of a state

poolVars == <<owner, sem, pc, pos, gc>>

plua_init ==
  /\ owner = [s \in States |-> Nobody]
  /\ sem = 0
  /\ pc = [t \in Threads |-> "idle"]
  /\ pos = [t \in Threads |-> 1]
  /\ gc = [s \in States |-> {}]

plua_get_free_state(t) ==
  /\ pc[t] = "idle"
  /\ pc' = [pc EXCEPT ![t] = "scan"]
  /\ pos' = [pos EXCEPT ![t] = 1]
  /\ UNCHANGED <<owner, sem, gc>>

(* Mutant: the thread goes to sleep without having tried the last state.   *)
TryLockSkip(t) ==
  /\ pc[t] = "scan"
  /\ IF owner[pos[t]] = Nobody
     THEN /\ owner' = [owner EXCEPT ![pos[t]] = t]
          /\ pc' = [pc EXCEPT ![t] = "script"]
          /\ UNCHANGED pos
     ELSE /\ IF pos[t] + 1 < NRLUASTATES
             THEN pos' = [pos EXCEPT ![t] = @ + 1] /\ UNCHANGED pc
             ELSE pc' = [pc EXCEPT ![t] = "wait"] /\ UNCHANGED pos
          /\ UNCHANGED owner
  /\ UNCHANGED <<sem, gc>>

(* uv_mutex_trylock of one state after the other.                          *)
TryLock(t) ==
  /\ pc[t] = "scan"
  /\ IF owner[pos[t]] = Nobody
     THEN /\ owner' = [owner EXCEPT ![pos[t]] = t]
          /\ pc' = [pc EXCEPT ![t] = "script"]
          /\ UNCHANGED pos
     ELSE /\ IF pos[t] < NRLUASTATES
             THEN pos' = [pos EXCEPT ![t] = @ + 1] /\ UNCHANGED pc
             ELSE pc' = [pc EXCEPT ![t] = "wait"] /\ UNCHANGED pos
          /\ UNCHANGED owner
  /\ UNCHANGED <<sem, gc>>

SemWait(t) ==
  /\ pc[t] = "wait"
  /\ sem > 0
  /\ sem' = sem - 1
  /\ pc' = [pc EXCEPT ![t] = "scan"]
  /\ pos' = [pos EXCEPT ![t] = 1]
  /\ UNCHANGED <<owner, gc>>

(* The end of a script: plua_clear_state empties the collector.            *)
ClearList(t) ==
  /\ pc[t] = "clear"
  /\ pc' = [pc EXCEPT ![t] = "unlock"]
  /\ gc' = [gc EXCEPT ![pos[t]] = {}]
  /\ UNCHANGED <<owner, sem, pos>>

ClearUnlock(t) ==
  /\ pc[t] = "unlock"
  /\ owner' = [owner EXCEPT ![pos[t]] = Nobody]
  /\ pc' = [pc EXCEPT ![t] = "post"]
  /\ UNCHANGED <<sem, pos, gc>>

ClearPost(t) ==
  /\ pc[t] = "post"
  /\ sem' = sem + 1
  /\ pc' = [pc EXCEPT ![t] = "idle"]
  /\ UNCHANGED <<owner, pos, gc>>

(* The script of t registers and unregisters with the collector of its     *)
(* state; the lock of the list makes each call atomic.                     *)
plua_gc_reg(t, entries) ==
  /\ gc' = [gc EXCEPT ![pos[t]] = @ \cup entries]
  /\ UNCHANGED <<owner, sem, pos>>

plua_gc_unreg(s, entry) ==
  /\ gc' = [gc EXCEPT ![s] = @ \ {entry}]
  /\ UNCHANGED <<owner, sem, pos>>

----------------------------------------------------------------------------
(* The threads that will still try a state or post the semaphore.          *)
Busy == {t \in Threads : pc[t] \in {"scan", "post"}}

(* No state lies idle while a thread sleeps for one: every free state is   *)
(* matched by a post that is still in the semaphore, by a release about to *)
(* post, or by a thread that is trying the states.                         *)
NoIdleState ==
  (\E t \in Threads : pc[t] = "wait") =>
    Cardinality({s \in States : owner[s] = Nobody}) <= sem + Cardinality(Busy)
============================================================================
