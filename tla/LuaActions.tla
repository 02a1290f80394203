----------------------------- MODULE LuaActions -----------------------------
(***************************************************************************)
(* The actions of the event rules (events/actions/*.lua) on one device and *)
(* the asynchronous objects of lua_c/async.c they run on.  The events      *)
(* thread runs an action, which makes a thread object, handed to the       *)
(* thread pool by way of the main loop (uv_queue_work_s), or a timer,      *)
(* fired by the main loop.  The callback of either sends the device its    *)
(* new value and may start a further timer, to dim step by step (IN) or to *)
(* put the old value back (FOR).  The objects of one action share a table  *)
(* of user data, which counts its holders.  An action remembers the        *)
(* execution id it gave the device; most callbacks give up when that id    *)
(* has changed since.                                                      *)
(***************************************************************************)
EXTENDS LuaStates, Integers, Sequences

CONSTANTS
  Workers,     \* threads of the libuv thread pool
  Params,      \* the actions of the rules: records of parameters
  MaxActions,  \* bound: actions run
  UsecPerSec,  \* 10^6 in the source
  MaxTime,     \* bound: last instant of the clock, at least MaxActions
  GcCalls      \* 0 or 1: whether the daemon is stopped

Main == "main"
Ev == "events"
None == 0
Old == -1  \* the value the device had when the action ran

ASSUME LuaActionsConstants ==
  /\ Threads = Workers \cup {Main, Ev} /\ {Main, Ev} \cap Workers = {}
  /\ MaxActions \in Nat /\ MaxTime \in Nat /\ MaxTime >= MaxActions
  /\ UsecPerSec \in Nat \ {0} /\ GcCalls \in {0, 1}
  /\ \A p \in Params :
       /\ p.module \in {"switch", "dim", "label", "toggle"}
       /\ {p.for, p.after, p.in} \subseteq BOOLEAN
       /\ p.to \in Nat /\ p.from \in Nat
       /\ p.in => p.module = "dim"
       /\ p.module = "toggle" => ~p.for /\ ~p.after

Actions == 1 .. MaxActions
(* The objects an action may make: the one of run, the timer of IN, the    *)
(* timer of FOR.                                                           *)
Objects == Actions \X {"first", "in", "for"}
First(a) == <<a, "first">>
ActionOf(o) == o[1]
NoJob == <<None, "none">>
(* An object registered with a collector, and a reference to a table.      *)
ObjEntry(o) == [object |-> o]
RefEntry(a) == [table |-> a]

VARIABLES
  acts,         \* parameters of the actions run so far
  line,         \* next line of the script of a thread
  job,          \* the object whose callback it runs; <<a, "operator">>, <<a, "run">>
  objects,      \* "none", "live" or "freed"
  inState,      \* thread->L: the state a thread object was triggered in
  table,        \* the table of an action: its status and its semaphore ref
  data,         \* its contents: action_id and from_dimlevel
  global,       \* the collector of timers, which outlive their script
  armed,        \* timers libuv will fire
  thread_list,  \* work for the main loop to hand over
  async,        \* whether thread_async_req is pending
  wq,           \* work of the thread pool
  afterWork,    \* finished work whose after_work_cb has to run
  execution,    \* id of the last action on the device
  now,          \* the clock, in microseconds
  sends,        \* history: what each action sent the device
  mpc,          \* progress of main_gc, "run" before it
  gcpos, again, \* plua_gc: i and _free
  closed,       \* states whose lua_State was closed
  calm          \* history: main_gc found no script running nor work queued

poolRest == <<owner, sem, pos, gc>>
scriptVars == <<acts, line, job>>
objVars == <<objects, inState, table, data, global, armed>>
workVars == <<thread_list, async, wq, afterWork>>
devVars == <<execution, now, sends>>
gcVars == <<mpc, gcpos, again, closed, calm>>
vars == <<poolVars, scriptVars, objVars, workVars, devVars, gcVars>>

Init ==
  /\ plua_init
  /\ acts = <<>>
  /\ line = [t \in Threads |-> "none"]
  /\ job = [t \in Threads |-> NoJob]
  /\ objects = [o \in Objects |-> "none"]
  /\ inState = [a \in Actions |-> None]
  /\ table = [a \in Actions |-> [st |-> "none", ref |-> 0]]
  /\ data = [a \in Actions |-> [id |-> None, from |-> 0]]
  /\ global = {} /\ armed = {}
  /\ thread_list = <<>> /\ async = 0 /\ wq = <<>> /\ afterWork = <<>>
  /\ execution = None /\ now = 0
  /\ sends = [a \in Actions |-> <<>>]
  /\ mpc = "run" /\ gcpos = 1 /\ again = 0 /\ closed = {} /\ calm = FALSE

----------------------------------------------------------------------------
(* The table of an action                                                  *)

Hold(tb, n) == [tb EXCEPT !.ref = @ + n]

(* Mutant: a table is freed while a reference is left.                     *)
DropEarly(tb, n) ==
  IF n >= tb.ref /\ n > 0 THEN [st |-> "freed", ref |-> 0]
  ELSE [tb EXCEPT !.ref = @ - n]

(* n calls of plua_metatable_free: the one that finds the semaphore at     *)
(* zero frees.                                                             *)
Drop(tb, n) ==
  IF n > tb.ref THEN [st |-> "freed", ref |-> 0] ELSE [tb EXCEPT !.ref = @ - n]

(* The callbacks of a collector: plua_async_thread_gc, plua_async_timer_gc *)
(* and plua_metatable_unref.                                               *)
Collect(entries) ==
  LET dead == {o \in Objects : ObjEntry(o) \in entries}
      drops(a) == Cardinality({o \in dead : ActionOf(o) = a})
                  + Cardinality(entries \cap {RefEntry(a)})
  IN /\ objects' = [o \in Objects |-> IF o \in dead THEN "freed" ELSE objects[o]]
     /\ table' = [a \in Actions |-> Drop(table[a], drops(a))]

----------------------------------------------------------------------------
(* The scripts                                                             *)

(* What run of a script makes: a timer or a thread object, an execution id *)
(* of its own or none, and the object it starts.                           *)
switch_run(p) == [timer |-> p.after, id |-> TRUE, starts |-> "first"]
label_run(p) == [timer |-> p.after, id |-> TRUE, starts |-> "first"]
dim_run(p) == [timer |-> p.in \/ p.after, id |-> TRUE,
               starts |-> IF p.in /\ ~p.after THEN "in" ELSE "first"]
toggle_run(p) == [timer |-> FALSE, id |-> FALSE, starts |-> "first"]

run(p) == CASE p.module = "switch" -> switch_run(p)
            [] p.module = "label" -> label_run(p)
            [] p.module = "dim" -> dim_run(p)
            [] p.module = "toggle" -> toggle_run(p)

(* The callbacks that compare the id of the device with that of the        *)
(* action.                                                                 *)
switch_checks(kind) == TRUE
label_checks(kind) == kind = "first"
dim_checks(kind) == kind # "in"
toggle_checks(kind) == FALSE

ChecksId(p, kind) == CASE p.module = "switch" -> switch_checks(kind)
                       [] p.module = "label" -> label_checks(kind)
                       [] p.module = "dim" -> dim_checks(kind)
                       [] p.module = "toggle" -> toggle_checks(kind)

P(a) == acts[a]
IsTimer(a) == run(P(a)).timer

At(t, l) == pc[t] = "script" /\ pos[t] \notin closed /\ line[t] = l
Goto(t, l) == line' = [line EXCEPT ![t] = l] /\ UNCHANGED pc
EndScript(t) ==
  line' = [line EXCEPT ![t] = "none"] /\ pc' = [pc EXCEPT ![t] = "clear"]

(* A rule evaluates its condition and runs its action, each in a state of  *)
(* its own; the operator changes nothing.                                  *)
event_operator_callback(p) ==
  /\ mpc \in {"run", "events"}
  /\ job[Ev] = NoJob /\ Len(acts) < MaxActions
  /\ acts' = Append(acts, p)
  /\ job' = [job EXCEPT ![Ev] = <<Len(acts) + 1, "operator">>]
  /\ line' = [line EXCEPT ![Ev] = "operator"]
  /\ plua_get_free_state(Ev)
  /\ UNCHANGED <<objVars, workVars, devVars, gcVars>>

OperatorScript ==
  /\ At(Ev, "operator")
  /\ EndScript(Ev)
  /\ UNCHANGED <<poolRest, acts, job, objVars, workVars, devVars, gcVars>>

event_action_run ==
  /\ job[Ev][2] = "operator"
  /\ job' = [job EXCEPT ![Ev][2] = "run"]
  /\ line' = [line EXCEPT ![Ev] = "object"]
  /\ plua_get_free_state(Ev)
  /\ UNCHANGED <<acts, objVars, workVars, devVars, gcVars>>

(* run: makes the timer or thread object and asks it for its table.        *)
RunObject ==
  LET a == job[Ev][1] IN
  /\ At(Ev, "object")
  /\ objects' = [objects EXCEPT ![First(a)] = "live"]
  /\ table' = [table EXCEPT ![a] = Hold([st |-> "live", ref |-> 0], 1)]
  /\ data' = [data EXCEPT ![a].from = P(a).from]
  /\ IF IsTimer(a)
     THEN /\ global' = global \cup {First(a)}
          /\ plua_gc_reg(Ev, {RefEntry(a)})
     ELSE /\ plua_gc_reg(Ev, {ObjEntry(First(a)), RefEntry(a)})
          /\ UNCHANGED global
  /\ Goto(Ev, IF run(P(a)).id THEN "id" ELSE "start")
  /\ UNCHANGED <<acts, job, inState, armed, workVars, devVars, gcVars>>

(* setActionId: event_action_set_execution_id sleeps for a microsecond and *)
(* adds the seconds of the clock to its microseconds.                      *)
RunSetId ==
  LET a == job[Ev][1] IN
  /\ At(Ev, "id")
  /\ \E t \in now + 1 .. MaxTime - (MaxActions - a) :
       LET id == (t \div UsecPerSec) + (t % UsecPerSec) IN
       /\ now' = t
       /\ execution' = id
       /\ data' = [data EXCEPT ![a].id = id]
  /\ Goto(Ev, "start")
  /\ UNCHANGED <<poolRest, acts, job, objects, inState, table, global,
                 armed, workVars, sends, gcVars>>

(* A further timer of action a: setUserdata(data()) frees its own table    *)
(* and takes a reference to that of a.                                     *)
NewTimer(o) ==
  /\ objects' = [objects EXCEPT ![o] = "live"]
  /\ global' = global \cup {o}
  /\ table' = [table EXCEPT ![ActionOf(o)] = Hold(@, 1)]

RunStartTimer ==
  LET a == job[Ev][1] IN
  /\ At(Ev, "start")
  /\ IsTimer(a)
  /\ armed' = armed \cup {<<a, run(P(a)).starts>>}
  /\ IF run(P(a)).starts = "in"
     THEN NewTimer(<<a, "in">>) ELSE UNCHANGED <<objects, global, table>>
  /\ EndScript(Ev)
  /\ UNCHANGED <<poolRest, acts, job, inState, data, workVars, devVars, gcVars>>

(* trigger: thread->L, uv_queue_work_s (the list is a stack)...            *)
RunTrigger ==
  LET a == job[Ev][1] IN
  /\ At(Ev, "start")
  /\ ~IsTimer(a)
  /\ inState' = [inState EXCEPT ![a] = pos[Ev]]
  /\ thread_list' = <<First(a)>> \o thread_list
  /\ async' = 1
  /\ Goto(Ev, "unreg")
  /\ UNCHANGED <<poolRest, acts, job, objects, table, data, global, armed, wq,
                 afterWork, devVars, gcVars>>

(* ... and only then leaves the collector of the state.                    *)
RunUnreg ==
  /\ At(Ev, "unreg")
  /\ plua_gc_unreg(pos[Ev], ObjEntry(First(job[Ev][1])))
  /\ EndScript(Ev)
  /\ UNCHANGED <<acts, job, objVars, workVars, devVars, gcVars>>

(* A callback: getUserdata, and the comparison of the ids.                 *)
CallbackData(t) ==
  LET a == job[t][1] IN
  /\ At(t, "data")
  /\ plua_gc_reg(t, {RefEntry(a)})
  /\ table' = [table EXCEPT ![a] = Hold(@, 1)]
  /\ IF ChecksId(P(a), job[t][2]) /\ execution # data[a].id
     THEN EndScript(t)
     ELSE Goto(t, "send")
  /\ UNCHANGED <<acts, job, objects, inState, data, global, armed, workVars,
                 devVars, gcVars>>

(* set... and send; timer_after of a dim action with IN sends nothing yet. *)
CallbackSend(t) ==
  LET a == job[t][1]
      kind == job[t][2]
      value == CASE kind = "first" -> P(a).to
                 [] kind = "in" -> data[a].from
                 [] kind = "for" -> Old IN
  /\ At(t, "send")
  /\ IF kind = "first" /\ P(a).in
     THEN UNCHANGED sends
     ELSE sends' = [sends EXCEPT ![a] = Append(@, value)]
  /\ Goto(t, "next")
  /\ UNCHANGED <<poolRest, acts, job, objVars, workVars, execution, now, gcVars>>

(* Mutant: timer_in compares the level it will send next with TO.          *)
StepEarly(a) ==
  LET next == IF P(a).from > P(a).to THEN data[a].from - 1 ELSE data[a].from + 1
  IN [from |-> next, last |-> next = P(a).to]

(* timer_in: the next level, and whether the one just sent was the last.   *)
Step(a) ==
  LET next == IF P(a).from > P(a).to THEN data[a].from - 1 ELSE data[a].from + 1
  IN [from |-> next, last |-> data[a].from = P(a).to]

(* What a callback does after it sent: execute_in, execute_for, and the    *)
(* end of timer_in.                                                        *)
CallbackNext(t) ==
  LET a == job[t][1]
      o == job[t]
      timer == CASE o[2] = "first" /\ P(a).in -> {<<a, "in">>}
                 [] o[2] = "first" /\ ~P(a).in /\ P(a).for -> {<<a, "for">>}
                 [] o[2] = "in" /\ Step(a).last /\ P(a).for -> {<<a, "for">>}
                 [] OTHER -> {}
      stop == IF o[2] = "in" /\ Step(a).last THEN {o} ELSE {} IN
  /\ At(t, "next")
  /\ data' = IF o[2] = "in" THEN [data EXCEPT ![a].from = Step(a).from] ELSE data
  /\ objects' = [x \in Objects |-> CASE x \in timer -> "live"
                                     [] x \in stop -> "freed"
                                     [] OTHER -> objects[x]]
  /\ table' = [table EXCEPT ![a] =
                 Drop(Hold(@, Cardinality(timer)), Cardinality(stop))]
  /\ global' = (global \cup timer) \ stop
  /\ armed' = (armed \cup timer) \ stop
  /\ EndScript(t)
  /\ UNCHANGED <<poolRest, acts, job, inState, workVars, devVars, gcVars>>

(* Waiting for a state.                                                    *)
GetState(t) ==
  /\ TryLock(t) \/ SemWait(t)
  /\ UNCHANGED <<scriptVars, objVars, workVars, devVars, gcVars>>

(* Mutant: the collector is emptied without calling its callbacks.         *)
ClearStateSilent(t) ==
  /\ ClearList(t) \/ ClearUnlock(t)
  /\ UNCHANGED <<scriptVars, objVars, workVars, devVars, gcVars>>

(* plua_clear_state runs the callbacks of the collector of the state.      *)
ClearState(t) ==
  /\ \/ ClearList(t) /\ Collect(gc[pos[t]])
     \/ ClearUnlock(t) /\ UNCHANGED <<objects, table>>
  /\ UNCHANGED <<scriptVars, inState, data, global, armed, workVars, devVars, gcVars>>

(* The thread is done with its script; a worker reports its work done.     *)
ClearDone(t) ==
  /\ ClearPost(t)
  /\ job' = IF job[t][2] = "operator" THEN job ELSE [job EXCEPT ![t] = NoJob]
  /\ afterWork' = IF t \in Workers THEN Append(afterWork, job[t]) ELSE afterWork
  /\ UNCHANGED <<acts, line, objVars, thread_list, async, wq, devVars, gcVars>>

----------------------------------------------------------------------------
(* The main loop and the thread pool                                       *)

(* thread_callback and timer_callback: a state, then the function.         *)
Callback(t, o) ==
  /\ job[t] = NoJob
  /\ plua_get_free_state(t)
  /\ job' = [job EXCEPT ![t] = o]
  /\ line' = [line EXCEPT ![t] = "data"]

(* Only timer_in repeats; other timers fire once and stay registered.      *)
timer_callback(o) ==
  /\ mpc = "run" /\ o \in armed
  /\ Callback(Main, o)
  /\ armed' = IF o[2] = "in" THEN armed ELSE armed \ {o}
  /\ UNCHANGED <<acts, objects, inState, table, data, global, workVars, devVars, gcVars>>

(* Mutant: the rest of the list is not announced again.                    *)
safe_thread_loopOnce ==
  /\ mpc = "run" /\ job[Main] = NoJob
  /\ async = 1
  /\ thread_list # <<>>
  /\ wq' = Append(wq, Head(thread_list))
  /\ thread_list' = Tail(thread_list)
  /\ async' = 0
  /\ UNCHANGED <<poolVars, scriptVars, objVars, afterWork, devVars, gcVars>>

(* One node per call; the rest is announced again.                         *)
safe_thread_loop ==
  /\ mpc = "run" /\ job[Main] = NoJob
  /\ async = 1
  /\ thread_list # <<>>
  /\ wq' = Append(wq, Head(thread_list))
  /\ thread_list' = Tail(thread_list)
  /\ async' = IF Len(thread_list) > 1 THEN 1 ELSE 0
  /\ UNCHANGED <<poolVars, scriptVars, objVars, afterWork, devVars, gcVars>>

thread_callback(w) ==
  /\ wq # <<>>
  /\ Callback(w, Head(wq))
  /\ wq' = Tail(wq)
  /\ UNCHANGED <<acts, objVars, thread_list, async, afterWork, devVars, gcVars>>

(* after_work_cb; the assertion of plua_gc_unreg fails when the state the  *)
(* thread was triggered in has been closed.                                *)
thread_free ==
  LET o == Head(afterWork)
      s == inState[ActionOf(o)] IN
  /\ mpc \in {"run", "done"} /\ job[Main] = NoJob
  /\ afterWork # <<>>
  /\ afterWork' = Tail(afterWork)
  /\ IF s \in closed
     THEN mpc' = "crashed" /\ UNCHANGED <<poolVars, objects, table>>
     ELSE /\ plua_gc_unreg(s, ObjEntry(o))
          /\ Collect({ObjEntry(o)})
          /\ UNCHANGED <<pc, mpc>>
  /\ UNCHANGED <<scriptVars, inState, data, global, armed, thread_list, async, wq,
                 devVars, gcpos, again, closed, calm>>

----------------------------------------------------------------------------
(* The end of the daemon                                                   *)

(* No script runs and no work is queued.                                   *)
Quiet ==
  /\ \A t \in Threads : job[t] = NoJob
  /\ thread_list = <<>> /\ wq = <<>> /\ afterWork = <<>>

main_gc ==
  /\ GcCalls = 1 /\ mpc = "run" /\ job[Main] = NoJob
  /\ mpc' = "events"
  /\ UNCHANGED <<poolVars, scriptVars, objVars, workVars, devVars, gcpos, again,
                 closed, calm>>

(* events_gc waits for the events thread; eventpool_gc frees the work that *)
(* was not handed over.                                                    *)
eventpool_gc ==
  /\ mpc = "events" /\ job[Ev] = NoJob
  /\ mpc' = "gc"
  /\ calm' = Quiet
  /\ Collect({ObjEntry(thread_list[i]) : i \in DOMAIN thread_list})
  /\ thread_list' = <<>>
  /\ UNCHANGED <<poolVars, scriptVars, inState, data, global, armed, async, wq,
                 afterWork, devVars, gcpos, again, closed>>

(* plua_gc: one state after the other, again as long as one was in use.    *)
GcState ==
  /\ mpc = "gc" /\ gcpos \in States
  /\ IF owner[gcpos] = Nobody
     THEN /\ owner' = [owner EXCEPT ![gcpos] = Main]
          /\ Collect(gc[gcpos])
          /\ gc' = [gc EXCEPT ![gcpos] = {}]
          /\ closed' = closed \cup {gcpos}
          /\ mpc' = "unlock"
          /\ UNCHANGED <<gcpos, again>>
     ELSE /\ again' = 1
          /\ gcpos' = gcpos + 1
          /\ UNCHANGED <<owner, objects, table, gc, closed, mpc>>
  /\ UNCHANGED <<sem, pc, pos, scriptVars, inState, data, global, armed, workVars,
                 devVars, calm>>

(* The semaphore is not posted.                                            *)
GcUnlock ==
  /\ mpc = "unlock"
  /\ owner' = [owner EXCEPT ![gcpos] = Nobody]
  /\ gcpos' = gcpos + 1
  /\ mpc' = "gc"
  /\ UNCHANGED <<sem, pc, pos, gc, scriptVars, objVars, workVars, devVars, again,
                 closed, calm>>

(* Mutant: the loop of plua_gc ends one state early.                       *)
GcGlobalSkipped ==
  /\ mpc = "gc" /\ gcpos = NRLUASTATES + 1
  /\ gcpos' = 1 /\ again' = 0
  /\ mpc' = IF again = 1 THEN "gc" ELSE "done"
  /\ UNCHANGED <<poolVars, scriptVars, objVars, workVars, devVars, closed, calm>>

(* Mutant: _free is not reset at the start of a pass.                      *)
GcGlobalNoReset ==
  /\ mpc = "gc" /\ gcpos = NRLUASTATES + 1
  /\ Collect({ObjEntry(o) : o \in global})
  /\ global' = {}
  /\ gcpos' = 1
  /\ UNCHANGED <<poolVars, scriptVars, inState, data, armed, workVars, devVars, mpc,
                 again, closed, calm>>

(* The last state has the timers; no script runs on it.                    *)
GcGlobal ==
  /\ mpc = "gc" /\ gcpos = NRLUASTATES + 1
  /\ Collect({ObjEntry(o) : o \in global})
  /\ global' = {}
  /\ gcpos' = 1 /\ again' = 0
  /\ mpc' = IF again = 1 THEN "gc" ELSE "done"
  /\ UNCHANGED <<poolVars, scriptVars, inState, data, armed, workVars, devVars,
                 closed, calm>>

(* thread_callback uses the lua_State of the state it was given.           *)
Crash(t) ==
  /\ pc[t] = "script" /\ pos[t] \in closed
  /\ mpc' = "crashed"
  /\ UNCHANGED <<poolVars, scriptVars, objVars, workVars, devVars, gcpos, again,
                 closed, calm>>

----------------------------------------------------------------------------
Script(t) ==
  \/ CallbackData(t) \/ CallbackSend(t) \/ CallbackNext(t)
  \/ GetState(t) \/ ClearState(t) \/ ClearDone(t)
  \/ Crash(t)

EventsStep ==
  \/ OperatorScript \/ event_action_run
  \/ RunObject \/ RunSetId \/ RunStartTimer \/ RunTrigger \/ RunUnreg
  \/ Script(Ev)

MainStep ==
  \/ \E o \in Objects : timer_callback(o)
  \/ safe_thread_loop \/ thread_free
  \/ eventpool_gc \/ GcState \/ GcUnlock \/ GcGlobal
  \/ Script(Main)

WorkerStep(w) == thread_callback(w) \/ Script(w)

Next ==
  /\ mpc # "crashed"
  /\ \/ \E p \in Params : event_operator_callback(p)
     \/ EventsStep \/ MainStep \/ main_gc
     \/ \E w \in Workers : WorkerStep(w)

Spec == Init /\ [][Next]_vars

(* Threads are scheduled and the main loop serves timers, asynchronous     *)
(* requests and finished work; rules need not fire, nor the daemon stop.   *)
FairSpec ==
  /\ Spec
  /\ WF_vars(mpc # "crashed" /\ EventsStep)
  /\ WF_vars(mpc # "crashed" /\ MainStep)
  /\ \A w \in Workers : WF_vars(mpc # "crashed" /\ WorkerStep(w))

----------------------------------------------------------------------------
(* Properties                                                              *)

Running == mpc \in {"run", "events"}

(* Until plua_gc takes the states without posting the semaphore, no thread *)
(* sleeps in plua_get_free_state while a state is free for it.             *)
StatesServed == Running => NoIdleState

(* The objects that hold the table of a, and the references of scripts.    *)
Holders(a) ==
  {ObjEntry(o) : o \in {x \in Objects : ActionOf(x) = a /\ objects[x] = "live"}}
  \cup {[state |-> s, table |-> a] : s \in {x \in States : RefEntry(a) \in gc[x]}}

(* The objects something will still use: an armed timer, queued, running   *)
(* or finished work, an entry of a collector.                              *)
InUse ==
  armed \cup global
  \cup {thread_list[i] : i \in DOMAIN thread_list}
  \cup {wq[i] : i \in DOMAIN wq} \cup {afterWork[i] : i \in DOMAIN afterWork}
  \cup {job[t] : t \in {x \in Threads : line[x] \in {"data", "send"}}}
  \cup {o \in Objects : \E s \in States : ObjEntry(o) \in gc[s]}

(* Until the daemon stops, the semaphore of a table is one less than the   *)
(* holders it has, so that it is freed by its last holder and no sooner,   *)
(* and no timer, work or collector refers to an object that was freed,     *)
(* whoever of the action, its callbacks and thread_free comes first.       *)
SharedTableSafe ==
  Running =>
    /\ \A a \in Actions :
         LET n == Cardinality(Holders(a)) IN
         table[a] = IF n > 0 THEN [st |-> "live", ref |-> n - 1]
                    ELSE [st |-> IF a > Len(acts) \/ objects[First(a)] = "none"
                                 THEN "none" ELSE "freed", ref |-> 0]
    /\ \A o \in InUse : objects[o] = "live"

(* What an action sends when nothing overrides it: TO, or each level from  *)
(* FROM to TO, and the old value at the end of FOR.                        *)
Expected(p) ==
  LET steps == IF p.from > p.to THEN p.from - p.to ELSE p.to - p.from
  IN (IF ~p.in THEN <<p.to>>
      ELSE [i \in 1 .. steps + 1 |->
              IF p.from > p.to THEN p.from - i + 1 ELSE p.from + i - 1])
     \o (IF p.for THEN <<Old>> ELSE <<>>)

(* The stages of an action reach the device once each and in their order,  *)
(* though they run on different threads.                                   *)
StagesInOrder ==
  \A a \in 1 .. Len(acts) :
    /\ Len(sends[a]) <= Len(Expected(P(a)))
    /\ \A i \in DOMAIN sends[a] : sends[a][i] = Expected(P(a))[i]

(* A later action took the execution id of the device.                     *)
Overridden(a) == \E b \in a + 1 .. Len(acts) : data[b].id # None

(* Every action a rule starts is carried out to its last stage, unless a   *)
(* later one overrides it or the daemon stops.                             *)
ActionsDone ==
  \A a \in Actions :
    a <= Len(acts) ~>
      \/ a <= Len(acts) /\ sends[a] = Expected(P(a))
      \/ Overridden(a) \/ mpc # "run"

(* Nothing is leaked. Once the scripts have ended and nothing is queued or *)
(* armed, every thread object and every timer that repeats has been freed: *)
(* only timers without repeat live on, and with them their table. Those    *)
(* are freed at the end of the daemon, when it comes while no script runs  *)
(* and no work is queued (plua_clear_state, plua_gc).                      *)
AtRest ==
  /\ \A s \in States : gc[s] = {}
  /\ \A o \in Objects : objects[o] = "live" => o \in global /\ o[2] # "in"
  /\ \A a \in Actions :
       table[a].st = "live" =>
         \E o \in Objects : ActionOf(o) = a /\ objects[o] = "live"
AllFreed ==
  /\ \A o \in Objects : objects[o] # "live"
  /\ \A a \in Actions : table[a].st # "live"
NothingLeaked ==
  /\ mpc = "run" /\ Quiet /\ armed = {} => AtRest
  /\ calm => mpc # "crashed" /\ (mpc = "done" => AllFreed)

(* The end of the daemon then comes to an end itself.                      *)
CalmGcEnds == calm ~> mpc = "done"
============================================================================
