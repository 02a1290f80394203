---------------------------- MODULE LuaActionsInv ----------------------------
(***************************************************************************)
(* The inductive invariant behind StagesInOrder: where the script of every *)
(* thread may be, where the work of every action is, and what the action   *)
(* has sent by then.                                                       *)
(***************************************************************************)
EXTENDS LuaActions, Functions

Once(q) == \A i, j \in DOMAIN q : q[i] = q[j] => i = j

EvLines == {"operator", "object", "id", "start", "unreg"}
CallbackLines == {"data", "send", "next"}

ScriptTypes ==
  /\ pc \in [Threads -> {"idle", "scan", "wait", "script", "clear", "unlock", "post"}]
  /\ pos \in [Threads -> States]
  /\ acts \in Seq(Params) /\ Len(acts) <= MaxActions
  /\ line \in [Threads -> {"none"} \cup EvLines \cup CallbackLines]
  /\ job \in [Threads -> (0 .. MaxActions) \X
                         {"none", "operator", "run", "first", "in", "for"}]

WorkTypes ==
  /\ thread_list \in Seq(Objects) /\ wq \in Seq(Objects) /\ afterWork \in Seq(Objects)
  /\ armed \subseteq Objects

----------------------------------------------------------------------------
(* Where the script of a thread may be                                     *)

ThreadAt(t) ==
  /\ pc[t] = "idle" => line[t] = "none"
  /\ pc[t] \in {"scan", "wait"} => line[t] \in {"operator", "object", "data"}
  /\ pc[t] = "script" => line[t] # "none"
  /\ pc[t] \in {"clear", "unlock", "post"} => line[t] = "none"
  /\ pc[t] # "idle" => job[t] # NoJob

EventsAt ==
  /\ line[Ev] \notin CallbackLines
  /\ \/ job[Ev] = NoJob /\ pc[Ev] = "idle"
     \/ job[Ev] = <<Len(acts), "operator">> /\ Len(acts) > 0 /\ line[Ev] \in {"none", "operator"}
     \/ /\ job[Ev] = <<Len(acts), "run">> /\ Len(acts) > 0
        /\ line[Ev] # "operator" /\ pc[Ev] # "idle"

CallbackAt(t) ==
  /\ line[t] \notin EvLines
  /\ pc[t] = "idle" => job[t] = NoJob
  /\ job[t] # NoJob => job[t] \in Objects

Control ==
  /\ \A t \in Threads : ThreadAt(t)
  /\ EventsAt
  /\ \A t \in Threads \ {Ev} : CallbackAt(t)
  /\ mpc # "run" => job[Main] = NoJob
  /\ Running => closed = {}

----------------------------------------------------------------------------
(* Where the work of an action is                                          *)

(* The action has made no object, or not handed it over yet.               *)
Fresh(a) ==
  \/ a > Len(acts)
  \/ a = job[Ev][1] /\ (job[Ev][2] = "operator" \/ line[Ev] = "object")
Making(a) == a = job[Ev][1] /\ line[Ev] \in {"id", "start"}
Unstarted(a) == Fresh(a) \/ Making(a)

IsThread(o) == o[2] = "first" /\ ~Unstarted(o[1]) /\ ~IsTimer(o[1])
IsTimerOf(o) ==
  /\ ~Unstarted(o[1])
  /\ o[2] = "first" => IsTimer(o[1])
  /\ o[2] = "in" => P(o[1]).in
  /\ o[2] = "for" => P(o[1]).for

Working == {job[w] : w \in {x \in Workers : job[x] # NoJob}}
Work == Range(thread_list) \cup Range(wq) \cup Working \cup Range(afterWork)

(* A thread object is in one place at a time.                              *)
WorkOnce ==
  /\ Once(thread_list) /\ Once(wq) /\ Once(afterWork)
  /\ Range(thread_list) \cap (Range(wq) \cup Working \cup Range(afterWork)) = {}
  /\ Range(wq) \cap (Working \cup Range(afterWork)) = {}
  /\ Working \cap Range(afterWork) = {}
  /\ \A v, w \in Workers : job[v] = job[w] /\ job[v] # NoJob => v = w

(* A timer that fired is not armed any more, but for one that repeats.     *)
TimerOnce ==
  /\ \A o \in armed : IsTimerOf(o)
  /\ job[Main] # NoJob =>
       /\ IsTimerOf(job[Main])
       /\ job[Main][2] # "in" => job[Main] \notin armed
       /\ job[Main][2] = "in" /\ line[Main] \in CallbackLines => job[Main] \in armed

Places == WorkOnce /\ (\A o \in Work : IsThread(o)) /\ TimerOnce

----------------------------------------------------------------------------
(* What an action has sent                                                 *)

RunsAt(o, lines) == \E t \in Threads : job[t] = o /\ line[t] \in lines
(* The callback of an object has still to come to its end.                 *)
Pending(o) ==
  o \in armed \cup Range(thread_list) \cup Range(wq) \/ RunsAt(o, CallbackLines)
AtNext(o) == RunsAt(o, {"next"})

Steps(p) == IF p.from > p.to THEN p.from - p.to ELSE p.to - p.from
Level(p, i) == IF p.from > p.to THEN p.from - i + 1 ELSE p.from + i - 1
(* What is sent before the old value is put back.                          *)
Stage(p) == IF p.in THEN Steps(p) + 1 ELSE 1

SendTypes ==
  /\ data \in [Actions -> [id : Int, from : Int]] /\ now \in Int
  /\ sends \in [Actions -> Seq(Int)]

FirstStage(a) ==
  /\ Making(a) \/ Pending(First(a)) => data[a].from = P(a).from
  /\ Pending(First(a)) =>
       /\ ~Pending(<<a, "in">>) /\ ~Pending(<<a, "for">>) /\ job[Main] # <<a, "for">>
       /\ Len(sends[a]) = IF AtNext(First(a)) /\ ~P(a).in THEN 1 ELSE 0

DimStage(a) ==
  Pending(<<a, "in">>) =>
    /\ ~Pending(<<a, "for">>)
    /\ Len(sends[a]) <= Stage(P(a))
    /\ IF AtNext(<<a, "in">>)
       THEN Len(sends[a]) > 0 /\ data[a].from = Level(P(a), Len(sends[a]))
       ELSE Len(sends[a]) < Stage(P(a)) /\ data[a].from = Level(P(a), Len(sends[a]) + 1)

ForStage(a) ==
  Pending(<<a, "for">>) =>
    Len(sends[a]) = Stage(P(a)) + (IF AtNext(<<a, "for">>) THEN 1 ELSE 0)

Stages ==
  /\ \A a \in Actions : Unstarted(a) => sends[a] = <<>>
  /\ \A a \in 1 .. Len(acts) : FirstStage(a) /\ DimStage(a) /\ ForStage(a)

----------------------------------------------------------------------------
ScriptInv == ScriptTypes /\ WorkTypes /\ Control /\ Places
StageInv == SendTypes /\ Stages /\ StagesInOrder
ActionInv == ScriptInv /\ StageInv
==============================================================================
