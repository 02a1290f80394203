--------------------------- MODULE LuaStageProofs ---------------------------
(***************************************************************************)
(* The stages of an action reach the device in their order: every step     *)
(* keeps ActionInv, for any number of states, worker threads and actions.  *)
(***************************************************************************)
EXTENDS LuaActionsInv, TLAPS

----------------------------------------------------------------------------
(* Threads, objects and sequences                                          *)

(* Who the threads are.                                                    *)
LEMMA ThreadFacts ==
  /\ Main \in Threads /\ Ev \in Threads /\ Main # Ev
  /\ \A w \in Workers : w \in Threads /\ w # Main /\ w # Ev
  /\ \A t \in Threads : t = Main \/ t = Ev \/ t \in Workers
  BY LuaActionsConstants DEF Main, Ev

(* An object is its action and its kind.                                   *)
LEMMA ObjectFacts ==
  /\ \A a \in Actions, k \in {"first", "in", "for"} :
       <<a, k>> \in Objects /\ <<a, k>>[1] = a /\ <<a, k>>[2] = k
  /\ \A o \in Objects :
       /\ o[1] \in Actions /\ o[2] \in {"first", "in", "for"} /\ o = <<o[1], o[2]>>
       /\ o # NoJob
  /\ NoJob[1] = 0 /\ NoJob[2] = "none"
  /\ \A a : First(a) = <<a, "first">>
  BY DEF Objects, First, NoJob, None, Actions

(* No job is not an object.                                                *)
LEMMA NoJobNoObject == \A o \in Objects : o # NoJob
  BY ObjectFacts

(* The actions.                                                            *)
LEMMA ActionFacts ==
  ASSUME acts \in Seq(Params), Len(acts) <= MaxActions
  PROVE  /\ Len(acts) \in Nat
         /\ \A a \in 1 .. Len(acts) : a \in Actions /\ P(a) \in Params
         /\ \A a \in Actions : a > Len(acts) \/ a \in 1 .. Len(acts)
         /\ \A a \in Actions : a \in Nat /\ a > 0
  BY LuaActionsConstants DEF Actions, P

(* The actions after a step.                                               *)
LEMMA ActionFactsNext ==
  ASSUME acts' \in Seq(Params), Len(acts') <= MaxActions
  PROVE  \A a \in 1 .. Len(acts') : a \in Actions /\ P(a)' \in Params
  BY LuaActionsConstants DEF Actions, P

(* What an action is expected to send.                                     *)
LEMMA ExpectedFacts ==
  ASSUME NEW p \in Params
  PROVE  /\ p.to \in Int /\ p.from \in Int /\ p.in \in BOOLEAN /\ p.for \in BOOLEAN
         /\ Stage(p) \in Nat /\ Stage(p) > 0
         /\ Len(Expected(p)) \in Nat /\ Len(Expected(p)) >= Stage(p)
         /\ p.for => Len(Expected(p)) = Stage(p) + 1 /\ Expected(p)[Stage(p) + 1] = Old
         /\ ~p.in => Stage(p) = 1 /\ Expected(p)[1] = p.to
         /\ p.in => \A i \in 1 .. Stage(p) : Expected(p)[i] = Level(p, i)
         /\ p.in => Stage(p) = Steps(p) + 1
         /\ \A i \in Nat : i > 0 => (Level(p, i) = p.to <=> i = Steps(p) + 1)
         /\ Level(p, 1) = p.from
         /\ \A i \in Int : Level(p, i) \in Int
<1>1. p.to \in Nat /\ p.from \in Nat /\ p.in \in BOOLEAN /\ p.for \in BOOLEAN
  BY LuaActionsConstants
<1> DEFINE s == IF ~p.in THEN <<p.to>> ELSE [i \in 1 .. Steps(p) + 1 |-> Level(p, i)]
           f == IF p.for THEN <<Old>> ELSE <<>>
<1>2. Expected(p) = s \o f
  BY Zenon DEF Expected, Steps, Level
<1>3. Steps(p) \in Nat
  BY <1>1 DEF Steps
<1>4. \A i \in Int : Level(p, i) \in Int
  BY <1>1 DEF Level
<1>5. Level(p, 1) = p.from /\ \A i \in Nat : i > 0 => (Level(p, i) = p.to <=> i = Steps(p) + 1)
  BY <1>1 DEF Level, Steps
<1>6. Stage(p) \in Nat /\ Stage(p) > 0 /\ (~p.in => Stage(p) = 1) /\ (p.in => Stage(p) = Steps(p) + 1)
  BY <1>1, <1>3 DEF Stage
<1>7. /\ s \in Seq(Int) /\ Len(s) = Stage(p)
      /\ ~p.in => s[1] = p.to
      /\ p.in => \A i \in 1 .. Stage(p) : s[i] = Level(p, i)
  <2>1. CASE ~p.in
    BY <1>1, <1>6, <2>1
  <2>2. CASE p.in
    <3> HIDE DEF s
    <3>1. s = [i \in 1 .. Steps(p) + 1 |-> Level(p, i)]
      BY Zenon, <2>2 DEF s
    <3>2. \A i \in 1 .. Steps(p) + 1 : Level(p, i) \in Int
      BY <1>3, <1>4
    <3> QED BY <1>3, <1>6, <2>2, <3>1, <3>2
  <2> QED BY Zenon, <1>1, <2>1, <2>2
<1>8. f \in Seq(Int) /\ (p.for => Len(f) = 1 /\ f[1] = Old)
  BY DEF Old
<1> HIDE DEF s, f
<1>9. /\ Len(s \o f) = Len(s) + Len(f) /\ Len(f) \in Nat
      /\ \A i \in 1 .. Len(s) : (s \o f)[i] = s[i]
      /\ Len(f) > 0 => (s \o f)[Len(s) + 1] = f[1]
  <2>1. s \in Seq(Int) /\ f \in Seq(Int)
    BY Zenon, <1>7, <1>8
  <2> QED BY <2>1
<1>10. \A i \in 1 .. Stage(p) : Expected(p)[i] = s[i]
  BY Zenon, <1>2, <1>7, <1>9
<1>11. 1 \in 1 .. Stage(p)
  BY <1>6
<1>12. p.for => Len(Expected(p)) = Stage(p) + 1 /\ Expected(p)[Stage(p) + 1] = Old
  <2> SUFFICES ASSUME p.for PROVE Len(Expected(p)) = Stage(p) + 1 /\ Expected(p)[Stage(p) + 1] = Old
    BY Zenon
  <2>1. Len(f) > 0 /\ Len(f) = 1 /\ f[1] = Old
    BY <1>8
  <2> QED BY Zenon, <1>2, <1>7, <1>9, <2>1
<1>13. Len(Expected(p)) \in Nat /\ Len(Expected(p)) >= Stage(p)
  BY <1>2, <1>6, <1>7, <1>9
<1>14. p.to \in Int /\ p.from \in Int
  BY <1>1
<1> QED BY Zenon, <1>1, <1>4, <1>5, <1>6, <1>7, <1>10, <1>11, <1>12, <1>13, <1>14

(* The first element of a sequence and the others.                         *)
LEMMA RangeTail ==
  ASSUME NEW S, NEW s \in Seq(S), s # <<>>
  PROVE  /\ Head(s) \in S /\ Tail(s) \in Seq(S)
         /\ \A x : x \in Range(s) <=> x = Head(s) \/ x \in Range(Tail(s))
         /\ Once(s) => Once(Tail(s)) /\ Head(s) \notin Range(Tail(s))
<1>1. /\ Head(s) \in S /\ Tail(s) \in Seq(S) /\ Head(s) = s[1] /\ 1 \in DOMAIN s
  OBVIOUS
<1>2. \A i \in DOMAIN Tail(s) : i + 1 \in DOMAIN s /\ Tail(s)[i] = s[i + 1]
  OBVIOUS
<1>7. \A i \in DOMAIN Tail(s) : i \in Nat /\ i # 0
  OBVIOUS
<1>3. \A i \in DOMAIN s : i # 1 => i - 1 \in DOMAIN Tail(s) /\ Tail(s)[i - 1] = s[i]
  OBVIOUS
<1>4. ASSUME NEW x PROVE x \in Range(s) <=> x = Head(s) \/ x \in Range(Tail(s))
  <2>1. ASSUME x \in Range(s), x # Head(s) PROVE x \in Range(Tail(s))
    BY Zenon, <1>1, <1>3, <2>1 DEF Range
  <2>2. ASSUME x \in Range(Tail(s)) PROVE x \in Range(s)
    BY Zenon, <1>2, <2>2 DEF Range
  <2>3. Head(s) \in Range(s)
    BY Zenon, <1>1 DEF Range
  <2> QED BY Zenon, <2>1, <2>2, <2>3
<1>5. ASSUME Once(s) PROVE Once(Tail(s))
  <2> SUFFICES ASSUME NEW i \in DOMAIN Tail(s), NEW j \in DOMAIN Tail(s), Tail(s)[i] = Tail(s)[j]
               PROVE  i = j
    BY Zenon DEF Once
  <2>1. i + 1 = j + 1
    BY Zenon, <1>2, <1>5 DEF Once
  <2> QED BY <1>7, <2>1
<1>6. ASSUME Once(s) PROVE Head(s) \notin Range(Tail(s))
  <2> SUFFICES ASSUME NEW i \in DOMAIN Tail(s), Tail(s)[i] = Head(s) PROVE FALSE
    BY Zenon DEF Range
  <2>1. i + 1 = 1
    BY Zenon, <1>1, <1>2, <1>6 DEF Once
  <2> QED BY <1>7, <2>1
<1> QED BY Zenon, <1>1, <1>4, <1>5, <1>6

(* An element at the end of a sequence.                                    *)
LEMMA RangeAppend ==
  ASSUME NEW S, NEW s \in Seq(S), NEW y \in S
  PROVE  /\ Append(s, y) \in Seq(S)
         /\ \A x : x \in Range(Append(s, y)) <=> x = y \/ x \in Range(s)
         /\ Once(s) /\ y \notin Range(s) => Once(Append(s, y))
<1> DEFINE a == Append(s, y)
<1>1. /\ a \in Seq(S) /\ Len(s) + 1 \in DOMAIN a /\ a[Len(s) + 1] = y
      /\ \A i \in DOMAIN s : i \in DOMAIN a /\ a[i] = s[i]
      /\ \A i \in DOMAIN a : i \in DOMAIN s \/ i = Len(s) + 1
  OBVIOUS
<1> HIDE DEF a
<1>2. \A x : x \in Range(a) <=> x = y \/ x \in Range(s)
  BY Zenon, <1>1 DEF Range
<1>3. Once(s) /\ y \notin Range(s) => Once(a)
  BY Zenon, <1>1 DEF Range, Once
<1> QED BY Zenon, <1>1, <1>2, <1>3 DEF a

(* An element before a sequence.                                           *)
LEMMA RangePush ==
  ASSUME NEW S, NEW s \in Seq(S), NEW y \in S
  PROVE  /\ <<y>> \o s \in Seq(S)
         /\ \A x : x \in Range(<<y>> \o s) <=> x = y \/ x \in Range(s)
         /\ Once(s) /\ y \notin Range(s) => Once(<<y>> \o s)
<1> DEFINE a == <<y>> \o s
<1>1. /\ a \in Seq(S) /\ 1 \in DOMAIN a /\ a[1] = y
  OBVIOUS
<1>2. \A i \in DOMAIN s : i + 1 \in DOMAIN a /\ a[i + 1] = s[i]
  OBVIOUS
<1>3. \A i \in DOMAIN a : i \in Nat /\ (i = 1 \/ (i - 1 \in DOMAIN s /\ a[i] = s[i - 1]))
  OBVIOUS
<1> HIDE DEF a
<1>4. ASSUME NEW x PROVE x \in Range(a) <=> x = y \/ x \in Range(s)
  <2>1. ASSUME x \in Range(a), x # y PROVE x \in Range(s)
    <3>1. PICK i \in DOMAIN a : x = a[i]
      BY Zenon, <2>1 DEF Range
    <3>2. i - 1 \in DOMAIN s /\ x = s[i - 1]
      BY Zenon, <1>1, <1>3, <2>1, <3>1
    <3> QED BY Zenon, <3>2 DEF Range
  <2>2. ASSUME x \in Range(s) PROVE x \in Range(a)
    BY Zenon, <1>2, <2>2 DEF Range
  <2>3. y \in Range(a)
    BY Zenon, <1>1 DEF Range
  <2> QED BY Zenon, <2>1, <2>2, <2>3
<1>5. ASSUME Once(s), y \notin Range(s), NEW i \in DOMAIN a, NEW j \in DOMAIN a, a[i] = a[j]
      PROVE  i = j
  <2>1. i = 1 <=> j = 1
    BY Zenon, <1>1, <1>3, <1>5 DEF Range
  <2>2. ASSUME i # 1 PROVE i - 1 = j - 1
    BY Zenon, <1>3, <1>5, <2>1, <2>2 DEF Once
  <2> QED BY <1>3, <2>1, <2>2
<1> QED BY Zenon, <1>1, <1>4, <1>5 DEF a, Once

(* The elements of a sequence have its type; an empty one has none.        *)
LEMMA RangeType ==
  ASSUME NEW S, NEW s \in Seq(S)
  PROVE  /\ Range(s) \subseteq S
         /\ s = <<>> => Range(s) = {} /\ Once(s)
  BY DEF Range, Once

----------------------------------------------------------------------------
(* What a step leaves alone                                                *)

(* The script of no other thread moves.                                    *)
Only(t) ==
  \A u \in Threads \ {t} : pc'[u] = pc[u] /\ line'[u] = line[u] /\ job'[u] = job[u]

(* What was started stays what it is.                                      *)
Kept ==
  \A o \in Objects : (IsThread(o) => IsThread(o)') /\ (IsTimerOf(o) => IsTimerOf(o)')

(* A callback that runs goes on or ends, but does not send.                *)
Quieter ==
  \A u \in Threads : line'[u] \in CallbackLines \/ line[u] = "next" =>
    job'[u] = job[u] /\ line[u] \in CallbackLines /\ (line'[u] = "next" <=> line[u] = "next")

(* The main loop takes up only what is under way.                          *)
MainKept == \A o \in Objects : job'[Main] = o => job[Main] = o \/ Pending(o)

(* What the threads work on.                                               *)
LEMMA JobTypes ==
  ASSUME ScriptInv
  PROVE  /\ \A t \in Threads \ {Ev} : job[t] = NoJob \/ job[t] \in Objects
         /\ Work \subseteq Objects /\ armed \subseteq Objects
         /\ \A t \in Threads : pc[t] = "script" /\ line[t] \in CallbackLines =>
              t # Ev /\ job[t] \in Objects
         /\ \A o \in Objects : job[Ev] # o
<1>1. \A t \in Threads \ {Ev} : job[t] = NoJob \/ job[t] \in Objects
  BY Zenon DEF ScriptInv, Control, CallbackAt
<1>2. Range(thread_list) \subseteq Objects /\ Range(wq) \subseteq Objects
      /\ Range(afterWork) \subseteq Objects
  BY Zenon, RangeType DEF ScriptInv, WorkTypes
<1>3. Working \subseteq Objects
  BY Zenon, <1>1, ThreadFacts DEF Working
<1>4. \A t \in Threads : pc[t] = "script" /\ line[t] \in CallbackLines =>
              t # Ev /\ job[t] # NoJob
  <2>1. line[Ev] \notin CallbackLines
    BY Zenon DEF ScriptInv, Control, EventsAt
  <2>2. \A t \in Threads : pc[t] # "idle" => job[t] # NoJob
    BY Zenon DEF ScriptInv, Control, ThreadAt
  <2> QED BY Zenon, <2>1, <2>2
<1>5. \A o \in Objects : job[Ev] # o
  <2>1. job[Ev] = NoJob \/ job[Ev] = <<Len(acts), "operator">> \/ job[Ev] = <<Len(acts), "run">>
    BY Zenon DEF ScriptInv, Control, EventsAt
  <2> QED BY <2>1 DEF Objects, NoJob
<1>6. armed \subseteq Objects
  BY Zenon DEF ScriptInv, WorkTypes
<1> QED BY Zenon, <1>1, <1>2, <1>3, <1>4, <1>5, <1>6 DEF Work

(* One callback at a time runs for an object.                              *)
LEMMA JobOnce ==
  ASSUME ScriptInv, NEW t \in Threads, NEW u \in Threads, job[t] = job[u], job[t] \in Objects
  PROVE  t = u
<1>1. t # Ev /\ u # Ev
  BY Zenon, JobTypes
<1>2. ASSUME NEW v \in Workers, job[v] \in Objects PROVE IsThread(job[v])
  BY Zenon, <1>2, NoJobNoObject DEF ScriptInv, Places, Work, Working
<1>3. job[Main] \in Objects => IsTimerOf(job[Main])
  BY Zenon, NoJobNoObject DEF ScriptInv, Places, TimerOnce
<1>4. \A o \in Objects : ~(IsThread(o) /\ IsTimerOf(o))
  BY Zenon DEF IsThread, IsTimerOf
<1>5. t \in Workers /\ u \in Workers => t = u
  BY Zenon, NoJobNoObject DEF ScriptInv, Places, WorkOnce
<1> QED BY Zenon, <1>1, <1>2, <1>3, <1>4, <1>5, ThreadFacts

(* Nothing of an action that was not started is under way.                 *)
LEMMA NotPending ==
  ASSUME ScriptInv, NEW o \in Objects, Unstarted(o[1])
  PROVE  ~Pending(o) /\ o \notin Work /\ o \notin armed /\ \A t \in Threads : job[t] # o
<1>1. ~IsThread(o) /\ ~IsTimerOf(o)
  BY Zenon DEF IsThread, IsTimerOf
<1>2. o \notin Work /\ o \notin armed /\ job[Main] # o
  BY Zenon, <1>1, NoJobNoObject DEF ScriptInv, Places, TimerOnce
<1>3. \A w \in Workers : job[w] # o
  BY Zenon, <1>2, NoJobNoObject DEF Work, Working
<1>4. job[Ev] # o
  BY Zenon, JobTypes
<1>5. \A t \in Threads : job[t] # o
  BY Zenon, <1>2, <1>3, <1>4, ThreadFacts
<1> QED BY Zenon, <1>2, <1>5 DEF Pending, RunsAt, Work

----------------------------------------------------------------------------
(* Frames                                                                  *)

(* The scripts of the other threads are where they were.                   *)
LEMMA ControlFrame ==
  ASSUME Control, NEW t \in Threads, Only(t), acts' = acts \/ t = Ev, ThreadAt(t)',
         t = Ev => EventsAt', t # Ev => CallbackAt(t)',
         mpc' # "run" => job'[Main] = NoJob, Running' => closed' = {}
  PROVE  Control'
<1>1. \A u \in Threads : ThreadAt(u)'
  BY Zenon DEF Control, ThreadAt, Only
<1>2. EventsAt'
  BY Zenon, ThreadFacts DEF Control, EventsAt, Only
<1>3. \A u \in Threads \ {Ev} : CallbackAt(u)'
  BY Zenon DEF Control, CallbackAt, Only
<1> QED BY Zenon, <1>1, <1>2, <1>3 DEF Control

(* A step that changes nothing for the events thread.                      *)
LEMMA StartedFrame ==
  ASSUME acts' = acts, job'[Ev] = job[Ev], line'[Ev] = line[Ev]
  PROVE  \A a : (Fresh(a)' <=> Fresh(a)) /\ (Making(a)' <=> Making(a))
                /\ (Unstarted(a)' <=> Unstarted(a))
  BY Zenon DEF Fresh, Making, Unstarted

(* What is started stays.                                                  *)
LEMMA KeptFrame ==
  ASSUME acts' = acts, \A a \in Actions : Unstarted(a)' => Unstarted(a)
  PROVE  Kept
  BY Zenon, ObjectFacts DEF Kept, IsThread, IsTimerOf, IsTimer, P

(* The objects at work stay what they are.                                 *)
LEMMA KeptPlaces ==
  ASSUME ScriptInv, Kept
  PROVE  /\ \A o \in Work : IsThread(o)'
         /\ \A o \in armed : IsTimerOf(o)'
         /\ \A o : o = job[Main] /\ o # NoJob => IsTimerOf(o)'
<1>1. /\ Work \subseteq Objects /\ armed \subseteq Objects
      /\ job[Main] # NoJob => job[Main] \in Objects
  BY Zenon, JobTypes, ThreadFacts
<1>2. /\ \A o \in Work : IsThread(o)
      /\ \A o \in armed : IsTimerOf(o)
      /\ job[Main] # NoJob => IsTimerOf(job[Main])
  BY Zenon DEF ScriptInv, Places, TimerOnce
<1> QED BY Zenon, <1>1, <1>2 DEF Kept

(* Every object is where it was.                                           *)
LEMMA PlacesFrame ==
  ASSUME ScriptInv, Kept, UNCHANGED <<thread_list, wq, afterWork, armed>>,
         \A w \in Workers : job'[w] = job[w], job'[Main] \in {job[Main], NoJob},
         line'[Main] \in CallbackLines => line[Main] \in CallbackLines
  PROVE  Places'
<1>1. Working' = Working
  BY Zenon DEF Working
<1>2. /\ Range(thread_list)' = Range(thread_list) /\ Range(wq)' = Range(wq)
      /\ Range(afterWork)' = Range(afterWork) /\ Work' = Work
  BY Zenon, <1>1 DEF Work
<1>3. WorkOnce'
  BY Zenon, <1>1, <1>2 DEF ScriptInv, Places, WorkOnce, Once
<1>4. /\ \A o \in Work' : IsThread(o)'
      /\ \A o \in armed' : IsTimerOf(o)'
      /\ job'[Main] # NoJob => job'[Main] = job[Main] /\ IsTimerOf(job[Main])'
  BY Zenon, <1>2, KeptPlaces
<1>7. TimerOnce'
  BY Zenon, <1>4 DEF ScriptInv, Places, TimerOnce
<1> QED BY Zenon, <1>3, <1>4, <1>7 DEF Places

(* No callback comes to its last line, or leaves it.                       *)
LEMMA NextFrame ==
  ASSUME Quieter
  PROVE  \A o : AtNext(o)' <=> AtNext(o)
  BY Zenon DEF Quieter, RunsAt, AtNext, CallbackLines

(* What is under way after a step that starts and sends nothing.           *)
LEMMA PendingFrame ==
  ASSUME Quieter, NEW o,
         o \in (armed \cup Range(thread_list) \cup Range(wq))' =>
           o \in armed \cup Range(thread_list) \cup Range(wq)
  PROVE  /\ Pending(o)' => Pending(o)
         /\ AtNext(o)' <=> AtNext(o)
<1>1. RunsAt(o, CallbackLines)' => RunsAt(o, CallbackLines)
  BY Zenon DEF Quieter, RunsAt
<1>2. AtNext(o)' <=> AtNext(o)
  BY Zenon, NextFrame
<1> QED BY Zenon, <1>1, <1>2 DEF Pending

(* The main loop goes on with what it does, or is done with it.            *)
LEMMA MainFrame ==
  ASSUME job'[Main] \in {job[Main], NoJob}
  PROVE  MainKept
  BY Zenon, NoJobNoObject DEF MainKept

(* The stages of an action the step does not start or send for.            *)
LEMMA StageOf ==
  ASSUME NEW a \in Actions, P(a)' = P(a), sends'[a] = sends[a],
         data'[a].from = data[a].from, Making(a)' => Making(a), MainKept,
         \A o \in Objects : o[1] = a => (Pending(o)' => Pending(o)) /\ (AtNext(o)' <=> AtNext(o)),
         FirstStage(a) /\ DimStage(a) /\ ForStage(a)
  PROVE  FirstStage(a)' /\ DimStage(a)' /\ ForStage(a)'
<1>1. \A k \in {"first", "in", "for"} :
        (Pending(<<a, k>>)' => Pending(<<a, k>>)) /\ (AtNext(<<a, k>>)' <=> AtNext(<<a, k>>))
  BY Zenon, ObjectFacts
<1>5. job'[Main] = <<a, "for">> => job[Main] = <<a, "for">> \/ Pending(<<a, "for">>)
  BY Zenon, ObjectFacts DEF MainKept
<1>2. FirstStage(a)'
  BY Zenon, <1>1, <1>5 DEF FirstStage, First
<1>3. DimStage(a)'
  BY Zenon, <1>1 DEF DimStage
<1>4. ForStage(a)'
  BY Zenon, <1>1 DEF ForStage
<1> QED BY Zenon, <1>2, <1>3, <1>4

(* The stages after a step that starts and sends nothing.                  *)
LEMMA StageFrame ==
  ASSUME StageInv, UNCHANGED <<acts, sends>>, MainKept,
         \A a \in Actions : data'[a].from = data[a].from,
         \A a \in Actions : (Unstarted(a)' => Unstarted(a)) /\ (Making(a)' => Making(a)),
         \A o \in Objects : (Pending(o)' => Pending(o)) /\ (AtNext(o)' <=> AtNext(o)),
         \A a \in 1 .. Len(acts) : a \in Actions
  PROVE  Stages' /\ StagesInOrder'
<1>1. StagesInOrder'
  BY Zenon DEF StageInv, StagesInOrder, P
<1>2. \A a \in Actions : Unstarted(a)' => sends'[a] = <<>>
  BY Zenon DEF StageInv, Stages
<1>3. ASSUME NEW a \in 1 .. Len(acts) PROVE FirstStage(a)' /\ DimStage(a)' /\ ForStage(a)'
  <2>1. a \in Actions /\ P(a)' = P(a)
    BY Zenon, <1>3 DEF P
  <2>2. FirstStage(a) /\ DimStage(a) /\ ForStage(a)
    BY Zenon, <1>3 DEF StageInv, Stages
  <2> QED BY Zenon, <2>1, <2>2, StageOf
<1> QED BY Zenon, <1>1, <1>2, <1>3 DEF Stages

(* A step of one thread that starts and sends nothing, and for which       *)
(* nothing is handed over.                                                 *)
LEMMA QuietStep ==
  ASSUME ActionInv, NEW t \in Threads, Only(t), ScriptTypes', SendTypes', Quieter,
         Control', UNCHANGED <<acts, thread_list, wq, afterWork, armed, sends>>,
         t = Main => job'[t] \in {job[t], NoJob}, t \in Workers => job'[t] = job[t],
         \A a \in Actions : data'[a].from = data[a].from,
         \A a \in Actions : (Unstarted(a)' => Unstarted(a)) /\ (Making(a)' => Making(a))
  PROVE  ActionInv'
<1>2. Kept
  BY Zenon, KeptFrame
<1>3. /\ \A w \in Workers : job'[w] = job[w]
      /\ job'[Main] \in {job[Main], NoJob}
      /\ line'[Main] \in CallbackLines => line[Main] \in CallbackLines
  BY Zenon, ThreadFacts DEF Only, Quieter
<1>4. Places'
  BY Zenon, <1>2, <1>3, PlacesFrame DEF ActionInv
<1>5. WorkTypes'
  BY Zenon DEF ActionInv, ScriptInv, WorkTypes
<1>6. \A o \in Objects : (Pending(o)' => Pending(o)) /\ (AtNext(o)' <=> AtNext(o))
  BY Zenon, PendingFrame
<1>7. \A a \in 1 .. Len(acts) : a \in Actions
  BY Zenon, ActionFacts DEF ActionInv, ScriptInv, ScriptTypes
<1>8. Stages' /\ StagesInOrder'
  BY Zenon, <1>3, <1>6, <1>7, MainFrame, StageFrame DEF ActionInv
<1> QED BY Zenon, <1>4, <1>5, <1>8 DEF ActionInv, ScriptInv, StageInv

----------------------------------------------------------------------------
(* Steps of one script                                                     *)

(* The next line of a script, or its end.                                  *)
LEMMA LineStep ==
  ASSUME ScriptTypes, NEW t \in Threads, pc[t] = "script", job' = job,
         NEW l \in EvLines \cup CallbackLines, Goto(t, l) \/ EndScript(t)
  PROVE  /\ Only(t) /\ job'[t] = job[t]
         /\ \/ pc'[t] = "script" /\ line'[t] = l
            \/ pc'[t] = "clear" /\ line'[t] = "none"
         /\ pc' \in [Threads -> {"idle", "scan", "wait", "script", "clear", "unlock", "post"}]
         /\ line' \in [Threads -> {"none"} \cup EvLines \cup CallbackLines]
<1> DEFINE C == {"idle", "scan", "wait", "script", "clear", "unlock", "post"}
           L == {"none"} \cup EvLines \cup CallbackLines
<1>1. pc \in [Threads -> C] /\ line \in [Threads -> L]
  BY Zenon DEF ScriptTypes
<1>2. "clear" \in C /\ l \in L /\ "none" \in L
  BY Zenon
<1> HIDE DEF C, L
<1>3. CASE Goto(t, l)
  <2>1. line' = [line EXCEPT ![t] = l] /\ pc' = pc
    BY Zenon, <1>3 DEF Goto
  <2>2. line' \in [Threads -> L] /\ line'[t] = l /\ \A u \in Threads \ {t} : line'[u] = line[u]
    BY Zenon, <1>1, <1>2, <2>1
  <2> QED BY Zenon, <1>1, <2>1, <2>2 DEF Only, C, L
<1>4. CASE EndScript(t)
  <2>1. line' = [line EXCEPT ![t] = "none"] /\ pc' = [pc EXCEPT ![t] = "clear"]
    BY Zenon, <1>4 DEF EndScript
  <2>2. line' \in [Threads -> L] /\ line'[t] = "none" /\ \A u \in Threads \ {t} : line'[u] = line[u]
    BY Zenon, <1>1, <1>2, <2>1
  <2>3. pc' \in [Threads -> C] /\ pc'[t] = "clear" /\ \A u \in Threads \ {t} : pc'[u] = pc[u]
    BY Zenon, <1>1, <1>2, <2>1
  <2> QED BY Zenon, <2>2, <2>3 DEF Only, C, L
<1> QED BY Zenon, <1>3, <1>4

(* A line of the script that runs an action.                               *)
LEMMA EventsLine ==
  ASSUME ScriptInv, pc[Ev] = "script", UNCHANGED <<job, acts, mpc, closed>>,
         NEW l \in EvLines \ {"operator"},
         (Goto(Ev, l) /\ line[Ev] # "operator") \/ EndScript(Ev)
  PROVE  /\ Control' /\ Only(Ev)
         /\ \/ pc'[Ev] = "script" /\ line'[Ev] = l
            \/ pc'[Ev] = "clear" /\ line'[Ev] = "none"
         /\ pc' \in [Threads -> {"idle", "scan", "wait", "script", "clear", "unlock", "post"}]
         /\ line' \in [Threads -> {"none"} \cup EvLines \cup CallbackLines]
<1>1. /\ Only(Ev) /\ job'[Ev] = job[Ev]
      /\ \/ pc'[Ev] = "script" /\ line'[Ev] = l
         \/ pc'[Ev] = "clear" /\ line'[Ev] = "none"
      /\ pc' \in [Threads -> {"idle", "scan", "wait", "script", "clear", "unlock", "post"}]
      /\ line' \in [Threads -> {"none"} \cup EvLines \cup CallbackLines]
  BY Zenon, LineStep, ThreadFacts DEF ScriptInv
<1>2. (line'[Ev] = l /\ line[Ev] # "operator") \/ line'[Ev] = "none"
  BY Zenon, ThreadFacts DEF Goto, EndScript, ScriptInv, ScriptTypes
<1>3. l # "none" /\ l # "operator" /\ l \notin CallbackLines
  BY Zenon DEF EvLines, CallbackLines
<1>4. job[Ev] # NoJob
  BY Zenon, ThreadFacts DEF ScriptInv, Control, ThreadAt
<1>5. ThreadAt(Ev)'
  BY Zenon, <1>1, <1>3, <1>4 DEF ThreadAt
<1>6. line[Ev] # "none"
  BY Zenon, ThreadFacts DEF ScriptInv, Control, ThreadAt
<1>7. EventsAt'
  <2>1. line'[Ev] \notin CallbackLines
    BY Zenon, <1>1, <1>3 DEF CallbackLines
  <2>2. pc'[Ev] # "idle"
    BY Zenon, <1>1
  <2>3. CASE job[Ev] = <<Len(acts), "operator">> /\ Len(acts) > 0 /\ line[Ev] \in {"none", "operator"}
    BY Zenon, <1>1, <1>2, <1>6, <2>1, <2>3 DEF EventsAt
  <2>4. CASE job[Ev] = <<Len(acts), "run">> /\ Len(acts) > 0
    BY Zenon, <1>1, <1>2, <1>3, <2>1, <2>2, <2>4 DEF EventsAt
  <2> QED BY Zenon, <1>4, <2>3, <2>4 DEF ScriptInv, Control, EventsAt
<1>8. (mpc' # "run" => job'[Main] = NoJob) /\ (Running' => closed' = {})
  BY Zenon DEF ScriptInv, Control, Running
<1>9. Control'
  BY Zenon, <1>1, <1>5, <1>7, <1>8, ThreadFacts, ControlFrame DEF ScriptInv
<1> QED BY Zenon, <1>1, <1>9

(* A line of the script of a callback.                                     *)
LEMMA CallbackLine ==
  ASSUME ScriptInv, NEW t \in Threads, pc[t] = "script", line[t] \in CallbackLines,
         UNCHANGED <<job, acts, mpc, closed>>,
         NEW l \in CallbackLines, Goto(t, l) \/ EndScript(t)
  PROVE  /\ Control' /\ Only(t) /\ t # Ev /\ job[t] \in Objects
         /\ \/ pc'[t] = "script" /\ line'[t] = l
            \/ pc'[t] = "clear" /\ line'[t] = "none"
         /\ pc' \in [Threads -> {"idle", "scan", "wait", "script", "clear", "unlock", "post"}]
         /\ line' \in [Threads -> {"none"} \cup EvLines \cup CallbackLines]
<1>1. /\ Only(t) /\ job'[t] = job[t]
      /\ \/ pc'[t] = "script" /\ line'[t] = l
         \/ pc'[t] = "clear" /\ line'[t] = "none"
      /\ pc' \in [Threads -> {"idle", "scan", "wait", "script", "clear", "unlock", "post"}]
      /\ line' \in [Threads -> {"none"} \cup EvLines \cup CallbackLines]
  BY Zenon, LineStep DEF ScriptInv
<1>2. l # "none" /\ l \notin EvLines /\ "none" \notin EvLines
  BY Zenon DEF EvLines, CallbackLines
<1>3. t # Ev /\ job[t] \in Objects /\ job[t] # NoJob
  BY Zenon, JobTypes, NoJobNoObject
<1>4. ThreadAt(t)' /\ CallbackAt(t)'
  BY Zenon, <1>1, <1>2, <1>3 DEF ThreadAt, CallbackAt
<1>5. (mpc' # "run" => job'[Main] = NoJob) /\ (Running' => closed' = {})
  BY Zenon DEF ScriptInv, Control, Running
<1>6. Control'
  BY Zenon, <1>1, <1>3, <1>4, <1>5, ControlFrame DEF ScriptInv
<1> QED BY Zenon, <1>1, <1>3, <1>6

(* The threads that take no step go on as before.                          *)
LEMMA QuieterOnly ==
  ASSUME NEW t \in Threads, Only(t),
         line'[t] \in CallbackLines \/ line[t] = "next" =>
           job'[t] = job[t] /\ line[t] \in CallbackLines /\ (line'[t] = "next" <=> line[t] = "next")
  PROVE  Quieter
<1>1. "next" \in CallbackLines
  BY Zenon DEF CallbackLines
<1> QED BY Zenon, <1>1 DEF Quieter, Only

(* The steps of the events thread that only move on in its script.         *)
LEMMA EventsQuiet ==
  ASSUME ActionInv, pc[Ev] = "script", NEW l \in EvLines \ {"operator"},
         \/ EndScript(Ev) /\ line[Ev] \in {"operator", "unreg"}
         \/ Goto(Ev, l) /\ l = "start" /\ line[Ev] = "id",
         UNCHANGED <<acts, job, pos, thread_list, wq, afterWork, armed, sends, gcVars>>,
         SendTypes', \A a \in Actions : data'[a].from = data[a].from
  PROVE  ActionInv'
<1>1. ScriptInv /\ mpc' = mpc /\ closed' = closed
  BY Zenon DEF ActionInv, gcVars
<1>2. (Goto(Ev, l) /\ line[Ev] # "operator") \/ EndScript(Ev)
  BY Zenon
<1>3. /\ Control' /\ Only(Ev)
      /\ \/ pc'[Ev] = "script" /\ line'[Ev] = l
         \/ pc'[Ev] = "clear" /\ line'[Ev] = "none"
      /\ pc' \in [Threads -> {"idle", "scan", "wait", "script", "clear", "unlock", "post"}]
      /\ line' \in [Threads -> {"none"} \cup EvLines \cup CallbackLines]
  BY Zenon, <1>1, <1>2, EventsLine
<1>4. ScriptTypes'
  BY Zenon, <1>1, <1>3 DEF ScriptInv, ScriptTypes
<1>5. line'[Ev] = "none" \/ (line'[Ev] = "start" /\ line[Ev] = "id")
  BY Zenon, <1>1, ThreadFacts DEF Goto, EndScript, ScriptInv, ScriptTypes
<1>6. Quieter
  <2>1. line[Ev] \notin CallbackLines /\ line'[Ev] \notin CallbackLines
    BY Zenon, <1>5 DEF CallbackLines
  <2>2. line[Ev] # "next"
    BY Zenon
  <2> QED BY Zenon, <1>3, <2>1, <2>2, ThreadFacts, QuieterOnly
<1>7. \A a \in Actions : (Unstarted(a)' => Unstarted(a)) /\ (Making(a)' => Making(a))
  BY Zenon, <1>5 DEF Unstarted, Fresh, Making
<1> QED BY Zenon, <1>3, <1>4, <1>6, <1>7, ThreadFacts, QuietStep

(* The end of the condition of a rule.                                     *)
LEMMA OperatorScriptStep ==
  ASSUME ActionInv, OperatorScript
  PROVE  ActionInv'
<1>1. /\ pc[Ev] = "script" /\ line[Ev] = "operator" /\ EndScript(Ev)
      /\ UNCHANGED <<acts, job, pos, thread_list, wq, afterWork, armed, sends, gcVars, data, now>>
  BY Zenon DEF OperatorScript, At, poolRest, objVars, workVars, devVars
<1>2. SendTypes' /\ \A a \in Actions : data'[a].from = data[a].from
  BY Zenon, <1>1 DEF ActionInv, StageInv, SendTypes
<1>3. "start" \in EvLines \ {"operator"}
  BY Zenon DEF EvLines
<1> QED BY Zenon, <1>1, <1>2, <1>3, EventsQuiet

(* plua_gc_unreg after trigger.                                            *)
LEMMA RunUnregStep ==
  ASSUME ActionInv, RunUnreg
  PROVE  ActionInv'
<1>1. /\ pc[Ev] = "script" /\ line[Ev] = "unreg" /\ EndScript(Ev)
      /\ UNCHANGED <<acts, job, pos, thread_list, wq, afterWork, armed, sends, gcVars, data, now>>
  BY Zenon DEF RunUnreg, At, plua_gc_unreg, objVars, workVars, devVars
<1>2. SendTypes' /\ \A a \in Actions : data'[a].from = data[a].from
  BY Zenon, <1>1 DEF ActionInv, StageInv, SendTypes
<1>3. "start" \in EvLines \ {"operator"}
  BY Zenon DEF EvLines
<1> QED BY Zenon, <1>1, <1>2, <1>3, EventsQuiet

(* Who runs an action, and which.                                          *)
LEMMA RunFacts ==
  ASSUME ScriptInv, pc[Ev] = "script", line[Ev] \in {"object", "id", "start", "unreg"}
  PROVE  \E a \in 1 .. Len(acts) :
           /\ a \in Actions /\ a = Len(acts) /\ job[Ev] = <<a, "run">>
           /\ job[Ev][1] = a /\ job[Ev][2] = "run"
<1>1. job[Ev] # NoJob
  BY Zenon, ThreadFacts DEF ScriptInv, Control, ThreadAt
<1>2. job[Ev] = <<Len(acts), "run">> /\ Len(acts) > 0
  BY Zenon, <1>1 DEF ScriptInv, Control, EventsAt
<1>3. acts \in Seq(Params) /\ Len(acts) <= MaxActions
  BY Zenon DEF ScriptInv, ScriptTypes
<1>4. Len(acts) \in 1 .. Len(acts)
  BY <1>2, <1>3
<1>5. <<Len(acts), "run">>[1] = Len(acts) /\ <<Len(acts), "run">>[2] = "run"
  OBVIOUS
<1>6. Len(acts) \in Actions
  BY Zenon, <1>3, <1>4, ActionFacts
<1> QED BY Zenon, <1>2, <1>4, <1>5, <1>6

(* setActionId.                                                            *)
LEMMA RunSetIdStep ==
  ASSUME ActionInv, RunSetId
  PROVE  ActionInv'
<1>1. /\ pc[Ev] = "script" /\ line[Ev] = "id" /\ Goto(Ev, "start")
      /\ UNCHANGED <<acts, job, pos, thread_list, wq, afterWork, armed, sends, gcVars>>
  BY Zenon DEF RunSetId, At, poolRest, workVars, gcVars
<1>2. PICK a \in Actions : job[Ev][1] = a
  BY Zenon, <1>1, RunFacts DEF ActionInv
<1>3. data \in [Actions -> [id : Int, from : Int]] /\ now \in Int /\ sends \in [Actions -> Seq(Int)]
  BY Zenon DEF ActionInv, StageInv, SendTypes
<1>4. PICK t \in now + 1 .. MaxTime - (MaxActions - a) :
        /\ now' = t
        /\ data' = [data EXCEPT ![a].id = (t \div UsecPerSec) + (t % UsecPerSec)]
  BY Zenon, <1>2 DEF RunSetId
<1>5. t \in Int /\ (t \div UsecPerSec) + (t % UsecPerSec) \in Int
  <2>1. UsecPerSec \in Nat /\ UsecPerSec > 0
    BY LuaActionsConstants
  <2>2. t \in Int
    OBVIOUS
  <2>3. t \div UsecPerSec \in Int /\ t % UsecPerSec \in Int
    BY <2>1, <2>2
  <2> QED BY <2>2, <2>3
<1>6. /\ data' \in [Actions -> [id : Int, from : Int]]
      /\ \A b \in Actions : data'[b].from = data[b].from
  BY <1>3, <1>4, <1>5
<1>7. SendTypes'
  BY Zenon, <1>1, <1>3, <1>4, <1>5, <1>6 DEF SendTypes
<1>8. "start" \in EvLines \ {"operator"}
  BY Zenon DEF EvLines
<1> QED BY Zenon, <1>1, <1>6, <1>7, <1>8, EventsQuiet

(* A thread moves on between two scripts.                                  *)
LEMMA PoolQuiet ==
  ASSUME ActionInv, NEW t \in Threads, NEW c,
         \/ pc[t] \in {"scan", "wait"} /\ c \in {"script", "scan", "wait"}
         \/ pc[t] = "clear" /\ c = "unlock"
         \/ pc[t] = "unlock" /\ c = "post",
         pc' = [pc EXCEPT ![t] = c], pos' \in [Threads -> States],
         UNCHANGED <<scriptVars, data, armed, workVars, devVars, gcVars>>
  PROVE  ActionInv'
<1>1. UNCHANGED <<acts, line, job, thread_list, wq, afterWork, armed, sends, data, now, mpc, closed>>
  BY Zenon DEF scriptVars, workVars, devVars, gcVars
<1>2. /\ pc'[t] = c /\ \A u \in Threads \ {t} : pc'[u] = pc[u]
      /\ pc' \in [Threads -> {"idle", "scan", "wait", "script", "clear", "unlock", "post"}]
  <2> DEFINE C == {"idle", "scan", "wait", "script", "clear", "unlock", "post"}
  <2>1. pc \in [Threads -> C]
    BY Zenon DEF ActionInv, ScriptInv, ScriptTypes
  <2>2. c \in C
    BY Zenon
  <2> HIDE DEF C
  <2>3. /\ pc'[t] = c /\ \A u \in Threads \ {t} : pc'[u] = pc[u]
        /\ pc' \in [Threads -> C]
    BY Zenon, <2>1, <2>2
  <2> QED BY Zenon, <2>3 DEF C
<1>3. Only(t)
  BY Zenon, <1>1, <1>2 DEF Only
<1>4. ScriptTypes' /\ SendTypes'
  BY Zenon, <1>1, <1>2 DEF ActionInv, ScriptInv, ScriptTypes, StageInv, SendTypes
<1>5. pc[t] # "idle" /\ c # "idle"
  BY Zenon
<1>6. ThreadAt(t)'
  <2>1. ThreadAt(t)
    BY Zenon DEF ActionInv, ScriptInv, Control
  <2>2. CASE pc[t] \in {"scan", "wait"} /\ c \in {"script", "scan", "wait"}
    BY Zenon, <1>1, <1>2, <2>1, <2>2 DEF ThreadAt
  <2>3. CASE (pc[t] = "clear" /\ c = "unlock") \/ (pc[t] = "unlock" /\ c = "post")
    BY Zenon, <1>1, <1>2, <2>1, <2>3 DEF ThreadAt
  <2> QED BY Zenon, <2>2, <2>3
<1>7. t = Ev => EventsAt'
  BY Zenon, <1>1, <1>2, <1>5 DEF ActionInv, ScriptInv, Control, EventsAt
<1>8. t # Ev => CallbackAt(t)'
  BY Zenon, <1>1, <1>2, <1>5 DEF ActionInv, ScriptInv, Control, CallbackAt
<1>9. Control'
  <2>1. (mpc' # "run" => job'[Main] = NoJob) /\ (Running' => closed' = {})
    BY Zenon, <1>1 DEF ActionInv, ScriptInv, Control, Running
  <2> QED BY Zenon, <1>1, <1>3, <1>6, <1>7, <1>8, <2>1, ControlFrame DEF ActionInv, ScriptInv
<1>10. Quieter
  <2>1. "next" \in CallbackLines
    BY Zenon DEF CallbackLines
  <2> QED BY Zenon, <1>1, <2>1 DEF Quieter
<1>11. \A a \in Actions : (Unstarted(a)' => Unstarted(a)) /\ (Making(a)' => Making(a))
  BY Zenon, <1>1, StartedFrame
<1> QED BY Zenon, <1>1, <1>3, <1>4, <1>9, <1>10, <1>11, QuietStep

(* Waiting for a state.                                                    *)
LEMMA GetStateStep ==
  ASSUME ActionInv, NEW t \in Threads, GetState(t)
  PROVE  ActionInv'
<1>1. UNCHANGED <<scriptVars, data, armed, workVars, devVars, gcVars>>
  BY Zenon DEF GetState, objVars
<1>2. pos \in [Threads -> States] /\ pc \in [Threads -> {"idle", "scan", "wait", "script", "clear", "unlock", "post"}]
  BY Zenon DEF ActionInv, ScriptInv, ScriptTypes
<1>3. CASE TryLock(t)
  <2>1. CASE pc' = [pc EXCEPT ![t] = "script"] /\ pos' = pos
    BY Zenon, <1>1, <1>2, <1>3, <2>1, PoolQuiet DEF TryLock
  <2>2. CASE pos[t] < NRLUASTATES /\ pos' = [pos EXCEPT ![t] = @ + 1] /\ pc' = pc
    <3>1. pos[t] + 1 \in States
      BY <1>2, <2>2, LuaStatesConstants DEF States
    <3>2. pos' \in [Threads -> States]
      BY Zenon, <1>2, <2>2, <3>1
    <3>3. pc[t] = "scan" /\ pc' = [pc EXCEPT ![t] = "scan"]
      BY Zenon, <1>2, <1>3, <2>2 DEF TryLock
    <3> QED BY Zenon, <1>1, <3>2, <3>3, PoolQuiet
  <2>3. CASE pc' = [pc EXCEPT ![t] = "wait"] /\ pos' = pos
    BY Zenon, <1>1, <1>2, <1>3, <2>3, PoolQuiet DEF TryLock
  <2> QED BY Zenon, <1>3, <2>1, <2>2, <2>3 DEF TryLock
<1>4. CASE SemWait(t)
  <2>1. 1 \in States
    BY LuaStatesConstants DEF States
  <2>2. pos' \in [Threads -> States]
    BY Zenon, <1>2, <1>4, <2>1 DEF SemWait
  <2> QED BY Zenon, <1>1, <1>4, <2>2, PoolQuiet DEF SemWait
<1> QED BY Zenon, <1>3, <1>4 DEF GetState

(* plua_clear_state.                                                       *)
LEMMA ClearStateStep ==
  ASSUME ActionInv, NEW t \in Threads, ClearState(t)
  PROVE  ActionInv'
<1>1. UNCHANGED <<scriptVars, data, armed, workVars, devVars, gcVars>>
  BY Zenon DEF ClearState
<1>2. pos' = pos /\ pos \in [Threads -> States]
  BY Zenon DEF ClearState, ClearList, ClearUnlock, ActionInv, ScriptInv, ScriptTypes
<1>3. \/ pc[t] = "clear" /\ pc' = [pc EXCEPT ![t] = "unlock"]
      \/ pc[t] = "unlock" /\ pc' = [pc EXCEPT ![t] = "post"]
  BY Zenon DEF ClearState, ClearList, ClearUnlock
<1> QED BY Zenon, <1>1, <1>2, <1>3, PoolQuiet

(* A thread asks for a state to run a script in.                           *)
LEMMA BeginScript ==
  ASSUME ScriptTypes, NEW t \in Threads, plua_get_free_state(t),
         NEW o \in (0 .. MaxActions) \X {"none", "operator", "run", "first", "in", "for"},
         NEW l \in EvLines \cup CallbackLines,
         job' = [job EXCEPT ![t] = o], line' = [line EXCEPT ![t] = l]
  PROVE  /\ Only(t) /\ pc[t] = "idle" /\ pc'[t] = "scan" /\ job'[t] = o /\ line'[t] = l
         /\ pc' \in [Threads -> {"idle", "scan", "wait", "script", "clear", "unlock", "post"}]
         /\ pos' \in [Threads -> States]
         /\ line' \in [Threads -> {"none"} \cup EvLines \cup CallbackLines]
         /\ job' \in [Threads -> (0 .. MaxActions) \X
                                 {"none", "operator", "run", "first", "in", "for"}]
<1> DEFINE C == {"idle", "scan", "wait", "script", "clear", "unlock", "post"}
           L == {"none"} \cup EvLines \cup CallbackLines
           J == (0 .. MaxActions) \X {"none", "operator", "run", "first", "in", "for"}
<1>1. /\ pc \in [Threads -> C] /\ line \in [Threads -> L] /\ job \in [Threads -> J]
      /\ pos \in [Threads -> States]
  BY Zenon DEF ScriptTypes
<1>2. "scan" \in C /\ l \in L /\ o \in J
  BY Zenon
<1>3. 1 \in States
  BY LuaStatesConstants DEF States
<1> HIDE DEF C, L, J
<1>4. pc[t] = "idle" /\ pc' = [pc EXCEPT ![t] = "scan"] /\ pos' = [pos EXCEPT ![t] = 1]
  BY Zenon DEF plua_get_free_state
<1>5. pc' \in [Threads -> C] /\ pc'[t] = "scan" /\ \A u \in Threads \ {t} : pc'[u] = pc[u]
  BY Zenon, <1>1, <1>2, <1>4
<1>6. line' \in [Threads -> L] /\ line'[t] = l /\ \A u \in Threads \ {t} : line'[u] = line[u]
  BY Zenon, <1>1, <1>2
<1>7. job' \in [Threads -> J] /\ job'[t] = o /\ \A u \in Threads \ {t} : job'[u] = job[u]
  BY Zenon, <1>1, <1>2
<1>8. pos' \in [Threads -> States]
  BY Zenon, <1>1, <1>3, <1>4
<1> QED BY Zenon, <1>4, <1>5, <1>6, <1>7, <1>8 DEF Only, C, L, J

(* event_action_run after the condition.                                   *)
LEMMA EventActionRunStep ==
  ASSUME ActionInv, event_action_run
  PROVE  ActionInv'
<1>1. UNCHANGED <<acts, thread_list, wq, afterWork, armed, sends, data, now, mpc, closed>>
  BY Zenon DEF event_action_run, objVars, workVars, devVars, gcVars
<1>2. /\ job[Ev] = <<Len(acts), "operator">> /\ Len(acts) > 0
      /\ line[Ev] \in {"none", "operator"}
  <2>1. NoJob[2] # "operator" /\ <<Len(acts), "run">>[2] # "operator"
    BY DEF NoJob
  <2> QED BY Zenon, <2>1 DEF event_action_run, ActionInv, ScriptInv, Control, EventsAt
<1>3. <<Len(acts), "run">> \in (0 .. MaxActions) \X {"none", "operator", "run", "first", "in", "for"}
  BY LuaActionsConstants DEF ActionInv, ScriptInv, ScriptTypes
<1>4. job' = [job EXCEPT ![Ev] = <<Len(acts), "run">>]
  <2>1. job \in [Threads -> (0 .. MaxActions) \X {"none", "operator", "run", "first", "in", "for"}]
    BY Zenon DEF ActionInv, ScriptInv, ScriptTypes
  <2>2. [<<Len(acts), "operator">> EXCEPT ![2] = "run"] = <<Len(acts), "run">>
    OBVIOUS
  <2>3. job' = [job EXCEPT ![Ev] = [job[Ev] EXCEPT ![2] = "run"]]
    BY Zenon DEF event_action_run
  <2> QED BY Zenon, <1>2, <2>2, <2>3
<1>5. line' = [line EXCEPT ![Ev] = "object"] /\ plua_get_free_state(Ev)
  BY Zenon DEF event_action_run
<1>6. "object" \in EvLines /\ "object" \notin CallbackLines
  BY Zenon DEF EvLines, CallbackLines
<1>7. /\ Only(Ev) /\ pc[Ev] = "idle" /\ pc'[Ev] = "scan" /\ job'[Ev] = <<Len(acts), "run">>
      /\ line'[Ev] = "object"
      /\ pc' \in [Threads -> {"idle", "scan", "wait", "script", "clear", "unlock", "post"}]
      /\ pos' \in [Threads -> States]
      /\ line' \in [Threads -> {"none"} \cup EvLines \cup CallbackLines]
      /\ job' \in [Threads -> (0 .. MaxActions) \X
                              {"none", "operator", "run", "first", "in", "for"}]
  BY Zenon, <1>3, <1>4, <1>5, <1>6, BeginScript, ThreadFacts DEF ActionInv, ScriptInv
<1>8. ScriptTypes' /\ SendTypes'
  BY Zenon, <1>1, <1>7 DEF ActionInv, ScriptInv, ScriptTypes, StageInv, SendTypes
<1>9. Control'
  <2>1. <<Len(acts), "run">> # NoJob
    BY DEF NoJob
  <2>2. ThreadAt(Ev)'
    BY Zenon, <1>7, <2>1 DEF ThreadAt
  <2>3. EventsAt'
    BY Zenon, <1>1, <1>2, <1>6, <1>7 DEF EventsAt
  <2>4. (mpc' # "run" => job'[Main] = NoJob) /\ (Running' => closed' = {})
    BY Zenon, <1>1, <1>7, ThreadFacts DEF ActionInv, ScriptInv, Control, Running, Only
  <2> QED BY Zenon, <1>1, <1>7, <2>2, <2>3, <2>4, ThreadFacts, ControlFrame DEF ActionInv, ScriptInv
<1>10. Quieter
  <2>1. line'[Ev] \notin CallbackLines /\ line[Ev] # "next"
    BY Zenon, <1>2, <1>6, <1>7
  <2> QED BY Zenon, <1>7, <2>1, ThreadFacts, QuieterOnly
<1>11. \A a \in Actions : (Unstarted(a)' => Unstarted(a)) /\ (Making(a)' => Making(a))
  <2>1. job[Ev][1] = Len(acts) /\ job[Ev][2] = "operator"
        /\ job'[Ev][1] = Len(acts) /\ job'[Ev][2] = "run"
    BY <1>2, <1>7
  <2> QED BY Zenon, <1>1, <1>7, <2>1 DEF Unstarted, Fresh, Making
<1> QED BY Zenon, <1>1, <1>7, <1>8, <1>9, <1>10, <1>11, ThreadFacts, QuietStep

(* getUserdata, and the comparison of the ids.                             *)
LEMMA CallbackDataStep ==
  ASSUME ActionInv, NEW t \in Threads, CallbackData(t)
  PROVE  ActionInv'
<1>1. /\ pc[t] = "script" /\ line[t] = "data" /\ (Goto(t, "send") \/ EndScript(t))
      /\ UNCHANGED <<acts, job, pos, thread_list, wq, afterWork, armed, sends, data, now, mpc, closed>>
  BY Zenon DEF CallbackData, At, plua_gc_reg, workVars, devVars, gcVars
<1>2. "data" \in CallbackLines /\ "send" \in CallbackLines /\ "none" \notin CallbackLines
  BY Zenon DEF CallbackLines
<1>3. /\ Control' /\ Only(t) /\ t # Ev /\ job[t] \in Objects
      /\ \/ pc'[t] = "script" /\ line'[t] = "send"
         \/ pc'[t] = "clear" /\ line'[t] = "none"
      /\ pc' \in [Threads -> {"idle", "scan", "wait", "script", "clear", "unlock", "post"}]
      /\ line' \in [Threads -> {"none"} \cup EvLines \cup CallbackLines]
  <2>1. ScriptInv
    BY Zenon DEF ActionInv
  <2> QED BY Zenon, <1>1, <1>2, <2>1, CallbackLine
<1>4. ScriptTypes' /\ SendTypes'
  BY Zenon, <1>1, <1>3 DEF ActionInv, ScriptInv, ScriptTypes, StageInv, SendTypes
<1>5. Quieter
  <2>1. line'[t] # "next" /\ line[t] # "next"
    BY Zenon, <1>1, <1>3
  <2> QED BY Zenon, <1>1, <1>2, <1>3, <2>1, QuieterOnly
<1>6. job'[Ev] = job[Ev] /\ line'[Ev] = line[Ev]
  BY Zenon, <1>3, ThreadFacts DEF Only
<1>7. \A a \in Actions : (Unstarted(a)' => Unstarted(a)) /\ (Making(a)' => Making(a))
  BY Zenon, <1>1, <1>6, StartedFrame
<1> QED BY Zenon, <1>1, <1>3, <1>4, <1>5, <1>7, QuietStep

(* A step that moves objects between the lists, or forgets some.           *)
LEMMA ListsStep ==
  ASSUME ActionInv, UNCHANGED <<pc, pos, acts, line, job, armed, data, now, sends>>,
         WorkTypes', WorkOnce', Work' \subseteq Work,
         Range(thread_list)' \cup Range(wq)' \subseteq Range(thread_list) \cup Range(wq),
         mpc' # "run" => job[Main] = NoJob, Running' => closed' = {}
  PROVE  ActionInv'
<1>1. Only(Main) /\ Quieter
  <2>1. "next" \in CallbackLines
    BY Zenon DEF CallbackLines
  <2> QED BY Zenon, <2>1 DEF Only, Quieter
<1>2. ScriptTypes' /\ SendTypes'
  BY Zenon DEF ActionInv, ScriptInv, ScriptTypes, StageInv, SendTypes
<1>3. Control'
  BY Zenon DEF ActionInv, ScriptInv, Control, ThreadAt, EventsAt, CallbackAt
<1>4. \A a \in Actions : (Unstarted(a)' => Unstarted(a)) /\ (Making(a)' => Making(a))
  BY Zenon, StartedFrame
<1>5. Kept
  BY Zenon, <1>4, KeptFrame
<1>6. /\ \A o \in Work' : IsThread(o)'
      /\ \A o \in armed : IsTimerOf(o)'
      /\ job[Main] # NoJob => IsTimerOf(job[Main])'
  BY Zenon, <1>5, KeptPlaces DEF ActionInv
<1>7. TimerOnce'
  BY Zenon, <1>6 DEF ActionInv, ScriptInv, Places, TimerOnce
<1>8. \A o \in Objects : (Pending(o)' => Pending(o)) /\ (AtNext(o)' <=> AtNext(o))
  <2>1. ASSUME NEW o \in Objects, o \in (armed \cup Range(thread_list) \cup Range(wq))'
        PROVE  o \in armed \cup Range(thread_list) \cup Range(wq)
    BY Zenon, <2>1
  <2> QED BY Zenon, <1>1, <2>1, PendingFrame
<1>9. \A a \in 1 .. Len(acts) : a \in Actions
  BY Zenon, ActionFacts DEF ActionInv, ScriptInv, ScriptTypes
<1>10. Stages' /\ StagesInOrder'
  <2>1. MainKept
    BY Zenon, MainFrame
  <2> QED BY Zenon, <1>4, <1>8, <1>9, <2>1, StageFrame DEF ActionInv
<1> QED BY Zenon, <1>2, <1>3, <1>6, <1>7, <1>10 DEF ActionInv, ScriptInv, StageInv, Places

(* A step of plua_gc, or none at all.                                      *)
LEMMA GcFrame ==
  ASSUME ActionInv, UNCHANGED <<pc, pos, scriptVars, armed, data, workVars, devVars>>,
         mpc' # "run" => job[Main] = NoJob, Running' => closed' = {}
  PROVE  ActionInv'
<1>1. UNCHANGED <<pc, pos, acts, line, job, armed, data, now, sends, thread_list, wq, afterWork>>
  BY Zenon DEF scriptVars, workVars, devVars
<1>3. /\ Range(thread_list)' = Range(thread_list) /\ Range(wq)' = Range(wq)
      /\ Range(afterWork)' = Range(afterWork) /\ Working' = Working
      /\ Once(thread_list)' = Once(thread_list) /\ Once(wq)' = Once(wq)
      /\ Once(afterWork)' = Once(afterWork)
  BY Zenon, <1>1 DEF Working
<1>5. WorkTypes'
  BY Zenon, <1>1 DEF ActionInv, ScriptInv, WorkTypes
<1>6. WorkOnce
  BY Zenon DEF ActionInv, ScriptInv, Places
<1>2. WorkTypes' /\ WorkOnce'
  BY Zenon, <1>1, <1>3, <1>5, <1>6 DEF WorkOnce
<1>4. Work' = Work
  BY Zenon, <1>3 DEF Work
<1> QED BY Zenon, <1>1, <1>2, <1>3, <1>4, ListsStep

(* The end of the daemon, but for the lists of work.                       *)
LEMMA GcStep ==
  ASSUME ActionInv, main_gc \/ GcState \/ GcUnlock \/ GcGlobal \/ \E t \in Threads : Crash(t)
  PROVE  ActionInv'
<1>1. UNCHANGED <<pc, pos, scriptVars, armed, data, workVars, devVars>>
  BY Zenon DEF main_gc, GcState, GcUnlock, GcGlobal, Crash, poolVars, objVars
<1>2. (mpc # "run" => job[Main] = NoJob) /\ (Running => closed = {})
  BY Zenon DEF ActionInv, ScriptInv, Control
<1>3. (mpc' # "run" => job[Main] = NoJob) /\ (Running' => closed' = {})
  <2>1. CASE main_gc
    BY Zenon, <1>2, <2>1 DEF main_gc, Running
  <2>2. CASE GcState
    BY Zenon, <1>2, <2>2 DEF GcState, Running
  <2>3. CASE GcUnlock
    BY Zenon, <1>2, <2>3 DEF GcUnlock, Running
  <2>4. CASE GcGlobal
    BY Zenon, <1>2, <2>4 DEF GcGlobal, Running
  <2>5. CASE \E t \in Threads : Crash(t)
    BY Zenon, <1>2, <2>5 DEF Crash, Running
  <2> QED BY Zenon, <2>1, <2>2, <2>3, <2>4, <2>5
<1> QED BY Zenon, <1>1, <1>3, GcFrame

(* eventpool_gc forgets the work that was not handed over.                 *)
LEMMA EventpoolGcStep ==
  ASSUME ActionInv, eventpool_gc
  PROVE  ActionInv'
<1>1. /\ UNCHANGED <<pc, pos, acts, line, job, armed, data, now, sends, wq, afterWork>>
      /\ thread_list' = <<>> /\ mpc = "events" /\ mpc' = "gc"
  BY Zenon DEF eventpool_gc, poolVars, scriptVars, devVars
<1>2. /\ Range(wq)' = Range(wq) /\ Once(wq)' = Once(wq)
      /\ Range(afterWork)' = Range(afterWork) /\ Once(afterWork)' = Once(afterWork)
      /\ Working' = Working
  BY Zenon, <1>1 DEF Working
<1>3. thread_list' \in Seq(Objects)
  BY <1>1
<1>4. WorkTypes' /\ Range(thread_list)' = {} /\ Once(thread_list)'
  BY Zenon, <1>1, <1>3, RangeType DEF ActionInv, ScriptInv, WorkTypes
<1>5. WorkOnce
  BY Zenon DEF ActionInv, ScriptInv, Places
<1>6. WorkOnce'
  BY Zenon, <1>1, <1>2, <1>4, <1>5 DEF WorkOnce
<1>7. Work' \subseteq Work
  BY Zenon, <1>2, <1>4 DEF Work
<1>8. (mpc' # "run" => job[Main] = NoJob) /\ (Running' => closed' = {})
  BY Zenon, <1>1 DEF ActionInv, ScriptInv, Control, Running
<1> QED BY Zenon, <1>1, <1>2, <1>4, <1>6, <1>7, <1>8, ListsStep

(* after_work_cb.                                                          *)
LEMMA ThreadFreeStep ==
  ASSUME ActionInv, thread_free
  PROVE  ActionInv'
<1>1. /\ UNCHANGED <<pc, pos, acts, line, job, armed, data, now, sends, wq, thread_list, closed>>
      /\ afterWork # <<>> /\ afterWork' = Tail(afterWork)
      /\ job[Main] = NoJob /\ mpc \in {"run", "done"} /\ mpc' \in {mpc, "crashed"}
  BY Zenon DEF thread_free, poolVars, scriptVars, devVars, plua_gc_unreg
<1>2. /\ Range(wq)' = Range(wq) /\ Once(wq)' = Once(wq)
      /\ Range(thread_list)' = Range(thread_list) /\ Once(thread_list)' = Once(thread_list)
      /\ Working' = Working
  BY Zenon, <1>1 DEF Working
<1>3. WorkOnce /\ afterWork \in Seq(Objects)
  BY Zenon DEF ActionInv, ScriptInv, Places, WorkTypes
<1>4. /\ afterWork' \in Seq(Objects) /\ Range(afterWork)' \subseteq Range(afterWork)
      /\ Once(afterWork)'
  BY Zenon, <1>1, <1>3, RangeTail DEF WorkOnce
<1>5. WorkTypes'
  BY Zenon, <1>1, <1>4 DEF ActionInv, ScriptInv, WorkTypes
<1>6. WorkOnce'
  BY Zenon, <1>1, <1>2, <1>3, <1>4 DEF WorkOnce
<1>7. Work' \subseteq Work
  BY Zenon, <1>2, <1>4 DEF Work
<1>8. (mpc' # "run" => job[Main] = NoJob) /\ (Running' => closed' = {})
  BY Zenon, <1>1 DEF ActionInv, ScriptInv, Control, Running
<1> QED BY Zenon, <1>1, <1>2, <1>5, <1>6, <1>7, <1>8, ListsStep

(* The main loop hands one object over.                                    *)
LEMMA ThreadLoopStep ==
  ASSUME ActionInv, safe_thread_loop
  PROVE  ActionInv'
<1>1. /\ UNCHANGED <<pc, pos, acts, line, job, armed, data, now, sends, afterWork, closed, mpc>>
      /\ thread_list # <<>> /\ thread_list' = Tail(thread_list)
      /\ wq' = Append(wq, Head(thread_list))
  BY Zenon DEF safe_thread_loop, poolVars, scriptVars, objVars, devVars, gcVars
<1>2. /\ Range(afterWork)' = Range(afterWork) /\ Once(afterWork)' = Once(afterWork)
      /\ Working' = Working
  BY Zenon, <1>1 DEF Working
<1>3. WorkOnce /\ thread_list \in Seq(Objects) /\ wq \in Seq(Objects)
  BY Zenon DEF ActionInv, ScriptInv, Places, WorkTypes
<1> DEFINE o == Head(thread_list)
<1>4. /\ o \in Objects /\ thread_list' \in Seq(Objects) /\ Once(thread_list)'
      /\ o \notin Range(thread_list)'
      /\ \A x : x \in Range(thread_list) <=> x = o \/ x \in Range(thread_list)'
  BY Zenon, <1>1, <1>3, RangeTail DEF WorkOnce
<1> HIDE DEF o
<1>5. o \notin Range(wq) \cup Working \cup Range(afterWork)
  BY Zenon, <1>3, <1>4 DEF WorkOnce
<1>6. /\ wq' \in Seq(Objects) /\ Once(wq)'
      /\ \A x : x \in Range(wq)' <=> x = o \/ x \in Range(wq)
  BY Zenon, <1>1, <1>3, <1>4, <1>5, RangeAppend DEF WorkOnce, o
<1>7. WorkTypes'
  BY Zenon, <1>1, <1>4, <1>6 DEF ActionInv, ScriptInv, WorkTypes
<1>8. WorkOnce'
  <2>1. Range(thread_list)' \cap (Range(wq)' \cup Working' \cup Range(afterWork)') = {}
    BY Zenon, <1>2, <1>3, <1>4, <1>6 DEF WorkOnce
  <2>2. Range(wq)' \cap (Working' \cup Range(afterWork)') = {}
    BY Zenon, <1>2, <1>3, <1>5, <1>6 DEF WorkOnce
  <2> QED BY Zenon, <1>1, <1>2, <1>3, <1>4, <1>6, <2>1, <2>2 DEF WorkOnce
<1>9. /\ Work' \subseteq Work
      /\ Range(thread_list)' \cup Range(wq)' \subseteq Range(thread_list) \cup Range(wq)
  BY Zenon, <1>2, <1>4, <1>6 DEF Work
<1>10. (mpc' # "run" => job[Main] = NoJob) /\ (Running' => closed' = {})
  BY Zenon, <1>1 DEF ActionInv, ScriptInv, Control, Running
<1> QED BY Zenon, <1>1, <1>7, <1>8, <1>9, <1>10, ListsStep

(* The end of the script of a worker: its object waits for after_work_cb.  *)
LEMMA WorkerDone ==
  ASSUME ActionInv, NEW w \in Workers, ClearDone(w)
  PROVE  ActionInv'
<1>1. /\ pc[w] = "post" /\ pc' = [pc EXCEPT ![w] = "idle"] /\ afterWork' = Append(afterWork, job[w])
      /\ UNCHANGED <<pos, acts, line, thread_list, wq, armed, sends, data, now, mpc, closed>>
  BY Zenon DEF ClearDone, ClearPost, objVars, devVars, gcVars
<1>2. w \in Threads /\ w # Ev /\ w # Main
  BY Zenon, ThreadFacts
<1>3. ScriptTypes /\ WorkOnce /\ thread_list \in Seq(Objects) /\ wq \in Seq(Objects) /\ afterWork \in Seq(Objects)
  BY Zenon DEF ActionInv, ScriptInv, Places, WorkTypes
<1>4. line[w] = "none" /\ job[w] # NoJob /\ job[w] \in Objects
  <2>1. ThreadAt(w) /\ CallbackAt(w)
    BY Zenon, <1>2 DEF ActionInv, ScriptInv, Control
  <2> QED BY Zenon, <1>1, <2>1 DEF ThreadAt, CallbackAt
<1>5. job' = [job EXCEPT ![w] = NoJob]
  <2>1. job[w][2] # "operator"
    BY Zenon, <1>4, ObjectFacts
  <2> QED BY Zenon, <2>1 DEF ClearDone
<1>6. /\ pc'[w] = "idle" /\ job'[w] = NoJob /\ line'[w] = "none" /\ Only(w)
      /\ ScriptTypes'
  <2> DEFINE C == {"idle", "scan", "wait", "script", "clear", "unlock", "post"}
             J == (0 .. MaxActions) \X {"none", "operator", "run", "first", "in", "for"}
  <2>1. pc \in [Threads -> C] /\ job \in [Threads -> J]
    BY Zenon, <1>3 DEF ScriptTypes
  <2>2. "idle" \in C
    BY Zenon
  <2>3. NoJob \in J
    BY LuaActionsConstants DEF NoJob, None
  <2> HIDE DEF C, J
  <2>4. pc' \in [Threads -> C] /\ pc'[w] = "idle" /\ \A u \in Threads \ {w} : pc'[u] = pc[u]
    BY Zenon, <1>1, <1>2, <2>1, <2>2
  <2>5. job' \in [Threads -> J] /\ job'[w] = NoJob /\ \A u \in Threads \ {w} : job'[u] = job[u]
    BY Zenon, <1>2, <1>5, <2>1, <2>3
  <2>6. ScriptTypes'
    BY Zenon, <1>1, <1>3, <2>4, <2>5 DEF ScriptTypes, C, J
  <2> QED BY Zenon, <1>1, <1>4, <2>4, <2>5, <2>6 DEF Only
<1>7. Control'
  <2>1. ThreadAt(w)' /\ CallbackAt(w)'
    <3>1. "none" \notin EvLines
      BY Zenon DEF EvLines
    <3> QED BY Zenon, <1>6, <3>1 DEF ThreadAt, CallbackAt
  <2>2. (mpc' # "run" => job'[Main] = NoJob) /\ (Running' => closed' = {})
    BY Zenon, <1>1, <1>2, <1>6, ThreadFacts DEF ActionInv, ScriptInv, Control, Running, Only
  <2> QED BY Zenon, <1>1, <1>2, <1>6, <2>1, <2>2, ControlFrame DEF ActionInv, ScriptInv
<1>8. /\ Range(thread_list)' = Range(thread_list) /\ Range(wq)' = Range(wq)
      /\ Once(thread_list)' = Once(thread_list) /\ Once(wq)' = Once(wq)
  BY Zenon, <1>1
<1>9. job[w] \in Working /\ job[w] \notin Range(afterWork)
  BY Zenon, <1>3, <1>4 DEF Working, WorkOnce
<1>10. /\ afterWork' \in Seq(Objects) /\ Once(afterWork)'
       /\ \A x : x \in Range(afterWork)' <=> x = job[w] \/ x \in Range(afterWork)
  BY Zenon, <1>1, <1>3, <1>4, <1>9, RangeAppend DEF WorkOnce
<1>11. \A x : x \in Working' <=> x \in Working /\ x # job[w]
  <2>1. \A u \in Workers \ {w} : job'[u] = job[u] /\ (job[u] # NoJob => job[u] # job[w])
    BY Zenon, <1>3, <1>4, <1>6, ThreadFacts DEF WorkOnce, Only
  <2> QED BY Zenon, <1>4, <1>6, <2>1 DEF Working
<1>12. WorkOnce'
  <2>1. Range(thread_list)' \cap (Range(wq)' \cup Working' \cup Range(afterWork)') = {}
    BY Zenon, <1>3, <1>8, <1>9, <1>10, <1>11 DEF WorkOnce
  <2>2. Range(wq)' \cap (Working' \cup Range(afterWork)') = {}
    BY Zenon, <1>3, <1>8, <1>9, <1>10, <1>11 DEF WorkOnce
  <2>3. Working' \cap Range(afterWork)' = {}
    BY Zenon, <1>3, <1>10, <1>11 DEF WorkOnce
  <2>4. \A v, u \in Workers : job'[v] = job'[u] /\ job'[v] # NoJob => v = u
    BY Zenon, <1>3, <1>6, ThreadFacts DEF WorkOnce, Only
  <2> QED BY Zenon, <1>3, <1>8, <1>10, <2>1, <2>2, <2>3, <2>4 DEF WorkOnce
<1>13. Work' \subseteq Work
  BY Zenon, <1>8, <1>9, <1>10, <1>11 DEF Work
<1>14. job'[Ev] = job[Ev] /\ job'[Main] = job[Main]
  BY Zenon, <1>2, <1>6, ThreadFacts DEF Only
<1>15. \A a \in Actions : (Unstarted(a)' => Unstarted(a)) /\ (Making(a)' => Making(a))
  BY Zenon, <1>1, <1>14, StartedFrame
<1>16. Kept
  BY Zenon, <1>1, <1>15, KeptFrame
<1>17. Places'
  <2>1. /\ \A o \in Work' : IsThread(o)'
        /\ \A o \in armed : IsTimerOf(o)'
        /\ job[Main] # NoJob => IsTimerOf(job[Main])'
    BY Zenon, <1>13, <1>14, <1>16, KeptPlaces DEF ActionInv
  <2>4. TimerOnce'
    BY Zenon, <1>1, <1>14, <2>1 DEF ActionInv, ScriptInv, Places, TimerOnce
  <2> QED BY Zenon, <1>12, <2>1, <2>4 DEF Places
<1>18. Quieter
  <2>1. "none" \notin CallbackLines
    BY Zenon DEF CallbackLines
  <2>2. line'[w] \notin CallbackLines /\ line[w] # "next"
    BY Zenon, <1>4, <1>6, <2>1
  <2> QED BY Zenon, <1>2, <1>6, <2>2, QuieterOnly
<1>19. Stages' /\ StagesInOrder'
  <2>1. \A a \in 1 .. Len(acts) : a \in Actions
    BY Zenon, ActionFacts DEF ActionInv, ScriptInv, ScriptTypes
  <2>2. \A o \in Objects : (Pending(o)' => Pending(o)) /\ (AtNext(o)' <=> AtNext(o))
    BY Zenon, <1>1, <1>8, <1>18, PendingFrame
  <2>3. MainKept
    BY Zenon, <1>14, MainFrame
  <2> QED BY Zenon, <1>1, <1>15, <2>1, <2>2, <2>3, StageFrame DEF ActionInv
<1>20. SendTypes' /\ WorkTypes'
  BY Zenon, <1>1, <1>10 DEF ActionInv, ScriptInv, StageInv, SendTypes, WorkTypes
<1> QED BY Zenon, <1>6, <1>7, <1>17, <1>19, <1>20 DEF ActionInv, ScriptInv, StageInv

(* The end of a script on the main or the events thread.                   *)
LEMMA OtherDone ==
  ASSUME ActionInv, NEW t \in {Main, Ev}, ClearDone(t)
  PROVE  ActionInv'
<1>1. /\ pc[t] = "post" /\ pc' = [pc EXCEPT ![t] = "idle"]
      /\ job' = IF job[t][2] = "operator" THEN job ELSE [job EXCEPT ![t] = NoJob]
      /\ UNCHANGED <<pos, acts, line, thread_list, wq, afterWork, armed, sends, data, now, mpc, closed>>
  BY Zenon, ThreadFacts DEF ClearDone, ClearPost, objVars, devVars, gcVars
<1>2. t \in Threads /\ t \notin Workers
  BY Zenon, ThreadFacts
<1>3. ScriptTypes /\ Control
  BY Zenon DEF ActionInv, ScriptInv
<1>4. line[t] = "none" /\ job[t] # NoJob
  BY Zenon, <1>1, <1>2, <1>3 DEF Control, ThreadAt
<1>5. t = Main => job[t] \in Objects /\ job[t][2] # "operator"
  <2>1. t = Main => job[t] \in Objects
    BY Zenon, <1>3, <1>4, ThreadFacts DEF Control, CallbackAt
  <2> QED BY Zenon, <2>1, ObjectFacts
<1>6. /\ pc'[t] = "idle" /\ line'[t] = "none" /\ Only(t) /\ ScriptTypes'
      /\ job'[t] = IF job[t][2] = "operator" THEN job[t] ELSE NoJob
  <2> DEFINE C == {"idle", "scan", "wait", "script", "clear", "unlock", "post"}
             J == (0 .. MaxActions) \X {"none", "operator", "run", "first", "in", "for"}
  <2>1. pc \in [Threads -> C] /\ job \in [Threads -> J]
    BY Zenon, <1>3 DEF ScriptTypes
  <2>2. "idle" \in C
    BY Zenon
  <2>3. NoJob \in J
    BY LuaActionsConstants DEF NoJob, None
  <2> HIDE DEF C, J
  <2>4. pc' \in [Threads -> C] /\ pc'[t] = "idle" /\ \A u \in Threads \ {t} : pc'[u] = pc[u]
    BY Zenon, <1>1, <1>2, <2>1, <2>2
  <2>5. /\ job' \in [Threads -> J] /\ \A u \in Threads \ {t} : job'[u] = job[u]
        /\ job'[t] = IF job[t][2] = "operator" THEN job[t] ELSE NoJob
    <3>1. CASE job[t][2] = "operator"
      BY Zenon, <1>1, <2>1, <3>1
    <3>2. CASE job[t][2] # "operator"
      BY Zenon, <1>1, <1>2, <2>1, <2>3, <3>2
    <3> QED BY Zenon, <3>1, <3>2
  <2>6. ScriptTypes'
    BY Zenon, <1>1, <1>3, <2>4, <2>5 DEF ScriptTypes, C, J
  <2> QED BY Zenon, <1>1, <1>4, <2>4, <2>5, <2>6 DEF Only
<1>7. Control'
  <2>1. ThreadAt(t)'
    BY Zenon, <1>6 DEF ThreadAt
  <2>2. "none" \notin EvLines /\ "none" \notin CallbackLines
    BY Zenon DEF EvLines, CallbackLines
  <2>3. t = Main => CallbackAt(t)'
    BY Zenon, <1>5, <1>6, <2>2 DEF CallbackAt
  <2>4. ASSUME t = Ev PROVE EventsAt'
    <3>1. <<Len(acts), "run">>[2] # "operator"
      OBVIOUS
    <3>2. CASE job[Ev] = <<Len(acts), "operator">> /\ Len(acts) > 0
      <4>1. job[Ev][2] = "operator"
        BY <3>2
      <4> QED BY Zenon, <1>1, <1>6, <2>2, <2>4, <3>2, <4>1 DEF EventsAt
    <3>3. CASE job[Ev] = <<Len(acts), "run">>
      BY Zenon, <1>1, <1>6, <2>2, <2>4, <3>1, <3>3 DEF EventsAt
    <3> QED BY Zenon, <1>3, <1>4, <2>4, <3>2, <3>3 DEF Control, EventsAt
  <2>5. (mpc' # "run" => job'[Main] = NoJob) /\ (Running' => closed' = {})
    BY Zenon, <1>1, <1>3, <1>4, <1>5, <1>6, ThreadFacts DEF Control, Running, Only
  <2> QED BY Zenon, <1>1, <1>2, <1>3, <1>6, <2>1, <2>3, <2>4, <2>5, ThreadFacts, ControlFrame
<1>8. Quieter
  <2>1. "none" \notin CallbackLines
    BY Zenon DEF CallbackLines
  <2>2. line'[t] \notin CallbackLines /\ line[t] # "next"
    BY Zenon, <1>4, <1>6, <2>1
  <2> QED BY Zenon, <1>2, <1>6, <2>2, QuieterOnly
<1>9. \A a \in Actions : (Unstarted(a)' => Unstarted(a)) /\ (Making(a)' => Making(a))
  <2>1. CASE t = Main
    BY Zenon, <1>1, <1>6, <2>1, ThreadFacts, StartedFrame DEF Only
  <2>2. CASE t = Ev
    <3>1. NoJob[2] # "operator"
      BY DEF NoJob
    <3>2. job'[Ev] = job[Ev] \/ job'[Ev][2] # "operator"
      BY Zenon, <1>6, <2>2, <3>1
    <3> QED BY Zenon, <1>1, <1>6, <2>2, <3>2 DEF Unstarted, Fresh, Making
  <2> QED BY Zenon, <2>1, <2>2
<1>10. SendTypes' /\ \A a \in Actions : data'[a].from = data[a].from
  BY Zenon, <1>1 DEF ActionInv, StageInv, SendTypes
<1>11. t = Main => job'[t] \in {job[t], NoJob}
  BY Zenon, <1>6
<1> QED BY Zenon, <1>1, <1>2, <1>6, <1>7, <1>8, <1>9, <1>10, <1>11, QuietStep

----------------------------------------------------------------------------
(* The callbacks begin                                                     *)

(* The next callback of an object that is under way.                       *)
LEMMA CallbackBegin ==
  ASSUME ActionInv, NEW t \in Threads \ {Ev}, NEW o \in Objects, Callback(t, o), Pending(o),
         UNCHANGED <<acts, sends, data, now, mpc, closed>>, t = Main => mpc = "run",
         \A x \in (armed \cup Range(thread_list) \cup Range(wq))' :
           x \in armed \cup Range(thread_list) \cup Range(wq)
  PROVE  /\ ScriptTypes' /\ Control' /\ StageInv' /\ Only(t) /\ Kept
         /\ job[t] = NoJob /\ job'[t] = o /\ line'[t] = "data"
<1>1. ScriptTypes /\ Control /\ SendTypes
  BY Zenon DEF ActionInv, ScriptInv, StageInv
<1>2. o \in (0 .. MaxActions) \X {"none", "operator", "run", "first", "in", "for"}
  BY DEF Objects, Actions
<1>3. "data" \in CallbackLines /\ "data" \notin EvLines /\ "none" \notin CallbackLines
  BY Zenon DEF CallbackLines, EvLines
<1>4. /\ Only(t) /\ pc[t] = "idle" /\ pc'[t] = "scan" /\ job'[t] = o /\ line'[t] = "data"
      /\ pc' \in [Threads -> {"idle", "scan", "wait", "script", "clear", "unlock", "post"}]
      /\ pos' \in [Threads -> States]
      /\ line' \in [Threads -> {"none"} \cup EvLines \cup CallbackLines]
      /\ job' \in [Threads -> (0 .. MaxActions) \X
                              {"none", "operator", "run", "first", "in", "for"}]
  BY Zenon, <1>1, <1>2, <1>3, BeginScript DEF Callback
<1>5. ScriptTypes' /\ SendTypes'
  BY Zenon, <1>1, <1>4 DEF ScriptTypes, SendTypes
<1>6. job[t] = NoJob /\ line[t] = "none" /\ o # NoJob
  BY Zenon, <1>1, <1>4, NoJobNoObject DEF Callback, Control, ThreadAt
<1>7. Control'
  <2>1. ThreadAt(t)' /\ CallbackAt(t)'
    BY Zenon, <1>3, <1>4, <1>6 DEF ThreadAt, CallbackAt
  <2>2. (mpc' # "run" => job'[Main] = NoJob) /\ (Running' => closed' = {})
    BY Zenon, <1>1, <1>4, ThreadFacts DEF Control, Running, Only
  <2> QED BY Zenon, <1>1, <1>4, <2>1, <2>2, ControlFrame
<1>8. job'[Ev] = job[Ev] /\ line'[Ev] = line[Ev]
  BY Zenon, <1>4, ThreadFacts DEF Only
<1>9. \A a \in Actions : (Unstarted(a)' => Unstarted(a)) /\ (Making(a)' => Making(a))
  BY Zenon, <1>8, StartedFrame
<1>10. Kept
  BY Zenon, <1>9, KeptFrame
<1>11. ASSUME NEW x \in Objects PROVE (Pending(x)' => Pending(x)) /\ (AtNext(x)' <=> AtNext(x))
  <2>1. AtNext(x)' <=> AtNext(x)
    BY Zenon, <1>4, <1>6 DEF AtNext, RunsAt, Only
  <2>2. RunsAt(x, CallbackLines)' => RunsAt(x, CallbackLines) \/ x = o
    BY Zenon, <1>4 DEF RunsAt, Only
  <2> QED BY Zenon, <2>1, <2>2 DEF Pending
<1>12. \A a \in 1 .. Len(acts) : a \in Actions
  BY Zenon, <1>1, ActionFacts DEF ScriptTypes
<1>13. Stages' /\ StagesInOrder'
  <2>1. MainKept
    BY Zenon, <1>4, ThreadFacts DEF MainKept, Only
  <2> QED BY Zenon, <1>9, <1>11, <1>12, <2>1, StageFrame DEF ActionInv
<1> QED BY Zenon, <1>4, <1>5, <1>6, <1>7, <1>10, <1>13 DEF StageInv

(* A timer fires.                                                          *)
LEMMA TimerCallbackStep ==
  ASSUME ActionInv, NEW o \in Objects, timer_callback(o)
  PROVE  ActionInv'
<1>1. /\ mpc = "run" /\ o \in armed /\ Callback(Main, o)
      /\ armed' = IF o[2] = "in" THEN armed ELSE armed \ {o}
      /\ UNCHANGED <<acts, sends, data, now, mpc, closed, thread_list, wq, afterWork>>
  BY Zenon DEF timer_callback, workVars, devVars, gcVars
<1>2. armed' \subseteq armed /\ (o[2] # "in" => o \notin armed') /\ (o[2] = "in" => o \in armed')
  BY Zenon, <1>1
<1>3. /\ Range(thread_list)' = Range(thread_list) /\ Range(wq)' = Range(wq)
      /\ Range(afterWork)' = Range(afterWork) /\ Once(thread_list)' = Once(thread_list)
      /\ Once(wq)' = Once(wq) /\ Once(afterWork)' = Once(afterWork)
  BY Zenon, <1>1
<1>4. Pending(o)
  BY Zenon, <1>1 DEF Pending
<1>5. \A x \in (armed \cup Range(thread_list) \cup Range(wq))' :
        x \in armed \cup Range(thread_list) \cup Range(wq)
  BY Zenon, <1>2, <1>3
<1>6. /\ ScriptTypes' /\ Control' /\ StageInv' /\ Only(Main) /\ Kept
      /\ job[Main] = NoJob /\ job'[Main] = o /\ line'[Main] = "data"
  BY Zenon, <1>1, <1>4, <1>5, ThreadFacts, CallbackBegin
<1>7. \A w \in Workers : job'[w] = job[w]
  BY Zenon, <1>6, ThreadFacts DEF Only
<1>8. Working' = Working
  BY Zenon, <1>7 DEF Working
<1>9. Work' = Work
  BY Zenon, <1>3, <1>8 DEF Work
<1>10. WorkOnce'
  BY Zenon, <1>3, <1>7, <1>8 DEF ActionInv, ScriptInv, Places, WorkOnce
<1>11. /\ \A x \in Work' : IsThread(x)'
       /\ \A x \in armed : IsTimerOf(x)'
  BY Zenon, <1>6, <1>9, KeptPlaces DEF ActionInv
<1>12. TimerOnce'
  BY Zenon, <1>1, <1>2, <1>6, <1>11 DEF TimerOnce
<1>13. WorkTypes'
  BY Zenon, <1>1, <1>2 DEF ActionInv, ScriptInv, WorkTypes
<1> QED BY Zenon, <1>6, <1>10, <1>11, <1>12, <1>13 DEF ActionInv, ScriptInv, Places

(* A worker takes the next object.                                         *)
LEMMA ThreadCallbackStep ==
  ASSUME ActionInv, NEW w \in Workers, thread_callback(w)
  PROVE  ActionInv'
<1> DEFINE o == Head(wq)
<1>1. /\ wq # <<>> /\ Callback(w, o) /\ wq' = Tail(wq)
      /\ UNCHANGED <<acts, sends, data, now, mpc, closed, thread_list, afterWork, armed>>
  BY Zenon DEF thread_callback, objVars, devVars, gcVars
<1>2. WorkOnce /\ wq \in Seq(Objects)
  BY Zenon DEF ActionInv, ScriptInv, Places, WorkTypes
<1>3. /\ o \in Objects /\ wq' \in Seq(Objects) /\ Once(wq)' /\ o \notin Range(wq)'
      /\ \A x : x \in Range(wq) <=> x = o \/ x \in Range(wq)'
  BY Zenon, <1>1, <1>2, RangeTail DEF WorkOnce
<1> HIDE DEF o
<1>4. /\ Range(thread_list)' = Range(thread_list) /\ Range(afterWork)' = Range(afterWork)
      /\ Once(thread_list)' = Once(thread_list) /\ Once(afterWork)' = Once(afterWork)
  BY Zenon, <1>1
<1>5. Pending(o)
  BY Zenon, <1>3 DEF Pending
<1>6. \A x \in (armed \cup Range(thread_list) \cup Range(wq))' :
        x \in armed \cup Range(thread_list) \cup Range(wq)
  BY Zenon, <1>1, <1>3, <1>4
<1>7. w \in Threads /\ w # Ev /\ w # Main
  BY Zenon, ThreadFacts
<1>8. /\ ScriptTypes' /\ Control' /\ StageInv' /\ Only(w) /\ Kept
      /\ job[w] = NoJob /\ job'[w] = o /\ line'[w] = "data"
  BY Zenon, <1>1, <1>3, <1>5, <1>6, <1>7, CallbackBegin
<1>9. \A u \in Workers \ {w} : job'[u] = job[u]
  BY Zenon, <1>8, ThreadFacts DEF Only
<1>10. \A x : x \in Working' <=> x = o \/ x \in Working
  <2>1. o # NoJob
    BY Zenon, <1>3, NoJobNoObject
  <2> QED BY Zenon, <1>8, <1>9, <2>1 DEF Working
<1>11. o \notin Working /\ o \notin Range(afterWork) /\ o \notin Range(thread_list)
  BY Zenon, <1>2, <1>3 DEF WorkOnce
<1>12. WorkOnce'
  <2>1. Range(thread_list)' \cap (Range(wq)' \cup Working' \cup Range(afterWork)') = {}
    BY Zenon, <1>2, <1>3, <1>4, <1>10, <1>11 DEF WorkOnce
  <2>2. Range(wq)' \cap (Working' \cup Range(afterWork)') = {}
    BY Zenon, <1>2, <1>3, <1>4, <1>10 DEF WorkOnce
  <2>3. Working' \cap Range(afterWork)' = {}
    BY Zenon, <1>2, <1>4, <1>10, <1>11 DEF WorkOnce
  <2>4. \A u \in Workers \ {w} : job[u] # NoJob => job[u] # o
    BY Zenon, <1>11 DEF Working
  <2>5. \A v, u \in Workers : job'[v] = job'[u] /\ job'[v] # NoJob => v = u
    BY Zenon, <1>2, <1>8, <1>9, <2>4 DEF WorkOnce
  <2> QED BY Zenon, <1>2, <1>3, <1>4, <2>1, <2>2, <2>3, <2>5 DEF WorkOnce
<1>13. Work' \subseteq Work
  BY Zenon, <1>3, <1>4, <1>10 DEF Work
<1>14. job'[Main] = job[Main] /\ line'[Main] = line[Main]
  BY Zenon, <1>7, <1>8, ThreadFacts DEF Only
<1>15. /\ \A x \in Work' : IsThread(x)'
       /\ \A x \in armed : IsTimerOf(x)'
       /\ job[Main] # NoJob => IsTimerOf(job[Main])'
  BY Zenon, <1>8, <1>13, <1>14, KeptPlaces DEF ActionInv
<1>16. TimerOnce'
  BY Zenon, <1>1, <1>14, <1>15 DEF ActionInv, ScriptInv, Places, TimerOnce
<1>17. WorkTypes'
  BY Zenon, <1>1, <1>3 DEF ActionInv, ScriptInv, WorkTypes
<1> QED BY Zenon, <1>8, <1>12, <1>15, <1>16, <1>17 DEF ActionInv, ScriptInv, Places

----------------------------------------------------------------------------
(* An action begins                                                        *)

(* A rule is true: its action is the last one.                             *)
LEMMA OperatorCallbackStep ==
  ASSUME ActionInv, NEW p \in Params, event_operator_callback(p)
  PROVE  ActionInv'
<1>0. PICK n : n = Len(acts) + 1
  BY Zenon
<1>1. /\ job[Ev] = NoJob /\ Len(acts) < MaxActions /\ acts' = Append(acts, p)
      /\ job' = [job EXCEPT ![Ev] = <<n, "operator">>]
      /\ line' = [line EXCEPT ![Ev] = "operator"] /\ plua_get_free_state(Ev)
      /\ UNCHANGED <<thread_list, wq, afterWork, armed, sends, data, now, mpc, closed>>
  BY Zenon, <1>0 DEF event_operator_callback, objVars, workVars, devVars, gcVars
<1>2. acts \in Seq(Params) /\ Len(acts) <= MaxActions
  BY Zenon DEF ActionInv, ScriptInv, ScriptTypes
<1>3. /\ n \in Actions /\ n > 0 /\ Len(acts') = n /\ acts' \in Seq(Params) /\ Len(acts') <= MaxActions
      /\ \A a \in 1 .. Len(acts) : a \in Actions /\ acts'[a] = acts[a]
      /\ \A a \in 1 .. n : a \in 1 .. Len(acts) \/ a = n
      /\ \A a \in Actions : (a > n \/ a = n <=> a > Len(acts)) /\ (~(a > Len(acts)) => a \in 1 .. Len(acts))
      /\ n > Len(acts)
  BY <1>0, <1>1, <1>2, LuaActionsConstants DEF Actions
<1>4. <<n, "operator">> \in (0 .. MaxActions) \X {"none", "operator", "run", "first", "in", "for"}
      /\ <<n, "operator">>[1] = n /\ <<n, "operator">>[2] = "operator"
      /\ <<n, "operator">> # NoJob /\ NoJob[2] = "none"
  BY <1>3 DEF Actions, NoJob
<1>5. "operator" \in EvLines /\ "operator" \notin CallbackLines
  BY Zenon DEF EvLines, CallbackLines
<1>6. /\ Only(Ev) /\ pc[Ev] = "idle" /\ pc'[Ev] = "scan" /\ job'[Ev] = <<n, "operator">>
      /\ line'[Ev] = "operator"
      /\ pc' \in [Threads -> {"idle", "scan", "wait", "script", "clear", "unlock", "post"}]
      /\ pos' \in [Threads -> States]
      /\ line' \in [Threads -> {"none"} \cup EvLines \cup CallbackLines]
      /\ job' \in [Threads -> (0 .. MaxActions) \X
                              {"none", "operator", "run", "first", "in", "for"}]
  BY Zenon, <1>1, <1>4, <1>5, BeginScript, ThreadFacts DEF ActionInv, ScriptInv
<1>7. ScriptTypes' /\ SendTypes' /\ WorkTypes'
  BY Zenon, <1>1, <1>3, <1>6
     DEF ActionInv, ScriptInv, ScriptTypes, StageInv, SendTypes, WorkTypes
<1>8. line[Ev] = "none"
  BY Zenon, <1>6, ThreadFacts DEF ActionInv, ScriptInv, Control, ThreadAt
<1>9. Control'
  <2>1. ThreadAt(Ev)'
    BY Zenon, <1>4, <1>6 DEF ThreadAt
  <2>2. EventsAt'
    BY Zenon, <1>3, <1>5, <1>6 DEF EventsAt
  <2>3. (mpc' # "run" => job'[Main] = NoJob) /\ (Running' => closed' = {})
    BY Zenon, <1>1, <1>6, ThreadFacts DEF ActionInv, ScriptInv, Control, Running, Only
  <2> QED BY Zenon, <1>6, <2>1, <2>2, <2>3, ThreadFacts, ControlFrame DEF ActionInv, ScriptInv
<1>10. \A a \in Actions : /\ Unstarted(a)' <=> Unstarted(a)
                          /\ Unstarted(a) <=> a > Len(acts)
                          /\ ~Making(a) /\ ~Making(a)'
  <2>1. \A a : ~Making(a) /\ ~Making(a)'
    BY Zenon, <1>6, <1>8 DEF Making
  <2>2. \A a \in Actions : Fresh(a) <=> a > Len(acts)
    BY Zenon, <1>1, <1>4, <1>8 DEF Fresh
  <2>3. \A a \in Actions : Fresh(a)' <=> a > n \/ a = n
    BY Zenon, <1>3, <1>4, <1>6 DEF Fresh
  <2> QED BY Zenon, <1>3, <2>1, <2>2, <2>3 DEF Unstarted
<1>11. \A a \in 1 .. Len(acts) : P(a)' = P(a)
  BY Zenon, <1>3 DEF P
<1>12. Kept
  <2>1. ASSUME NEW o \in Objects, ~Unstarted(o[1])
        PROVE  ~Unstarted(o[1])' /\ P(o[1])' = P(o[1])
    <3>1. o[1] \in Actions
      BY Zenon, ObjectFacts
    <3> QED BY Zenon, <1>3, <1>10, <1>11, <2>1, <3>1
  <2> QED BY Zenon, <2>1 DEF Kept, IsThread, IsTimerOf, IsTimer
<1>13. Places'
  <2>1. \A u \in Threads \ {Ev} : job'[u] = job[u] /\ line'[u] = line[u]
    BY Zenon, <1>6 DEF Only
  <2>2. /\ \A w \in Workers : job'[w] = job[w]
        /\ job'[Main] = job[Main] /\ line'[Main] = line[Main]
    BY Zenon, <2>1, ThreadFacts
  <2> QED BY Zenon, <1>1, <1>12, <2>2, PlacesFrame DEF ActionInv
<1>14. Quieter
  <2>1. line'[Ev] \notin CallbackLines /\ line[Ev] # "next"
    BY Zenon, <1>5, <1>6, <1>8
  <2> QED BY Zenon, <1>6, <2>1, ThreadFacts, QuieterOnly
<1>15. \A o \in Objects : (Pending(o)' => Pending(o)) /\ (AtNext(o)' <=> AtNext(o))
  BY Zenon, <1>1, <1>14, PendingFrame
<1>16. ASSUME NEW a \in 1 .. Len(acts) PROVE FirstStage(a)' /\ DimStage(a)' /\ ForStage(a)'
  <2>1. FirstStage(a) /\ DimStage(a) /\ ForStage(a)
    BY Zenon, <1>16 DEF ActionInv, StageInv, Stages
  <2>2. MainKept
    BY Zenon, <1>6, ThreadFacts, MainFrame DEF Only
  <2> QED BY Zenon, <1>1, <1>3, <1>10, <1>11, <1>15, <1>16, <2>1, <2>2, StageOf
<1>17. Unstarted(n) /\ sends[n] = <<>>
  BY Zenon, <1>3, <1>10 DEF ActionInv, StageInv, Stages
<1>18. FirstStage(n)' /\ DimStage(n)' /\ ForStage(n)'
  <2>1. ASSUME NEW k \in {"first", "in", "for"} PROVE ~Pending(<<n, k>>)'
    <3>1. <<n, k>> \in Objects /\ <<n, k>>[1] = n
      BY Zenon, <1>3, ObjectFacts
    <3>2. ~Pending(<<n, k>>)
      BY Zenon, <1>17, <3>1, NotPending DEF ActionInv
    <3> QED BY Zenon, <1>15, <3>1, <3>2
  <2>2. ~Making(n)'
    BY Zenon, <1>3, <1>10
  <2> QED BY Zenon, <2>1, <2>2 DEF FirstStage, DimStage, ForStage, First
<1>19. Stages'
  <2>1. \A a \in Actions : Unstarted(a)' => sends'[a] = <<>>
    BY Zenon, <1>1, <1>10 DEF ActionInv, StageInv, Stages
  <2>2. \A a \in 1 .. Len(acts') : FirstStage(a)' /\ DimStage(a)' /\ ForStage(a)'
    BY Zenon, <1>3, <1>16, <1>18
  <2> QED BY Zenon, <2>1, <2>2 DEF Stages
<1>20. StagesInOrder'
  <2>1. ASSUME NEW a \in 1 .. Len(acts)
        PROVE  /\ Len(sends'[a]) <= Len(Expected(P(a)'))
               /\ \A i \in DOMAIN sends'[a] : sends'[a][i] = Expected(P(a)')[i]
    BY Zenon, <1>1, <1>11, <2>1 DEF ActionInv, StageInv, StagesInOrder
  <2>2. /\ Len(sends'[n]) <= Len(Expected(P(n)'))
        /\ \A i \in DOMAIN sends'[n] : sends'[n][i] = Expected(P(n)')[i]
    <3>1. Len(sends'[n]) = 0 /\ DOMAIN sends'[n] = {}
      BY <1>1, <1>17
    <3>2. Len(Expected(P(n)')) \in Nat
      <4>1. n \in 1 .. Len(acts')
        BY <1>3 DEF Actions
      <4>2. P(n)' \in Params
        BY Zenon, <1>3, <4>1, ActionFactsNext
      <4> QED BY Zenon, <4>2, ExpectedFacts
    <3>3. 0 <= Len(Expected(P(n)'))
      BY <3>2
    <3> QED BY Zenon, <3>1, <3>3
  <2> QED BY Zenon, <1>3, <2>1, <2>2 DEF StagesInOrder
<1> QED BY Zenon, <1>7, <1>9, <1>13, <1>19, <1>20 DEF ActionInv, ScriptInv, StageInv

(* run makes its object, which is not under way yet.                       *)
LEMMA RunObjectStep ==
  ASSUME ActionInv, RunObject
  PROVE  ActionInv'
<1>1. pc[Ev] = "script" /\ line[Ev] = "object"
  BY Zenon DEF RunObject, At
<1>2. PICK a \in 1 .. Len(acts) : a \in Actions /\ job[Ev] = <<a, "run">> /\ job[Ev][1] = a
                                  /\ job[Ev][2] = "run"
  BY Zenon, <1>1, RunFacts DEF ActionInv
<1>3. PICK l \in {"id", "start"} : Goto(Ev, l)
  BY Zenon DEF RunObject
<1>4. /\ data' = [data EXCEPT ![a].from = P(a).from]
      /\ UNCHANGED <<acts, job, pos, thread_list, wq, afterWork, armed, sends, now, mpc, closed>>
  BY Zenon, <1>2 DEF RunObject, plua_gc_reg, workVars, devVars, gcVars
<1>5. l \in EvLines \ {"operator"} /\ line[Ev] # "operator"
  BY Zenon, <1>1 DEF EvLines
<1>6. /\ Control' /\ Only(Ev)
      /\ \/ pc'[Ev] = "script" /\ line'[Ev] = l
         \/ pc'[Ev] = "clear" /\ line'[Ev] = "none"
      /\ pc' \in [Threads -> {"idle", "scan", "wait", "script", "clear", "unlock", "post"}]
      /\ line' \in [Threads -> {"none"} \cup EvLines \cup CallbackLines]
  <2>1. ScriptInv
    BY Zenon DEF ActionInv
  <2> QED BY Zenon, <1>1, <1>3, <1>4, <1>5, <2>1, EventsLine
<1>7. line'[Ev] = l
  BY Zenon, <1>3, ThreadFacts DEF Goto, ActionInv, ScriptInv, ScriptTypes
<1>8. ScriptTypes' /\ WorkTypes'
  BY Zenon, <1>4, <1>6 DEF ActionInv, ScriptInv, ScriptTypes, WorkTypes
<1>9. /\ data' \in [Actions -> [id : Int, from : Int]] /\ data'[a].from = P(a).from
      /\ \A b \in Actions \ {a} : data'[b] = data[b]
  <2>1. P(a).from \in Int
    BY Zenon, <1>2, ActionFacts, ExpectedFacts DEF ActionInv, ScriptInv, ScriptTypes
  <2>2. data \in [Actions -> [id : Int, from : Int]]
    BY Zenon DEF ActionInv, StageInv, SendTypes
  <2>3. PICK f \in Int : f = P(a).from
    BY Zenon, <2>1
  <2>4. data' = [data EXCEPT ![a].from = f]
    BY Zenon, <1>4, <2>3
  <2> QED BY <1>2, <2>2, <2>3, <2>4
<1>10. SendTypes'
  BY Zenon, <1>4, <1>9 DEF ActionInv, StageInv, SendTypes
<1>11. \A b \in Actions : /\ Unstarted(b)' => Unstarted(b)
                          /\ b # a => (Making(b)' => Making(b))
  BY Zenon, <1>1, <1>2, <1>4, <1>7 DEF Unstarted, Fresh, Making
<1>12. Unstarted(a)
  BY Zenon, <1>1, <1>2 DEF Unstarted, Fresh
<1>13. Kept
  BY Zenon, <1>4, <1>11, KeptFrame
<1>14. Places'
  <2>1. \A u \in Threads \ {Ev} : job'[u] = job[u] /\ line'[u] = line[u]
    BY Zenon, <1>6 DEF Only
  <2>2. /\ \A w \in Workers : job'[w] = job[w]
        /\ job'[Main] = job[Main] /\ line'[Main] = line[Main]
    BY Zenon, <2>1, ThreadFacts
  <2> QED BY Zenon, <1>4, <1>13, <2>2, PlacesFrame DEF ActionInv
<1>15. Quieter
  <2>1. l \notin CallbackLines
    BY Zenon DEF CallbackLines
  <2>2. line'[Ev] \notin CallbackLines /\ line[Ev] # "next"
    BY Zenon, <1>1, <1>7, <2>1
  <2> QED BY Zenon, <1>6, <2>2, ThreadFacts, QuieterOnly
<1>16. \A o \in Objects : (Pending(o)' => Pending(o)) /\ (AtNext(o)' <=> AtNext(o))
  BY Zenon, <1>4, <1>15, PendingFrame
<1>17. ASSUME NEW b \in 1 .. Len(acts), b # a PROVE FirstStage(b)' /\ DimStage(b)' /\ ForStage(b)'
  <2>1. FirstStage(b) /\ DimStage(b) /\ ForStage(b)
    BY Zenon, <1>17 DEF ActionInv, StageInv, Stages
  <2>2. b \in Actions /\ P(b)' = P(b) /\ data'[b].from = data[b].from /\ sends'[b] = sends[b]
    BY Zenon, <1>4, <1>9, <1>17, ActionFacts DEF P, ActionInv, ScriptInv, ScriptTypes
  <2>3. MainKept
    BY Zenon, <1>4, MainFrame
  <2> QED BY Zenon, <1>11, <1>16, <1>17, <2>1, <2>2, <2>3, StageOf
<1>18. FirstStage(a)' /\ DimStage(a)' /\ ForStage(a)'
  <2>1. ASSUME NEW k \in {"first", "in", "for"} PROVE ~Pending(<<a, k>>)'
    <3>1. <<a, k>> \in Objects /\ <<a, k>>[1] = a
      BY Zenon, <1>2, ObjectFacts
    <3>2. ~Pending(<<a, k>>)
      BY Zenon, <1>12, <3>1, NotPending DEF ActionInv
    <3> QED BY Zenon, <1>16, <3>1, <3>2
  <2>2. P(a)' = P(a)
    BY Zenon, <1>4 DEF P
  <2> QED BY Zenon, <1>9, <2>1, <2>2 DEF FirstStage, DimStage, ForStage, First
<1>19. Stages' /\ StagesInOrder'
  <2>1. \A b \in Actions : Unstarted(b)' => sends'[b] = <<>>
    BY Zenon, <1>4, <1>11 DEF ActionInv, StageInv, Stages
  <2>2. \A b \in 1 .. Len(acts') : FirstStage(b)' /\ DimStage(b)' /\ ForStage(b)'
    BY Zenon, <1>4, <1>17, <1>18
  <2>3. StagesInOrder'
    BY Zenon, <1>4 DEF ActionInv, StageInv, StagesInOrder, P
  <2> QED BY Zenon, <2>1, <2>2, <2>3 DEF Stages
<1> QED BY Zenon, <1>6, <1>8, <1>10, <1>14, <1>19 DEF ActionInv, ScriptInv, StageInv

(* The first object of an action is on its way.                            *)
LEMMA StartStages ==
  ASSUME ActionInv, pc[Ev] = "script", line[Ev] = "start", Only(Ev), job' = job,
         line'[Ev] \in {"none", "unreg"}, UNCHANGED <<acts, sends, data>>,
         NEW a \in 1 .. Len(acts), a = job[Ev][1], NEW k \in {"first", "in"},
         k = "in" => P(a).in,
         \A x \in (armed \cup Range(thread_list) \cup Range(wq))' :
           x = <<a, k>> \/ x \in armed \cup Range(thread_list) \cup Range(wq)
  PROVE  /\ Stages' /\ StagesInOrder' /\ Kept /\ ~Unstarted(a)'
         /\ a \in Actions /\ Unstarted(a)
<1>1. /\ a \in Actions /\ P(a) \in Params /\ job[Ev][2] = "run" /\ a = Len(acts)
      /\ ~(a > Len(acts))
  <2>1. a \in Actions /\ P(a) \in Params
    BY Zenon, ActionFacts DEF ActionInv, ScriptInv, ScriptTypes
  <2>2. job[Ev][2] = "run" /\ a = Len(acts)
    BY Zenon, RunFacts DEF ActionInv
  <2>3. ~(Len(acts) > Len(acts))
    BY DEF ActionInv, ScriptInv, ScriptTypes
  <2> QED BY Zenon, <2>1, <2>2, <2>3
<1>2. Making(a) /\ Unstarted(a)
  BY Zenon DEF Making, Unstarted
<1>3. ~Unstarted(a)' /\ \A b \in Actions : ~Making(b)' /\ (Unstarted(b)' => Unstarted(b))
  BY Zenon, <1>1 DEF Unstarted, Fresh, Making
<1>4. Kept
  BY Zenon, <1>3, KeptFrame
<1>5. /\ FirstStage(a) /\ data[a].from = P(a).from /\ sends[a] = <<>>
  BY Zenon, <1>1, <1>2 DEF ActionInv, StageInv, Stages, FirstStage
<1>6. Quieter
  <2>1. line'[Ev] \notin CallbackLines /\ line[Ev] # "next"
    BY Zenon DEF CallbackLines
  <2> QED BY Zenon, <2>1, ThreadFacts, QuieterOnly
<1>7. \A o \in Objects : (Pending(o)' /\ o # <<a, k>> => Pending(o)) /\ (AtNext(o)' <=> AtNext(o))
  <2>1. ASSUME NEW o \in Objects, o # <<a, k>>, Pending(o)' PROVE Pending(o)
    BY Zenon, <1>6, <2>1, PendingFrame
  <2> QED BY Zenon, <1>6, <2>1, NextFrame
<1>8. ASSUME NEW b \in 1 .. Len(acts), b # a PROVE FirstStage(b)' /\ DimStage(b)' /\ ForStage(b)'
  <2>1. FirstStage(b) /\ DimStage(b) /\ ForStage(b)
    BY Zenon, <1>8 DEF ActionInv, StageInv, Stages
  <2>2. b \in Actions /\ P(b)' = P(b)
    BY Zenon, <1>8, ActionFacts DEF P, ActionInv, ScriptInv, ScriptTypes
  <2>3. \A o \in Objects : o[1] = b => o # <<a, k>>
    <3>1. <<a, k>>[1] = a
      OBVIOUS
    <3> QED BY Zenon, <1>8, <3>1
  <2>4. MainKept
    BY Zenon, MainFrame
  <2> QED BY Zenon, <1>3, <1>7, <2>1, <2>2, <2>3, <2>4, StageOf
<1>9. ASSUME NEW j \in {"first", "in", "for"}
      PROVE  /\ ~Pending(<<a, j>>) /\ ~AtNext(<<a, j>>)' /\ (j # k => ~Pending(<<a, j>>)')
             /\ job[Main] # <<a, j>>
  <2>1. <<a, j>> \in Objects /\ <<a, j>>[1] = a /\ (j # k => <<a, j>> # <<a, k>>)
    BY Zenon, <1>1, ObjectFacts
  <2>2. ~Pending(<<a, j>>) /\ \A t \in Threads : job[t] # <<a, j>>
    BY Zenon, <1>2, <2>1, NotPending DEF ActionInv
  <2>3. ~AtNext(<<a, j>>)
    BY Zenon, <2>2 DEF AtNext, RunsAt
  <2> QED BY Zenon, <1>7, <2>1, <2>2, <2>3, ThreadFacts
<1>10. P(a)' = P(a) /\ Len(sends[a]) = 0 /\ sends' = sends /\ data' = data
  <2>1. P(a)' = P(a)
    BY Zenon DEF P
  <2> QED BY <1>5, <2>1
<1>11. FirstStage(a)' /\ DimStage(a)' /\ ForStage(a)'
  <2>1. FirstStage(a)'
    <3>1. k = "first" \/ ~Pending(First(a))'
      BY Zenon, <1>9 DEF First
    <3>2. k = "first" => ~Pending(<<a, "in">>)' /\ ~Pending(<<a, "for">>)'
      BY Zenon, <1>9
    <3>3. ~AtNext(First(a))'
      BY Zenon, <1>9 DEF First
    <3>4. job'[Main] # <<a, "for">>
      BY Zenon, <1>9
    <3> QED BY Zenon, <1>5, <1>10, <3>1, <3>2, <3>3, <3>4 DEF FirstStage
  <2>2. DimStage(a)'
    <3>1. ~AtNext(<<a, "in">>)' /\ ~Pending(<<a, "for">>)'
      BY Zenon, <1>9
    <3>2. /\ 0 <= Stage(P(a)) /\ 0 < Stage(P(a)) /\ data[a].from = Level(P(a), 0 + 1)
      <4>1. Stage(P(a)) \in Nat /\ Stage(P(a)) > 0 /\ Level(P(a), 1) = P(a).from
        BY Zenon, <1>1, ExpectedFacts
      <4>2. 0 + 1 = 1
        OBVIOUS
      <4>3. data[a].from = Level(P(a), 0 + 1)
        BY Zenon, <1>5, <4>1, <4>2
      <4> QED BY <4>1, <4>3
    <3> QED BY Zenon, <1>10, <3>1, <3>2 DEF DimStage
  <2>3. ForStage(a)'
    BY Zenon, <1>9 DEF ForStage
  <2> QED BY Zenon, <2>1, <2>2, <2>3
<1>12. Stages' /\ StagesInOrder'
  <2>1. \A b \in Actions : Unstarted(b)' => sends'[b] = <<>>
    BY Zenon, <1>3 DEF ActionInv, StageInv, Stages
  <2>2. \A b \in 1 .. Len(acts') : FirstStage(b)' /\ DimStage(b)' /\ ForStage(b)'
    BY Zenon, <1>8, <1>11
  <2>3. StagesInOrder'
    BY Zenon DEF ActionInv, StageInv, StagesInOrder, P
  <2> QED BY Zenon, <2>1, <2>2, <2>3 DEF Stages
<1> QED BY Zenon, <1>1, <1>2, <1>3, <1>4, <1>12

(* Which object run starts.                                                *)
LEMMA StartFacts ==
  ASSUME NEW p \in Params
  PROVE  /\ run(p).starts \in {"first", "in"}
         /\ run(p).starts = "in" => p.in
         /\ run(p).timer \in BOOLEAN
<1>1. p.module \in {"switch", "dim", "label", "toggle"} /\ p.in \in BOOLEAN /\ p.after \in BOOLEAN
  BY LuaActionsConstants
<1> QED BY <1>1 DEF run, switch_run, label_run, dim_run, toggle_run

(* run starts its timer.                                                   *)
LEMMA RunStartTimerStep ==
  ASSUME ActionInv, RunStartTimer
  PROVE  ActionInv'
<1>1. /\ pc[Ev] = "script" /\ line[Ev] = "start" /\ EndScript(Ev)
      /\ UNCHANGED <<acts, job, pos, thread_list, wq, afterWork, data, sends, now, mpc, closed>>
  BY Zenon DEF RunStartTimer, At, poolRest, workVars, devVars, gcVars
<1>2. PICK a \in 1 .. Len(acts) : a \in Actions /\ job[Ev][1] = a /\ job[Ev][2] = "run"
  BY Zenon, <1>1, RunFacts DEF ActionInv
<1>3. P(a) \in Params
  BY Zenon, <1>2, ActionFacts DEF ActionInv, ScriptInv, ScriptTypes
<1>4. PICK k \in {"first", "in"} : k = run(P(a)).starts /\ (k = "in" => P(a).in)
  BY Zenon, <1>3, StartFacts
<1>5. IsTimer(a) /\ armed' = armed \cup {<<a, k>>}
  BY Zenon, <1>2, <1>4 DEF RunStartTimer
<1>6. "start" \in EvLines \ {"operator"}
  BY Zenon DEF EvLines
<1>7. /\ Control' /\ Only(Ev)
      /\ pc' \in [Threads -> {"idle", "scan", "wait", "script", "clear", "unlock", "post"}]
      /\ line' \in [Threads -> {"none"} \cup EvLines \cup CallbackLines]
  <2>1. ScriptInv
    BY Zenon DEF ActionInv
  <2> QED BY Zenon, <1>1, <1>6, <2>1, EventsLine
<1>8. line'[Ev] = "none"
  BY Zenon, <1>1, ThreadFacts DEF EndScript, ActionInv, ScriptInv, ScriptTypes
<1>9. /\ Range(thread_list)' = Range(thread_list) /\ Range(wq)' = Range(wq)
      /\ Range(afterWork)' = Range(afterWork) /\ Once(thread_list)' = Once(thread_list)
      /\ Once(wq)' = Once(wq) /\ Once(afterWork)' = Once(afterWork)
  BY Zenon, <1>1
<1>10. /\ Stages' /\ StagesInOrder' /\ Kept /\ ~Unstarted(a)' /\ Unstarted(a)
  <2>1. \A x \in (armed \cup Range(thread_list) \cup Range(wq))' :
           x = <<a, k>> \/ x \in armed \cup Range(thread_list) \cup Range(wq)
    BY Zenon, <1>5, <1>9
  <2> QED BY Zenon, <1>1, <1>2, <1>4, <1>7, <1>8, <2>1, StartStages
<1>11. ScriptTypes' /\ SendTypes'
  BY Zenon, <1>1, <1>7 DEF ActionInv, ScriptInv, ScriptTypes, StageInv, SendTypes
<1>12. <<a, k>> \in Objects /\ <<a, k>>[1] = a /\ <<a, k>>[2] = k
  BY Zenon, <1>2, ObjectFacts
<1>13. WorkTypes'
  BY Zenon, <1>1, <1>5, <1>12 DEF ActionInv, ScriptInv, WorkTypes
<1>14. /\ \A w \in Workers : job'[w] = job[w]
       /\ job'[Main] = job[Main] /\ line'[Main] = line[Main]
  BY Zenon, <1>1, <1>7, ThreadFacts DEF Only
<1>15. WorkOnce' /\ Work' = Work
  <2>1. Working' = Working
    BY Zenon, <1>14 DEF Working
  <2>2. Work' = Work
    BY Zenon, <1>9, <2>1 DEF Work
  <2> QED BY Zenon, <1>9, <1>14, <2>1, <2>2 DEF ActionInv, ScriptInv, Places, WorkOnce
<1>16. /\ \A o \in Work' : IsThread(o)'
       /\ \A o \in armed : IsTimerOf(o)'
       /\ job[Main] # NoJob => IsTimerOf(job[Main])'
  BY Zenon, <1>10, <1>14, <1>15, KeptPlaces DEF ActionInv
<1>17. IsTimerOf(<<a, k>>)'
  <2>1. IsTimer(a)' /\ P(a)' = P(a)
    BY Zenon, <1>1, <1>5 DEF IsTimer, P
  <2> QED BY Zenon, <1>4, <1>10, <1>12, <2>1 DEF IsTimerOf
<1>18. job[Main] # <<a, k>>
  BY Zenon, <1>10, <1>12, NotPending, ThreadFacts DEF ActionInv
<1>19. TimerOnce'
  BY Zenon, <1>5, <1>14, <1>16, <1>17, <1>18 DEF ActionInv, ScriptInv, Places, TimerOnce
<1> QED BY Zenon, <1>7, <1>10, <1>11, <1>13, <1>15, <1>16, <1>19
        DEF ActionInv, ScriptInv, StageInv, Places

(* run hands its thread object to the main loop.                           *)
LEMMA RunTriggerStep ==
  ASSUME ActionInv, RunTrigger
  PROVE  ActionInv'
<1>1. /\ pc[Ev] = "script" /\ line[Ev] = "start" /\ Goto(Ev, "unreg")
      /\ UNCHANGED <<acts, job, pos, armed, wq, afterWork, data, sends, now, mpc, closed>>
  BY Zenon DEF RunTrigger, At, poolRest, devVars, gcVars
<1>2. PICK a \in 1 .. Len(acts) : a \in Actions /\ job[Ev][1] = a /\ job[Ev][2] = "run"
  BY Zenon, <1>1, RunFacts DEF ActionInv
<1>3. P(a) \in Params
  BY Zenon, <1>2, ActionFacts DEF ActionInv, ScriptInv, ScriptTypes
<1>4. PICK o \in Objects : o = <<a, "first">> /\ o[1] = a /\ o[2] = "first"
  <2>1. <<a, "first">> \in Objects /\ <<a, "first">>[1] = a /\ <<a, "first">>[2] = "first"
    BY Zenon, <1>2, ObjectFacts
  <2> QED BY Zenon, <2>1
<1>5. ~IsTimer(a) /\ thread_list' = <<o>> \o thread_list
  BY Zenon, <1>2, <1>4 DEF RunTrigger, First
<1>6. "unreg" \in EvLines \ {"operator"} /\ line[Ev] # "operator"
  BY Zenon, <1>1 DEF EvLines
<1>7. /\ Control' /\ Only(Ev)
      /\ pc' \in [Threads -> {"idle", "scan", "wait", "script", "clear", "unlock", "post"}]
      /\ line' \in [Threads -> {"none"} \cup EvLines \cup CallbackLines]
  <2>1. ScriptInv
    BY Zenon DEF ActionInv
  <2> QED BY Zenon, <1>1, <1>6, <2>1, EventsLine
<1>8. line'[Ev] = "unreg"
  BY Zenon, <1>1, ThreadFacts DEF Goto, ActionInv, ScriptInv, ScriptTypes
<1>9. /\ Range(wq)' = Range(wq) /\ Range(afterWork)' = Range(afterWork)
      /\ Once(wq)' = Once(wq) /\ Once(afterWork)' = Once(afterWork)
  BY Zenon, <1>1
<1>10. thread_list \in Seq(Objects) /\ WorkOnce /\ Unstarted(a)
  BY Zenon, <1>1, <1>2 DEF ActionInv, ScriptInv, WorkTypes, Places, Unstarted, Making
<1>11. o \notin Work /\ job[Main] # o /\ o \notin armed
  BY Zenon, <1>4, <1>10, NotPending, ThreadFacts DEF ActionInv
<1>12. /\ thread_list' \in Seq(Objects) /\ Once(thread_list)'
       /\ \A x : x \in Range(thread_list)' <=> x = o \/ x \in Range(thread_list)
  <2>1. o \notin Range(thread_list) /\ Once(thread_list)
    BY Zenon, <1>10, <1>11 DEF Work, WorkOnce
  <2> QED BY Zenon, <1>5, <1>10, <2>1, RangePush
<1>13. /\ Stages' /\ StagesInOrder' /\ Kept /\ ~Unstarted(a)'
  <2>1. \A x \in (armed \cup Range(thread_list) \cup Range(wq))' :
           x = <<a, "first">> \/ x \in armed \cup Range(thread_list) \cup Range(wq)
    BY Zenon, <1>1, <1>4, <1>9, <1>12
  <2> QED BY Zenon, <1>1, <1>2, <1>7, <1>8, <2>1, StartStages
<1>14. ScriptTypes' /\ SendTypes' /\ WorkTypes'
  BY Zenon, <1>1, <1>7, <1>12
     DEF ActionInv, ScriptInv, ScriptTypes, StageInv, SendTypes, WorkTypes
<1>15. /\ \A w \in Workers : job'[w] = job[w]
       /\ job'[Main] = job[Main] /\ line'[Main] = line[Main]
  BY Zenon, <1>1, <1>7, ThreadFacts DEF Only
<1>16. Working' = Working
  BY Zenon, <1>15 DEF Working
<1>17. \A x : x \in Work' <=> x = o \/ x \in Work
  BY Zenon, <1>9, <1>12, <1>16 DEF Work
<1>18. WorkOnce'
  <2>1. Range(thread_list)' \cap (Range(wq)' \cup Working' \cup Range(afterWork)') = {}
    BY Zenon, <1>9, <1>10, <1>11, <1>12, <1>16 DEF WorkOnce, Work
  <2> QED BY Zenon, <1>9, <1>10, <1>12, <1>15, <1>16, <2>1 DEF WorkOnce
<1>19. /\ \A x \in Work : IsThread(x)'
       /\ \A x \in armed : IsTimerOf(x)'
       /\ job[Main] # NoJob => IsTimerOf(job[Main])'
  BY Zenon, <1>13, <1>15, KeptPlaces DEF ActionInv
<1>20. IsThread(o)'
  <2>1. ~IsTimer(a)'
    BY Zenon, <1>1, <1>5 DEF IsTimer, P
  <2> QED BY Zenon, <1>4, <1>13, <2>1 DEF IsThread
<1>21. TimerOnce'
  BY Zenon, <1>1, <1>15, <1>19 DEF ActionInv, ScriptInv, Places, TimerOnce
<1> QED BY Zenon, <1>7, <1>13, <1>14, <1>17, <1>18, <1>19, <1>20, <1>21
        DEF ActionInv, ScriptInv, StageInv, Places

----------------------------------------------------------------------------
(* What a callback sends, and what it leaves to do                         *)

(* The object whose callback runs is nowhere else.                         *)
LEMMA RunningFacts ==
  ASSUME ScriptInv, NEW t \in Threads, pc[t] = "script", line[t] \in CallbackLines
  PROVE  \E a \in 1 .. Len(acts), k \in {"first", "in", "for"} :
           /\ job[t] = <<a, k>> /\ job[t][1] = a /\ job[t][2] = k
           /\ a \in Actions /\ ~Unstarted(a) /\ t # Ev
           /\ Pending(<<a, k>>) /\ (AtNext(<<a, k>>) <=> line[t] = "next")
           /\ k = "in" => P(a).in /\ t = Main
           /\ k = "for" => P(a).for
           /\ k # "in" => <<a, k>> \notin armed
           /\ <<a, k>> \notin Range(thread_list) \cup Range(wq)
           /\ \A u \in Threads : job[u] = <<a, k>> => u = t
<1>1. t # Ev /\ job[t] \in Objects /\ job[t] # NoJob
  BY Zenon, JobTypes, NoJobNoObject
<1>2. PICK a \in Actions, k \in {"first", "in", "for"} :
        job[t] = <<a, k>> /\ job[t][1] = a /\ job[t][2] = k
  <2>1. /\ job[t][1] \in Actions /\ job[t][2] \in {"first", "in", "for"}
        /\ job[t] = <<job[t][1], job[t][2]>>
    BY Zenon, <1>1, ObjectFacts
  <2> QED BY Zenon, <2>1
<1>3. \A u \in Threads : job[u] = <<a, k>> => u = t
  BY Zenon, <1>1, <1>2, JobOnce
<1>4. Pending(<<a, k>>) /\ (AtNext(<<a, k>>) <=> line[t] = "next")
  <2>1. RunsAt(<<a, k>>, CallbackLines)
    BY Zenon, <1>2 DEF RunsAt
  <2>2. AtNext(<<a, k>>) <=> line[t] = "next"
    BY Zenon, <1>2, <1>3 DEF AtNext, RunsAt
  <2> QED BY Zenon, <2>1, <2>2 DEF Pending
<1>5. CASE t = Main
  <2>1. IsTimerOf(<<a, k>>) /\ (k # "in" => <<a, k>> \notin armed)
    BY Zenon, <1>1, <1>2, <1>5 DEF ScriptInv, Places, TimerOnce
  <2>2. ~IsThread(<<a, k>>)
    BY Zenon, <2>1 DEF IsThread, IsTimerOf
  <2>3. <<a, k>> \notin Range(thread_list) \cup Range(wq)
    BY Zenon, <2>2 DEF ScriptInv, Places, Work
  <2>4. ~Unstarted(a) /\ (k = "in" => P(a).in) /\ (k = "for" => P(a).for)
    BY Zenon, <1>2, <2>1 DEF IsTimerOf
  <2>5. a \in 1 .. Len(acts)
    BY Zenon, <2>4, ActionFacts DEF Unstarted, Fresh, ScriptInv, ScriptTypes
  <2> QED BY Zenon, <1>1, <1>2, <1>3, <1>4, <1>5, <2>1, <2>3, <2>4, <2>5
<1>6. CASE t \in Workers
  <2>1. <<a, k>> \in Working
    BY Zenon, <1>1, <1>2, <1>6 DEF Working
  <2>2. IsThread(<<a, k>>)
    BY Zenon, <2>1 DEF ScriptInv, Places, Work
  <2>3. <<a, k>> \notin Range(thread_list) \cup Range(wq)
    BY Zenon, <2>1 DEF ScriptInv, Places, WorkOnce
  <2>4. ~Unstarted(a) /\ k = "first"
    BY Zenon, <1>2, <2>2 DEF IsThread
  <2>5. a \in 1 .. Len(acts)
    BY Zenon, <2>4, ActionFacts DEF Unstarted, Fresh, ScriptInv, ScriptTypes
  <2>6. ~IsTimerOf(<<a, k>>)
    BY Zenon, <2>2 DEF IsThread, IsTimerOf
  <2>7. <<a, k>> \notin armed
    BY Zenon, <2>6 DEF ScriptInv, Places, TimerOnce
  <2> QED BY Zenon, <1>1, <1>2, <1>3, <1>4, <2>3, <2>4, <2>5, <2>7
<1> QED BY Zenon, <1>1, <1>5, <1>6, ThreadFacts

(* One more value.                                                         *)
LEMMA OneMore ==
  ASSUME NEW s \in Seq(Int), NEW v \in Int
  PROVE  /\ Append(s, v) \in Seq(Int) /\ Len(Append(s, v)) = Len(s) + 1
         /\ \A i \in DOMAIN Append(s, v) :
              \/ i \in DOMAIN s /\ Append(s, v)[i] = s[i]
              \/ i = Len(s) + 1 /\ Append(s, v)[i] = v
  OBVIOUS

(* Which callbacks are at their end once one has sent.                     *)
LEMMA SentFrame ==
  ASSUME NEW t \in Threads, Only(t), job' = job, line[t] = "send", line'[t] = "next",
         UNCHANGED <<armed, thread_list, wq>>
  PROVE  /\ \A o : Pending(o)' <=> Pending(o)
         /\ \A o : o # job[t] => (AtNext(o)' <=> AtNext(o))
         /\ AtNext(job[t])'
<1>1. \A u \in Threads : line'[u] \in CallbackLines <=> line[u] \in CallbackLines
  BY Zenon DEF Only, CallbackLines
<1>2. \A o : RunsAt(o, CallbackLines)' <=> RunsAt(o, CallbackLines)
  BY Zenon, <1>1 DEF RunsAt
<1>3. \A o : Pending(o)' <=> Pending(o)
  BY Zenon, <1>2 DEF Pending
<1>4. \A o : o # job[t] => (AtNext(o)' <=> AtNext(o))
  BY Zenon DEF AtNext, RunsAt, Only
<1>5. AtNext(job[t])'
  BY Zenon DEF AtNext, RunsAt
<1> QED BY Zenon, <1>3, <1>4, <1>5

(* The length of what was sent.                                            *)
LEMMA SendsLen == \A s \in Seq(Int) : Len(s) \in Nat
  OBVIOUS

(* The callback of kind k of a sends v, the action having sent as expected *)
(* so far.                                                                 *)
Sent(a, k, v) ==
  /\ P(a) \in Params /\ P(a)' = P(a) /\ ~Making(a)' /\ job'[Main] = job[Main]
  /\ data'[a].from = data[a].from /\ data[a].from \in Int /\ sends[a] \in Seq(Int)
  /\ Pending(<<a, k>>) /\ ~AtNext(<<a, k>>) /\ AtNext(<<a, k>>)'
  /\ \A o \in Objects :
       (Pending(o)' <=> Pending(o)) /\ (o # <<a, k>> => (AtNext(o)' <=> AtNext(o)))
  /\ k = "first" => v = P(a).to
  /\ k = "in" => P(a).in /\ v = data[a].from
  /\ k = "for" => P(a).for /\ v = Old
  /\ sends'[a] = IF k = "first" /\ P(a).in THEN sends[a] ELSE Append(sends[a], v)
  /\ FirstStage(a) /\ DimStage(a) /\ ForStage(a)
  /\ Len(sends[a]) <= Len(Expected(P(a)))
  /\ \A i \in DOMAIN sends[a] : sends[a][i] = Expected(P(a))[i]

(* The stages of the action a callback sends for, and what it sent.        *)
LEMMA SentStage ==
  ASSUME NEW a \in Actions, NEW k \in {"first", "in", "for"}, NEW v, Sent(a, k, v)
  PROVE  /\ FirstStage(a)' /\ DimStage(a)' /\ ForStage(a)'
         /\ sends'[a] \in Seq(Int) /\ Len(sends'[a]) <= Len(Expected(P(a)))
         /\ \A i \in DOMAIN sends'[a] : sends'[a][i] = Expected(P(a))[i]
<1> USE DEF Sent
<1>1. PICK p \in Params : p = P(a) /\ p = P(a)'
  BY Zenon
<1>2. PICK n \in Nat : n = Len(sends[a])
  BY Zenon, SendsLen
<1>3. /\ p.to \in Int /\ p.in \in BOOLEAN /\ Stage(p) \in Nat /\ Stage(p) > 0
      /\ Len(Expected(p)) \in Nat /\ Len(Expected(p)) >= Stage(p)
      /\ p.for => Len(Expected(p)) = Stage(p) + 1 /\ Expected(p)[Stage(p) + 1] = Old
      /\ ~p.in => Stage(p) = 1 /\ Expected(p)[1] = p.to
      /\ p.in => \A i \in 1 .. Stage(p) : Expected(p)[i] = Level(p, i)
  BY Zenon, ExpectedFacts
<1>4. \A j \in {"first", "in", "for"} :
        /\ Pending(<<a, j>>)' <=> Pending(<<a, j>>)
        /\ j # k => (AtNext(<<a, j>>)' <=> AtNext(<<a, j>>))
  <2> TAKE j \in {"first", "in", "for"}
  <2>1. <<a, j>> \in Objects /\ (<<a, j>> = <<a, k>> => j = k)
    BY Zenon, ObjectFacts
  <2> QED BY Zenon, <2>1
<1>5. /\ Pending(<<a, "first">>) => data[a].from = p.from /\ ~Pending(<<a, "in">>)
           /\ ~Pending(<<a, "for">>) /\ job[Main] # <<a, "for">>
      /\ Pending(<<a, "in">>) => ~Pending(<<a, "for">>)
  BY Zenon, <1>1 DEF FirstStage, DimStage, First
<1>6. ASSUME v \in Int, n + 1 <= Len(Expected(p)), v = Expected(p)[n + 1],
             sends'[a] = Append(sends[a], v)
      PROVE  /\ sends'[a] \in Seq(Int) /\ Len(sends'[a]) = n + 1
             /\ Len(sends'[a]) <= Len(Expected(p))
             /\ \A i \in DOMAIN sends'[a] : sends'[a][i] = Expected(p)[i]
  <2>1. /\ sends'[a] \in Seq(Int) /\ Len(sends'[a]) = n + 1
        /\ \A i \in DOMAIN sends'[a] :
             \/ i \in DOMAIN sends[a] /\ sends'[a][i] = sends[a][i]
             \/ i = n + 1 /\ sends'[a][i] = v
    <3>1. sends[a] \in Seq(Int) /\ v \in Int
      BY Zenon, <1>6
    <3>2. PICK s \in Seq(Int) : s = sends[a]
      BY Zenon, <3>1
    <3>3. /\ Append(s, v) \in Seq(Int) /\ Len(Append(s, v)) = Len(s) + 1
          /\ \A i \in DOMAIN Append(s, v) :
               \/ i \in DOMAIN s /\ Append(s, v)[i] = s[i]
               \/ i = Len(s) + 1 /\ Append(s, v)[i] = v
      BY ONLY Zenon, s \in Seq(Int), v \in Int, OneMore
    <3> QED BY Zenon, <1>2, <1>6, <3>2, <3>3
  <2>2. \A i \in DOMAIN sends[a] : sends[a][i] = Expected(p)[i]
    BY Zenon, <1>1
  <2> QED BY Zenon, <1>6, <2>1, <2>2
<1>7. CASE k = "first"
  <2>1. n = 0
    BY Zenon, <1>2, <1>7 DEF FirstStage, First
  <2>2. ~Pending(<<a, "in">>)' /\ ~Pending(<<a, "for">>)'
    BY Zenon, <1>4, <1>5, <1>7
  <2>3. DimStage(a)' /\ ForStage(a)'
    BY Zenon, <2>2 DEF DimStage, ForStage
  <2>4. data'[a].from = P(a)'.from /\ job'[Main] # <<a, "for">>
    BY Zenon, <1>1, <1>5, <1>7
  <2>5. CASE p.in
    <3>1. sends'[a] = sends[a]
      BY Zenon, <1>1, <1>7, <2>5
    <3>2. Len(sends'[a]) = 0 /\ P(a)'.in
      BY Zenon, <1>1, <1>2, <2>1, <2>5, <3>1
    <3>3. FirstStage(a)'
      BY Zenon, <2>2, <2>4, <3>2 DEF FirstStage
    <3> QED BY Zenon, <1>1, <2>3, <3>1, <3>3
  <2>6. CASE ~p.in
    <3>1. sends'[a] = Append(sends[a], v)
      BY Zenon, <1>1, <2>6
    <3>2. v \in Int /\ n + 1 = 1 /\ 1 <= Len(Expected(p)) /\ v = Expected(p)[1]
      <4>1. v = p.to /\ Stage(p) = 1 /\ Expected(p)[1] = p.to /\ p.to \in Int
            /\ Len(Expected(p)) >= Stage(p) /\ Len(Expected(p)) \in Nat
        BY Zenon, <1>1, <1>3, <1>7, <2>6
      <4> QED BY <2>1, <4>1
    <3>3. /\ sends'[a] \in Seq(Int) /\ Len(sends'[a]) = 1
          /\ Len(sends'[a]) <= Len(Expected(p))
          /\ \A i \in DOMAIN sends'[a] : sends'[a][i] = Expected(p)[i]
      BY Zenon, <1>6, <3>1, <3>2
    <3>4. AtNext(First(a))' /\ ~P(a)'.in
      BY Zenon, <1>1, <1>7, <2>6 DEF First
    <3>5. FirstStage(a)'
      BY Zenon, <2>2, <2>4, <3>3, <3>4 DEF FirstStage
    <3> QED BY Zenon, <1>1, <2>3, <3>3, <3>5
  <2> QED BY Zenon, <1>3, <2>5, <2>6
<1>8. CASE k = "in"
  <2>1. p.in /\ n < Stage(p) /\ data[a].from = Level(p, n + 1) /\ v = data[a].from
    BY Zenon, <1>1, <1>2, <1>8 DEF DimStage
  <2>2. ~Pending(<<a, "first">>)' /\ ~Pending(<<a, "for">>)'
    BY Zenon, <1>4, <1>5, <1>8
  <2>3. n + 1 \in 1 .. Stage(p) /\ n + 1 <= Stage(p) /\ n + 1 <= Len(Expected(p)) /\ n + 1 > 0
    <3>1. Stage(p) \in Nat /\ Len(Expected(p)) \in Nat /\ Len(Expected(p)) >= Stage(p) /\ n < Stage(p)
      BY Zenon, <1>3, <2>1
    <3> QED BY <3>1
  <2>4. v = Expected(p)[n + 1] /\ v \in Int
    BY Zenon, <1>3, <2>1, <2>3
  <2>5. sends'[a] = Append(sends[a], v)
    <3>1. k # "first"
      BY Zenon, <1>8
    <3> QED BY Zenon, <3>1
  <2>6. /\ sends'[a] \in Seq(Int) /\ Len(sends'[a]) = n + 1
        /\ Len(sends'[a]) <= Len(Expected(p))
        /\ \A i \in DOMAIN sends'[a] : sends'[a][i] = Expected(p)[i]
    BY Zenon, <1>6, <2>3, <2>4, <2>5
  <2>7. FirstStage(a)' /\ ForStage(a)'
    BY Zenon, <2>2 DEF FirstStage, ForStage, First
  <2>8. DimStage(a)'
    <3>1. AtNext(<<a, "in">>)'
      BY Zenon, <1>8
    <3>2. Len(sends'[a]) <= Stage(P(a)') /\ Len(sends'[a]) > 0
          /\ data'[a].from = Level(P(a)', Len(sends'[a]))
      BY Zenon, <1>1, <2>1, <2>3, <2>6
    <3> QED BY Zenon, <2>2, <3>1, <3>2 DEF DimStage
  <2> QED BY Zenon, <1>1, <2>6, <2>7, <2>8
<1>9. CASE k = "for"
  <2>1. p.for /\ n = Stage(p) + 0 /\ v = Old
    BY Zenon, <1>1, <1>2, <1>9 DEF ForStage
  <2>2. ~Pending(<<a, "first">>)' /\ ~Pending(<<a, "in">>)'
    BY Zenon, <1>4, <1>5, <1>9
  <2>3. n = Stage(p) /\ v \in Int /\ n + 1 <= Len(Expected(p)) /\ v = Expected(p)[n + 1]
    <3>1. Stage(p) \in Nat /\ Len(Expected(p)) = Stage(p) + 1 /\ Expected(p)[Stage(p) + 1] = Old
      BY Zenon, <1>3, <2>1
    <3> QED BY <2>1, <3>1 DEF Old
  <2>4. sends'[a] = Append(sends[a], v)
    <3>1. k # "first"
      BY Zenon, <1>9
    <3> QED BY Zenon, <3>1
  <2>5. /\ sends'[a] \in Seq(Int) /\ Len(sends'[a]) = n + 1
        /\ Len(sends'[a]) <= Len(Expected(p))
        /\ \A i \in DOMAIN sends'[a] : sends'[a][i] = Expected(p)[i]
    BY Zenon, <1>6, <2>3, <2>4
  <2>6. FirstStage(a)' /\ DimStage(a)'
    BY Zenon, <2>2 DEF FirstStage, DimStage, First
  <2>7. ForStage(a)'
    <3>1. AtNext(<<a, "for">>)' /\ Len(sends'[a]) = Stage(P(a)') + 1
      BY Zenon, <1>1, <1>9, <2>3, <2>5
    <3> QED BY Zenon, <3>1 DEF ForStage
  <2> QED BY Zenon, <1>1, <2>5, <2>6, <2>7
<1> QED BY Zenon, <1>7, <1>8, <1>9

(* The callback sends.                                                     *)
LEMMA CallbackSendStep ==
  ASSUME ActionInv, NEW t \in Threads, CallbackSend(t)
  PROVE  ActionInv'
<1>1. /\ pc[t] = "script" /\ line[t] = "send" /\ Goto(t, "next")
      /\ UNCHANGED <<acts, job, thread_list, wq, afterWork, armed, data, now, mpc, closed, pos>>
  BY Zenon DEF CallbackSend, At, poolRest, objVars, workVars, gcVars
<1>2. ScriptInv /\ "send" \in CallbackLines /\ "next" \in CallbackLines
  BY Zenon DEF ActionInv, CallbackLines
<1>3. PICK a \in 1 .. Len(acts), k \in {"first", "in", "for"} :
        /\ job[t] = <<a, k>> /\ job[t][1] = a /\ job[t][2] = k
        /\ a \in Actions /\ ~Unstarted(a) /\ t # Ev
        /\ Pending(<<a, k>>) /\ (AtNext(<<a, k>>) <=> line[t] = "next")
        /\ k = "in" => P(a).in /\ t = Main
        /\ k = "for" => P(a).for
        /\ k # "in" => <<a, k>> \notin armed
        /\ <<a, k>> \notin Range(thread_list) \cup Range(wq)
        /\ \A u \in Threads : job[u] = <<a, k>> => u = t
  BY Zenon, <1>1, <1>2, RunningFacts
<1>4. /\ Control' /\ Only(t)
      /\ pc' \in [Threads -> {"idle", "scan", "wait", "script", "clear", "unlock", "post"}]
      /\ line' \in [Threads -> {"none"} \cup EvLines \cup CallbackLines]
  BY Zenon, <1>1, <1>2, CallbackLine
<1>5. line'[t] = "next"
  BY Zenon, <1>1, <1>2 DEF Goto, ScriptInv, ScriptTypes
<1>6. ScriptTypes' /\ WorkTypes'
  BY Zenon, <1>1, <1>2, <1>4 DEF ScriptInv, ScriptTypes, WorkTypes
<1>7. \A b : (Unstarted(b)' <=> Unstarted(b)) /\ (Making(b)' <=> Making(b))
  BY Zenon, <1>1, <1>3, <1>4, ThreadFacts, StartedFrame DEF Only
<1>8. Kept
  BY Zenon, <1>1, <1>7, KeptFrame
<1>9. Places'
  <2>1. line'[Main] \in CallbackLines => line[Main] \in CallbackLines
    BY Zenon, <1>1, <1>2, <1>4, ThreadFacts DEF Only
  <2> QED BY Zenon, <1>1, <1>2, <1>8, <2>1, PlacesFrame
<1>10. /\ \A o : Pending(o)' <=> Pending(o)
       /\ \A o : o # job[t] => (AtNext(o)' <=> AtNext(o))
       /\ AtNext(job[t])'
  BY Zenon, <1>1, <1>4, <1>5, SentFrame
<1>11. PICK v : /\ k = "in" => v = data[a].from
                /\ k = "for" => v = Old
                /\ k = "first" => v = P(a).to
                /\ sends' = IF k = "first" /\ P(a).in THEN sends
                            ELSE [sends EXCEPT ![a] = Append(@, v)]
  <2>1. PICK v : /\ v = CASE k = "first" -> P(a).to
                          [] k = "in" -> data[a].from
                          [] k = "for" -> Old
                 /\ sends' = IF k = "first" /\ P(a).in THEN sends
                             ELSE [sends EXCEPT ![a] = Append(@, v)]
    BY Zenon, <1>3 DEF CallbackSend
  <2>2. k = "in" => v = data[a].from
    BY Zenon, <2>1
  <2>3. k = "for" => v = Old
    BY Zenon, <2>1
  <2>4. k = "first" => v = P(a).to
    BY Zenon, <2>1
  <2> QED BY Zenon, <2>1, <2>2, <2>3, <2>4
<1>12. SendTypes
  BY Zenon DEF ActionInv, StageInv
<1>13. /\ sends'[a] = IF k = "first" /\ P(a).in THEN sends[a] ELSE Append(sends[a], v)
       /\ \A b \in Actions : b # a => sends'[b] = sends[b]
       /\ DOMAIN sends' = Actions
       /\ sends' = [b \in Actions |-> sends'[b]]
  <2>1. sends \in [Actions -> Seq(Int)] /\ a \in Actions
    BY Zenon, <1>3, <1>12 DEF SendTypes
  <2>2. CASE k = "first" /\ P(a).in
    BY Zenon, <1>11, <2>1, <2>2
  <2>3. CASE ~(k = "first" /\ P(a).in)
    BY Zenon, <1>11, <2>1, <2>3
  <2> QED BY Zenon, <2>2, <2>3
<1>14. /\ FirstStage(a)' /\ DimStage(a)' /\ ForStage(a)'
       /\ sends'[a] \in Seq(Int) /\ Len(sends'[a]) <= Len(Expected(P(a)))
       /\ \A i \in DOMAIN sends'[a] : sends'[a][i] = Expected(P(a))[i]
  <2>1. /\ P(a) \in Params /\ P(a)' = P(a) /\ data'[a].from = data[a].from
        /\ sends[a] \in Seq(Int) /\ job'[Main] = job[Main]
    BY Zenon, <1>1, <1>2, <1>3, <1>12, ActionFacts DEF P, ScriptInv, ScriptTypes, SendTypes
  <2>2. data[a].from \in Int
    BY <1>3, <1>12 DEF SendTypes
  <2>3. ~Making(a)' /\ ~AtNext(<<a, k>>) /\ AtNext(<<a, k>>)'
    BY Zenon, <1>1, <1>3, <1>7, <1>10 DEF Unstarted
  <2>4. /\ FirstStage(a) /\ DimStage(a) /\ ForStage(a)
        /\ Len(sends[a]) <= Len(Expected(P(a)))
        /\ \A i \in DOMAIN sends[a] : sends[a][i] = Expected(P(a))[i]
    BY Zenon, <1>3 DEF ActionInv, StageInv, Stages, StagesInOrder
  <2>5. \A o \in Objects : (Pending(o)' <=> Pending(o)) /\ (o # <<a, k>> => (AtNext(o)' <=> AtNext(o)))
    BY Zenon, <1>3, <1>10
  <2>6. Sent(a, k, v)
    BY Zenon, <1>3, <1>11, <1>13, <2>1, <2>2, <2>3, <2>4, <2>5 DEF Sent
  <2> QED BY Zenon, <1>3, <2>6, SentStage
<1>15. ASSUME NEW b \in 1 .. Len(acts), b # a
       PROVE  /\ FirstStage(b)' /\ DimStage(b)' /\ ForStage(b)'
              /\ sends'[b] = sends[b] /\ P(b)' = P(b)
  <2>1. b \in Actions /\ P(b)' = P(b) /\ sends'[b] = sends[b]
    BY Zenon, <1>1, <1>2, <1>13, <1>15, ActionFacts DEF P, ScriptInv, ScriptTypes
  <2>2. FirstStage(b) /\ DimStage(b) /\ ForStage(b)
    BY Zenon, <1>15 DEF ActionInv, StageInv, Stages
  <2>3. \A o \in Objects : o[1] = b => (Pending(o)' => Pending(o)) /\ (AtNext(o)' <=> AtNext(o))
    BY Zenon, <1>3, <1>10, <1>15
  <2>4. MainKept
    BY Zenon, <1>1, MainFrame
  <2> QED BY Zenon, <1>1, <1>7, <2>1, <2>2, <2>3, <2>4, StageOf
<1>16. SendTypes'
  <2>1. \A b \in Actions : sends'[b] \in Seq(Int)
    BY Zenon, <1>12, <1>13, <1>14 DEF SendTypes
  <2>2. sends' \in [Actions -> Seq(Int)]
    BY Zenon, <1>13, <2>1
  <2> QED BY Zenon, <1>1, <1>12, <2>2 DEF SendTypes
<1>17. P(a)' = P(a) /\ acts' = acts
  BY Zenon, <1>1 DEF P
<1>18. Stages'
  <2>1. \A b \in Actions : Unstarted(b)' => sends'[b] = <<>>
    <3>1. \A b \in Actions : Unstarted(b) => sends[b] = <<>>
      BY Zenon DEF ActionInv, StageInv, Stages
    <3> SUFFICES ASSUME NEW b \in Actions, Unstarted(b)'
                 PROVE  sends'[b] = <<>>
      OBVIOUS
    <3>2. Unstarted(b)
      BY Zenon, <1>7
    <3>3. b # a
      BY Zenon, <1>3, <3>2
    <3>4. sends'[b] = sends[b]
      BY Zenon, <1>13, <3>3
    <3> QED BY Zenon, <3>1, <3>2, <3>4
  <2> QED BY Zenon, <1>14, <1>15, <1>17, <2>1 DEF Stages
<1>19. StagesInOrder'
  <2> SUFFICES ASSUME NEW b \in 1 .. Len(acts)
               PROVE  /\ Len(sends'[b]) <= Len(Expected(P(b)'))
                      /\ \A i \in DOMAIN sends'[b] : sends'[b][i] = Expected(P(b)')[i]
    BY Zenon, <1>17 DEF StagesInOrder
  <2>1. CASE b = a
    BY Zenon, <1>14, <1>17, <2>1
  <2>2. CASE b # a
    <3>1. /\ Len(sends[b]) <= Len(Expected(P(b)))
          /\ \A i \in DOMAIN sends[b] : sends[b][i] = Expected(P(b))[i]
      BY Zenon DEF ActionInv, StageInv, StagesInOrder
    <3> QED BY Zenon, <1>15, <2>2, <3>1
  <2> QED BY Zenon, <2>1, <2>2
<1> QED BY Zenon, <1>4, <1>6, <1>9, <1>16, <1>18, <1>19 DEF ActionInv, ScriptInv, StageInv

(* The callback of kind k of a comes to its end; last: timer_in has come   *)
(* to TO.                                                                  *)
Ended(a, k, last) ==
  /\ P(a) \in Params /\ P(a)' = P(a) /\ ~Making(a)'
  /\ sends'[a] = sends[a] /\ sends[a] \in Seq(Int) /\ data[a].from \in Int
  /\ Pending(<<a, k>>) /\ AtNext(<<a, k>>) /\ ~AtNext(<<a, k>>)'
  /\ k # "in" \/ last => ~Pending(<<a, k>>)'
  /\ k = "in" => P(a).in /\ (last <=> data[a].from = P(a).to)
  /\ k # "in" => data'[a] = data[a]
  /\ k = "in" => data'[a].from = Step(a).from
  /\ \A o \in Objects : o # <<a, k>> =>
       /\ AtNext(o)' <=> AtNext(o)
       /\ Pending(o)' => \/ Pending(o)
                         \/ k = "first" /\ P(a).in /\ o = <<a, "in">>
                         \/ k = "first" /\ ~P(a).in /\ o = <<a, "for">>
                         \/ k = "in" /\ last /\ o = <<a, "for">>
  /\ FirstStage(a) /\ DimStage(a) /\ ForStage(a)

(* The stages of the action whose callback ends.                           *)
LEMMA EndedStage ==
  ASSUME NEW a \in Actions, NEW k \in {"first", "in", "for"}, NEW last \in BOOLEAN,
         Ended(a, k, last)
  PROVE  FirstStage(a)' /\ DimStage(a)' /\ ForStage(a)'
<1> USE DEF Ended
<1>1. PICK p \in Params : p = P(a) /\ p = P(a)'
  BY Zenon
<1>2. PICK n \in Nat : n = Len(sends[a]) /\ n = Len(sends'[a])
  BY Zenon, SendsLen
<1>3. /\ p.to \in Int /\ p.from \in Int /\ p.in \in BOOLEAN /\ Stage(p) \in Nat /\ Stage(p) > 0
      /\ ~p.in => Stage(p) = 1
      /\ p.in => Stage(p) = Steps(p) + 1
      /\ \A i \in Nat : i > 0 => (Level(p, i) = p.to <=> i = Steps(p) + 1)
      /\ Level(p, 1) = p.from
  BY Zenon, ExpectedFacts
<1>4. \A j \in {"first", "in", "for"} : j # k =>
        /\ AtNext(<<a, j>>)' <=> AtNext(<<a, j>>)
        /\ Pending(<<a, j>>)' => \/ Pending(<<a, j>>)
                                 \/ k = "first" /\ p.in /\ j = "in"
                                 \/ k = "first" /\ ~p.in /\ j = "for"
                                 \/ k = "in" /\ last /\ j = "for"
  <2> SUFFICES ASSUME NEW j \in {"first", "in", "for"}, j # k
               PROVE  /\ AtNext(<<a, j>>)' <=> AtNext(<<a, j>>)
                      /\ Pending(<<a, j>>)' => \/ Pending(<<a, j>>)
                                               \/ k = "first" /\ p.in /\ j = "in"
                                               \/ k = "first" /\ ~p.in /\ j = "for"
                                               \/ k = "in" /\ last /\ j = "for"
    BY Zenon
  <2>1. <<a, j>> \in Objects /\ \A i \in {"first", "in", "for"} : <<a, j>> = <<a, i>> => j = i
    BY Zenon, ObjectFacts
  <2> QED BY Zenon, <1>1, <2>1
<1>5. /\ Pending(<<a, "first">>) => data[a].from = p.from /\ ~Pending(<<a, "in">>)
           /\ ~Pending(<<a, "for">>)
      /\ Pending(<<a, "in">>) => ~Pending(<<a, "for">>)
  BY Zenon, <1>1 DEF FirstStage, DimStage, First
<1>6. \A j \in {"first", "in", "for"} : AtNext(<<a, j>>) => Pending(<<a, j>>)
  BY Zenon DEF AtNext, Pending, RunsAt, CallbackLines
<1>7. ~Pending(<<a, "first">>)' /\ FirstStage(a)'
  <2>1. ~Pending(<<a, "first">>)'
    BY Zenon, <1>4, <1>5
  <2> QED BY Zenon, <2>1 DEF FirstStage, First
<1>8. CASE k = "first"
  <2>1. ~Pending(<<a, "in">>) /\ ~Pending(<<a, "for">>) /\ data'[a].from = p.from
    BY Zenon, <1>5, <1>8
  <2>2. ~AtNext(<<a, "in">>)' /\ ~AtNext(<<a, "for">>)'
    BY Zenon, <1>4, <1>6, <1>8, <2>1
  <2>3. (Pending(<<a, "in">>)' => p.in) /\ (Pending(<<a, "for">>)' => ~p.in)
    BY Zenon, <1>4, <1>8, <2>1
  <2>4. p.in => n = 0
    BY Zenon, <1>1, <1>2, <1>8 DEF FirstStage, First
  <2>5. ~p.in => n = 1
    BY Zenon, <1>1, <1>2, <1>8 DEF FirstStage, First
  <2>6. DimStage(a)'
    <3> SUFFICES ASSUME Pending(<<a, "in">>)' PROVE DimStage(a)'
      BY Zenon DEF DimStage
    <3>1. p.in /\ n = 0 /\ ~Pending(<<a, "for">>)'
      BY Zenon, <2>3, <2>4
    <3>2. n <= Stage(p) /\ n < Stage(p) /\ n + 1 = 1
      BY <1>3, <3>1
    <3>3. /\ Len(sends'[a]) <= Stage(P(a)') /\ Len(sends'[a]) < Stage(P(a)')
          /\ data'[a].from = Level(P(a)', Len(sends'[a]) + 1)
      BY Zenon, <1>1, <1>2, <1>3, <2>1, <3>2
    <3> QED BY Zenon, <2>2, <3>1, <3>3 DEF DimStage
  <2>7. ForStage(a)'
    <3> SUFFICES ASSUME Pending(<<a, "for">>)' PROVE ForStage(a)'
      BY Zenon DEF ForStage
    <3>1. ~p.in /\ n = 1 /\ Stage(p) = 1
      BY Zenon, <1>3, <2>3, <2>5
    <3>2. n = Stage(p) + 0
      BY <3>1
    <3>3. Len(sends'[a]) = Stage(P(a)') + 0
      BY Zenon, <1>1, <1>2, <3>2
    <3> QED BY Zenon, <2>2, <3>3 DEF ForStage
  <2> QED BY Zenon, <1>7, <2>6, <2>7
<1>9. CASE k = "in"
  <2>1. /\ p.in /\ n <= Stage(p) /\ n > 0 /\ data[a].from = Level(p, n)
        /\ ~Pending(<<a, "for">>)
    BY Zenon, <1>1, <1>2, <1>9 DEF DimStage
  <2>2. ~AtNext(<<a, "for">>)' /\ ~AtNext(<<a, "in">>)'
    BY Zenon, <1>4, <1>6, <1>9, <2>1
  <2>3. (last <=> n = Stage(p)) /\ (~last => n < Stage(p))
    <3>1. last <=> n = Stage(p)
      BY Zenon, <1>1, <1>3, <1>9, <2>1
    <3>2. n # Stage(p) => n < Stage(p)
      <4>1. Stage(p) \in Nat /\ n <= Stage(p)
        BY Zenon, <1>3, <2>1
      <4> QED BY <4>1
    <3> QED BY Zenon, <3>1, <3>2
  <2>4. data'[a].from = Level(p, n + 1)
    <3>1. data'[a].from = IF p.from > p.to THEN data[a].from - 1 ELSE data[a].from + 1
      <4>1. PICK d : d = data[a].from
        BY Zenon
      <4>2. Step(a).from = IF p.from > p.to THEN d - 1 ELSE d + 1
        BY Zenon, <1>1, <4>1 DEF Step
      <4> QED BY Zenon, <1>9, <4>1, <4>2
    <3>2. data[a].from = IF p.from > p.to THEN p.from - n + 1 ELSE p.from + n - 1
      BY Zenon, <2>1 DEF Level
    <3>3. PICK d \in Int, f \in Int, u \in Int : d = data[a].from /\ f = p.from /\ u = p.to
      BY Zenon, <1>3
    <3>4. (IF f > u THEN d - 1 ELSE d + 1) = (IF f > u THEN f - (n + 1) + 1 ELSE f + (n + 1) - 1)
      <4>1. d = IF f > u THEN f - n + 1 ELSE f + n - 1
        BY Zenon, <3>2, <3>3
      <4> HIDE DEF Ended
      <4> QED BY <4>1
    <3> QED BY Zenon, <3>1, <3>3, <3>4 DEF Level
  <2>5. DimStage(a)'
    <3> SUFFICES ASSUME Pending(<<a, "in">>)' PROVE DimStage(a)'
      BY Zenon DEF DimStage
    <3>1. ~last
      BY Zenon, <1>9
    <3>2. ~Pending(<<a, "for">>)'
      BY Zenon, <1>4, <1>9, <2>1, <3>1
    <3>3. /\ Len(sends'[a]) <= Stage(P(a)') /\ Len(sends'[a]) < Stage(P(a)')
          /\ data'[a].from = Level(P(a)', Len(sends'[a]) + 1)
      BY Zenon, <1>1, <1>2, <2>1, <2>3, <2>4, <3>1
    <3> QED BY Zenon, <2>2, <3>2, <3>3 DEF DimStage
  <2>6. ForStage(a)'
    <3> SUFFICES ASSUME Pending(<<a, "for">>)' PROVE ForStage(a)'
      BY Zenon DEF ForStage
    <3>1. last
      BY Zenon, <1>4, <1>9, <2>1
    <3>2. n = Stage(p) + 0
      <4>1. n = Stage(p)
        BY Zenon, <2>3, <3>1
      <4> HIDE DEF Ended
      <4> QED BY <4>1
    <3>3. Len(sends'[a]) = Stage(P(a)') + 0
      BY Zenon, <1>1, <1>2, <3>2
    <3> QED BY Zenon, <2>2, <3>3 DEF ForStage
  <2> QED BY Zenon, <1>7, <2>5, <2>6
<1>10. CASE k = "for"
  <2>1. ~Pending(<<a, "in">>)' /\ ~Pending(<<a, "for">>)'
    BY Zenon, <1>4, <1>5, <1>10
  <2> QED BY Zenon, <1>7, <2>1 DEF DimStage, ForStage
<1> QED BY Zenon, <1>8, <1>9, <1>10

(* The timers a callback arms and stops.                                   *)
LEMMA NextTimers ==
  ASSUME NEW t \in Threads, CallbackNext(t), NEW a, NEW k \in {"first", "in", "for"},
         job[t] = <<a, k>>, job[t][1] = a, job[t][2] = k, NEW last, last = Step(a).last,
         last \in BOOLEAN
  PROVE  /\ k = "in" /\ last => <<a, k>> \notin armed'
         /\ ~(k = "in" /\ last) => armed \subseteq armed'
         /\ \A o : o \in armed' /\ o \notin armed =>
              \/ k = "first" /\ P(a).in /\ o = <<a, "in">>
              \/ k = "first" /\ ~P(a).in /\ P(a).for /\ o = <<a, "for">>
              \/ k = "in" /\ last /\ P(a).for /\ o = <<a, "for">>
<1>1. PICK T, S :
        /\ T = CASE k = "first" /\ P(a).in -> {<<a, "in">>}
                 [] k = "first" /\ ~P(a).in /\ P(a).for -> {<<a, "for">>}
                 [] k = "in" /\ last /\ P(a).for -> {<<a, "for">>}
                 [] OTHER -> {}
        /\ S = IF k = "in" /\ last THEN {<<a, k>>} ELSE {}
        /\ armed' = (armed \cup T) \ S
  BY Zenon DEF CallbackNext
<1>2. \A o \in T : \/ k = "first" /\ P(a).in /\ o = <<a, "in">>
                   \/ k = "first" /\ ~P(a).in /\ P(a).for /\ o = <<a, "for">>
                   \/ k = "in" /\ last /\ P(a).for /\ o = <<a, "for">>
  <2>1. CASE k = "first" /\ P(a).in
    BY Zenon, <1>1, <2>1
  <2>2. CASE k = "first" /\ ~P(a).in /\ P(a).for
    BY Zenon, <1>1, <2>2
  <2>3. CASE k = "in" /\ last /\ P(a).for
    BY Zenon, <1>1, <2>3
  <2>4. CASE /\ ~(k = "first" /\ P(a).in) /\ ~(k = "first" /\ ~P(a).in /\ P(a).for)
             /\ ~(k = "in" /\ last /\ P(a).for)
    BY Zenon, <1>1, <2>4
  <2> QED BY Zenon, <2>1, <2>2, <2>3, <2>4
<1>3. k = "in" /\ last => S = {<<a, k>>}
  BY Zenon, <1>1
<1>4. ~(k = "in" /\ last) => S = {}
  BY Zenon, <1>1
<1>5. \A o : o \in armed' => (o \in armed \/ o \in T) /\ o \notin S
  BY Zenon, <1>1
<1>6. S = {} => armed \subseteq armed'
  BY Zenon, <1>1
<1> QED BY Zenon, <1>2, <1>3, <1>4, <1>5, <1>6

(* The callback ends, and may start a further timer.                       *)
LEMMA CallbackNextStep ==
  ASSUME ActionInv, NEW t \in Threads, CallbackNext(t)
  PROVE  ActionInv'
<1>1. /\ pc[t] = "script" /\ line[t] = "next" /\ EndScript(t)
      /\ UNCHANGED <<acts, job, thread_list, wq, afterWork, now, sends, mpc, closed, pos>>
  BY Zenon DEF CallbackNext, At, poolRest, workVars, devVars, gcVars
<1>2. ScriptInv /\ "next" \in CallbackLines /\ "none" \notin CallbackLines /\ SendTypes
  BY Zenon DEF ActionInv, CallbackLines, StageInv
<1>3. PICK a \in 1 .. Len(acts), k \in {"first", "in", "for"} :
        /\ job[t] = <<a, k>> /\ job[t][1] = a /\ job[t][2] = k
        /\ a \in Actions /\ ~Unstarted(a) /\ t # Ev
        /\ Pending(<<a, k>>) /\ (AtNext(<<a, k>>) <=> line[t] = "next")
        /\ k = "in" => P(a).in /\ t = Main
        /\ k = "for" => P(a).for
        /\ k # "in" => <<a, k>> \notin armed
        /\ <<a, k>> \notin Range(thread_list) \cup Range(wq)
        /\ \A u \in Threads : job[u] = <<a, k>> => u = t
  BY Zenon, <1>1, <1>2, RunningFacts
<1>4. /\ Control' /\ Only(t)
      /\ pc' \in [Threads -> {"idle", "scan", "wait", "script", "clear", "unlock", "post"}]
      /\ line' \in [Threads -> {"none"} \cup EvLines \cup CallbackLines]
  BY Zenon, <1>1, <1>2, CallbackLine
<1>5. line'[t] = "none"
  BY Zenon, <1>1, <1>2 DEF EndScript, ScriptInv, ScriptTypes
<1>6. \A b : (Unstarted(b)' <=> Unstarted(b)) /\ (Making(b)' <=> Making(b))
  BY Zenon, <1>1, <1>3, <1>4, ThreadFacts, StartedFrame DEF Only
<1>7. Kept
  BY Zenon, <1>1, <1>6, KeptFrame
<1>8. /\ P(a) \in Params /\ P(a)' = P(a)
      /\ \A j \in {"first", "in", "for"} :
           <<a, j>> \in Objects /\ <<a, j>>[1] = a /\ <<a, j>>[2] = j
  BY Zenon, <1>1, <1>2, <1>3, ActionFacts, ObjectFacts DEF P, ScriptInv, ScriptTypes
<1>9. PICK last \in BOOLEAN : last = Step(a).last /\ (last <=> data[a].from = P(a).to)
  <2>1. Step(a).last = (data[a].from = P(a).to)
    BY DEF Step
  <2>2. (data[a].from = P(a).to) \in BOOLEAN
    BY Zenon
  <2> QED BY Zenon, <2>1, <2>2
<1>10. /\ k = "in" /\ last => <<a, k>> \notin armed'
       /\ ~(k = "in" /\ last) => armed \subseteq armed'
       /\ \A o : o \in armed' /\ o \notin armed =>
              \/ k = "first" /\ P(a).in /\ o = <<a, "in">>
              \/ k = "first" /\ ~P(a).in /\ P(a).for /\ o = <<a, "for">>
              \/ k = "in" /\ last /\ P(a).for /\ o = <<a, "for">>
  BY Zenon, <1>3, <1>9, NextTimers
<1>11. ScriptTypes' /\ WorkTypes'
  <2>1. armed' \subseteq Objects
    <3>1. <<a, "in">> \in Objects /\ <<a, "for">> \in Objects /\ armed \subseteq Objects
      BY Zenon, <1>2, <1>8, JobTypes
    <3> QED BY Zenon, <1>10, <3>1
  <2> QED BY Zenon, <1>1, <1>2, <1>4, <2>1 DEF ScriptInv, ScriptTypes, WorkTypes
<1>12. /\ FirstStage(a) /\ DimStage(a) /\ ForStage(a)
       /\ k = "first" => job[Main] # <<a, "for">>
  BY Zenon, <1>3 DEF ActionInv, StageInv, Stages, FirstStage, First
<1>13. Places'
  <2>1. Working' = Working
    BY Zenon, <1>1 DEF Working
  <2>2. /\ Range(thread_list)' = Range(thread_list) /\ Range(wq)' = Range(wq)
        /\ Range(afterWork)' = Range(afterWork) /\ Work' = Work
    BY Zenon, <1>1, <2>1 DEF Work
  <2>3. WorkOnce'
    BY Zenon, <1>1, <1>2, <2>1, <2>2 DEF ScriptInv, Places, WorkOnce, Once
  <2>4. /\ \A o \in Work' : IsThread(o)'
        /\ \A o \in armed : IsTimerOf(o)'
        /\ job'[Main] # NoJob => IsTimerOf(job[Main])'
    BY Zenon, <1>1, <1>2, <1>7, <2>2, KeptPlaces
  <2>5. ~Unstarted(a)'
    BY Zenon, <1>3, <1>6
  <2>6. (P(a).in => IsTimerOf(<<a, "in">>)') /\ (P(a).for => IsTimerOf(<<a, "for">>)')
    BY Zenon, <1>8, <2>5 DEF IsTimerOf
  <2>7. \A o \in armed' : IsTimerOf(o)'
    BY Zenon, <1>10, <2>4, <2>6
  <2>8. job[Main] # NoJob /\ job[Main][2] # "in" => job[Main] \notin armed'
    <3> SUFFICES ASSUME job[Main] # NoJob, job[Main][2] # "in", job[Main] \in armed' PROVE FALSE
      BY Zenon
    <3>1. job[Main] \notin armed
      BY Zenon, <1>2 DEF ScriptInv, Places, TimerOnce
    <3>2. <<a, "in">>[2] = "in"
      BY Zenon, <1>8
    <3>3. job[Main] = <<a, "for">> /\ k = "in"
      BY Zenon, <1>10, <1>12, <3>1, <3>2
    <3>4. job[Main][2] = "in"
      BY Zenon, <1>3, <3>3
    <3> QED BY Zenon, <3>4
  <2>9. job[Main] # NoJob /\ job[Main][2] = "in" /\ line'[Main] \in CallbackLines =>
          job[Main] \in armed'
    <3> SUFFICES ASSUME job[Main] # NoJob, job[Main][2] = "in", line'[Main] \in CallbackLines
                 PROVE  job[Main] \in armed'
      BY Zenon
    <3>1. t # Main
      BY Zenon, <1>2, <1>5
    <3>2. line[Main] \in CallbackLines
      BY Zenon, <1>4, <3>1, ThreadFacts DEF Only
    <3>3. job[Main] \in armed
      BY Zenon, <1>2, <3>2 DEF ScriptInv, Places, TimerOnce
    <3> QED BY Zenon, <1>3, <1>10, <3>1, <3>3
  <2>10. TimerOnce'
    BY Zenon, <1>1, <2>4, <2>7, <2>8, <2>9 DEF TimerOnce
  <2> QED BY Zenon, <2>3, <2>4, <2>10 DEF Places
<1>14. \A o : o # <<a, k>> => (AtNext(o)' <=> AtNext(o))
              /\ (RunsAt(o, CallbackLines)' => RunsAt(o, CallbackLines))
  BY Zenon, <1>1, <1>2, <1>3, <1>4, <1>5 DEF AtNext, RunsAt, Only
<1>15. ~AtNext(<<a, k>>)' /\ ~RunsAt(<<a, k>>, CallbackLines)'
  BY Zenon, <1>1, <1>2, <1>3, <1>5 DEF AtNext, RunsAt
<1>16. ASSUME NEW o, o # <<a, k>>
       PROVE  Pending(o)' => \/ Pending(o)
                             \/ k = "first" /\ P(a).in /\ o = <<a, "in">>
                             \/ k = "first" /\ ~P(a).in /\ o = <<a, "for">>
                             \/ k = "in" /\ last /\ o = <<a, "for">>
  BY Zenon, <1>1, <1>10, <1>14, <1>16 DEF Pending
<1>17. k # "in" \/ last => ~Pending(<<a, k>>)'
  <2> SUFFICES ASSUME k # "in" \/ last PROVE ~Pending(<<a, k>>)'
    BY Zenon
  <2>1. <<a, k>> \notin armed'
    <3>1. CASE k = "in"
      BY Zenon, <1>10, <3>1
    <3>2. CASE k # "in"
      <4>1. \A j \in {"first", "in", "for"} : <<a, k>> = <<a, j>> => k = j
        BY Zenon, <1>8
      <4>2. <<a, k>> = <<a, "in">> => k = "in"
        BY Zenon, <4>1
      <4>3. <<a, k>> = <<a, "for">> => k = "for"
        BY Zenon, <4>1
      <4> QED BY Zenon, <1>3, <1>10, <3>2, <4>2, <4>3
    <3> QED BY Zenon, <3>1, <3>2
  <2> QED BY Zenon, <1>1, <1>3, <1>15, <2>1 DEF Pending
<1>18. /\ data' \in [Actions -> [id : Int, from : Int]]
       /\ \A b \in Actions : b # a => data'[b] = data[b]
       /\ k # "in" => data'[a] = data[a]
       /\ k = "in" => data'[a].from = Step(a).from
       /\ data[a].from \in Int
  <2>1. data \in [Actions -> [id : Int, from : Int]] /\ a \in Actions
    BY Zenon, <1>2, <1>3 DEF SendTypes
  <2>2. data[a].from \in Int
    BY <2>1
  <2>3. PICK f \in Int : f = Step(a).from
    <3>1. Step(a).from = IF P(a).from > P(a).to THEN data[a].from - 1 ELSE data[a].from + 1
      BY DEF Step
    <3>2. data[a].from - 1 \in Int /\ data[a].from + 1 \in Int
      BY <2>2
    <3> QED BY Zenon, <3>1, <3>2
  <2>4. data' = IF k = "in" THEN [data EXCEPT ![a].from = f] ELSE data
    BY Zenon, <1>3, <2>3 DEF CallbackNext
  <2>5. CASE k = "in"
    <3>1. data' = [data EXCEPT ![a].from = f]
      BY Zenon, <2>4, <2>5
    <3>2. /\ data' \in [Actions -> [id : Int, from : Int]]
          /\ \A b \in Actions : b # a => data'[b] = data[b]
          /\ data'[a].from = f
      BY <2>1, <3>1
    <3> QED BY Zenon, <2>2, <2>3, <2>5, <3>2
  <2>6. CASE k # "in"
    BY Zenon, <2>1, <2>2, <2>4, <2>6
  <2> QED BY Zenon, <2>5, <2>6
<1>19. FirstStage(a)' /\ DimStage(a)' /\ ForStage(a)'
  <2>1. ~Making(a)' /\ sends'[a] = sends[a] /\ sends[a] \in Seq(Int)
    BY Zenon, <1>1, <1>2, <1>3, <1>6 DEF Unstarted, SendTypes
  <2>2. Ended(a, k, last)
    BY Zenon, <1>1, <1>3, <1>8, <1>9, <1>12, <1>14, <1>15, <1>16, <1>17, <1>18, <2>1 DEF Ended
  <2> QED BY Zenon, <1>3, <1>9, <2>2, EndedStage
<1>20. ASSUME NEW b \in 1 .. Len(acts), b # a
       PROVE  FirstStage(b)' /\ DimStage(b)' /\ ForStage(b)'
  <2>1. b \in Actions /\ P(b)' = P(b) /\ sends'[b] = sends[b] /\ data'[b].from = data[b].from
    BY Zenon, <1>1, <1>2, <1>18, <1>20, ActionFacts DEF P, ScriptInv, ScriptTypes
  <2>2. FirstStage(b) /\ DimStage(b) /\ ForStage(b)
    BY Zenon, <1>20 DEF ActionInv, StageInv, Stages
  <2>3. \A o \in Objects : o[1] = b => (Pending(o)' => Pending(o)) /\ (AtNext(o)' <=> AtNext(o))
    <3> SUFFICES ASSUME NEW o \in Objects, o[1] = b
                 PROVE  (Pending(o)' => Pending(o)) /\ (AtNext(o)' <=> AtNext(o))
      BY Zenon
    <3>1. <<a, k>>[1] = a /\ <<a, "in">>[1] = a /\ <<a, "for">>[1] = a
      BY Zenon, <1>8
    <3>2. o # <<a, k>> /\ o # <<a, "in">> /\ o # <<a, "for">>
      BY Zenon, <1>20, <3>1
    <3> QED BY Zenon, <1>14, <1>16, <3>2
  <2>4. MainKept
    BY Zenon, <1>1, MainFrame
  <2> QED BY Zenon, <1>6, <2>1, <2>2, <2>3, <2>4, StageOf
<1>21. SendTypes' /\ StagesInOrder'
  BY Zenon, <1>1, <1>2, <1>18 DEF SendTypes, ActionInv, StageInv, StagesInOrder, P
<1>22. Stages'
  <2>1. \A b \in Actions : Unstarted(b)' => sends'[b] = <<>>
    BY Zenon, <1>1, <1>6 DEF ActionInv, StageInv, Stages
  <2> QED BY Zenon, <1>1, <1>19, <1>20, <2>1 DEF Stages
<1> QED BY Zenon, <1>4, <1>11, <1>13, <1>21, <1>22 DEF ActionInv, ScriptInv, StageInv

----------------------------------------------------------------------------
(* The stages of every action                                              *)

(* Nothing has been started or sent at first.                              *)
LEMMA ActionInit ==
  ASSUME Init
  PROVE  ActionInv
<1>1. /\ acts = <<>> /\ line = [t \in Threads |-> "none"] /\ job = [t \in Threads |-> NoJob]
      /\ armed = {} /\ thread_list = <<>> /\ wq = <<>> /\ afterWork = <<>>
      /\ mpc = "run" /\ closed = {} /\ pc = [t \in Threads |-> "idle"]
      /\ pos = [t \in Threads |-> 1] /\ now = 0
      /\ data = [a \in Actions |-> [id |-> None, from |-> 0]]
      /\ sends = [a \in Actions |-> <<>>]
  BY Zenon DEF Init, plua_init
<1>2. Len(acts) = 0 /\ acts \in Seq(Params) /\ 1 .. Len(acts) = {} /\ 0 <= MaxActions
  BY <1>1, LuaActionsConstants
<1>3. \A t \in Threads : pc[t] = "idle" /\ line[t] = "none" /\ job[t] = NoJob
  BY Zenon, <1>1
<1>4. ScriptTypes
  <2>1. NoJob \in (0 .. MaxActions) \X {"none", "operator", "run", "first", "in", "for"}
    BY LuaActionsConstants DEF NoJob, None
  <2>2. 1 \in States
    BY LuaStatesConstants DEF States
  <2>3. job \in [Threads -> (0 .. MaxActions) \X {"none", "operator", "run", "first", "in", "for"}]
    BY Zenon, <1>1, <2>1
  <2>4. pos \in [Threads -> States]
    BY Zenon, <1>1, <2>2
  <2>5. pc \in [Threads -> {"idle", "scan", "wait", "script", "clear", "unlock", "post"}]
    BY Zenon, <1>1
  <2>6. line \in [Threads -> {"none"} \cup EvLines \cup CallbackLines]
    BY Zenon, <1>1
  <2> QED BY Zenon, <1>2, <2>3, <2>4, <2>5, <2>6 DEF ScriptTypes
<1>5. /\ WorkTypes /\ Range(thread_list) = {} /\ Range(wq) = {} /\ Range(afterWork) = {}
      /\ Once(thread_list) /\ Once(wq) /\ Once(afterWork)
  <2>1. <<>> \in Seq(Objects)
    OBVIOUS
  <2> QED BY Zenon, <1>1, <2>1, RangeType DEF WorkTypes
<1>6. Control
  <2>1. "none" \notin EvLines /\ "none" \notin CallbackLines
    BY Zenon DEF EvLines, CallbackLines
  <2>2. \A t \in Threads : ThreadAt(t) /\ CallbackAt(t)
    BY Zenon, <1>3, <2>1 DEF ThreadAt, CallbackAt
  <2>3. EventsAt
    BY Zenon, <1>3, <2>1, ThreadFacts DEF EventsAt
  <2> QED BY Zenon, <1>1, <2>2, <2>3 DEF Control
<1>7. Places
  <2>1. Working = {}
    BY Zenon, <1>3, ThreadFacts DEF Working
  <2>2. WorkOnce
    BY Zenon, <1>3, <1>5, <2>1, ThreadFacts DEF WorkOnce
  <2>3. TimerOnce
    BY Zenon, <1>1, <1>3, ThreadFacts DEF TimerOnce
  <2>4. Work = {}
    BY Zenon, <1>5, <2>1 DEF Work
  <2> QED BY Zenon, <2>2, <2>3, <2>4 DEF Places
<1>8. SendTypes
  <2>1. [id |-> None, from |-> 0] \in [id : Int, from : Int] /\ <<>> \in Seq(Int) /\ 0 \in Int
    BY DEF None
  <2> QED BY Zenon, <1>1, <2>1 DEF SendTypes
<1>9. Stages /\ StagesInOrder
  BY Zenon, <1>1, <1>2 DEF Stages, StagesInOrder
<1> QED BY Zenon, <1>4, <1>5, <1>6, <1>7, <1>8, <1>9 DEF ActionInv, ScriptInv, StageInv

(* A line of a script, or the pool.                                        *)
LEMMA ScriptStep ==
  ASSUME ActionInv, NEW t \in Threads, Script(t)
  PROVE  ActionInv'
<1>1. CASE CallbackData(t)
  BY Zenon, <1>1, CallbackDataStep
<1>2. CASE CallbackSend(t)
  BY Zenon, <1>2, CallbackSendStep
<1>3. CASE CallbackNext(t)
  BY Zenon, <1>3, CallbackNextStep
<1>4. CASE GetState(t)
  BY Zenon, <1>4, GetStateStep
<1>5. CASE ClearState(t)
  BY Zenon, <1>5, ClearStateStep
<1>6. CASE ClearDone(t)
  BY Zenon, <1>6, ThreadFacts, WorkerDone, OtherDone
<1>7. CASE Crash(t)
  BY Zenon, <1>7, GcStep
<1> QED BY Zenon, <1>1, <1>2, <1>3, <1>4, <1>5, <1>6, <1>7 DEF Script

(* Every step keeps the scripts, the work and the stages in order.         *)
LEMMA ActionNext ==
  ASSUME ActionInv, [Next]_vars
  PROVE  ActionInv'
<1>1. CASE UNCHANGED vars
  <2>1. UNCHANGED <<pc, pos, scriptVars, armed, data, workVars, devVars, mpc, closed>>
    BY Zenon, <1>1 DEF vars, poolVars, objVars, gcVars
  <2>2. (mpc' # "run" => job[Main] = NoJob) /\ (Running' => closed' = {})
    BY Zenon, <2>1 DEF ActionInv, ScriptInv, Control, Running
  <2> QED BY Zenon, <2>1, <2>2, GcFrame
<1>2. ASSUME NEW p \in Params, event_operator_callback(p) PROVE ActionInv'
  BY Zenon, <1>2, OperatorCallbackStep
<1>3. CASE EventsStep
  <2>1. CASE OperatorScript \/ event_action_run \/ RunObject \/ RunSetId
    BY Zenon, <2>1, OperatorScriptStep, EventActionRunStep, RunObjectStep, RunSetIdStep
  <2>2. CASE RunStartTimer \/ RunTrigger \/ RunUnreg
    BY Zenon, <2>2, RunStartTimerStep, RunTriggerStep, RunUnregStep
  <2>3. CASE Script(Ev)
    BY Zenon, <2>3, ThreadFacts, ScriptStep
  <2> QED BY Zenon, <1>3, <2>1, <2>2, <2>3 DEF EventsStep
<1>4. CASE MainStep
  <2>1. ASSUME NEW o \in Objects, timer_callback(o) PROVE ActionInv'
    BY Zenon, <2>1, TimerCallbackStep
  <2>2. CASE safe_thread_loop \/ thread_free \/ eventpool_gc
    BY Zenon, <2>2, ThreadLoopStep, ThreadFreeStep, EventpoolGcStep
  <2>3. CASE GcState \/ GcUnlock \/ GcGlobal
    BY Zenon, <2>3, GcStep
  <2>4. CASE Script(Main)
    BY Zenon, <2>4, ThreadFacts, ScriptStep
  <2> QED BY Zenon, <1>4, <2>1, <2>2, <2>3, <2>4 DEF MainStep
<1>5. CASE main_gc
  BY Zenon, <1>5, GcStep
<1>6. ASSUME NEW w \in Workers, WorkerStep(w) PROVE ActionInv'
  BY Zenon, <1>6, ThreadFacts, ThreadCallbackStep, ScriptStep DEF WorkerStep
<1> QED BY Zenon, <1>1, <1>2, <1>3, <1>4, <1>5, <1>6 DEF Next

(* The stages of an action reach the device once each and in their order,  *)
(* whatever threads its callbacks run on and however its timers, its work  *)
(* and the end of the daemon interleave, for any number of threads, states *)
(* and actions of any parameters.                                          *)
THEOREM StagesKeepOrder == Spec => []StagesInOrder
<1>1. Init => ActionInv
  BY Zenon, ActionInit
<1>2. ActionInv /\ [Next]_vars => ActionInv'
  BY Zenon, ActionNext
<1>3. ActionInv => StagesInOrder
  BY Zenon DEF ActionInv, StageInv
<1> QED BY <1>1, <1>2, <1>3, PTL DEF Spec
=============================================================================
