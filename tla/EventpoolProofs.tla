-------------------------- MODULE EventpoolProofs --------------------------
(***************************************************************************)
(* Proofs about Eventpool, for any number of reasons, listeners, events    *)
(* and workers: its types, its counters, and the inductive invariant IInv  *)
(* that the delivery of every event rests on.  Every step preserves it,    *)
(* the ones that register a listener, trigger an event and turn the event  *)
(* queue into tasks first, then those that hand out and run the tasks; and *)
(* every step is one of the abstract EventBus, or none.                    *)
(***************************************************************************)
EXTENDS EventpoolInv, EventpoolRefinement, TLAPS

----------------------------------------------------------------------------
(* What the proofs use of Cardinality.  EventpoolTheorems derives it from  *)
(* the finiteness of Listeners and Events; the lemmas here assume it.      *)

Counted(T) ==
  /\ Cardinality({}) = 0
  /\ \A S \in SUBSET T :
       /\ Cardinality(S) \in Nat
       /\ Cardinality(S) = 0 => S = {}
       /\ \A R \in SUBSET S : R # S => Cardinality(R) # Cardinality(S)
       /\ \A x \in S : Cardinality(S \ {x}) = Cardinality(S) - 1
       /\ \A x \in T \ S : Cardinality(S \cup {x}) = Cardinality(S) + 1

CardinalityLaws == Counted(Listeners) /\ Counted(Events)

----------------------------------------------------------------------------
(* Facts about the sequence operations of the model                        *)

(* One less than a count that is not zero.                                 *)
LEMMA OneBelow ==
  \A c \in Nat : \A s : c >= 1 /\ s = c - 1 => s \in Nat /\ (s > 0 <=> c # 1)
  OBVIOUS

(* The first call of done.                                                 *)
LEMMA AfterZero == \A n : n = 0 => n <= 1 /\ n + 1 <= 1 /\ n + 1 = 1
  OBVIOUS

(* A semaphore is initialised for at least one task.                       *)
LEMMA RefSet == \A n \in Nat : n # 0 => n - 1 # NoRef
  BY DEF NoRef

(* What is in a sequence.                                                  *)
LEMMA InSeq ==
  ASSUME NEW S, NEW s \in Seq(S)
  PROVE  \A i \in DOMAIN s : s[i] \in S
  OBVIOUS

LEMMA NoElements == \A i : i \notin DOMAIN <<>>
  OBVIOUS

(* Counting up one entry of a function.                                    *)
LEMMA CountUp ==
  ASSUME NEW S, NEW f \in [S -> Nat], NEW x \in S
  PROVE  [f EXCEPT ![x] = @ + 1] \in [S -> Nat]
  OBVIOUS

(* The positions from the next one on.                                     *)
LEMMA Later ==
  ASSUME NEW i \in Nat, NEW c \in Nat
  PROVE  (i >= c + 1 <=> i >= c /\ i # c) /\ c >= c
  OBVIOUS

(* A part of a sequence.                                                   *)
LEMMA PartOfSeq ==
  ASSUME NEW S, NEW s \in Seq(S), NEW i \in 1..(Len(s) + 1), NEW j \in 0..Len(s)
  PROVE  /\ SubSeq(s, i, j) \in Seq(S)
         /\ i <= j => Len(SubSeq(s, i, j)) = j - i + 1
         /\ i > j => Len(SubSeq(s, i, j)) = 0
         /\ \A k \in 1..(j - i + 1) : SubSeq(s, i, j)[k] = s[i + k - 1]
  OBVIOUS

(* Two sequences one after the other.                                      *)
LEMMA ConcatSeq ==
  ASSUME NEW S, NEW s \in Seq(S), NEW t \in Seq(S)
  PROVE  /\ s \o t \in Seq(S) /\ Len(s \o t) = Len(s) + Len(t)
         /\ \A i \in 1..(Len(s) + Len(t)) :
              (s \o t)[i] = IF i <= Len(s) THEN s[i] ELSE t[i - Len(s)]
  OBVIOUS

(* Removing one element of a sequence without duplicates removes it from   *)
(* the set of its elements, keeps the others and the absence of duplicates.*)
LEMMA RemoveAtProperties ==
  ASSUME NEW S, NEW s \in Seq(S), NEW k \in 1..Len(s),
         \A i, j \in DOMAIN s : s[i] = s[j] => i = j
  PROVE  /\ RemoveAt(s, k) \in Seq(S)
         /\ \A i, j \in DOMAIN RemoveAt(s, k) :
              RemoveAt(s, k)[i] = RemoveAt(s, k)[j] => i = j
         /\ {RemoveAt(s, k)[i] : i \in DOMAIN RemoveAt(s, k)}
              = {s[i] : i \in DOMAIN s} \ {s[k]}
<1> DEFINE a == SubSeq(s, 1, k - 1)
           b == SubSeq(s, k + 1, Len(s))
           r == RemoveAt(s, k)
<1>1. /\ a \in Seq(S) /\ Len(a) = k - 1
      /\ \A i \in 1..(k - 1) : a[i] = s[i]
  BY PartOfSeq
<1>2. /\ b \in Seq(S) /\ Len(b) = Len(s) - k
      /\ \A i \in 1..(Len(s) - k) : b[i] = s[i + k]
  BY PartOfSeq
<1>3. r = a \o b
  BY Zenon DEF RemoveAt
<1> HIDE DEF a, b, r
<1>4. /\ r \in Seq(S) /\ Len(r) = Len(s) - 1
      /\ DOMAIN r = 1..(Len(s) - 1) /\ DOMAIN s = 1..Len(s)
  BY <1>1, <1>2, <1>3, ConcatSeq
<1>8. \A i \in DOMAIN r : r[i] = IF i < k THEN s[i] ELSE s[i + 1]
  <2> SUFFICES ASSUME NEW i \in DOMAIN r PROVE r[i] = IF i < k THEN s[i] ELSE s[i + 1]
    BY Zenon
  <2>1. r[i] = IF i <= Len(a) THEN a[i] ELSE b[i - Len(a)]
    BY <1>1, <1>2, <1>3, <1>4, ConcatSeq
  <2>2. CASE i < k
    BY <1>1, <1>4, <2>1, <2>2
  <2>3. CASE i >= k
    <3>1. i - (k - 1) \in 1..(Len(s) - k)
      BY <1>4, <2>3
    <3>2. b[i - (k - 1)] = s[i - (k - 1) + k]
      BY Zenon, <1>2, <3>1
    <3> QED BY <1>1, <1>4, <2>1, <2>3, <3>2
  <2> QED BY <1>4, <2>2, <2>3
<1>5. \A i, j \in DOMAIN r : r[i] = r[j] => i = j
  <2> SUFFICES ASSUME NEW i \in DOMAIN r, NEW j \in DOMAIN r, r[i] = r[j] PROVE i = j
    BY Zenon
  <2> DEFINE up(n) == IF n < k THEN n ELSE n + 1
  <2>1. up(i) \in DOMAIN s /\ up(j) \in DOMAIN s /\ s[up(i)] = s[up(j)]
    BY <1>4, <1>8
  <2>2. up(i) = up(j)
    BY Zenon, <2>1
  <2> QED BY <1>4, <2>2
<1>6. ASSUME NEW i \in DOMAIN r PROVE r[i] \in {s[j] : j \in DOMAIN s} \ {s[k]}
  <2> DEFINE up == IF i < k THEN i ELSE i + 1
  <2>1. up \in DOMAIN s /\ up # k /\ r[i] = s[up]
    BY <1>4, <1>8
  <2> QED BY Zenon, <1>4, <2>1
<1>7. ASSUME NEW i \in DOMAIN s, s[i] # s[k] PROVE \E j \in DOMAIN r : r[j] = s[i]
  <2>1. CASE i < k
    BY <1>4, <1>8, <2>1
  <2>2. CASE i > k
    <3>1. i - 1 \in DOMAIN r /\ r[i - 1] = s[i]
      BY <1>4, <1>8, <2>2
    <3> QED BY Zenon, <3>1
  <2>3. i # k
    BY Zenon, <1>7
  <2> QED BY <1>4, <2>1, <2>2, <2>3
<1>9. {r[i] : i \in DOMAIN r} = {s[i] : i \in DOMAIN s} \ {s[k]}
  BY <1>6, <1>7
<1> USE DEF r
<1> QED
  BY Zenon, <1>4, <1>5, <1>9

----------------------------------------------------------------------------
(* Sequences without duplicates, seen as sets                              *)

Unique(s) == \A i, j \in DOMAIN s : s[i] = s[j] => i = j
Has(s, x) == \E i \in DOMAIN s : s[i] = x

(* The elements of a sequence are its head and those of its tail.          *)
LEMMA TailElements ==
  ASSUME NEW S, NEW s \in Seq(S), s # <<>>
  PROVE  /\ Head(s) \in S /\ Head(s) = s[1] /\ 1 \in DOMAIN s
         /\ Tail(s) \in Seq(S)
         /\ \A i \in DOMAIN Tail(s) : i + 1 \in DOMAIN s /\ Tail(s)[i] = s[i + 1]
         /\ \A i \in DOMAIN s : i # 1 => i - 1 \in DOMAIN Tail(s) /\ Tail(s)[i - 1] = s[i]
         /\ \A x : Has(s, x) <=> x = Head(s) \/ Has(Tail(s), x)
<1>1. /\ Head(s) \in S /\ Head(s) = s[1] /\ 1 \in DOMAIN s
      /\ Tail(s) \in Seq(S)
  OBVIOUS
<1>2. \A i \in DOMAIN Tail(s) : i + 1 \in DOMAIN s /\ Tail(s)[i] = s[i + 1]
  OBVIOUS
<1>3. \A i \in DOMAIN s : i # 1 => i - 1 \in DOMAIN Tail(s) /\ Tail(s)[i - 1] = s[i]
  OBVIOUS
<1>4. ASSUME NEW x PROVE Has(s, x) <=> x = Head(s) \/ Has(Tail(s), x)
  <2>1. ASSUME Has(s, x), x # Head(s) PROVE Has(Tail(s), x)
    BY Zenon, <1>1, <1>3, <2>1 DEF Has
  <2>2. ASSUME Has(Tail(s), x) PROVE Has(s, x)
    BY Zenon, <1>2, <2>2 DEF Has
  <2>3. Has(s, Head(s))
    BY Zenon, <1>1 DEF Has
  <2> QED BY Zenon, <2>1, <2>2, <2>3
<1> QED BY Zenon, <1>1, <1>2, <1>3, <1>4

(* The head of a sequence without duplicates is not in its tail.           *)
LEMMA TailUnique ==
  ASSUME NEW S, NEW s \in Seq(S), s # <<>>, Unique(s)
  PROVE  Unique(Tail(s)) /\ ~Has(Tail(s), Head(s))
<1>1. /\ Head(s) = s[1] /\ 1 \in DOMAIN s
      /\ \A i \in DOMAIN Tail(s) : i + 1 \in DOMAIN s /\ Tail(s)[i] = s[i + 1]
  BY Zenon, TailElements
<1>2. \A i \in DOMAIN Tail(s) : i \in Nat /\ i # 0
  OBVIOUS
<1>3. Unique(Tail(s))
  <2> SUFFICES ASSUME NEW i \in DOMAIN Tail(s), NEW j \in DOMAIN Tail(s), Tail(s)[i] = Tail(s)[j]
               PROVE  i = j
    BY Zenon DEF Unique
  <2>1. i + 1 = j + 1
    BY <1>1 DEF Unique
  <2> QED BY <1>2, <2>1
<1>4. ~Has(Tail(s), Head(s))
  <2> SUFFICES ASSUME NEW i \in DOMAIN Tail(s), Tail(s)[i] = Head(s) PROVE FALSE
    BY Zenon DEF Has
  <2>1. i + 1 = 1
    BY Zenon, <1>1 DEF Unique
  <2> QED BY <1>2, <2>1
<1> QED BY Zenon, <1>3, <1>4

(* Appending adds one element.                                             *)
LEMMA AppendElements ==
  ASSUME NEW S, NEW s \in Seq(S), NEW y \in S
  PROVE  /\ Append(s, y) \in Seq(S) /\ Append(s, y) # <<>>
         /\ \A i \in DOMAIN s : i \in DOMAIN Append(s, y) /\ Append(s, y)[i] = s[i]
         /\ Len(s) + 1 \in DOMAIN Append(s, y) /\ Append(s, y)[Len(s) + 1] = y
         /\ \A i \in DOMAIN Append(s, y) : i \in DOMAIN s \/ i = Len(s) + 1
         /\ \A x : Has(Append(s, y), x) <=> x = y \/ Has(s, x)
         /\ Unique(s) /\ ~Has(s, y) => Unique(Append(s, y))
<1> DEFINE a == Append(s, y)
<1>1. /\ a \in Seq(S) /\ a # <<>> /\ Len(s) + 1 \in DOMAIN a /\ a[Len(s) + 1] = y
      /\ \A i \in DOMAIN s : i \in DOMAIN a /\ a[i] = s[i]
      /\ \A i \in DOMAIN a : i \in DOMAIN s \/ i = Len(s) + 1
  OBVIOUS
<1> HIDE DEF a
<1>2. \A x : Has(a, x) <=> x = y \/ Has(s, x)
  BY Zenon, <1>1 DEF Has
<1>3. Unique(s) /\ ~Has(s, y) => Unique(a)
  BY Zenon, <1>1 DEF Has, Unique
<1> QED BY Zenon, <1>1, <1>2, <1>3 DEF a

(* Appending something new keeps a sequence free of duplicates.            *)
LEMMA AppendUnique ==
  ASSUME NEW S, NEW s \in Seq(S), NEW y \in S, Unique(s), ~Has(s, y)
  PROVE  Unique(Append(s, y))
  BY Zenon, AppendElements

(* The positions of a sequence.                                            *)
LEMMA Positions ==
  ASSUME NEW S, NEW s \in Seq(S)
  PROVE  /\ Len(s) \in Nat
         /\ \A i : i \in DOMAIN s <=> i \in Nat /\ 1 <= i /\ i <= Len(s)
         /\ \A i \in DOMAIN s : s[i] \in S
  OBVIOUS

(* Appending to the second of two concatenated sequences.                  *)
LEMMA ConcatAppend ==
  ASSUME NEW S, NEW s \in Seq(S), NEW t \in Seq(S), NEW x \in S
  PROVE  s \o Append(t, x) = Append(s \o t, x)
<1>1. Append(t, x) = t \o <<x>> /\ <<x>> \in Seq(S) /\ s \o t \in Seq(S)
  OBVIOUS
<1>2. Append(s \o t, x) = (s \o t) \o <<x>>
  BY <1>1
<1> QED BY <1>1, <1>2

(* Moving the head of the second of two concatenated sequences to the end  *)
(* of the first.                                                           *)
LEMMA ConcatMove ==
  ASSUME NEW S, NEW s \in Seq(S), NEW t \in Seq(S), t # <<>>
  PROVE  Append(s, Head(t)) \o Tail(t) = s \o t
<1>1. /\ Head(t) \in S /\ Tail(t) \in Seq(S) /\ <<Head(t)>> \in Seq(S)
  OBVIOUS
<1>2. Append(s, Head(t)) = s \o <<Head(t)>>
  BY <1>1
<1>3. <<Head(t)>> \o Tail(t) = t
  OBVIOUS
<1> QED BY <1>1, <1>2, <1>3

----------------------------------------------------------------------------
(* Types and control                                                       *)

TypeControl == TypeOK /\ ControlInv

(* The event pool starts with right types and control.                     *)
LEMMA TypeControlInit == Init => TypeControl
  BY EventpoolConstants
  DEF Init, TypeControl, TypeOK, ControlInv, Threaded, NoThreads, NoRef

(* What the heads of the queues and the task of a busy worker are.         *)
LEMMA Elements ==
  ASSUME TypeOK, ControlInv
  PROVE  /\ eventqueue # <<>> =>
              /\ Head(eventqueue) \in Events /\ Tail(eventqueue) \in Seq(Events)
              /\ evreason[Head(eventqueue)] \in Reasons
         /\ nodes # <<>> =>
              /\ Head(nodes) \in Tasks /\ Tail(nodes) \in Seq(Tasks)
              /\ evreason[Head(nodes).ev] \in Reasons
         /\ wq # <<>> => Head(wq) \in Tasks /\ Tail(wq) \in Seq(Tasks)
         /\ \A t \in Tasks : t.ev \in Events /\ t.lis \in Listeners
<1>1. \A t \in Tasks : t.ev \in Events /\ t.lis \in Listeners
  BY Zenon DEF Tasks
<1>2. ASSUME eventqueue # <<>>
      PROVE  /\ Head(eventqueue) \in Events /\ Tail(eventqueue) \in Seq(Events)
             /\ evreason[Head(eventqueue)] \in Reasons
  BY <1>2 DEF TypeOK, ControlInv
<1>3. ASSUME nodes # <<>>
      PROVE  /\ Head(nodes) \in Tasks /\ Tail(nodes) \in Seq(Tasks)
             /\ evreason[Head(nodes).ev] \in Reasons
  BY <1>3 DEF TypeOK, ControlInv
<1>4. ASSUME wq # <<>> PROVE Head(wq) \in Tasks /\ Tail(wq) \in Seq(Tasks)
  BY <1>4 DEF TypeOK
<1> QED BY Zenon, <1>1, <1>2, <1>3, <1>4

(* Every step of the event pool preserves types and control.               *)
LEMMA TypeControlNext ==
  ASSUME CardinalityLaws
  PROVE  TypeControl /\ [Next]_vars => TypeControl'
<1> SUFFICES ASSUME TypeOK, ControlInv, [Next]_vars PROVE TypeOK' /\ ControlInv'
  BY Zenon DEF TypeControl
<1> USE EventpoolConstants DEF initVars, busVars, triggerVars, mainVars, workVars
<1>0. /\ eventqueue # <<>> =>
           /\ Head(eventqueue) \in Events /\ Tail(eventqueue) \in Seq(Events)
           /\ evreason[Head(eventqueue)] \in Reasons
      /\ nodes # <<>> =>
           /\ Head(nodes) \in Tasks /\ Tail(nodes) \in Seq(Tasks)
           /\ evreason[Head(nodes).ev] \in Reasons
      /\ wq # <<>> => Head(wq) \in Tasks /\ Tail(wq) \in Seq(Tasks)
      /\ \A t \in Tasks : t.ev \in Events /\ t.lis \in Listeners
  BY Zenon, Elements
<1>1. ASSUME NEW l \in Listeners, NEW r \in Reasons, AddListener(l, r)
      PROVE  TypeOK' /\ ControlInv'
  <2>0. /\ lreason' \in [Listeners -> Reasons \cup {Unset}]
        /\ nrlisteners' \in [Reasons -> Int]
        /\ listeners' \in Seq(Listeners)
        /\ churned' \in SUBSET Events
    BY <1>1, SMTT(30) DEF AddListener, Churn, TypeOK
  <2>1. TypeOK'
    BY <1>1, <2>0, SMTT(30) DEF AddListener, TypeOK
  <2>2. ControlInv'
    BY <1>1, SMTT(30) DEF AddListener, ControlInv, TypeOK
  <2> QED BY Zenon, <2>1, <2>2
<1>2. ASSUME NEW i \in 1..Len(listeners), RemoveListener(i)
      PROVE  TypeOK' /\ ControlInv'
  <2> DEFINE a == SubSeq(listeners, 1, i - 1)
             b == SubSeq(listeners, i + 1, Len(listeners))
  <2>1. /\ a \in Seq(Listeners) /\ Len(a) = i - 1
        /\ b \in Seq(Listeners) /\ Len(b) = Len(listeners) - i
        /\ \A j \in 1..Len(a) : a[j] = listeners[j]
        /\ \A j \in 1..Len(b) : b[j] = listeners[j + i]
    <3>1. listeners \in Seq(Listeners) /\ i \in 1..Len(listeners)
      BY Zenon DEF TypeOK
    <3>2. /\ a \in Seq(Listeners) /\ Len(a) = i - 1
          /\ \A j \in 1..Len(a) : a[j] = listeners[j]
      BY <3>1, PartOfSeq
    <3>3. /\ b \in Seq(Listeners) /\ Len(b) = Len(listeners) - i
          /\ \A j \in 1..(Len(listeners) - i) : b[j] = listeners[j + i]
      BY <3>1, PartOfSeq
    <3> QED BY Zenon, <3>2, <3>3
  <2>2. listeners' = a \o b
    BY Zenon, <1>2 DEF RemoveListener, RemoveAt
  <2> HIDE DEF a, b
  <2>3. listeners' \in Seq(Listeners)
    BY Zenon, <2>1, <2>2, ConcatSeq
  <2>4. \A j \in DOMAIN listeners' : lreason[listeners'[j]] \in Reasons
    <3> SUFFICES ASSUME NEW j \in DOMAIN listeners'
                 PROVE  \E k \in DOMAIN listeners : listeners'[j] = listeners[k]
      BY Zenon DEF ControlInv
    <3>1. /\ j \in 1..(Len(a) + Len(b))
          /\ listeners'[j] = IF j <= Len(a) THEN a[j] ELSE b[j - Len(a)]
      BY <2>1, <2>2, ConcatSeq
    <3>2. CASE j <= Len(a)
      BY <2>1, <3>1, <3>2, SMTT(30) DEF TypeOK
    <3>3. CASE j > Len(a)
      <4>1. j - Len(a) \in 1..Len(b) /\ j - Len(a) + i \in DOMAIN listeners
        BY <2>1, <3>1, <3>3, SMTT(30) DEF TypeOK
      <4> QED BY <2>1, <3>1, <3>3, <4>1, SMTT(30)
    <3> QED BY <2>1, <3>1, <3>2, <3>3
  <2>5. lreason[listeners[i]] \in Reasons
    <3>1. listeners \in Seq(Listeners)
      BY Zenon DEF TypeOK
    <3>2. i \in DOMAIN listeners
      BY <3>1
    <3> QED BY Zenon, <3>2 DEF ControlInv
  <2>6. nrlisteners' \in [Reasons -> Int] /\ churned' \in SUBSET Events
    BY <1>2, <2>5 DEF RemoveListener, Churn, TypeOK
  <2>7. TypeOK'
    BY Zenon, <1>2, <2>3, <2>6 DEF RemoveListener, TypeOK
  <2>8. ControlInv'
    BY Zenon, <1>2, <2>4 DEF RemoveListener, ControlInv
  <2> QED BY Zenon, <2>7, <2>8
<1>3. ASSUME NEW e \in Events, NEW r \in Reasons, TriggerCheck(e, r)
      PROVE  TypeOK' /\ ControlInv'
  <2>1. TypeOK'
    BY Zenon, <1>3 DEF TriggerCheck, TypeOK
  <2>2. \A x \in Events : evreason[x] \in Reasons => evreason'[x] \in Reasons
    BY Zenon, <1>3 DEF TriggerCheck, TypeOK
  <2>3. ControlInv'
    BY <1>0, <1>3, <2>2, SMTT(30) DEF TriggerCheck, ControlInv, TypeOK
  <2> QED BY Zenon, <2>1, <2>3
<1>4. ASSUME NEW e \in Events, TriggerAppend(e) PROVE TypeOK' /\ ControlInv'
  <2>1. Cardinality({x \in Events : stamp[x] > 0}) \in Nat
    BY Zenon DEF CardinalityLaws, Counted
  <2>2. TypeOK'
    BY <1>4, <2>1, SMTT(30) DEF TriggerAppend, TypeOK
  <2>3. /\ eventqueue \in Seq(Events) /\ eventqueue' = Append(eventqueue, e)
        /\ evreason[e] \in Reasons
    BY Zenon, <1>4 DEF TriggerAppend, ControlInv, TypeOK
  <2>4. \A i \in DOMAIN eventqueue' : evreason[eventqueue'[i]] \in Reasons
    <3>1. \A i \in DOMAIN eventqueue : evreason[eventqueue[i]] \in Reasons
      BY Zenon DEF ControlInv
    <3> QED BY <2>3, <3>1
  <2>5. \A x \in Events : tpc'[x] # "new" => tpc[x] # "new"
    BY Zenon, <1>4 DEF TriggerAppend, TypeOK
  <2>6. eventqueue' # <<>>
    BY <2>3
  <2>7. ControlInv'
    BY Zenon, <1>4, <2>4, <2>5, <2>6 DEF TriggerAppend, ControlInv
  <2> QED BY Zenon, <2>2, <2>7
<1>5. ASSUME NEW e \in Events, TriggerAbort(e) PROVE TypeOK' /\ ControlInv'
  BY Zenon, <1>5 DEF TriggerAbort, TypeOK, ControlInv
<1>6. ASSUME NEW e \in Events, TriggerSend(e) PROVE TypeOK' /\ ControlInv'
  BY Zenon, <1>6 DEF TriggerSend, TypeOK, ControlInv
<1>7. CASE ExecuteBegin
  BY Zenon, <1>7 DEF ExecuteBegin, TypeOK, ControlInv
<1>8. CASE DrainIdle
  <2> DEFINE e == Head(eventqueue)
  <2>1. ndone' \in [Events -> Nat]
    <3>1. ndone \in [Events -> Nat] /\ e \in Events
      BY Zenon, <1>0, <1>8 DEF DrainIdle, TypeOK
    <3>2. ndone' = [ndone EXCEPT ![e] = @ + 1]
      BY Zenon, <1>8 DEF DrainIdle, Done
    <3> HIDE DEF e
    <3> QED BY <3>1, <3>2
  <2>2. TypeOK'
    BY Zenon, <1>0, <1>8, <2>1 DEF DrainIdle, TypeOK
  <2>3. \A i \in DOMAIN eventqueue' : evreason[eventqueue'[i]] \in Reasons
    <3>1. eventqueue \in Seq(Events) /\ eventqueue # <<>> /\ eventqueue' = Tail(eventqueue)
      BY Zenon, <1>8 DEF DrainIdle, TypeOK
    <3>2. \A i \in DOMAIN eventqueue : evreason[eventqueue[i]] \in Reasons
      BY Zenon DEF ControlInv
    <3> QED BY <3>1, <3>2
  <2>4. ControlInv'
    BY Zenon, <1>8, <2>3 DEF DrainIdle, ControlInv
  <2> QED BY Zenon, <2>2, <2>4
<1>9. CASE DrainEvent
  <2> DEFINE e == Head(eventqueue)
  <2>1. e \in Events /\ evreason[e] \in Reasons
    BY Zenon, <1>0, <1>9 DEF DrainEvent
  <2>2. Matching(evreason[e]) \in SUBSET Listeners
    BY DEF Matching, Registered, TypeOK
  <2>3. RefInit(nrlisteners[evreason[e]]) \in Int
    BY <2>1 DEF RefInit, NoRef, TypeOK
  <2>4. ndone' \in [Events -> Nat]
    <3>1. ndone \in [Events -> Nat]
      BY Zenon DEF TypeOK
    <3>2. ndone' = ndone \/ ndone' = [ndone EXCEPT ![e] = @ + 1]
      BY Zenon, <1>9 DEF DrainEvent, Done
    <3> HIDE DEF e
    <3> QED BY <2>1, <3>1, <3>2
  <2>5. sem' \in [Events -> Int] /\ snap' \in [Events -> SUBSET Listeners]
    BY Zenon, <1>9, <2>1, <2>2, <2>3 DEF DrainEvent, TypeOK
  <2>6. TypeOK'
    <3>1. /\ mpc' = "walk" /\ cur' = 1
          /\ UNCHANGED <<initVars, busVars, eventqueue, async, triggerVars, nodes,
                         nrlisteners1, locked, wq, workVars, freed, runs, churned>>
      BY Zenon, <1>9 DEF DrainEvent
    <3> QED BY <2>4, <2>5, <3>1 DEF TypeOK
  <2>7. ControlInv'
    BY Zenon, <1>9 DEF DrainEvent, ControlInv
  <2> QED BY Zenon, <2>6, <2>7
<1>10. CASE WalkListener
  <2> DEFINE t == [ev |-> Head(eventqueue), lis |-> listeners[cur]]
  <2>1. eventqueue # <<>>
    BY Zenon, <1>10 DEF WalkListener, ControlInv
  <2>2. listeners[cur] \in Listeners
    BY <1>10 DEF WalkListener, TypeOK
  <2>3. t \in Tasks /\ evreason[t.ev] \in Reasons
    BY Zenon, <1>0, <2>1, <2>2 DEF Tasks
  <2>4. nodes' = nodes \/ nodes' = Append(nodes, t)
    BY Zenon, <1>10 DEF WalkListener
  <2> HIDE DEF t
  <2>5. nodes' \in Seq(Tasks) /\ cur' \in Nat \ {0}
    <3>1. nodes \in Seq(Tasks) /\ cur \in Nat \ {0} /\ cur' = cur + 1
      BY Zenon, <1>10 DEF WalkListener, TypeOK
    <3> QED BY <2>3, <2>4, <3>1
  <2>6. TypeOK'
    BY Zenon, <1>10, <2>5 DEF WalkListener, TypeOK
  <2>7. \A i \in DOMAIN nodes' : evreason[nodes'[i].ev] \in Reasons
    <3>1. nodes \in Seq(Tasks) /\ \A i \in DOMAIN nodes : evreason[nodes[i].ev] \in Reasons
      BY Zenon DEF TypeOK, ControlInv
    <3> QED BY <2>3, <2>4, <3>1
  <2>8. ControlInv'
    BY Zenon, <1>10, <2>7 DEF WalkListener, ControlInv
  <2> QED BY Zenon, <2>6, <2>8
<1>11. CASE WalkEnd
  <2>1. eventqueue # <<>> /\ eventqueue \in Seq(Events) /\ eventqueue' = Tail(eventqueue)
    BY Zenon, <1>11 DEF WalkEnd, ControlInv, TypeOK
  <2>2. TypeOK'
    BY Zenon, <1>0, <1>11, <2>1 DEF WalkEnd, TypeOK
  <2>3. \A i \in DOMAIN eventqueue' : evreason[eventqueue'[i]] \in Reasons
    <3>1. \A i \in DOMAIN eventqueue : evreason[eventqueue[i]] \in Reasons
      BY Zenon DEF ControlInv
    <3> QED BY <2>1, <3>1
  <2>4. ControlInv'
    BY Zenon, <1>11, <2>3 DEF WalkEnd, ControlInv
  <2> QED BY Zenon, <2>2, <2>4
<1>12. CASE DrainEnd
  BY <1>12, SMTT(30) DEF DrainEnd, TypeOK, ControlInv
<1>13. CASE Dispatch
  <2>0. wq' \in Seq(Tasks) /\ nodes' \in Seq(Tasks)
    <3>1. wq \in Seq(Tasks) /\ wq' = Append(wq, Head(nodes)) /\ nodes' = Tail(nodes)
      BY Zenon, <1>13 DEF Dispatch, TypeOK
    <3>2. Head(nodes) \in Tasks /\ Tail(nodes) \in Seq(Tasks)
      BY Zenon, <1>0, <1>13 DEF Dispatch
    <3> QED BY <3>1, <3>2
  <2>1. TypeOK'
    BY Zenon, <1>13, <2>0 DEF Dispatch, TypeOK
  <2>2. ControlInv'
    <3>1. nodes \in Seq(Tasks)
      BY Zenon DEF TypeOK
    <3>2. \A i \in DOMAIN Tail(nodes) : i + 1 \in DOMAIN nodes /\ Tail(nodes)[i] = nodes[i + 1]
      BY Zenon, <1>13, <3>1, TailElements DEF Dispatch
    <3>3. \A i \in DOMAIN nodes' : evreason[nodes'[i].ev] \in Reasons
      BY Zenon, <1>13, <3>2 DEF Dispatch, ControlInv
    <3> QED BY Zenon, <1>13, <3>3 DEF Dispatch, ControlInv
  <2> QED BY Zenon, <2>1, <2>2
<1>14. CASE SyncRun
  <2> DEFINE t == Head(nodes)
  <2>0. t.ev \in Events /\ t.lis \in Listeners /\ evreason[t.ev] \in Reasons
    BY Zenon, <1>0, <1>14 DEF SyncRun
  <2>5. /\ runs \in [Events -> [Listeners -> Nat]] /\ nrlisteners1 \in [Reasons -> Nat]
        /\ runs' = [runs EXCEPT ![t.ev][t.lis] = @ + 1]
        /\ nrlisteners1' = [nrlisteners1 EXCEPT ![evreason[t.ev]] = @ + 1]
    BY Zenon, <1>14 DEF SyncRun, Run, TypeOK
  <2> HIDE DEF t
  <2>1. runs' \in [Events -> [Listeners -> Nat]]
    BY <2>0, <2>5
  <2>2. nrlisteners1' \in [Reasons -> Nat]
    BY <2>0, <2>5
  <2>3. TypeOK'
    BY Zenon, <1>14, <2>1, <2>2 DEF SyncRun, TypeOK
  <2>4. ControlInv'
    BY Zenon, <1>14 DEF SyncRun, ControlInv
  <2> QED BY Zenon, <2>3, <2>4
<1>15. CASE SyncCount
  <2>1. nodes # <<>>
    BY Zenon, <1>15 DEF SyncCount, ControlInv
  <2> DEFINE t == Head(nodes)
  <2>0. t.ev \in Events /\ evreason[t.ev] \in Reasons
    BY Zenon, <1>0, <2>1
  <2>5. /\ ndone \in [Events -> Nat] /\ nrlisteners1 \in [Reasons -> Nat]
        /\ ndone' = ndone \/ ndone' = [ndone EXCEPT ![t.ev] = @ + 1]
        /\ \/ nrlisteners1' = nrlisteners1
           \/ nrlisteners1' = [nrlisteners1 EXCEPT ![evreason[t.ev]] = 0]
    BY Zenon, <1>15 DEF SyncCount, Done, TypeOK
  <2> HIDE DEF t
  <2>2. ndone' \in [Events -> Nat] /\ nrlisteners1' \in [Reasons -> Nat]
    BY <2>0, <2>5
  <2>3. TypeOK'
    BY Zenon, <1>0, <1>15, <2>1, <2>2 DEF SyncCount, TypeOK
  <2>4. ControlInv'
    BY <1>15, <2>1, SMTT(30) DEF SyncCount, ControlInv, TypeOK
  <2> QED BY Zenon, <2>3, <2>4
<1>16. CASE ExecuteEnd
  BY Zenon, <1>16 DEF ExecuteEnd, TypeOK, ControlInv
<1>17. ASSUME NEW w \in Workers, WorkerTake(w) PROVE TypeOK' /\ ControlInv'
  <2>1. TypeOK'
    BY Zenon, <1>0, <1>17 DEF WorkerTake, TypeOK
  <2>2. ControlInv'
    BY Zenon, <1>0, <1>17 DEF WorkerTake, TypeOK, ControlInv
  <2> QED BY Zenon, <2>1, <2>2
<1>18. ASSUME NEW w \in Workers, FibFunc(w) PROVE TypeOK' /\ ControlInv'
  <2>1. wtask[w] \in Tasks
    BY Zenon, <1>18 DEF FibFunc, ControlInv
  <2>2. runs' \in [Events -> [Listeners -> Nat]]
    <3>1. wtask[w].ev \in Events /\ wtask[w].lis \in Listeners
      BY <2>1 DEF Tasks
    <3>2. runs \in [Events -> [Listeners -> Nat]]
      BY Zenon DEF TypeOK
    <3>3. runs' = [runs EXCEPT ![wtask[w].ev][wtask[w].lis] = @ + 1]
      BY Zenon, <1>18 DEF FibFunc, Run
    <3> QED BY <3>1, <3>2, <3>3
  <2>3. TypeOK'
    BY Zenon, <1>18, <2>2 DEF FibFunc, TypeOK
  <2>4. ControlInv'
    BY Zenon, <1>18, <2>1 DEF FibFunc, ControlInv, TypeOK
  <2> QED BY Zenon, <2>3, <2>4
<1>19. ASSUME NEW w \in Workers, FibTrywait(w) PROVE TypeOK' /\ ControlInv'
  <2>1. wtask[w] \in Tasks
    BY Zenon, <1>19 DEF FibTrywait, ControlInv
  <2>2. /\ sem' \in [Events -> Int]
        /\ wpc' \in [Workers -> {"idle", "func", "trywait", "done"}]
        /\ wtask' \in [Workers -> Tasks \cup {NoTask}]
    <3> DEFINE e == wtask[w].ev
    <3>1. e \in Events
      BY Zenon, <1>0, <2>1
    <3>2. /\ sem \in [Events -> Int]
          /\ wpc \in [Workers -> {"idle", "func", "trywait", "done"}]
          /\ wtask \in [Workers -> Tasks \cup {NoTask}]
          /\ sem' = sem \/ sem' = [sem EXCEPT ![e] = @ - 1]
          /\ \/ wpc' = [wpc EXCEPT ![w] = "idle"]
             \/ wpc' = [wpc EXCEPT ![w] = "done"]
          /\ wtask' = wtask \/ wtask' = [wtask EXCEPT ![w] = NoTask]
      BY Zenon, <1>19 DEF FibTrywait, TypeOK
    <3> HIDE DEF e
    <3> QED BY <3>1, <3>2
  <2>3. TypeOK'
    BY Zenon, <1>19, <2>2 DEF FibTrywait, TypeOK
  <2>4. \A u \in Workers : wpc'[u] # "idle" => wtask'[u] \in Tasks
    BY Zenon, <1>19, <2>1 DEF FibTrywait, ControlInv, TypeOK
  <2>5. ControlInv'
    BY Zenon, <1>19, <2>4 DEF FibTrywait, ControlInv
  <2> QED BY Zenon, <2>3, <2>5
<1>20. ASSUME NEW w \in Workers, FibDone(w) PROVE TypeOK' /\ ControlInv'
  <2>1. wtask[w] \in Tasks
    BY Zenon, <1>20 DEF FibDone, ControlInv
  <2>2. ndone' \in [Events -> Nat] /\ freed' \in SUBSET Events
    <3>1. wtask[w].ev \in Events
      BY <2>1 DEF Tasks
    <3>2. ndone \in [Events -> Nat] /\ freed \in SUBSET Events
      BY Zenon DEF TypeOK
    <3>3. /\ ndone' = [ndone EXCEPT ![wtask[w].ev] = @ + 1]
          /\ freed' = freed \cup {wtask[w].ev}
      BY Zenon, <1>20 DEF FibDone, Done
    <3>4. ndone' \in [Events -> Nat]
      BY Zenon, <3>1, <3>2, <3>3, CountUp
    <3> QED BY Zenon, <3>1, <3>2, <3>3, <3>4
  <2>3. TypeOK'
    BY Zenon, <1>20, <2>2 DEF FibDone, TypeOK
  <2>4. ControlInv'
    BY Zenon, <1>20, <2>1 DEF FibDone, ControlInv, TypeOK
  <2> QED BY Zenon, <2>3, <2>4
<1>21. CASE GcClear
  <2>1. ndone' \in [Events -> Nat] /\ listeners' \in Seq(Listeners) /\ eventqueue' \in Seq(Events)
    BY <1>21, SMTT(30) DEF GcClear, TypeOK
  <2>2. TypeOK'
    BY <1>21, <2>1, SMTT(30) DEF GcClear, NoThreads, TypeOK
  <2>3. ControlInv'
    BY <1>21, SMTT(30) DEF GcClear, ControlInv, TypeOK
  <2> QED BY Zenon, <2>2, <2>3
<1>22. CASE GcEnd
  BY Zenon, <1>22 DEF GcEnd, TypeOK, ControlInv
<1>23. CASE UNCHANGED vars
  BY <1>23, SMTT(30) DEF vars, TypeOK, ControlInv
<1> QED
  BY Zenon, <1>1, <1>2, <1>3, <1>4, <1>5, <1>6, <1>7, <1>8, <1>9, <1>10, <1>11, <1>12,
     <1>13, <1>14, <1>15, <1>16, <1>17, <1>18, <1>19, <1>20, <1>21, <1>22, <1>23
  DEF Next, Register, Trigger, Execute, Gc, Fib

----------------------------------------------------------------------------
(* No event is stranded                                                    *)

(* No step leaves a queued event without a wake-up of the main loop.       *)
LEMMA NoStrandedNext == TypeOK /\ NoStrandedEvent /\ [Next]_vars => NoStrandedEvent'
<1> SUFFICES ASSUME TypeOK, NoStrandedEvent, [Next]_vars, eventqueue' # <<>>
             PROVE  \/ mpc' \in {"drain", "walk", "dispatch", "count"}
                    \/ async' = 1
                    \/ \E e \in Events : tpc'[e] = "send"
  BY Zenon DEF NoStrandedEvent
<1> USE DEF initVars, busVars, triggerVars, mainVars, workVars
<1>1. CASE UNCHANGED <<eventqueue, mpc, async, tpc>>
  BY Zenon, <1>1 DEF NoStrandedEvent
<1>2. ASSUME NEW e \in Events, NEW r \in Reasons, TriggerCheck(e, r)
      PROVE  UNCHANGED <<eventqueue, mpc, async>> /\ \A x \in Events :
               tpc[x] = "send" => tpc'[x] = "send"
  BY Zenon, <1>2 DEF TriggerCheck, TypeOK
<1>3. ASSUME NEW e \in Events, TriggerAppend(e) PROVE tpc'[e] = "send"
  BY Zenon, <1>3 DEF TriggerAppend, TypeOK
<1>4. ASSUME NEW e \in Events, TriggerSend(e) PROVE async' = 1
  BY Zenon, <1>4 DEF TriggerSend
<1>5. ASSUME DrainIdle \/ DrainEvent \/ WalkListener \/ WalkEnd \/ DrainEnd \/ Dispatch
             \/ SyncRun \/ SyncCount \/ ExecuteBegin
      PROVE  mpc' \in {"drain", "walk", "dispatch", "count"}
  BY Zenon, <1>5 DEF DrainIdle, DrainEvent, WalkListener, WalkEnd, DrainEnd, Dispatch,
              SyncRun, SyncCount, ExecuteBegin
<1>6. ASSUME ExecuteEnd PROVE async' = 1
  BY Zenon, <1>6 DEF ExecuteEnd
<1>7. CASE GcClear
  BY Zenon, <1>7 DEF GcClear
<1>8. CASE GcEnd
  BY Zenon, <1>8 DEF GcEnd, NoStrandedEvent
<1>9. ASSUME NEW l \in Listeners, NEW r \in Reasons, AddListener(l, r)
      PROVE  UNCHANGED <<eventqueue, mpc, async, tpc>>
  BY Zenon, <1>9 DEF AddListener
<1>10. ASSUME NEW i \in 1..Len(listeners), RemoveListener(i)
       PROVE  UNCHANGED <<eventqueue, mpc, async, tpc>>
  BY Zenon, <1>10 DEF RemoveListener
<1>11. ASSUME NEW e \in Events, TriggerAbort(e) PROVE UNCHANGED <<eventqueue, mpc, async, tpc>>
  BY Zenon, <1>11 DEF TriggerAbort
<1>12. ASSUME NEW w \in Workers, WorkerTake(w) \/ FibFunc(w) \/ FibTrywait(w) \/ FibDone(w)
       PROVE  UNCHANGED <<eventqueue, mpc, async, tpc>>
  BY Zenon, <1>12 DEF WorkerTake, FibFunc, FibTrywait, FibDone
<1>13. CASE UNCHANGED vars
  BY Zenon, <1>1, <1>13 DEF vars
<1>14. CASE \E e \in Events, r \in Reasons : TriggerCheck(e, r)
  BY Zenon, <1>2, <1>14 DEF NoStrandedEvent
<1>15. CASE Register
  BY Zenon, <1>1, <1>9, <1>10, <1>15 DEF Register
<1>16. CASE \E e \in Events : TriggerAppend(e) \/ TriggerAbort(e) \/ TriggerSend(e)
  BY Zenon, <1>1, <1>3, <1>4, <1>11, <1>16
<1>17. CASE Execute
  BY Zenon, <1>5, <1>6, <1>17 DEF Execute
<1>18. CASE \E w \in Workers : WorkerTake(w) \/ Fib(w)
  BY Zenon, <1>1, <1>12, <1>18 DEF Fib
<1> QED
  BY Zenon, <1>7, <1>8, <1>13, <1>14, <1>15, <1>16, <1>17, <1>18 DEF Next, Trigger, Gc

----------------------------------------------------------------------------
(* The counters agree with the list                                        *)

(* The list of listeners starts empty, with its counters at zero.          *)
LEMMA ListInit ==
  ASSUME CardinalityLaws
  PROVE  Init => ListInv
<1> SUFFICES ASSUME Init PROVE ListInv
  BY Zenon
<1>1. listeners = <<>> /\ nrlisteners = [r \in Reasons |-> 0]
  BY Zenon DEF Init
<1>2. \A r \in Reasons : Matching(r) = {}
  BY <1>1 DEF Matching, Registered
<1>3. Cardinality({}) = 0
  BY Zenon DEF CardinalityLaws, Counted
<1>4. CountMatchesList
  BY Zenon, <1>1, <1>2, <1>3 DEF CountMatchesList
<1>5. \A i, j \in DOMAIN listeners : listeners[i] = listeners[j] => i = j
  BY <1>1
<1> QED BY Zenon, <1>4, <1>5 DEF ListInv

(* eventpool_callback keeps the list free of duplicates and counted.       *)
LEMMA AddListenerList ==
  ASSUME CardinalityLaws, TypeControl, ListInv, NEW l \in Listeners, NEW r \in Reasons, AddListener(l, r)
  PROVE  /\ ListInv' /\ Registered' = Registered \cup {l}
         /\ \A q \in Reasons \ {r} : Matching(q)' = Matching(q)
<1> USE DEF TypeControl
<1>1. /\ listeners \in Seq(Listeners) /\ lreason \in [Listeners -> Reasons \cup {Unset}]
      /\ nrlisteners \in [Reasons -> Int]
      /\ listeners' = <<l>> \o listeners
      /\ lreason' = [lreason EXCEPT ![l] = r]
      /\ nrlisteners' = [nrlisteners EXCEPT ![r] = @ + 1]
  BY Zenon DEF AddListener, TypeOK
<1>2. l \notin Registered
  BY Zenon, EventpoolConstants DEF AddListener, ControlInv, Registered
<1>3. /\ <<l>> \in Seq(Listeners) /\ Len(<<l>>) = 1 /\ <<l>>[1] = l
  OBVIOUS
<1>4. /\ Len(listeners') = Len(listeners) + 1 /\ listeners' \in Seq(Listeners)
      /\ \A i \in DOMAIN listeners' :
           listeners'[i] = IF i = 1 THEN l ELSE listeners[i - 1]
  BY <1>1, <1>3, ConcatSeq, SMTT(30)
<1>5. \A i \in DOMAIN listeners' : i # 1 => i - 1 \in DOMAIN listeners
  BY <1>1, <1>4, SMTT(30)
<1>6. \A i, j \in DOMAIN listeners' : listeners'[i] = listeners'[j] => i = j
  BY <1>1, <1>2, <1>4, <1>5, SMTT(30) DEF ListInv, Registered
<1>7. Registered' = Registered \cup {l}
  <2>1. \A i \in DOMAIN listeners' : listeners'[i] \in Registered \cup {l}
    BY Zenon, <1>4, <1>5 DEF Registered
  <2>2. \A i \in DOMAIN listeners : i + 1 \in DOMAIN listeners' /\ listeners'[i + 1] = listeners[i]
    BY <1>1, <1>4
  <2>3. 1 \in DOMAIN listeners' /\ listeners'[1] = l
    BY <1>1, <1>4
  <2> QED BY <2>1, <2>2, <2>3 DEF Registered
<1>8. \A q \in Reasons : Matching(q)' = IF q = r THEN Matching(q) \cup {l} ELSE Matching(q)
  <2>1. \A k \in Listeners : lreason'[k] = IF k = l THEN r ELSE lreason[k]
    BY Zenon, <1>1
  <2>2. Registered \subseteq Listeners
    BY <1>1 DEF Registered
  <2> QED BY Zenon, <1>2, <1>7, <2>1, <2>2 DEF Matching
<1>9. \A q \in Reasons : Matching(q) \in SUBSET Listeners /\ l \notin Matching(q)
  <2>1. \A q \in Reasons : Matching(q) \subseteq Listeners
    BY <1>1 DEF Matching, Registered
  <2> QED BY Zenon, <1>2, <2>1 DEF Matching
<1>10. \A q \in Reasons :
         Cardinality(Matching(q) \cup {l}) = Cardinality(Matching(q)) + 1
  BY Zenon, <1>9 DEF CardinalityLaws, Counted
<1>11. CountMatchesList'
  BY Zenon, <1>1, <1>8, <1>10 DEF ListInv, CountMatchesList
<1> QED BY Zenon, <1>6, <1>7, <1>8, <1>11 DEF ListInv

(* eventpool_callback_remove keeps the list free of duplicates and         *)
(* counted.                                                                *)
LEMMA RemoveListenerList ==
  ASSUME CardinalityLaws, TypeControl, ListInv, NEW i \in 1..Len(listeners), RemoveListener(i)
  PROVE  /\ ListInv' /\ Registered' = Registered \ {listeners[i]}
         /\ lreason[listeners[i]] \in Reasons
         /\ \A q \in Reasons \ {lreason[listeners[i]]} : Matching(q)' = Matching(q)
<1> USE DEF TypeControl
<1> DEFINE l == listeners[i]
           r == lreason[l]
<1>1. /\ listeners \in Seq(Listeners) /\ lreason \in [Listeners -> Reasons \cup {Unset}]
      /\ nrlisteners \in [Reasons -> Int]
      /\ listeners' = RemoveAt(listeners, i)
      /\ lreason' = lreason
      /\ nrlisteners' = [nrlisteners EXCEPT ![r] = @ - 1]
  BY Zenon DEF RemoveListener, TypeOK
<1>2. l \in Registered /\ r \in Reasons /\ l \in Listeners
  BY <1>1, SMTT(30) DEF ControlInv, Registered
<1>3. /\ \A j, k \in DOMAIN listeners' : listeners'[j] = listeners'[k] => j = k
      /\ Registered' = Registered \ {l}
  <2>1. /\ \A j, k \in DOMAIN RemoveAt(listeners, i) :
             RemoveAt(listeners, i)[j] = RemoveAt(listeners, i)[k] => j = k
        /\ {RemoveAt(listeners, i)[j] : j \in DOMAIN RemoveAt(listeners, i)}
             = {listeners[j] : j \in DOMAIN listeners} \ {listeners[i]}
    BY Zenon, <1>1, RemoveAtProperties DEF ListInv
  <2> QED BY <1>1, <2>1, Zenon DEF Registered
<1> HIDE DEF l, r
<1>4. l \in Matching(r)
  BY Zenon, <1>2 DEF Matching, r
<1>5. \A q \in Reasons : Matching(q)' = IF q = r THEN Matching(q) \ {l} ELSE Matching(q)
  BY Zenon, <1>1, <1>3 DEF Matching, r
<1>6. \A q \in Reasons : Matching(q) \in SUBSET Listeners
  BY <1>1 DEF Matching, Registered
<1>7. Cardinality(Matching(r) \ {l}) = Cardinality(Matching(r)) - 1
  BY Zenon, <1>2, <1>4, <1>6 DEF CardinalityLaws, Counted
<1>8. CountMatchesList'
  BY Zenon, <1>1, <1>2, <1>5, <1>7 DEF ListInv, CountMatchesList
<1> USE DEF l, r
<1> QED BY Zenon, <1>2, <1>3, <1>5, <1>8 DEF ListInv

(* Every step keeps the list free of duplicates and counted.               *)
LEMMA ListNext ==
  ASSUME CardinalityLaws
  PROVE  TypeControl /\ ListInv /\ [Next]_vars => ListInv'
<1> SUFFICES ASSUME TypeControl, ListInv, [Next]_vars PROVE ListInv'
  BY Zenon
<1> USE DEF initVars, busVars, triggerVars, mainVars, workVars
<1>1. CASE Register
  BY Zenon, <1>1, AddListenerList, RemoveListenerList DEF Register
<1>2. CASE GcClear
  <2>1. listeners' = <<>> /\ nrlisteners' = [r \in Reasons |-> 0]
    BY Zenon, <1>2 DEF GcClear
  <2>2. \A r \in Reasons : Matching(r)' = {}
    BY <2>1 DEF Matching, Registered
  <2>3. CountMatchesList'
    BY Zenon, <2>1, <2>2 DEF CountMatchesList, CardinalityLaws, Counted
  <2> QED BY <2>1, <2>3 DEF ListInv
<1>3. CASE UNCHANGED busVars
  BY <1>3 DEF ListInv, CountMatchesList, Matching, Registered
<1>4. CASE \E e \in Events : Trigger(e)
  BY Zenon, <1>3, <1>4 DEF Trigger, TriggerCheck, TriggerAppend, TriggerAbort, TriggerSend
<1>5. CASE Execute
  BY Zenon, <1>3, <1>5 DEF Execute, ExecuteBegin, DrainIdle, DrainEvent, WalkListener, WalkEnd,
                    DrainEnd, Dispatch, SyncRun, SyncCount, ExecuteEnd
<1>6. CASE GcEnd
  BY Zenon, <1>3, <1>6 DEF GcEnd
<1>7. CASE \E w \in Workers : WorkerTake(w) \/ Fib(w)
  BY Zenon, <1>3, <1>7 DEF Fib, WorkerTake, FibFunc, FibTrywait, FibDone
<1>8. CASE UNCHANGED vars
  BY Zenon, <1>3, <1>8 DEF vars
<1> QED
  BY Zenon, <1>1, <1>2, <1>4, <1>5, <1>6, <1>7, <1>8 DEF Next, Gc

----------------------------------------------------------------------------
(* The inductive invariant behind the delivery of events                   *)

IInv == TypeOK /\ ControlInv /\ ListInv /\ DeliveryInv /\ DeliveryOrder

----------------------------------------------------------------------------
(* Tasks                                                                   *)

(* A task is its event and its listener.                                   *)
LEMMA TaskFacts ==
  /\ \A e \in Events, l \in Listeners :
       Task(e, l) \in Tasks /\ Task(e, l).ev = e /\ Task(e, l).lis = l
  /\ \A t \in Tasks : t.ev \in Events /\ t.lis \in Listeners /\ t = Task(t.ev, t.lis)
  BY DEF Task, Tasks

(* The tasks of an event in nodes, as a set.                               *)
LEMMA InHandTask ==
  ASSUME TypeOK, NEW e \in Events
  PROVE  (\E i \in DOMAIN nodes : nodes[i].ev = e) <=> \E l \in Listeners : InNodes(e, l)
<1>1. ASSUME NEW i \in DOMAIN nodes, nodes[i].ev = e PROVE \E l \in Listeners : InNodes(e, l)
  <2>1. nodes[i] \in Tasks
    BY DEF TypeOK
  <2> QED BY <1>1, <2>1, TaskFacts DEF InNodes
<1>2. ASSUME NEW l \in Listeners, InNodes(e, l) PROVE \E i \in DOMAIN nodes : nodes[i].ev = e
  BY <1>2, TaskFacts DEF InNodes
<1> QED BY Zenon, <1>1, <1>2

(* Nothing is under way for a fresh event.                                 *)
LEMMA FreshIdle ==
  ASSUME TypeOK, UniqueInv, RunInv, NEW e \in Events, Fresh(e)
  PROVE  /\ Unrun(e) = {} /\ Todo(e) = {}
         /\ \A l \in Listeners : ~InNodes(e, l)
         /\ ~ \E i \in DOMAIN nodes : nodes[i].ev = e
<1>1. \A l \in Listeners : ~InNodes(e, l)
  BY Zenon DEF Fresh, UniqueInv
<1>2. Todo(e) = {}
  BY Zenon DEF Fresh, RunInv
<1>3. Unrun(e) = {}
  BY Zenon, <1>2 DEF Unrun, Todo
<1> QED BY Zenon, <1>1, <1>2, <1>3, InHandTask

(* An event in hand has been triggered.                                    *)
LEMMA InHandTriggered ==
  ASSUME TypeOK, ControlInv, QueueInv, UniqueInv, RunInv, NEW e \in Events, InHand(e)
  PROVE  tpc[e] \in {"send", "sent"} /\ evreason[e] \in Reasons
<1>1. CASE Walking(e)
  <2>1. eventqueue # <<>> /\ Head(eventqueue) = e
    BY Zenon, <1>1 DEF Walking, ControlInv
  <2>2. 1 \in DOMAIN eventqueue /\ eventqueue[1] = e
    BY Zenon, <2>1, TailElements DEF TypeOK
  <2> QED BY Zenon, <2>2 DEF QueueInv, ControlInv
<1>2. CASE ~Walking(e)
  <2>1. ~Fresh(e)
    BY Zenon, <1>2, FreshIdle DEF InHand
  <2>2. tpc[e] \in {"send", "sent"}
    BY Zenon, <2>1 DEF QueueInv, TypeOK
  <2> QED BY Zenon, <2>2 DEF ControlInv
<1> QED BY Zenon, <1>1, <1>2

----------------------------------------------------------------------------
(* Steps that move no task                                                 *)

(* No listener ran and no worker did its trywait or reached done, though a *)
(* task may have gone from one place to the next.                          *)
SameWork ==
  \A e \in Events :
    /\ Unrun(e)' = Unrun(e) /\ Todo(e)' = Todo(e)
    /\ InHand(e)' => InHand(e)
    /\ \A w \in Workers : AtDone(w, e)' <=> AtDone(w, e)
    /\ mpc' \in {"drain", "walk"} => \A l \in Listeners : Pooled(e, l)' => Pooled(e, l)

(* All tasks are where they were.                                          *)
SameView ==
  \A e \in Events :
    /\ InHand(e)' <=> InHand(e)
    /\ Walking(e)' <=> Walking(e)
    /\ \A l \in Listeners :
         /\ ToWalk(e, l)' <=> ToWalk(e, l)
         /\ InNodes(e, l)' <=> InNodes(e, l)
         /\ InWq(e, l)' <=> InWq(e, l)
         /\ AtFunc(e, l)' <=> AtFunc(e, l)
         /\ AtTrywait(e, l)' <=> AtTrywait(e, l)

(* A step that leaves the lists of tasks, the workers and the walk alone   *)
(* leaves every task where it is.                                          *)
LEMMA ViewFrame ==
  ASSUME UNCHANGED <<nodes, wq, wpc, wtask>>,
         mpc' = "count" <=> mpc = "count",
         \A e \in Events : Walking(e)' <=> Walking(e),
         \A e \in Events, l \in Listeners : ToWalk(e, l)' <=> ToWalk(e, l)
  PROVE  SameView /\ SameWork
<1> SUFFICES ASSUME NEW e \in Events
             PROVE  /\ Unrun(e)' = Unrun(e) /\ Todo(e)' = Todo(e)
                    /\ InHand(e)' <=> InHand(e)
                    /\ \A w \in Workers : AtDone(w, e)' <=> AtDone(w, e)
                    /\ \A l \in Listeners :
                         /\ InNodes(e, l)' <=> InNodes(e, l)
                         /\ InWq(e, l)' <=> InWq(e, l)
                         /\ AtFunc(e, l)' <=> AtFunc(e, l)
                         /\ AtTrywait(e, l)' <=> AtTrywait(e, l)
  BY Zenon DEF SameView, SameWork, Pooled
<1>1. \A l \in Listeners :
        /\ InNodes(e, l)' <=> InNodes(e, l)
        /\ InWq(e, l)' <=> InWq(e, l)
        /\ AtFunc(e, l)' <=> AtFunc(e, l)
        /\ AtTrywait(e, l)' <=> AtTrywait(e, l)
        /\ Counting(e, l)' <=> Counting(e, l)
  BY Zenon DEF InNodes, InWq, AtFunc, AtTrywait, Counting
<1>2. \A l \in Listeners : ToRun(e, l)' <=> ToRun(e, l)
  BY Zenon, <1>1 DEF ToRun
<1>3. Unrun(e)' = Unrun(e) /\ Todo(e)' = Todo(e)
  BY Zenon, <1>1, <1>2 DEF Unrun, Todo
<1>4. InHand(e)' <=> InHand(e)
  BY Zenon DEF InHand
<1>5. \A w \in Workers : AtDone(w, e)' <=> AtDone(w, e)
  BY Zenon DEF AtDone
<1> QED BY Zenon, <1>1, <1>3, <1>4, <1>5

(* UniqueInv depends on where the tasks are and on the snapshots.          *)
LEMMA UniqueFrame ==
  ASSUME UniqueInv, SameView, UNCHANGED <<nodes, wq, wpc, wtask, snap>>
  PROVE  UniqueInv'
  BY Zenon DEF UniqueInv, SameView

(* ModeInv depends on the tasks with the thread pool and their semaphores. *)
LEMMA ModeFrame ==
  ASSUME ModeInv, SameWork, UNCHANGED <<wq, wpc, wtask, sem, freed, threads>>
  PROVE  ModeInv'
  BY Zenon DEF ModeInv, SameWork

(* SemInv depends on the work to do and on what was done after it.         *)
LEMMA SemFrame ==
  ASSUME SemInv, SameWork, UNCHANGED <<sem, ndone, freed>>
  PROVE  SemInv'
  BY Zenon DEF SemInv, SameWork

(* RunInv depends on the work to do and on what ran.                       *)
LEMMA RunFrame ==
  ASSUME RunInv, SameWork, UNCHANGED <<snap, runs>>
  PROVE  RunInv'
  BY Zenon DEF RunInv, SameWork

(* QueueInv depends on the queue and on the freshness of its events.       *)
LEMMA QueueFrame ==
  ASSUME QueueInv, UNCHANGED <<eventqueue, sem, snap, ndone, churned>>, TypeOK,
         \A e \in Events : Walking(e)' <=> Walking(e),
         \A e \in Events : tpc[e] \in {"send", "sent"} => tpc'[e] \in {"send", "sent"},
         \A e \in Events : tpc'[e] \in {"new", "append", "ignored"} =>
                             tpc[e] \in {"new", "append", "ignored"}
  PROVE  QueueInv'
<1>1. \A e \in Events : Fresh(e)' <=> Fresh(e)
  BY Zenon DEF Fresh
<1>2. \A i \in DOMAIN eventqueue : eventqueue[i] \in Events
  BY DEF TypeOK
<1> QED BY Zenon, <1>1, <1>2 DEF QueueInv

(* StampInv depends on the stamps and on which events have one.            *)
LEMMA StampFrame ==
  ASSUME StampInv, UNCHANGED stamp,
         \A e \in Events : tpc[e] \in {"send", "sent"} <=> tpc'[e] \in {"send", "sent"}
  PROVE  StampInv'
  BY Zenon DEF StampInv

(* DeliveryOrder depends on the sequences and the stamps.                  *)
LEMMA OrderFrame ==
  ASSUME DeliveryOrder, UNCHANGED <<wq, nodes, stamp, eventqueue>>
  PROVE  DeliveryOrder'
  BY Zenon DEF DeliveryOrder

(* WalkInv depends on the work to do and on the registered listeners.      *)
LEMMA WalkFrame ==
  ASSUME WalkInv, SameWork, UNCHANGED <<snap, churned, listeners, lreason>>,
         mpc' \in {"drain", "walk"} => mpc \in {"drain", "walk"},
         \A e \in Events : InHand(e) => evreason'[e] = evreason[e]
  PROVE  WalkInv'
  BY DEF WalkInv, SameWork, Matching, Registered

(* SyncOnce depends on the events in hand and on the calls of done.        *)
LEMMA OnceFrame ==
  ASSUME SyncOnce, SameWork, UNCHANGED <<sem, ndone, churned>>
  PROVE  SyncOnce'
  BY Zenon DEF SyncOnce, SameWork

(* SyncTurn depends on all of these and on nrlisteners1.                   *)
LEMMA TurnFrame ==
  ASSUME SyncTurn, mpc' = mpc, TypeOK,
         UNCHANGED <<threads, nodes, nrlisteners1, snap, churned, listeners, lreason>>,
         threads = NoThreads =>
           \A e \in Events : InHand(e)' => InHand(e) /\ Unrun(e)' = Unrun(e),
         \A e \in Events : InHand(e) => evreason'[e] = evreason[e]
  PROVE  SyncTurn'
<1> SUFFICES ASSUME threads = NoThreads, nodes # <<>>, mpc \in {"dispatch", "count"}
             PROVE  SyncTurn'
  BY Zenon DEF SyncTurn
<1>1. \A r : Matching(r)' = Matching(r)
  BY Zenon DEF Matching, Registered
<1>2. PICK d \in Events : d = Head(nodes).ev /\ InHand(d)
  BY TailElements, TaskFacts DEF TypeOK, InHand
<1>3. \A e \in Events :
        InHand(e)' => evreason'[e] = evreason[e] /\ InHand(e) /\ Unrun(e)' = Unrun(e)
  BY Zenon
<1>4. evreason'[d] = evreason[d] /\ Unrun(d)' = Unrun(d)
  <2>1. InHand(d)'
    BY <1>2, TailElements DEF TypeOK, InHand
  <2> QED BY Zenon, <1>3, <2>1
<1> QED BY ZenonT(30), <1>1, <1>2, <1>3, <1>4 DEF SyncTurn

(* The three together, for a step that is not one of the main thread.      *)
LEMMA SyncFrame ==
  ASSUME SyncInv, SameWork, mpc' = mpc, TypeOK,
         UNCHANGED <<threads, nodes, nrlisteners1, sem, ndone, snap, churned, listeners, lreason>>,
         \A e \in Events : InHand(e) => evreason'[e] = evreason[e]
  PROVE  SyncInv'
<1>1. SyncIdle'
  BY Zenon DEF SyncInv, SyncIdle
<1>2. \A e \in Events : InHand(e)' => InHand(e) /\ Unrun(e)' = Unrun(e)
  BY Zenon DEF SameWork
<1> QED BY Zenon, <1>1, <1>2, OnceFrame, TurnFrame DEF SyncInv

----------------------------------------------------------------------------
(* eventpool_callback and eventpool_callback_remove                        *)

(* While the lock is free, no walk is under way.                           *)
LEMMA NoWalk ==
  ASSUME ControlInv, locked = 0
  PROVE  /\ mpc \notin {"drain", "walk"} /\ \A e \in Events : ~Walking(e)
         /\ \A e \in Events, l \in Listeners : ~ToWalk(e, l)
  BY DEF ControlInv, Walking, ToWalk

(* A change of the list of listeners of reason r leaves every task where   *)
(* it is and marks the events of that reason that are being run.           *)
LEMMA RegisterStep ==
  ASSUME IInv, locked = 0, NEW r \in Reasons, Churn(r),
         \A q \in Reasons \ {r} : Matching(q)' = Matching(q),
         UNCHANGED <<initVars, eventqueue, async, triggerVars, mainVars, wq,
                     workVars, sem, freed, snap, runs, ndone>>
  PROVE  DeliveryInv' /\ DeliveryOrder'
<1> USE DEF IInv, DeliveryInv, initVars, triggerVars, mainVars, workVars
<1>1. /\ mpc \notin {"drain", "walk"}
      /\ \A e \in Events : ~Walking(e) /\ ~Walking(e)'
      /\ \A e \in Events, l \in Listeners : ~ToWalk(e, l) /\ ~ToWalk(e, l)'
  BY Zenon, NoWalk DEF Walking, ToWalk
<1>2. SameView /\ SameWork
  BY Zenon, <1>1, ViewFrame
<1>3. /\ churned \subseteq churned'
      /\ \A e \in churned' \ churned : InHand(e) /\ evreason[e] = r
      /\ threads = NoThreads => \A e \in Events : InHand(e) /\ evreason[e] = r => e \in churned'
  BY Zenon, <1>1 DEF Churn, InHand
<1>4. UniqueInv' /\ ModeInv' /\ SemInv' /\ RunInv' /\ StampInv' /\ DeliveryOrder'
  BY Zenon, <1>2, UniqueFrame, ModeFrame, SemFrame, RunFrame, StampFrame, OrderFrame
<1>5. QueueInv'
  <2>1. \A e \in Events : Fresh(e) => Fresh(e)'
    <3> SUFFICES ASSUME NEW e \in Events, Fresh(e) PROVE e \notin churned'
      BY Zenon DEF Fresh
    <3>1. ~InHand(e)
      BY Zenon, <1>1, FreshIdle DEF InHand
    <3> QED BY Zenon, <1>3, <3>1 DEF Fresh
  <2>2. \A i \in DOMAIN eventqueue : eventqueue[i] \in Events
    BY DEF TypeOK
  <2> QED BY Zenon, <1>1, <2>1, <2>2 DEF QueueInv
<1>6. WalkInv'
  BY Zenon, <1>1 DEF WalkInv
<1>7. SyncIdle' /\ SyncOnce'
  BY Zenon, <1>2, <1>3 DEF SyncInv, SyncIdle, SyncOnce, SameWork
<1>8. SyncTurn'
  <2> SUFFICES ASSUME threads = NoThreads, nodes # <<>>, mpc \in {"dispatch", "count"}
               PROVE  SyncTurn'
    BY Zenon DEF SyncTurn
  <2> DEFINE d == Head(nodes).ev
  <2>1. d \in Events /\ InHand(d) /\ Unrun(d)' = Unrun(d)
    BY <1>2, TailElements, TaskFacts DEF TypeOK, InHand, SameView, SameWork
  <2>2. \A e \in Events : InHand(e)' => InHand(e) /\ evreason[e] \in Reasons /\ Unrun(e)' = Unrun(e)
    BY Zenon, <1>2, InHandTriggered DEF SameView, SameWork
  <2>3. \A e \in Events : InHand(e)' /\ e \notin churned' =>
          e \notin churned /\ evreason[e] # r /\ Matching(evreason[e])' = Matching(evreason[e])
    BY Zenon, <1>3, <2>2
  <2>4. \A e, x \in Events : InHand(e)' /\ InHand(x)' /\ evreason[e] = evreason[x] =>
          (e \in churned' <=> x \in churned')
    BY <1>3, <2>2 DEF SyncInv, SyncTurn
  <2> HIDE DEF d
  <2>5. \A e \in Events : InHand(e)' /\ e # d => Unrun(e)' = snap'[e]
    BY Zenon, <2>2 DEF SyncInv, SyncTurn, d
  <2>6. \A e \in Events : InHand(e)' /\ e \notin churned' =>
          /\ snap'[e] = Matching(evreason[e])'
          /\ nrlisteners1'[evreason[e]] =
               IF evreason[e] = evreason[d] THEN Cardinality(snap[d] \ Unrun(d)) ELSE 0
    BY Zenon, <2>2, <2>3 DEF SyncInv, SyncTurn, d
  <2>7. nodes' = nodes /\ evreason' = evreason /\ snap' = snap
    BY Zenon
  <2> QED BY Zenon, <2>1, <2>4, <2>5, <2>6, <2>7 DEF SyncTurn, d
<1> QED BY Zenon, <1>4, <1>5, <1>6, <1>7, <1>8 DEF SyncInv

(* eventpool_callback                                                      *)
LEMMA AddListenerStep ==
  ASSUME CardinalityLaws, IInv, NEW l \in Listeners, NEW r \in Reasons, AddListener(l, r)
  PROVE  DeliveryInv' /\ DeliveryOrder'
<1>1. \A q \in Reasons \ {r} : Matching(q)' = Matching(q)
  BY Zenon, AddListenerList DEF IInv, TypeControl
<1> QED BY Zenon, <1>1, RegisterStep DEF AddListener

(* eventpool_callback_remove                                               *)
LEMMA RemoveListenerStep ==
  ASSUME CardinalityLaws, IInv, NEW i \in 1..Len(listeners), RemoveListener(i)
  PROVE  DeliveryInv' /\ DeliveryOrder'
<1> DEFINE r == lreason[listeners[i]]
<1>1. r \in Reasons /\ \A q \in Reasons \ {r} : Matching(q)' = Matching(q)
  BY Zenon, RemoveListenerList DEF IInv, TypeControl
<1> HIDE DEF r
<1>2. locked = 0 /\ Churn(r)
  BY Zenon DEF RemoveListener, r
<1> QED BY Zenon, <1>1, <1>2, RegisterStep DEF RemoveListener

----------------------------------------------------------------------------
(* eventpool_trigger                                                       *)

(* The test of eventpoolinit gives a reason to an event that is not in use.*)
LEMMA TriggerCheckStep ==
  ASSUME IInv, NEW e \in Events, NEW r \in Reasons, TriggerCheck(e, r)
  PROVE  DeliveryInv' /\ DeliveryOrder'
<1> USE DEF IInv, DeliveryInv, initVars, busVars, mainVars, workVars
<1>1. /\ tpc[e] = "new" /\ evreason' = [evreason EXCEPT ![e] = r]
      /\ tpc'[e] \in {"append", "ignored"} /\ \A x \in Events \ {e} : tpc'[x] = tpc[x]
      /\ UNCHANGED <<initVars, busVars, eventqueue, async, stamp, aborted,
                     mainVars, wq, workVars, sem, freed, snap, runs, ndone, churned>>
  BY Zenon DEF TriggerCheck, TypeOK
<1>2. \A x \in Events : InHand(x) => evreason'[x] = evreason[x]
  BY Zenon, <1>1, InHandTriggered DEF TypeOK
<1>3. \A x \in Events : Walking(x)' <=> Walking(x)
  BY Zenon, <1>1 DEF Walking
<1>4. \A x \in Events, l \in Listeners : ToWalk(x, l)' <=> ToWalk(x, l)
  BY Zenon, <1>1, <1>2, <1>3 DEF ToWalk, InHand
<1>5. SameView /\ SameWork
  BY Zenon, <1>1, <1>3, <1>4, ViewFrame
<1>6. UniqueInv' /\ ModeInv' /\ SemInv' /\ RunInv' /\ DeliveryOrder'
  BY Zenon, <1>1, <1>5, UniqueFrame, ModeFrame, SemFrame, RunFrame, OrderFrame
<1>7. QueueInv' /\ StampInv'
  BY Zenon, <1>1, <1>3, QueueFrame, StampFrame
<1>8. WalkInv' /\ SyncInv'
  BY Zenon, <1>1, <1>2, <1>5, WalkFrame, SyncFrame
<1> QED BY Zenon, <1>6, <1>7, <1>8

(* A step of eventpool_trigger that touches neither queue nor tasks.       *)
LEMMA TriggerQuietStep ==
  ASSUME IInv, NEW e \in Events, TriggerAbort(e) \/ TriggerSend(e)
  PROVE  DeliveryInv' /\ DeliveryOrder'
<1> USE DEF IInv, DeliveryInv, initVars, busVars, mainVars, workVars
<1>1. UNCHANGED <<initVars, busVars, eventqueue, stamp, evreason,
                  mainVars, wq, workVars, sem, freed, snap, runs, ndone, churned>>
  BY Zenon DEF TriggerAbort, TriggerSend
<1>2. \A x \in Events : /\ tpc'[x] \in {"send", "sent"} <=> tpc[x] \in {"send", "sent"}
                        /\ tpc'[x] \in {"new", "append", "ignored"} => tpc'[x] = tpc[x]
  BY Zenon DEF TriggerAbort, TriggerSend, TypeOK
<1>3. \A x \in Events : Walking(x)' <=> Walking(x)
  BY Zenon, <1>1 DEF Walking
<1>4. \A x \in Events, l \in Listeners : ToWalk(x, l)' <=> ToWalk(x, l)
  BY Zenon, <1>1, <1>3 DEF ToWalk
<1>5. SameView /\ SameWork
  BY Zenon, <1>1, <1>3, <1>4, ViewFrame
<1>6. UniqueInv' /\ ModeInv' /\ SemInv' /\ RunInv' /\ DeliveryOrder'
  BY Zenon, <1>1, <1>5, UniqueFrame, ModeFrame, SemFrame, RunFrame, OrderFrame
<1>7. QueueInv' /\ StampInv'
  BY Zenon, <1>1, <1>2, <1>3, QueueFrame, StampFrame
<1>8. WalkInv' /\ SyncInv'
  BY Zenon, <1>1, <1>5, WalkFrame, SyncFrame
<1> QED BY Zenon, <1>6, <1>7, <1>8

(* A new stamp is larger than all stamps given before.                     *)
LEMMA NewStamp ==
  ASSUME CardinalityLaws, TypeOK, StampInv, NEW e \in Events, tpc[e] = "append",
         tpc' = [tpc EXCEPT ![e] = "send"],
         stamp' = [stamp EXCEPT ![e] = 1 + Cardinality({x \in Events : stamp[x] > 0})]
  PROVE  /\ StampInv'
         /\ \A x \in Events \ {e} : stamp'[x] = stamp[x] /\ stamp[x] < stamp'[e]
         /\ stamp[e] = 0
<1> DEFINE old == {x \in Events : stamp[x] > 0}
           new == {x \in Events : stamp'[x] > 0}
<1>0. stamp \in [Events -> Nat] /\ ~(stamp[e] > 0)
  BY Zenon DEF TypeOK, StampInv
<1>1. stamp \in [Events -> Nat] /\ stamp[e] = 0 /\ e \notin old
  BY <1>0
<1>2. old \in SUBSET Events /\ Cardinality(old) \in Nat
  BY Zenon DEF CardinalityLaws, Counted
<1>3. /\ stamp'[e] = 1 + Cardinality(old) /\ \A x \in Events \ {e} : stamp'[x] = stamp[x]
  BY Zenon, <1>1
<1>4. new = old \cup {e}
  BY <1>1, <1>2, <1>3, SMTT(30)
<1>5. Cardinality(new) = Cardinality(old) + 1
  BY <1>1, <1>2, <1>4 DEF CardinalityLaws, Counted
<1> HIDE DEF old, new
<1>6. \A x \in Events : stamp[x] <= Cardinality(old)
  BY Zenon DEF StampInv, old
<1>7. \A x \in Events : stamp'[x] <= Cardinality(new)
  BY <1>1, <1>2, <1>3, <1>5, <1>6
<1>8. \A x \in Events : stamp'[x] > 0 <=> tpc'[x] \in {"send", "sent"}
  BY <1>1, <1>2, <1>3 DEF StampInv, TypeOK
<1>9. \A x \in Events \ {e} : stamp[x] < stamp'[e]
  BY <1>1, <1>2, <1>3, <1>6, SMTT(30)
<1>10. \A x, y \in Events : stamp'[x] = stamp'[y] /\ stamp'[x] > 0 => x = y
  BY <1>1, <1>3, <1>9 DEF StampInv
<1> QED BY Zenon, <1>1, <1>3, <1>7, <1>8, <1>9, <1>10 DEF StampInv, new

(* DeliveryOrder, of any sequence of tasks and any queue.                  *)
Ordered(p, q, st) ==
  /\ \A i, j \in DOMAIN p : i < j => st[p[i].ev] <= st[p[j].ev]
  /\ \A i \in DOMAIN p, j \in DOMAIN q : st[p[i].ev] <= st[q[j]]
  /\ \A i, j \in DOMAIN q : i < j => st[q[i]] < st[q[j]]

(* A task of the first event of the queue may follow the other tasks.      *)
LEMMA OrderedAppend ==
  ASSUME NEW p \in Seq(Tasks), NEW q \in Seq(Events), NEW st \in [Events -> Nat],
         Ordered(p, q, st), q # <<>>, NEW t \in Tasks, t.ev = Head(q)
  PROVE  Ordered(Append(p, t), q, st)
<1> DEFINE a == Append(p, t)
<1>1. /\ 1 \in DOMAIN q /\ q[1] = Head(q)
      /\ \A i \in DOMAIN q : q[i] \in Events /\ i \in Nat /\ 1 <= i
  BY Zenon, TailElements, Positions
<1>2. /\ \A i \in DOMAIN a : \/ i \in DOMAIN p /\ a[i] = p[i]
                             \/ i = Len(p) + 1 /\ a[i] = t
      /\ \A i \in DOMAIN p : i \in Nat /\ i <= Len(p)
      /\ Len(p) \in Nat
  BY AppendElements, Positions
<1> HIDE DEF a
<1>3. /\ \A i \in DOMAIN p : st[p[i].ev] <= st[t.ev]
      /\ \A j \in DOMAIN q : st[t.ev] <= st[q[j]]
  <2>1. \A j \in DOMAIN q : j = 1 \/ 1 < j
    BY <1>1
  <2>2. \A j \in DOMAIN q : 1 < j => st[q[1]] < st[q[j]]
    BY Zenon, <1>1 DEF Ordered
  <2>3. \A j \in DOMAIN q : st[q[j]] \in Nat
    BY Zenon, <1>1
  <2>4. \A j \in DOMAIN q : st[q[1]] <= st[q[j]]
    BY <1>1, <2>1, <2>2, <2>3
  <2>5. \A i \in DOMAIN p : st[p[i].ev] <= st[q[1]]
    BY Zenon, <1>1 DEF Ordered
  <2> QED BY Zenon, <1>1, <2>4, <2>5
<1>4. st[t.ev] \in Nat
  BY Zenon, TaskFacts
<1>5. \A i, j \in DOMAIN a : i < j => st[a[i].ev] <= st[a[j].ev]
  <2>1. ~(Len(p) + 1 < Len(p) + 1) /\ \A i \in DOMAIN p : ~(Len(p) + 1 < i)
    BY <1>2
  <2> QED BY Zenon, <1>2, <1>3, <2>1 DEF Ordered
<1>6. \A i \in DOMAIN a, j \in DOMAIN q : st[a[i].ev] <= st[q[j]]
  BY Zenon, <1>2, <1>3 DEF Ordered
<1> QED BY Zenon, <1>5, <1>6 DEF Ordered, a

(* A task that has been made and not been taken is in wq or in nodes.      *)
LEMMA PendingElements ==
  ASSUME TypeOK
  PROVE  /\ wq \o nodes \in Seq(Tasks)
         /\ \A i \in DOMAIN (wq \o nodes) :
              LET t == (wq \o nodes)[i]
              IN  t \in Tasks /\ (InWq(t.ev, t.lis) \/ InNodes(t.ev, t.lis))
<1>1. wq \in Seq(Tasks) /\ nodes \in Seq(Tasks)
  BY Zenon DEF TypeOK
<1>2. wq \o nodes \in Seq(Tasks)
  BY <1>1
<1> SUFFICES ASSUME NEW i \in DOMAIN (wq \o nodes)
             PROVE  LET t == (wq \o nodes)[i]
                    IN  t \in Tasks /\ (InWq(t.ev, t.lis) \/ InNodes(t.ev, t.lis))
  BY Zenon, <1>2
<1> DEFINE t == (wq \o nodes)[i]
<1>3. t \in Tasks /\ t = Task(t.ev, t.lis)
  BY <1>2, TaskFacts
<1>4. \/ i \in DOMAIN wq /\ t = wq[i]
      \/ i - Len(wq) \in DOMAIN nodes /\ t = nodes[i - Len(wq)]
  BY <1>1
<1> HIDE DEF t
<1>5. InWq(t.ev, t.lis) \/ InNodes(t.ev, t.lis)
  BY Zenon, <1>3, <1>4 DEF InWq, InNodes
<1> QED BY Zenon, <1>3, <1>5 DEF t

(* The critical section: a fresh event becomes the last of the queue.      *)
LEMMA TriggerAppendStep ==
  ASSUME CardinalityLaws, IInv, NEW e \in Events, TriggerAppend(e)
  PROVE  DeliveryInv' /\ DeliveryOrder'
<1> USE DEF IInv, DeliveryInv, initVars, busVars, mainVars, workVars
<1>1. /\ tpc[e] = "append" /\ locked = 0 /\ eventqueue' = Append(eventqueue, e)
      /\ tpc' = [tpc EXCEPT ![e] = "send"]
      /\ stamp' = [stamp EXCEPT ![e] = 1 + Cardinality({x \in Events : stamp[x] > 0})]
      /\ UNCHANGED <<initVars, busVars, async, evreason, aborted, mainVars, wq,
                     workVars, sem, freed, snap, runs, ndone, churned>>
  BY Zenon DEF TriggerAppend
<1>2. /\ mpc \notin {"drain", "walk"}
      /\ \A x \in Events : ~Walking(x) /\ ~Walking(x)'
      /\ \A x \in Events, l \in Listeners : ~ToWalk(x, l) /\ ~ToWalk(x, l)'
  BY Zenon, <1>1, NoWalk DEF Walking, ToWalk
<1>3. SameView /\ SameWork
  BY Zenon, <1>1, <1>2, ViewFrame
<1>4. UniqueInv' /\ ModeInv' /\ SemInv' /\ RunInv' /\ WalkInv' /\ SyncInv'
  BY Zenon, <1>1, <1>3, UniqueFrame, ModeFrame, SemFrame, RunFrame, WalkFrame, SyncFrame
<1>5. /\ StampInv'
      /\ \A x \in Events \ {e} : stamp'[x] = stamp[x] /\ stamp[x] < stamp'[e]
  BY Zenon, <1>1, NewStamp
<1>6. Fresh(e) /\ \A x \in Events : Fresh(x)' <=> Fresh(x)
  BY Zenon, <1>1 DEF Fresh, QueueInv
<1>7. /\ \A i \in DOMAIN eventqueue : eventqueue[i] \in Events \ {e}
      /\ Unique(eventqueue) /\ ~Has(eventqueue, e)
  <2>1. \A i \in DOMAIN eventqueue : eventqueue[i] \in Events
    BY DEF TypeOK
  <2>2. \A i \in DOMAIN eventqueue : eventqueue[i] # e
    BY Zenon, <1>1 DEF QueueInv
  <2> QED BY Zenon, <2>1, <2>2 DEF QueueInv, Unique, Has
<1>8. /\ \A i \in DOMAIN eventqueue : i \in DOMAIN eventqueue' /\ eventqueue'[i] = eventqueue[i]
      /\ \A i \in DOMAIN eventqueue' :
           \/ i \in DOMAIN eventqueue /\ eventqueue'[i] = eventqueue[i]
           \/ i = Len(eventqueue) + 1 /\ eventqueue'[i] = e
      /\ Unique(eventqueue')
  <2>1. eventqueue \in Seq(Events)
    BY Zenon DEF TypeOK
  <2> DEFINE a == Append(eventqueue, e)
  <2>2. /\ \A i \in DOMAIN eventqueue : i \in DOMAIN a /\ a[i] = eventqueue[i]
        /\ a[Len(eventqueue) + 1] = e
        /\ \A i \in DOMAIN a : i \in DOMAIN eventqueue \/ i = Len(eventqueue) + 1
    BY <2>1, AppendElements
  <2>3. Unique(a)
    BY Zenon, <1>7, <2>1, AppendUnique
  <2>4. eventqueue' = a
    BY Zenon, <1>1
  <2> HIDE DEF a
  <2> QED BY Zenon, <2>2, <2>3, <2>4
<1>9. QueueInv'
  <2>1. \A x \in Events : x = e \/ Has(eventqueue, x) =>
          tpc'[x] \in {"send", "sent"} /\ Fresh(x)'
    BY Zenon, <1>1, <1>2, <1>6 DEF QueueInv, TypeOK, Has
  <2>2. \A x \in Events : tpc'[x] \in {"new", "append", "ignored"} => Fresh(x)'
    BY Zenon, <1>1, <1>6 DEF QueueInv, TypeOK
  <2>3. \A i \in DOMAIN eventqueue' :
          eventqueue'[i] \in Events /\ (eventqueue'[i] = e \/ Has(eventqueue, eventqueue'[i]))
    BY Zenon, <1>7, <1>8 DEF Has
  <2> QED BY Zenon, <1>8, <2>1, <2>2, <2>3 DEF QueueInv, Unique, Fresh
<1>10. DeliveryOrder'
  <2> DEFINE p == wq \o nodes
  <2>1. \A l \in Listeners : ~InWq(e, l) /\ ~InNodes(e, l)
    BY Zenon, <1>6, FreshIdle DEF Todo, ToRun
  <2>2. p' = p /\ \A i \in DOMAIN p : p[i].ev \in Events \ {e}
    <3>1. p' = p
      BY Zenon, <1>1
    <3>2. \A i \in DOMAIN p : p[i] \in Tasks /\ (InWq(p[i].ev, p[i].lis) \/ InNodes(p[i].ev, p[i].lis))
      BY Zenon, PendingElements
    <3> HIDE DEF p
    <3> QED BY <2>1, <3>1, <3>2, TaskFacts
  <2> HIDE DEF p
  <2>3. \A i \in DOMAIN p : stamp'[p[i].ev] = stamp[p[i].ev] /\ stamp[p[i].ev] < stamp'[e]
    BY Zenon, <1>5, <2>2
  <2>4. \A i \in DOMAIN eventqueue : /\ stamp'[eventqueue[i]] = stamp[eventqueue[i]]
                                     /\ stamp[eventqueue[i]] < stamp'[e]
    BY Zenon, <1>5, <1>7
  <2>5. stamp \in [Events -> Nat] /\ stamp' \in [Events -> Nat]
    <3>1. Cardinality({x \in Events : stamp[x] > 0}) \in Nat
      BY Zenon DEF CardinalityLaws, Counted
    <3> QED BY <1>1, <3>1, SMTT(30) DEF TypeOK
  <2>6. \A i \in DOMAIN eventqueue, j \in DOMAIN eventqueue' :
          i < j => stamp'[eventqueue'[i]] < stamp'[eventqueue'[j]]
    BY Zenon, <1>8, <2>4 DEF DeliveryOrder
  <2>7. \A i, j \in DOMAIN eventqueue' : i < j => i \in DOMAIN eventqueue
    <3>1. eventqueue \in Seq(Events) /\ eventqueue' \in Seq(Events)
      BY Zenon, <1>1, AppendElements DEF TypeOK
    <3>2. Len(eventqueue) \in Nat /\ Len(eventqueue') = Len(eventqueue) + 1
      BY <1>1, <3>1
    <3>3. \A i, j \in DOMAIN eventqueue' : i < j => i # Len(eventqueue) + 1
      BY <3>1, <3>2, Positions
    <3> QED BY Zenon, <1>8, <3>3
  <2>8. \A i \in DOMAIN p, j \in DOMAIN eventqueue' : stamp'[p[i].ev] <= stamp'[eventqueue'[j]]
    <3>1. \A i \in DOMAIN p, j \in DOMAIN eventqueue : stamp[p[i].ev] <= stamp[eventqueue[j]]
      BY Zenon DEF DeliveryOrder, p
    <3>2. \A i \in DOMAIN p : stamp'[p[i].ev] \in Nat /\ stamp'[e] \in Nat
      BY Zenon, <2>2, <2>5
    <3> SUFFICES ASSUME NEW i \in DOMAIN p, NEW j \in DOMAIN eventqueue'
                 PROVE  stamp'[p[i].ev] <= stamp'[eventqueue'[j]]
      BY Zenon
    <3>3. CASE j \in DOMAIN eventqueue /\ eventqueue'[j] = eventqueue[j]
      BY Zenon, <2>3, <2>4, <3>1, <3>3
    <3>4. CASE eventqueue'[j] = e
      <4>1. \A m, n \in Nat : m < n => m <= n
        OBVIOUS
      <4> QED BY Zenon, <2>3, <3>2, <3>4, <4>1
    <3> QED BY Zenon, <1>8, <3>3, <3>4
  <2>9. \A i, j \in DOMAIN p : i < j => stamp'[p[i].ev] <= stamp'[p[j].ev]
    BY Zenon, <2>3 DEF DeliveryOrder, p
  <2> QED BY Zenon, <2>2, <2>6, <2>7, <2>8, <2>9 DEF DeliveryOrder, p
<1> QED BY Zenon, <1>4, <1>5, <1>9, <1>10

----------------------------------------------------------------------------
(* Steps of the main thread that move no task                              *)

(* A change of the program counter outside the walk and the count.         *)
LEMMA QuietStep ==
  ASSUME IInv, {mpc, mpc'} \cap {"walk", "count"} = {},
         UNCHANGED <<threads, busVars, eventqueue, tpc, evreason, stamp, nodes, wq,
                     workVars, sem, freed, snap, runs, ndone, churned>>
  PROVE  /\ SameView /\ SameWork /\ DeliveryOrder' /\ SyncOnce'
         /\ QueueInv' /\ UniqueInv' /\ ModeInv' /\ SemInv' /\ RunInv' /\ StampInv'
<1> USE DEF IInv, DeliveryInv, initVars, busVars, mainVars, workVars
<1>1. \A x \in Events : ~Walking(x) /\ ~Walking(x)'
  BY Zenon DEF Walking
<1>2. \A x \in Events, l \in Listeners : ~ToWalk(x, l) /\ ~ToWalk(x, l)'
  BY Zenon, <1>1 DEF ToWalk
<1>3. SameView /\ SameWork
  BY Zenon, <1>1, <1>2, ViewFrame
<1>4. SyncOnce'
  BY Zenon, <1>3 DEF SyncInv, SyncOnce, SameWork
<1> QED BY Zenon, <1>1, <1>3, <1>4, UniqueFrame, ModeFrame, SemFrame, RunFrame, OrderFrame,
           QueueFrame, StampFrame

(* No event is in hand outside the walk when nodes is empty.               *)
LEMMA NothingInHand ==
  ASSUME nodes = <<>>, mpc # "walk"
  PROVE  \A e \in Events : ~InHand(e)
  BY DEF InHand, Walking

(* The main thread takes the lock, ends its round, or ends eventpool_gc.   *)
LEMMA IdleStep ==
  ASSUME IInv, ExecuteBegin \/ ExecuteEnd \/ GcEnd
  PROVE  DeliveryInv' /\ DeliveryOrder'
<1> USE DEF IInv, DeliveryInv, busVars, triggerVars, workVars
<1>1. /\ nodes = <<>> /\ mpc \in {"loop", "gc", "dispatch"} /\ mpc' \in {"loop", "drain"}
      /\ UNCHANGED <<threads, busVars, eventqueue, tpc, evreason, stamp, nodes, wq,
                     workVars, sem, freed, snap, runs, ndone, churned>>
  BY Zenon DEF ExecuteBegin, ExecuteEnd, GcEnd, ControlInv, initVars
<1>2. /\ SameView /\ SameWork /\ DeliveryOrder' /\ SyncOnce'
      /\ QueueInv' /\ UniqueInv' /\ ModeInv' /\ SemInv' /\ RunInv' /\ StampInv'
  BY Zenon, <1>1, QuietStep
<1>3. \A e \in Events : ~InHand(e) /\ ~InHand(e)'
  BY Zenon, <1>1, <1>2, NothingInHand DEF SameView
<1>4. WalkInv' /\ SyncTurn'
  BY Zenon, <1>1, <1>3 DEF WalkInv, SyncTurn
<1>5. SyncIdle'
  BY Zenon DEF ExecuteBegin, ExecuteEnd, GcEnd, SyncInv, SyncIdle
<1> QED BY Zenon, <1>2, <1>4, <1>5 DEF SyncInv

(* The queue is drained: the tasks in nodes can be handed out.             *)
LEMMA DrainEndStep ==
  ASSUME CardinalityLaws, IInv, DrainEnd
  PROVE  DeliveryInv' /\ DeliveryOrder'
<1> USE DEF IInv, DeliveryInv, busVars, triggerVars, workVars
<1>1. /\ mpc = "drain" /\ mpc' = "dispatch" /\ nrlisteners1' = nrlisteners1
      /\ UNCHANGED <<threads, busVars, eventqueue, tpc, evreason, stamp, nodes, wq,
                     workVars, sem, freed, snap, runs, ndone, churned>>
  BY Zenon DEF DrainEnd, initVars
<1>2. /\ SameView /\ SameWork /\ DeliveryOrder' /\ SyncOnce'
      /\ QueueInv' /\ UniqueInv' /\ ModeInv' /\ SemInv' /\ RunInv' /\ StampInv'
  BY Zenon, <1>1, QuietStep
<1>3. WalkInv' /\ SyncIdle'
  BY Zenon, <1>1 DEF WalkInv, SyncIdle
<1>4. SyncTurn'
  <2> SUFFICES ASSUME nodes # <<>> PROVE SyncTurn'
    BY Zenon, <1>1 DEF SyncTurn
  <2>1. PICK d \in Events : d = Head(nodes).ev /\ InHand(d)
    <3>1. nodes \in Seq(Tasks)
      BY Zenon DEF TypeOK
    <3>2. Head(nodes) \in Tasks /\ Head(nodes) = nodes[1] /\ 1 \in DOMAIN nodes
      BY Zenon, <3>1, TailElements
    <3> QED BY Zenon, <3>2, TaskFacts DEF InHand
  <2>2. \A e \in Events : InHand(e)' =>
          /\ Unrun(e)' = snap'[e] /\ e \notin churned' /\ snap'[e] = Matching(evreason[e])'
          /\ evreason[e] \in Reasons /\ nrlisteners1'[evreason[e]] = 0
    <3> SUFFICES ASSUME NEW e \in Events, InHand(e)
                 PROVE  /\ Unrun(e)' = snap'[e] /\ e \notin churned'
                        /\ snap'[e] = Matching(evreason[e])'
                        /\ evreason[e] \in Reasons /\ nrlisteners1'[evreason[e]] = 0
      BY Zenon, <1>2 DEF SameView
    <3>1. evreason[e] \in Reasons
      BY Zenon, InHandTriggered
    <3>2. Matching(evreason[e])' = Matching(evreason[e])
      BY Zenon, <1>1 DEF Matching, Registered
    <3> QED BY Zenon, <1>1, <1>2, <3>1, <3>2 DEF WalkInv, SameWork, SyncInv, SyncIdle
  <2>3. snap'[d] \ Unrun(d)' = {}
    BY Zenon, <1>2, <2>1, <2>2 DEF SameView, SameWork
  <2>4. Cardinality(snap'[d] \ Unrun(d)') = 0
    BY Zenon, <2>3 DEF CardinalityLaws, Counted
  <2> QED BY Zenon, <1>1, <2>1, <2>2, <2>4 DEF SyncTurn
<1> QED BY Zenon, <1>2, <1>3, <1>4 DEF SyncInv

----------------------------------------------------------------------------
(* eventpool_execute with the lock held: the queue becomes a list of tasks *)

(* The event at the head of the queue, and the events behind it.           *)
LEMMA QueueHead ==
  ASSUME TypeOK, ControlInv, QueueInv, eventqueue # <<>>, NEW e, e = Head(eventqueue)
  PROVE  /\ e \in Events /\ evreason[e] \in Reasons /\ tpc[e] \in {"send", "sent"}
         /\ 1 \in DOMAIN eventqueue /\ eventqueue[1] = e
         /\ mpc # "walk" => Fresh(e)
         /\ \A i \in DOMAIN Tail(eventqueue) :
              /\ i + 1 \in DOMAIN eventqueue /\ Tail(eventqueue)[i] = eventqueue[i + 1]
              /\ Tail(eventqueue)[i] \in Events \ {e}
              /\ tpc[Tail(eventqueue)[i]] \in {"send", "sent"}
              /\ Fresh(Tail(eventqueue)[i])
         /\ \A i, j \in DOMAIN Tail(eventqueue) :
              Tail(eventqueue)[i] = Tail(eventqueue)[j] => i = j
<1>1. eventqueue \in Seq(Events) /\ Unique(eventqueue)
  BY Zenon DEF TypeOK, QueueInv, Unique
<1>2. /\ e \in Events /\ 1 \in DOMAIN eventqueue /\ eventqueue[1] = e
      /\ Tail(eventqueue) \in Seq(Events)
      /\ \A i \in DOMAIN Tail(eventqueue) :
           i + 1 \in DOMAIN eventqueue /\ Tail(eventqueue)[i] = eventqueue[i + 1]
      /\ Unique(Tail(eventqueue)) /\ ~Has(Tail(eventqueue), e)
  BY Zenon, <1>1, TailElements, TailUnique
<1>3. /\ evreason[e] \in Reasons /\ tpc[e] \in {"send", "sent"} /\ (mpc # "walk" => Fresh(e))
  <2>0. /\ tpc[eventqueue[1]] \in {"send", "sent"} /\ evreason[eventqueue[1]] \in Reasons
        /\ Walking(eventqueue[1]) \/ Fresh(eventqueue[1])
    BY Zenon, <1>2 DEF QueueInv, ControlInv
  <2> QED BY Zenon, <1>2, <2>0 DEF Walking
<1>4. \A i \in DOMAIN Tail(eventqueue) :
        Tail(eventqueue)[i] \in Events \ {e} /\ ~Walking(Tail(eventqueue)[i])
  BY <1>2 DEF Has, Walking
<1>5. \A i \in DOMAIN Tail(eventqueue) :
        tpc[Tail(eventqueue)[i]] \in {"send", "sent"} /\ Fresh(Tail(eventqueue)[i])
  BY <1>2, <1>4 DEF QueueInv
<1> QED BY Zenon, <1>2, <1>3, <1>4, <1>5 DEF Unique

(* The event at the head leaves the queue.                                 *)
LEMMA OrderTail ==
  ASSUME TypeOK, DeliveryOrder, eventqueue # <<>>, eventqueue' = Tail(eventqueue),
         UNCHANGED <<wq, nodes, stamp>>
  PROVE  DeliveryOrder'
<1> DEFINE p == wq \o nodes
<1>1. p' = p
  BY Zenon
<1>2. \A i \in DOMAIN eventqueue' : i + 1 \in DOMAIN eventqueue /\ eventqueue'[i] = eventqueue[i + 1]
  BY TailElements, SMTT(30) DEF TypeOK
<1>3. \A i \in DOMAIN eventqueue' : i \in Nat
  BY TailElements DEF TypeOK
<1> HIDE DEF p
<1>4. \A i \in DOMAIN p, j \in DOMAIN eventqueue' : stamp[p[i].ev] <= stamp[eventqueue'[j]]
  BY Zenon, <1>2 DEF DeliveryOrder, p
<1>5. \A i, j \in DOMAIN eventqueue' : i < j => stamp[eventqueue'[i]] < stamp[eventqueue'[j]]
  BY <1>2, <1>3 DEF DeliveryOrder
<1> QED BY Zenon, <1>1, <1>4, <1>5 DEF DeliveryOrder, p

(* Nobody listens: done is called for a fresh event, which is forgotten.   *)
LEMMA DrainIdleStep ==
  ASSUME IInv, DrainIdle
  PROVE  DeliveryInv' /\ DeliveryOrder'
<1> USE DEF IInv, DeliveryInv, busVars, triggerVars, workVars, mainVars, initVars
<1>1. /\ mpc = "drain" /\ eventqueue # <<>> /\ eventqueue' = Tail(eventqueue)
      /\ UNCHANGED <<initVars, busVars, triggerVars, mainVars, wq, workVars,
                     sem, freed, snap, runs, churned>>
  BY Zenon DEF DrainIdle
<1>2. PICK e \in Events : e = Head(eventqueue)
  BY Zenon, <1>1, TailElements DEF TypeOK
<1>3. ndone'[e] = ndone[e] + 1 /\ \A x \in Events \ {e} : ndone'[x] = ndone[x]
  BY Zenon, <1>2 DEF DrainIdle, Done, TypeOK
<1>4. Fresh(e) /\ tpc[e] \in {"send", "sent"}
  BY Zenon, <1>1, <1>2, QueueHead
<1>5. \A x \in Events : ~Walking(x) /\ ~Walking(x)'
  BY Zenon, <1>1 DEF Walking
<1>6. \A x \in Events, l \in Listeners : ~ToWalk(x, l) /\ ~ToWalk(x, l)'
  BY Zenon, <1>5 DEF ToWalk
<1>7. SameView /\ SameWork
  BY Zenon, <1>1, <1>5, <1>6, ViewFrame
<1>8. UniqueInv' /\ ModeInv' /\ RunInv' /\ WalkInv' /\ StampInv' /\ DeliveryOrder'
  BY Zenon, <1>1, <1>7, UniqueFrame, ModeFrame, RunFrame, WalkFrame, StampFrame, OrderTail
<1>9. SemInv'
  BY Zenon, <1>1, <1>3, <1>4, <1>7 DEF SemInv, SameWork, Fresh
<1>10. SyncInv'
  <2>1. ~InHand(e)' /\ ndone'[e] = 1
    <3>1. ~ \E i \in DOMAIN nodes : nodes[i].ev = e
      BY Zenon, <1>4, FreshIdle
    <3>2. ~InHand(e)'
      BY Zenon, <1>1, <1>5, <3>1 DEF InHand
    <3>3. ndone[e] = 0
      BY Zenon, <1>4 DEF Fresh
    <3> QED BY <1>3, <3>2, <3>3
  <2>2. SyncOnce'
    <3>1. ndone'[e] <= 1
      BY <2>1
    <3>2. SyncOnce
      BY Zenon DEF SyncInv
    <3>3. \A x \in Events : InHand(x)' <=> InHand(x)
      BY Zenon, <1>1, <1>5 DEF InHand
    <3> QED BY Zenon, <1>1, <1>3, <2>1, <3>1, <3>2, <3>3 DEF SyncOnce
  <2> QED BY Zenon, <1>1, <2>2 DEF SyncInv, SyncIdle, SyncTurn
<1>11. QueueInv'
  <2>1. \A x \in Events \ {e} : Fresh(x) => Fresh(x)'
    BY Zenon, <1>1, <1>3 DEF Fresh
  <2>2. \A i \in DOMAIN eventqueue' :
          /\ eventqueue'[i] \in Events \ {e} /\ tpc[eventqueue'[i]] \in {"send", "sent"}
          /\ Fresh(eventqueue'[i])
    BY Zenon, <1>1, <1>2, QueueHead
  <2>3. \A i, j \in DOMAIN eventqueue' : eventqueue'[i] = eventqueue'[j] => i = j
    BY Zenon, <1>1, <1>2, QueueHead
  <2>4. \A x \in Events : tpc[x] \in {"new", "append", "ignored"} => Fresh(x)'
    BY Zenon, <1>4, <2>1 DEF QueueInv
  <2> QED BY Zenon, <1>1, <2>1, <2>2, <2>3, <2>4 DEF QueueInv, Fresh
<1> QED BY Zenon, <1>8, <1>9, <1>10, <1>11

(* The event at the head gets its semaphore and its snapshot, and the walk *)
(* has to make one task for each listener of the snapshot.                 *)
LEMMA DrainEventStep ==
  ASSUME CardinalityLaws, IInv, DrainEvent
  PROVE  DeliveryInv' /\ DeliveryOrder'
<1> USE DEF IInv, DeliveryInv, busVars, triggerVars, workVars, initVars
<1>1. /\ mpc = "drain" /\ eventqueue # <<>> /\ mpc' = "walk" /\ cur' = 1
      /\ UNCHANGED <<initVars, busVars, eventqueue, triggerVars, nodes,
                     nrlisteners1, wq, workVars, freed, runs, churned>>
  BY Zenon DEF DrainEvent
<1>2. PICK e \in Events : e = Head(eventqueue)
  BY Zenon, <1>1, TailElements DEF TypeOK
<1>3. PICK r \in Reasons : r = evreason[e]
  BY Zenon, <1>1, <1>2, QueueHead
<1>4. /\ Fresh(e) /\ Unrun(e) = {} /\ Todo(e) = {} /\ \A l \in Listeners : ~InNodes(e, l)
      /\ tpc[e] \in {"send", "sent"}
  BY Zenon, <1>1, <1>2, QueueHead, FreshIdle
<1>5. /\ nrlisteners[r] # 0
      /\ sem' = [sem EXCEPT ![e] = RefInit(nrlisteners[r])]
      /\ snap' = [snap EXCEPT ![e] = Matching(r)]
      /\ listeners # <<>> => ndone' = ndone
  BY Zenon, <1>2, <1>3 DEF DrainEvent
<1>6. /\ Matching(r) \in SUBSET Listeners
      /\ nrlisteners[r] = Cardinality(Matching(r)) /\ Cardinality(Matching(r)) \in Nat
  <2>1. Matching(r) \subseteq Listeners
    <3>1. listeners \in Seq(Listeners)
      BY Zenon DEF TypeOK
    <3>2. \A i \in DOMAIN listeners : listeners[i] \in Listeners
      BY Zenon, <3>1, Positions
    <3> QED BY Zenon, <3>2 DEF Matching, Registered
  <2> QED BY Zenon, <2>1 DEF ListInv, CountMatchesList, CardinalityLaws, Counted
<1>7. Matching(r) # {} /\ ndone' = ndone
  <2>1. Matching(r) # {}
    BY Zenon, <1>5, <1>6 DEF CardinalityLaws, Counted
  <2>2. listeners # <<>>
    BY <2>1 DEF Matching, Registered
  <2> QED BY Zenon, <1>5, <2>1, <2>2
<1>8. /\ snap'[e] = Matching(r) /\ sem'[e] = RefInit(nrlisteners[r])
      /\ \A x \in Events \ {e} : snap'[x] = snap[x] /\ sem'[x] = sem[x]
  BY Zenon, <1>5 DEF TypeOK
<1>9. /\ threads = NoThreads => sem'[e] = NoRef
      /\ threads # NoThreads => sem'[e] = Cardinality(Matching(r)) - 1 /\ sem'[e] # NoRef
  BY <1>5, <1>6, <1>8 DEF RefInit, NoRef, TypeOK, Threaded, NoThreads
<1>10. /\ Walking(e)' /\ InHand(e)' /\ ~InHand(e)
       /\ \A x \in Events : ~Walking(x) /\ (x # e => ~Walking(x)')
  BY Zenon, <1>1, <1>2, <1>4, InHandTask DEF Walking, InHand
<1>11. \A l \in Listeners : ToWalk(e, l)' <=> l \in Matching(r)
  <2>1. /\ listeners' = listeners /\ lreason' = lreason /\ evreason'[e] = r /\ cur' = 1
        /\ \A i \in DOMAIN listeners : i >= 1
    BY <1>1, <1>3 DEF TypeOK
  <2> QED BY Zenon, <1>10, <2>1 DEF ToWalk, Matching, Registered
<1>12. /\ \A x \in Events, l \in Listeners :
            /\ InNodes(x, l)' <=> InNodes(x, l)
            /\ InWq(x, l)' <=> InWq(x, l)
            /\ AtFunc(x, l)' <=> AtFunc(x, l)
            /\ AtTrywait(x, l)' <=> AtTrywait(x, l)
            /\ ~Counting(x, l) /\ ~Counting(x, l)'
            /\ ~ToWalk(x, l) /\ (x # e => ~ToWalk(x, l)')
       /\ \A x \in Events, w \in Workers : AtDone(w, x)' <=> AtDone(w, x)
  BY Zenon, <1>1, <1>10 DEF InNodes, InWq, AtFunc, AtTrywait, Counting, ToWalk, AtDone
<1>13. \A x \in Events \ {e} :
         Unrun(x)' = Unrun(x) /\ Todo(x)' = Todo(x) /\ (InHand(x)' <=> InHand(x))
  <2>1. \A x \in Events \ {e}, l \in Listeners : ToRun(x, l)' <=> ToRun(x, l)
    BY Zenon, <1>12 DEF ToRun
  <2> QED BY Zenon, <1>1, <1>10, <1>12, <2>1 DEF Unrun, Todo, InHand
<1>14. /\ Unrun(e)' = Matching(r) /\ Todo(e)' = Matching(r)
       /\ \A l \in Listeners : ~InWq(e, l) /\ ~AtFunc(e, l) /\ ~AtTrywait(e, l)
  <2>1. \A l \in Listeners : ~InWq(e, l) /\ ~AtFunc(e, l) /\ ~AtTrywait(e, l)
    BY Zenon, <1>4 DEF Todo, ToRun
  <2>2. \A l \in Listeners : ToRun(e, l)' <=> l \in Matching(r)
    BY Zenon, <1>4, <1>11, <1>12, <2>1 DEF ToRun
  <2> QED BY Zenon, <1>6, <1>12, <2>1, <2>2 DEF Unrun, Todo
<1>15. QueueInv'
  <2>1. \A x \in Events \ {e} : Fresh(x) => Fresh(x)'
    BY Zenon, <1>1, <1>7, <1>8 DEF Fresh
  <2>2. \A i \in DOMAIN eventqueue : eventqueue[i] \in Events
    BY DEF TypeOK
  <2>3. \A i \in DOMAIN eventqueue : eventqueue[i] # e => Fresh(eventqueue[i])'
    BY Zenon, <1>1, <1>10, <2>1, <2>2 DEF QueueInv, Fresh
  <2>4. \A i \in DOMAIN eventqueue : eventqueue[i] = e => Walking(eventqueue[i])'
    BY Zenon, <1>1, <1>2 DEF Walking
  <2> QED BY Zenon, <1>1, <1>4, <2>1, <2>3, <2>4 DEF QueueInv
<1>16. UniqueInv'
  <2>1. \A x \in Events, l \in Listeners : InNodes(x, l) => x # e /\ l \in snap'[x]
    BY Zenon, <1>4, <1>8 DEF UniqueInv
  <2> QED BY Zenon, <1>1, <1>4, <1>12, <1>14, <2>1 DEF UniqueInv
<1>17. ModeInv'
  <2>1. \A x \in Events : sem[x] # NoRef => sem'[x] # NoRef
    BY Zenon, <1>4, <1>8 DEF Fresh
  <2>2. \A i \in DOMAIN wq : wq[i].ev \in Events
    <3>1. wq \in Seq(Tasks)
      BY Zenon DEF TypeOK
    <3> QED BY Zenon, <3>1, Positions, TaskFacts
  <2>3. \A w \in Workers : wpc[w] # "idle" => wtask[w].ev \in Events
    BY Zenon, TaskFacts DEF ControlInv
  <2>4. \A x \in freed : x \in Events
    BY Zenon DEF TypeOK
  <2>5. \A x \in Events : InHand(x)' => (sem'[x] = NoRef <=> threads' = NoThreads)
    BY Zenon, <1>1, <1>8, <1>9, <1>13 DEF ModeInv
  <2> QED BY Zenon, <1>1, <2>1, <2>2, <2>3, <2>4, <2>5 DEF ModeInv
<1>18. SemInv'
  <2>1. ndone[e] = 0 /\ e \notin freed /\ \A w \in Workers : ~AtDone(w, e)
    BY Zenon, <1>4 DEF Fresh, ModeInv, AtDone
  <2>2. sem'[e] # NoRef => sem'[e] = Cardinality(Todo(e)') - 1
    BY Zenon, <1>9, <1>14
  <2>3. \A x \in Events \ {e} : Todo(x)' = Todo(x) /\ sem'[x] = sem[x]
    BY Zenon, <1>8, <1>13
  <2>4. \A x \in Events, w \in Workers : AtDone(w, x)' <=> AtDone(w, x)
    BY Zenon, <1>1 DEF AtDone
  <2>5. ndone' = ndone /\ freed' = freed
    BY Zenon, <1>1, <1>7
  <2>6. ndone'[e] <= 1
    BY <2>1, <2>5
  <2> SUFFICES ASSUME NEW x \in Events, sem'[x] # NoRef
               PROVE  /\ Todo(x)' # {} =>
                           /\ sem'[x] = Cardinality(Todo(x)') - 1
                           /\ ndone'[x] = 0 /\ x \notin freed'
                      /\ \A w \in Workers : AtDone(w, x)' =>
                           Todo(x)' = {} /\ ndone'[x] = 0 /\ x \notin freed'
                      /\ \A u, w \in Workers : AtDone(u, x)' /\ AtDone(w, x)' => u = w
                      /\ ndone'[x] <= 1
    BY Zenon DEF SemInv
  <2>7. CASE x = e
    BY Zenon, <2>1, <2>2, <2>4, <2>5, <2>6, <2>7
  <2>8. CASE x # e
    BY Zenon, <2>3, <2>4, <2>5, <2>8 DEF SemInv
  <2> QED BY Zenon, <2>7, <2>8
<1>19. RunInv'
  <2>1. \A l \in Listeners : runs'[e][l] = 0
    BY Zenon, <1>1, <1>4 DEF RunInv, Fresh
  <2>2. /\ Todo(e)' \subseteq snap'[e]
        /\ \A l \in Listeners : runs'[e][l] = IF l \in snap'[e] /\ l \notin Unrun(e)' THEN 1 ELSE 0
    BY Zenon, <1>8, <1>14, <2>1
  <2>3. \A x \in Events \ {e} :
          /\ Todo(x)' \subseteq snap'[x]
          /\ \A l \in Listeners : runs'[x][l] = IF l \in snap'[x] /\ l \notin Unrun(x)' THEN 1 ELSE 0
    BY Zenon, <1>1, <1>8, <1>13 DEF RunInv
  <2> QED BY Zenon, <2>2, <2>3 DEF RunInv
<1>20. WalkInv'
  <2>1. \A q : Matching(q)' = Matching(q)
    BY Zenon, <1>1 DEF Matching, Registered
  <2>2. Unrun(e)' = snap'[e] /\ e \notin churned' /\ snap'[e] = Matching(evreason[e])'
    BY Zenon, <1>1, <1>3, <1>4, <1>8, <1>14, <2>1 DEF Fresh
  <2>3. \A x \in Events \ {e} : InHand(x)' =>
          Unrun(x)' = snap'[x] /\ x \notin churned' /\ snap'[x] = Matching(evreason[x])'
    BY Zenon, <1>1, <1>8, <1>13, <2>1 DEF WalkInv
  <2>4. \A x \in Events, l \in Listeners : Pooled(x, l)' <=> Pooled(x, l)
    BY Zenon, <1>12 DEF Pooled
  <2>5. \A x \in Events : InHand(x)' => \A l \in Listeners : ~Pooled(x, l)'
    BY Zenon, <1>1, <1>13, <1>14, <2>4 DEF WalkInv, Pooled
  <2> QED BY Zenon, <2>2, <2>3, <2>5 DEF WalkInv
<1>21. SyncInv'
  <2>1. SyncOnce'
    BY Zenon, <1>1, <1>4, <1>7, <1>8, <1>13 DEF SyncInv, SyncOnce, Fresh
  <2> QED BY Zenon, <1>1, <2>1 DEF SyncInv, SyncIdle, SyncTurn
<1>22. StampInv' /\ DeliveryOrder'
  BY Zenon, <1>1, StampFrame, OrderFrame
<1> QED BY Zenon, <1>15, <1>16, <1>17, <1>18, <1>19, <1>20, <1>21, <1>22

(* A listener of another reason: the walk goes on.                         *)
LEMMA WalkOtherStep ==
  ASSUME IInv, WalkListener, nodes' = nodes,
         lreason[listeners[cur]] # evreason[Head(eventqueue)]
  PROVE  DeliveryInv' /\ DeliveryOrder'
<1> USE DEF IInv, DeliveryInv, busVars, triggerVars, workVars, initVars
<1>1. /\ mpc = "walk" /\ mpc' = mpc /\ cur' = cur + 1 /\ cur \in Nat
      /\ UNCHANGED <<initVars, busVars, eventqueue, triggerVars, nodes, nrlisteners1, wq,
                     workVars, sem, freed, snap, runs, ndone, churned>>
  BY Zenon DEF WalkListener, TypeOK
<1>2. \A x \in Events : Walking(x)' <=> Walking(x)
  BY Zenon, <1>1 DEF Walking
<1>3. ASSUME NEW x \in Events, NEW l \in Listeners PROVE ToWalk(x, l)' <=> ToWalk(x, l)
  <2>1. \A i \in DOMAIN listeners : i \in Nat
    <3>1. listeners \in Seq(Listeners)
      BY Zenon DEF TypeOK
    <3> QED BY Zenon, <3>1, Positions
  <2>2. Walking(x) => x = Head(eventqueue)
    BY Zenon DEF Walking
  <2>3. \A i \in DOMAIN listeners :
          i >= cur /\ listeners[i] = l /\ lreason[l] = evreason[x] /\ Walking(x) => i >= cur + 1
    BY Zenon, <1>1, <2>1, <2>2, Later
  <2>4. \A i \in DOMAIN listeners : i >= cur + 1 => i >= cur
    BY Zenon, <1>1, <2>1, Later
  <2> QED BY Zenon, <1>1, <1>2, <2>3, <2>4 DEF ToWalk
<1>4. SameView /\ SameWork
  BY Zenon, <1>1, <1>2, <1>3, ViewFrame
<1> QED BY Zenon, <1>1, <1>2, <1>4, UniqueFrame, ModeFrame, SemFrame, RunFrame, OrderFrame,
           QueueFrame, StampFrame, WalkFrame, SyncFrame

(* A listener of the event's reason: its task goes from the walk to nodes. *)
LEMMA WalkMatchStep ==
  ASSUME IInv, WalkListener, NEW e \in Events, e = Head(eventqueue),
         NEW k \in Listeners, k = listeners[cur], lreason[k] = evreason[e],
         nodes' = Append(nodes, Task(e, k))
  PROVE  DeliveryInv' /\ DeliveryOrder'
<1> USE DEF IInv, DeliveryInv, busVars, triggerVars, workVars, initVars
<1>1. /\ mpc = "walk" /\ mpc' = mpc /\ cur' = cur + 1 /\ cur \in Nat
      /\ UNCHANGED <<initVars, busVars, eventqueue, triggerVars, nrlisteners1, wq,
                     workVars, sem, freed, snap, runs, ndone, churned>>
  BY Zenon DEF WalkListener, TypeOK
<1>2. /\ cur \in DOMAIN listeners /\ Unique(listeners)
      /\ \A i \in DOMAIN listeners : i \in Nat
  <2>1. listeners \in Seq(Listeners) /\ cur \in Nat /\ 1 <= cur /\ cur <= Len(listeners)
    BY DEF TypeOK, WalkListener
  <2> QED BY Zenon, <2>1, Positions DEF ListInv, Unique
<1>3. Walking(e) /\ \A x \in Events : (Walking(x)' <=> Walking(x)) /\ (Walking(x) => x = e)
  BY Zenon, <1>1 DEF Walking
<1>4. ToWalk(e, k)
  <2>1. cur >= cur
    BY Zenon, <1>1, Later
  <2> QED BY Zenon, <1>2, <1>3, <2>1 DEF ToWalk
<1>5. ASSUME NEW x \in Events, NEW l \in Listeners
      PROVE  ToWalk(x, l)' <=> ToWalk(x, l) /\ ~(x = e /\ l = k)
  <2>1. \A i \in DOMAIN listeners : i >= cur + 1 <=> i >= cur /\ i # cur
    BY Zenon, <1>1, <1>2, Later
  <2>2. \A i \in DOMAIN listeners : listeners[i] = k <=> i = cur
    BY Zenon, <1>2 DEF Unique
  <2>3. ToWalk(x, l) => x = e
    BY Zenon, <1>3 DEF ToWalk
  <2> QED BY Zenon, <1>1, <1>3, <2>1, <2>2, <2>3 DEF ToWalk
<1>6. nodes \in Seq(Tasks) /\ Task(e, k) \in Tasks
  BY Zenon, TaskFacts DEF TypeOK
<1>7. /\ \A x \in Events, l \in Listeners :
           /\ InNodes(x, l)' <=> InNodes(x, l) \/ (x = e /\ l = k)
           /\ InWq(x, l)' <=> InWq(x, l)
           /\ AtFunc(x, l)' <=> AtFunc(x, l)
           /\ AtTrywait(x, l)' <=> AtTrywait(x, l)
           /\ ~Counting(x, l) /\ ~Counting(x, l)'
      /\ \A x \in Events, w \in Workers : AtDone(w, x)' <=> AtDone(w, x)
  <2>1. \A x \in Events, l \in Listeners : InNodes(x, l)' <=> InNodes(x, l) \/ (x = e /\ l = k)
    <3>1. \A t : Has(nodes', t) <=> t = Task(e, k) \/ Has(nodes, t)
      BY Zenon, <1>6, AppendElements
    <3>2. \A x \in Events, l \in Listeners : Task(x, l) = Task(e, k) <=> x = e /\ l = k
      <4>1. Task(e, k).ev = e /\ Task(e, k).lis = k
        BY Zenon, TaskFacts
      <4>2. \A x \in Events, l \in Listeners : Task(x, l).ev = x /\ Task(x, l).lis = l
        BY Zenon, TaskFacts
      <4>3. ASSUME NEW x \in Events, NEW l \in Listeners, Task(x, l) = Task(e, k)
            PROVE  x = e /\ l = k
        <5>1. Task(x, l).ev = x /\ Task(x, l).lis = l
          BY Zenon, <4>2
        <5> QED BY <4>1, <4>3, <5>1
      <4> QED BY Zenon, <4>3
    <3> QED BY Zenon, <3>1, <3>2 DEF InNodes, Has, Task
  <2> QED BY Zenon, <1>1, <2>1 DEF InWq, AtFunc, AtTrywait, Counting, AtDone
<1>8. SameWork
  <2>1. \A x \in Events, l \in Listeners : ToRun(x, l)' <=> ToRun(x, l)
    BY Zenon, <1>4, <1>5, <1>7 DEF ToRun
  <2>2. \A x \in Events : Unrun(x)' = Unrun(x) /\ Todo(x)' = Todo(x)
    BY Zenon, <1>7, <2>1 DEF Unrun, Todo
  <2>3. \A x \in Events : InHand(x)' => InHand(x)
    <3>1. \A i \in DOMAIN nodes' : nodes'[i].ev = e \/ \E j \in DOMAIN nodes : nodes[j] = nodes'[i]
      BY <1>6, AppendElements, TaskFacts
    <3> QED BY <1>3, <3>1 DEF InHand
  <2> QED BY Zenon, <1>7, <2>2, <2>3 DEF SameWork, Pooled
<1>9. ModeInv' /\ SemInv' /\ RunInv' /\ QueueInv' /\ StampInv' /\ WalkInv'
  BY Zenon, <1>1, <1>3, <1>8, ModeFrame, SemFrame, RunFrame, QueueFrame, StampFrame, WalkFrame
<1>10. SyncInv'
  BY Zenon, <1>1, <1>8, OnceFrame DEF SyncInv, SyncIdle, SyncTurn
<1>11. UniqueInv'
  <2>1. ~InNodes(e, k) /\ ~InWq(e, k) /\ ~AtFunc(e, k) /\ ~AtTrywait(e, k)
    BY Zenon, <1>4 DEF UniqueInv
  <2>2. Unique(nodes')
    <3>1. Unique(nodes) /\ ~Has(nodes, Task(e, k))
      BY Zenon, <2>1 DEF InNodes, Has, UniqueInv, Unique
    <3>2. Unique(Append(nodes, Task(e, k)))
      BY Zenon, <1>6, <3>1, AppendElements
    <3> QED BY Zenon, <3>2
  <2>3. k \in snap[e]
    BY Zenon, <1>4 DEF RunInv, Todo, ToRun
  <2>4. \A x \in Events, l \in Listeners :
          /\ ~(ToWalk(x, l)' /\ (InNodes(x, l)' \/ InWq(x, l)' \/ AtFunc(x, l)' \/ AtTrywait(x, l)'))
          /\ ~(InNodes(x, l)' /\ (InWq(x, l)' \/ AtFunc(x, l)' \/ AtTrywait(x, l)'))
          /\ ~(InWq(x, l)' /\ (AtFunc(x, l)' \/ AtTrywait(x, l)'))
          /\ InNodes(x, l)' => l \in snap'[x]
    <3> SUFFICES ASSUME NEW x \in Events, NEW l \in Listeners
                 PROVE  /\ ~(ToWalk(x, l)' /\ (InNodes(x, l)' \/ InWq(x, l)' \/ AtFunc(x, l)'
                                                 \/ AtTrywait(x, l)'))
                        /\ ~(InNodes(x, l)' /\ (InWq(x, l)' \/ AtFunc(x, l)' \/ AtTrywait(x, l)'))
                        /\ ~(InWq(x, l)' /\ (AtFunc(x, l)' \/ AtTrywait(x, l)'))
                        /\ InNodes(x, l)' => l \in snap'[x]
      BY Zenon
    <3>1. CASE x = e /\ l = k
      BY Zenon, <1>1, <1>5, <1>7, <2>1, <2>3, <3>1
    <3>2. CASE ~(x = e /\ l = k)
      BY Zenon, <1>1, <1>5, <1>7, <3>2 DEF UniqueInv
    <3> QED BY Zenon, <3>1, <3>2
  <2> QED BY Zenon, <1>1, <2>2, <2>4 DEF UniqueInv, Unique
<1>12. DeliveryOrder'
  <2>1. /\ wq \in Seq(Tasks) /\ eventqueue \in Seq(Events) /\ eventqueue # <<>>
        /\ stamp \in [Events -> Nat]
    BY Zenon, <1>1 DEF TypeOK, ControlInv
  <2>2. wq \o nodes \in Seq(Tasks) /\ (wq \o nodes)' = Append(wq \o nodes, Task(e, k))
    <3>1. wq \o nodes \in Seq(Tasks)
      BY Zenon, PendingElements
    <3>2. (wq \o nodes)' = wq \o Append(nodes, Task(e, k))
      BY Zenon, <1>1
    <3>3. wq \o Append(nodes, Task(e, k)) = Append(wq \o nodes, Task(e, k))
      BY <1>6, <2>1, ConcatAppend, SMTT(30)
    <3> QED BY Zenon, <3>1, <3>2, <3>3
  <2>3. Ordered(wq \o nodes, eventqueue, stamp)
    BY Zenon DEF DeliveryOrder, Ordered
  <2>4. Task(e, k).ev = Head(eventqueue)
    BY Zenon, TaskFacts
  <2>5. Ordered(Append(wq \o nodes, Task(e, k)), eventqueue, stamp)
    BY Zenon, <1>6, <2>1, <2>2, <2>3, <2>4, OrderedAppend
  <2>6. Ordered((wq \o nodes)', eventqueue', stamp')
    BY Zenon, <1>1, <2>2, <2>5
  <2> QED BY Zenon, <2>6 DEF DeliveryOrder, Ordered
<1> QED BY Zenon, <1>9, <1>10, <1>11, <1>12

(* One turn of the walk over the list of listeners.                        *)
LEMMA WalkListenerStep ==
  ASSUME IInv, WalkListener
  PROVE  DeliveryInv' /\ DeliveryOrder'
<1>1. eventqueue # <<>> /\ cur \in DOMAIN listeners
  BY DEF IInv, ControlInv, WalkListener, TypeOK
<1>2. PICK e \in Events : e = Head(eventqueue)
  BY Zenon, <1>1, TailElements DEF IInv, TypeOK
<1>3. PICK k \in Listeners : k = listeners[cur]
  BY <1>1 DEF IInv, TypeOK
<1>4. nodes' = IF lreason[k] = evreason[e] THEN Append(nodes, Task(e, k)) ELSE nodes
  BY Zenon, <1>2, <1>3 DEF WalkListener, Task
<1> QED BY Zenon, <1>2, <1>3, <1>4, WalkOtherStep, WalkMatchStep

(* The end of the list: the event leaves the queue.                        *)
LEMMA WalkEndStep ==
  ASSUME IInv, WalkEnd
  PROVE  DeliveryInv' /\ DeliveryOrder'
<1> USE DEF IInv, DeliveryInv, busVars, triggerVars, workVars, initVars
<1>1. /\ mpc = "walk" /\ mpc' = "drain" /\ cur > Len(listeners)
      /\ eventqueue' = Tail(eventqueue) /\ eventqueue # <<>>
      /\ UNCHANGED <<initVars, busVars, triggerVars, nodes, nrlisteners1, wq,
                     workVars, sem, freed, snap, runs, ndone, churned>>
  BY Zenon DEF WalkEnd, ControlInv
<1>2. PICK e \in Events : e = Head(eventqueue)
  BY Zenon, <1>1, TailElements DEF TypeOK
<1>3. \A x \in Events : ~Walking(x)'
  BY Zenon, <1>1 DEF Walking
<1>4. \A x \in Events, l \in Listeners : ~ToWalk(x, l) /\ ~ToWalk(x, l)'
  <2>1. \A i \in DOMAIN listeners : ~(i >= cur)
    BY <1>1 DEF TypeOK
  <2> QED BY Zenon, <1>3, <2>1 DEF ToWalk
<1>5. /\ \A x \in Events, l \in Listeners :
           /\ InNodes(x, l)' <=> InNodes(x, l)
           /\ InWq(x, l)' <=> InWq(x, l)
           /\ AtFunc(x, l)' <=> AtFunc(x, l)
           /\ AtTrywait(x, l)' <=> AtTrywait(x, l)
           /\ ~Counting(x, l) /\ ~Counting(x, l)'
      /\ \A x \in Events, w \in Workers : AtDone(w, x)' <=> AtDone(w, x)
  BY Zenon, <1>1 DEF InNodes, InWq, AtFunc, AtTrywait, Counting, AtDone
<1>6. SameWork
  <2>1. \A x \in Events, l \in Listeners : ToRun(x, l)' <=> ToRun(x, l)
    BY Zenon, <1>4, <1>5 DEF ToRun
  <2>2. \A x \in Events : InHand(x)' => InHand(x)
    BY Zenon, <1>1, <1>3 DEF InHand
  <2> QED BY Zenon, <1>5, <2>1, <2>2 DEF SameWork, Unrun, Todo, Pooled
<1>7. ModeInv' /\ SemInv' /\ RunInv' /\ StampInv' /\ WalkInv' /\ DeliveryOrder'
  BY Zenon, <1>1, <1>6, ModeFrame, SemFrame, RunFrame, StampFrame, WalkFrame, OrderTail
<1>8. SyncInv'
  BY Zenon, <1>1, <1>6, OnceFrame DEF SyncInv, SyncIdle, SyncTurn
<1>9. UniqueInv'
  BY Zenon, <1>1, <1>4, <1>5 DEF UniqueInv
<1>10. QueueInv'
  <2>1. \A i \in DOMAIN eventqueue' :
          /\ eventqueue'[i] \in Events \ {e} /\ tpc[eventqueue'[i]] \in {"send", "sent"}
          /\ Fresh(eventqueue'[i])
    BY Zenon, <1>1, <1>2, QueueHead
  <2>2. \A i, j \in DOMAIN eventqueue' : eventqueue'[i] = eventqueue'[j] => i = j
    BY Zenon, <1>1, <1>2, QueueHead
  <2> QED BY Zenon, <1>1, <2>1, <2>2 DEF QueueInv, Fresh
<1> QED BY Zenon, <1>7, <1>8, <1>9, <1>10

----------------------------------------------------------------------------
(* Handing a task to the thread pool                                       *)

(* The first of a list of tasks without duplicates.                        *)
LEMMA HeadTask ==
  ASSUME NEW s \in Seq(Tasks), s # <<>>, Unique(s)
  PROVE  \E e \in Events, k \in Listeners :
           /\ Head(s) = Task(e, k) /\ Tail(s) \in Seq(Tasks) /\ Unique(Tail(s))
           /\ Has(s, Task(e, k))
           /\ \A x \in Events, l \in Listeners :
                Has(Tail(s), Task(x, l)) <=> Has(s, Task(x, l)) /\ ~(x = e /\ l = k)
<1>1. /\ Head(s) \in Tasks /\ Tail(s) \in Seq(Tasks) /\ Unique(Tail(s))
      /\ \A t : Has(s, t) <=> t = Head(s) \/ Has(Tail(s), t)
      /\ ~Has(Tail(s), Head(s))
  BY Zenon, TailElements, TailUnique
<1>2. PICK e \in Events, k \in Listeners : Head(s) = Task(e, k)
  BY <1>1, TaskFacts
<1>3. \A x \in Events, l \in Listeners : Task(x, l) = Task(e, k) <=> x = e /\ l = k
  BY TaskFacts
<1> QED BY <1>1, <1>2, <1>3

(* uv_queue_work: the first task goes from nodes to the end of wq.         *)
LEMMA DispatchStep ==
  ASSUME IInv, Dispatch
  PROVE  DeliveryInv' /\ DeliveryOrder'
<1> USE DEF IInv, DeliveryInv, busVars, triggerVars, workVars, initVars
<1>1. /\ mpc = "dispatch" /\ mpc' = mpc /\ nodes # <<>> /\ threads = Threaded
      /\ wq' = Append(wq, Head(nodes)) /\ nodes' = Tail(nodes)
      /\ nodes \in Seq(Tasks) /\ wq \in Seq(Tasks)
      /\ UNCHANGED <<initVars, busVars, eventqueue, triggerVars,
                     workVars, sem, freed, snap, runs, ndone, churned>>
  BY Zenon DEF Dispatch, TypeOK
<1>2. PICK e \in Events, k \in Listeners :
        /\ Head(nodes) = Task(e, k) /\ Unique(Tail(nodes)) /\ Has(nodes, Task(e, k))
        /\ \A x \in Events, l \in Listeners :
             Has(Tail(nodes), Task(x, l)) <=> Has(nodes, Task(x, l)) /\ ~(x = e /\ l = k)
  <2>1. Unique(nodes)
    BY Zenon DEF UniqueInv, Unique
  <2> QED BY Zenon, <1>1, <2>1, HeadTask
<1>3. \A x \in Events, l \in Listeners :
        /\ InNodes(x, l)' <=> InNodes(x, l) /\ ~(x = e /\ l = k)
        /\ InWq(x, l)' <=> InWq(x, l) \/ (x = e /\ l = k)
        /\ AtFunc(x, l)' <=> AtFunc(x, l)
        /\ AtTrywait(x, l)' <=> AtTrywait(x, l)
        /\ ~Counting(x, l) /\ ~Counting(x, l)'
        /\ ~ToWalk(x, l) /\ ~ToWalk(x, l)'
  <2>1. \A x \in Events, l \in Listeners : InNodes(x, l)' <=> InNodes(x, l) /\ ~(x = e /\ l = k)
    BY Zenon, <1>1, <1>2 DEF InNodes, Has, Task
  <2>2. \A x \in Events, l \in Listeners : InWq(x, l)' <=> InWq(x, l) \/ (x = e /\ l = k)
    <3>1. \A t : Has(wq', t) <=> t = Task(e, k) \/ Has(wq, t)
      BY <1>1, <1>2, AppendElements, TaskFacts
    <3>2. \A x \in Events, l \in Listeners : Task(x, l) = Task(e, k) <=> x = e /\ l = k
      BY TaskFacts
    <3> QED BY Zenon, <3>1, <3>2 DEF InWq, Has, Task
  <2> QED BY Zenon, <1>1, <2>1, <2>2 DEF AtFunc, AtTrywait, Counting, ToWalk, Walking
<1>4. InNodes(e, k) /\ InHand(e) /\ sem[e] # NoRef
  <2>1. InNodes(e, k)
    BY Zenon, <1>2 DEF InNodes, Has
  <2>2. InHand(e)
    BY Zenon, <2>1, InHandTask DEF InHand
  <2> QED BY Zenon, <1>1, <2>1, <2>2 DEF ModeInv, Threaded, NoThreads
<1>5. SameWork
  <2>1. \A x \in Events, l \in Listeners : ToRun(x, l)' <=> ToRun(x, l)
    BY Zenon, <1>3, <1>4 DEF ToRun
  <2>2. \A x \in Events : Unrun(x)' = Unrun(x) /\ Todo(x)' = Todo(x)
    BY Zenon, <1>3, <2>1 DEF Unrun, Todo
  <2>3. \A x \in Events : InHand(x)' => InHand(x)
    <3>1. \A i \in DOMAIN nodes' : i + 1 \in DOMAIN nodes /\ nodes'[i] = nodes[i + 1]
      BY Zenon, <1>1, TailElements
    <3> QED BY Zenon, <1>1, <3>1 DEF InHand, Walking
  <2>4. \A x \in Events, w \in Workers : AtDone(w, x)' <=> AtDone(w, x)
    BY Zenon, <1>1 DEF AtDone
  <2> QED BY Zenon, <1>1, <2>2, <2>3, <2>4 DEF SameWork
<1>6. SemInv' /\ RunInv' /\ StampInv' /\ SyncOnce'
  BY Zenon, <1>1, <1>5, SemFrame, RunFrame, StampFrame, OnceFrame DEF SyncInv
<1>7. QueueInv' /\ WalkInv' /\ SyncIdle' /\ SyncTurn'
  BY Zenon, <1>1, QueueFrame DEF WalkInv, SyncIdle, SyncTurn, Walking, Threaded, NoThreads
<1>8. ModeInv'
  <2>1. \A i \in DOMAIN wq' : \/ i \in DOMAIN wq /\ wq'[i] = wq[i]
                              \/ wq'[i] = Task(e, k)
    BY <1>1, <1>2, AppendElements, TaskFacts
  <2>2. Task(e, k).ev = e
    BY Zenon, TaskFacts
  <2>3. \A i \in DOMAIN wq' : sem[wq'[i].ev] # NoRef
    BY Zenon, <1>4, <2>1, <2>2 DEF ModeInv
  <2> QED BY Zenon, <1>1, <1>5, <2>3 DEF ModeInv, SameWork
<1>9. UniqueInv'
  <2>1. ~InWq(e, k) /\ ~AtFunc(e, k) /\ ~AtTrywait(e, k)
    BY Zenon, <1>4 DEF UniqueInv
  <2>2. Unique(wq') /\ Unique(nodes')
    <3>1. Unique(wq) /\ ~Has(wq, Task(e, k)) /\ Task(e, k) \in Tasks
      BY Zenon, <2>1, TaskFacts DEF InWq, Has, UniqueInv, Unique
    <3> QED BY Zenon, <1>1, <1>2, <3>1, AppendElements
  <2>3. \A u, w \in Workers :
          wpc'[u] \in {"func", "trywait"} /\ wpc'[w] \in {"func", "trywait"}
            /\ wtask'[u] = wtask'[w] => u = w
    BY Zenon, <1>1 DEF UniqueInv
  <2>4. \A x \in Events, l \in Listeners :
          /\ ~(ToWalk(x, l) /\ (InNodes(x, l) \/ InWq(x, l) \/ AtFunc(x, l) \/ AtTrywait(x, l)))'
          /\ ~(InNodes(x, l) /\ (InWq(x, l) \/ AtFunc(x, l) \/ AtTrywait(x, l)))'
          /\ ~(InWq(x, l) /\ (AtFunc(x, l) \/ AtTrywait(x, l)))'
          /\ InNodes(x, l)' => l \in snap'[x]
    BY Zenon, <1>1, <1>3, <2>1 DEF UniqueInv
  <2> QED BY Zenon, <2>2, <2>3, <2>4 DEF UniqueInv, Unique
<1>10. DeliveryOrder'
  <2>1. (wq \o nodes)' = wq \o nodes
    BY Zenon, <1>1, ConcatMove
  <2> QED BY Zenon, <1>1, <2>1 DEF DeliveryOrder
<1> QED BY Zenon, <1>6, <1>7, <1>8, <1>9, <1>10 DEF SyncInv

----------------------------------------------------------------------------
(* The workers                                                             *)

(* The first of the pending tasks is taken.                                *)
LEMMA OrderedTail ==
  ASSUME NEW s \in Seq(Tasks), NEW t \in Seq(Tasks), s # <<>>, NEW q, NEW st,
         Ordered(s \o t, q, st)
  PROVE  Ordered(Tail(s) \o t, q, st)
<1> DEFINE p == s \o t
           a == Tail(s) \o t
<1>1. /\ \A i \in DOMAIN a : i \in Nat /\ i + 1 \in DOMAIN p /\ a[i] = p[i + 1]
  <2>1. /\ Tail(s) \in Seq(Tasks) /\ Len(Tail(s)) = Len(s) - 1 /\ Len(s) \in Nat /\ Len(s) >= 1
        /\ Len(t) \in Nat
        /\ \A i \in 1 .. Len(Tail(s)) : Tail(s)[i] = s[i + 1]
    OBVIOUS
  <2>2. /\ p \in Seq(Tasks) /\ Len(p) = Len(s) + Len(t)
        /\ \A i \in 1 .. Len(s) + Len(t) : p[i] = IF i <= Len(s) THEN s[i] ELSE t[i - Len(s)]
    BY Zenon, ConcatSeq
  <2>3. /\ a \in Seq(Tasks) /\ Len(a) = Len(s) - 1 + Len(t)
        /\ \A i \in 1 .. Len(s) - 1 + Len(t) :
             a[i] = IF i <= Len(s) - 1 THEN Tail(s)[i] ELSE t[i - (Len(s) - 1)]
    BY <2>1, ConcatSeq
  <2> HIDE DEF p, a
  <2>4. DOMAIN a = 1 .. Len(s) - 1 + Len(t) /\ DOMAIN p = 1 .. Len(s) + Len(t)
    BY <2>2, <2>3
  <2> SUFFICES ASSUME NEW i \in 1 .. Len(s) - 1 + Len(t)
               PROVE  i \in Nat /\ i + 1 \in 1 .. Len(s) + Len(t) /\ a[i] = p[i + 1]
    BY Zenon, <2>4
  <2>5. i \in Nat /\ i + 1 \in 1 .. Len(s) + Len(t)
    BY <2>1
  <2>6. CASE i <= Len(s) - 1
    BY <2>1, <2>2, <2>3, <2>5, <2>6
  <2>7. CASE ~(i <= Len(s) - 1)
    <3>1. ~(i + 1 <= Len(s)) /\ i - (Len(s) - 1) = i + 1 - Len(s)
      BY <2>1, <2>5, <2>7
    <3> QED BY <2>2, <2>3, <2>5, <2>7, <3>1, SMTT(30)
  <2> QED BY Zenon, <2>5, <2>6, <2>7
<1> HIDE DEF p, a
<1>2. \A i, j \in DOMAIN a : i < j => i + 1 < j + 1
  BY <1>1
<1>3. Ordered(p, q, st)
  BY Zenon DEF p
<1>4. Ordered(a, q, st)
  BY Zenon, <1>1, <1>2, <1>3 DEF Ordered
<1> QED BY Zenon, <1>4 DEF a

(* A step of a worker that leaves fresh events fresh.                      *)
LEMMA QueueWorker ==
  ASSUME TypeOK, QueueInv, UNCHANGED <<eventqueue, tpc, mpc>>,
         \A e \in Events : Fresh(e) => Fresh(e)'
  PROVE  QueueInv'
<1>1. \A i \in DOMAIN eventqueue : eventqueue[i] \in Events
  BY DEF TypeOK
<1> QED BY Zenon, <1>1 DEF QueueInv, Walking, Fresh

(* A step of a worker leaves the list of the main thread alone.            *)
LEMMA WorkerHand ==
  ASSUME UNCHANGED <<mpc, eventqueue, nodes, cur, listeners, lreason, evreason>>
  PROVE  /\ \A x \in Events : (InHand(x)' <=> InHand(x)) /\ (Walking(x)' <=> Walking(x))
         /\ \A x \in Events, l \in Listeners :
              /\ ToWalk(x, l)' <=> ToWalk(x, l)
              /\ InNodes(x, l)' <=> InNodes(x, l)
              /\ Counting(x, l)' <=> Counting(x, l)
         /\ \A r : Matching(r)' = Matching(r)
  BY Zenon DEF InHand, Walking, ToWalk, InNodes, Counting, Matching, Registered

(* A worker takes the first task of wq.                                    *)
LEMMA WorkerTakeStep ==
  ASSUME IInv, NEW w \in Workers, WorkerTake(w)
  PROVE  DeliveryInv' /\ DeliveryOrder'
<1> USE DEF IInv, DeliveryInv, busVars, triggerVars, mainVars, initVars
<1>1. /\ wpc[w] = "idle" /\ wq # <<>> /\ wq' = Tail(wq)
      /\ nodes \in Seq(Tasks) /\ wq \in Seq(Tasks)
      /\ UNCHANGED <<initVars, busVars, eventqueue, triggerVars, mainVars,
                     sem, freed, snap, runs, ndone, churned>>
  BY Zenon DEF WorkerTake, TypeOK
<1>2. PICK e \in Events, k \in Listeners :
        /\ Head(wq) = Task(e, k) /\ Unique(Tail(wq)) /\ Has(wq, Task(e, k))
        /\ \A x \in Events, l \in Listeners :
             Has(Tail(wq), Task(x, l)) <=> Has(wq, Task(x, l)) /\ ~(x = e /\ l = k)
  <2>1. Unique(wq)
    BY Zenon DEF UniqueInv, Unique
  <2> QED BY Zenon, <1>1, <2>1, HeadTask
<1>3. /\ wpc'[w] = "func" /\ wtask'[w] = Task(e, k)
      /\ \A u \in Workers \ {w} : wpc'[u] = wpc[u] /\ wtask'[u] = wtask[u]
  BY Zenon, <1>2 DEF WorkerTake, TypeOK
<1>4. \A x \in Events, l \in Listeners : Task(x, l) = Task(e, k) <=> x = e /\ l = k
  BY TaskFacts
<1>5. /\ \A x \in Events, l \in Listeners :
           /\ InWq(x, l)' <=> InWq(x, l) /\ ~(x = e /\ l = k)
           /\ AtFunc(x, l)' <=> AtFunc(x, l) \/ (x = e /\ l = k)
           /\ AtTrywait(x, l)' <=> AtTrywait(x, l)
      /\ \A x \in Events, u \in Workers : AtDone(u, x)' <=> AtDone(u, x)
  <2>1. \A x \in Events, l \in Listeners : InWq(x, l)' <=> InWq(x, l) /\ ~(x = e /\ l = k)
    <3>1. \A x \in Events, l \in Listeners :
            /\ InWq(x, l) <=> Has(wq, Task(x, l))
            /\ InWq(x, l)' <=> Has(Tail(wq), Task(x, l))
      BY Zenon, <1>1 DEF InWq, Has, Task
    <3> QED BY Zenon, <1>2, <3>1
  <2>2. \A x \in Events, l \in Listeners : AtFunc(x, l)' <=> AtFunc(x, l) \/ (x = e /\ l = k)
    BY Zenon, <1>1, <1>3, <1>4 DEF AtFunc, Task
  <2>3. \A x \in Events, l \in Listeners : AtTrywait(x, l)' <=> AtTrywait(x, l)
    BY Zenon, <1>1, <1>3 DEF AtTrywait, Task
  <2> QED BY Zenon, <1>1, <1>3, <2>1, <2>2, <2>3 DEF AtDone
<1>6. /\ \A x \in Events : (InHand(x)' <=> InHand(x)) /\ (Walking(x)' <=> Walking(x))
      /\ \A x \in Events, l \in Listeners :
           /\ ToWalk(x, l)' <=> ToWalk(x, l)
           /\ InNodes(x, l)' <=> InNodes(x, l)
           /\ Counting(x, l)' <=> Counting(x, l)
  BY Zenon, <1>1, WorkerHand
<1>7. InWq(e, k) /\ sem[e] # NoRef
  <2>1. PICK i \in DOMAIN wq : wq[i] = Task(e, k)
    BY Zenon, <1>2 DEF Has
  <2>2. sem[wq[i].ev] # NoRef
    BY Zenon DEF ModeInv
  <2>3. wq[i].ev = e
    BY Zenon, <2>1, TaskFacts
  <2>4. InWq(e, k)
    BY Zenon, <2>1 DEF InWq
  <2> QED BY Zenon, <2>2, <2>3, <2>4
<1>8. SameWork
  <2>1. \A x \in Events, l \in Listeners : ToRun(x, l)' <=> ToRun(x, l)
    BY Zenon, <1>5, <1>6, <1>7 DEF ToRun
  <2>2. \A x \in Events : Unrun(x)' = Unrun(x) /\ Todo(x)' = Todo(x)
    BY Zenon, <1>5, <2>1 DEF Unrun, Todo
  <2> QED BY Zenon, <1>5, <1>6, <1>7, <2>2 DEF SameWork, Pooled
<1>9. SemInv' /\ RunInv' /\ StampInv' /\ WalkInv' /\ SyncInv' /\ QueueInv'
  BY Zenon, <1>1, <1>6, <1>8, SemFrame, RunFrame, StampFrame, WalkFrame, SyncFrame, QueueFrame
<1>10. ModeInv'
  <2>1. \A i \in DOMAIN wq' : i + 1 \in DOMAIN wq /\ wq'[i] = wq[i + 1]
    BY Zenon, <1>1, TailElements
  <2>2. Task(e, k).ev = e
    BY Zenon, TaskFacts
  <2>3. \A u \in Workers : wpc'[u] # "idle" => sem[wtask'[u].ev] # NoRef
    BY Zenon, <1>3, <1>7, <2>2 DEF ModeInv
  <2>4. \A i \in DOMAIN wq' : sem[wq'[i].ev] # NoRef
    BY Zenon, <2>1 DEF ModeInv
  <2> QED BY Zenon, <1>1, <1>6, <2>3, <2>4 DEF ModeInv
<1>11. UniqueInv'
  <2>1. ~AtFunc(e, k) /\ ~AtTrywait(e, k) /\ ~ToWalk(e, k) /\ ~InNodes(e, k)
    BY Zenon, <1>7 DEF UniqueInv
  <2>2. \A u \in Workers \ {w} : wpc[u] \in {"func", "trywait"} => wtask[u] # Task(e, k)
    BY Zenon, <2>1 DEF AtFunc, AtTrywait
  <2>3. \A u, v \in Workers :
          wpc'[u] \in {"func", "trywait"} /\ wpc'[v] \in {"func", "trywait"}
            /\ wtask'[u] = wtask'[v] => u = v
    <3> SUFFICES ASSUME NEW u \in Workers, NEW v \in Workers,
                        wpc'[u] \in {"func", "trywait"}, wpc'[v] \in {"func", "trywait"},
                        wtask'[u] = wtask'[v]
                 PROVE  u = v
      BY Zenon
    <3>1. CASE u # w /\ v # w
      BY Zenon, <1>3, <3>1 DEF UniqueInv
    <3>2. CASE u = w /\ v # w
      BY Zenon, <1>3, <2>2, <3>2
    <3>3. CASE u # w /\ v = w
      BY Zenon, <1>3, <2>2, <3>3
    <3> QED BY Zenon, <3>1, <3>2, <3>3
  <2>4. Unique(wq')
    BY Zenon, <1>1, <1>2
  <2>5. \A x \in Events, l \in Listeners :
          /\ ~(ToWalk(x, l) /\ (InNodes(x, l) \/ InWq(x, l) \/ AtFunc(x, l) \/ AtTrywait(x, l)))'
          /\ ~(InNodes(x, l) /\ (InWq(x, l) \/ AtFunc(x, l) \/ AtTrywait(x, l)))'
          /\ ~(InWq(x, l) /\ (AtFunc(x, l) \/ AtTrywait(x, l)))'
          /\ InNodes(x, l)' => l \in snap'[x]
    BY Zenon, <1>1, <1>5, <1>6, <2>1 DEF UniqueInv
  <2> QED BY Zenon, <1>1, <2>3, <2>4, <2>5 DEF UniqueInv, Unique
<1>12. DeliveryOrder'
  <2>1. Ordered(wq \o nodes, eventqueue, stamp)
    BY Zenon DEF DeliveryOrder, Ordered
  <2>2. Ordered(Tail(wq) \o nodes, eventqueue, stamp)
    BY Zenon, <1>1, <2>1, OrderedTail
  <2>3. Ordered((wq \o nodes)', eventqueue', stamp')
    BY Zenon, <1>1, <2>2
  <2> QED BY Zenon, <2>3 DEF DeliveryOrder, Ordered
<1> QED BY Zenon, <1>9, <1>10, <1>11, <1>12

(* The task of a busy worker.                                              *)
LEMMA WorkerTask ==
  ASSUME IInv, NEW w \in Workers, wpc[w] # "idle"
  PROVE  \E e \in Events, k \in Listeners : wtask[w] = Task(e, k) /\ sem[e] # NoRef
<1>1. wtask[w] \in Tasks /\ sem[wtask[w].ev] # NoRef
  BY Zenon DEF IInv, ControlInv, DeliveryInv, ModeInv
<1> QED BY <1>1, TaskFacts

(* Without threads, an event in hand is not one of the thread pool's.      *)
LEMMA PoolNotInHand ==
  ASSUME IInv, NEW e \in Events, sem[e] # NoRef, threads = NoThreads
  PROVE  ~InHand(e)
  BY Zenon DEF IInv, DeliveryInv, ModeInv

(* A worker calls the listener.                                            *)
LEMMA FibFuncStep ==
  ASSUME IInv, NEW w \in Workers, FibFunc(w)
  PROVE  DeliveryInv' /\ DeliveryOrder'
<1> USE DEF IInv, DeliveryInv, busVars, triggerVars, mainVars, initVars
<1>1. /\ wpc[w] = "func" /\ wtask' = wtask
      /\ UNCHANGED <<initVars, busVars, eventqueue, triggerVars, mainVars, wq,
                     sem, freed, snap, ndone, churned>>
  BY Zenon DEF FibFunc
<1>2. PICK e \in Events, k \in Listeners : wtask[w] = Task(e, k) /\ sem[e] # NoRef
  BY Zenon, <1>1, WorkerTask
<1>3. /\ wpc'[w] = "trywait" /\ \A u \in Workers \ {w} : wpc'[u] = wpc[u]
      /\ runs'[e][k] = runs[e][k] + 1
      /\ \A x \in Events, l \in Listeners : ~(x = e /\ l = k) => runs'[x][l] = runs[x][l]
  BY <1>2, TaskFacts, SMTT(30) DEF FibFunc, Run, TypeOK
<1>4. \A x \in Events, l \in Listeners : Task(x, l) = Task(e, k) <=> x = e /\ l = k
  BY TaskFacts
<1>5. AtFunc(e, k) /\ \A u \in Workers \ {w} : wpc[u] \in {"func", "trywait"} => wtask[u] # Task(e, k)
  BY Zenon, <1>1, <1>2 DEF AtFunc, UniqueInv
<1>6. /\ \A x \in Events, l \in Listeners :
           /\ InWq(x, l)' <=> InWq(x, l)
           /\ AtFunc(x, l)' <=> AtFunc(x, l) /\ ~(x = e /\ l = k)
           /\ AtTrywait(x, l)' <=> AtTrywait(x, l) \/ (x = e /\ l = k)
      /\ \A x \in Events, u \in Workers : AtDone(u, x)' <=> AtDone(u, x)
  <2>1. \A x \in Events, l \in Listeners : AtFunc(x, l)' <=> AtFunc(x, l) /\ ~(x = e /\ l = k)
    <3> SUFFICES ASSUME NEW x \in Events, NEW l \in Listeners
                 PROVE  AtFunc(x, l)' <=> AtFunc(x, l) /\ ~(x = e /\ l = k)
      BY Zenon
    <3> DEFINE other == \E u \in Workers \ {w} : wpc[u] = "func" /\ wtask[u] = Task(x, l)
    <3>1. AtFunc(x, l)' <=> other
      BY Zenon, <1>1, <1>3 DEF AtFunc, Task
    <3>2. AtFunc(x, l) <=> other \/ (x = e /\ l = k)
      BY Zenon, <1>1, <1>2, <1>4 DEF AtFunc
    <3>3. other => ~(x = e /\ l = k)
      BY Zenon, <1>5
    <3> QED BY Zenon, <3>1, <3>2, <3>3
  <2>2. \A x \in Events, l \in Listeners : AtTrywait(x, l)' <=> AtTrywait(x, l) \/ (x = e /\ l = k)
    <3> SUFFICES ASSUME NEW x \in Events, NEW l \in Listeners
                 PROVE  AtTrywait(x, l)' <=> AtTrywait(x, l) \/ (x = e /\ l = k)
      BY Zenon
    <3> DEFINE other == \E u \in Workers \ {w} : wpc[u] = "trywait" /\ wtask[u] = Task(x, l)
    <3>1. AtTrywait(x, l)' <=> other \/ wtask[w] = Task(x, l)
      BY Zenon, <1>1, <1>3 DEF AtTrywait, Task
    <3>2. AtTrywait(x, l) <=> other
      BY Zenon, <1>1 DEF AtTrywait
    <3> QED BY Zenon, <1>2, <1>4, <3>1, <3>2
  <2> QED BY Zenon, <1>1, <1>3, <2>1, <2>2 DEF InWq, AtDone
<1>7. /\ \A x \in Events : (InHand(x)' <=> InHand(x)) /\ (Walking(x)' <=> Walking(x))
      /\ \A x \in Events, l \in Listeners :
           /\ ToWalk(x, l)' <=> ToWalk(x, l)
           /\ InNodes(x, l)' <=> InNodes(x, l)
           /\ Counting(x, l)' <=> Counting(x, l)
      /\ \A r : Matching(r)' = Matching(r)
  BY Zenon, <1>1, WorkerHand
<1>8. /\ ~AtTrywait(e, k) /\ ~ToWalk(e, k) /\ ~InNodes(e, k) /\ ~InWq(e, k)
  <2>1. ~AtTrywait(e, k)
    BY Zenon, <1>1, <1>5 DEF AtTrywait
  <2> QED BY Zenon, <1>5, <2>1 DEF UniqueInv
<1>9. /\ \A x \in Events, l \in Listeners : ToRun(x, l)' <=> ToRun(x, l) /\ ~(x = e /\ l = k)
      /\ \A x \in Events : Todo(x)' = Todo(x)
      /\ Unrun(e)' = Unrun(e) \ {k} /\ k \in Unrun(e)
      /\ \A x \in Events \ {e} : Unrun(x)' = Unrun(x)
  <2>1. \A x \in Events, l \in Listeners : ToRun(x, l)' <=> ToRun(x, l) /\ ~(x = e /\ l = k)
    BY Zenon, <1>6, <1>7, <1>8 DEF ToRun
  <2>2. \A x \in Events : Todo(x)' = Todo(x)
    BY Zenon, <1>5, <1>6, <2>1 DEF Todo, ToRun
  <2> QED BY Zenon, <1>5, <2>1, <2>2 DEF Unrun, ToRun
<1>10. SemInv'
  BY Zenon, <1>1, <1>6, <1>9 DEF SemInv
<1>11. ModeInv'
  BY Zenon, <1>1, <1>2, <1>3, <1>7 DEF ModeInv
<1>12. RunInv'
  <2>1. k \in snap[e] /\ runs[e][k] = 0
    BY Zenon, <1>9 DEF RunInv, Unrun, Todo
  <2>2. \A l \in Listeners : runs'[e][l] = IF l \in snap[e] /\ l \notin Unrun(e)' THEN 1 ELSE 0
    <3> SUFFICES ASSUME NEW l \in Listeners
                 PROVE  runs'[e][l] = IF l \in snap[e] /\ l \notin Unrun(e)' THEN 1 ELSE 0
      BY Zenon
    <3>1. CASE l = k
      BY Zenon, <1>3, <1>9, <2>1, <3>1, AfterZero
    <3>2. CASE l # k
      BY Zenon, <1>3, <1>9, <3>2 DEF RunInv
    <3> QED BY Zenon, <3>1, <3>2
  <2>3. \A x \in Events \ {e}, l \in Listeners :
          runs'[x][l] = IF l \in snap[x] /\ l \notin Unrun(x)' THEN 1 ELSE 0
    <3> SUFFICES ASSUME NEW x \in Events \ {e}, NEW l \in Listeners
                 PROVE  runs'[x][l] = IF l \in snap[x] /\ l \notin Unrun(x)' THEN 1 ELSE 0
      BY Zenon
    <3>1. runs'[x][l] = runs[x][l] /\ Unrun(x)' = Unrun(x)
      BY Zenon, <1>3, <1>9
    <3>2. runs[x][l] = IF l \in snap[x] /\ l \notin Unrun(x) THEN 1 ELSE 0
      BY Zenon DEF RunInv
    <3> QED BY Zenon, <3>1, <3>2
  <2> QED BY Zenon, <1>1, <1>9, <2>2, <2>3 DEF RunInv
<1>13. WalkInv'
  <2>1. mpc \in {"drain", "walk"} => ~InHand(e)
    BY Zenon, <1>5 DEF WalkInv, Pooled
  <2>2. \A x \in Events, l \in Listeners : Pooled(x, l)' => Pooled(x, l)
    BY Zenon, <1>6 DEF Pooled
  <2> QED BY Zenon, <1>1, <1>7, <1>9, <2>1, <2>2 DEF WalkInv
<1>14. SyncInv'
  <2>1. threads = NoThreads => \A x \in Events : InHand(x)' => InHand(x) /\ Unrun(x)' = Unrun(x)
    BY Zenon, <1>2, <1>7, <1>9, PoolNotInHand
  <2>2. SyncTurn'
    BY Zenon, <1>1, <2>1, TurnFrame DEF SyncInv
  <2> QED BY Zenon, <1>1, <1>7, <2>2 DEF SyncInv, SyncIdle, SyncOnce
<1>15. UniqueInv'
  <2>1. \A u, v \in Workers :
          wpc'[u] \in {"func", "trywait"} /\ wpc'[v] \in {"func", "trywait"}
            /\ wtask'[u] = wtask'[v] => u = v
    <3>1. \A u \in Workers :
            wpc'[u] \in {"func", "trywait"} => wpc[u] \in {"func", "trywait"}
      BY Zenon, <1>1, <1>3
    <3> QED BY Zenon, <1>1, <1>3, <3>1 DEF UniqueInv
  <2>2. \A x \in Events, l \in Listeners :
          /\ ~(ToWalk(x, l) /\ (InNodes(x, l) \/ InWq(x, l) \/ AtFunc(x, l) \/ AtTrywait(x, l)))'
          /\ ~(InNodes(x, l) /\ (InWq(x, l) \/ AtFunc(x, l) \/ AtTrywait(x, l)))'
          /\ ~(InWq(x, l) /\ (AtFunc(x, l) \/ AtTrywait(x, l)))'
          /\ InNodes(x, l)' => l \in snap'[x]
    BY Zenon, <1>1, <1>6, <1>7, <1>8 DEF UniqueInv
  <2> QED BY Zenon, <1>1, <2>1, <2>2 DEF UniqueInv
<1>16. QueueInv' /\ StampInv' /\ DeliveryOrder'
  BY Zenon, <1>1, <1>7, QueueFrame, StampFrame, OrderFrame
<1> QED BY Zenon, <1>10, <1>11, <1>12, <1>13, <1>14, <1>15, <1>16

(* Removing one element from a finite set of listeners.                    *)
LEMMA OneLess ==
  ASSUME CardinalityLaws, NEW S \in SUBSET Listeners, NEW k \in S
  PROVE  /\ Cardinality(S) \in Nat /\ Cardinality(S) >= 1
         /\ Cardinality(S \ {k}) = Cardinality(S) - 1
         /\ S \ {k} = {} <=> Cardinality(S) = 1
<1>1. Cardinality(S) \in Nat /\ Cardinality(S \ {k}) \in Nat
  BY Zenon DEF CardinalityLaws, Counted
<1>2. Cardinality(S \ {k}) = Cardinality(S) - 1
  BY Zenon DEF CardinalityLaws, Counted
<1>3. S \ {k} = {} <=> Cardinality(S \ {k}) = 0
  BY Zenon DEF CardinalityLaws, Counted
<1> QED BY <1>1, <1>2, <1>3

(* uv_sem_trywait: the worker leaves the work of its event, or is the last *)
(* one and goes on to done.                                                *)
LEMMA FibTrywaitStep ==
  ASSUME CardinalityLaws, IInv, NEW w \in Workers, FibTrywait(w)
  PROVE  DeliveryInv' /\ DeliveryOrder'
<1> USE DEF IInv, DeliveryInv, busVars, triggerVars, mainVars, initVars
<1>1. /\ wpc[w] = "trywait"
      /\ UNCHANGED <<initVars, busVars, eventqueue, triggerVars, mainVars, wq,
                     freed, snap, runs, ndone, churned>>
  BY Zenon DEF FibTrywait
<1>2. PICK e \in Events, k \in Listeners : wtask[w] = Task(e, k) /\ sem[e] # NoRef
  BY Zenon, <1>1, WorkerTask
<1>3. /\ \A u \in Workers \ {w} : wpc'[u] = wpc[u] /\ wtask'[u] = wtask[u]
      /\ \A x \in Events \ {e} : sem'[x] = sem[x]
      /\ \/ sem[e] > 0 /\ sem'[e] = sem[e] - 1 /\ wpc'[w] = "idle"
         \/ ~(sem[e] > 0) /\ sem'[e] = sem[e] /\ wpc'[w] = "done" /\ wtask'[w] = wtask[w]
  <2>1. wtask[w].ev = e
    BY Zenon, <1>2, TaskFacts
  <2> QED BY Zenon, <2>1 DEF FibTrywait, TypeOK
<1>4. \A x \in Events, l \in Listeners : Task(x, l) = Task(e, k) <=> x = e /\ l = k
  BY TaskFacts
<1>5. AtTrywait(e, k) /\ \A u \in Workers \ {w} : wpc[u] \in {"func", "trywait"} => wtask[u] # Task(e, k)
  BY Zenon, <1>1, <1>2 DEF AtTrywait, UniqueInv
<1>6. ASSUME NEW x \in Events, NEW l \in Listeners
      PROVE  /\ InWq(x, l)' <=> InWq(x, l)
             /\ AtFunc(x, l)' <=> AtFunc(x, l)
             /\ AtTrywait(x, l)' <=> AtTrywait(x, l) /\ ~(x = e /\ l = k)
  <2> DEFINE other == \E u \in Workers \ {w} : wpc[u] = "trywait" /\ wtask[u] = Task(x, l)
  <2>1. AtTrywait(x, l)' <=> other
    BY Zenon, <1>1, <1>3 DEF AtTrywait, Task
  <2>2. AtTrywait(x, l) <=> other \/ (x = e /\ l = k)
    BY Zenon, <1>1, <1>2, <1>4 DEF AtTrywait
  <2>3. other => ~(x = e /\ l = k)
    BY Zenon, <1>5
  <2>4. AtFunc(x, l)' <=> AtFunc(x, l)
    BY Zenon, <1>1, <1>3 DEF AtFunc, Task
  <2> QED BY Zenon, <1>1, <2>1, <2>2, <2>3, <2>4 DEF InWq
<1>7. /\ \A x \in Events : (InHand(x)' <=> InHand(x)) /\ (Walking(x)' <=> Walking(x))
      /\ \A x \in Events, l \in Listeners :
           /\ ToWalk(x, l)' <=> ToWalk(x, l)
           /\ InNodes(x, l)' <=> InNodes(x, l)
           /\ Counting(x, l)' <=> Counting(x, l)
      /\ \A r : Matching(r)' = Matching(r)
  BY Zenon, <1>1, WorkerHand
<1>8. ~AtFunc(e, k) /\ ~ToWalk(e, k) /\ ~InNodes(e, k) /\ ~InWq(e, k)
  <2>1. ~AtFunc(e, k)
    BY Zenon, <1>1, <1>5 DEF AtFunc
  <2> QED BY Zenon, <1>5, <2>1 DEF UniqueInv
<1>9. /\ \A x \in Events : Unrun(x)' = Unrun(x)
      /\ Todo(e)' = Todo(e) \ {k} /\ k \in Todo(e)
      /\ \A x \in Events \ {e} : Todo(x)' = Todo(x)
  <2>1. \A x \in Events, l \in Listeners : ToRun(x, l)' <=> ToRun(x, l)
    BY Zenon, <1>6, <1>7 DEF ToRun
  <2>2. ~ToRun(e, k)
    BY Zenon, <1>8 DEF ToRun
  <2> QED BY Zenon, <1>5, <1>6, <2>1, <2>2 DEF Unrun, Todo
<1>10. /\ Cardinality(Todo(e)) \in Nat /\ Cardinality(Todo(e)) >= 1
       /\ Cardinality(Todo(e)') = Cardinality(Todo(e)) - 1
       /\ Todo(e)' = {} <=> Cardinality(Todo(e)) = 1
  <2>1. Todo(e) \in SUBSET Listeners
    BY Zenon DEF Todo
  <2> QED BY Zenon, <1>9, <2>1, OneLess
<1>11. /\ sem[e] = Cardinality(Todo(e)) - 1 /\ ndone[e] = 0 /\ e \notin freed
       /\ \A u \in Workers : ~AtDone(u, e)
  BY Zenon, <1>2, <1>9 DEF SemInv
<1>12. /\ \A x \in Events : sem'[x] = NoRef <=> sem[x] = NoRef
       /\ \A x \in Events : Fresh(x) => Fresh(x)'
  <2>1. PICK n \in Nat : n = sem[e]
    BY Zenon, <1>10, <1>11, OneBelow
  <2>2. sem'[e] = n \/ (n > 0 /\ sem'[e] = n - 1)
    BY Zenon, <1>3, <2>1
  <2>3. sem'[e] # NoRef
    BY <2>2 DEF NoRef
  <2>4. \A x \in Events : sem'[x] = NoRef <=> sem[x] = NoRef
    BY Zenon, <1>2, <1>3, <2>3
  <2> QED BY Zenon, <1>1, <2>4 DEF Fresh
<1>13. \A x \in Events \ {e}, u \in Workers : AtDone(u, x)' <=> AtDone(u, x)
  <2>1. wtask[w].ev = e
    BY Zenon, <1>2, TaskFacts
  <2>2. \A x \in Events \ {e} : ~AtDone(w, x) /\ ~AtDone(w, x)'
    BY Zenon, <1>1, <1>3, <2>1 DEF AtDone
  <2>3. \A x \in Events \ {e}, u \in Workers \ {w} : AtDone(u, x)' <=> AtDone(u, x)
    BY Zenon, <1>3 DEF AtDone
  <2> QED BY Zenon, <2>2, <2>3
<1>14. SemInv'
  <2>1. \A x \in Events \ {e} : sem'[x] = sem[x] /\ Todo(x)' = Todo(x)
    BY Zenon, <1>3, <1>9
  <2>2. \A u \in Workers : AtDone(u, e)' => u = w /\ ~(sem[e] > 0)
    BY Zenon, <1>3, <1>11 DEF AtDone
  <2>3. ~(sem[e] > 0) => Todo(e)' = {}
    BY Zenon, <1>10, <1>11, OneBelow
  <2>4. Todo(e)' # {} => sem[e] > 0
    BY Zenon, <1>10, <1>11, OneBelow
  <2>5. Todo(e)' # {} => sem'[e] = Cardinality(Todo(e)') - 1
    BY Zenon, <1>3, <1>10, <1>11, <2>4
  <2>6. /\ Todo(e)' # {} => sem'[e] = Cardinality(Todo(e)') - 1 /\ ndone'[e] = 0 /\ e \notin freed'
        /\ \A u \in Workers : AtDone(u, e)' => Todo(e)' = {} /\ ndone'[e] = 0 /\ e \notin freed'
        /\ \A u, v \in Workers : AtDone(u, e)' /\ AtDone(v, e)' => u = v
        /\ ndone'[e] <= 1
    BY Zenon, <1>1, <1>2, <1>11, <2>2, <2>3, <2>5 DEF SemInv
  <2>7. ASSUME NEW x \in Events \ {e}, sem'[x] # NoRef
        PROVE  /\ Todo(x)' # {} => sem'[x] = Cardinality(Todo(x)') - 1 /\ ndone'[x] = 0 /\ x \notin freed'
               /\ \A u \in Workers : AtDone(u, x)' => Todo(x)' = {} /\ ndone'[x] = 0 /\ x \notin freed'
               /\ \A u, v \in Workers : AtDone(u, x)' /\ AtDone(v, x)' => u = v
               /\ ndone'[x] <= 1
    BY Zenon, <1>1, <1>13, <2>1, <2>7 DEF SemInv
  <2> QED BY Zenon, <2>6, <2>7 DEF SemInv
<1>15. ModeInv'
  <2>1. \A u \in Workers : wpc'[u] # "idle" => wpc[u] # "idle" /\ wtask'[u] = wtask[u]
    BY Zenon, <1>1, <1>3
  <2>2. \A i \in DOMAIN wq : wq[i].ev \in Events
    <3>1. \A i \in DOMAIN wq : wq[i] \in Tasks
      BY Zenon, InSeq DEF TypeOK
    <3> QED BY Zenon, <3>1, TaskFacts
  <2>3. \A u \in Workers : wpc[u] # "idle" => wtask[u].ev \in Events
    BY Zenon, TaskFacts DEF ControlInv
  <2>4. \A x \in freed : x \in Events
    BY Zenon DEF TypeOK
  <2>5. /\ \A i \in DOMAIN wq : sem'[wq[i].ev] # NoRef
        /\ \A x \in freed : sem'[x] # NoRef
    BY Zenon, <1>12, <2>2, <2>4 DEF ModeInv
  <2>6. \A u \in Workers : wpc[u] # "idle" => sem'[wtask[u].ev] # NoRef
    BY Zenon, <1>12, <2>3 DEF ModeInv
  <2>7. \A x \in Events : InHand(x)' => (sem'[x] = NoRef <=> threads' = NoThreads)
    BY Zenon, <1>1, <1>7, <1>12 DEF ModeInv
  <2> QED BY Zenon, <1>1, <2>1, <2>5, <2>6, <2>7 DEF ModeInv
<1>16. RunInv'
  BY Zenon, <1>1, <1>9 DEF RunInv
<1>17. WalkInv'
  <2>1. \A x \in Events, l \in Listeners : Pooled(x, l)' => Pooled(x, l)
    BY Zenon, <1>6 DEF Pooled
  <2> QED BY Zenon, <1>1, <1>7, <1>9, <2>1 DEF WalkInv
<1>18. SyncInv'
  <2>1. SyncTurn'
    BY Zenon, <1>1, <1>7, <1>9, TurnFrame DEF SyncInv
  <2> QED BY Zenon, <1>1, <1>7, <1>12, <2>1 DEF SyncInv, SyncIdle, SyncOnce
<1>19. UniqueInv'
  <2>1. \A u, v \in Workers :
          wpc'[u] \in {"func", "trywait"} /\ wpc'[v] \in {"func", "trywait"}
            /\ wtask'[u] = wtask'[v] => u = v
    <3>1. \A u \in Workers :
            wpc'[u] \in {"func", "trywait"} =>
              wpc[u] \in {"func", "trywait"} /\ wtask'[u] = wtask[u]
      BY Zenon, <1>3
    <3> QED BY Zenon, <3>1 DEF UniqueInv
  <2>2. \A x \in Events, l \in Listeners :
          /\ ~(ToWalk(x, l) /\ (InNodes(x, l) \/ InWq(x, l) \/ AtFunc(x, l) \/ AtTrywait(x, l)))'
          /\ ~(InNodes(x, l) /\ (InWq(x, l) \/ AtFunc(x, l) \/ AtTrywait(x, l)))'
          /\ ~(InWq(x, l) /\ (AtFunc(x, l) \/ AtTrywait(x, l)))'
          /\ InNodes(x, l)' => l \in snap'[x]
    BY Zenon, <1>1, <1>6, <1>7 DEF UniqueInv
  <2> QED BY Zenon, <1>1, <2>1, <2>2 DEF UniqueInv
<1>20. QueueInv' /\ StampInv' /\ DeliveryOrder'
  BY Zenon, <1>1, <1>12, QueueWorker, StampFrame, OrderFrame
<1> QED BY Zenon, <1>14, <1>15, <1>16, <1>17, <1>18, <1>19, <1>20

(* The last worker calls done and frees the semaphore.                     *)
LEMMA FibDoneStep ==
  ASSUME IInv, NEW w \in Workers, FibDone(w)
  PROVE  DeliveryInv' /\ DeliveryOrder'
<1> USE DEF IInv, DeliveryInv, busVars, triggerVars, mainVars, initVars
<1>1. /\ wpc[w] = "done"
      /\ UNCHANGED <<initVars, busVars, eventqueue, triggerVars, mainVars, wq,
                     sem, snap, runs, churned>>
  BY Zenon DEF FibDone
<1>2. PICK e \in Events, k \in Listeners : wtask[w] = Task(e, k) /\ sem[e] # NoRef
  BY Zenon, <1>1, WorkerTask
<1>3. /\ \A u \in Workers \ {w} : wpc'[u] = wpc[u] /\ wtask'[u] = wtask[u]
      /\ wpc'[w] = "idle" /\ freed' = freed \cup {e} /\ ndone'[e] = ndone[e] + 1
      /\ \A x \in Events \ {e} : ndone'[x] = ndone[x]
  <2>1. wtask[w].ev = e
    BY Zenon, <1>2, TaskFacts
  <2> QED BY Zenon, <2>1 DEF FibDone, Done, TypeOK
<1>4. \A x \in Events, l \in Listeners :
        /\ InWq(x, l)' <=> InWq(x, l)
        /\ AtFunc(x, l)' <=> AtFunc(x, l)
        /\ AtTrywait(x, l)' <=> AtTrywait(x, l)
  <2>1. \A x \in Events, l \in Listeners : InWq(x, l)' <=> InWq(x, l)
    BY Zenon, <1>1 DEF InWq, Task
  <2>2. \A x \in Events, l \in Listeners : AtFunc(x, l)' <=> AtFunc(x, l)
    BY Zenon, <1>1, <1>3 DEF AtFunc, Task
  <2>3. \A x \in Events, l \in Listeners : AtTrywait(x, l)' <=> AtTrywait(x, l)
    BY Zenon, <1>1, <1>3 DEF AtTrywait, Task
  <2> QED BY Zenon, <2>1, <2>2, <2>3
<1>5. /\ \A x \in Events : (InHand(x)' <=> InHand(x)) /\ (Walking(x)' <=> Walking(x))
      /\ \A x \in Events, l \in Listeners :
           /\ ToWalk(x, l)' <=> ToWalk(x, l)
           /\ InNodes(x, l)' <=> InNodes(x, l)
           /\ Counting(x, l)' <=> Counting(x, l)
      /\ \A r : Matching(r)' = Matching(r)
  BY Zenon, <1>1, WorkerHand
<1>6. \A x \in Events : Unrun(x)' = Unrun(x) /\ Todo(x)' = Todo(x)
  <2>1. \A x \in Events, l \in Listeners : ToRun(x, l)' <=> ToRun(x, l)
    BY Zenon, <1>4, <1>5 DEF ToRun
  <2> QED BY Zenon, <1>4, <2>1 DEF Unrun, Todo
<1>7. AtDone(w, e) /\ Todo(e) = {} /\ ndone[e] = 0 /\ \A u \in Workers \ {w} : ~AtDone(u, e)
  <2>1. AtDone(w, e)
    BY Zenon, <1>1, <1>2, TaskFacts DEF AtDone
  <2> QED BY Zenon, <1>2, <2>1 DEF SemInv
<1>8. SemInv'
  <2>1. \A u \in Workers : ~AtDone(u, e)'
    BY Zenon, <1>3, <1>7 DEF AtDone
  <2>2. \A x \in Events \ {e}, u \in Workers : AtDone(u, x)' => AtDone(u, x)
    BY Zenon, <1>3 DEF AtDone
  <2>3. ASSUME NEW x \in Events \ {e}, sem'[x] # NoRef
        PROVE  /\ Todo(x)' # {} => sem'[x] = Cardinality(Todo(x)') - 1 /\ ndone'[x] = 0 /\ x \notin freed'
               /\ \A u \in Workers : AtDone(u, x)' => Todo(x)' = {} /\ ndone'[x] = 0 /\ x \notin freed'
               /\ \A u, v \in Workers : AtDone(u, x)' /\ AtDone(v, x)' => u = v
               /\ ndone'[x] <= 1
    <3>1. sem[x] # NoRef /\ Todo(x)' = Todo(x) /\ ndone'[x] = ndone[x] /\ (x \in freed' <=> x \in freed)
      BY Zenon, <1>1, <1>3, <1>6, <2>3
    <3> QED BY Zenon, <1>1, <2>2, <3>1 DEF SemInv
  <2>4. Todo(e)' = {} /\ ndone'[e] <= 1
    BY Zenon, <1>3, <1>6, <1>7, AfterZero
  <2> QED BY Zenon, <2>1, <2>3, <2>4 DEF SemInv
<1>9. ModeInv'
  <2>1. \A u \in Workers : wpc'[u] # "idle" => wpc[u] # "idle" /\ wtask'[u] = wtask[u]
    BY Zenon, <1>1, <1>3
  <2> QED BY Zenon, <1>1, <1>2, <1>3, <1>5, <2>1 DEF ModeInv
<1>10. RunInv'
  BY Zenon, <1>1, <1>6 DEF RunInv
<1>11. WalkInv'
  <2>1. \A x \in Events, l \in Listeners : Pooled(x, l)' => Pooled(x, l)
    BY Zenon, <1>4 DEF Pooled
  <2> QED BY Zenon, <1>1, <1>5, <1>6, <2>1 DEF WalkInv
<1>12. SyncInv'
  <2>1. SyncTurn'
    BY Zenon, <1>1, <1>5, <1>6, TurnFrame DEF SyncInv
  <2> QED BY Zenon, <1>1, <1>2, <1>3, <1>5, <2>1 DEF SyncInv, SyncIdle, SyncOnce
<1>13. UniqueInv'
  <2>1. \A u, v \in Workers :
          wpc'[u] \in {"func", "trywait"} /\ wpc'[v] \in {"func", "trywait"}
            /\ wtask'[u] = wtask'[v] => u = v
    <3>1. \A u \in Workers : wpc'[u] \in {"func", "trywait"} =>
            wpc[u] \in {"func", "trywait"} /\ wtask'[u] = wtask[u]
      BY Zenon, <1>3
    <3> QED BY Zenon, <3>1 DEF UniqueInv
  <2> QED BY Zenon, <1>1, <1>4, <1>5, <2>1 DEF UniqueInv
<1>14. \A x \in Events : Fresh(x) => Fresh(x)'
  BY Zenon, <1>1, <1>2, <1>3 DEF Fresh
<1>15. QueueInv' /\ StampInv' /\ DeliveryOrder'
  BY Zenon, <1>1, <1>14, QueueWorker, StampFrame, OrderFrame
<1> QED BY Zenon, <1>8, <1>9, <1>10, <1>11, <1>12, <1>13, <1>15

----------------------------------------------------------------------------
(* eventpool_gc                                                            *)

(* What is queued is fresh, so that done is called for it once; tasks that *)
(* are with the thread pool go on as before.                               *)
LEMMA GcClearStep ==
  ASSUME IInv, GcClear
  PROVE  DeliveryInv' /\ DeliveryOrder'
<1> USE DEF IInv, DeliveryInv, triggerVars, workVars
<1>1. /\ mpc = "loop" /\ mpc' = "gc" /\ nodes = <<>> /\ eventqueue' = <<>>
      /\ UNCHANGED <<lreason, triggerVars, cur, nodes, nrlisteners1, wq, workVars,
                     sem, freed, snap, runs, churned>>
  BY Zenon DEF GcClear, ControlInv
<1>2. \A x \in Events : ndone'[x] = IF GcDone(x) THEN ndone[x] + 1 ELSE ndone[x]
  BY Zenon DEF GcClear
<1>3. /\ \A x \in Events : ~Walking(x) /\ ~Walking(x)'
      /\ \A x \in Events, l \in Listeners : ~ToWalk(x, l) /\ ~ToWalk(x, l)'
  BY Zenon, <1>1 DEF Walking, ToWalk
<1>4. SameView /\ SameWork
  BY Zenon, <1>1, <1>3, ViewFrame
<1>5. \A x \in Events : ~InHand(x) /\ ~InHand(x)'
  BY Zenon, <1>1, <1>4, NothingInHand DEF SameView
<1>6. \A x \in Events : GcDone(x) => Fresh(x) /\ tpc[x] \in {"send", "sent"}
  BY Zenon, <1>3 DEF GcDone, QueueInv
<1>7. UniqueInv' /\ RunInv' /\ StampInv'
  BY Zenon, <1>1, <1>4, UniqueFrame, RunFrame, StampFrame
<1>8. ModeInv'
  BY Zenon, <1>1, <1>5 DEF ModeInv
<1>9. SemInv'
  BY Zenon, <1>1, <1>2, <1>4, <1>6 DEF SemInv, SameWork, Fresh
<1>10. QueueInv'
  <2>1. \A x \in Events : tpc'[x] \in {"new", "append", "ignored"} => Fresh(x)'
    BY Zenon, <1>1, <1>2, <1>6 DEF QueueInv, Fresh
  <2>2. DOMAIN <<>> = {}
    OBVIOUS
  <2> QED BY Zenon, <1>1, <2>1, <2>2 DEF QueueInv
<1>11. WalkInv' /\ SyncInv'
  <2>1. SyncOnce'
    <3>1. ASSUME NEW x \in Events, GcDone(x) PROVE ndone'[x] <= 1
      <4>1. ndone[x] = 0
        BY Zenon, <1>6, <3>1 DEF Fresh
      <4>2. ndone'[x] = ndone[x] + 1
        BY Zenon, <1>2, <3>1
      <4> QED BY <4>1, <4>2
    <3>2. \A x \in Events : ~GcDone(x) => ndone'[x] = ndone[x]
      BY Zenon, <1>2
    <3> QED BY Zenon, <1>1, <1>5, <3>1, <3>2 DEF SyncInv, SyncOnce
  <2> QED BY Zenon, <1>1, <2>1 DEF WalkInv, SyncInv, SyncIdle, SyncTurn
<1>12. DeliveryOrder'
  <2>1. (wq \o nodes)' = wq \o nodes /\ stamp' = stamp /\ DOMAIN eventqueue' = {}
    BY <1>1
  <2> QED BY Zenon, <2>1 DEF DeliveryOrder
<1> QED BY Zenon, <1>7, <1>8, <1>9, <1>10, <1>11, <1>12

----------------------------------------------------------------------------
(* Without threads the main thread runs the tasks                          *)

(* The task the main thread is about to run or has just run.               *)
LEMMA SyncTask ==
  ASSUME IInv, nodes # <<>>, threads = NoThreads, mpc \in {"dispatch", "count"}
  PROVE  \E d \in Events, k \in Listeners :
           /\ Head(nodes) = Task(d, k) /\ d = Head(nodes).ev
           /\ InNodes(d, k) /\ InHand(d) /\ sem[d] = NoRef
           /\ evreason[d] \in Reasons /\ k \in snap[d]
           /\ \A l \in Listeners :
                ~InWq(d, l) /\ ~AtFunc(d, l) /\ ~AtTrywait(d, l) /\ ~ToWalk(d, l)
<1> USE DEF IInv, DeliveryInv
<1>1. Head(nodes) \in Tasks /\ 1 \in DOMAIN nodes /\ Head(nodes) = nodes[1]
  BY Zenon, TailElements DEF TypeOK
<1>2. PICK d \in Events, k \in Listeners : Head(nodes) = Task(d, k) /\ d = Head(nodes).ev
  BY <1>1, TaskFacts
<1>3. InNodes(d, k) /\ InHand(d)
  BY Zenon, <1>1, <1>2 DEF InNodes, InHand
<1>4. sem[d] = NoRef
  BY Zenon, <1>3 DEF ModeInv
<1>5. evreason[d] \in Reasons /\ k \in snap[d]
  BY Zenon, <1>3, InHandTriggered DEF UniqueInv
<1>6. \A l \in Listeners : ~InWq(d, l) /\ ~AtFunc(d, l) /\ ~AtTrywait(d, l) /\ ~ToWalk(d, l)
  <2>1. Task(d, k).ev = d /\ \A l \in Listeners : Task(d, l).ev = d
    BY Zenon, TaskFacts
  <2> QED BY Zenon, <1>4, <2>1 DEF InWq, AtFunc, AtTrywait, ToWalk, Walking, ModeInv
<1> QED BY Zenon, <1>2, <1>3, <1>4, <1>5, <1>6

(* The main thread calls the listener of the first task.                   *)
LEMMA SyncRunStep ==
  ASSUME CardinalityLaws, IInv, SyncRun
  PROVE  DeliveryInv' /\ DeliveryOrder'
<1> USE DEF IInv, DeliveryInv, busVars, triggerVars, workVars, initVars
<1>1. /\ mpc = "dispatch" /\ mpc' = "count" /\ nodes # <<>> /\ threads = NoThreads
      /\ UNCHANGED <<initVars, busVars, eventqueue, triggerVars, cur, nodes,
                     wq, workVars, sem, freed, snap, ndone, churned>>
  BY Zenon DEF SyncRun
<1>2. PICK d \in Events, k \in Listeners :
        /\ Head(nodes) = Task(d, k) /\ d = Head(nodes).ev
        /\ InNodes(d, k) /\ InHand(d) /\ sem[d] = NoRef
        /\ evreason[d] \in Reasons /\ k \in snap[d]
        /\ \A l \in Listeners :
             ~InWq(d, l) /\ ~AtFunc(d, l) /\ ~AtTrywait(d, l) /\ ~ToWalk(d, l)
  BY Zenon, <1>1, SyncTask
<1>3. /\ runs'[d][k] = runs[d][k] + 1
      /\ \A x \in Events, l \in Listeners : ~(x = d /\ l = k) => runs'[x][l] = runs[x][l]
      /\ nrlisteners1'[evreason[d]] = nrlisteners1[evreason[d]] + 1
      /\ \A r \in Reasons \ {evreason[d]} : nrlisteners1'[r] = nrlisteners1[r]
  <2>1. runs' = [runs EXCEPT ![d][k] = @ + 1] /\ runs \in [Events -> [Listeners -> Nat]]
    <3>1. Head(nodes).ev = d /\ Head(nodes).lis = k
      <4>1. Task(d, k).ev = d /\ Task(d, k).lis = k
        BY Zenon, TaskFacts
      <4> QED BY Zenon, <1>2, <4>1
    <3> QED BY Zenon, <3>1 DEF SyncRun, Run, TypeOK
  <2>2. /\ nrlisteners1' = [nrlisteners1 EXCEPT ![evreason[d]] = @ + 1]
        /\ nrlisteners1 \in [Reasons -> Nat]
    BY Zenon, <1>2 DEF SyncRun, TypeOK
  <2>3. /\ runs'[d][k] = runs[d][k] + 1
        /\ \A x \in Events, l \in Listeners : ~(x = d /\ l = k) => runs'[x][l] = runs[x][l]
    BY Zenon, <2>1
  <2> QED BY Zenon, <1>2, <2>2, <2>3
<1>4. \A x \in Events : ~Walking(x) /\ ~Walking(x)' /\ (InHand(x)' <=> InHand(x))
  BY Zenon, <1>1 DEF Walking, InHand
<1>5. /\ \A x \in Events, l \in Listeners :
           /\ InNodes(x, l)' <=> InNodes(x, l)
           /\ InWq(x, l)' <=> InWq(x, l)
           /\ AtFunc(x, l)' <=> AtFunc(x, l)
           /\ AtTrywait(x, l)' <=> AtTrywait(x, l)
           /\ ~ToWalk(x, l) /\ ~ToWalk(x, l)'
           /\ ~Counting(x, l) /\ (Counting(x, l)' <=> x = d /\ l = k)
      /\ \A x \in Events, w \in Workers : AtDone(w, x)' <=> AtDone(w, x)
  <2>1. \A x \in Events, l \in Listeners : Task(x, l) = Task(d, k) <=> x = d /\ l = k
    BY TaskFacts
  <2>2. \A x \in Events, l \in Listeners : ~Counting(x, l) /\ (Counting(x, l)' <=> x = d /\ l = k)
    BY Zenon, <1>1, <1>2, <2>1 DEF Counting, Task
  <2>3. \A x \in Events, l \in Listeners : ~ToWalk(x, l) /\ ~ToWalk(x, l)'
    BY Zenon, <1>4 DEF ToWalk
  <2> QED BY Zenon, <1>1, <2>2, <2>3 DEF InNodes, InWq, AtFunc, AtTrywait, AtDone
<1>6. /\ Unrun(d)' = Unrun(d) \ {k} /\ k \in Unrun(d) /\ Todo(d)' = Todo(d) \ {k}
      /\ \A x \in Events \ {d} : Unrun(x)' = Unrun(x) /\ Todo(x)' = Todo(x)
  <2>1. \A x \in Events, l \in Listeners : ToRun(x, l)' <=> ToRun(x, l) /\ ~(x = d /\ l = k)
    BY Zenon, <1>2, <1>5 DEF ToRun
  <2>2. ToRun(d, k)
    BY Zenon, <1>2, <1>5 DEF ToRun
  <2> QED BY Zenon, <1>2, <1>5, <2>1, <2>2 DEF Unrun, Todo
<1>7. SameView
  BY Zenon, <1>4, <1>5 DEF SameView
<1>8. UniqueInv' /\ StampInv' /\ DeliveryOrder' /\ QueueInv'
  BY Zenon, <1>1, <1>4, <1>7, UniqueFrame, StampFrame, OrderFrame, QueueFrame
<1>9. ModeInv'
  BY Zenon, <1>1, <1>4 DEF ModeInv
<1>10. SemInv'
  <2>1. \A x \in Events : sem'[x] # NoRef => x # d
    BY Zenon, <1>1, <1>2
  <2> QED BY Zenon, <1>1, <1>5, <1>6, <2>1 DEF SemInv
<1>11. RunInv'
  <2>1. k \in snap[d] /\ runs[d][k] = 0
    BY Zenon, <1>2, <1>6 DEF RunInv
  <2>2. \A l \in Listeners : runs'[d][l] = IF l \in snap[d] /\ l \notin Unrun(d)' THEN 1 ELSE 0
    <3> SUFFICES ASSUME NEW l \in Listeners
                 PROVE  runs'[d][l] = IF l \in snap[d] /\ l \notin Unrun(d)' THEN 1 ELSE 0
      BY Zenon
    <3>1. CASE l = k
      BY Zenon, <1>3, <1>6, <2>1, <3>1, AfterZero
    <3>2. CASE l # k
      <4>1. runs'[d][l] = runs[d][l]
        BY Zenon, <1>3, <3>2
      <4>2. l \in Unrun(d)' <=> l \in Unrun(d)
        BY Zenon, <1>6, <3>2
      <4>3. runs[d][l] = IF l \in snap[d] /\ l \notin Unrun(d) THEN 1 ELSE 0
        BY Zenon DEF RunInv
      <4> QED BY Zenon, <4>1, <4>2, <4>3
    <3> QED BY Zenon, <3>1, <3>2
  <2>3. \A x \in Events \ {d}, l \in Listeners :
          runs'[x][l] = IF l \in snap[x] /\ l \notin Unrun(x)' THEN 1 ELSE 0
    <3> SUFFICES ASSUME NEW x \in Events \ {d}, NEW l \in Listeners
                 PROVE  runs'[x][l] = IF l \in snap[x] /\ l \notin Unrun(x)' THEN 1 ELSE 0
      BY Zenon
    <3>1. runs'[x][l] = runs[x][l] /\ Unrun(x)' = Unrun(x)
      BY Zenon, <1>3, <1>6
    <3>2. runs[x][l] = IF l \in snap[x] /\ l \notin Unrun(x) THEN 1 ELSE 0
      BY Zenon DEF RunInv
    <3> QED BY Zenon, <3>1, <3>2
  <2>4. \A x \in Events : Todo(x)' \subseteq snap[x]
    BY Zenon, <1>6 DEF RunInv
  <2> QED BY Zenon, <1>1, <2>2, <2>3, <2>4 DEF RunInv
<1>12. WalkInv' /\ SyncIdle' /\ SyncOnce'
  BY Zenon, <1>1, <1>4 DEF WalkInv, SyncInv, SyncIdle, SyncOnce
<1>13. SyncTurn'
  <2>1. /\ \A e \in Events : InHand(e) /\ e # d => Unrun(e) = snap[e]
        /\ \A e \in Events : InHand(e) /\ e \notin churned =>
             /\ snap[e] = Matching(evreason[e])
             /\ nrlisteners1[evreason[e]] =
                  IF evreason[e] = evreason[d] THEN Cardinality(snap[d] \ Unrun(d)) ELSE 0
        /\ \A e, x \in Events : InHand(e) /\ InHand(x) /\ evreason[e] = evreason[x] =>
             (e \in churned <=> x \in churned)
    BY Zenon, <1>1, <1>2 DEF SyncInv, SyncTurn
  <2>2. Cardinality(snap[d] \ Unrun(d)') = Cardinality(snap[d] \ Unrun(d)) + 1
    <3>1. PICK S \in SUBSET Listeners : S = snap[d] \ Unrun(d)'
      BY Zenon DEF TypeOK
    <3>2. k \in S /\ S \ {k} = snap[d] \ Unrun(d)
      BY Zenon, <1>2, <1>6, <3>1
    <3>3. Cardinality(S) \in Nat /\ Cardinality(S \ {k}) = Cardinality(S) - 1
      BY Zenon, <3>2, OneLess
    <3>4. Cardinality(S) = Cardinality(S \ {k}) + 1
      BY <3>3, SMT
    <3> QED BY Zenon, <3>1, <3>2, <3>4
  <2>3. \A r : Matching(r)' = Matching(r)
    BY Zenon, <1>1 DEF Matching, Registered
  <2>4. \A e \in Events : InHand(e) => evreason[e] \in Reasons
    BY Zenon, InHandTriggered
  <2>5. \A e \in Events : InHand(e) /\ e \notin churned =>
          nrlisteners1'[evreason[e]] =
            IF evreason[e] = evreason[d] THEN Cardinality(snap[d] \ Unrun(d)') ELSE 0
    BY Zenon, <1>3, <2>1, <2>2, <2>4
  <2> QED BY Zenon, <1>1, <1>2, <1>4, <1>6, <2>1, <2>3, <2>5 DEF SyncTurn
<1> QED BY Zenon, <1>8, <1>9, <1>10, <1>11, <1>12, <1>13 DEF SyncInv

(* A task leaves the list of the main thread without going elsewhere.      *)
LEMMA OrderedDrop ==
  ASSUME NEW s \in Seq(Tasks), NEW t \in Seq(Tasks), t # <<>>, NEW q, NEW st,
         Ordered(s \o t, q, st)
  PROVE  Ordered(s \o Tail(t), q, st)
<1> DEFINE p == s \o t
           a == s \o Tail(t)
           f(i) == IF i <= Len(s) THEN i ELSE i + 1
<1>1. /\ Tail(t) \in Seq(Tasks) /\ Len(Tail(t)) = Len(t) - 1 /\ Len(t) \in Nat /\ Len(t) >= 1
      /\ Len(s) \in Nat
      /\ \A i \in 1 .. Len(Tail(t)) : Tail(t)[i] = t[i + 1]
  OBVIOUS
<1>2. /\ p \in Seq(Tasks) /\ Len(p) = Len(s) + Len(t)
      /\ \A i \in 1 .. Len(s) + Len(t) : p[i] = IF i <= Len(s) THEN s[i] ELSE t[i - Len(s)]
  BY Zenon, ConcatSeq
<1>3. /\ a \in Seq(Tasks) /\ Len(a) = Len(s) + Len(t) - 1
      /\ \A i \in 1 .. Len(s) + Len(t) - 1 : a[i] = IF i <= Len(s) THEN s[i] ELSE Tail(t)[i - Len(s)]
  <2>1. /\ a \in Seq(Tasks) /\ Len(a) = Len(s) + Len(Tail(t))
        /\ \A i \in 1 .. Len(s) + Len(Tail(t)) : a[i] = IF i <= Len(s) THEN s[i] ELSE Tail(t)[i - Len(s)]
    BY Zenon, <1>1, ConcatSeq
  <2>2. Len(s) + Len(Tail(t)) = Len(s) + Len(t) - 1
    BY Zenon, <1>1
  <2> QED BY Zenon, <2>1, <2>2
<1> HIDE DEF p, a
<1>4. DOMAIN a = 1 .. Len(s) + Len(t) - 1 /\ DOMAIN p = 1 .. Len(s) + Len(t)
  BY <1>2, <1>3
<1>5. ASSUME NEW i \in 1 .. Len(s) + Len(t) - 1
      PROVE  i \in Nat /\ f(i) \in DOMAIN p /\ a[i] = p[f(i)]
  <2>1. i \in Nat /\ f(i) \in DOMAIN p
    BY <1>1, <1>4
  <2>2. CASE i <= Len(s)
    BY Zenon, <1>2, <1>3, <1>4, <2>1, <2>2
  <2>3. CASE ~(i <= Len(s))
    <3>1. /\ i - Len(s) \in 1 .. Len(Tail(t)) /\ (i - Len(s)) + 1 = (i + 1) - Len(s)
          /\ ~(i + 1 <= Len(s)) /\ f(i) = i + 1
      BY <1>1, <2>1, <2>3
    <3>2. a[i] = Tail(t)[i - Len(s)] /\ Tail(t)[i - Len(s)] = t[(i - Len(s)) + 1]
      BY Zenon, <1>1, <1>3, <2>3, <3>1
    <3>3. p[i + 1] = t[(i + 1) - Len(s)]
      BY Zenon, <1>2, <1>4, <2>1, <3>1
    <3> QED BY Zenon, <2>1, <3>1, <3>2, <3>3
  <2> QED BY Zenon, <2>1, <2>2, <2>3
<1>6. \A i, j \in DOMAIN a : i < j => f(i) < f(j)
  BY <1>1, <1>4
<1> HIDE DEF f
<1>7. \A i \in DOMAIN a : f(i) \in DOMAIN p /\ a[i] = p[f(i)]
  BY Zenon, <1>4, <1>5
<1>8. Ordered(p, q, st)
  BY Zenon DEF p
<1>9. Ordered(a, q, st)
  BY Zenon, <1>6, <1>7, <1>8 DEF Ordered
<1> QED BY Zenon, <1>9 DEF a

(* The tasks of one event are together in nodes: once the next task is of  *)
(* another event, none of the event that was first is left.                *)
LEMMA Contiguous ==
  ASSUME IInv, nodes # <<>>, Tail(nodes) # <<>>, NEW d \in Events, d = Head(nodes).ev,
         Head(Tail(nodes)).ev # d
  PROVE  \A i \in DOMAIN Tail(nodes) : Tail(nodes)[i].ev # d
<1> USE DEF IInv, DeliveryInv
<1>1. nodes \in Seq(Tasks) /\ wq \in Seq(Tasks) /\ stamp \in [Events -> Nat]
  BY Zenon DEF TypeOK
<1>2. \A i, j \in DOMAIN nodes : i < j => stamp[nodes[i].ev] <= stamp[nodes[j].ev]
  <2> DEFINE p == wq \o nodes
  <2>1. /\ Len(wq) \in Nat
        /\ \A i \in DOMAIN nodes : i \in Nat /\ Len(wq) + i \in DOMAIN p /\ p[Len(wq) + i] = nodes[i]
    BY <1>1, SMTT(30)
  <2>2. \A i, j \in DOMAIN p : i < j => stamp[p[i].ev] <= stamp[p[j].ev]
    BY Zenon DEF DeliveryOrder
  <2> HIDE DEF p
  <2>3. \A i, j \in DOMAIN nodes : i < j => Len(wq) + i < Len(wq) + j
    BY <2>1
  <2> QED BY Zenon, <2>1, <2>2, <2>3
<1>3. Tail(nodes) \in Seq(Tasks) /\ Head(nodes) = nodes[1] /\ 1 \in DOMAIN nodes
      /\ \A i \in DOMAIN Tail(nodes) : i + 1 \in DOMAIN nodes /\ Tail(nodes)[i] = nodes[i + 1]
  BY Zenon, <1>1, TailElements
<1>4. /\ 1 \in DOMAIN Tail(nodes) /\ Head(Tail(nodes)) = Tail(nodes)[1]
      /\ \A i \in DOMAIN Tail(nodes) : i \in Nat /\ 1 <= i
  BY Zenon, <1>3, TailElements, Positions
<1> SUFFICES ASSUME NEW i \in DOMAIN Tail(nodes), Tail(nodes)[i].ev = d PROVE FALSE
  BY Zenon
<1>5. PICK x \in Events : x = Head(Tail(nodes)).ev /\ x = nodes[2].ev /\ 2 \in DOMAIN nodes
  <2>1. 2 \in DOMAIN nodes /\ Head(Tail(nodes)) = nodes[2]
    <3>1. 1 + 1 = 2
      OBVIOUS
    <3> QED BY Zenon, <1>3, <1>4, <3>1
  <2>2. nodes[2] \in Tasks
    BY Zenon, <1>1, <2>1, InSeq
  <2> QED BY Zenon, <2>1, <2>2, TaskFacts
<1>6. stamp[d] <= stamp[x]
  BY <1>2, <1>3, <1>5
<1>7. i # 1 /\ 2 < i + 1
  BY <1>4
<1>8. stamp[x] <= stamp[d]
  BY Zenon, <1>2, <1>3, <1>5, <1>7
<1>9. stamp[d] = stamp[x] /\ stamp[d] > 0
  <2>1. InHand(d)
    BY Zenon, <1>3 DEF InHand
  <2>2. stamp[d] > 0
    BY Zenon, <2>1, InHandTriggered DEF StampInv
  <2> QED BY <1>1, <1>6, <1>8, <2>2
<1> QED BY Zenon, <1>5, <1>9 DEF StampInv

(* The main thread drops the task it has run, and calls done when          *)
(* nrlisteners1 has reached nrlisteners: for an event that was not churned *)
(* that is after its last task.                                            *)
LEMMA SyncCountStep ==
  ASSUME CardinalityLaws, IInv, SyncCount
  PROVE  DeliveryInv' /\ DeliveryOrder'
<1> USE DEF IInv, DeliveryInv, busVars, triggerVars, workVars, initVars
<1>1. /\ mpc = "count" /\ mpc' = "dispatch" /\ nodes # <<>> /\ threads = NoThreads
      /\ nodes' = Tail(nodes) /\ nodes \in Seq(Tasks) /\ wq \in Seq(Tasks)
      /\ UNCHANGED <<initVars, busVars, eventqueue, triggerVars, cur, wq, workVars,
                     sem, freed, snap, runs, churned>>
  BY Zenon DEF SyncCount, ControlInv, TypeOK
<1>2. PICK d \in Events, k \in Listeners :
        /\ Head(nodes) = Task(d, k) /\ d = Head(nodes).ev
        /\ InNodes(d, k) /\ InHand(d) /\ sem[d] = NoRef
        /\ evreason[d] \in Reasons /\ k \in snap[d]
        /\ \A l \in Listeners :
             ~InWq(d, l) /\ ~AtFunc(d, l) /\ ~AtTrywait(d, l) /\ ~ToWalk(d, l)
  BY Zenon, <1>1, SyncTask
<1>3. PICK r \in Reasons : r = evreason[d]
  BY Zenon, <1>2
<1>4. /\ nrlisteners1[r] = nrlisteners[r] =>
           ndone'[d] = ndone[d] + 1 /\ nrlisteners1'[r] = 0
      /\ nrlisteners1[r] # nrlisteners[r] => ndone' = ndone /\ nrlisteners1' = nrlisteners1
      /\ \A x \in Events \ {d} : ndone'[x] = ndone[x]
      /\ \A q \in Reasons \ {r} : nrlisteners1'[q] = nrlisteners1[q]
  BY Zenon, <1>2, <1>3 DEF SyncCount, Done, TypeOK
<1>5. /\ Tail(nodes) \in Seq(Tasks) /\ Unique(Tail(nodes))
      /\ \A x \in Events, l \in Listeners :
           Has(Tail(nodes), Task(x, l)) <=> Has(nodes, Task(x, l)) /\ ~(x = d /\ l = k)
  <2>1. Unique(nodes)
    BY Zenon DEF UniqueInv, Unique
  <2>2. PICK e \in Events, m \in Listeners :
          /\ Head(nodes) = Task(e, m) /\ Tail(nodes) \in Seq(Tasks) /\ Unique(Tail(nodes))
          /\ \A x \in Events, l \in Listeners :
               Has(Tail(nodes), Task(x, l)) <=> Has(nodes, Task(x, l)) /\ ~(x = e /\ l = m)
    BY Zenon, <1>1, <2>1, HeadTask
  <2>3. e = d /\ m = k
    <3>1. Task(e, m) = Task(d, k)
      BY Zenon, <1>2, <2>2
    <3>2. /\ Task(e, m).ev = e /\ Task(e, m).lis = m
          /\ Task(d, k).ev = d /\ Task(d, k).lis = k
      BY Zenon, TaskFacts
    <3> QED BY Zenon, <3>1, <3>2
  <2> QED BY Zenon, <2>2, <2>3
<1>6. /\ \A x \in Events, l \in Listeners :
           /\ InNodes(x, l)' <=> InNodes(x, l) /\ ~(x = d /\ l = k)
           /\ InWq(x, l)' <=> InWq(x, l)
           /\ AtFunc(x, l)' <=> AtFunc(x, l)
           /\ AtTrywait(x, l)' <=> AtTrywait(x, l)
           /\ ~ToWalk(x, l) /\ ~ToWalk(x, l)'
           /\ ~Counting(x, l)' /\ (Counting(x, l) <=> x = d /\ l = k)
      /\ \A x \in Events, w \in Workers : AtDone(w, x)' <=> AtDone(w, x)
  <2>1. \A x \in Events, l \in Listeners : InNodes(x, l)' <=> InNodes(x, l) /\ ~(x = d /\ l = k)
    BY Zenon, <1>1, <1>5 DEF InNodes, Has, Task
  <2>2. \A x \in Events, l \in Listeners : Task(x, l) = Task(d, k) <=> x = d /\ l = k
    BY TaskFacts
  <2>3. \A x \in Events, l \in Listeners : ~Counting(x, l)' /\ (Counting(x, l) <=> x = d /\ l = k)
    BY Zenon, <1>1, <1>2, <2>2 DEF Counting
  <2>4. \A x \in Events, l \in Listeners : ~ToWalk(x, l) /\ ~ToWalk(x, l)'
    BY Zenon, <1>1 DEF ToWalk, Walking
  <2> QED BY Zenon, <1>1, <2>1, <2>3, <2>4 DEF InWq, AtFunc, AtTrywait, AtDone
<1>7. \A x \in Events : InHand(x)' => InHand(x) /\ \E l \in Listeners : InNodes(x, l) /\ ~(x = d /\ l = k)
  <2>1. ASSUME NEW x \in Events, NEW i \in DOMAIN nodes', nodes'[i].ev = x
        PROVE  InHand(x) /\ \E l \in Listeners : InNodes(x, l) /\ ~(x = d /\ l = k)
    <3>1. nodes'[i] \in Tasks
      BY Zenon, <1>1, <1>5, Positions
    <3>2. PICK l \in Listeners : nodes'[i] = Task(x, l)
      BY <2>1, <3>1, TaskFacts
    <3>3. Has(nodes', Task(x, l))
      BY Zenon, <3>2 DEF Has
    <3>4. Has(nodes, Task(x, l)) /\ ~(x = d /\ l = k)
      BY Zenon, <1>1, <1>5, <3>3
    <3> QED BY Zenon, <3>4, InHandTask DEF InNodes, InHand, Has
  <2> QED BY Zenon, <1>1, <2>1 DEF InHand, Walking
<1>8. SameWork
  <2>1. \A x \in Events, l \in Listeners : ToRun(x, l)' <=> ToRun(x, l)
    BY Zenon, <1>6 DEF ToRun
  <2> QED BY Zenon, <1>1, <1>6, <1>7, <2>1 DEF SameWork, Unrun, Todo
<1>9. RunInv' /\ StampInv' /\ WalkInv' /\ SyncIdle'
  BY Zenon, <1>1, <1>8, RunFrame, StampFrame DEF WalkInv, SyncIdle
<1>10. ModeInv'
  BY Zenon, <1>1, <1>7 DEF ModeInv
<1>11. SemInv'
  <2>1. \A x \in Events : sem'[x] # NoRef => x # d
    BY Zenon, <1>1, <1>2
  <2> QED BY Zenon, <1>1, <1>4, <1>8, <2>1 DEF SemInv, SameWork
<1>12. UniqueInv'
  <2>1. \A x \in Events, l \in Listeners :
          /\ ~(ToWalk(x, l) /\ (InNodes(x, l) \/ InWq(x, l) \/ AtFunc(x, l) \/ AtTrywait(x, l)))'
          /\ ~(InNodes(x, l) /\ (InWq(x, l) \/ AtFunc(x, l) \/ AtTrywait(x, l)))'
          /\ ~(InWq(x, l) /\ (AtFunc(x, l) \/ AtTrywait(x, l)))'
          /\ InNodes(x, l)' => l \in snap'[x]
    BY Zenon, <1>1, <1>6 DEF UniqueInv
  <2> QED BY Zenon, <1>1, <1>5, <2>1 DEF UniqueInv, Unique
<1>13. QueueInv'
  <2>1. \A x \in Events : ~Walking(x) /\ ~Walking(x)'
    BY Zenon, <1>1 DEF Walking
  <2>2. ~Fresh(d)
    BY Zenon, <1>2, FreshIdle
  <2>3. \A x \in Events : Fresh(x) => Fresh(x)'
    BY Zenon, <1>1, <1>4, <2>2 DEF Fresh
  <2>4. \A i \in DOMAIN eventqueue : eventqueue[i] \in Events
    BY DEF TypeOK
  <2> QED BY Zenon, <1>1, <2>1, <2>3, <2>4 DEF QueueInv, Fresh
<1>14. DeliveryOrder'
  <2>1. Ordered(wq \o nodes, eventqueue, stamp)
    BY Zenon DEF DeliveryOrder, Ordered
  <2>2. Ordered(wq \o Tail(nodes), eventqueue, stamp)
    BY Zenon, <1>1, <2>1, OrderedDrop
  <2>3. Ordered((wq \o nodes)', eventqueue', stamp')
    BY Zenon, <1>1, <2>2
  <2> QED BY Zenon, <2>3 DEF DeliveryOrder, Ordered
<1>15. /\ \A e \in Events : InHand(e) /\ e # d => Unrun(e) = snap[e]
       /\ \A e \in Events : InHand(e) /\ e \notin churned =>
            /\ snap[e] = Matching(evreason[e])
            /\ nrlisteners1[evreason[e]] =
                 IF evreason[e] = r THEN Cardinality(snap[d] \ Unrun(d)) ELSE 0
       /\ \A e, x \in Events : InHand(e) /\ InHand(x) /\ evreason[e] = evreason[x] =>
            (e \in churned <=> x \in churned)
  BY Zenon, <1>1, <1>2, <1>3 DEF SyncInv, SyncTurn
<1>16. d \notin churned =>
         /\ Unrun(d) # {} => nrlisteners1[r] # nrlisteners[r]
         /\ Unrun(d) = {} => nrlisteners1[r] = nrlisteners[r]
  <2> SUFFICES ASSUME d \notin churned
               PROVE  /\ Unrun(d) # {} => nrlisteners1[r] # nrlisteners[r]
                      /\ Unrun(d) = {} => nrlisteners1[r] = nrlisteners[r]
    BY Zenon
  <2>1. nrlisteners1[r] = Cardinality(snap[d] \ Unrun(d)) /\ nrlisteners[r] = Cardinality(snap[d])
    BY Zenon, <1>2, <1>3, <1>15 DEF ListInv, CountMatchesList
  <2>2. snap[d] \in SUBSET Listeners /\ Unrun(d) \subseteq snap[d]
    BY Zenon DEF RunInv, Unrun, Todo, TypeOK
  <2>3. Unrun(d) # {} => snap[d] \ Unrun(d) # snap[d] /\ snap[d] \ Unrun(d) \subseteq snap[d]
    BY Zenon, <2>2
  <2>4. Unrun(d) # {} => Cardinality(snap[d] \ Unrun(d)) # Cardinality(snap[d])
    BY Zenon, <2>2, <2>3 DEF CardinalityLaws, Counted
  <2>5. Unrun(d) = {} => snap[d] \ Unrun(d) = snap[d]
    BY Zenon
  <2> QED BY Zenon, <2>1, <2>4, <2>5
<1>17. InHand(d)' => Unrun(d) # {}
  <2>1. \A l \in Listeners : InNodes(d, l) /\ l # k => ToRun(d, l)
    BY Zenon, <1>6 DEF ToRun
  <2> QED BY Zenon, <1>7, <2>1 DEF Unrun
<1>18. SyncOnce'
  <2>1. d \notin churned => ndone'[d] <= 1 /\ (InHand(d)' => ndone'[d] = 0)
    <3> SUFFICES ASSUME d \notin churned
                 PROVE  ndone'[d] <= 1 /\ (InHand(d)' => ndone'[d] = 0)
      BY Zenon
    <3>1. ndone[d] = 0
      BY Zenon, <1>2 DEF SyncInv, SyncOnce
    <3>2. CASE nrlisteners1[r] = nrlisteners[r]
      BY Zenon, <1>4, <1>16, <1>17, <3>1, <3>2, AfterZero
    <3>3. CASE nrlisteners1[r] # nrlisteners[r]
      BY Zenon, <1>4, <3>1, <3>3, AfterZero
    <3> QED BY Zenon, <3>2, <3>3
  <2> QED BY Zenon, <1>1, <1>4, <1>7, <2>1 DEF SyncInv, SyncOnce
<1>19. SyncTurn'
  <2> SUFFICES ASSUME nodes' # <<>> PROVE SyncTurn'
    BY Zenon DEF SyncTurn
  <2>1. PICK x \in Events : x = Head(nodes').ev /\ InHand(x)'
    <3>1. Head(nodes') \in Tasks /\ 1 \in DOMAIN nodes' /\ Head(nodes') = nodes'[1]
      BY Zenon, <1>1, <1>5, TailElements
    <3> QED BY Zenon, <3>1, TaskFacts DEF InHand
  <2>2. /\ \A q : Matching(q)' = Matching(q)
        /\ \A e \in Events : InHand(e)' => InHand(e) /\ evreason[e] \in Reasons /\ Unrun(e)' = Unrun(e)
    BY Zenon, <1>1, <1>7, <1>8, InHandTriggered DEF Matching, Registered, SameWork
  <2>3. x # d => Unrun(d) = {} /\ ~InHand(d)'
    <3> SUFFICES ASSUME x # d PROVE Unrun(d) = {} /\ ~InHand(d)'
      BY Zenon
    <3>1. \A i \in DOMAIN Tail(nodes) : Tail(nodes)[i].ev # d
      BY Zenon, <1>1, <1>2, <2>1, Contiguous
    <3>2. ~InHand(d)'
      BY Zenon, <1>1, <3>1 DEF InHand, Walking
    <3>3. \A l \in Listeners : ~InNodes(d, l)'
      BY <1>1, <3>1, TaskFacts DEF InNodes, Task
    <3>4. \A l \in Listeners : ~ToRun(d, l)
      BY Zenon, <1>2, <1>6, <3>3 DEF ToRun
    <3> QED BY Zenon, <3>2, <3>4 DEF Unrun
  <2>4. \A e \in Events : InHand(e)' /\ e # x => Unrun(e)' = snap'[e]
    BY Zenon, <1>1, <1>15, <2>2, <2>3
  <2>5. \A e \in Events : InHand(e)' /\ e \notin churned => snap'[e] = Matching(evreason[e])'
    BY Zenon, <1>1, <1>15, <2>2
  <2>6. \A e \in Events : InHand(e)' /\ e \notin churned =>
          nrlisteners1'[evreason[e]] =
            IF evreason[e] = evreason[x] THEN Cardinality(snap[x] \ Unrun(x)) ELSE 0
    <3> SUFFICES ASSUME NEW e \in Events, InHand(e)', e \notin churned
                 PROVE  nrlisteners1'[evreason[e]] =
                          IF evreason[e] = evreason[x] THEN Cardinality(snap[x] \ Unrun(x)) ELSE 0
      BY Zenon
    <3>1. evreason[e] = r => d \notin churned
      BY Zenon, <1>2, <1>3, <1>15, <2>2
    <3>2. CASE x = d
      <4>1. d \notin churned => nrlisteners1' = nrlisteners1
        BY Zenon, <1>4, <1>16, <1>17, <2>1, <3>2
      <4>2. nrlisteners1'[evreason[e]] = nrlisteners1[evreason[e]]
        BY Zenon, <1>4, <2>2, <3>1, <4>1
      <4> QED BY Zenon, <1>3, <1>15, <2>2, <3>2, <4>2
    <3>3. CASE x # d
      <4>1. Cardinality(snap[x] \ Unrun(x)) = 0
        <5>1. Unrun(x) = snap[x]
          BY Zenon, <1>15, <2>1, <2>2, <3>3
        <5>2. snap[x] \ Unrun(x) = {}
          BY Zenon, <5>1
        <5> QED BY Zenon, <5>2 DEF CardinalityLaws, Counted
      <4>2. evreason[e] = r => nrlisteners1'[r] = 0
        BY Zenon, <1>4, <1>16, <2>3, <3>1, <3>3
      <4>3. evreason[e] # r => nrlisteners1'[evreason[e]] = 0
        BY Zenon, <1>4, <1>15, <2>2
      <4> QED BY Zenon, <4>1, <4>2, <4>3
    <3> QED BY Zenon, <3>2, <3>3
  <2>7. \A e, y \in Events : InHand(e)' /\ InHand(y)' /\ evreason[e] = evreason[y] =>
          (e \in churned <=> y \in churned)
    BY Zenon, <1>15, <2>2
  <2>8. snap'[x] \ Unrun(x)' = snap[x] \ Unrun(x)
    BY Zenon, <1>1, <2>1, <2>2
  <2> QED BY Zenon, <1>1, <2>1, <2>4, <2>5, <2>6, <2>7, <2>8 DEF SyncTurn
<1> QED BY Zenon, <1>9, <1>10, <1>11, <1>12, <1>13, <1>14, <1>18, <1>19 DEF SyncInv

----------------------------------------------------------------------------
(* The inductive invariant and what follows from it                        *)

(* At the start there are no events, tasks or listeners.                   *)
LEMMA DeliveryInit ==
  ASSUME CardinalityLaws
  PROVE  Init => IInv
<1> SUFFICES ASSUME Init PROVE IInv
  BY Zenon
<1>1. TypeOK /\ ControlInv /\ ListInv
  BY Zenon, TypeControlInit, ListInit DEF TypeControl
<1>2. /\ nodes = <<>> /\ wq = <<>> /\ eventqueue = <<>> /\ mpc = "loop" /\ freed = {} /\ churned = {}
      /\ \A w \in Workers : wpc[w] = "idle"
      /\ \A e \in Events : /\ sem[e] = NoRef /\ snap[e] = {} /\ ndone[e] = 0 /\ stamp[e] = 0
                           /\ tpc[e] = "new" /\ \A l \in Listeners : runs[e][l] = 0
      /\ \A r \in Reasons : nrlisteners1[r] = 0
  BY Zenon DEF Init
<1>9. DOMAIN nodes = {} /\ DOMAIN wq = {} /\ DOMAIN eventqueue = {}
  BY <1>2
<1>3. \A e \in Events, l \in Listeners :
        ~InNodes(e, l) /\ ~InWq(e, l) /\ ~AtFunc(e, l) /\ ~AtTrywait(e, l) /\ ~ToWalk(e, l)
  BY Zenon, <1>2, <1>9 DEF InNodes, InWq, AtFunc, AtTrywait, ToWalk, Walking
<1>4. \A e \in Events : Unrun(e) = {} /\ Todo(e) = {} /\ ~InHand(e)
  <2>1. \A e \in Events : ~Walking(e)
    BY Zenon, <1>2 DEF Walking
  <2>2. \A e \in Events : ~InHand(e)
    BY Zenon, <1>9, <2>1 DEF InHand
  <2> QED BY Zenon, <1>3, <2>2 DEF Unrun, Todo, ToRun
<1>5. QueueInv /\ UniqueInv /\ ModeInv
  <2>1. QueueInv
    BY Zenon, <1>2, <1>9 DEF QueueInv, Fresh
  <2>2. UniqueInv
    BY Zenon, <1>2, <1>3, <1>9 DEF UniqueInv
  <2>3. ModeInv
    BY Zenon, <1>2, <1>4, <1>9 DEF ModeInv
  <2> QED BY Zenon, <2>1, <2>2, <2>3
<1>6. SemInv /\ RunInv /\ WalkInv /\ SyncInv
  <2>1. SemInv
    BY Zenon, <1>2 DEF SemInv
  <2>2. RunInv
    BY Zenon, <1>2, <1>4 DEF RunInv
  <2>3. WalkInv
    BY Zenon, <1>4 DEF WalkInv
  <2>4. 0 <= 1
    OBVIOUS
  <2>5. SyncInv
    BY Zenon, <1>2, <1>4, <2>4 DEF SyncInv, SyncIdle, SyncOnce, SyncTurn
  <2> QED BY Zenon, <2>1, <2>2, <2>3, <2>5
<1>7. StampInv
  <2>1. {x \in Events : stamp[x] > 0} = {}
    BY <1>2
  <2>2. Cardinality({x \in Events : stamp[x] > 0}) = 0
    BY Zenon, <2>1 DEF CardinalityLaws, Counted
  <2>3. \A e \in Events : stamp[e] <= 0
    BY <1>2
  <2>4. \A e \in Events : stamp[e] <= Cardinality({x \in Events : stamp[x] > 0})
    BY <2>2, <2>3, Zenon
  <2> QED BY <1>2, <2>4 DEF StampInv
<1>8. DeliveryOrder
  BY <1>2 DEF DeliveryOrder
<1> QED BY Zenon, <1>1, <1>5, <1>6, <1>7, <1>8 DEF IInv, DeliveryInv

(* A step that changes nothing.                                            *)
LEMMA DeliveryStutter ==
  ASSUME IInv, UNCHANGED vars
  PROVE  DeliveryInv' /\ DeliveryOrder'
<1> USE DEF IInv, DeliveryInv, vars, initVars, busVars, triggerVars, mainVars, workVars
<1>1. /\ \A e \in Events : Walking(e)' <=> Walking(e)
      /\ \A e \in Events, l \in Listeners : ToWalk(e, l)' <=> ToWalk(e, l)
  BY Zenon DEF Walking, ToWalk
<1>2. SameView /\ SameWork
  BY Zenon, <1>1, ViewFrame
<1> QED BY Zenon, <1>1, <1>2, UniqueFrame, ModeFrame, SemFrame, RunFrame, OrderFrame,
           QueueFrame, StampFrame, WalkFrame, SyncFrame

(* Every step preserves the invariant.                                     *)
LEMMA DeliveryNext ==
  ASSUME CardinalityLaws
  PROVE  IInv /\ [Next]_vars => IInv'
<1> SUFFICES ASSUME IInv, [Next]_vars PROVE DeliveryInv' /\ DeliveryOrder'
  BY Zenon, TypeControlNext, ListNext DEF IInv, TypeControl
<1>2. CASE Register
  BY Zenon, <1>2, AddListenerStep, RemoveListenerStep DEF Register
<1>3. CASE \E e \in Events : Trigger(e)
  BY Zenon, <1>3, TriggerCheckStep, TriggerAppendStep, TriggerQuietStep DEF Trigger
<1>4. CASE Execute
  BY Zenon, <1>4, IdleStep, DrainIdleStep, DrainEventStep, WalkListenerStep, WalkEndStep,
     DrainEndStep, DispatchStep, SyncRunStep, SyncCountStep DEF Execute
<1>5. CASE Gc
  BY Zenon, <1>5, GcClearStep, IdleStep DEF Gc
<1>6. CASE \E w \in Workers : WorkerTake(w) \/ Fib(w)
  BY Zenon, <1>6, WorkerTakeStep, FibFuncStep, FibTrywaitStep, FibDoneStep DEF Fib
<1>7. CASE UNCHANGED vars
  BY Zenon, <1>7, DeliveryStutter
<1> QED BY Zenon, <1>2, <1>3, <1>4, <1>5, <1>6, <1>7 DEF Next

(* An event that is not in hand and not with the thread pool has been run. *)
LEMMA NothingLeft ==
  ASSUME IInv, NEW e \in Events, Unrun(e) = {}
  PROVE  DeliveredOnce(e)
  BY Zenon DEF IInv, DeliveryInv, RunInv, DeliveredOnce

(* A task that has not called its listener, as Waiting says it, belongs to *)
(* an event with a listener that has not run.                              *)
LEMMA WaitingUnrun ==
  ASSUME IInv, NEW e \in Events, Waiting(e)
  PROVE  Unrun(e) # {}
<1> USE DEF IInv, DeliveryInv
<1>1. ASSUME NEW i \in DOMAIN nodes, nodes[i].ev = e, ~(mpc = "count" /\ i = 1)
      PROVE  Unrun(e) # {}
  <2>1. nodes[i] \in Tasks
    BY DEF TypeOK
  <2>2. PICK l \in Listeners : nodes[i] = Task(e, l)
    BY <1>1, <2>1, TaskFacts
  <2>3. ~Counting(e, l)
    <3>1. nodes # <<>> /\ nodes \in Seq(Tasks)
      BY DEF TypeOK
    <3>2. Head(nodes) = nodes[1] /\ 1 \in DOMAIN nodes
      BY Zenon, <3>1, TailElements
    <3> QED BY Zenon, <1>1, <2>2, <3>2 DEF Counting, UniqueInv
  <2> QED BY Zenon, <2>2, <2>3 DEF Unrun, ToRun, InNodes
<1>2. ASSUME NEW i \in DOMAIN wq, wq[i].ev = e PROVE Unrun(e) # {}
  <2>1. wq[i] \in Tasks
    BY DEF TypeOK
  <2>2. PICK l \in Listeners : wq[i] = Task(e, l)
    BY <1>2, <2>1, TaskFacts
  <2> QED BY Zenon, <2>2 DEF Unrun, ToRun, InWq
<1>3. ASSUME NEW w \in Workers, wpc[w] = "func", wtask[w].ev = e PROVE Unrun(e) # {}
  <2>1. PICK l \in Listeners : wtask[w] = Task(e, l)
    BY <1>3, TaskFacts DEF ControlInv
  <2> QED BY Zenon, <1>3, <2>1 DEF Unrun, ToRun, AtFunc
<1> QED BY Zenon, <1>1, <1>2, <1>3 DEF Waiting

(* An event with a listener to run has not been done, if the thread pool   *)
(* runs it or its listeners were not churned.                              *)
LEMMA UnrunNotDone ==
  ASSUME IInv, NEW e \in Events, Unrun(e) # {}
  PROVE  /\ sem[e] # NoRef \/ e \notin churned => ndone[e] = 0
         /\ e \notin freed
<1> USE DEF IInv, DeliveryInv
<1>1. CASE sem[e] # NoRef
  <2>1. Todo(e) # {}
    BY Zenon DEF Unrun, Todo
  <2> QED BY Zenon, <1>1, <2>1 DEF SemInv
<1>2. CASE sem[e] = NoRef
  <2>1. PICK l \in Listeners : ToRun(e, l)
    BY Zenon DEF Unrun
  <2>2. Task(e, l).ev = e
    BY Zenon, TaskFacts
  <2>3. ~InWq(e, l) /\ ~AtFunc(e, l)
    BY Zenon, <1>2, <2>2 DEF InWq, AtFunc, ModeInv
  <2>4. InHand(e)
    BY Zenon, <2>1, <2>3, InHandTask DEF ToRun, ToWalk, InHand
  <2> QED BY Zenon, <1>2, <2>4 DEF SyncInv, SyncOnce, ModeInv
<1> QED BY Zenon, <1>1, <1>2

----------------------------------------------------------------------------
(* The refinement: the initial states map to initial states, and every     *)
(* step maps to a step of EventBus or changes nothing that EventBus can    *)
(* see.                                                                    *)

(* What a step changes for one event e only is a change of state or todo   *)
(* at e.                                                                   *)
LEMMA BusAt ==
  ASSUME NEW e \in Events
  PROVE  /\ (\A x \in Events \ {e} : busStateOf(x)' = busStateOf(x)) =>
              [x \in Events |-> busStateOf(x)]'
                = [[x \in Events |-> busStateOf(x)] EXCEPT ![e] = busStateOf(e)']
         /\ (\A x \in Events \ {e} : busTodoOf(x)' = busTodoOf(x)) =>
              [x \in Events |-> busTodoOf(x)]'
                = [[x \in Events |-> busTodoOf(x)] EXCEPT ![e] = busTodoOf(e)']
  BY Zenon

(* The four states of an event, before and after a step.                   *)
LEMMA BusStates ==
  ASSUME NEW e \in Events
  PROVE  /\ ndone[e] > 0 => busStateOf(e) = "done"
         /\ ndone[e] = 0 /\ sem[e] # NoRef => busStateOf(e) = "delivering"
         /\ ndone[e] = 0 /\ sem[e] = NoRef /\ stamp[e] > 0 => busStateOf(e) = "pending"
         /\ ndone[e] = 0 /\ sem[e] = NoRef /\ stamp[e] = 0 => busStateOf(e) = "none"
         /\ ndone'[e] > 0 => busStateOf(e)' = "done"
         /\ ndone'[e] = 0 /\ sem'[e] # NoRef => busStateOf(e)' = "delivering"
         /\ UNCHANGED <<ndone[e], sem[e], stamp[e]>> => busStateOf(e)' = busStateOf(e)
  BY DEF busStateOf, NoRef

(* A step that changes neither is not seen by EventBus.                    *)
LEMMA BusStutter ==
  ASSUME \A x \in Events : busStateOf(x)' = busStateOf(x) /\ busTodoOf(x)' = busTodoOf(x)
  PROVE  UNCHANGED Bus!busState
  BY Zenon DEF Bus!busState

(* The event pool starts without events, as EventBus does.                 *)
LEMMA BusInit == Init => Bus!Init
<1> SUFFICES ASSUME Init PROVE Bus!Init
  BY Zenon
<1>1. \A e \in Events : ndone[e] = 0 /\ sem[e] = NoRef /\ stamp[e] = 0 /\ snap[e] = {}
  BY Zenon DEF Init
<1>2. \A e \in Events : busStateOf(e) = "none" /\ busTodoOf(e) = {}
  BY <1>1 DEF busStateOf, busTodoOf
<1> QED BY Zenon, <1>2 DEF Bus!Init

(* The four steps that EventBus sees: TriggerAppend accepts the event, ... *)
LEMMA AcceptStep ==
  ASSUME CardinalityLaws, IInv, NEW e \in Events, TriggerAppend(e)
  PROVE  Bus!Accept(e)
<1> USE DEF IInv, DeliveryInv
<1>1. /\ tpc[e] = "append" /\ UNCHANGED <<sem, ndone, snap, runs>>
      /\ tpc' = [tpc EXCEPT ![e] = "send"]
      /\ stamp' = [stamp EXCEPT ![e] = 1 + Cardinality({x \in Events : stamp[x] > 0})]
  BY Zenon DEF TriggerAppend
<1>2. sem[e] = NoRef /\ ndone[e] = 0
  BY Zenon, <1>1 DEF QueueInv, Fresh
<1>3. /\ stamp[e] = 0 /\ StampInv'
      /\ \A x \in Events \ {e} : stamp'[x] = stamp[x]
  BY Zenon, <1>1, NewStamp
<1>4. tpc'[e] = "send"
  BY Zenon, <1>1 DEF TypeOK
<1>5. stamp'[e] > 0
  BY Zenon, <1>3, <1>4 DEF StampInv
<1>6. busStateOf(e) = "none" /\ busStateOf(e)' = "pending"
  BY <1>1, <1>2, <1>3, <1>5, SMTT(30) DEF busStateOf
<1>7. \A x \in Events \ {e} : busStateOf(x)' = busStateOf(x)
  BY Zenon, <1>1, <1>3 DEF busStateOf
<1>8. \A x \in Events : busTodoOf(x)' = busTodoOf(x)
  BY Zenon, <1>1 DEF busTodoOf
<1> QED BY Zenon, <1>6, <1>7, <1>8, BusAt DEF Bus!Accept

(* ... DrainEvent fixes its listeners, ...                                 *)
LEMMA SnapshotStep ==
  ASSUME CardinalityLaws, IInv, threads = Threaded, NEW e \in Events, DrainEvent, e = Head(eventqueue)
  PROVE  Bus!Snapshot(e)
<1> USE DEF IInv, DeliveryInv
<1>1. /\ mpc = "drain" /\ eventqueue # <<>> /\ UNCHANGED <<stamp, runs>>
      /\ nrlisteners[evreason[e]] # 0
      /\ sem' = [sem EXCEPT ![e] = nrlisteners[evreason[e]] - 1]
      /\ snap' = [snap EXCEPT ![e] = Matching(evreason[e])]
      /\ IF listeners = <<>> THEN Done(e) ELSE UNCHANGED ndone
  BY Zenon DEF DrainEvent, RefInit, triggerVars
<1>2. /\ 1 \in DOMAIN eventqueue /\ e = eventqueue[1] /\ evreason[e] \in Reasons
      /\ tpc[e] \in {"send", "sent"} /\ Fresh(e)
  <2>1. e = eventqueue[1] /\ 1 \in DOMAIN eventqueue
    BY Zenon, <1>1, TailElements DEF TypeOK
  <2>2. ~Walking(e)
    BY Zenon, <1>1 DEF Walking
  <2> QED BY Zenon, <2>1, <2>2 DEF QueueInv, ControlInv
<1>3. sem[e] = NoRef /\ ndone[e] = 0 /\ stamp[e] > 0 /\ snap[e] = {}
  BY Zenon, <1>2 DEF Fresh, StampInv
<1>4. Matching(evreason[e]) \in SUBSET Listeners /\ Matching(evreason[e]) # {}
  <2>1. Matching(evreason[e]) # {}
    BY Zenon, <1>1, <1>2 DEF ListInv, CountMatchesList, CardinalityLaws, Counted
  <2>2. Matching(evreason[e]) \in SUBSET Listeners
    <3>1. listeners \in Seq(Listeners)
      BY Zenon DEF TypeOK
    <3>2. \A i \in DOMAIN listeners : listeners[i] \in Listeners
      BY Zenon, <3>1, InSeq
    <3> QED BY Zenon, <3>2 DEF Matching, Registered
  <2> QED BY Zenon, <2>1, <2>2
<1>5. listeners # <<>> /\ ndone' = ndone
  <2>1. listeners # <<>>
    BY Zenon, <1>4, NoElements DEF Matching, Registered
  <2> QED BY Zenon, <1>1, <2>1
<1>6. nrlisteners[evreason[e]] \in Nat
  BY Zenon, <1>2, <1>4 DEF ListInv, CountMatchesList, CardinalityLaws, Counted
<1>7. sem'[e] # NoRef /\ \A x \in Events \ {e} : sem'[x] = sem[x]
  <2>1. /\ sem'[e] = nrlisteners[evreason[e]] - 1
        /\ \A x \in Events \ {e} : sem'[x] = sem[x]
    BY Zenon, <1>1 DEF TypeOK
  <2> QED BY Zenon, <1>1, <1>6, <2>1, RefSet
<1>8. /\ busStateOf(e) = "pending" /\ busStateOf(e)' = "delivering"
      /\ \A x \in Events \ {e} : busStateOf(x)' = busStateOf(x)
  BY Zenon, <1>1, <1>3, <1>5, <1>7, BusStates
<1>9. \A l \in Listeners : runs[e][l] = 0
  BY Zenon, <1>3 DEF RunInv
<1>10. snap'[e] = Matching(evreason[e]) /\ \A x \in Events \ {e} : snap'[x] = snap[x]
  BY Zenon, <1>1 DEF TypeOK
<1>11. /\ busTodoOf(e)' = Matching(evreason[e])
       /\ \A x \in Events \ {e} : busTodoOf(x)' = busTodoOf(x)
  BY Zenon, <1>1, <1>4, <1>9, <1>10 DEF busTodoOf
<1>12. [x \in Events |-> busTodoOf(x)]'
         = [[x \in Events |-> busTodoOf(x)] EXCEPT ![e] = busTodoOf(e)']
  BY Zenon, <1>11, BusAt
<1>13. busTodoOf(e)' \in (SUBSET Listeners) \ {{}}
  BY Zenon, <1>4, <1>11
<1> QED BY Zenon, <1>8, <1>12, <1>13, BusAt DEF Bus!Snapshot

(* ... the return of a callback in fib delivers it to a listener, ...      *)
LEMMA DeliverStep ==
  ASSUME IInv, NEW w \in Workers, FibFunc(w)
  PROVE  Bus!Next
<1> USE DEF IInv, DeliveryInv
<1>1. /\ wpc[w] = "func" /\ Run(wtask[w])
      /\ UNCHANGED <<stamp, sem, snap, ndone>>
  BY Zenon DEF FibFunc, triggerVars
<1>2. wtask[w] \in Tasks /\ sem[wtask[w].ev] # NoRef
  BY Zenon, <1>1 DEF ControlInv, ModeInv
<1>3. PICK e \in Events, l \in Listeners : wtask[w] = Task(e, l) /\ wtask[w].ev = e /\ wtask[w].lis = l
  BY Zenon, <1>2, TaskFacts
<1>4. l \in Unrun(e) /\ l \in Todo(e)
  BY Zenon, <1>1, <1>3 DEF Unrun, Todo, ToRun, AtFunc
<1>5. ndone[e] = 0 /\ sem[e] # NoRef
  BY Zenon, <1>2, <1>3, <1>4 DEF SemInv
<1>6. l \in snap[e] /\ runs[e][l] = 0
  BY Zenon, <1>4 DEF RunInv
<1>7. /\ runs'[e][l] = 1 /\ \A k \in Listeners \ {l} : runs'[e][k] = runs[e][k]
      /\ \A x \in Events \ {e} : runs'[x] = runs[x]
  <2>1. runs' = [runs EXCEPT ![e][l] = @ + 1] /\ runs \in [Events -> [Listeners -> Nat]]
    BY Zenon, <1>1, <1>3 DEF Run, TypeOK
  <2>2. /\ runs'[e][l] = runs[e][l] + 1
        /\ \A k \in Listeners \ {l} : runs'[e][k] = runs[e][k]
        /\ \A x \in Events \ {e} : runs'[x] = runs[x]
    BY Zenon, <2>1
  <2> QED BY Zenon, <1>6, <2>2, AfterZero
<1>8. busStateOf(e) = "delivering" /\ \A x \in Events : busStateOf(x)' = busStateOf(x)
  BY Zenon, <1>1, <1>5, BusStates
<1>9. snap[e] \in SUBSET Listeners
  BY Zenon DEF TypeOK
<1>10. /\ l \in busTodoOf(e) /\ busTodoOf(e)' = busTodoOf(e) \ {l}
       /\ \A x \in Events \ {e} : busTodoOf(x)' = busTodoOf(x)
  <2>1. 1 # 0
    OBVIOUS
  <2>2. \A x \in Events : snap'[x] = snap[x]
    BY Zenon, <1>1
  <2> QED BY Zenon, <1>6, <1>7, <1>9, <2>1, <2>2 DEF busTodoOf
<1>11. Bus!Deliver(e, l)
  BY Zenon, <1>8, <1>10, BusAt DEF Bus!Deliver
<1> QED BY Zenon, <1>11 DEF Bus!Next

(* ... and done, called for an event without listeners or by the last      *)
(* worker of an event, finishes it.                                        *)
LEMMA FinishStep ==
  ASSUME IInv, NEW e \in Events, Done(e), ndone[e] = 0, busTodoOf(e) = {},
         sem[e] # NoRef \/ stamp[e] > 0, UNCHANGED <<stamp, sem, snap, runs>>
  PROVE  Bus!Finish(e)
<1>1. ndone'[e] = 1 /\ \A x \in Events \ {e} : ndone'[x] = ndone[x]
  BY Zenon, AfterZero DEF Done, IInv, TypeOK
<1>2. /\ busStateOf(e) \in {"pending", "delivering"} /\ busStateOf(e)' = "done"
      /\ \A x \in Events \ {e} : busStateOf(x)' = busStateOf(x)
  BY <1>1, BusStates
<1>3. \A x \in Events : busTodoOf(x)' = busTodoOf(x)
  BY Zenon DEF busTodoOf
<1> QED BY Zenon, <1>2, <1>3, BusAt DEF Bus!Finish

(* DrainIdle: nobody listens.                                              *)
LEMMA DrainIdleFinish ==
  ASSUME IInv, DrainIdle
  PROVE  Bus!Next
<1> USE DEF IInv, DeliveryInv
<1>1. /\ mpc = "drain" /\ eventqueue # <<>> /\ UNCHANGED <<stamp, sem, snap, runs>>
      /\ Done(Head(eventqueue))
  BY Zenon DEF DrainIdle, triggerVars
<1>2. PICK e \in Events : e = Head(eventqueue)
  BY Zenon, <1>1, TailElements DEF TypeOK
<1>3. tpc[e] \in {"send", "sent"} /\ Fresh(e)
  <2>1. e = eventqueue[1] /\ 1 \in DOMAIN eventqueue
    BY Zenon, <1>1, <1>2, TailElements DEF TypeOK
  <2>2. ~Walking(e)
    BY Zenon, <1>1 DEF Walking
  <2> QED BY Zenon, <2>1, <2>2 DEF QueueInv
<1>4. ndone[e] = 0 /\ stamp[e] > 0 /\ busTodoOf(e) = {}
  BY Zenon, <1>3 DEF Fresh, StampInv, busTodoOf
<1>5. Bus!Finish(e)
  BY Zenon, <1>1, <1>2, <1>4, FinishStep
<1> QED BY Zenon, <1>5 DEF Bus!Next

(* FibDone: the last trywait has failed, so that every listener has run.   *)
LEMMA FibDoneFinish ==
  ASSUME IInv, NEW w \in Workers, FibDone(w)
  PROVE  Bus!Next
<1> USE DEF IInv, DeliveryInv
<1>1. /\ wpc[w] = "done" /\ Done(wtask[w].ev)
      /\ UNCHANGED <<stamp, sem, snap, runs>>
  BY Zenon DEF FibDone, triggerVars
<1>2. wtask[w] \in Tasks /\ sem[wtask[w].ev] # NoRef
  BY Zenon, <1>1 DEF ControlInv, ModeInv
<1>3. PICK e \in Events : wtask[w].ev = e
  BY Zenon, <1>2, TaskFacts
<1>4. Todo(e) = {} /\ ndone[e] = 0
  BY Zenon, <1>1, <1>2, <1>3 DEF SemInv, AtDone
<1>5. Unrun(e) = {}
  BY Zenon, <1>4 DEF Todo, Unrun
<1>6. busTodoOf(e) = {}
  <2>1. snap[e] \in SUBSET Listeners
    BY Zenon DEF TypeOK
  <2>2. \A l \in snap[e] : runs[e][l] = 1
    BY Zenon, <1>5, <2>1 DEF RunInv
  <2> QED BY <2>2 DEF busTodoOf
<1>7. Bus!Finish(e)
  BY Zenon, <1>1, <1>2, <1>3, <1>4, <1>6, FinishStep
<1> QED BY Zenon, <1>7 DEF Bus!Next

(* A worker that is not the last one leaves a semaphore of 0 or more.      *)
LEMMA TrywaitStutter ==
  ASSUME IInv, NEW w \in Workers, FibTrywait(w)
  PROVE  UNCHANGED Bus!busState
<1> USE DEF IInv, DeliveryInv
<1>1. wpc[w] = "trywait" /\ UNCHANGED <<stamp, snap, runs, ndone>>
  BY Zenon DEF FibTrywait, triggerVars
<1>2. PICK e \in Events : wtask[w].ev = e
  BY Zenon, <1>1, TaskFacts DEF ControlInv
<1>3. sem[e] # NoRef /\ sem[e] \in Int
  BY Zenon, <1>1, <1>2 DEF ModeInv, TypeOK
<1>4. sem'[e] # NoRef /\ \A x \in Events \ {e} : sem'[x] = sem[x]
  BY <1>2, <1>3 DEF FibTrywait, TypeOK, NoRef
<1>5. \A x \in Events : busStateOf(x)' = busStateOf(x)
  BY Zenon, <1>1, <1>3, <1>4 DEF busStateOf
<1>6. \A x \in Events : busTodoOf(x)' = busTodoOf(x)
  BY Zenon, <1>1 DEF busTodoOf
<1> QED BY Zenon, <1>5, <1>6, BusStutter

----------------------------------------------------------------------------
(* Every step of the event pool in threaded mode.                          *)
LEMMA BusNext ==
  ASSUME CardinalityLaws, IInv, [Next]_vars, threads = Threaded, threads' = Threaded
  PROVE  [Bus!Next]_(Bus!busState)
<1> USE DEF triggerVars, initVars, busVars, mainVars, workVars
<1>1. ASSUME UNCHANGED <<ndone, sem, stamp, snap, runs>> PROVE UNCHANGED Bus!busState
  <2>1. \A x \in Events : busStateOf(x)' = busStateOf(x) /\ busTodoOf(x)' = busTodoOf(x)
    BY Zenon, <1>1, BusStates DEF busTodoOf
  <2> QED BY Zenon, <2>1, BusStutter
<1>2. CASE Register
  BY Zenon, <1>1, <1>2 DEF Register, AddListener, RemoveListener
<1>3. ASSUME NEW e \in Events, Trigger(e) PROVE [Bus!Next]_(Bus!busState)
  <2>1. CASE TriggerAppend(e)
    BY Zenon, <2>1, AcceptStep DEF Bus!Next
  <2>2. CASE (\E r \in Reasons : TriggerCheck(e, r)) \/ TriggerAbort(e) \/ TriggerSend(e)
    BY Zenon, <1>1, <2>2 DEF TriggerCheck, TriggerAbort, TriggerSend
  <2> QED BY Zenon, <1>3, <2>1, <2>2 DEF Trigger
<1>4. CASE Execute
  <2>1. CASE DrainIdle
    BY Zenon, <2>1, DrainIdleFinish
  <2>2. CASE DrainEvent
    <3>1. PICK e \in Events : e = Head(eventqueue)
      BY Zenon, <2>2, TailElements DEF IInv, TypeOK, DrainEvent
    <3> QED BY Zenon, <2>2, <3>1, SnapshotStep DEF Bus!Next
  <2>3. CASE SyncRun \/ SyncCount
    BY Zenon, <2>3 DEF SyncRun, SyncCount, IInv, ControlInv, Threaded, NoThreads
  <2>4. CASE ExecuteBegin \/ WalkListener \/ WalkEnd
    BY Zenon, <1>1, <2>4 DEF ExecuteBegin, WalkListener, WalkEnd
  <2>5. CASE DrainEnd \/ Dispatch \/ ExecuteEnd
    BY Zenon, <1>1, <2>5 DEF DrainEnd, Dispatch, ExecuteEnd
  <2> QED BY Zenon, <1>4, <2>1, <2>2, <2>3, <2>4, <2>5 DEF Execute
<1>5. CASE Gc
  BY Zenon, <1>1, <1>5 DEF Gc, GcClear, GcEnd, Threaded, NoThreads
<1>6. ASSUME NEW w \in Workers, WorkerTake(w) \/ Fib(w) PROVE [Bus!Next]_(Bus!busState)
  <2>1. CASE WorkerTake(w)
    BY Zenon, <1>1, <2>1 DEF WorkerTake
  <2> QED BY Zenon, <1>6, <2>1, DeliverStep, TrywaitStutter, FibDoneFinish DEF Fib
<1>7. CASE UNCHANGED vars
  BY Zenon, <1>1, <1>7 DEF vars
<1> QED BY Zenon, <1>2, <1>3, <1>4, <1>5, <1>6, <1>7 DEF Next

(* Without calls of eventpool_gc the mode stays that of eventpool_init.    *)
LEMMA ModeStays ==
  ASSUME GcCalls = 0, threads = Threaded, [Next]_vars
  PROVE  threads' = Threaded
<1> USE DEF initVars
<1>1. CASE Register
  BY Zenon, <1>1 DEF Register, AddListener, RemoveListener
<1>2. CASE \E e \in Events : Trigger(e)
  BY Zenon, <1>2 DEF Trigger, TriggerCheck, TriggerAppend, TriggerAbort, TriggerSend
<1>3. CASE Execute
  BY Zenon, <1>3 DEF Execute, ExecuteBegin, DrainIdle, DrainEvent, WalkListener, WalkEnd,
     DrainEnd, Dispatch, SyncRun, SyncCount, ExecuteEnd
<1>4. CASE Gc
  BY <1>4 DEF Gc, GcClear, GcEnd
<1>5. CASE \E w \in Workers : WorkerTake(w) \/ Fib(w)
  BY Zenon, <1>5 DEF WorkerTake, Fib, FibFunc, FibTrywait, FibDone
<1> QED BY Zenon, <1>1, <1>2, <1>3, <1>4, <1>5 DEF Next, vars

============================================================================
