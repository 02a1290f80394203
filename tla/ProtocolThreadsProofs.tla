------------------------ MODULE ProtocolThreadsProofs -----------------------
(***************************************************************************)
(* Proofs about the threads library and its callers, for any number of     *)
(* threads, names, callers and devices.                                    *)
(***************************************************************************)
EXTENDS ProtocolThreads, FiniteSetTheorems, SequenceTheorems, TLAPS

----------------------------------------------------------------------------
(* The inductive invariant, which is needed until threads_gc begins        *)

TypeInv ==
  /\ threadqueue \in Seq(Nodes)
  /\ running \in [Nodes -> {0, 1}]
  /\ threadqueue_number \in Int /\ thread_running \in Int
  /\ lpc \in {"none", "lock", "test", "item", "mark", "towait", "waiting", "done", "crashed"}
  /\ pthread \in [Nodes -> {"none", "live", "ended", "joined"}]
  /\ created \in [Nodes -> Nat]
  /\ cpc \in [Callers -> {"idle", "signal", "devices", "spin", "free", "stop", "join"}]
  /\ cnode \in [Callers -> Nodes \cup {NoNode}]
  /\ mpc \in {"run", "config"}

(* threads_loop holds the mutex except before its start and in its wait, a *)
(* caller while it joins.                                                  *)
OwnerInv ==
  /\ owner = Loop <=> lpc \in {"test", "item", "mark", "towait", "done", "crashed"}
  /\ lpc = "none" <=> threads_initialized = 0
  /\ \A c \in Callers : owner = c <=> cpc[c] = "join"

Joining(n) == \E c \in Callers : cpc[c] = "join" /\ cnode[c] = n
Marking(n) == lpc = "mark" /\ lnode = n

(* Where the thread of a node is, by what the list says of the node.       *)
ThreadOf(n) ==
  /\ pthread[n] = "none" => running[n] = 0 /\ created[n] = 0
  /\ running[n] = 1 => created[n] = 1 /\ ~ Marking(n)
  /\ Marking(n) => created[n] = 1
  /\ n \in Listed => (pthread[n] = "none" <=> running[n] = 0 /\ ~ Marking(n))
  /\ n \in Listed => pthread[n] # "joined"
  /\ n \notin Listed => pthread[n] \in {"none", "joined"} \/ Joining(n)

NodeInv ==
  /\ \A i, j \in DOMAIN threadqueue : threadqueue[i] = threadqueue[j] => i = j
  /\ lpc = "mark" => lnode \in Listed
  /\ \A c \in Callers : cpc[c] = "join" => cnode[c] \in Nodes \ Listed
  /\ \A n \in Nodes : ThreadOf(n)

CountInv ==
  /\ Cardinality(Pending) <= threadqueue_number
  /\ thread_running = Cardinality(Listed \ Pending)

LibraryInv == TypeInv /\ OwnerInv /\ NodeInv /\ CountInv

ThreadsInv == thread_loop \in {0, 1} /\ (thread_loop = 1 => LibraryInv)

----------------------------------------------------------------------------
(* Facts about the list of nodes                                           *)

(* Appending a node that is not in a list without duplicates.              *)
LEMMA Appended ==
  ASSUME NEW S, NEW s \in Seq(S), NEW x \in S, x \notin ToSet(s),
         \A i, j \in DOMAIN s : s[i] = s[j] => i = j
  PROVE  /\ Append(s, x) \in Seq(S) /\ ToSet(Append(s, x)) = ToSet(s) \cup {x}
         /\ \A i, j \in DOMAIN Append(s, x) : Append(s, x)[i] = Append(s, x)[j] => i = j
<1>1. /\ Append(s, x) \in Seq(S) /\ DOMAIN s = 1 .. Len(s)
      /\ DOMAIN Append(s, x) = 1 .. Len(s) + 1
      /\ Append(s, x)[Len(s) + 1] = x
      /\ \A i \in 1 .. Len(s) : Append(s, x)[i] = s[i]
      /\ Len(s) \in Nat
  OBVIOUS
<1>2. ToSet(Append(s, x)) = ToSet(s) \cup {x}
  BY <1>1 DEF ToSet
<1>3. \A i \in 1 .. Len(s) : s[i] # x
  BY <1>1 DEF ToSet
<1>4. \A i, j \in DOMAIN Append(s, x) : Append(s, x)[i] = Append(s, x)[j] => i = j
  BY <1>1, <1>3
<1> QED BY <1>1, <1>2, <1>4

(* Unlinking one node.                                                     *)
LEMMA Unlinked ==
  ASSUME NEW S, NEW s \in Seq(S), NEW k \in DOMAIN s,
         \A i, j \in DOMAIN s : s[i] = s[j] => i = j
  PROVE  /\ RemoveAt(s, k) \in Seq(S) /\ ToSet(RemoveAt(s, k)) = ToSet(s) \ {s[k]}
         /\ \A i, j \in DOMAIN RemoveAt(s, k) :
              RemoveAt(s, k)[i] = RemoveAt(s, k)[j] => i = j
<1>1. PICK r : r = RemoveAt(s, k)
  OBVIOUS
<1>2. DOMAIN s = 1 .. Len(s) /\ Len(s) \in Nat /\ k \in 1 .. Len(s)
  OBVIOUS
<1>3. /\ r \in Seq(S) /\ DOMAIN r = 1 .. Len(s) - 1
      /\ \A i \in 1 .. Len(s) - 1 : r[i] = IF i < k THEN s[i] ELSE s[i + 1]
  <2> DEFINE a == SubSeq(s, 1, k - 1)
             b == SubSeq(s, k + 1, Len(s))
  <2>1. a \in Seq(S) /\ b \in Seq(S)
    BY <1>2, SubSeqProperties
  <2>2. Len(a) = k - 1 /\ \A i \in 1 .. k - 1 : a[i] = s[i]
    BY <1>2, SubSeqProperties
  <2>3. Len(b) = Len(s) - k /\ \A i \in 1 .. Len(s) - k : b[i] = s[i + k]
    BY <1>2, SubSeqProperties
  <2>4. r = a \o b
    BY <1>1 DEF RemoveAt
  <2> HIDE DEF a, b
  <2>5. /\ r \in Seq(S) /\ Len(r) = Len(s) - 1 /\ DOMAIN r = 1 .. Len(s) - 1
        /\ \A i \in 1 .. Len(r) : r[i] = IF i <= Len(a) THEN a[i] ELSE b[i - Len(a)]
    <3>1. /\ r \in Seq(S) /\ Len(r) = Len(a) + Len(b)
          /\ \A i \in 1 .. Len(r) : r[i] = IF i <= Len(a) THEN a[i] ELSE b[i - Len(a)]
      BY <2>1, <2>4, ConcatProperties
    <3> QED BY <1>2, <2>2, <2>3, <3>1, LenProperties
  <2>6. ASSUME NEW i \in 1 .. Len(s) - 1, ~ (i < k) PROVE b[i - (k - 1)] = s[i + 1]
    <3>1. i - (k - 1) \in 1 .. Len(s) - k /\ i - (k - 1) + k = i + 1
      BY <1>2, <2>6
    <3> QED BY <2>3, <3>1
  <2>7. \A i \in 1 .. Len(s) - 1 : i < k => r[i] = s[i]
    BY <1>2, <2>2, <2>5
  <2>8. \A i \in 1 .. Len(s) - 1 : ~ (i < k) => r[i] = s[i + 1]
    BY <1>2, <2>2, <2>5, <2>6
  <2> QED BY <2>5, <2>7, <2>8
<1>4. ASSUME NEW i \in DOMAIN r, NEW j \in DOMAIN r, r[i] = r[j] PROVE i = j
  <2> DEFINE up(n) == IF n < k THEN n ELSE n + 1
  <2>1. up(i) \in DOMAIN s /\ up(j) \in DOMAIN s /\ s[up(i)] = s[up(j)]
    BY <1>2, <1>3, <1>4
  <2>2. up(i) = up(j)
    BY <2>1
  <2> QED BY <1>2, <1>3, <2>2
<1>5. ASSUME NEW i \in DOMAIN r PROVE r[i] \in ToSet(s) \ {s[k]}
  BY <1>2, <1>3 DEF ToSet
<1>6. ASSUME NEW i \in DOMAIN s, s[i] # s[k] PROVE s[i] \in ToSet(r)
  <2>1. CASE i < k
    BY <1>2, <1>3, <2>1 DEF ToSet
  <2>2. CASE i > k
    <3>1. i - 1 \in DOMAIN r /\ r[i - 1] = s[i]
      BY <1>2, <1>3, <2>2
    <3> QED BY <3>1 DEF ToSet
  <2> QED BY <1>2, <1>6, <2>1, <2>2
<1>7. ToSet(r) = ToSet(s) \ {s[k]}
  BY <1>5, <1>6 DEF ToSet
<1> QED BY <1>1, <1>3, <1>4, <1>7

----------------------------------------------------------------------------
(* The steps of the library and its callers                                *)

(* Steps that change neither the list nor a thread.                        *)
LEMMA ListUnchanged ==
  ASSUME LibraryInv, TypeInv', OwnerInv',
         UNCHANGED <<threadqueue, running, threadqueue_number, thread_running,
                     pthread, created, cnode>>,
         lpc' = "mark" <=> lpc = "mark", lpc = "mark" => lnode' = lnode,
         \A c \in Callers : cpc'[c] = "join" <=> cpc[c] = "join"
  PROVE  LibraryInv'
<1>1. Listed' = Listed /\ Pending' = Pending
  BY DEF Listed, Pending
<1>2. \A n : (Marking(n)' <=> Marking(n)) /\ (Joining(n)' <=> Joining(n))
  BY DEF Marking, Joining
<1>3. NodeInv'
  BY <1>1, <1>2 DEF NodeInv, ThreadOf, LibraryInv
<1>4. CountInv'
  BY <1>1 DEF CountInv, LibraryInv
<1> QED BY <1>3, <1>4 DEF LibraryInv

(* threads_register.                                                       *)
LEMMA RegisterStep ==
  ASSUME LibraryInv, NEW c \in Callers, NEW n \in Nodes, Register(c, n)
  PROVE  LibraryInv'
<1> USE DEF LibraryInv
<1>1. /\ cpc[c] = "idle" /\ n \notin Listed /\ pthread[n] = "none" /\ owner = Nobody
      /\ threadqueue' = Append(threadqueue, n) /\ threadqueue_number' = threadqueue_number + 1
      /\ UNCHANGED <<running, thread_running, owner, lpc, lnode, pthread, created, cnode, mpc,
                     threads_initialized>>
      /\ cpc' = [cpc EXCEPT ![c] = IF threads_initialized = 1 THEN "signal" ELSE "idle"]
  BY DEF Register, flagVars, loopVars, pthVars, gcVars
<1>2. /\ threadqueue' \in Seq(Nodes) /\ Listed' = Listed \cup {n}
      /\ \A i, j \in DOMAIN threadqueue' : threadqueue'[i] = threadqueue'[j] => i = j
  BY <1>1, Appended DEF TypeInv, NodeInv, Listed
<1>3. cpc' \in [Callers -> {"idle", "signal", "devices", "spin", "free", "stop", "join"}]
  BY <1>1 DEF TypeInv
<1>4. \A d \in Callers : cpc'[d] = "join" <=> cpc[d] = "join"
  BY <1>1 DEF TypeInv
<1>5. TypeInv'
  BY <1>1, <1>2, <1>3 DEF TypeInv
<1>6. OwnerInv'
  BY <1>1, <1>4 DEF OwnerInv
<1>7. \A m : (Marking(m)' <=> Marking(m)) /\ (Joining(m)' <=> Joining(m))
  BY <1>1, <1>4 DEF Marking, Joining
<1>8. running[n] = 0 /\ ~ Joining(n) /\ ~ Marking(n)
  <2>1. Nobody \notin Callers /\ Nobody # Loop
    BY ThreadsConstants DEF Nobody, Loop
  <2>2. (\A d \in Callers : cpc[d] # "join") /\ lpc # "mark"
    BY <1>1, <2>1 DEF OwnerInv
  <2> QED BY <1>1, <2>2 DEF NodeInv, ThreadOf, Joining, Marking
<1>9. NodeInv'
  <2>1. lpc # "mark" /\ \A d \in Callers : cpc[d] # "join"
    BY <1>1, ThreadsConstants DEF OwnerInv, Nobody, Loop
  <2>2. ASSUME NEW m \in Nodes
        PROVE  ThreadOf(m)'
    <3>1. CASE m = n
      BY <1>1, <1>2, <1>7, <1>8, <3>1 DEF NodeInv, ThreadOf
    <3>2. CASE m # n
      BY <1>1, <1>2, <1>7, <3>2 DEF NodeInv, ThreadOf
    <3> QED BY <3>1, <3>2
  <2> QED BY <1>1, <1>2, <1>4, <2>1, <2>2 DEF NodeInv
<1>10. Pending' = Pending \cup {n} /\ Listed' \ Pending' = Listed \ Pending /\ n \notin Pending
  BY <1>1, <1>2, <1>8 DEF Pending
<1>11. IsFiniteSet(Pending) /\ Cardinality(Pending) \in Nat
  <2>1. Pending \subseteq Nodes
    BY DEF Pending, Listed, ToSet, TypeInv
  <2> QED BY <2>1, ThreadsConstants, FS_Subset, FS_CardinalityType
<1>12. Cardinality(Pending') = Cardinality(Pending) + 1
  BY <1>10, <1>11, FS_AddElement
<1>13. CountInv'
  <2>1. Cardinality(Pending') <= threadqueue_number'
    BY <1>1, <1>11, <1>12 DEF CountInv, TypeInv
  <2> QED BY <1>1, <1>10, <2>1 DEF CountInv
<1> QED BY <1>5, <1>6, <1>9, <1>13

(* threads_create of the first node that is not running.                   *)
LEMMA CreateStep ==
  ASSUME LibraryInv, LoopCreate
  PROVE  LibraryInv'
<1> USE DEF LibraryInv
<1>1. PICK n \in Nodes :
        /\ lpc = "item" /\ lpc' = "mark" /\ FirstPending(n) /\ lnode' = n
        /\ pthread' = [pthread EXCEPT ![n] = "live"]
        /\ created' = [created EXCEPT ![n] = @ + 1]
        /\ UNCHANGED <<threadqueue, running, threadqueue_number, thread_running, owner, cpc,
                       cnode, mpc, threads_initialized>>
  BY DEF LoopCreate, flagVars, listVars, callVars, gcVars
<1>2. n \in Listed /\ running[n] = 0
  BY <1>1 DEF FirstPending, Listed, ToSet
<1>3. Listed' = Listed /\ Pending' = Pending
  BY <1>1 DEF Listed, Pending
<1>4. \A m : (Marking(m)' <=> m = n) /\ ~ Marking(m) /\ (Joining(m)' <=> Joining(m))
  BY <1>1 DEF Marking, Joining
<1>5. TypeInv'
  BY <1>1 DEF TypeInv
<1>6. OwnerInv'
  BY <1>1 DEF OwnerInv
<1>7. pthread[n] = "none" /\ created[n] = 0
  BY <1>2, <1>4 DEF NodeInv, ThreadOf
<1>8. /\ pthread'[n] = "live" /\ created'[n] = 1
      /\ \A m \in Nodes \ {n} : pthread'[m] = pthread[m] /\ created'[m] = created[m]
  BY <1>1, <1>7 DEF TypeInv
<1>9. NodeInv'
  BY <1>1, <1>2, <1>3, <1>4, <1>8 DEF NodeInv, ThreadOf
<1>10. CountInv'
  BY <1>1, <1>3 DEF CountInv
<1> QED BY <1>5, <1>6, <1>9, <1>10

(* The node is marked as running.                                          *)
LEMMA MarkStep ==
  ASSUME LibraryInv, LoopMark
  PROVE  LibraryInv'
<1> USE DEF LibraryInv
<1>1. /\ lpc = "mark" /\ lpc' = "test" /\ lnode \in Listed
      /\ thread_running' = thread_running + 1
      /\ running' = [running EXCEPT ![lnode] = 1]
      /\ threadqueue_number' = threadqueue_number - 1
      /\ UNCHANGED <<threadqueue, owner, lnode, pthread, created, cpc, cnode, mpc,
                     threads_initialized>>
  BY DEF LoopMark, flagVars, pthVars, callVars, gcVars
<1>2. PICK n \in Nodes : n = lnode /\ n \in Listed
  BY <1>1 DEF Listed, ToSet, TypeInv
<1>3. Marking(n) /\ running[n] = 0 /\ created[n] = 1 /\ pthread[n] # "none"
  BY <1>1, <1>2 DEF Marking, NodeInv, ThreadOf, TypeInv
<1>4. running'[n] = 1 /\ \A m \in Nodes \ {n} : running'[m] = running[m] /\ ~ Marking(m)
  BY <1>1, <1>2 DEF TypeInv, Marking
<1>5. TypeInv'
  BY <1>1, <1>2 DEF TypeInv
<1>6. OwnerInv'
  BY <1>1 DEF OwnerInv
<1>7. Listed' = Listed /\ \A m : ~ Marking(m)' /\ (Joining(m)' <=> Joining(m))
  BY <1>1 DEF Listed, Marking, Joining
<1>8. NodeInv'
  BY <1>1, <1>2, <1>3, <1>4, <1>7 DEF NodeInv, ThreadOf
<1>9. Listed \in SUBSET Nodes
  BY DEF Listed, ToSet, TypeInv
<1>10. n \in Pending /\ Pending' = Pending \ {n}
  BY <1>2, <1>3, <1>4, <1>7, <1>9 DEF Pending
<1>11. /\ IsFiniteSet(Pending) /\ IsFiniteSet(Listed \ Pending)
       /\ Cardinality(Pending) \in Nat /\ Cardinality(Listed \ Pending) \in Nat
  <2>1. Pending \subseteq Nodes /\ Listed \ Pending \subseteq Nodes
    BY <1>9 DEF Pending
  <2> QED BY <2>1, ThreadsConstants, FS_Subset, FS_CardinalityType
<1>12. Cardinality(Pending') = Cardinality(Pending) - 1
  BY <1>10, <1>11, FS_RemoveElement
<1>13. Listed' \ Pending' = (Listed \ Pending) \cup {n} /\ n \notin Listed \ Pending
  BY <1>2, <1>7, <1>10
<1>14. Cardinality(Listed' \ Pending') = Cardinality(Listed \ Pending) + 1
  BY <1>11, <1>13, FS_AddElement
<1>15. CountInv'
  BY <1>1, <1>11, <1>12, <1>14 DEF CountInv, TypeInv
<1> QED BY <1>5, <1>6, <1>8, <1>15

(* The function of a thread returns.                                       *)
LEMMA EndStep ==
  ASSUME LibraryInv, NEW n \in Nodes, ThreadEnds(n)
  PROVE  LibraryInv'
<1> USE DEF LibraryInv
<1>1. /\ pthread[n] = "live" /\ pthread' = [pthread EXCEPT ![n] = "ended"]
      /\ UNCHANGED <<threadqueue, running, threadqueue_number, thread_running, owner, lpc,
                     lnode, created, cpc, cnode, mpc, threads_initialized>>
  BY DEF ThreadEnds, flagVars, listVars, loopVars, callVars, gcVars
<1>2. Listed' = Listed /\ Pending' = Pending
  BY <1>1 DEF Listed, Pending
<1>3. \A m : (Marking(m)' <=> Marking(m)) /\ (Joining(m)' <=> Joining(m))
  BY <1>1 DEF Marking, Joining
<1>4. TypeInv'
  BY <1>1 DEF TypeInv
<1>5. pthread'[n] = "ended" /\ \A m \in Nodes \ {n} : pthread'[m] = pthread[m]
  BY <1>1 DEF TypeInv
<1>6. OwnerInv'
  BY <1>1 DEF OwnerInv
<1>7. NodeInv'
  BY <1>1, <1>2, <1>3, <1>5 DEF NodeInv, ThreadOf
<1>8. CountInv'
  BY <1>1, <1>2 DEF CountInv
<1> QED BY <1>4, <1>6, <1>7, <1>8

(* thread_stop has joined the thread of the node it unlinked.              *)
LEMMA JoinStep ==
  ASSUME LibraryInv, NEW c \in Callers, StopJoin(c)
  PROVE  LibraryInv'
<1> USE DEF LibraryInv
<1>1. /\ cpc[c] = "join" /\ pthread[cnode[c]] = "ended"
      /\ pthread' = [pthread EXCEPT ![cnode[c]] = "joined"]
      /\ owner' = Nobody /\ cpc' = [cpc EXCEPT ![c] = "devices"]
      /\ UNCHANGED <<threadqueue, running, threadqueue_number, thread_running, lpc, lnode,
                     created, cnode, mpc, threads_initialized>>
  BY DEF StopJoin, flagVars, listVars, loopVars, gcVars
<1>2. PICK n \in Nodes : n = cnode[c] /\ n \notin Listed
  BY <1>1 DEF NodeInv
<1>3. Nobody \notin Callers /\ Nobody # Loop /\ Loop \notin Callers
  BY ThreadsConstants DEF Nobody, Loop
<1>4. owner = c /\ lpc \notin {"test", "item", "mark", "towait", "done", "crashed"}
  BY <1>1, <1>3 DEF OwnerInv
<1>5. \A d \in Callers : cpc[d] = "join" <=> d = c
  BY <1>4 DEF OwnerInv
<1>6. \A d \in Callers : cpc'[d] # "join"
  BY <1>1, <1>5 DEF TypeInv
<1>7. Listed' = Listed /\ Pending' = Pending
  BY <1>1 DEF Listed, Pending
<1>8. \A m : ~ Marking(m)' /\ ~ Marking(m) /\ ~ Joining(m)' /\ (Joining(m) <=> m = n)
  BY <1>1, <1>2, <1>4, <1>5, <1>6 DEF Marking, Joining
<1>9. pthread'[n] = "joined" /\ \A m \in Nodes \ {n} : pthread'[m] = pthread[m]
  BY <1>1, <1>2 DEF TypeInv
<1>10. TypeInv'
  BY <1>1, <1>2 DEF TypeInv
<1>11. OwnerInv'
  BY <1>1, <1>3, <1>4, <1>6 DEF OwnerInv
<1>12. NodeInv'
  <2>1. ASSUME NEW m \in Nodes
        PROVE  ThreadOf(m)'
    <3>1. CASE m = n
      BY <1>1, <1>2, <1>7, <1>8, <1>9, <3>1 DEF NodeInv, ThreadOf
    <3>2. CASE m # n
      BY <1>1, <1>7, <1>8, <1>9, <3>2 DEF NodeInv, ThreadOf
    <3> QED BY <3>1, <3>2
  <2> QED BY <1>1, <1>4, <1>6, <1>7, <2>1 DEF NodeInv
<1>13. CountInv'
  BY <1>1, <1>7 DEF CountInv
<1> QED BY <1>10, <1>11, <1>12, <1>13

(* thread_stop unlinks a node, whether its thread was started or not.      *)
LEMMA StopStep ==
  ASSUME LibraryInv, NEW c \in Callers, NEW name, Stop(c, name)
  PROVE  LibraryInv'
<1> USE DEF LibraryInv
<1>1. PICK i \in DOMAIN threadqueue :
        /\ threadqueue' = RemoveAt(threadqueue, i)
        /\ thread_running' = thread_running - running[threadqueue[i]]
        /\ owner' = IF running[threadqueue[i]] = 1 THEN c ELSE Nobody
        /\ cpc' = [cpc EXCEPT ![c] = IF running[threadqueue[i]] = 1 THEN "join" ELSE "devices"]
        /\ cnode' = [cnode EXCEPT ![c] = threadqueue[i]]
  BY DEF Stop
<1>2. /\ cpc[c] = "stop" /\ owner = Nobody
      /\ UNCHANGED <<running, threadqueue_number, lpc, lnode, pthread, created, mpc,
                     threads_initialized>>
  BY DEF Stop, flagVars, loopVars, pthVars, gcVars
<1>3. PICK n \in Nodes : n = threadqueue[i] /\ n \in Listed
  BY DEF TypeInv, Listed, ToSet
<1>4. /\ threadqueue' \in Seq(Nodes) /\ Listed' = Listed \ {n}
      /\ \A j, k \in DOMAIN threadqueue' : threadqueue'[j] = threadqueue'[k] => j = k
  BY <1>1, <1>3, Unlinked DEF TypeInv, NodeInv, Listed
<1>5. Nobody \notin Callers /\ Nobody # Loop /\ Loop \notin Callers
  BY ThreadsConstants DEF Nobody, Loop
<1>6. lpc \notin {"test", "item", "mark", "towait", "done", "crashed"}
  BY <1>2, <1>5 DEF OwnerInv
<1>7. \A d \in Callers : cpc[d] # "join"
  BY <1>2, <1>5 DEF OwnerInv
<1>8. /\ cpc'[c] = IF running[n] = 1 THEN "join" ELSE "devices"
      /\ cnode'[c] = n
      /\ \A d \in Callers \ {c} : cpc'[d] = cpc[d] /\ cnode'[d] = cnode[d]
  BY <1>1, <1>3 DEF TypeInv
<1>9. running[n] \in {0, 1}
  BY DEF TypeInv
<1>10. cpc' \in [Callers -> {"idle", "signal", "devices", "spin", "free", "stop", "join"}]
  BY <1>1 DEF TypeInv
<1>11. thread_running' \in Int /\ cnode' \in [Callers -> Nodes \cup {NoNode}]
  BY <1>1, <1>3, <1>9 DEF TypeInv
<1>12. TypeInv'
  BY <1>2, <1>4, <1>10, <1>11 DEF TypeInv
<1>13. OwnerInv'
  BY <1>1, <1>2, <1>3, <1>5, <1>6, <1>7, <1>8 DEF OwnerInv
<1>14. \A m : ~ Marking(m)' /\ ~ Marking(m) /\ ~ Joining(m)
              /\ (Joining(m)' <=> running[n] = 1 /\ m = n)
  BY <1>2, <1>6, <1>7, <1>8 DEF Marking, Joining
<1>15. NodeInv'
  <2>1. \A d \in Callers : cpc'[d] = "join" => cnode'[d] \in Nodes \ Listed'
    BY <1>4, <1>7, <1>8
  <2>2. ASSUME NEW m \in Nodes
        PROVE  ThreadOf(m)'
    <3>1. CASE m = n
      BY <1>2, <1>3, <1>4, <1>9, <1>14, <3>1 DEF NodeInv, ThreadOf
    <3>2. CASE m # n
      BY <1>2, <1>4, <1>14, <3>2 DEF NodeInv, ThreadOf
    <3> QED BY <3>1, <3>2
  <2> QED BY <1>2, <1>4, <1>6, <2>1, <2>2 DEF NodeInv
<1>16. Listed \in SUBSET Nodes
  BY DEF Listed, ToSet, TypeInv
<1>17. /\ IsFiniteSet(Pending) /\ IsFiniteSet(Listed \ Pending)
       /\ Cardinality(Pending) \in Nat /\ Cardinality(Listed \ Pending) \in Nat
  <2>1. Pending \subseteq Nodes /\ Listed \ Pending \subseteq Nodes
    BY <1>16 DEF Pending
  <2> QED BY <2>1, ThreadsConstants, FS_Subset, FS_CardinalityType
<1>18. CASE running[n] = 0
  <2>1. n \in Pending /\ Pending' = Pending \ {n} /\ Listed' \ Pending' = Listed \ Pending
    BY <1>2, <1>3, <1>4, <1>18 DEF Pending
  <2>2. Cardinality(Pending') = Cardinality(Pending) - 1
    BY <1>17, <2>1, FS_RemoveElement
  <2>3. thread_running' = thread_running
    BY <1>1, <1>3, <1>18 DEF TypeInv
  <2>4. Cardinality(Pending') <= threadqueue_number'
    BY <1>2, <1>17, <2>2 DEF CountInv, TypeInv
  <2>5. CountInv'
    BY <2>1, <2>3, <2>4 DEF CountInv
  <2> QED BY <1>12, <1>13, <1>15, <2>5
<1>19. CASE running[n] = 1
  <2>1. n \in Listed \ Pending /\ Pending' = Pending
        /\ Listed' \ Pending' = (Listed \ Pending) \ {n}
    <3>1. n \notin Pending /\ n \in Listed
      BY <1>3, <1>19 DEF Pending
    <3>2. Pending' = {m \in Listed \ {n} : running[m] = 0}
      BY <1>2, <1>4 DEF Pending
    <3>3. Pending' = Pending
      BY <3>1, <3>2, Zenon DEF Pending
    <3> QED BY <1>4, <3>1, <3>3, Zenon
  <2>2. Cardinality(Listed' \ Pending') = Cardinality(Listed \ Pending) - 1
    <3>1. PICK S : S = Listed \ Pending
      OBVIOUS
    <3>2. Cardinality(S \ {n}) = Cardinality(S) - 1
      BY <1>17, <2>1, <3>1, FS_RemoveElement
    <3> QED BY <2>1, <3>1, <3>2
  <2>3. CountInv'
    BY <1>1, <1>2, <1>3, <1>17, <1>19, <2>1, <2>2 DEF CountInv, TypeInv
  <2> QED BY <1>12, <1>13, <1>15, <2>3
<1> QED BY <1>9, <1>18, <1>19

(* Steps that only move threads_loop or a caller on.                       *)
LEMMA ControlStep ==
  ASSUME LibraryInv, thread_loop = 1,
         \/ LoopLock \/ LoopTest \/ LoopNull \/ LoopWait \/ Start
         \/ \E c \in Callers : RegisterSignal(c)
  PROVE  LibraryInv'
<1> USE DEF LibraryInv
<1>1. /\ UNCHANGED <<threadqueue, running, threadqueue_number, thread_running, pthread, created,
                     cnode, lnode, mpc>>
  BY DEF LoopLock, LoopTest, LoopNull, LoopWait, Start, RegisterSignal, flagVars, listVars,
         pthVars, callVars, gcVars
<1>2. Nobody \notin Callers /\ Nobody # Loop /\ Loop \notin Callers
  BY ThreadsConstants DEF Nobody, Loop
<1>3. /\ cpc' \in [Callers -> {"idle", "signal", "devices", "spin", "free", "stop", "join"}]
      /\ \A d \in Callers : cpc'[d] = "join" <=> cpc[d] = "join"
  BY DEF LoopLock, LoopTest, LoopNull, LoopWait, Start, RegisterSignal, callVars, TypeInv
<1>4. /\ lpc' \in {"none", "lock", "test", "item", "mark", "towait", "waiting", "done", "crashed"}
      /\ lpc' = "mark" <=> lpc = "mark"
      /\ owner' = Loop <=> lpc' \in {"test", "item", "mark", "towait", "done", "crashed"}
      /\ lpc' = "none" <=> threads_initialized' = 0
      /\ \A d \in Callers : owner' = d <=> owner = d
  BY <1>2 DEF LoopLock, LoopTest, LoopNull, LoopWait, Start, RegisterSignal, Signalled,
              flagVars, TypeInv, OwnerInv
<1>5. TypeInv'
  BY <1>1, <1>3, <1>4 DEF TypeInv
<1>6. OwnerInv'
  BY <1>3, <1>4 DEF OwnerInv
<1> QED BY <1>1, <1>3, <1>4, <1>5, <1>6, ListUnchanged

(* Steps of devices_gc, and those of a polling thread.                     *)
LEMMA CollectStep ==
  ASSUME LibraryInv, NEW c \in Callers,
         DevicesGc(c) \/ ThreadGcStop(c) \/ ThreadGcSpin(c) \/ ThreadGcFree(c) \/ DevicesGcEnd(c)
  PROVE  LibraryInv'
<1> USE DEF LibraryInv
<1>1. /\ UNCHANGED <<threadqueue, running, threadqueue_number, thread_running, pthread, created,
                     cnode, lnode, lpc, owner, threads_initialized>>
  BY DEF DevicesGc, ThreadGcStop, ThreadGcSpin, ThreadGcFree, DevicesGcEnd, gcOnly, flagVars,
         listVars, loopVars, pthVars
<1>2. mpc' \in {"run", "config"}
  BY DEF DevicesGc, ThreadGcStop, ThreadGcSpin, ThreadGcFree, DevicesGcEnd, gcOnly, gcVars,
         TypeInv
<1>3. /\ cpc' \in [Callers -> {"idle", "signal", "devices", "spin", "free", "stop", "join"}]
      /\ \A d \in Callers : cpc'[d] = "join" <=> cpc[d] = "join"
  BY DEF DevicesGc, ThreadGcStop, ThreadGcSpin, ThreadGcFree, DevicesGcEnd, TypeInv
<1>4. TypeInv'
  BY <1>1, <1>2, <1>3 DEF TypeInv
<1>5. OwnerInv'
  BY <1>1, <1>3 DEF OwnerInv
<1> QED BY <1>1, <1>3, <1>4, <1>5, ListUnchanged

(* Steps that leave the library alone.                                     *)
LEMMA ThreadsStutter ==
  ASSUME LibraryInv, UNCHANGED threadOnly
  PROVE  LibraryInv'
<1>1. UNCHANGED <<threadqueue, running, threadqueue_number, thread_running, pthread, created,
                  cnode, lnode, lpc, owner, threads_initialized, cpc, mpc>>
  BY DEF threadOnly, flagVars, listVars, loopVars, pthVars, callVars, gcVars
<1>2. TypeInv' /\ OwnerInv'
  BY <1>1 DEF LibraryInv, TypeInv, OwnerInv
<1> QED BY <1>1, <1>2, ListUnchanged

----------------------------------------------------------------------------
(* A polling thread meets the library only at its end.                     *)
LEMMA PollFrame ==
  ASSUME NEW n, PollStep(n), ~ PollEnd(n)
  PROVE  UNCHANGED threadOnly
<1>1. CASE PollStart(n) \/ PollCount(n) \/ PollTest(n) \/ PollWait(n)
  BY <1>1 DEF PollStart, PollCount, PollTest, PollWait, pollOnly
<1>2. CASE PollTimeout(n) \/ PollDevice(n) \/ PollBroadcast(n) \/ PollWoken(n) \/ PollLeave(n)
  BY <1>2 DEF PollTimeout, PollDevice, PollBroadcast, PollWoken, PollLeave, pollOnly
<1> QED BY <1>1, <1>2 DEF PollStep

(* main_gc begins.                                                         *)
LEMMA MainGcFrame ==
  ASSUME MainGc
  PROVE  UNCHANGED threadOnly
BY DEF MainGc, threadsVars, threadOnly

(* thread_loop is cleared once and never set again.                        *)
LEMMA LoopFlag ==
  ASSUME [Next]_vars
  PROVE  thread_loop' = thread_loop \/ thread_loop' = 0
<1>1. CASE UNCHANGED vars \/ MainGc
  BY <1>1, MainGcFrame DEF vars, threadsVars, threadOnly, flagVars
<1>2. CASE LoopStep
  BY <1>2 DEF LoopStep, LoopLock, LoopTest, LoopCreate, LoopNull, LoopMark, LoopMarkFreed,
              LoopWait, flagVars
<1>3. CASE MainStep
  BY <1>3 DEF MainStep, ProtocolGc, GcBegin, Start, GcStep, GcSignal, GcWalk, GcJoin, GcFree,
              GcSpin, GcJoinLoop, flagVars
<1>4. ASSUME NEW c \in Callers, NEW n, RegisterDaemon(n) \/ initDev(c, n)
      PROVE  thread_loop' = thread_loop
  BY <1>4 DEF RegisterDaemon, initDev, Register, flagVars
<1>5. ASSUME NEW c \in Callers, DevicesGc(c) \/ CallerStep(c)
      PROVE  thread_loop' = thread_loop
  <2>1. CASE StopDevice(c)
    BY <2>1 DEF StopDevice, Stop, flagVars
  <2>2. CASE DevicesGc(c) \/ RegisterSignal(c) \/ StopJoin(c)
    BY <2>2 DEF DevicesGc, RegisterSignal, StopJoin, flagVars
  <2>3. CASE ThreadGcStop(c) \/ ThreadGcSpin(c) \/ ThreadGcFree(c) \/ DevicesGcEnd(c)
    BY <2>3 DEF ThreadGcStop, ThreadGcSpin, ThreadGcFree, DevicesGcEnd, gcOnly, flagVars
  <2> QED BY <1>5, <2>1, <2>2, <2>3 DEF CallerStep
<1>6. ASSUME NEW n, PollStep(n) \/ ThreadEnds(n)
      PROVE  thread_loop' = thread_loop
  <2>1. CASE ThreadEnds(n)
    BY <2>1 DEF ThreadEnds, flagVars
  <2>2. CASE PollEnd(n)
    BY <2>1, <2>2 DEF PollEnd
  <2>3. CASE PollStep(n) /\ ~ PollEnd(n)
    BY <2>3, PollFrame DEF threadOnly, flagVars
  <2> QED BY <1>6, <2>1, <2>2, <2>3
<1> QED BY <1>1, <1>2, <1>3, <1>4, <1>5, <1>6, ProtocolThreadsConstants
        DEF Next, DaemonThreadEnds

(* The step cases together.                                                *)
LEMMA ThreadsNext ==
  ASSUME ThreadsInv, [Next]_vars
  PROVE  ThreadsInv'
<1> USE DEF ThreadsInv
<1>1. thread_loop' = thread_loop \/ thread_loop' = 0
  BY LoopFlag
<1> SUFFICES ASSUME thread_loop = 1, thread_loop' = 1
             PROVE  LibraryInv'
  BY <1>1
<1>2. LibraryInv
  OBVIOUS
<1>3. mpc \in {"run", "config"} /\ (lpc = "mark" => lnode \in Listed)
  BY <1>2 DEF LibraryInv, TypeInv, NodeInv
<1>4. CASE UNCHANGED vars \/ MainGc
  <2>1. UNCHANGED threadOnly
    BY <1>4, MainGcFrame DEF vars, threadsVars, threadOnly
  <2> QED BY <1>2, <2>1, ThreadsStutter
<1>5. CASE LoopStep
  BY <1>2, <1>3, <1>5, ControlStep, CreateStep, MarkStep DEF LoopStep, LoopMarkFreed
<1>6. CASE MainStep
  <2>1. ~ ProtocolGc
    BY DEF ProtocolGc, GcBegin
  <2>2. ~ GcStep
    BY <1>3 DEF GcStep, GcSignal, GcWalk, GcJoin, GcFree, GcSpin, GcJoinLoop
  <2>3. Start
    BY <1>6, <2>1, <2>2 DEF MainStep
  <2> QED BY <1>2, <2>3, ControlStep
<1>7. ASSUME NEW n \in Nodes, RegisterDaemon(n)
      PROVE  LibraryInv'
  BY <1>2, <1>7, ProtocolThreadsConstants, RegisterStep DEF RegisterDaemon
<1>8. ASSUME NEW c \in Callers, NEW n \in Polling, initDev(c, n)
      PROVE  LibraryInv'
  BY <1>2, <1>8, ProtocolThreadsConstants, RegisterStep DEF initDev
<1>9. ASSUME NEW c \in Callers, DevicesGc(c) \/ CallerStep(c)
      PROVE  LibraryInv'
  <2>1. CASE StopDevice(c)
    BY <1>2, <2>1, StopStep DEF StopDevice
  <2>2. CASE RegisterSignal(c)
    BY <1>2, <2>2, ControlStep
  <2>3. CASE StopJoin(c)
    BY <1>2, <2>3, JoinStep
  <2> QED BY <1>2, <1>9, <2>1, <2>2, <2>3, CollectStep DEF CallerStep
<1>10. ASSUME NEW n \in Polling, PollStep(n)
       PROVE  LibraryInv'
  <2>1. CASE PollEnd(n)
    BY <1>2, <2>1, ProtocolThreadsConstants, EndStep DEF PollEnd
  <2>2. CASE ~ PollEnd(n)
    BY <1>2, <1>10, <2>2, PollFrame, ThreadsStutter
  <2> QED BY <2>1, <2>2
<1>11. ASSUME NEW n \in Nodes \ Polling, ThreadEnds(n)
       PROVE  LibraryInv'
  BY <1>2, <1>11, EndStep
<1> QED BY <1>4, <1>5, <1>6, <1>7, <1>8, <1>9, <1>10, <1>11 DEF Next, DaemonThreadEnds

(* The daemon before it has registered a thread.                           *)
LEMMA ThreadsInitially == Init => ThreadsInv
<1> SUFFICES ASSUME Init PROVE LibraryInv /\ thread_loop = 1
  BY DEF ThreadsInv
<1>1. thread_loop = 1 /\ TypeInv
  BY DEF Init, ThreadsInit, TypeInv
<1>2. OwnerInv
  BY ThreadsConstants DEF Init, ThreadsInit, OwnerInv, Nobody, Loop
<1>3. Listed = {} /\ Pending = {} /\ Listed \ Pending = {}
  BY DEF Init, ThreadsInit, Listed, Pending, ToSet
<1>4. NodeInv
  BY <1>3 DEF Init, ThreadsInit, NodeInv, ThreadOf, Marking
<1>5. CountInv
  BY <1>3, FS_EmptySet DEF Init, ThreadsInit, CountInv
<1> QED BY <1>1, <1>2, <1>4, <1>5 DEF LibraryInv

(* What thread_stop and threads_gc find, whatever was registered, started  *)
(* and stopped before: each listed thread was created once or not at all,  *)
(* no thread that was started gets lost, and both counters are right.      *)
THEOREM StartedOnceAndTracked == Spec => []ThreadsTracked
<1>1. ThreadsInv => ThreadsTracked
  <2> SUFFICES ASSUME ThreadsInv, thread_loop = 1 PROVE ThreadsTracked
    BY DEF ThreadsTracked
  <2>1. LibraryInv
    BY DEF ThreadsInv
  <2>2. Listed \in SUBSET Nodes
    BY <2>1 DEF LibraryInv, Listed, ToSet, TypeInv
  <2>3. \A n \in Listed : created[n] = IF running[n] = 1 \/ Marking(n) THEN 1 ELSE 0
    BY <2>1, <2>2 DEF LibraryInv, NodeInv, ThreadOf, TypeInv
  <2>4. \A n \in Nodes : pthread[n] \in {"live", "ended"} => n \in Listed \/ Joining(n)
    BY <2>1 DEF LibraryInv, NodeInv, ThreadOf
  <2> QED BY <2>1, <2>3, <2>4 DEF ThreadsTracked, Marking, Joining, LibraryInv, CountInv
<1>2. ThreadsInv /\ [Next]_vars => ThreadsInv'
  BY ThreadsNext
<1> QED BY <1>1, <1>2, ThreadsInitially, PTL DEF Spec

============================================================================
