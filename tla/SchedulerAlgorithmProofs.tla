---------------------- MODULE SchedulerAlgorithmProofs ----------------------
(***************************************************************************)
(* Proofs about SchedulerAlgorithm for any tasks and queues of any length: *)
(* the order of a queue does not matter for them, only its elements.       *)
(***************************************************************************)
EXTENDS SchedulerAlgorithm, FiniteSetTheorems, TLAPS

(* What the operations on a queue do to its elements.                      *)
LEMMA SetAppend ==
  ASSUME NEW T, NEW s \in Seq(T), NEW e \in T
  PROVE  Append(s, e) \in Seq(T) /\ ToSet(Append(s, e)) = ToSet(s) \cup {e}
<1>1. /\ Append(s, e) \in Seq(T) /\ Len(s) \in Nat /\ DOMAIN s = 1 .. Len(s)
      /\ DOMAIN Append(s, e) = 1 .. Len(s) + 1
      /\ Append(s, e)[Len(s) + 1] = e
      /\ \A i \in 1 .. Len(s) : Append(s, e)[i] = s[i]
  OBVIOUS
<1>2. \A i \in 1 .. Len(s) + 1 : i \in 1 .. Len(s) \/ i = Len(s) + 1
  BY <1>1
<1>3. 1 .. Len(s) \subseteq 1 .. Len(s) + 1 /\ Len(s) + 1 \in 1 .. Len(s) + 1
  BY <1>1
<1> QED BY <1>1, <1>2, <1>3 DEF ToSet

LEMMA SetConcat ==
  ASSUME NEW T, NEW s \in Seq(T), NEW t \in Seq(T)
  PROVE  s \o t \in Seq(T) /\ ToSet(s \o t) = ToSet(s) \cup ToSet(t)
<1>1. /\ s \o t \in Seq(T) /\ Len(s) \in Nat /\ Len(t) \in Nat
      /\ DOMAIN s = 1 .. Len(s) /\ DOMAIN t = 1 .. Len(t)
      /\ DOMAIN (s \o t) = 1 .. Len(s) + Len(t)
      /\ \A i \in 1 .. Len(s) : (s \o t)[i] = s[i]
      /\ \A i \in 1 .. Len(t) : (s \o t)[Len(s) + i] = t[i]
  OBVIOUS
<1>2. \A i \in 1 .. Len(s) + Len(t) : i \in 1 .. Len(s) \/ \E j \in 1 .. Len(t) : i = Len(s) + j
  <2> SUFFICES ASSUME NEW i \in 1 .. Len(s) + Len(t), i \notin 1 .. Len(s)
               PROVE  \E j \in 1 .. Len(t) : i = Len(s) + j
    OBVIOUS
  <2>1. i - Len(s) \in 1 .. Len(t) /\ i = Len(s) + (i - Len(s))
    BY <1>1
  <2> QED BY <2>1
<1>3. /\ 1 .. Len(s) \subseteq 1 .. Len(s) + Len(t)
      /\ \A j \in 1 .. Len(t) : Len(s) + j \in 1 .. Len(s) + Len(t)
  BY <1>1
<1>4. ToSet(s) \subseteq ToSet(s \o t)
  BY <1>1, <1>3 DEF ToSet
<1>5. ToSet(t) \subseteq ToSet(s \o t)
  <2> SUFFICES ASSUME NEW i \in 1 .. Len(t) PROVE t[i] \in ToSet(s \o t)
    BY <1>1 DEF ToSet
  <2>1. Len(s) + i \in DOMAIN (s \o t) /\ (s \o t)[Len(s) + i] = t[i]
    BY <1>1, <1>3
  <2> QED BY <2>1, Zenon DEF ToSet
<1>6. ToSet(s \o t) \subseteq ToSet(s) \cup ToSet(t)
  <2> SUFFICES ASSUME NEW i \in 1 .. Len(s) + Len(t) PROVE (s \o t)[i] \in ToSet(s) \cup ToSet(t)
    BY <1>1 DEF ToSet
  <2>1. CASE i \in 1 .. Len(s)
    BY <1>1, <2>1 DEF ToSet
  <2>2. ASSUME NEW j \in 1 .. Len(t), i = Len(s) + j PROVE (s \o t)[i] \in ToSet(t)
    BY <1>1, <2>2 DEF ToSet
  <2> QED BY <1>2, <2>1, <2>2
<1> QED BY <1>1, <1>4, <1>5, <1>6

LEMMA SetTail ==
  ASSUME NEW T, NEW s \in Seq(T), s # <<>>
  PROVE  Head(s) \in T /\ Tail(s) \in Seq(T) /\ ToSet(s) = {Head(s)} \cup ToSet(Tail(s))
<1>1. /\ Tail(s) \in Seq(T) /\ Len(s) \in Nat \ {0} /\ DOMAIN s = 1 .. Len(s)
      /\ Head(s) = s[1] /\ DOMAIN Tail(s) = 1 .. Len(s) - 1
      /\ \A i \in 1 .. Len(s) - 1 : Tail(s)[i] = s[i + 1]
  OBVIOUS
<1>2. \A i \in 1 .. Len(s) : i = 1 \/ \E j \in 1 .. Len(s) - 1 : i = j + 1
  <2> SUFFICES ASSUME NEW i \in 1 .. Len(s), i # 1 PROVE \E j \in 1 .. Len(s) - 1 : i = j + 1
    OBVIOUS
  <2>1. i - 1 \in 1 .. Len(s) - 1 /\ i = (i - 1) + 1
    BY <1>1
  <2> QED BY <2>1
<1>3. 1 \in 1 .. Len(s) /\ \A j \in 1 .. Len(s) - 1 : j + 1 \in 1 .. Len(s)
  BY <1>1
<1>4. {Head(s)} \cup ToSet(Tail(s)) \subseteq ToSet(s)
  BY <1>1, <1>3 DEF ToSet
<1>5. ToSet(s) \subseteq {Head(s)} \cup ToSet(Tail(s))
  <2> SUFFICES ASSUME NEW i \in 1 .. Len(s) PROVE s[i] \in {Head(s)} \cup ToSet(Tail(s))
    BY <1>1 DEF ToSet
  <2>1. ASSUME NEW j \in 1 .. Len(s) - 1, i = j + 1 PROVE s[i] \in ToSet(Tail(s))
    BY <1>1, <2>1 DEF ToSet
  <2> QED BY <1>1, <1>2, <2>1
<1> QED BY <1>1, <1>3, <1>4, <1>5

LEMMA SetEmpty ==
  ASSUME NEW T, NEW s \in Seq(T)
  PROVE  ToSet(s) \subseteq T /\ (s = <<>> <=> ToSet(s) = {})
<1>1. DOMAIN s = 1 .. Len(s) /\ Len(s) \in Nat /\ \A i \in 1 .. Len(s) : s[i] \in T
  OBVIOUS
<1>2. s # <<>> => s[1] \in ToSet(s)
  BY <1>1 DEF ToSet
<1>3. s = <<>> => ToSet(s) = {}
  BY DEF ToSet
<1> QED BY <1>1, <1>2, <1>3 DEF ToSet

(* A non-empty set of indexes has a smallest one.                          *)
LEMMA Smallest ==
  ASSUME NEW S \in SUBSET Nat, S # {}
  PROVE  Min(S) \in S
<1> DEFINE R == OpToRel(<, Nat)
<1>1. PICK x \in S : \A y \in S : ~ (<<y, x>> \in R)
  BY NatLessThanWellFounded, WFMin
<1>2. \A y \in S : x <= y
  <2> SUFFICES ASSUME NEW y \in S, y < x PROVE FALSE
    OBVIOUS
  <2>1. <<y, x>> \in R
    BY DEF OpToRel
  <2> QED BY <1>1, <2>1
<1> QED BY <1>2 DEF Min

(* suspend takes at most the suspended task itself out of `deferred`.      *)
LEMMA SetRemoveFirst ==
  ASSUME NEW T, NEW s \in Seq(T), NEW e
  PROVE  /\ RemoveFirst(s, e) \in Seq(T)
         /\ ToSet(s) \ {e} \subseteq ToSet(RemoveFirst(s, e))
         /\ ToSet(RemoveFirst(s, e)) \subseteq ToSet(s)
<1> DEFINE I == {i \in 1 .. Len(s) : s[i] = e}
           p == Min(I)
<1>0. Len(s) \in Nat /\ DOMAIN s = 1 .. Len(s)
  OBVIOUS
<1>1. CASE I = {}
  <2>1. RemoveFirst(s, e) = s
    BY <1>1 DEF RemoveFirst
  <2> QED BY <2>1
<1>2. CASE I # {}
  <2>1. RemoveFirst(s, e) = SubSeq(s, 1, p - 1) \o SubSeq(s, p + 1, Len(s))
    BY <1>2 DEF RemoveFirst, RemoveAt, SelectInSeq
  <2>2. p \in 1 .. Len(s) /\ s[p] = e
    <3>1. I \in SUBSET Nat
      BY <1>0
    <3> HIDE DEF I
    <3>2. p \in I
      BY <1>2, <3>1, Smallest
    <3> QED BY <3>2 DEF I
  <2> HIDE DEF p, I
  <2> DEFINE a == SubSeq(s, 1, p - 1)
             b == SubSeq(s, p + 1, Len(s))
  <2>3. /\ a \in Seq(T) /\ DOMAIN a = 1 .. p - 1
        /\ \A i \in 1 .. p - 1 : a[i] = s[i]
    BY <1>0, <2>2
  <2>4. /\ b \in Seq(T) /\ DOMAIN b = 1 .. Len(s) - p
        /\ \A i \in 1 .. Len(s) - p : b[i] = s[p + i]
    BY <1>0, <2>2
  <2>5. ToSet(a) \subseteq ToSet(s) /\ ToSet(b) \subseteq ToSet(s)
    BY <1>0, <2>2, <2>3, <2>4 DEF ToSet
  <2>6. ToSet(s) \ {e} \subseteq ToSet(a) \cup ToSet(b)
    <3> SUFFICES ASSUME NEW i \in 1 .. Len(s), s[i] # e PROVE s[i] \in ToSet(a) \cup ToSet(b)
      BY <1>0 DEF ToSet
    <3>1. CASE i < p
      <4>1. i \in 1 .. p - 1
        BY <2>2, <3>1
      <4> QED BY <2>3, <4>1 DEF ToSet
    <3>2. CASE i > p
      <4>1. i - p \in 1 .. Len(s) - p /\ p + (i - p) = i
        BY <1>0, <2>2, <3>2
      <4>2. b[i - p] = s[i] /\ i - p \in DOMAIN b
        BY <2>4, <4>1
      <4> QED BY <4>2 DEF ToSet
    <3> QED BY <2>2, <3>1, <3>2
  <2> HIDE DEF a, b
  <2>7. a \o b \in Seq(T) /\ ToSet(a \o b) = ToSet(a) \cup ToSet(b)
    BY <2>3, <2>4, SetConcat
  <2>8. RemoveFirst(s, e) = a \o b
    BY <2>1 DEF a, b
  <2> QED BY <2>5, <2>6, <2>7, <2>8
<1> QED BY <1>1, <1>2

(* retain keeps exactly the elements it is to keep: the places it gives    *)
(* them are different, and so they are all the places of the new queue.    *)
(* It does not repeat an element.                                          *)
LEMMA SetRetained ==
  ASSUME NEW T, NEW s \in Seq(T), NEW S
  PROVE  /\ Retained(s, S) \in Seq(T) /\ ToSet(Retained(s, S)) = ToSet(s) \cap S
         /\ IsInjective(s) => IsInjective(Retained(s, S))
<1> DEFINE kept == {i \in DOMAIN s : s[i] \in S}
           upto(i) == {j \in kept : j <= i}
           place == [i \in kept |-> Cardinality(upto(i))]
           n == Cardinality(kept)
<1>1. /\ DOMAIN s = 1 .. Len(s) /\ Len(s) \in Nat /\ kept \subseteq 1 .. Len(s)
      /\ IsFiniteSet(kept) /\ n \in Nat
  <2>1. DOMAIN s = 1 .. Len(s) /\ Len(s) \in Nat
    OBVIOUS
  <2>2. IsFiniteSet(1 .. Len(s))
    BY <2>1, FS_Interval
  <2>3. kept \in SUBSET (1 .. Len(s))
    BY <2>1
  <2> HIDE DEF kept
  <2>4. IsFiniteSet(kept)
    BY <2>2, <2>3, FS_Subset
  <2> QED BY <2>1, <2>3, <2>4, FS_CardinalityType
<1>2. \A i \in kept : s[i] \in S /\ s[i] \in T
  BY <1>1
<1>12. \A i \in DOMAIN s : s[i] \in S => i \in kept
  OBVIOUS
<1> HIDE DEF kept
<1>3. ASSUME NEW i \in kept
      PROVE  IsFiniteSet(upto(i)) /\ Cardinality(upto(i)) \in 1 .. n
  <2>1. upto(i) \in SUBSET kept /\ i \in upto(i)
    BY <1>1
  <2> HIDE DEF upto
  <2>2. IsFiniteSet(upto(i)) /\ Cardinality(upto(i)) <= n /\ Cardinality(upto(i)) \in Nat
    BY <1>1, <2>1, FS_Subset, FS_CardinalityType
  <2>3. Cardinality(upto(i)) # 0
    BY <2>1, <2>2, FS_EmptySet
  <2> QED BY <1>1, <2>2, <2>3
<1>4. ASSUME NEW i \in kept, NEW j \in kept, i < j PROVE Cardinality(upto(i)) # Cardinality(upto(j))
  <2>0. \A x \in kept : x \in Nat
    BY <1>1
  <2>1. upto(i) \in SUBSET upto(j) /\ j \in upto(j) /\ j \notin upto(i)
    BY <1>4, <2>0
  <2> HIDE DEF upto
  <2>2. IsFiniteSet(upto(j))
    BY <1>3
  <2> QED BY <2>1, <2>2, FS_Subset
<1>5. place \in Surjection(kept, 1 .. n)
  <2>1. place \in [kept -> 1 .. n]
    BY <1>3
  <2>2. ASSUME NEW i \in kept, NEW j \in kept, place[i] = place[j] PROVE i = j
    <3>1. i \in Nat /\ j \in Nat
      BY <1>1
    <3> QED BY <1>4, <2>2, <3>1
  <2> HIDE DEF place
  <2>3. place \in Injection(kept, 1 .. n)
    BY <2>1, <2>2 DEF Injection, IsInjective
  <2>4. IsFiniteSet(1 .. n) /\ Cardinality(1 .. n) = n
    BY <1>1, FS_Interval
  <2> QED BY <2>3, <2>4, FS_Injection
<1> DEFINE nth(m) == CHOOSE i \in kept : Cardinality(upto(i)) = m
           r == [m \in 1 .. n |-> s[nth(m)]]
<1>6. ASSUME NEW m \in 1 .. n PROVE nth(m) \in kept /\ Cardinality(upto(nth(m))) = m
  <2>1. \E i \in kept : place[i] = m
    <3> HIDE DEF place
    <3> QED BY <1>5, <1>6 DEF Surjection
  <2>2. \E i \in kept : Cardinality(upto(i)) = m
    BY <2>1
  <2> QED BY <2>2
<1>7. Retained(s, S) = r
  BY DEF Retained, kept
<1>8. r \in Seq(T)
  <2>1. \A m \in 1 .. n : s[nth(m)] \in T
    BY <1>2, <1>6
  <2>2. r \in [1 .. n -> T]
    BY <2>1
  <2> HIDE DEF r, n
  <2> QED BY <1>1, <2>2
<1>9. ASSUME NEW i \in kept PROVE s[i] \in ToSet(r)
  <2> DEFINE m == Cardinality(upto(i))
  <2>1. m \in 1 .. n
    BY <1>3
  <2>2. nth(m) \in kept /\ Cardinality(upto(nth(m))) = m
    BY <1>6, <2>1
  <2>3. nth(m) = i
    <3> HIDE DEF nth, upto
    <3>1. \A x \in kept : x \in Nat
      BY <1>1
    <3>2. nth(m) < i \/ i < nth(m) \/ nth(m) = i
      BY <2>2, <3>1
    <3> QED BY <1>4, <2>2, <3>2
  <2>4. r[m] = s[i] /\ m \in DOMAIN r
    BY <2>1, <2>3
  <2> HIDE DEF r, m
  <2> QED BY <2>4 DEF ToSet
<1>10. ASSUME NEW m \in 1 .. n PROVE r[m] \in ToSet(s) \cap S
  <2>1. nth(m) \in kept
    BY <1>6
  <2>2. nth(m) \in DOMAIN s /\ s[nth(m)] \in S
    BY <1>1, <1>2, <2>1
  <2>3. r[m] = s[nth(m)]
    OBVIOUS
  <2> HIDE DEF r, nth
  <2> QED BY <2>2, <2>3 DEF ToSet
<1>11. DOMAIN r = 1 .. n
  OBVIOUS
<1>13. ASSUME IsInjective(s), NEW m \in 1 .. n, NEW p \in 1 .. n, r[m] = r[p] PROVE m = p
  <2>1. /\ nth(m) \in kept /\ Cardinality(upto(nth(m))) = m
        /\ nth(p) \in kept /\ Cardinality(upto(nth(p))) = p
    BY <1>6
  <2>2. s[nth(m)] = s[nth(p)]
    BY <1>13
  <2> HIDE DEF nth, r
  <2>3. nth(m) = nth(p)
    BY <1>1, <1>13, <2>1, <2>2 DEF IsInjective
  <2> HIDE DEF upto
  <2> QED BY <2>1, <2>3
<1> HIDE DEF r
<1>14. IsInjective(s) => IsInjective(r)
  BY <1>11, <1>13 DEF IsInjective
<1>15. ToSet(r) = ToSet(s) \cap S
  BY <1>12, <1>9, <1>10, <1>11 DEF ToSet
<1> QED BY <1>7, <1>8, <1>14, <1>15
----------------------------------------------------------------------------
SuspendedTasks == {k \in TaskKeys : reason[k] = "Suspended"}

QueueTypes == /\ queue \in [BOOLEAN -> Seq(TaskKeys)] /\ which \in BOOLEAN
              /\ deferred \in Seq(TaskKeys)

TaskTypes == /\ reason \in [TaskKeys -> {"Vacant", "None", "Suspended", "Cancelled"}]
             /\ runnable \in [TaskKeys -> BOOLEAN]
             /\ scan_registry \in BOOLEAN
             /\ current \in TaskKeys \cup {NoTask}
             /\ last_waker \in {"empty", "registered", "notified"}
             /\ at \in {"idle", "process", "register", "again", "rotate", "poll", "stuck", "unwound"}
             /\ verdict \in {"None", "Pending", "Finished", "Suspended"}
             /\ panicked \subseteq TaskKeys

\* The task that is polled stays at the front of its queue: handles never
\* touch that queue.
FrontInv == at = "poll" => from # <<>> /\ current = Head(from)

\* dec_suspended does not underflow because the count is exact.
CountInv == /\ IsFiniteSet(SuspendedTasks) /\ leaked \in Nat
            /\ suspended_count = Cardinality(SuspendedTasks) + leaked

\* The waker is registered when both queues are empty, and it is still there,
\* or was used, when the tasks are looked at again.
WaitInv == /\ at \in {"register", "again"} => from = <<>> /\ to = <<>>
           /\ at = "again" => last_waker # "empty"

QInv == QueueTypes /\ TaskTypes /\ FrontInv /\ CountInv /\ WaitInv /\ NeverLost

(* The two queues are different places.                                    *)
LEMMA TwoQueues ==
  ASSUME NEW S, NEW q \in [BOOLEAN -> S], NEW b \in BOOLEAN, NEW v \in S
  PROVE  /\ [q EXCEPT ![b] = v] \in [BOOLEAN -> S]
         /\ [q EXCEPT ![b] = v][b] = v /\ [q EXCEPT ![b] = v][~ b] = q[~ b]
         /\ [q EXCEPT ![~ b] = v] \in [BOOLEAN -> S]
         /\ [q EXCEPT ![~ b] = v][~ b] = v /\ [q EXCEPT ![~ b] = v][b] = q[b]
         /\ (~ b) \in BOOLEAN /\ q[b] \in S /\ q[~ b] \in S
<1>1. CASE b = TRUE
  BY <1>1
<1>2. CASE b = FALSE
  BY <1>2
<1> QED BY <1>1, <1>2

\* Queued(k), whichever queue is which.
InQueues(k) == (\E b \in BOOLEAN : k \in ToSet(queue[b])) \/ k \in ToSet(deferred)

LEMMA QueuedIs == /\ which \in BOOLEAN => \A k : Queued(k) <=> InQueues(k)
                  /\ which' \in BOOLEAN => \A k : Queued(k)' <=> InQueues(k)'
<1>1. ASSUME which \in BOOLEAN PROVE \A k : Queued(k) <=> InQueues(k)
  <2>1. CASE which = TRUE
    BY <2>1 DEF Queued, InQueues, Has, from, to
  <2>2. CASE which = FALSE
    BY <2>2 DEF Queued, InQueues, Has, from, to
  <2> QED BY <1>1, <2>1, <2>2
<1>2. ASSUME which' \in BOOLEAN PROVE \A k : Queued(k)' <=> InQueues(k)'
  <2>1. CASE which' = TRUE
    BY <2>1 DEF Queued, InQueues, Has, from, to
  <2>2. CASE which' = FALSE
    BY <2>2 DEF Queued, InQueues, Has, from, to
  <2> QED BY <1>2, <2>1, <2>2
<1> QED BY <1>1, <1>2

(* What is in the queues after a step that changed one or both of them.    *)
LEMMA InQueuesStep ==
  ASSUME QueueTypes, which' \in BOOLEAN
  PROVE  /\ \A k : InQueues(k) <=> (k \in ToSet(from) \/ k \in ToSet(to) \/ k \in ToSet(deferred))
         /\ \A k : InQueues(k)' <=> \/ k \in ToSet(queue'[which])
                                    \/ k \in ToSet(queue'[~ which])
                                    \/ k \in ToSet(deferred')
<1>1. CASE which = TRUE
  BY <1>1 DEF InQueues, from, to
<1>2. CASE which = FALSE
  BY <1>2 DEF InQueues, from, to
<1> QED BY <1>1, <1>2 DEF QueueTypes

(* A task that was not lost is in the queues.                              *)
LEMMA NotLost ==
  ASSUME QueueTypes, NeverLost, NEW k \in TaskKeys \ panicked, reason[k] \in {"None", "Cancelled"}
  PROVE  InQueues(k) \/ (reason[k] = "Cancelled" /\ scan_registry)
BY QueuedIs DEF NeverLost, QueueTypes

LEMMA StillNotLost ==
  ASSUME QueueTypes',
         \A k \in TaskKeys \ panicked' : \/ reason'[k] \notin {"None", "Cancelled"}
                                         \/ InQueues(k)'
                                         \/ reason'[k] = "Cancelled" /\ scan_registry'
  PROVE  NeverLost'
BY QueuedIs DEF NeverLost, QueueTypes
----------------------------------------------------------------------------
(* What handles do to the queues: they only add to `to` and to `deferred`, *)
(* and take out only a task that they suspend.                             *)
HandleEffect(k) ==
  /\ QueueTypes' /\ which' = which /\ queue'[which] = queue[which]
  /\ \A j \in TaskKeys : j # k => /\ reason'[j] = reason[j]
                                  /\ InQueues(j) => InQueues(j)'
  /\ scan_registry => scan_registry'
  /\ panicked \ {k} \subseteq panicked'

LEMMA RegisterEffect ==
  ASSUME QInv, NEW k \in TaskKeys, NEW r \in {"None", "Suspended"}, Register(k, r)
  PROVE  HandleEffect(k) /\ (reason'[k] = "None" => InQueues(k)') /\ reason'[k] = r
<1>1. /\ which' = which /\ deferred' = deferred /\ reason' = [reason EXCEPT ![k] = r]
      /\ panicked' = panicked \ {k} /\ scan_registry' = scan_registry
  BY DEF Register, HandleUsed, SetReason
<1>2. QueueTypes /\ TaskTypes
  BY DEF QInv
<1>3. reason'[k] = r /\ \A j \in TaskKeys : j # k => reason'[j] = reason[j]
  BY <1>1, <1>2 DEF TaskTypes
<1>4. /\ queue' \in [BOOLEAN -> Seq(TaskKeys)] /\ queue'[which] = queue[which]
      /\ \/ queue' = queue /\ r = "Suspended"
         \/ ToSet(queue'[~ which]) = ToSet(to) \cup {k}
  <2>1. CASE r = "Suspended"
    BY <1>2, <2>1 DEF Register, QueueTypes
  <2>2. CASE r # "Suspended"
    <3>1. queue' = [queue EXCEPT ![~ which] = Append(to, k)]
      BY <2>2 DEF Register, enqueue_runnable, to
    <3>2. to \in Seq(TaskKeys)
      BY <1>2, TwoQueues DEF QueueTypes, to
    <3>3. Append(to, k) \in Seq(TaskKeys) /\ ToSet(Append(to, k)) = ToSet(to) \cup {k}
      BY <3>2, SetAppend
    <3> QED BY <1>2, <3>1, <3>3, TwoQueues DEF QueueTypes
  <2> QED BY <2>1, <2>2
<1>5. QueueTypes'
  BY <1>1, <1>2, <1>4 DEF QueueTypes
<1>6. \A j : InQueues(j) => InQueues(j)'
  <2>1. queue'[which] = from /\ ToSet(to) \subseteq ToSet(queue'[~ which])
    BY <1>4 DEF from, to
  <2> QED BY <1>1, <1>2, <1>5, <2>1, InQueuesStep DEF QueueTypes
<1>7. r = "None" => InQueues(k)'
  BY <1>2, <1>4, <1>5, InQueuesStep DEF QueueTypes
<1> QED BY <1>1, <1>3, <1>4, <1>5, <1>6, <1>7 DEF HandleEffect

LEMMA ResumeEffect ==
  ASSUME QInv, NEW k \in TaskKeys, Resume(k)
  PROVE  HandleEffect(k) /\ InQueues(k)'
<1>1. /\ which' = which /\ reason' = [reason EXCEPT ![k] = "None"]
      /\ panicked' = panicked \ {k} /\ scan_registry' = scan_registry
  BY DEF Resume, HandleUsed, SetReason
<1>2. QueueTypes /\ TaskTypes /\ to \in Seq(TaskKeys)
  BY TwoQueues DEF QInv, QueueTypes, to
<1>3. \A j \in TaskKeys : j # k => reason'[j] = reason[j]
  BY <1>1, <1>2 DEF TaskTypes
<1>4. /\ queue' \in [BOOLEAN -> Seq(TaskKeys)] /\ queue'[which] = queue[which]
      /\ deferred' \in Seq(TaskKeys)
      /\ ToSet(to) \subseteq ToSet(queue'[~ which]) /\ ToSet(deferred) \subseteq ToSet(deferred')
      /\ k \in ToSet(queue'[~ which]) \/ k \in ToSet(deferred')
  <2>1. CASE runnable[k] \/ current = k
    <3>1. deferred' = deferred
      BY <2>1 DEF Resume
    <3>2. CASE Has(to, k)
      <4>1. queue' = queue
        BY <2>1, <3>2 DEF Resume
      <4> QED BY <1>2, <3>1, <3>2, <4>1 DEF QueueTypes, Has, to
    <3>3. CASE ~ Has(to, k)
      <4>1. queue' = [queue EXCEPT ![~ which] = Append(to, k)]
        BY <2>1, <3>3 DEF Resume, enqueue_runnable, to
      <4>2. Append(to, k) \in Seq(TaskKeys) /\ ToSet(Append(to, k)) = ToSet(to) \cup {k}
        BY <1>2, SetAppend
      <4>3. /\ queue' \in [BOOLEAN -> Seq(TaskKeys)] /\ queue'[which] = queue[which]
            /\ queue'[~ which] = Append(to, k)
        BY <1>2, <4>1, <4>2, TwoQueues DEF QueueTypes
      <4> QED BY <1>2, <3>1, <4>2, <4>3 DEF QueueTypes
    <3> QED BY <3>2, <3>3
  <2>2. CASE ~ (runnable[k] \/ current = k)
    <3>1. queue' = queue /\ deferred' = IF Has(deferred, k) THEN deferred ELSE Append(deferred, k)
      BY <2>2 DEF Resume
    <3>2. Append(deferred, k) \in Seq(TaskKeys) /\ ToSet(Append(deferred, k)) = ToSet(deferred) \cup {k}
      BY <1>2, SetAppend DEF QueueTypes
    <3>3. deferred' \in Seq(TaskKeys) /\ ToSet(deferred') = ToSet(deferred) \cup {k}
      BY <1>2, <3>1, <3>2 DEF QueueTypes, Has
    <3> QED BY <1>2, <3>1, <3>3 DEF QueueTypes, to
  <2> QED BY <2>1, <2>2
<1>5. QueueTypes'
  BY <1>1, <1>2, <1>4 DEF QueueTypes
<1>6. (\A j : InQueues(j) => InQueues(j)') /\ InQueues(k)'
  <2>1. queue'[which] = from
    BY <1>4 DEF from
  <2> QED BY <1>2, <1>4, <1>5, <2>1, InQueuesStep DEF QueueTypes
<1> QED BY <1>1, <1>3, <1>4, <1>5, <1>6 DEF HandleEffect

LEMMA SuspendEffect ==
  ASSUME QInv, NEW k \in TaskKeys, Suspend(k)
  PROVE  HandleEffect(k)
<1>1. /\ which' = which /\ reason' = [reason EXCEPT ![k] = "Suspended"] /\ queue' = queue
      /\ panicked' = panicked /\ scan_registry' = scan_registry
      /\ deferred' = IF runnable[k] THEN deferred ELSE RemoveFirst(deferred, k)
  BY DEF Suspend, HandleUsed, SetReason
<1>2. QueueTypes /\ TaskTypes
  BY DEF QInv
<1>3. \A j \in TaskKeys : j # k => reason'[j] = reason[j]
  BY <1>1, <1>2 DEF TaskTypes
<1>4. deferred' \in Seq(TaskKeys) /\ ToSet(deferred) \ {k} \subseteq ToSet(deferred')
  <2>1. deferred \in Seq(TaskKeys)
    BY <1>2 DEF QueueTypes
  <2>2. /\ RemoveFirst(deferred, k) \in Seq(TaskKeys)
        /\ ToSet(deferred) \ {k} \subseteq ToSet(RemoveFirst(deferred, k))
    BY <2>1, SetRemoveFirst
  <2> QED BY <1>1, <2>1, <2>2
<1>5. QueueTypes'
  BY <1>1, <1>2, <1>4 DEF QueueTypes
<1>6. \A j \in TaskKeys : j # k => (InQueues(j) => InQueues(j)')
  BY <1>1, <1>4 DEF InQueues
<1> QED BY <1>1, <1>3, <1>5, <1>6 DEF HandleEffect

LEMMA CancelEffect ==
  ASSUME QInv, NEW k \in TaskKeys, Cancel(k)
  PROVE  /\ HandleEffect(k)
         /\ InQueues(k) => InQueues(k)'
         /\ reason[k] = "Suspended" => scan_registry'
<1>1. /\ which' = which /\ reason' = [reason EXCEPT ![k] = "Cancelled"] /\ queue' = queue
      /\ panicked' = panicked /\ deferred' = deferred
      /\ scan_registry => scan_registry'
      /\ reason[k] = "Suspended" => scan_registry'
  BY DEF Cancel, HandleUsed, SetReason
<1>2. QueueTypes /\ TaskTypes
  BY DEF QInv
<1>3. \A j \in TaskKeys : j # k => reason'[j] = reason[j]
  BY <1>1, <1>2 DEF TaskTypes
<1>4. QueueTypes'
  BY <1>1, <1>2 DEF QueueTypes
<1>5. \A j : InQueues(j) => InQueues(j)'
  BY <1>1 DEF InQueues
<1> QED BY <1>1, <1>3, <1>4, <1>5 DEF HandleEffect

(* drain_runnable moves the runnable tasks to the queue of this turn.  It  *)
(* drops from `deferred` what is suspended, and frees what is cancelled.   *)
LEMMA DrainEffect ==
  ASSUME QueueTypes, drain_runnable
  PROVE  /\ queue' \in [BOOLEAN -> Seq(TaskKeys)] /\ deferred' \in Seq(TaskKeys)
         /\ ToSet(deferred') = ToSet(deferred) \cap {k \in TaskKeys : StaysDeferred(k)}
         /\ ToSet(queue'[which]) = ToSet(from) \cup (ToSet(deferred) \cap {k \in TaskKeys : MovesOut(k)})
         /\ queue'[~ which] = to
<1> DEFINE moved == Retained(deferred, {k \in TaskKeys : MovesOut(k)})
<1>1. /\ deferred' = Retained(deferred, {k \in TaskKeys : StaysDeferred(k)})
      /\ queue' = [queue EXCEPT ![which] = from \o moved]
  BY DEF drain_runnable, from
<1>2. deferred \in Seq(TaskKeys) /\ from \in Seq(TaskKeys)
  BY TwoQueues DEF QueueTypes, from
<1>3. /\ deferred' \in Seq(TaskKeys)
      /\ ToSet(deferred') = ToSet(deferred) \cap {k \in TaskKeys : StaysDeferred(k)}
      /\ moved \in Seq(TaskKeys)
      /\ ToSet(moved) = ToSet(deferred) \cap {k \in TaskKeys : MovesOut(k)}
  BY <1>1, <1>2, SetRetained
<1> HIDE DEF moved
<1>4. from \o moved \in Seq(TaskKeys) /\ ToSet(from \o moved) = ToSet(from) \cup ToSet(moved)
  BY <1>2, <1>3, SetConcat
<1>5. /\ queue' \in [BOOLEAN -> Seq(TaskKeys)]
      /\ queue'[which] = from \o moved /\ queue'[~ which] = to
  BY <1>1, <1>4, TwoQueues DEF QueueTypes, to
<1> QED BY <1>3, <1>4, <1>5

(* Guard::drop takes the polled task off the front of its queue.           *)
LEMMA GuardEffect ==
  ASSUME QueueTypes, from # <<>>, NEW requeued \in Seq(TaskKeys), GuardDrop(requeued)
  PROVE  /\ queue' \in [BOOLEAN -> Seq(TaskKeys)] /\ which' = which
         /\ ToSet(from) = {Head(from)} \cup ToSet(queue'[which])
         /\ ToSet(queue'[~ which]) = ToSet(to) \cup ToSet(requeued)
<1>1. which' = which /\ queue' = [queue EXCEPT ![which] = Tail(from), ![~ which] = to \o requeued]
  <2>1. CASE which = TRUE
    BY <2>1 DEF GuardDrop, QueueTypes, from, to
  <2>2. CASE which = FALSE
    BY <2>2 DEF GuardDrop, QueueTypes, from, to
  <2> QED BY <2>1, <2>2 DEF QueueTypes
<1>2. from \in Seq(TaskKeys) /\ to \in Seq(TaskKeys)
  BY TwoQueues DEF QueueTypes, from, to
<1>3. Tail(from) \in Seq(TaskKeys) /\ ToSet(from) = {Head(from)} \cup ToSet(Tail(from))
  BY <1>2, SetTail
<1>4. to \o requeued \in Seq(TaskKeys) /\ ToSet(to \o requeued) = ToSet(to) \cup ToSet(requeued)
  BY <1>2, SetConcat
<1> DEFINE q == [queue EXCEPT ![which] = Tail(from)]
<1>5. q \in [BOOLEAN -> Seq(TaskKeys)] /\ q[which] = Tail(from)
  BY <1>3, TwoQueues DEF QueueTypes
<1>6. queue' = [q EXCEPT ![~ which] = to \o requeued]
  BY <1>1
<1> HIDE DEF q
<1>7. /\ queue' \in [BOOLEAN -> Seq(TaskKeys)]
      /\ queue'[which] = Tail(from) /\ queue'[~ which] = to \o requeued
  BY <1>4, <1>5, <1>6, TwoQueues DEF QueueTypes
<1> QED BY <1>1, <1>3, <1>4, <1>7
----------------------------------------------------------------------------
(* The parts of the invariant that are about the queues.                   *)
Placed == QueueTypes /\ FrontInv /\ WaitInv /\ NeverLost

(* Calls on a handle of task k keep every other task in its place.         *)
LEMMA HandlePlaced ==
  ASSUME QInv, NEW k \in TaskKeys, HandleEffect(k), HandleUsed,
         k \notin panicked' => \/ reason'[k] \notin {"None", "Cancelled"}
                               \/ InQueues(k)'
                               \/ reason'[k] = "Cancelled" /\ scan_registry'
  PROVE  Placed'
<1>1. at' = at /\ at \in {"idle", "poll"} /\ current' = current
  BY DEF HandleUsed
<1>2. QueueTypes' /\ from' = from
  BY DEF HandleEffect, from
<1>3. FrontInv' /\ WaitInv'
  BY <1>1, <1>2 DEF QInv, FrontInv, WaitInv
<1>4. ASSUME NEW j \in TaskKeys \ panicked'
      PROVE  \/ reason'[j] \notin {"None", "Cancelled"}
             \/ InQueues(j)'
             \/ reason'[j] = "Cancelled" /\ scan_registry'
  <2>1. CASE j # k
    <3>1. reason'[j] = reason[j] /\ (InQueues(j) => InQueues(j)') /\ j \notin panicked
      BY <1>4, <2>1 DEF HandleEffect
    <3>2. reason[j] \in {"None", "Cancelled"} => InQueues(j) \/ (reason[j] = "Cancelled" /\ scan_registry)
      BY <3>1, NotLost DEF QInv
    <3> QED BY <3>1, <3>2 DEF HandleEffect
  <2> QED BY <1>4, <2>1
<1>5. NeverLost'
  BY <1>2, <1>4, StillNotLost
<1> QED BY <1>2, <1>3, <1>5 DEF Placed

LEMMA HandlesPlaced ==
  ASSUME QInv, NEW k \in TaskKeys,
         (\E r \in {"None", "Suspended"} : Register(k, r)) \/ Resume(k) \/ Suspend(k) \/ Cancel(k)
  PROVE  Placed'
<1>0. reason \in [TaskKeys -> {"Vacant", "None", "Suspended", "Cancelled"}]
  BY DEF QInv, TaskTypes
<1>1. ASSUME NEW r \in {"None", "Suspended"}, Register(k, r) PROVE Placed'
  <2>1. HandleUsed
    BY <1>1 DEF Register
  <2> QED BY <1>1, <2>1, RegisterEffect, HandlePlaced
<1>2. CASE Resume(k)
  <2>1. HandleUsed
    BY <1>2 DEF Resume
  <2> QED BY <1>2, <2>1, ResumeEffect, HandlePlaced
<1>3. CASE Suspend(k)
  <2>1. HandleUsed /\ reason'[k] = "Suspended"
    BY <1>0, <1>3 DEF Suspend, SetReason
  <2> QED BY <1>3, <2>1, SuspendEffect, HandlePlaced
<1>4. CASE Cancel(k)
  <2>1. HandleUsed /\ reason'[k] = "Cancelled" /\ panicked' = panicked /\ reason[k] \in {"None", "Suspended"}
    BY <1>0, <1>4 DEF Cancel, SetReason
  <2>2. HandleEffect(k) /\ (InQueues(k) => InQueues(k)') /\ (reason[k] = "Suspended" => scan_registry')
    BY <1>4, CancelEffect
  <2>3. k \notin panicked' => InQueues(k)' \/ scan_registry'
    BY <2>1, <2>2, NotLost DEF QInv
  <2> QED BY <2>1, <2>2, <2>3, HandlePlaced
<1> QED BY <1>1, <1>2, <1>3, <1>4

(* Steps that leave the queues alone and at most free a task.              *)
LEMMA QuietPlaced ==
  ASSUME QInv, UNCHANGED <<queue, which, deferred, scan_registry, panicked>>,
         \A k \in TaskKeys : reason'[k] = reason[k] \/ reason'[k] = "Vacant",
         at' = "poll" => (at' = at /\ current' = current) \/ (from # <<>> /\ current' = Head(from)),
         at' \in {"register", "again"} => at \in {"register", "again"},
         at' = "again" => last_waker' # "empty"
  PROVE  Placed'
<1>1. QueueTypes' /\ from' = from /\ to' = to
  BY DEF QInv, QueueTypes, from, to
<1>2. FrontInv' /\ WaitInv'
  BY <1>1 DEF QInv, FrontInv, WaitInv
<1>3. \A k : InQueues(k)' <=> InQueues(k)
  BY DEF InQueues
<1>4. ASSUME NEW k \in TaskKeys \ panicked', reason'[k] \in {"None", "Cancelled"}
      PROVE  InQueues(k)' \/ (reason'[k] = "Cancelled" /\ scan_registry')
  BY <1>3, <1>4, NotLost DEF QInv
<1>5. NeverLost'
  BY <1>1, <1>4, StillNotLost
<1> QED BY <1>1, <1>2, <1>5 DEF Placed

(* Draining keeps every task that is neither suspended nor cancelled.      *)
LEMMA DrainPlaced ==
  ASSUME QInv, drain_runnable, which' \in BOOLEAN, UNCHANGED <<scan_registry, panicked>>
  PROVE  QueueTypes' /\ NeverLost'
<1>0. QueueTypes /\ TaskTypes
  BY DEF QInv
<1>1. /\ queue' \in [BOOLEAN -> Seq(TaskKeys)] /\ deferred' \in Seq(TaskKeys)
      /\ ToSet(deferred') = ToSet(deferred) \cap {k \in TaskKeys : StaysDeferred(k)}
      /\ ToSet(queue'[which]) = ToSet(from) \cup (ToSet(deferred) \cap {k \in TaskKeys : MovesOut(k)})
      /\ queue'[~ which] = to
  BY <1>0, DrainEffect
<1>2. QueueTypes'
  BY <1>1 DEF QueueTypes
<1>3. \A k \in TaskKeys : reason'[k] = IF k \in ToSet(deferred) /\ reason[k] = "Cancelled"
                                       THEN "Vacant" ELSE reason[k]
  BY DEF drain_runnable, Has
<1>4. ASSUME NEW k \in TaskKeys \ panicked', reason'[k] \in {"None", "Cancelled"}
      PROVE  InQueues(k)' \/ (reason'[k] = "Cancelled" /\ scan_registry')
  <2>1. reason'[k] = reason[k] /\ ~ (k \in ToSet(deferred) /\ reason[k] = "Cancelled")
    BY <1>3, <1>4
  <2>2. CASE reason[k] = "Cancelled" /\ scan_registry
    BY <2>1, <2>2
  <2>3. CASE InQueues(k)
    <3>1. k \in ToSet(from) \/ k \in ToSet(to) \/ k \in ToSet(deferred)
      BY <1>0, <2>3, InQueuesStep
    <3>2. k \in ToSet(deferred) => StaysDeferred(k) \/ MovesOut(k)
      BY <1>4, <2>1 DEF StaysDeferred, MovesOut
    <3>3. k \in ToSet(queue'[which]) \/ k \in ToSet(queue'[~ which]) \/ k \in ToSet(deferred')
      BY <1>1, <3>1, <3>2
    <3> QED BY <1>0, <3>3, InQueuesStep
  <2> QED BY <1>4, <2>1, <2>2, <2>3, NotLost DEF QInv
<1>5. NeverLost'
  BY <1>2, <1>4, StillNotLost
<1> QED BY <1>2, <1>5

LEMMA DrainedIs ==
  ASSUME QueueTypes, drain_runnable, ~ Drained, from = <<>>, to = <<>>
  PROVE  queue'[which] = <<>> /\ queue'[~ which] = <<>>
<1>1. /\ queue' \in [BOOLEAN -> Seq(TaskKeys)] /\ queue'[~ which] = to
      /\ ToSet(queue'[which]) = ToSet(from) \cup (ToSet(deferred) \cap {k \in TaskKeys : MovesOut(k)})
  BY DrainEffect
<1>2. ToSet(deferred) \cap {k \in TaskKeys : MovesOut(k)} = {}
  BY DEF Drained, StaysDeferred, MovesOut
<1>3. ToSet(from) = {}
  BY DEF ToSet
<1>4. queue'[which] \in Seq(TaskKeys) /\ ToSet(queue'[which]) = {}
  BY <1>1, <1>2, <1>3, TwoQueues DEF QueueTypes
<1> QED BY <1>1, <1>4, SetEmpty

LEMMA ProcessPlaced == ASSUME QInv, ProcessTasks PROVE Placed'
<1>0. QueueTypes
  BY DEF QInv
<1>1. CASE DrainUnwinds
  <2>1. /\ UNCHANGED <<queue, which, deferred, scan_registry, panicked, reason>>
        /\ at' = "unwound"
    BY <1>1 DEF ProcessTasks, Unwind, handles
  <2> QED BY <2>1, QuietPlaced
<1>2. CASE ~ DrainUnwinds
  <2>1. /\ drain_runnable /\ UNCHANGED <<which, scan_registry, panicked>>
        /\ at' = IF deferred # <<>> /\ ~ Drained /\ from = <<>> /\ to = <<>>
                 THEN "register" ELSE "rotate"
    BY <1>2 DEF ProcessTasks
  <2>2. QueueTypes' /\ NeverLost'
    BY <1>0, <2>1, DrainPlaced DEF QueueTypes
  <2>3. at' = "register" => from' = <<>> /\ to' = <<>>
    <3> SUFFICES ASSUME at' = "register" PROVE from' = <<>> /\ to' = <<>>
      OBVIOUS
    <3>1. ~ Drained /\ from = <<>> /\ to = <<>>
      BY <2>1
    <3>2. queue'[which] = <<>> /\ queue'[~ which] = <<>>
      BY <1>0, <2>1, <3>1, DrainedIs
    <3> QED BY <2>1, <3>2 DEF from, to
  <2> QED BY <2>1, <2>2, <2>3 DEF Placed, FrontInv, WaitInv
<1> QED BY <1>1, <1>2

LEMMA CheckPlaced == ASSUME QInv, CheckAgain PROVE Placed'
<1>1. drain_runnable /\ UNCHANGED <<scan_registry, panicked>> /\ at' \in {"rotate", "idle"}
  BY DEF CheckAgain
<1>2. which' \in BOOLEAN
  BY DEF CheckAgain, QInv, QueueTypes
<1>3. QueueTypes' /\ NeverLost'
  BY <1>1, <1>2, DrainPlaced
<1> QED BY <1>1, <1>3 DEF Placed, FrontInv, WaitInv

(* When a poll ends its task is removed, put into `to` or `deferred`, or   *)
(* it is suspended, or it panicked.                                        *)
LEMMA ReturnPlaced ==
  ASSUME QInv, NEW requeued \in Seq(TaskKeys), GuardDrop(requeued), at' \in {"rotate", "idle"},
         deferred' \in Seq(TaskKeys), ToSet(deferred) \subseteq ToSet(deferred'),
         panicked \subseteq panicked',
         \A k \in TaskKeys : k # current => reason'[k] = reason[k],
         \/ current \in panicked' \/ reason'[current] \notin {"None", "Cancelled"}
         \/ current \in ToSet(requeued) \/ current \in ToSet(deferred')
  PROVE  Placed'
<1>0. QueueTypes /\ from # <<>> /\ current = Head(from) /\ scan_registry' = scan_registry
  BY DEF QInv, FrontInv, GuardDrop
<1>1. /\ queue' \in [BOOLEAN -> Seq(TaskKeys)] /\ which' = which
      /\ ToSet(from) = {current} \cup ToSet(queue'[which])
      /\ ToSet(queue'[~ which]) = ToSet(to) \cup ToSet(requeued)
  BY <1>0, GuardEffect
<1>2. QueueTypes'
  BY <1>0, <1>1 DEF QueueTypes
<1>3. ASSUME NEW k \in TaskKeys \ panicked', reason'[k] \in {"None", "Cancelled"}
      PROVE  InQueues(k)' \/ (reason'[k] = "Cancelled" /\ scan_registry')
  <2>1. CASE k = current
    <3>1. k \in ToSet(queue'[~ which]) \/ k \in ToSet(deferred')
      BY <1>1, <1>3, <2>1
    <3> QED BY <1>0, <1>2, <3>1, InQueuesStep DEF QueueTypes
  <2>2. CASE k # current
    <3>1. reason'[k] = reason[k] /\ k \in TaskKeys \ panicked
      BY <1>3, <2>2
    <3>2. CASE reason[k] = "Cancelled" /\ scan_registry
      BY <1>0, <3>1, <3>2
    <3>3. CASE InQueues(k)
      <4>1. k \in ToSet(from) \/ k \in ToSet(to) \/ k \in ToSet(deferred)
        BY <1>0, <1>2, <3>3, InQueuesStep DEF QueueTypes
      <4>2. k \in ToSet(queue'[which]) \/ k \in ToSet(queue'[~ which]) \/ k \in ToSet(deferred')
        BY <1>1, <2>2, <4>1
      <4> QED BY <1>0, <1>2, <4>2, InQueuesStep DEF QueueTypes
    <3> QED BY <1>3, <3>1, <3>2, <3>3, NotLost DEF QInv
  <2> QED BY <2>1, <2>2
<1>4. NeverLost'
  BY <1>2, <1>3, StillNotLost
<1> QED BY <1>2, <1>4 DEF Placed, FrontInv, WaitInv

LEMMA TaskReturnsPlaced == ASSUME QInv, TaskReturns PROVE Placed'
<1>0. QueueTypes /\ TaskTypes /\ current \in TaskKeys
  <2>1. QueueTypes /\ TaskTypes /\ at = "poll"
    BY DEF QInv, TaskReturns
  <2>2. from \in Seq(TaskKeys) /\ from # <<>> /\ current = Head(from)
    BY <2>1, TwoQueues DEF QInv, FrontInv, QueueTypes, from
  <2> QED BY <2>1, <2>2, SetTail
<1>1. <<>> \in Seq(TaskKeys) /\ <<current>> \in Seq(TaskKeys) /\ current \in ToSet(<<current>>)
  <2>1. 1 \in DOMAIN <<current>> /\ <<current>>[1] = current
    OBVIOUS
  <2> QED BY <1>0, <2>1 DEF ToSet
<1>2. CASE TaskRemoved
  <2>1. /\ GuardDrop(<<>>) /\ at' = "rotate" /\ deferred' = deferred /\ panicked' = panicked
        /\ reason' = [reason EXCEPT ![current] = "Vacant"]
    BY <1>2 DEF TaskRemoved, SetReason
  <2>2. reason'[current] = "Vacant" /\ \A k \in TaskKeys : k # current => reason'[k] = reason[k]
    BY <1>0, <2>1 DEF TaskTypes
  <2> QED BY <1>0, <1>1, <2>1, <2>2, ReturnPlaced DEF QueueTypes
<1>3. CASE TaskPending
  <2> DEFINE requeued == IF MovesOut(current) THEN <<current>> ELSE <<>>
  <2>1. /\ GuardDrop(requeued) /\ at' = "rotate" /\ reason' = reason /\ panicked' = panicked
        /\ reason[current] # "Cancelled"
        /\ deferred' = IF StaysDeferred(current) THEN Append(deferred, current) ELSE deferred
    BY <1>3 DEF TaskPending
  <2>2. requeued \in Seq(TaskKeys) /\ (MovesOut(current) => current \in ToSet(requeued))
    BY <1>1
  <2> HIDE DEF requeued
  <2>3. /\ Append(deferred, current) \in Seq(TaskKeys)
        /\ ToSet(Append(deferred, current)) = ToSet(deferred) \cup {current}
    BY <1>0, SetAppend DEF QueueTypes
  <2>4. /\ deferred' \in Seq(TaskKeys) /\ ToSet(deferred) \subseteq ToSet(deferred')
        /\ StaysDeferred(current) => current \in ToSet(deferred')
    BY <1>0, <2>1, <2>3 DEF QueueTypes
  <2>5. reason[current] = "None" => StaysDeferred(current) \/ MovesOut(current)
    BY DEF StaysDeferred, MovesOut
  <2> QED BY <2>1, <2>2, <2>4, <2>5, ReturnPlaced
<1>4. CASE TaskPanics
  <2>1. /\ GuardDrop(<<>>) /\ at' = "idle" /\ deferred' = deferred /\ reason' = reason
        /\ panicked' = panicked \cup {current}
    BY <1>4 DEF TaskPanics
  <2> QED BY <1>0, <1>1, <2>1, ReturnPlaced DEF QueueTypes
<1> QED BY <1>2, <1>3, <1>4 DEF TaskReturns

(* The scan of the registry takes the cancelled tasks out of the queue and *)
(* frees them.                                                             *)
LEMMA RotateEndPlaced == ASSUME QInv, RotateEnd PROVE Placed'
<1>0. QueueTypes /\ to \in Seq(TaskKeys)
  BY TwoQueues DEF QInv, QueueTypes, to
<1>1. CASE scan_registry /\ \E k \in ToSet(to) : reason[k] = "Vacant"
  <2>1. /\ UNCHANGED <<queue, which, deferred, scan_registry, panicked, reason>>
        /\ at' = "unwound"
    BY <1>1 DEF RotateEnd, NextTurn, Unwind, handles
  <2> QED BY <2>1, QuietPlaced
<1>2. CASE ~ (scan_registry /\ \E k \in ToSet(to) : reason[k] = "Vacant")
  <2>1. /\ from = <<>> /\ at' \in {"idle", "process"} /\ which' = ~ which
        /\ deferred' = deferred /\ panicked' = panicked
        /\ scan_registry => queue' = [queue EXCEPT ![~ which] = Retained(to, {k \in TaskKeys : NotCancelled(k)})]
        /\ ~ scan_registry => queue' = queue
        /\ \A k \in TaskKeys : reason'[k] = IF scan_registry /\ ~ NotCancelled(k) THEN "Vacant" ELSE reason[k]
    BY <1>2 DEF RotateEnd, NextTurn, to
  <2>2. /\ queue' \in [BOOLEAN -> Seq(TaskKeys)] /\ queue'[which] = from
        /\ scan_registry => ToSet(queue'[~ which]) = ToSet(to) \cap {k \in TaskKeys : NotCancelled(k)}
        /\ ~ scan_registry => queue'[~ which] = to
    <3>1. CASE scan_registry
      <4> DEFINE rest == Retained(to, {k \in TaskKeys : NotCancelled(k)})
      <4>1. rest \in Seq(TaskKeys) /\ ToSet(rest) = ToSet(to) \cap {k \in TaskKeys : NotCancelled(k)}
        BY <1>0, SetRetained
      <4>2. queue' = [queue EXCEPT ![~ which] = rest]
        BY <2>1, <3>1
      <4> HIDE DEF rest
      <4>3. /\ queue' \in [BOOLEAN -> Seq(TaskKeys)] /\ queue'[which] = from
            /\ queue'[~ which] = rest
        BY <1>0, <4>1, <4>2, TwoQueues DEF QueueTypes, from
      <4> QED BY <3>1, <4>1, <4>3
    <3>2. CASE ~ scan_registry
      BY <1>0, <2>1, <3>2 DEF QueueTypes, from, to
    <3> QED BY <3>1, <3>2
  <2>3. QueueTypes'
    BY <1>0, <2>1, <2>2 DEF QueueTypes
  <2>4. ASSUME NEW k \in TaskKeys \ panicked', reason'[k] \in {"None", "Cancelled"}
        PROVE  InQueues(k)'
    <3>1. reason'[k] = reason[k] /\ (scan_registry => NotCancelled(k))
      BY <2>1, <2>4
    <3>2. InQueues(k)
      BY <2>1, <2>4, <3>1, NotLost DEF QInv, NotCancelled
    <3>3. k \in ToSet(from) \/ k \in ToSet(to) \/ k \in ToSet(deferred)
      BY <1>0, <2>3, <3>2, InQueuesStep DEF QueueTypes
    <3>4. k \in ToSet(queue'[which]) \/ k \in ToSet(queue'[~ which]) \/ k \in ToSet(deferred')
      BY <2>1, <2>2, <3>1, <3>3
    <3> QED BY <1>0, <2>3, <3>4, InQueuesStep DEF QueueTypes
  <2>5. NeverLost'
    BY <2>3, <2>4, StillNotLost
  <2> QED BY <2>1, <2>3, <2>5 DEF Placed, FrontInv, WaitInv
<1> QED BY <1>1, <1>2

LEMMA NextPlaced == ASSUME QInv, [QueueNext]_scheduler PROVE Placed'
<1>1. ASSUME NEW k \in TaskKeys, WakeTask(k) PROVE Placed'
  <2>1. /\ UNCHANGED <<queue, which, deferred, scan_registry, panicked, reason, at, current>>
        /\ last_waker' = IF last_waker = "registered" THEN "notified" ELSE last_waker
    BY <1>1 DEF WakeTask, handles
  <2>2. at' = "again" => last_waker' # "empty"
    BY <2>1 DEF QInv, WaitInv
  <2>3. /\ at' = "poll" => (at' = at /\ current' = current) \/ (from # <<>> /\ current' = Head(from))
        /\ at' \in {"register", "again"} => at \in {"register", "again"}
    BY <2>1
  <2> QED BY <2>1, <2>2, <2>3, QuietPlaced
<1>2. CASE PollBegin
  <2>1. UNCHANGED <<queue, which, deferred, scan_registry, panicked, reason>> /\ at' = "process"
    BY <1>2 DEF PollBegin, handles
  <2> QED BY <2>1, QuietPlaced
<1>3. CASE RegisterWaker
  <2>1. /\ UNCHANGED <<queue, which, deferred, scan_registry, panicked, reason>>
        /\ at = "register" /\ at' = "again" /\ last_waker' = "registered"
    BY <1>3 DEF RegisterWaker, handles
  <2> QED BY <2>1, QuietPlaced
<1>4. CASE RotateUnwinds \/ RotateSpins
  <2>1. /\ UNCHANGED <<queue, which, deferred, scan_registry, panicked, reason>>
        /\ at' \in {"stuck", "unwound"}
    BY <1>4 DEF RotateUnwinds, RotateSpins, Unwind, handles
  <2> QED BY <2>1, QuietPlaced
<1>5. CASE RotateCancelled
  <2>1. /\ UNCHANGED <<queue, which, deferred, scan_registry, panicked, at>>
        /\ at = "rotate" /\ reason' = [reason EXCEPT ![run_key] = "Vacant"]
    BY <1>5 DEF RotateCancelled, Rotating, queues, SetReason
  <2>2. \A k \in TaskKeys : reason'[k] = reason[k] \/ reason'[k] = "Vacant"
    BY <2>1 DEF QInv, TaskTypes
  <2> QED BY <2>1, <2>2, QuietPlaced
<1>6. CASE PollTask
  <2>1. /\ UNCHANGED <<queue, which, deferred, scan_registry, panicked, reason>>
        /\ at' = "poll" /\ from # <<>> /\ current' = Head(from)
    BY <1>6 DEF PollTask, Rotating, run_key, handles
  <2> QED BY <2>1, QuietPlaced
<1>7. CASE UNCHANGED scheduler
  <2>1. UNCHANGED <<queue, which, deferred, scan_registry, panicked, reason, at, current, last_waker>>
    BY <1>7 DEF scheduler
  <2>2. at' = "again" => last_waker' # "empty"
    BY <2>1 DEF QInv, WaitInv
  <2>3. /\ at' = "poll" => (at' = at /\ current' = current) \/ (from # <<>> /\ current' = Head(from))
        /\ at' \in {"register", "again"} => at \in {"register", "again"}
    BY <2>1
  <2> QED BY <2>1, <2>2, <2>3, QuietPlaced
<1> QED BY <1>1, <1>2, <1>3, <1>4, <1>5, <1>6, <1>7, HandlesPlaced, ProcessPlaced, CheckPlaced,
           TaskReturnsPlaced, RotateEndPlaced DEF QueueNext, Rotate
----------------------------------------------------------------------------
(* The types of what a step changes besides the queues.                    *)
LEMMA FrontTask ==
  ASSUME QueueTypes, from # <<>>
  PROVE  Head(from) \in TaskKeys
<1>1. from \in Seq(TaskKeys)
  BY TwoQueues DEF QueueTypes, from
<1> QED BY <1>1, SetTail

LEMMA NextTyped == ASSUME QInv, [QueueNext]_scheduler PROVE TaskTypes'
<1>0. TaskTypes /\ QueueTypes /\ FrontInv
  BY DEF QInv
<1>1. ASSUME NEW k \in TaskKeys, NEW r \in {"None", "Suspended"}, Register(k, r) PROVE TaskTypes'
  BY <1>0, <1>1 DEF TaskTypes, Register, HandleUsed, SetReason
<1>2. ASSUME NEW k \in TaskKeys, Resume(k) PROVE TaskTypes'
  BY <1>0, <1>2 DEF TaskTypes, Resume, HandleUsed, SetReason
<1>3. ASSUME NEW k \in TaskKeys, Suspend(k) PROVE TaskTypes'
  BY <1>0, <1>3 DEF TaskTypes, Suspend, HandleUsed, SetReason
<1>4. ASSUME NEW k \in TaskKeys, Cancel(k) PROVE TaskTypes'
  BY <1>0, <1>4 DEF TaskTypes, Cancel, HandleUsed, SetReason
<1>5. ASSUME NEW k \in TaskKeys, WakeTask(k) PROVE TaskTypes'
  BY <1>0, <1>5 DEF TaskTypes, WakeTask, handles
<1>6. CASE PollBegin
  BY <1>0, <1>6 DEF TaskTypes, PollBegin, handles
<1>7. CASE ProcessTasks
  BY <1>0, <1>7 DEF TaskTypes, ProcessTasks, Unwind, drain_runnable, handles
<1>8. CASE RegisterWaker
  BY <1>0, <1>8 DEF TaskTypes, RegisterWaker, handles
<1>9. CASE CheckAgain
  BY <1>0, <1>9 DEF TaskTypes, CheckAgain, drain_runnable
<1>10. CASE RotateUnwinds \/ RotateSpins
  BY <1>0, <1>10 DEF TaskTypes, RotateUnwinds, RotateSpins, Unwind, handles
<1>11. CASE RotateCancelled
  BY <1>0, <1>11 DEF TaskTypes, RotateCancelled, SetReason
<1>12. CASE PollTask
  <2>1. run_key \in TaskKeys
    BY <1>0, <1>12, FrontTask DEF PollTask, Rotating, run_key
  <2> QED BY <1>0, <1>12, <2>1 DEF TaskTypes, PollTask, handles
<1>13. CASE RotateEnd
  BY <1>0, <1>13 DEF TaskTypes, RotateEnd, NextTurn, Unwind, handles
<1>14. CASE TaskReturns
  <2>1. current \in TaskKeys
    BY <1>0, <1>14, FrontTask DEF TaskReturns, FrontInv
  <2>2. CASE TaskRemoved
    BY <1>0, <2>1, <2>2 DEF TaskTypes, TaskRemoved, GuardDrop, SetReason
  <2>3. CASE TaskPending
    BY <1>0, <2>1, <2>3 DEF TaskTypes, TaskPending, GuardDrop
  <2>4. CASE TaskPanics
    BY <1>0, <2>1, <2>4 DEF TaskTypes, TaskPanics, GuardDrop
  <2> QED BY <1>14, <2>2, <2>3, <2>4 DEF TaskReturns
<1>15. CASE UNCHANGED scheduler
  BY <1>0, <1>15 DEF TaskTypes, scheduler
<1> QED BY <1>1, <1>2, <1>3, <1>4, <1>5, <1>6, <1>7, <1>8, <1>9, <1>10, <1>11, <1>12, <1>13,
           <1>14, <1>15 DEF QueueNext, Rotate
----------------------------------------------------------------------------
(* The number of suspended tasks when the reason of one task changes.      *)
LEMMA CountStep ==
  ASSUME QInv, NEW k \in TaskKeys, \A j \in TaskKeys : j # k => reason'[j] = reason[j]
  PROVE  /\ IsFiniteSet(SuspendedTasks')
         /\ Cardinality(SuspendedTasks) \in Nat /\ Cardinality(SuspendedTasks') \in Nat
         /\ reason[k] = "Suspended" /\ reason'[k] # "Suspended" =>
              Cardinality(SuspendedTasks') = Cardinality(SuspendedTasks) - 1
         /\ reason[k] # "Suspended" /\ reason'[k] = "Suspended" =>
              Cardinality(SuspendedTasks') = Cardinality(SuspendedTasks) + 1
         /\ (reason[k] = "Suspended" <=> reason'[k] = "Suspended") =>
              Cardinality(SuspendedTasks') = Cardinality(SuspendedTasks)
<1> DEFINE S == SuspendedTasks
           T == SuspendedTasks'
<1>1. IsFiniteSet(S)
  BY DEF QInv, CountInv
<1>2. /\ k \in S <=> reason[k] = "Suspended"
      /\ reason'[k] = "Suspended" => T = S \cup {k}
      /\ reason'[k] # "Suspended" => T = S \ {k}
  BY DEF SuspendedTasks
<1> HIDE DEF S, T
<1>3. /\ IsFiniteSet(S \cup {k}) /\ IsFiniteSet(S \ {k})
      /\ Cardinality(S \cup {k}) = IF k \in S THEN Cardinality(S) ELSE Cardinality(S) + 1
      /\ Cardinality(S \ {k}) = IF k \in S THEN Cardinality(S) - 1 ELSE Cardinality(S)
  BY <1>1, FS_AddElement, FS_RemoveElement
<1>4. IsFiniteSet(T) /\ Cardinality(S) \in Nat /\ Cardinality(T) \in Nat
  BY <1>1, <1>2, <1>3, FS_CardinalityType
<1>5. /\ k \in S /\ reason'[k] # "Suspended" => Cardinality(T) = Cardinality(S) - 1
      /\ k \notin S /\ reason'[k] = "Suspended" => Cardinality(T) = Cardinality(S) + 1
      /\ (k \in S <=> reason'[k] = "Suspended") => Cardinality(T) = Cardinality(S)
  BY <1>2, <1>3
<1> QED BY <1>2, <1>4, <1>5 DEF S, T

(* Steps that suspend no task and resume none.                             *)
LEMMA QuietCount ==
  ASSUME QInv, UNCHANGED <<suspended_count, leaked>>,
         \A k \in TaskKeys : reason'[k] = "Suspended" <=> reason[k] = "Suspended"
  PROVE  CountInv'
<1>1. SuspendedTasks' = SuspendedTasks
  BY DEF SuspendedTasks
<1> QED BY <1>1 DEF QInv, CountInv

LEMMA NextCounted == ASSUME QInv, [QueueNext]_scheduler PROVE CountInv'
<1>0. /\ reason \in [TaskKeys -> {"Vacant", "None", "Suspended", "Cancelled"}]
      /\ leaked \in Nat /\ suspended_count = Cardinality(SuspendedTasks) + leaked
  BY DEF QInv, TaskTypes, CountInv
<1>1. ASSUME NEW k \in TaskKeys, NEW r \in {"None", "Suspended"}, Register(k, r) PROVE CountInv'
  <2>1. /\ reason[k] = "Vacant" /\ reason' = [reason EXCEPT ![k] = r] /\ leaked' = leaked
        /\ suspended_count' = IF r = "Suspended" THEN suspended_count + 1 ELSE suspended_count
    BY <1>1 DEF Register, HandleUsed, SetReason
  <2>2. reason'[k] = r /\ \A j \in TaskKeys : j # k => reason'[j] = reason[j]
    BY <1>0, <2>1
  <2> QED BY <1>0, <2>1, <2>2, CountStep DEF CountInv
<1>2. ASSUME NEW k \in TaskKeys, Resume(k) PROVE CountInv'
  <2>1. /\ reason[k] = "Suspended" /\ reason' = [reason EXCEPT ![k] = "None"] /\ leaked' = leaked
        /\ suspended_count' = suspended_count - 1
    BY <1>2 DEF Resume, HandleUsed, SetReason
  <2>2. reason'[k] = "None" /\ \A j \in TaskKeys : j # k => reason'[j] = reason[j]
    BY <1>0, <2>1
  <2> QED BY <1>0, <2>1, <2>2, CountStep DEF CountInv
<1>3. ASSUME NEW k \in TaskKeys, Suspend(k) PROVE CountInv'
  <2>1. /\ reason[k] = "None" /\ reason' = [reason EXCEPT ![k] = "Suspended"] /\ leaked' = leaked
        /\ suspended_count' = suspended_count + 1
    BY <1>3 DEF Suspend, HandleUsed, SetReason
  <2>2. reason'[k] = "Suspended" /\ \A j \in TaskKeys : j # k => reason'[j] = reason[j]
    BY <1>0, <2>1
  <2> QED BY <1>0, <2>1, <2>2, CountStep DEF CountInv
<1>4. ASSUME NEW k \in TaskKeys, Cancel(k) PROVE CountInv'
  <2>1. /\ reason' = [reason EXCEPT ![k] = "Cancelled"] /\ leaked' = leaked
        /\ suspended_count' = IF reason[k] = "Suspended" THEN suspended_count - 1 ELSE suspended_count
    BY <1>4 DEF Cancel, HandleUsed, SetReason
  <2>2. reason'[k] = "Cancelled" /\ \A j \in TaskKeys : j # k => reason'[j] = reason[j]
    BY <1>0, <2>1
  <2> QED BY <1>0, <2>1, <2>2, CountStep DEF CountInv
<1>5. ASSUME NEW k \in TaskKeys, WakeTask(k) PROVE CountInv'
  BY <1>5, QuietCount DEF WakeTask, handles
<1>6. CASE PollBegin \/ RegisterWaker \/ RotateUnwinds \/ RotateSpins \/ PollTask
  <2>1. UNCHANGED <<suspended_count, leaked, reason>>
    BY <1>6 DEF PollBegin, RegisterWaker, RotateUnwinds, RotateSpins, PollTask, Unwind, handles
  <2> QED BY <2>1, QuietCount
<1>7. CASE ProcessTasks \/ CheckAgain
  <2>1. UNCHANGED <<suspended_count, leaked>> /\ (UNCHANGED reason \/ drain_runnable)
    BY <1>7 DEF ProcessTasks, CheckAgain, Unwind, handles
  <2>2. \A k \in TaskKeys : reason'[k] = "Suspended" <=> reason[k] = "Suspended"
    BY <2>1 DEF drain_runnable
  <2> QED BY <2>1, <2>2, QuietCount
<1>8. CASE RotateCancelled
  <2>1. /\ UNCHANGED <<suspended_count, leaked>> /\ reason[run_key] = "Cancelled"
        /\ reason' = [reason EXCEPT ![run_key] = "Vacant"]
    BY <1>8 DEF RotateCancelled, SetReason
  <2>2. \A k \in TaskKeys : reason'[k] = "Suspended" <=> reason[k] = "Suspended"
    BY <1>0, <2>1
  <2> QED BY <2>1, <2>2, QuietCount
<1>9. CASE RotateEnd
  <2>1. /\ UNCHANGED <<suspended_count, leaked>>
        /\ \/ UNCHANGED reason
           \/ reason' = [k \in TaskKeys |-> IF scan_registry /\ ~ NotCancelled(k) THEN "Vacant" ELSE reason[k]]
    BY <1>9 DEF RotateEnd, NextTurn, Unwind, handles
  <2>2. \A k \in TaskKeys : reason'[k] = "Suspended" <=> reason[k] = "Suspended"
    BY <2>1 DEF NotCancelled
  <2> QED BY <2>1, <2>2, QuietCount
<1>10. CASE TaskReturns /\ TaskRemoved
  <2>1. current \in TaskKeys
    BY <1>10, FrontTask DEF TaskReturns, QInv, FrontInv
  <2>2. /\ reason' = [reason EXCEPT ![current] = "Vacant"] /\ suspended_count' = suspended_count
        /\ leaked' = leaked + (IF reason[current] = "Suspended" THEN 1 ELSE 0)
    BY <1>10 DEF TaskRemoved, GuardDrop, SetReason
  <2>3. reason'[current] = "Vacant" /\ \A j \in TaskKeys : j # current => reason'[j] = reason[j]
    BY <1>0, <2>1, <2>2
  <2> QED BY <1>0, <2>1, <2>2, <2>3, CountStep DEF CountInv
<1>11. CASE TaskPending \/ TaskPanics
  <2>1. UNCHANGED <<suspended_count, leaked, reason>>
    BY <1>11 DEF TaskPending, TaskPanics, GuardDrop
  <2> QED BY <2>1, QuietCount
<1>12. CASE UNCHANGED scheduler
  BY <1>12, QuietCount DEF scheduler
<1> QED BY <1>1, <1>2, <1>3, <1>4, <1>5, <1>6, <1>7, <1>8, <1>9, <1>10, <1>11, <1>12
        DEF QueueNext, Rotate, TaskReturns
----------------------------------------------------------------------------
LEMMA QueueInitially == QueueInit => QInv
<1> SUFFICES ASSUME QueueInit PROVE QInv
  OBVIOUS
<1>1. QueueTypes /\ TaskTypes /\ FrontInv /\ WaitInv
  <2>1. <<>> \in Seq(TaskKeys)
    OBVIOUS
  <2>2. QueueTypes
    BY <2>1 DEF QueueInit, QueueTypes
  <2>3. TaskTypes
    BY DEF QueueInit, TaskTypes
  <2> QED BY <2>2, <2>3 DEF QueueInit, FrontInv, WaitInv
<1>2. NeverLost
  BY DEF QueueInit, NeverLost
<1>3. SuspendedTasks = {}
  BY DEF QueueInit, SuspendedTasks
<1>4. CountInv
  BY <1>3, FS_EmptySet DEF QueueInit, CountInv
<1> QED BY <1>1, <1>2, <1>4 DEF QInv

LEMMA QInvInvariant == QueueSpec => []QInv
<1>1. QInv /\ [QueueNext]_scheduler => QInv'
  <2> SUFFICES ASSUME QInv, [QueueNext]_scheduler PROVE QInv'
    OBVIOUS
  <2>1. Placed' /\ TaskTypes' /\ CountInv'
    BY NextPlaced, NextTyped, NextCounted
  <2> QED BY <2>1 DEF QInv, Placed
<1> QED BY <1>1, QueueInitially, PTL DEF QueueSpec

(* Type correctness.  Resume and cancel subtract one from the number of    *)
(* suspended tasks (dec_suspended) and never go below zero, because the    *)
(* number is exact, tasks that finished while suspended included.          *)
THEOREM SchedulerTyping == QueueSpec => []QueueTypeOK
<1>1. QInv => QueueTypeOK
  <2> SUFFICES ASSUME QInv PROVE QueueTypeOK
    OBVIOUS
  <2>1. suspended_count \in Nat /\ leaked \in Nat
    <3>1. Cardinality(SuspendedTasks) \in Nat
      BY FS_CardinalityType DEF QInv, CountInv
    <3> QED BY <3>1 DEF QInv, CountInv
  <2> QED BY <2>1 DEF QInv, QueueTypes, TaskTypes, QueueTypeOK
<1> QED BY <1>1, QInvInvariant, PTL

(* No task is lost, with any number of tasks and queues of any length: one *)
(* that may run or has to be removed stays in a queue or in `deferred`, or *)
(* the scan of the registry will find it, unless it panicked.              *)
THEOREM SchedulerNeverLost == QueueSpec => []NeverLost
<1>1. QInv => NeverLost
  BY DEF QInv
<1> QED BY <1>1, QInvInvariant, PTL
----------------------------------------------------------------------------
(* The second look after the registration of the waker: when it drains     *)
(* nothing, all tasks that may run are deferred and none is runnable.      *)
LEMMA WaitsForAll ==
  ASSUME QInv, CheckAgain, at' = "idle"
  PROVE  /\ verdict' = "Pending" /\ last_waker' # "empty"
         /\ \A k \in TaskKeys \ panicked : ~ MovesOut(k)
<1>1. /\ at = "again" /\ ~ Drained /\ verdict' = "Pending" /\ last_waker' = last_waker
      /\ which' = ~ which
  BY DEF CheckAgain
<1>2. from = <<>> /\ to = <<>> /\ last_waker # "empty" /\ QueueTypes /\ which' \in BOOLEAN
  BY <1>1 DEF QInv, WaitInv
<1>3. ToSet(from) = {} /\ ToSet(to) = {}
  BY <1>2 DEF ToSet
<1>4. ASSUME NEW k \in TaskKeys \ panicked, MovesOut(k) PROVE FALSE
  <2>1. InQueues(k)
    BY <1>4, NotLost DEF QInv, MovesOut
  <2>2. k \in ToSet(deferred)
    BY <1>2, <1>3, <2>1, InQueuesStep
  <2> QED BY <1>1, <1>4, <2>2 DEF Drained, StaysDeferred, MovesOut
<1> QED BY <1>1, <1>2, <1>4

(* A poll that is Ready leaves all queues empty, so that every task is     *)
(* gone or suspended, and the exact count tells which of the two.          *)
LEMMA ReadyWhenDone ==
  ASSUME QInv, RotateEnd, at' = "idle"
  PROVE  /\ verdict' \in {"Finished", "Suspended"}
         /\ \A k \in TaskKeys \ panicked : reason'[k] \in {"Vacant", "Suspended"}
         /\ verdict' = "Finished" <=> (leaked = 0 /\ \A k \in TaskKeys : reason'[k] # "Suspended")
<1>1. /\ from = <<>> /\ queue'[~ which] = <<>> /\ deferred = <<>> /\ deferred' = deferred
      /\ verdict' = (IF suspended_count # 0 THEN "Suspended" ELSE "Finished")
      /\ UNCHANGED <<suspended_count, leaked, panicked>> /\ ~ scan_registry' /\ which' = ~ which
  BY DEF RotateEnd, NextTurn, Unwind
<1>2. [QueueNext]_scheduler
  BY DEF QueueNext, Rotate
<1>3. Placed' /\ TaskTypes' /\ CountInv'
  BY <1>2, NextPlaced, NextTyped, NextCounted
<1>4. queue'[which] = <<>>
  <2>1. queue \in [BOOLEAN -> Seq(TaskKeys)] /\ which \in BOOLEAN /\ queue[which] = <<>>
    BY <1>1 DEF QInv, QueueTypes, from
  <2>2. queue' = queue \/ \E v : queue' = [queue EXCEPT ![~ which] = v]
    BY DEF RotateEnd, NextTurn, Unwind
  <2> QED BY <2>1, <2>2
<1>5. \A k : ~ InQueues(k)'
  <2>1. ToSet(queue'[which]) = {} /\ ToSet(queue'[~ which]) = {} /\ ToSet(deferred') = {}
    BY <1>1, <1>4 DEF ToSet
  <2>2. QueueTypes /\ which' \in BOOLEAN
    BY <1>1 DEF QInv
  <2> QED BY <2>1, <2>2, InQueuesStep
<1>6. \A k \in TaskKeys \ panicked : reason'[k] \in {"Vacant", "Suspended"}
  <2> SUFFICES ASSUME NEW k \in TaskKeys \ panicked PROVE reason'[k] \in {"Vacant", "Suspended"}
    OBVIOUS
  <2>1. ~ Queued(k)'
    BY <1>3, <1>5, QueuedIs DEF Placed, QueueTypes
  <2>2. reason'[k] \notin {"None", "Cancelled"}
    BY <1>1, <1>3, <2>1 DEF Placed, NeverLost
  <2> QED BY <1>3, <2>2 DEF TaskTypes
<1>7. suspended_count = 0 <=> (leaked = 0 /\ SuspendedTasks' = {})
  <2> DEFINE T == SuspendedTasks'
  <2>1. IsFiniteSet(T) /\ leaked \in Nat /\ suspended_count = Cardinality(T) + leaked
    BY <1>1, <1>3 DEF CountInv
  <2> HIDE DEF T
  <2>2. Cardinality(T) \in Nat /\ (Cardinality(T) = 0 <=> T = {})
    BY <2>1, FS_CardinalityType, FS_EmptySet
  <2> QED BY <2>1, <2>2 DEF T
<1>8. SuspendedTasks' = {} <=> \A k \in TaskKeys : reason'[k] # "Suspended"
  BY DEF SuspendedTasks
<1> QED BY <1>1, <1>6, <1>7, <1>8

(* A poll of the queue-based scheduler never returns something untrue.     *)
THEOREM SchedulerPollReturnsTrue == QueueSpec => PollReturnsTrue
<1>1. ASSUME QInv, [QueueNext]_scheduler, at' = "idle", at # "poll", at # "idle"
      PROVE  CheckAgain \/ RotateEnd
  <2>1. ASSUME NEW k \in TaskKeys,
               (\E r \in {"None", "Suspended"} : Register(k, r)) \/ Resume(k) \/ Suspend(k) \/ Cancel(k)
        PROVE  FALSE
    BY <1>1, <2>1 DEF Register, Resume, Suspend, Cancel, HandleUsed
  <2>2. ASSUME NEW k \in TaskKeys, WakeTask(k) PROVE FALSE
    BY <1>1, <2>2 DEF WakeTask
  <2>3. ASSUME PollBegin \/ RegisterWaker \/ TaskReturns PROVE FALSE
    BY <1>1, <2>3 DEF PollBegin, RegisterWaker, TaskReturns
  <2>4. ASSUME ProcessTasks PROVE FALSE
    BY <1>1, <2>4 DEF ProcessTasks, Unwind
  <2>5. ASSUME RotateUnwinds \/ RotateSpins \/ RotateCancelled \/ PollTask PROVE FALSE
    BY <1>1, <2>5 DEF RotateUnwinds, RotateSpins, RotateCancelled, PollTask, Rotating, Unwind
  <2>6. ASSUME UNCHANGED scheduler PROVE FALSE
    BY <1>1, <2>6 DEF scheduler
  <2> QED BY <1>1, <2>1, <2>2, <2>3, <2>4, <2>5, <2>6 DEF QueueNext, Rotate
<1> DEFINE Truth == at' = "idle" /\ at # "poll" /\ at # "idle" =>
       \/ /\ verdict' = "Pending" /\ last_waker' # "empty"
          /\ \A k \in TaskKeys \ panicked : ~ MovesOut(k)
       \/ /\ verdict' \in {"Finished", "Suspended"}
          /\ \A k \in TaskKeys \ panicked : reason'[k] \in {"Vacant", "Suspended"}
          /\ verdict' = "Finished" <=> (leaked = 0 /\ \A k \in TaskKeys : reason'[k] # "Suspended")
<1>2. QInv /\ [QueueNext]_scheduler => [Truth]_scheduler
  <2> SUFFICES ASSUME QInv, [QueueNext]_scheduler, at' = "idle", at # "poll", at # "idle" PROVE Truth
    OBVIOUS
  <2>1. CASE CheckAgain
    BY <2>1, WaitsForAll
  <2>2. CASE RotateEnd
    BY <2>2, ReadyWhenDone
  <2> QED BY <1>1, <2>1, <2>2
<1>3. []QInv /\ [][QueueNext]_scheduler => [][Truth]_scheduler
  BY <1>2, PTL
<1> QED BY <1>3, QInvInvariant DEF QueueSpec, PollReturnsTrue
=============================================================================
