------------------------ MODULE SchedulerQueueProofs ------------------------
(***************************************************************************)
(* Where SchedulerAlgorithm is safe.  A key that is in its queues twice,   *)
(* or whose task was suspended, cancelled or freed while the key was       *)
(* queued, ends in the panic of an unwrap or in an endless loop.  These    *)
(* proofs show which uses of handles never lead there.                     *)
(***************************************************************************)
EXTENDS SchedulerAlgorithmProofs

Polled(k) == at = "poll" /\ current = k

\* Tasks are suspended and cancelled only while they are polled, so by
\* themselves or by what they call, and not resumed again in the same poll.
SelfOnly == \A k \in TaskKeys : /\ Suspend(k) \/ Cancel(k) => Polled(k)
                                /\ Resume(k) => ~ Polled(k)

\* No key is twice in a queue, or in two of three queues.
Apart(f, t, d) == /\ IsInjective(f) /\ IsInjective(t) /\ IsInjective(d)
                  /\ ToSet(f) \cap ToSet(t) = {}
                  /\ ToSet(f) \cap ToSet(d) = {}
                  /\ ToSet(t) \cap ToSet(d) = {}

Among(k, f, t, d) == k \in ToSet(f) \/ k \in ToSet(t) \/ k \in ToSet(d)

QueuedOnce == Apart(from, to, deferred)

\* Only the task that is polled may be queued with another reason than None.
QueuedRuns == \A k \in TaskKeys : InQueues(k) => reason[k] = "None" \/ Polled(k)

NeverStops == at \notin {"stuck", "unwound"}

OnceInv == /\ QueuedOnce /\ QueuedRuns /\ NeverStops
           /\ at = "poll" => reason[current] # "Vacant"
----------------------------------------------------------------------------
(* The operations on a queue put no key into it twice.                     *)
LEMMA OnceAppend ==
  ASSUME NEW T, NEW s \in Seq(T), NEW e \in T, IsInjective(s), e \notin ToSet(s)
  PROVE  IsInjective(Append(s, e))
<1>1. /\ Len(s) \in Nat /\ DOMAIN s = 1 .. Len(s)
      /\ DOMAIN Append(s, e) = 1 .. Len(s) + 1
      /\ Append(s, e)[Len(s) + 1] = e
      /\ \A i \in 1 .. Len(s) : Append(s, e)[i] = s[i]
  OBVIOUS
<1>2. \A i \in 1 .. Len(s) + 1 : i \in 1 .. Len(s) \/ i = Len(s) + 1
  BY <1>1
<1>3. \A i \in 1 .. Len(s) : s[i] # e
  BY <1>1 DEF ToSet
<1> QED BY <1>1, <1>2, <1>3 DEF IsInjective

LEMMA OnceConcat ==
  ASSUME NEW T, NEW s \in Seq(T), NEW t \in Seq(T), IsInjective(s), IsInjective(t),
         ToSet(s) \cap ToSet(t) = {}
  PROVE  IsInjective(s \o t)
<1>1. /\ Len(s) \in Nat /\ Len(t) \in Nat
      /\ DOMAIN s = 1 .. Len(s) /\ DOMAIN t = 1 .. Len(t)
      /\ DOMAIN (s \o t) = 1 .. Len(s) + Len(t)
      /\ \A i \in 1 .. Len(s) : (s \o t)[i] = s[i]
      /\ \A i \in 1 .. Len(t) : (s \o t)[Len(s) + i] = t[i]
  OBVIOUS
<1>2. \A i \in 1 .. Len(s) + Len(t) : i \in 1 .. Len(s) \/ \E j \in 1 .. Len(t) : i = Len(s) + j
  <2> SUFFICES ASSUME NEW i \in 1 .. Len(s) + Len(t), i \notin 1 .. Len(s)
               PROVE  \E j \in 1 .. Len(t) : i = Len(s) + j
    OBVIOUS
  <2>1. i - Len(s) \in 1 .. Len(t) /\ i = Len(s) + (i - Len(s))
    BY <1>1
  <2> QED BY <2>1
<1>3. \A i \in 1 .. Len(s) : \A j \in 1 .. Len(t) : s[i] # t[j]
  BY <1>1 DEF ToSet
<1>4. /\ \A i, j \in 1 .. Len(s) : s[i] = s[j] => i = j
      /\ \A i, j \in 1 .. Len(t) : t[i] = t[j] => i = j
  BY <1>1 DEF IsInjective
<1>5. ASSUME NEW i \in 1 .. Len(s) + Len(t), NEW j \in 1 .. Len(s) + Len(t),
             (s \o t)[i] = (s \o t)[j]
      PROVE  i = j
  <2>1. CASE i \in 1 .. Len(s) /\ j \in 1 .. Len(s)
    BY <1>1, <1>4, <1>5, <2>1
  <2>2. ASSUME NEW a \in 1 .. Len(t), i = Len(s) + a, j \in 1 .. Len(s) PROVE FALSE
    BY <1>1, <1>3, <1>5, <2>2
  <2>3. ASSUME NEW a \in 1 .. Len(t), j = Len(s) + a, i \in 1 .. Len(s) PROVE FALSE
    BY <1>1, <1>3, <1>5, <2>3
  <2>4. ASSUME NEW a \in 1 .. Len(t), NEW b \in 1 .. Len(t), i = Len(s) + a, j = Len(s) + b
        PROVE  i = j
    <3>1. t[a] = t[b]
      BY <1>1, <1>5, <2>4
    <3> QED BY <1>4, <2>4, <3>1
  <2> QED BY <1>2, <2>1, <2>2, <2>3, <2>4
<1> QED BY <1>1, <1>5 DEF IsInjective

LEMMA OnceTail ==
  ASSUME NEW T, NEW s \in Seq(T), s # <<>>, IsInjective(s)
  PROVE  IsInjective(Tail(s)) /\ Head(s) \notin ToSet(Tail(s))
<1>1. /\ Len(s) \in Nat \ {0} /\ DOMAIN s = 1 .. Len(s)
      /\ Head(s) = s[1] /\ DOMAIN Tail(s) = 1 .. Len(s) - 1
      /\ \A i \in 1 .. Len(s) - 1 : Tail(s)[i] = s[i + 1]
  OBVIOUS
<1>2. /\ 1 \in 1 .. Len(s)
      /\ \A j \in 1 .. Len(s) - 1 : j + 1 \in 1 .. Len(s) /\ j + 1 # 1
  BY <1>1
<1>3. \A i, j \in 1 .. Len(s) : s[i] = s[j] => i = j
  BY <1>1 DEF IsInjective
<1>4. ASSUME NEW i \in 1 .. Len(s) - 1, NEW j \in 1 .. Len(s) - 1, Tail(s)[i] = Tail(s)[j]
      PROVE  i = j
  <2>1. i + 1 = j + 1
    BY <1>1, <1>2, <1>3, <1>4
  <2> QED BY <1>1, <2>1
<1>5. \A j \in 1 .. Len(s) - 1 : Tail(s)[j] # Head(s)
  BY <1>1, <1>2, <1>3
<1> QED BY <1>1, <1>4, <1>5 DEF IsInjective, ToSet
----------------------------------------------------------------------------
(* The invariant after a step, whichever queue is which then.              *)
LEMMA OnceAfter ==
  ASSUME QueueTypes, which' \in BOOLEAN, NeverStops',
         Apart(queue'[which], queue'[~ which], deferred'),
         \A k \in TaskKeys : Among(k, queue'[which], queue'[~ which], deferred') =>
                               reason'[k] = "None" \/ Polled(k)',
         at' = "poll" => reason'[current'] # "Vacant"
  PROVE  OnceInv'
<1>1. QueuedRuns'
  BY InQueuesStep DEF QueuedRuns, Among
<1>2. which \in BOOLEAN /\ (which' = which \/ which' = ~ which)
  <2>1. which \in BOOLEAN
    BY DEF QueueTypes
  <2> QED BY <2>1
<1>3. QueuedOnce'
  <2>1. CASE which' = which
    BY <2>1 DEF QueuedOnce, from, to
  <2>2. CASE which' = ~ which
    <3>1. from' = queue'[~ which] /\ to' = queue'[which]
      BY <1>2, <2>2 DEF from, to
    <3> QED BY <3>1 DEF QueuedOnce, Apart
  <2> QED BY <1>2, <2>1, <2>2
<1> QED BY <1>1, <1>3 DEF OnceInv

(* Steps that leave the queues and the reasons alone.                      *)
LEMMA OnceQuiet ==
  ASSUME QueueTypes, OnceInv, UNCHANGED <<queue, which, deferred, reason>>, NeverStops',
         \A k \in TaskKeys : Polled(k) => Polled(k)' \/ reason[k] = "None",
         at' = "poll" => reason[current'] # "Vacant"
  PROVE  OnceInv'
<1>1. QueuedOnce'
  BY DEF OnceInv, QueuedOnce, from, to
<1>2. \A k : InQueues(k)' <=> InQueues(k)
  BY DEF InQueues
<1> QED BY <1>1, <1>2 DEF OnceInv, QueuedRuns

(* A task whose reason is not None is in no queue, unless it is polled.    *)
LEMMA NotQueued ==
  ASSUME QInv, OnceInv, NEW k \in TaskKeys, reason[k] # "None", ~ Polled(k)
  PROVE  k \notin ToSet(from) /\ k \notin ToSet(to) /\ k \notin ToSet(deferred)
<1>1. ~ InQueues(k)
  BY DEF OnceInv, QueuedRuns
<1>2. Queued(k) <=> InQueues(k)
  BY QueuedIs DEF QInv, QueueTypes
<1> QED BY <1>1, <1>2 DEF Queued, Has

(* The queues and where a queued key may be, as OnceInv says it.           *)
LEMMA OnceFacts ==
  ASSUME QInv, OnceInv
  PROVE  /\ QueueTypes /\ TaskTypes /\ FrontInv /\ Apart(from, to, deferred)
         /\ from \in Seq(TaskKeys) /\ to \in Seq(TaskKeys) /\ deferred \in Seq(TaskKeys)
         /\ ToSet(from) \subseteq TaskKeys /\ ToSet(to) \subseteq TaskKeys
         /\ ToSet(deferred) \subseteq TaskKeys
         /\ \A k : Among(k, from, to, deferred) => reason[k] = "None" \/ Polled(k)
<1>1. QueueTypes /\ TaskTypes /\ FrontInv /\ Apart(from, to, deferred)
  BY DEF QInv, OnceInv, QueuedOnce
<1>2. from \in Seq(TaskKeys) /\ to \in Seq(TaskKeys) /\ deferred \in Seq(TaskKeys)
  BY <1>1, TwoQueues DEF QueueTypes, from, to
<1>3. /\ ToSet(from) \subseteq TaskKeys /\ ToSet(to) \subseteq TaskKeys
      /\ ToSet(deferred) \subseteq TaskKeys
  BY <1>2, SetEmpty
<1>4. \A k : Queued(k) <=> InQueues(k)
  BY <1>1, QueuedIs DEF QueueTypes
<1> QED BY <1>1, <1>2, <1>3, <1>4 DEF Queued, Has, OnceInv, QueuedRuns, Among

(* A key that was in no queue is put into `to` or `deferred`.              *)
LEMMA OnceAdded ==
  ASSUME QInv, OnceInv, NEW k \in TaskKeys, reason[k] # "None", ~ Polled(k),
         which' = which, at' = at, current' = current,
         \A j \in TaskKeys : j # k => reason'[j] = reason[j],
         reason'[k] = "None",
         \/ queue' = [queue EXCEPT ![~ which] = Append(to, k)] /\ deferred' = deferred
         \/ queue' = queue /\ deferred' = Append(deferred, k)
  PROVE  OnceInv'
<1>0. /\ QueueTypes /\ TaskTypes /\ FrontInv /\ Apart(from, to, deferred)
      /\ from \in Seq(TaskKeys) /\ to \in Seq(TaskKeys) /\ deferred \in Seq(TaskKeys)
      /\ \A j : Among(j, from, to, deferred) => reason[j] = "None" \/ Polled(j)
  BY OnceFacts
<1>1. k \notin ToSet(from) /\ k \notin ToSet(to) /\ k \notin ToSet(deferred)
  BY NotQueued
<1>2. /\ Append(to, k) \in Seq(TaskKeys) /\ ToSet(Append(to, k)) = ToSet(to) \cup {k}
      /\ ToSet(Append(deferred, k)) = ToSet(deferred) \cup {k}
  BY <1>0, SetAppend
<1>3. IsInjective(Append(to, k)) /\ IsInjective(Append(deferred, k))
  <2>1. IsInjective(to) /\ IsInjective(deferred)
    BY <1>0 DEF Apart
  <2> QED BY <1>0, <1>1, <2>1, OnceAppend
<1>4. /\ queue'[which] = from
      /\ \/ queue'[~ which] = Append(to, k) /\ deferred' = deferred
         \/ queue'[~ which] = to /\ deferred' = Append(deferred, k)
  BY <1>0, <1>2, TwoQueues DEF QueueTypes, from, to
<1>5. Apart(from, Append(to, k), deferred) /\ Apart(from, to, Append(deferred, k))
  BY <1>0, <1>1, <1>2, <1>3 DEF Apart
<1>6. \A j : Among(j, queue'[which], queue'[~ which], deferred') =>
               Among(j, from, to, deferred) \/ j = k
  <2>1. CASE queue'[~ which] = Append(to, k) /\ deferred' = deferred
    BY <1>2, <1>4, <2>1 DEF Among
  <2>2. CASE queue'[~ which] = to /\ deferred' = Append(deferred, k)
    BY <1>2, <1>4, <2>2 DEF Among
  <2> QED BY <1>4, <2>1, <2>2
<1>7. \A j : Polled(j)' <=> Polled(j)
  BY DEF Polled
<1>8. at' = "poll" => reason'[current'] # "Vacant"
  <2> SUFFICES ASSUME at = "poll" PROVE reason'[current] # "Vacant"
    OBVIOUS
  <2>1. current \in TaskKeys /\ reason[current] # "Vacant" /\ current # k
    BY <1>0, FrontTask DEF FrontInv, OnceInv, Polled
  <2> QED BY <2>1
<1>9. which' \in BOOLEAN /\ NeverStops'
  BY <1>0 DEF QueueTypes, OnceInv, NeverStops
<1>10. \A j \in TaskKeys : Among(j, queue'[which], queue'[~ which], deferred') =>
                            reason'[j] = "None" \/ Polled(j)'
  BY <1>0, <1>6, <1>7
<1>11. Apart(queue'[which], queue'[~ which], deferred')
  BY <1>4, <1>5
<1> QED BY <1>0, <1>8, <1>9, <1>10, <1>11, OnceAfter

(* What handles do, used as SelfOnly says.                                 *)
LEMMA OnceHandles ==
  ASSUME QInv, OnceInv, SelfOnly, NEW k \in TaskKeys,
         \/ \E r \in {"None", "Suspended"} : Register(k, r)
         \/ Resume(k) \/ Suspend(k) \/ Cancel(k)
  PROVE  OnceInv'
<1>0. /\ QueueTypes /\ TaskTypes /\ FrontInv /\ Apart(from, to, deferred)
      /\ from \in Seq(TaskKeys) /\ deferred \in Seq(TaskKeys)
  BY OnceFacts
<1>1. ASSUME NEW r \in {"None", "Suspended"}, Register(k, r) PROVE OnceInv'
  <2>1. /\ which' = which /\ at' = at /\ current' = current /\ deferred' = deferred
        /\ reason[k] = "Vacant" /\ reason' = [reason EXCEPT ![k] = r]
    BY <1>1 DEF Register, HandleUsed, SetReason
  <2>2. ~ Polled(k)
    BY <2>1 DEF OnceInv, Polled
  <2>3. reason'[k] = r /\ \A j \in TaskKeys : j # k => reason'[j] = reason[j]
    BY <1>0, <2>1 DEF TaskTypes
  <2>4. CASE r = "None"
    <3>1. queue' = [queue EXCEPT ![~ which] = Append(to, k)]
      BY <1>1, <2>4 DEF Register, enqueue_runnable, to
    <3> QED BY <2>1, <2>2, <2>3, <2>4, <3>1, OnceAdded
  <2>5. CASE r = "Suspended"
    <3>1. queue' = queue
      BY <1>1, <2>5 DEF Register
    <3>2. ~ InQueues(k)
      BY <2>1, <2>2 DEF OnceInv, QueuedRuns
    <3>3. QueuedOnce' /\ \A j : InQueues(j)' <=> InQueues(j)
      BY <2>1, <3>1 DEF OnceInv, QueuedOnce, from, to, InQueues
    <3>4. QueuedRuns' /\ NeverStops'
      BY <2>1, <2>3, <3>2, <3>3 DEF OnceInv, QueuedRuns, NeverStops, Polled
    <3>5. at' = "poll" => reason'[current'] # "Vacant"
      <4> SUFFICES ASSUME at = "poll" PROVE reason'[current] # "Vacant"
        BY <2>1
      <4>1. current \in TaskKeys /\ reason[current] # "Vacant" /\ current # k
        BY <1>0, <2>2, FrontTask DEF FrontInv, OnceInv, Polled
      <4> QED BY <2>3, <4>1
    <3> QED BY <3>3, <3>4, <3>5 DEF OnceInv
  <2> QED BY <2>4, <2>5
<1>2. CASE Resume(k)
  <2>1. /\ which' = which /\ at' = at /\ current' = current /\ ~ Polled(k)
        /\ reason[k] = "Suspended" /\ reason' = [reason EXCEPT ![k] = "None"]
    BY <1>2 DEF Resume, HandleUsed, SetReason, SelfOnly
  <2>2. reason'[k] = "None" /\ \A j \in TaskKeys : j # k => reason'[j] = reason[j]
    BY <1>0, <2>1 DEF TaskTypes
  <2>3. k \notin ToSet(to) /\ k \notin ToSet(deferred)
    BY <2>1, NotQueued
  <2>4. \/ queue' = [queue EXCEPT ![~ which] = Append(to, k)] /\ deferred' = deferred
        \/ queue' = queue /\ deferred' = Append(deferred, k)
    <3>1. CASE runnable[k] \/ current = k
      BY <1>2, <2>3, <3>1 DEF Resume, enqueue_runnable, Has, to
    <3>2. CASE ~ (runnable[k] \/ current = k)
      BY <1>2, <2>3, <3>2 DEF Resume, Has
    <3> QED BY <3>1, <3>2
  <2> QED BY <2>1, <2>2, <2>4, OnceAdded
<1>3. CASE Suspend(k) \/ Cancel(k)
  <2>1. Polled(k) /\ at = "poll" /\ current = k
    BY <1>3 DEF SelfOnly, Polled
  <2>2. k \notin ToSet(deferred)
    <3>1. k \in ToSet(from)
      BY <1>0, <2>1, SetTail DEF FrontInv
    <3> QED BY <1>0, <3>1 DEF Apart
  <2>3. deferred' = deferred
    <3>1. RemoveFirst(deferred, k) = deferred
      <4>1. {i \in 1 .. Len(deferred) : deferred[i] = k} = {}
        BY <1>0, <2>2 DEF ToSet
      <4> QED BY <4>1 DEF RemoveFirst, SelectInSeq
    <3> QED BY <1>3, <3>1 DEF Suspend, Cancel
  <2>4. /\ UNCHANGED <<queue, which, at, current>>
        /\ \E r \in {"Suspended", "Cancelled"} : reason' = [reason EXCEPT ![k] = r]
    BY <1>3 DEF Suspend, Cancel, HandleUsed, SetReason
  <2>5. reason'[k] # "Vacant" /\ \A j \in TaskKeys : j # k => reason'[j] = reason[j]
    BY <1>0, <2>4 DEF TaskTypes
  <2>6. QueuedOnce' /\ \A j : InQueues(j)' <=> InQueues(j)
    BY <2>3, <2>4 DEF OnceInv, QueuedOnce, from, to, InQueues
  <2>7. \A j : Polled(j)' <=> Polled(j)
    BY <2>4 DEF Polled
  <2>8. QueuedRuns'
    BY <2>1, <2>5, <2>6, <2>7 DEF OnceInv, QueuedRuns
  <2> QED BY <2>1, <2>4, <2>5, <2>6, <2>8 DEF OnceInv, NeverStops
<1> QED BY <1>1, <1>2, <1>3

(* drain_runnable moves keys, and finds no task to free.                   *)
LEMMA OnceDrain ==
  ASSUME QInv, OnceInv, at # "poll", drain_runnable, which' \in BOOLEAN, NeverStops', at' # "poll"
  PROVE  OnceInv'
<1> DEFINE moved == Retained(deferred, {k \in TaskKeys : MovesOut(k)})
           stays == Retained(deferred, {k \in TaskKeys : StaysDeferred(k)})
<1>0. /\ QueueTypes /\ Apart(from, to, deferred)
      /\ from \in Seq(TaskKeys) /\ to \in Seq(TaskKeys) /\ deferred \in Seq(TaskKeys)
      /\ \A j : Among(j, from, to, deferred) => reason[j] = "None"
  BY OnceFacts DEF Polled
<1>1. /\ deferred' = stays /\ queue' = [queue EXCEPT ![which] = from \o moved]
      /\ \A k \in TaskKeys : reason'[k] = reason[k] \/ reason[k] = "Cancelled"
  BY DEF drain_runnable, from
<1>2. /\ stays \in Seq(TaskKeys) /\ IsInjective(stays)
      /\ ToSet(stays) = ToSet(deferred) \cap {k \in TaskKeys : StaysDeferred(k)}
      /\ moved \in Seq(TaskKeys) /\ IsInjective(moved)
      /\ ToSet(moved) = ToSet(deferred) \cap {k \in TaskKeys : MovesOut(k)}
  BY <1>0, SetRetained DEF Apart
<1> HIDE DEF moved, stays
<1>3. ToSet(moved) \cap ToSet(stays) = {}
  BY <1>2 DEF MovesOut, StaysDeferred
<1>4. /\ from \o moved \in Seq(TaskKeys) /\ ToSet(from \o moved) = ToSet(from) \cup ToSet(moved)
      /\ IsInjective(from \o moved)
  <2>1. ToSet(from) \cap ToSet(moved) = {} /\ IsInjective(from)
    BY <1>0, <1>2 DEF Apart
  <2> QED BY <1>0, <1>2, <2>1, SetConcat, OnceConcat
<1>5. queue'[which] = from \o moved /\ queue'[~ which] = to
  BY <1>0, <1>1, <1>4, TwoQueues DEF QueueTypes, to
<1>6. Apart(from \o moved, to, stays)
  BY <1>0, <1>2, <1>3, <1>4 DEF Apart
<1>7. \A j : Among(j, from \o moved, to, stays) => Among(j, from, to, deferred)
  BY <1>2, <1>4 DEF Among
<1>8. \A j \in TaskKeys : Among(j, queue'[which], queue'[~ which], deferred') => reason'[j] = "None"
  BY <1>0, <1>1, <1>5, <1>7
<1>9. Apart(queue'[which], queue'[~ which], deferred')
  BY <1>1, <1>5, <1>6
<1> QED BY <1>0, <1>8, <1>9, OnceAfter

(* The unwraps of drain_runnable find their tasks.                         *)
LEMMA NeverDrainUnwinds == ASSUME QInv, OnceInv, at # "poll" PROVE ~ DrainUnwinds
<1>1. /\ deferred \in Seq(TaskKeys)
      /\ \A j : Among(j, from, to, deferred) => reason[j] = "None"
  BY OnceFacts DEF Polled
<1>2. \A i \in DOMAIN deferred : deferred[i] \in ToSet(deferred)
  BY <1>1 DEF ToSet
<1>3. \A i \in DOMAIN deferred : reason[deferred[i]] = "None"
  BY <1>1, <1>2 DEF Among
<1> QED BY <1>3 DEF DrainUnwinds

(* When a poll ends its key leaves the front, and goes into one queue only *)
(* if its task may run.                                                    *)
LEMMA OnceReturn == ASSUME QInv, OnceInv, TaskReturns PROVE OnceInv'
<1>0. /\ QueueTypes /\ TaskTypes /\ FrontInv /\ Apart(from, to, deferred)
      /\ from \in Seq(TaskKeys) /\ to \in Seq(TaskKeys) /\ deferred \in Seq(TaskKeys)
      /\ \A j : Among(j, from, to, deferred) => reason[j] = "None" \/ Polled(j)
  BY OnceFacts
<1>1. at = "poll" /\ from # <<>> /\ current = Head(from) /\ current \in TaskKeys
  BY <1>0, FrontTask DEF TaskReturns, FrontInv
<1>2. /\ Tail(from) \in Seq(TaskKeys) /\ ToSet(from) = {current} \cup ToSet(Tail(from))
      /\ IsInjective(Tail(from)) /\ current \notin ToSet(Tail(from))
  BY <1>0, <1>1, SetTail, OnceTail DEF Apart
<1>3. current \notin ToSet(to) /\ current \notin ToSet(deferred)
  BY <1>0, <1>2 DEF Apart
<1>4. /\ <<>> \in Seq(TaskKeys) /\ ToSet(<<>>) = {} /\ IsInjective(<<>>)
      /\ <<current>> \in Seq(TaskKeys) /\ ToSet(<<current>>) = {current}
      /\ IsInjective(<<current>>)
  <2>1. <<current>> \in Seq(TaskKeys) /\ DOMAIN <<current>> = {1} /\ <<current>>[1] = current
    BY <1>1
  <2>2. <<>> \in Seq(TaskKeys) /\ DOMAIN <<>> = {}
    OBVIOUS
  <2> QED BY <2>1, <2>2 DEF ToSet, IsInjective
<1>5. ASSUME NEW requeued \in {<<>>, <<current>>}, GuardDrop(requeued),
             deferred' \in {deferred, Append(deferred, current)},
             requeued = <<>> \/ deferred' = deferred,
             (requeued = <<>> /\ deferred' = deferred) \/ reason'[current] = "None",
             \A j \in TaskKeys : j # current => reason'[j] = reason[j],
             at' \in {"rotate", "idle"}
      PROVE  OnceInv'
  <2>1. requeued \in Seq(TaskKeys) /\ IsInjective(requeued) /\ ToSet(requeued) \subseteq {current}
    BY <1>4, <1>5
  <2>2. /\ to \o requeued \in Seq(TaskKeys) /\ ToSet(to \o requeued) = ToSet(to) \cup ToSet(requeued)
        /\ IsInjective(to \o requeued)
    <3>1. IsInjective(to) /\ ToSet(to) \cap ToSet(requeued) = {}
      BY <1>0, <1>3, <2>1 DEF Apart
    <3> QED BY <1>0, <2>1, <3>1, SetConcat, OnceConcat
  <2>3. which' = which /\ queue'[which] = Tail(from) /\ queue'[~ which] = to \o requeued
    <3>1. which' = which /\ queue' = [queue EXCEPT ![which] = Tail(from), ![~ which] = to \o requeued]
      <4>1. CASE which = TRUE
        BY <1>5, <4>1 DEF GuardDrop, QueueTypes, from, to
      <4>2. CASE which = FALSE
        BY <1>5, <4>2 DEF GuardDrop, QueueTypes, from, to
      <4> QED BY <1>0, <4>1, <4>2 DEF QueueTypes
    <3> DEFINE q == [queue EXCEPT ![which] = Tail(from)]
    <3>2. q \in [BOOLEAN -> Seq(TaskKeys)] /\ q[which] = Tail(from)
      BY <1>0, <1>2, TwoQueues DEF QueueTypes
    <3>3. queue' = [q EXCEPT ![~ which] = to \o requeued]
      BY <3>1
    <3> HIDE DEF q
    <3> QED BY <1>0, <2>2, <3>1, <3>2, <3>3, TwoQueues DEF QueueTypes
  <2>4. /\ IsInjective(deferred') /\ ToSet(deferred') \subseteq ToSet(deferred) \cup {current}
        /\ requeued = <<>> \/ ToSet(deferred') = ToSet(deferred)
    <3>1. /\ IsInjective(deferred) /\ IsInjective(Append(deferred, current))
          /\ ToSet(Append(deferred, current)) = ToSet(deferred) \cup {current}
      BY <1>0, <1>1, <1>3, SetAppend, OnceAppend DEF Apart
    <3> QED BY <1>5, <3>1
  <2>5. Apart(Tail(from), to \o requeued, deferred')
    <3>1. ToSet(to \o requeued) \cap ToSet(deferred') = {}
      <4>1. CASE requeued = <<>>
        BY <1>0, <1>3, <1>4, <2>2, <2>4, <4>1 DEF Apart
      <4>2. CASE ToSet(deferred') = ToSet(deferred)
        BY <1>0, <1>3, <2>1, <2>2, <4>2 DEF Apart
      <4> QED BY <2>4, <4>1, <4>2
    <3> QED BY <1>0, <1>2, <2>1, <2>2, <2>4, <3>1 DEF Apart
  <2>6. ASSUME NEW j \in TaskKeys, Among(j, Tail(from), to \o requeued, deferred')
        PROVE  reason'[j] = "None"
    <3>1. CASE j # current
      <4>1. Among(j, from, to, deferred)
        BY <1>2, <2>1, <2>2, <2>4, <2>6, <3>1 DEF Among
      <4> QED BY <1>0, <1>5, <3>1, <4>1 DEF Polled
    <3>2. CASE j = current
      <4>1. ~ (requeued = <<>> /\ deferred' = deferred)
        BY <1>2, <1>3, <1>4, <2>2, <2>6, <3>2 DEF Among
      <4> QED BY <1>5, <3>2, <4>1
    <3> QED BY <3>1, <3>2
  <2>7. /\ Apart(queue'[which], queue'[~ which], deferred')
        /\ \A j \in TaskKeys : Among(j, queue'[which], queue'[~ which], deferred') =>
                                 reason'[j] = "None" \/ Polled(j)'
    BY <2>3, <2>5, <2>6
  <2>8. which' \in BOOLEAN /\ NeverStops' /\ at' # "poll"
    BY <1>0, <1>5, <2>3 DEF QueueTypes, NeverStops
  <2> QED BY <1>0, <2>7, <2>8, OnceAfter
<1>6. CASE TaskRemoved
  <2>1. /\ GuardDrop(<<>>) /\ at' = "rotate" /\ deferred' = deferred
        /\ reason' = [reason EXCEPT ![current] = "Vacant"]
    BY <1>6 DEF TaskRemoved, SetReason
  <2>2. \A j \in TaskKeys : j # current => reason'[j] = reason[j]
    BY <1>0, <2>1 DEF TaskTypes
  <2> QED BY <1>5, <2>1, <2>2
<1>7. CASE TaskPending
  <2>1. /\ GuardDrop(IF MovesOut(current) THEN <<current>> ELSE <<>>)
        /\ at' = "rotate" /\ reason' = reason
        /\ deferred' = IF StaysDeferred(current) THEN Append(deferred, current) ELSE deferred
    BY <1>7 DEF TaskPending
  <2>2. CASE MovesOut(current)
    <3>1. GuardDrop(<<current>>) /\ deferred' = deferred /\ reason'[current] = "None"
      BY <2>1, <2>2 DEF MovesOut, StaysDeferred
    <3> QED BY <1>5, <2>1, <3>1
  <2>3. CASE ~ MovesOut(current)
    <3>1. GuardDrop(<<>>) /\ (deferred' = deferred \/ reason'[current] = "None")
      BY <2>1, <2>3 DEF StaysDeferred
    <3> QED BY <1>5, <2>1, <3>1
  <2> QED BY <2>2, <2>3
<1>8. CASE TaskPanics
  <2>1. GuardDrop(<<>>) /\ at' = "idle" /\ deferred' = deferred /\ reason' = reason
    BY <1>8 DEF TaskPanics
  <2> QED BY <1>5, <2>1
<1> QED BY <1>6, <1>7, <1>8 DEF TaskReturns

(* The end of a turn finds no freed task in the queue, and the scan of the *)
(* registry takes no key out of it.                                        *)
LEMMA OnceRotateEnd == ASSUME QInv, OnceInv, RotateEnd PROVE OnceInv'
<1>0. /\ QueueTypes /\ Apart(from, to, deferred) /\ at = "rotate"
      /\ from \in Seq(TaskKeys) /\ to \in Seq(TaskKeys) /\ deferred \in Seq(TaskKeys)
      /\ \A j : Among(j, from, to, deferred) => reason[j] = "None"
  BY OnceFacts DEF RotateEnd, NextTurn, Polled
<1>1. ~ (scan_registry /\ \E k \in ToSet(to) : reason[k] = "Vacant")
  BY <1>0 DEF Among
<1> DEFINE rest == Retained(to, {k \in TaskKeys : NotCancelled(k)})
<1>2. /\ which' = ~ which /\ deferred' = deferred /\ at' \in {"idle", "process"}
      /\ queue' = queue \/ queue' = [queue EXCEPT ![~ which] = rest]
      /\ \A k \in TaskKeys : reason'[k] = reason[k] \/ reason[k] = "Cancelled"
  BY <1>1 DEF RotateEnd, NextTurn, NotCancelled, to
<1>3. rest \in Seq(TaskKeys) /\ ToSet(rest) \subseteq ToSet(to) /\ IsInjective(rest)
  BY <1>0, SetRetained DEF Apart
<1> HIDE DEF rest
<1>4. queue'[which] = from /\ queue'[~ which] \in {to, rest}
  BY <1>0, <1>2, <1>3, TwoQueues DEF QueueTypes, from, to
<1>5. Apart(from, to, deferred) /\ Apart(from, rest, deferred)
  BY <1>0, <1>3 DEF Apart
<1>6. /\ Apart(queue'[which], queue'[~ which], deferred')
      /\ \A j : Among(j, queue'[which], queue'[~ which], deferred') => Among(j, from, to, deferred)
  BY <1>2, <1>3, <1>4, <1>5 DEF Among
<1>7. \A j \in TaskKeys : Among(j, queue'[which], queue'[~ which], deferred') => reason'[j] = "None"
  BY <1>0, <1>2, <1>6
<1>8. which' \in BOOLEAN /\ NeverStops' /\ at' # "poll"
  BY <1>0, <1>2 DEF QueueTypes, NeverStops
<1> QED BY <1>0, <1>6, <1>7, <1>8, OnceAfter

(* The key at the front belongs to a task that may run.                    *)
LEMMA FrontRuns == ASSUME QInv, OnceInv, Rotating PROVE reason[run_key] = "None"
<1>1. /\ from \in Seq(TaskKeys) /\ from # <<>> /\ at = "rotate"
      /\ \A j : Among(j, from, to, deferred) => reason[j] = "None"
  BY OnceFacts DEF Rotating, Polled
<1>2. Head(from) \in ToSet(from)
  BY <1>1, SetTail
<1> QED BY <1>1, <1>2 DEF Among, run_key

LEMMA OnceNext == ASSUME QInv, OnceInv, [QueueNext]_scheduler, [SelfOnly]_scheduler PROVE OnceInv'
<1>0. QueueTypes
  BY DEF QInv
<1>1. CASE UNCHANGED scheduler
  BY <1>1 DEF scheduler, OnceInv, QueuedOnce, QueuedRuns, NeverStops, InQueues, Polled, from, to
<1>2. ASSUME NEW k \in TaskKeys, WakeTask(k) PROVE OnceInv'
  <2>1. UNCHANGED <<queue, which, deferred, reason, at, current>>
    BY <1>2 DEF WakeTask, handles
  <2> QED BY <1>0, <2>1, OnceQuiet DEF OnceInv, NeverStops, Polled
<1>3. CASE PollBegin \/ RegisterWaker
  <2>1. UNCHANGED <<queue, which, deferred, reason>> /\ at # "poll" /\ at' \in {"process", "again"}
    BY <1>3 DEF PollBegin, RegisterWaker, handles
  <2> QED BY <1>0, <2>1, OnceQuiet DEF NeverStops, Polled
<1>4. CASE ProcessTasks
  <2>1. ~ DrainUnwinds /\ at = "process"
    BY <1>4, NeverDrainUnwinds DEF ProcessTasks
  <2>2. drain_runnable /\ which' = which /\ at' \in {"register", "rotate"}
    BY <1>4, <2>1 DEF ProcessTasks
  <2> QED BY <1>0, <2>1, <2>2, OnceDrain DEF QueueTypes, NeverStops
<1>5. CASE CheckAgain
  <2>1. drain_runnable /\ at = "again" /\ which' \in BOOLEAN /\ at' \in {"rotate", "idle"}
    BY <1>0, <1>5 DEF CheckAgain, QueueTypes
  <2> QED BY <2>1, OnceDrain DEF NeverStops
<1>6. CASE RotateUnwinds \/ RotateSpins \/ RotateCancelled
  BY <1>6, FrontRuns DEF RotateUnwinds, RotateSpins, RotateCancelled
<1>7. CASE PollTask
  <2>1. /\ UNCHANGED <<queue, which, deferred, reason>> /\ at = "rotate" /\ at' = "poll"
        /\ reason[current'] = "None"
    BY <1>7 DEF PollTask, Rotating, handles
  <2> QED BY <1>0, <2>1, OnceQuiet DEF NeverStops, Polled
<1>8. CASE QueueNext /\ SelfOnly
  BY <1>2, <1>3, <1>4, <1>5, <1>6, <1>7, <1>8, OnceHandles, OnceReturn, OnceRotateEnd
  DEF QueueNext, Rotate
<1> QED BY <1>1, <1>8

LEMMA OnceInvariant == QueueSpec /\ [][SelfOnly]_scheduler => []OnceInv
<1>1. QueueInit => OnceInv
  <2> SUFFICES ASSUME QueueInit PROVE OnceInv
    OBVIOUS
  <2>1. from = <<>> /\ to = <<>> /\ deferred = <<>> /\ at = "idle"
    BY DEF QueueInit, from, to
  <2>2. ToSet(<<>>) = {} /\ IsInjective(<<>>)
    BY DEF ToSet, IsInjective
  <2>3. QueuedOnce
    BY <2>1, <2>2 DEF QueuedOnce, Apart
  <2>4. \A k : ~ InQueues(k)
    BY <2>2 DEF QueueInit, InQueues
  <2> QED BY <2>1, <2>3, <2>4 DEF OnceInv, QueuedRuns, NeverStops
<1> QED BY <1>1, OnceNext, QInvInvariant, PTL DEF QueueSpec

(* As long as tasks are suspended and cancelled only while they are polled *)
(* and not resumed in the same poll, no unwrap of the scheduler panics and *)
(* rotate_once does not loop for ever on a key: every task it meets in a   *)
(* queue is registered and may run.  Each restriction is needed.           *)
THEOREM SchedulerNeverStops == QueueSpec /\ [][SelfOnly]_scheduler => []NeverStops
<1>1. OnceInv => NeverStops
  BY DEF OnceInv
<1> QED BY <1>1, OnceInvariant, PTL

(* Under the same restriction no key is queued twice, over all wakes,      *)
(* registrations, panics and resumptions: the queues and `deferred` hold   *)
(* at most one key for a task.                                             *)
THEOREM SchedulerQueuedOnce == QueueSpec /\ [][SelfOnly]_scheduler => []QueuedOnce
<1>1. OnceInv => QueuedOnce
  BY DEF OnceInv
<1> QED BY <1>1, OnceInvariant, PTL
============================================================================
