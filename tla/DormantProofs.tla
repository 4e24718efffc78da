--------------------------- MODULE DormantProofs ---------------------------
(***************************************************************************)
(* Proofs about the parts that MCDormant puts together: AtomicMarkerOption *)
(* for any processes, IrqSignal for any number of interrupt handlers, and  *)
(* the types of all three parts, with SchedulerAlgorithmProofs.            *)
(***************************************************************************)
EXTENDS MCDormant, SchedulerAlgorithmProofs

(***************************************************************************)
(* AtomicMarkerOption.  The bits of `mark` say who is between its lock and *)
(* its release: PUTTING while a put is, MARKING alone while a take is.     *)
(***************************************************************************)

\* The bits that processes rely on while they are inside.
MarkHeld == \A p \in Procs :
  /\ call[p].at \in Writing \cup {"panicked"} => "PUTTING" \in mark
  /\ call[p].at \in Writing /\ call[p].met => "MARKING" \in mark
  /\ call[p].at = "cas" => ~ call[p].met
  /\ call[p].at \in TakingBack => mark = {"PUTTING", "MARKING"}
  /\ call[p].at \in Taking => mark = {"MARKING"}

\* The value is the one of the put that is inside.
ValueHeld == \A p \in Procs :
  /\ call[p].at \in {"release", "retake"} => value = call[p].want
  /\ call[p].at = "unmark" => call[p].hand = call[p].want

MarkerInv == MarkerTypeOK /\ MarkHeld /\ MarkerExclusive /\ ValueHeld

LEMMA MarkerInvInit == MarkerInit => MarkerInv
  BY DEF MarkerInit, MarkerInv, MarkerTypeOK, MarkHeld, MarkerExclusive, ValueHeld, Calls, Idle,
         Inside, Writing, TakingBack, Taking

(* A mark that is clear means that nobody is inside.                        *)
LEMMA ClearMeansFree ==
  ASSUME MarkerInv, mark = {}, NEW q \in Procs PROVE call[q].at \notin Inside
  BY DEF MarkerInv, MarkHeld, Inside

(* The call of p changes, those of others do not.                           *)
LEMMA OneCall ==
  ASSUME call \in [Procs -> Calls], NEW p \in Procs, NEW r \in Calls, call' = [call EXCEPT ![p] = r]
  PROVE  /\ call' \in [Procs -> Calls] /\ call'[p] = r
         /\ \A q \in Procs \ {p} : call'[q] = call[q]
  OBVIOUS

(* A call that starts over, or ends.                                        *)
LEMMA RetryFacts ==
  ASSUME call \in [Procs -> Calls], NEW p \in Procs, Retry(p)
  PROVE  /\ call' \in [Procs -> Calls]
         /\ call'[p].at \in {"cas", "idle"} /\ call'[p].met = FALSE
         /\ \A q \in Procs \ {p} : call'[q] = call[q]
<1> DEFINE r == IF call[p].again THEN [call[p] EXCEPT !.at = "cas", !.hand = None, !.met = FALSE]
                                 ELSE Idle
<1>1. call[p] \in Calls
  OBVIOUS
<1>2. r \in Calls /\ r.at \in {"cas", "idle"} /\ r.met = FALSE
  BY <1>1 DEF Calls, Idle
<1>3. call' = [call EXCEPT ![p] = r]
  BY DEF Retry, Step
<1> HIDE DEF r
<1> QED BY <1>2, <1>3, OneCall

(* A call that took the value out.                                          *)
LEMMA TakeOutFacts ==
  ASSUME MarkerTypeOK, NEW p \in Procs, NEW next \in {"unmark", "unlock"}, TakeOut(p, next)
  PROVE  /\ MarkerTypeOK' /\ mark' = mark /\ value' = None
         /\ call'[p].at = next /\ call'[p].hand = value
         /\ call'[p].want = call[p].want /\ call'[p].met = call[p].met
         /\ \A q \in Procs \ {p} : call'[q] = call[q]
<1> DEFINE r == [call[p] EXCEPT !.at = next, !.hand = value]
<1>1. call[p] \in Calls /\ value \in Procs \cup {None}
  BY DEF MarkerTypeOK
<1>2. /\ r \in Calls /\ r.at = next /\ r.hand = value
      /\ r.want = call[p].want /\ r.met = call[p].met
  BY <1>1 DEF Calls, Inside, TakingBack, Taking
<1>3. call' = [call EXCEPT ![p] = r] /\ mark' = mark /\ value' = None
  BY DEF TakeOut
<1> HIDE DEF r
<1> QED BY <1>2, <1>3, OneCall DEF MarkerTypeOK

USE DEF At, Inside, Writing, TakingBack, Taking

(* Steps of p that leave the mark alone or that p may take alone.           *)
LEMMA MarkerInvNext == MarkerInv /\ [MarkerNext]_marker => MarkerInv'
<1> SUFFICES ASSUME MarkerInv, [MarkerNext]_marker PROVE MarkerInv'
  OBVIOUS
<1>0. /\ mark \subseteq {"PUTTING", "MARKING"} /\ value \in Procs \cup {None}
      /\ call \in [Procs -> Calls] /\ Idle \in Calls
  BY DEF MarkerInv, MarkerTypeOK, Calls, Idle
<1>1. ASSUME NEW p \in Procs, NEW v \in {p, None}, NEW loop \in BOOLEAN, CallPut(p, v, loop)
      PROVE  MarkerInv'
  <2> DEFINE r == [Idle EXCEPT !.at = "cas", !.want = v, !.again = loop]
  <2>1. r \in Calls /\ r.at = "cas" /\ r.met = FALSE
    BY DEF Idle, Calls
  <2>2. call' = [call EXCEPT ![p] = r] /\ mark' = mark /\ value' = value
    BY <1>1 DEF CallPut
  <2> HIDE DEF r
  <2>3. /\ call' \in [Procs -> Calls] /\ call'[p] = r
        /\ \A q \in Procs \ {p} : call'[q] = call[q]
    BY <1>0, <2>1, <2>2, OneCall
  <2> QED BY <2>1, <2>2, <2>3 DEF MarkerInv, MarkerTypeOK, MarkHeld, MarkerExclusive, ValueHeld
<1>2. ASSUME NEW p \in Procs, CallTake(p) PROVE MarkerInv'
  BY <1>0, <1>2 DEF CallTake, Step, Idle, Calls, MarkerInv, MarkerTypeOK, MarkHeld, MarkerExclusive, ValueHeld
<1>3. ASSUME NEW p \in Procs, Lock(p) PROVE MarkerInv'
  BY <1>0, <1>3, ClearMeansFree DEF Lock, Step, Calls, MarkerInv, MarkerTypeOK, MarkHeld, MarkerExclusive, ValueHeld
<1>4. ASSUME NEW p \in Procs, LockFails(p) PROVE MarkerInv'
  <2>1. Retry(p) /\ mark' = mark /\ value' = value
    BY <1>4 DEF LockFails
  <2>2. /\ call' \in [Procs -> Calls]
        /\ call'[p].at \in {"cas", "idle"} /\ call'[p].met = FALSE
        /\ \A q \in Procs \ {p} : call'[q] = call[q]
    BY <1>0, <2>1, RetryFacts
  <2> QED BY <2>1, <2>2 DEF MarkerInv, MarkerTypeOK, MarkHeld, MarkerExclusive, ValueHeld
<1>5. ASSUME NEW p \in Procs, Write(p) PROVE MarkerInv'
  BY <1>0, <1>5 DEF Write, Step, Calls, MarkerInv, MarkerTypeOK, MarkHeld, MarkerExclusive, ValueHeld
<1>6. ASSUME NEW p \in Procs, Release(p) PROVE MarkerInv'
  BY <1>0, <1>6 DEF Release, Step, Idle, Calls, MarkerInv, MarkerTypeOK, MarkHeld, MarkerExclusive, ValueHeld
<1>7. ASSUME NEW p \in Procs, ReleaseFails(p) PROVE MarkerInv'
  BY <1>0, <1>7 DEF ReleaseFails, Step, Calls, MarkerInv, MarkerTypeOK, MarkHeld, MarkerExclusive, ValueHeld
<1>8. ASSUME NEW p \in Procs, Retake(p) PROVE MarkerInv'
  <2>1. At(p, "retake") /\ TakeOut(p, "unmark")
    BY <1>8 DEF Retake
  <2>2. /\ MarkerTypeOK' /\ mark' = mark /\ value' = None
        /\ call'[p].at = "unmark" /\ call'[p].hand = value
        /\ call'[p].want = call[p].want /\ call'[p].met = call[p].met
        /\ \A q \in Procs \ {p} : call'[q] = call[q]
    BY <2>1, TakeOutFacts DEF MarkerInv
  <2> QED BY <2>1, <2>2 DEF MarkerInv, MarkHeld, MarkerExclusive, ValueHeld
<1>9. ASSUME NEW p \in Procs, Unmark(p) PROVE MarkerInv'
  <2>1. At(p, "unmark") /\ Retry(p) /\ mark' = {} /\ value' = value
    BY <1>9 DEF Unmark
  <2>2. /\ call' \in [Procs -> Calls]
        /\ call'[p].at \in {"cas", "idle"} /\ call'[p].met = FALSE
        /\ \A q \in Procs \ {p} : call'[q] = call[q]
    BY <1>0, <2>1, RetryFacts
  <2> QED BY <2>1, <2>2 DEF MarkerInv, MarkerTypeOK, MarkHeld, MarkerExclusive, ValueHeld
<1>10. ASSUME NEW p \in Procs, MarkLock(p) PROVE MarkerInv'
  BY <1>0, <1>10, ClearMeansFree DEF MarkLock, Step, Calls, MarkerInv, MarkerTypeOK, MarkHeld, MarkerExclusive, ValueHeld
<1>11. ASSUME NEW p \in Procs, MarkOnly(p) PROVE MarkerInv'
  BY <1>0, <1>11 DEF MarkOnly, Idle, Calls, MarkerInv, MarkerTypeOK, MarkHeld, MarkerExclusive, ValueHeld
<1>12. ASSUME NEW p \in Procs, Take(p) PROVE MarkerInv'
  <2>1. At(p, "taking") /\ TakeOut(p, "unlock")
    BY <1>12 DEF Take
  <2>2. /\ MarkerTypeOK' /\ mark' = mark /\ value' = None
        /\ call'[p].at = "unlock" /\ call'[p].hand = value
        /\ call'[p].want = call[p].want /\ call'[p].met = call[p].met
        /\ \A q \in Procs \ {p} : call'[q] = call[q]
    BY <2>1, TakeOutFacts DEF MarkerInv
  <2> QED BY <2>1, <2>2 DEF MarkerInv, MarkHeld, MarkerExclusive, ValueHeld
<1>13. ASSUME NEW p \in Procs, Unlock(p) PROVE MarkerInv'
  BY <1>0, <1>13 DEF Unlock, Step, Idle, Calls, MarkerInv, MarkerTypeOK, MarkHeld, MarkerExclusive, ValueHeld
<1>14. ASSUME NEW p \in Procs, WritePanics(p) PROVE MarkerInv'
  BY <1>0, <1>14 DEF WritePanics, Step, Calls, MarkerInv, MarkerTypeOK, MarkHeld, MarkerExclusive, ValueHeld
<1>15. CASE UNCHANGED marker
  BY <1>15 DEF marker, MarkerInv, MarkerTypeOK, MarkHeld, MarkerExclusive, ValueHeld
<1> QED BY <1>1, <1>2, <1>3, <1>4, <1>5, <1>6, <1>7, <1>8, <1>9, <1>10, <1>11, <1>12, <1>13, <1>14, <1>15
        DEF MarkerNext, Begin, Go

(* Only one process is between its lock and its release: put and take never *)
(* touch the value at the same time, and nobody does once a put panicked.   *)
THEOREM MarkerMutualExclusion == MarkerSpec => []MarkerExclusive
<1>1. MarkerInv => MarkerExclusive
  BY DEF MarkerInv
<1> QED BY <1>1, MarkerInvInit, MarkerInvNext, PTL DEF MarkerSpec

(* What a put that was met takes back is its own value, whatever other     *)
(* calls did meanwhile.                                                    *)
THEOREM MarkerPutKeepsValue == MarkerSpec => []PutKeepsValue
<1>1. MarkerInv => PutKeepsValue
  BY DEF MarkerInv, ValueHeld, PutKeepsValue
<1> QED BY <1>1, MarkerInvInit, MarkerInvNext, PTL DEF MarkerSpec

(* A put that a take met does not succeed.                                  *)
THEOREM MarkerTakeNoticed == MarkerSpec => TakeNoticed
<1> DEFINE Noticed == \A p \in Procs :
             (At(p, "release") /\ call'[p].at = "idle") => ~ call[p].met
<1>1. MarkerInv /\ [MarkerNext]_marker => [Noticed]_marker
  <2> SUFFICES ASSUME MarkerInv, MarkerNext, NEW q \in Procs, At(q, "release"), call'[q].at = "idle"
               PROVE  ~ call[q].met
    OBVIOUS
  <2>0. call \in [Procs -> Calls]
    BY DEF MarkerInv, MarkerTypeOK
  <2>1. PICK p \in Procs : Begin(p) \/ Go(p)
    BY DEF MarkerNext
  <2>2. CASE p = q
    <3>1. Release(q)
      <4>1. ~ ReleaseFails(q)
        <5>1. ReleaseFails(q) => call'[q].at = "retake"
          BY <2>0 DEF ReleaseFails, Step, Calls
        <5> QED BY <5>1
      <4> QED BY <2>1, <2>2, <4>1 DEF Begin, Go, CallPut, CallTake, Lock, LockFails, Write,
              WritePanics, Retake, Unmark, MarkLock, MarkOnly, Take, Unlock
    <3> QED BY <3>1 DEF Release, MarkerInv, MarkHeld
  <2>3. CASE p # q
    BY <2>0, <2>1, <2>3 DEF Begin, Go, CallPut, CallTake, Lock, LockFails, Write, WritePanics, Release,
       ReleaseFails, Retake, Unmark, MarkLock, MarkOnly, Take, TakeOut, Unlock, Step, Retry, Idle, Calls
  <2> QED BY <2>2, <2>3
<1> QED BY <1>1, MarkerInvInit, MarkerInvNext, PTL DEF MarkerSpec, TakeNoticed
----------------------------------------------------------------------------
(***************************************************************************)
(* IrqSignal.  A handler at the waker has IRQ_LOCK set, which nobody but   *)
(* its own store clears; the poll has EXT_LOCK set without IRQ_LOCK.       *)
(***************************************************************************)

AtWaker == {"wake", "store", "take", "clear"}

\* The lock that goes with access to the waker.
LocksHeld ==
  /\ \A n \in Notifiers : step[n] \in AtWaker => "IRQ_LOCK" \in flags
  /\ step[Listener] \in AtWaker => "EXT_LOCK" \in flags /\ "IRQ_LOCK" \notin flags

\* Who is about to lock saw flags without a lock.
SawNoLock == \A u \in Users : step[u] = "lock" => "IRQ_LOCK" \notin prev[u] /\ "EXT_LOCK" \notin prev[u]

\* Handlers and the poll have their own steps.
OwnSteps == /\ \A n \in Notifiers : step[n] \notin {"take", "clear"}
            /\ step[Listener] \notin {"wake", "store"}

SignalInv == SignalTypeOK /\ LocksHeld /\ SawNoLock /\ OwnSteps /\ WakerExclusive /\ NotifyKept

LEMMA SignalInvInit == SignalInit => SignalInv
  BY SignalAssumption
  DEF SignalInit, SignalInv, SignalTypeOK, LocksHeld, SawNoLock, OwnSteps, WakerExclusive, NotifyKept,
      AtWaker, Users, Bits

(* A step moves one user.                                                  *)
LEMMA GotoFacts ==
  ASSUME SignalTypeOK, NEW u \in Users, NEW here, NEW there, Goto(u, here, there)
  PROVE  /\ step[u] = here /\ step'[u] = there
         /\ \A v \in Users \ {u} : step'[v] = step[v]
         /\ step' = [step EXCEPT ![u] = there]
  BY DEF Goto, SignalTypeOK

LEMMA LoadFacts ==
  ASSUME SignalTypeOK, NEW u \in Users, Load(u)
  PROVE  /\ prev' \in [Users -> SUBSET Bits] /\ prev'[u] = flags
         /\ \A v \in Users \ {u} : prev'[v] = prev[v]
  BY DEF Load, SignalTypeOK

LEMMA SignalInvNext == SignalInv /\ [SignalNext]_signal => SignalInv'
<1> SUFFICES ASSUME SignalInv, [SignalNext]_signal PROVE SignalInv'
  OBVIOUS
<1> USE SignalAssumption DEF Users, AtWaker
<1>0. /\ SignalTypeOK /\ flags \subseteq Bits /\ borrow \in BOOLEAN /\ owed \in BOOLEAN
      /\ step \in [Users -> {"idle", "load", "notify", "inner", "or", "lock", "wake",
                             "store", "take", "clear", "none", "panicked"}]
      /\ prev \in [Users -> SUBSET Bits]
  BY DEF SignalInv, SignalTypeOK
<1>1. ASSUME NEW n \in Notifiers, CallNotify(n) PROVE SignalInv'
  BY <1>0, <1>1, GotoFacts
  DEF CallNotify, SignalInv, SignalTypeOK, LocksHeld, SawNoLock, OwnSteps, WakerExclusive, NotifyKept
<1>2. ASSUME NEW n \in Notifiers, NotifyLoad(n) PROVE SignalInv'
  BY <1>0, <1>2, GotoFacts, LoadFacts
  DEF NotifyLoad, Owe, SignalInv, SignalTypeOK, LocksHeld, SawNoLock, OwnSteps, WakerExclusive, NotifyKept
<1>3. ASSUME NEW n \in Notifiers, NotifyLocked(n) PROVE SignalInv'
  <2>1. CASE flags = prev[n]
    <3>1. /\ step[n] = "notify" /\ step'[n] = "idle"
          /\ \A v \in Users \ {n} : step'[v] = step[v]
          /\ step' = [step EXCEPT ![n] = "idle"]
          /\ flags' = prev[n] \cup {"NOTIFIED"} /\ borrow' = borrow /\ prev' = prev /\ owed' = (owed \/ step'[n] = "idle")
      BY <1>0, <1>3, <2>1, GotoFacts DEF NotifyLocked, Cas, Owe
    <3> QED BY <1>0, <2>1, <3>1 DEF Bits, SignalInv, SignalTypeOK, LocksHeld, SawNoLock, OwnSteps, WakerExclusive, NotifyKept
  <2>2. CASE flags # prev[n]
    <3>1. /\ step[n] = "notify" /\ step'[n] = "load"
          /\ \A v \in Users \ {n} : step'[v] = step[v]
          /\ step' = [step EXCEPT ![n] = "load"]
          /\ flags' = flags /\ borrow' = borrow /\ prev' = prev /\ owed' = (owed \/ step'[n] = "idle")
      BY <1>0, <1>3, <2>2, GotoFacts DEF NotifyLocked, Cas, Owe
    <3> QED BY <1>0, <3>1 DEF SignalInv, SignalTypeOK, LocksHeld, SawNoLock, OwnSteps, WakerExclusive, NotifyKept
  <2> QED BY <2>1, <2>2
<1>4. ASSUME NEW n \in Notifiers, NotifyInner(n) PROVE SignalInv'
  BY <1>0, <1>4, GotoFacts, LoadFacts
  DEF NotifyInner, Locked, Owe, SignalInv, SignalTypeOK, LocksHeld, SawNoLock, OwnSteps, WakerExclusive, NotifyKept
<1>5. ASSUME NEW n \in Notifiers, NotifyOr(n) PROVE SignalInv'
  BY <1>0, <1>5, GotoFacts
  DEF NotifyOr, Owe, Bits, SignalInv, SignalTypeOK, LocksHeld, SawNoLock, OwnSteps, WakerExclusive, NotifyKept
<1>6. ASSUME NEW n \in Notifiers, NotifyLock(n) PROVE SignalInv'
  <2>1. CASE flags = prev[n]
    <3>1. /\ step[n] = "lock" /\ step'[n] = "wake"
          /\ \A v \in Users \ {n} : step'[v] = step[v]
          /\ step' = [step EXCEPT ![n] = "wake"]
          /\ flags' = prev[n] \cup {"IRQ_LOCK", "NOTIFIED"} /\ borrow' = borrow /\ prev' = prev /\ owed' = (owed \/ step'[n] = "idle")
      BY <1>0, <1>6, <2>1, GotoFacts DEF NotifyLock, Cas, Owe
    <3> QED BY <1>0, <2>1, <3>1 DEF Bits, SignalInv, SignalTypeOK, LocksHeld, SawNoLock, OwnSteps, WakerExclusive, NotifyKept
  <2>2. CASE flags # prev[n]
    <3>1. /\ step[n] = "lock" /\ step'[n] = "inner"
          /\ \A v \in Users \ {n} : step'[v] = step[v]
          /\ step' = [step EXCEPT ![n] = "inner"]
          /\ flags' = flags /\ borrow' = borrow /\ prev' = prev /\ owed' = (owed \/ step'[n] = "idle")
      BY <1>0, <1>6, <2>2, GotoFacts DEF NotifyLock, Cas, Owe
    <3> QED BY <1>0, <3>1 DEF SignalInv, SignalTypeOK, LocksHeld, SawNoLock, OwnSteps, WakerExclusive, NotifyKept
  <2> QED BY <2>1, <2>2
<1>7. ASSUME NEW n \in Notifiers, NotifyWake(n) PROVE SignalInv'
  BY <1>0, <1>7, GotoFacts
  DEF NotifyWake, Owe, SignalInv, SignalTypeOK, LocksHeld, SawNoLock, OwnSteps, WakerExclusive, NotifyKept
<1>8. ASSUME NEW n \in Notifiers, NotifyStore(n) PROVE SignalInv'
  BY <1>0, <1>8, GotoFacts
  DEF NotifyStore, Owe, Bits, SignalInv, SignalTypeOK, LocksHeld, SawNoLock, OwnSteps, WakerExclusive, NotifyKept
<1>9. ASSUME TryListen \/ CallPoll \/ DropListen PROVE SignalInv'
  <2>1. PICK there \in {"idle", "load", "none"} :
          /\ step'[Listener] = there /\ step' = [step EXCEPT ![Listener] = there]
          /\ \A v \in Users \ {Listener} : step'[v] = step[v]
    BY <1>0, <1>9, GotoFacts DEF TryListen, CallPoll, DropListen
  <2>2. flags' = flags /\ borrow' \in BOOLEAN /\ prev' = prev /\ owed' = owed
    BY <1>0, <1>9 DEF TryListen, CallPoll, DropListen
  <2> QED BY <1>0, <2>1, <2>2 DEF SignalInv, SignalTypeOK, LocksHeld, SawNoLock, OwnSteps, WakerExclusive, NotifyKept
<1>10. ASSUME PollLoad PROVE SignalInv'
  BY <1>0, <1>10, GotoFacts, LoadFacts
  DEF PollLoad, SignalInv, SignalTypeOK, LocksHeld, SawNoLock, OwnSteps, WakerExclusive, NotifyKept
<1>11. ASSUME PollLock PROVE SignalInv'
  <2>1. CASE flags = prev[Listener]
    <3>1. /\ step[Listener] = "lock" /\ step'[Listener] = "take"
          /\ \A v \in Users \ {Listener} : step'[v] = step[v]
          /\ step' = [step EXCEPT ![Listener] = "take"]
          /\ flags' = {"NOTIFIED", "EXT_LOCK"} /\ borrow' = borrow /\ prev' = prev /\ owed' = owed
      BY <1>0, <1>11, <2>1, GotoFacts DEF PollLock, Cas
    <3> QED BY <1>0, <2>1, <3>1 DEF Bits, SignalInv, SignalTypeOK, LocksHeld, SawNoLock, OwnSteps, WakerExclusive, NotifyKept
  <2>2. CASE flags # prev[Listener]
    <3>1. /\ step[Listener] = "lock" /\ step'[Listener] = "load"
          /\ \A v \in Users \ {Listener} : step'[v] = step[v]
          /\ step' = [step EXCEPT ![Listener] = "load"]
          /\ flags' = flags /\ borrow' = borrow /\ prev' = prev /\ owed' = owed
      BY <1>0, <1>11, <2>2, GotoFacts DEF PollLock, Cas
    <3> QED BY <1>0, <3>1 DEF SignalInv, SignalTypeOK, LocksHeld, SawNoLock, OwnSteps, WakerExclusive, NotifyKept
  <2> QED BY <2>1, <2>2
<1>12. ASSUME PollTake PROVE SignalInv'
  BY <1>0, <1>12, GotoFacts
  DEF PollTake, SignalInv, SignalTypeOK, LocksHeld, SawNoLock, OwnSteps, WakerExclusive, NotifyKept
<1>13. ASSUME PollClear PROVE SignalInv'
  <2>1. /\ step[Listener] = "clear" /\ step'[Listener] = "idle"
        /\ step' = [step EXCEPT ![Listener] = "idle"]
        /\ \A v \in Users \ {Listener} : step'[v] = step[v]
        /\ flags' = {} /\ borrow' = borrow /\ prev' = prev /\ owed' = FALSE
    BY <1>0, <1>13, GotoFacts DEF PollClear
  <2>2. \A n \in Notifiers : step[n] \notin AtWaker
    BY <2>1 DEF SignalInv, WakerExclusive
  <2> QED BY <1>0, <2>1, <2>2 DEF SignalInv, SignalTypeOK, LocksHeld, SawNoLock, OwnSteps, WakerExclusive, NotifyKept
<1>14. ASSUME PollOr PROVE SignalInv'
  BY <1>0, <1>14, GotoFacts
  DEF PollOr, Bits, SignalInv, SignalTypeOK, LocksHeld, SawNoLock, OwnSteps, WakerExclusive, NotifyKept
<1>15. CASE UNCHANGED signal
  BY <1>15 DEF signal, SignalInv, SignalTypeOK, LocksHeld, SawNoLock, OwnSteps, WakerExclusive, NotifyKept
<1> QED BY <1>1, <1>2, <1>3, <1>4, <1>5, <1>6, <1>7, <1>8, <1>9, <1>10, <1>11, <1>12, <1>13, <1>14, <1>15
        DEF SignalNext, Notify, Poll

(* The waker is accessed by one notify or by the poll, for any number of   *)
(* interrupt handlers.                                                     *)
THEOREM SignalWakerExclusive == SignalSpec => []WakerExclusive
<1>1. SignalInv => WakerExclusive
  BY DEF SignalInv
<1> QED BY <1>1, SignalInvInit, SignalInvNext, PTL DEF SignalSpec

(* The signal of a notify that returned stays until a poll returns Ready.  *)
THEOREM SignalNotifyKept == SignalSpec => []NotifyKept
<1>1. SignalInv => NotifyKept
  BY DEF SignalInv
<1> QED BY <1>1, SignalInvInit, SignalInvNext, PTL DEF SignalSpec
----------------------------------------------------------------------------
(* The composition that is model checked is, for each part, a behaviour of *)
(* that part with its fairness, or one in which the part stands still: what *)
(* is proved about the parts holds of the composition.                     *)
THEOREM DormantParts == Spec => MarkerSpec /\ SignalSpec /\ QueueSpec
<1>1. Init => MarkerInit /\ SignalInit /\ QueueInit
  BY DEF Init
<1>2. [Next]_vars => [MarkerNext]_marker /\ [SignalNext]_signal /\ [QueueNext]_scheduler
  BY DEF Next, vars
<1> QED BY <1>1, <1>2, PTL DEF Spec, MarkerSpec, SignalSpec, QueueSpec

(* Every mark, call, flag, queue and counter of the three parts stays in   *)
(* its range, whoever is interrupted where.                                *)
THEOREM DormantTyping == Spec => []TypeOK
<1>1. MarkerSpec => []MarkerTypeOK
  <2>1. MarkerInv => MarkerTypeOK
    BY DEF MarkerInv
  <2> QED BY <2>1, MarkerInvInit, MarkerInvNext, PTL DEF MarkerSpec
<1>2. SignalSpec => []SignalTypeOK
  <2>1. SignalInv => SignalTypeOK
    BY DEF SignalInv
  <2> QED BY <2>1, SignalInvInit, SignalInvNext, PTL DEF SignalSpec
<1>3. MarkerTypeOK /\ SignalTypeOK /\ QueueTypeOK => TypeOK
  BY DEF TypeOK
<1> QED BY <1>1, <1>2, <1>3, DormantParts, SchedulerTyping, PTL
============================================================================
