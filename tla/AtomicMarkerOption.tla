------------------------- MODULE AtomicMarkerOption -------------------------
(***************************************************************************)
(* st::AtomicMarkerOption: an optional value that put and clear replace    *)
(* and that take empties without waiting.  A take that meets a put only    *)
(* marks the cell; the put has to notice.  One step per access of `mark`   *)
(* or of the value.                                                        *)
(***************************************************************************)
EXTENDS Integers

CONSTANTS Procs, None

VARIABLES mark,        \* the set of bits PUTTING, MARKING
          value,       \* what the cell holds: the process whose value it is, or None
          call         \* call[p]: the call that p is in

marker == <<mark, value, call>>

Writing == {"write", "release"}
TakingBack == {"retake", "unmark"}
Taking == {"taking", "unlock"}
Inside == Writing \cup TakingBack \cup Taking \cup {"panicked"}

\* at: the next step; want: what try_put stores; again: in the loop of put or
\* clear; hand: what was taken out; met (history): a take met the put.
Calls == [at : Inside \cup {"idle", "cas", "mark"}, want : Procs \cup {None},
          again : BOOLEAN, hand : Procs \cup {None}, met : BOOLEAN]
Idle == [at |-> "idle", want |-> None, again |-> FALSE, hand |-> None, met |-> FALSE]

MarkerTypeOK == /\ mark \subseteq {"PUTTING", "MARKING"}
                /\ value \in Procs \cup {None}
                /\ call \in [Procs -> Calls]

MarkerInit == /\ mark = {}
              /\ value = None
              /\ call = [p \in Procs |-> Idle]

At(p, where) == call[p].at = where
Step(p, to) == call' = [call EXCEPT ![p] = IF to = "idle" THEN Idle ELSE [@ EXCEPT !.at = to]]

\* put, clear (v = None) and try_put.
CallPut(p, v, loop) ==
  /\ At(p, "idle")
  /\ call' = [call EXCEPT ![p] = [Idle EXCEPT !.at = "cas", !.want = v, !.again = loop]]
  /\ UNCHANGED <<mark, value>>

CallTake(p) == At(p, "idle") /\ Step(p, "mark") /\ UNCHANGED <<mark, value>>

\* The compare_exchange from IDLE to PUTTING.
Lock(p) == /\ At(p, "cas") /\ mark = {}
           /\ mark' = {"PUTTING"} /\ Step(p, "write") /\ UNCHANGED value

Retry(p) == IF call[p].again
            THEN call' = [call EXCEPT ![p] = [@ EXCEPT !.at = "cas", !.hand = None, !.met = FALSE]]
            ELSE Step(p, "idle")

\* TakenBeforePut, ConcurrentPut.
LockFails(p) == /\ At(p, "cas") /\ mark # {}
                /\ Retry(p) /\ UNCHANGED <<mark, value>>

Write(p) == /\ At(p, "write")
            /\ value' = call[p].want /\ Step(p, "release") /\ UNCHANGED mark

\* The clone of the new value panics, or the drop of the old one once the new
\* one has taken its place.  No guard clears PUTTING: the cell stays locked.
WritePanics(p) == /\ At(p, "write")
                  /\ \/ call[p].want # None /\ value' = value
                     \/ value # None /\ value' = call[p].want
                  /\ Step(p, "panicked") /\ UNCHANGED mark

\* Mutant: the lock is released by a plain store.
ReleaseBlindly(p) == /\ At(p, "release")
                     /\ mark' = {} /\ Step(p, "idle") /\ UNCHANGED value

\* The compare_exchange from PUTTING to IDLE: Success.
Release(p) == /\ At(p, "release") /\ mark = {"PUTTING"}
              /\ mark' = {} /\ Step(p, "idle") /\ UNCHANGED value

ReleaseFails(p) == /\ At(p, "release") /\ mark # {"PUTTING"}
                   /\ Step(p, "retake") /\ UNCHANGED <<mark, value>>

TakeOut(p, to) == /\ call' = [call EXCEPT ![p] = [@ EXCEPT !.at = to, !.hand = value]]
                  /\ value' = None /\ UNCHANGED mark

Retake(p) == At(p, "retake") /\ TakeOut(p, "unmark")

\* Mutant: the mark of the take stays.
UnmarkPutting(p) == /\ At(p, "unmark")
                    /\ mark' = mark \ {"PUTTING"} /\ Retry(p) /\ UNCHANGED value

\* The swap to IDLE: TakenDuringPut.
Unmark(p) == /\ At(p, "unmark")
             /\ mark' = {} /\ Retry(p) /\ UNCHANGED value

\* Mutant: a take goes on when only a put holds the cell.
MarkLockOverPut(p) == /\ At(p, "mark") /\ "MARKING" \notin mark
                      /\ mark' = mark \cup {"MARKING"} /\ Step(p, "taking") /\ UNCHANGED value

\* fetch_or of MARKING, which finds IDLE.
MarkLock(p) == /\ At(p, "mark") /\ mark = {}
               /\ mark' = {"MARKING"} /\ Step(p, "taking") /\ UNCHANGED value

\* It finds another call: ConcurrentPut, ConcurrentTake.
MarkOnly(p) == /\ At(p, "mark") /\ mark # {}
               /\ mark' = mark \cup {"MARKING"}
               /\ call' = [q \in Procs |-> IF q = p THEN Idle
                             ELSE IF call[q].at \in Writing THEN [call[q] EXCEPT !.met = TRUE]
                             ELSE call[q]]
               /\ UNCHANGED value

Take(p) == At(p, "taking") /\ TakeOut(p, "unlock")

\* fetch_and with the complement of MARKING.
Unlock(p) == /\ At(p, "unlock")
             /\ mark' = mark \ {"MARKING"} /\ Step(p, "idle") /\ UNCHANGED value

Begin(p) == (\E v \in {p, None}, loop \in BOOLEAN : CallPut(p, v, loop)) \/ CallTake(p)

Go(p) == \/ Lock(p) \/ LockFails(p) \/ Write(p) \/ WritePanics(p)
         \/ Release(p) \/ ReleaseFails(p)
         \/ Retake(p) \/ Unmark(p) \/ MarkLock(p) \/ MarkOnly(p) \/ Take(p) \/ Unlock(p)

MarkerNext == \E p \in Procs : Begin(p) \/ Go(p)

\* A call that began takes its steps.
MarkerFairness == \A p \in Procs : WF_marker(Go(p))
MarkerSpec == MarkerInit /\ [][MarkerNext]_marker /\ MarkerFairness
----------------------------------------------------------------------------
\* Only one process is between its lock and its release, and none after a put
\* that panicked there.
MarkerExclusive == \A p, q \in Procs : (call[p].at \in Inside /\ call[q].at \in Inside) => p = q

\* A put that a take met while it held the cell does not succeed: its value
\* does not stay in the cell behind the back of the take.
TakeNoticed == [][\A p \in Procs :
                    (At(p, "release") /\ call'[p].at = "idle") => ~ call[p].met]_marker

\* What a put that was met takes back is its own value, whatever other calls
\* did meanwhile.
PutKeepsValue == \A p \in Procs : At(p, "unmark") => call[p].hand = call[p].want

\* While calls are pending, calls complete: no combination of puts and takes
\* leaves the cell locked or marked, as long as no clone or drop of a value
\* panics (put and clear then loop for ever).
CallsComplete == \/ []<><<\E p \in Procs : ~ At(p, "idle") /\ call'[p].at = "idle">>_marker
                 \/ <>[](\A p \in Procs : At(p, "idle"))
                 \/ <>(\E p \in Procs : At(p, "panicked"))
============================================================================
