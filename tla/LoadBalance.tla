---------------------------- MODULE LoadBalance ----------------------------
(***************************************************************************)
(* utils::LoadBalance: wrappers of futures that share a TimingGroup and a  *)
(* clock.  A poll asks can_execute, polls the future, and accounts for the *)
(* time; meanwhile the future may use other wrappers of the group, and     *)
(* poll those that it owns.                                                *)
(***************************************************************************)
EXTENDS TimingGroup, Sequences

CONSTANT Wrappers

VARIABLES index,       \* index[w]: the key of wrapper w, for the wrappers that exist
          polling,     \* the wrappers whose future is being polled, the innermost last
          task,        \* task[w]: "woken", "waiting" for an event, or "finished"
          clock,       \* "unused", "shared", "returned" by remove, or "dropped"
          used         \* history: the time the polls of a wrapper took

vars == <<timing, index, polling, task, clock, used>>

Live == DOMAIN index
Polled == {polling[i] : i \in DOMAIN polling}

TypeOK == /\ TimingTypeOK
          /\ Live \subseteq Wrappers
          /\ \A w \in Live : index[w] \in Keys
          /\ polling \in Seq(Live)
          /\ task \in [Live -> {"woken", "waiting", "finished"}]
          /\ clock \in {"unused", "shared", "returned", "dropped"}
          /\ used \in [Wrappers -> Nat]

Init == /\ TimingInit
        /\ index = Empty /\ task = Empty
        /\ polling = <<>>
        /\ clock = "unused"
        /\ used = [w \in Wrappers |-> 0]

Extend(f, w, value) == [v \in DOMAIN f \cup {w} |-> IF v = w THEN value ELSE f[v]]
Without(f, w) == [v \in DOMAIN f \ {w} |-> f[v]]

\* A new wrapper, which its executor will poll.
Register(w, prop) ==
  \E k \in Keys : /\ InsertEntry(k, prop)
                  /\ index' = Extend(index, w, k)
                  /\ task' = Extend(task, w, "woken")
                  /\ used' = [used EXCEPT ![w] = 0]
                  /\ UNCHANGED polling

With(w, prop) == /\ clock = "unused" /\ clock' = "shared"
                 /\ Register(w, prop)

\* Called on a wrapper of the group that no poll borrows.
Insert(w, prop) == /\ Live \ Polled # {} /\ w \notin Live
                   /\ Register(w, prop)
                   /\ UNCHANGED clock

\* Mutant: the wrapper is forgotten, its entry stays.
UnregisterKeepsEntry(w, last) ==
  /\ w \in Live \ Polled
  /\ index' = Without(index, w) /\ task' = Without(task, w)
  /\ clock' = IF Live = {w} THEN last ELSE clock
  /\ UNCHANGED <<timing, polling, used>>

\* do_unregister, and the Rc that goes with its last owner.
Unregister(w, last) ==
  /\ w \in Live \ Polled
  /\ RemoveEntry(index[w])
  /\ index' = Without(index, w) /\ task' = Without(task, w)
  /\ clock' = IF Live = {w} THEN last ELSE clock
  /\ UNCHANGED <<polling, used>>

Drop(w) == Unregister(w, "dropped")

Remove(w) == Unregister(w, "returned")

\* An executor polls a wrapper that was woken.
MayPoll(w) == /\ w \in Live \ Polled
              /\ task[w] = "woken"
              /\ info[index[w]].sum + Longest <= setting.limit   \* bound

\* Mutant: a refused wrapper does not ask to be polled again.  The event that
\* its future waited for is past, so nobody else wakes it either.
PollRefusedSilently(w) == /\ MayPoll(w)
                          /\ ~ CanExecute(index[w])
                          /\ task' = [task EXCEPT ![w] = "asleep"]
                          /\ UNCHANGED <<timing, index, polling, clock, used>>

\* wake_by_ref: the executor polls it again.
PollRefused(w) == /\ MayPoll(w)
                  /\ ~ CanExecute(index[w])
                  /\ task' = [task EXCEPT ![w] = "woken"]
                  /\ UNCHANGED <<timing, index, polling, clock, used>>

PollBegin(w) == /\ MayPoll(w)
                /\ CanExecute(index[w])
                /\ polling' = Append(polling, w)
                /\ task' = [task EXCEPT ![w] = "waiting"]
                /\ UNCHANGED <<timing, index, clock, used>>

Innermost == polling[Len(polling)]

Return(finished) ==
  /\ polling # <<>>
  /\ polling' = SubSeq(polling, 1, Len(polling) - 1)
  /\ task' = IF finished THEN [task EXCEPT ![Innermost] = "finished"] ELSE task

\* Mutant: the time goes to the outermost wrapper that is polled.
PollEndOutermost(dur, finished) ==
  /\ Return(finished)
  /\ UpdateDuration(index[Head(polling)], dur)
  /\ used' = [used EXCEPT ![Innermost] = @ + dur]
  /\ UNCHANGED <<index, clock>>

PollEnd(dur, finished) ==
  /\ Return(finished)
  /\ UpdateDuration(index[Innermost], dur)
  /\ used' = [used EXCEPT ![Innermost] = @ + dur]
  /\ UNCHANGED <<index, clock>>

\* The future panics: nothing is accounted.
PollPanics == Return(TRUE) /\ UNCHANGED <<timing, index, clock, used>>

\* The event the future waits for, or the future itself when it yields.
Wake(w) == /\ w \in Live /\ task[w] = "waiting"
           /\ task' = [task EXCEPT ![w] = "woken"]
           /\ UNCHANGED <<timing, index, polling, clock, used>>

\* A group of this module's wrappers, or one that is used directly.
Next == \/ /\ ~ setting.direct
           /\ \/ \E w \in Wrappers : \/ \E prop \in Slots : With(w, prop) \/ Insert(w, prop)
                                     \/ Drop(w) \/ Remove(w)
                                     \/ PollRefused(w) \/ PollBegin(w) \/ Wake(w)
              \/ \E dur \in 0 .. Longest, finished \in BOOLEAN : PollEnd(dur, finished)
              \/ PollPanics
        \/ /\ setting.direct
           /\ TimingNext
           /\ UNCHANGED <<index, polling, task, clock, used>>

\* Executors poll what was woken and drop what finished, polls return, and the
\* events that tasks wait for occur.
Fairness ==
  /\ \A w \in Wrappers : /\ WF_vars(PollBegin(w))
                         /\ WF_vars(Wake(w))
                         /\ WF_vars(w \in Live /\ task[w] = "finished" /\ Drop(w))
  /\ WF_vars(\E dur \in 0 .. Longest, finished \in BOOLEAN : PollEnd(dur, finished))

Spec == Init /\ [][Next]_vars /\ Fairness
----------------------------------------------------------------------------
\* Every wrapper has an entry of its own and every entry a wrapper: an entry
\* that nobody executes would hold back all others, a missing one panics.  The
\* clock is the group's exactly as long as there is a wrapper.
EntriesAreWrappers == ~ setting.direct =>
  /\ DOMAIN info = {index[w] : w \in Live}
  /\ \A v, w \in Live : index[v] = index[w] => v = w
  /\ clock = "shared" <=> Live # {}

\* The time of an entry is what the polls of its wrapper took, whatever was
\* inserted, removed or polled during them and however keys are reused.
TimeIsOwn == \A w \in Live : info[index[w]].sum = used[w] % setting.modulus

\* The group's futures go on being polled: its wrappers do not end up all
\* refused, nor with nobody to poll them, unless wrappers come and go for ever.
Bounded == \E w \in Live : info[index[w]].sum + Longest > setting.limit
GroupProgress == \/ []<>(polling # <<>> \/ Live = {} \/ Bounded)
                 \/ []<><<index' # index>>_vars
============================================================================
