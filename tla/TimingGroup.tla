---------------------------- MODULE TimingGroup ----------------------------
(***************************************************************************)
(* utils::TimingGroup: entries with a number of time slots each, and the   *)
(* time each one used.  can_execute says whether an entry may go on, so    *)
(* that the time per slot stays about equal; update_duration accounts for  *)
(* the time it then took.  The counters are unsigned integers of a build   *)
(* without overflow checks.                                                *)
(***************************************************************************)
EXTENDS Integers

CONSTANTS Keys,        \* keys of the slab
          Slots,       \* slot counts passed to insert
          Longest,     \* the longest measured duration
          Settings     \* uses of a group that are considered

\* fixed: entries are never removed, nor added once time passed; modulus: 2^w
\* for counters of w bits; limit: a bound on the time of an entry; direct: the
\* group is not used through LoadBalance.
ASSUME TimingAssumption ==
  /\ Slots \subseteq Nat \ {0}
  /\ Longest \in Nat
  /\ Settings \subseteq [direct : BOOLEAN, fixed : BOOLEAN, modulus : Nat \ {0}, limit : Nat]

VARIABLES info,        \* info[k]: the TimeEntry with key k, for the keys in use
          max,         \* TimingGroup::max
          setting

timing == <<info, max, setting>>

TimingTypeOK == /\ setting \in Settings
                /\ DOMAIN info \subseteq Keys
                /\ info \in [DOMAIN info -> [sum : 0 .. setting.modulus - 1, proportion : Slots]]
                /\ max \in 0 .. setting.modulus - 1

Empty == [k \in {} |-> 0]

TimingInit == /\ info = Empty
              /\ max = 0
              /\ setting \in Settings

\* The operators of TimerCount.
DivBy(count, by) == count \div by
MulBy(count, by) == (count * by) % setting.modulus
Plus(count, other) == (count + other) % setting.modulus

TimeEntry(sum, proportion) == [sum |-> sum, proportion |-> proportion]
Proportional(entry) == DivBy(entry.sum, entry.proportion)
Time(k) == Proportional(info[k])

\* A slot count of zero is refused by a panic.
InsertEntry(k, slot_count) ==
  /\ k \in Keys \ DOMAIN info
  /\ setting.fixed => max = 0
  /\ info' = [j \in DOMAIN info \cup {k} |->
                IF j = k THEN TimeEntry(0, slot_count) ELSE info[j]]
  /\ UNCHANGED <<max, setting>>

RemoveEntry(k) == /\ k \in DOMAIN info /\ ~ setting.fixed
                  /\ info' = [j \in DOMAIN info \ {k} |-> info[j]]
                  /\ UNCHANGED <<max, setting>>

Clear == /\ ~ setting.fixed
         /\ info' = Empty
         /\ max' = 0
         /\ UNCHANGED setting

\* max * 0.9.
MinBound == DivBy(MulBy(max, 9), 10)

\* Mutant: an entry that used the most time never goes on.
CanExecuteNotMax(k) == /\ Time(k) # max
                       /\ (\E j \in DOMAIN info : Time(j) <= MinBound) => Time(k) <= MinBound

\* Mutant: starved entries are not preferred.
CanExecuteStarved(k) == ~ (Time(k) = max /\ \E j \in DOMAIN info : Time(j) # Time(k))

\* Mutant: the sums are compared, whatever the slots.
CanExecuteSum(k) ==
  /\ ~ (info[k].sum >= max /\ \E j \in DOMAIN info : info[j].sum < info[k].sum)
  /\ (\E j \in DOMAIN info : info[j].sum <= MinBound) => info[k].sum <= MinBound

\* The smallest time is within the bound iff some entry's time is.
CanExecute(k) ==
  /\ ~ (Time(k) = max /\ \E j \in DOMAIN info : Time(j) # Time(k))
  /\ (\E j \in DOMAIN info : Time(j) <= MinBound) => Time(k) <= MinBound

Larger(a, b) == IF a >= b THEN a ELSE b

\* The branch that subtracts the smallest time is disabled by `&& false`.
UpdateDuration(k, dur) ==
  LET entry == TimeEntry(Plus(info[k].sum, dur), info[k].proportion) IN
    /\ info' = [info EXCEPT ![k] = entry]
    /\ max' = Larger(max, Proportional(entry))
    /\ UNCHANGED setting

\* What the caller does: ask, execute, account.
Execute(k, dur) == /\ k \in DOMAIN info
                   /\ CanExecute(k)
                   /\ info[k].sum + dur <= setting.limit   \* bound
                   /\ UpdateDuration(k, dur)

TimingNext == \/ \E k \in Keys : \/ \E slot_count \in Slots : InsertEntry(k, slot_count)
                                 \/ RemoveEntry(k)
                                 \/ \E dur \in 0 .. Longest : Execute(k, dur)
              \/ Clear

TimingSpec == TimingInit /\ [][TimingNext]_timing
----------------------------------------------------------------------------
\* A group that is not empty never refuses all its entries, also after the
\* entry that set `max` was removed and when the counters wrap: otherwise every
\* balanced task would spin in can_execute for ever.
SomeoneMayExecute == DOMAIN info # {} => \E k \in DOMAIN info : CanExecute(k)

\* An entry is refused only in favour of one that used less time per slot and
\* may go on now: no entry is put off for others that are ahead of it or wait
\* themselves, also when `max` is left from a removed entry or a sum wrapped.
RefusedForLess == \A k \in DOMAIN info : ~ CanExecute(k) =>
                    \E j \in DOMAIN info : CanExecute(j) /\ Time(j) < Time(k)

\* The counters do not wrap, nor does their product with 9.
Wide == setting.modulus > 9 * (setting.limit + 1)

\* "More-less equal amount of time per slot": once an entry used more than ten
\* times the longest duration, no entry is more than a tenth and one such
\* duration behind it, however often each of them asks to be executed.
BoundedLead == (setting.fixed /\ Wide) =>
                 \/ max <= 10 * Longest
                 \/ \A k \in DOMAIN info : Time(k) > ((max - Longest) * 9) \div 10
============================================================================
