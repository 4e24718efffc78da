------------------------- MODULE LoadBalanceProofs -------------------------
(***************************************************************************)
(* Proofs about LoadBalance and the TimingGroup it uses, for any keys,     *)
(* slot counts, durations, wrappers and widths of the counters.            *)
(***************************************************************************)
EXTENDS LoadBalance, TLAPS

(* Integer division by a slot count makes a time no larger.                *)
LEMMA DivFacts == ASSUME NEW a \in Nat, NEW b \in Nat \ {0}
                  PROVE  a \div b \in 0 .. a
<1> DEFINE q == a \div b
           r == a % b
<1>1. a = b * q + r /\ q \in Int /\ r \in 0 .. (b - 1)
  OBVIOUS
<1>2. q >= 0
  <2> SUFFICES ASSUME q <= -1 PROVE FALSE
    BY <1>1
  <2>1. b * q <= b * (-1)
    BY <1>1
  <2> QED BY <1>1, <2>1
<1>3. q <= a
  <2> SUFFICES ASSUME q >= a + 1 PROVE FALSE
    BY <1>1
  <2>1. b * q >= 1 * q
    BY <1>1, <1>2
  <2> QED BY <1>1, <2>1
<1> QED BY <1>1, <1>2, <1>3

(* Quotient and remainder are unique.                                      *)
LEMMA ModUnique == ASSUME NEW x \in Int, NEW b \in Nat \ {0}, NEW p \in Int,
                          NEW s \in 0 .. (b - 1), x = b * p + s
                   PROVE  x % b = s
<1> DEFINE q == x \div b
           r == x % b
<1>1. x = b * q + r /\ q \in Int /\ r \in 0 .. (b - 1)
  OBVIOUS
<1>2. ~ (q >= p + 1)
  <2> SUFFICES ASSUME q >= p + 1 PROVE FALSE
    OBVIOUS
  <2>1. b * q >= b * (p + 1)
    BY <1>1
  <2>2. b * (p + 1) = b * p + b
    OBVIOUS
  <2> QED BY <1>1, <2>1, <2>2
<1>3. ~ (p >= q + 1)
  <2> SUFFICES ASSUME p >= q + 1 PROVE FALSE
    OBVIOUS
  <2>1. b * p >= b * (q + 1)
    BY <1>1
  <2>2. b * (q + 1) = b * q + b
    BY <1>1
  <2> QED BY <1>1, <2>1, <2>2
<1> QED BY <1>1, <1>2, <1>3

(* Additions to a counter that wraps lose nothing modulo its range.        *)
LEMMA ModPlus == ASSUME NEW a \in Nat, NEW c \in Nat, NEW b \in Nat \ {0}
                 PROVE  ((a % b) + c) % b = (a + c) % b
<1> DEFINE q == a \div b
           r == a % b
           p == (r + c) \div b
           s == (r + c) % b
<1>1. a = b * q + r /\ q \in Int /\ r \in 0 .. (b - 1)
  OBVIOUS
<1>2. r + c = b * p + s /\ p \in Int /\ s \in 0 .. (b - 1)
  BY <1>1
<1>3. b * (q + p) = b * q + b * p
  BY <1>1, <1>2
<1>4. a + c = b * (q + p) + s
  BY <1>1, <1>2, <1>3
<1>5. (a + c) % b = s
  <2> HIDE DEF q, p, s, r
  <2>1. a + c \in Int /\ q + p \in Int
    BY <1>1, <1>2
  <2> QED BY <1>2, <1>4, <2>1, ModUnique
<1> QED BY <1>5
----------------------------------------------------------------------------
\* `max` is an upper bound of the times, not their maximum: entries are removed.
TimeAtMostMax == \A k \in DOMAIN info : Time(k) <= max

GroupInv == TimingTypeOK /\ TimeAtMostMax

LEMMA GroupTypes ==
  ASSUME TimingTypeOK
  PROVE  /\ setting.modulus \in Nat \ {0}
         /\ max \in Nat
         /\ \A k \in DOMAIN info : /\ info[k].sum \in Nat
                                   /\ info[k].proportion \in Nat \ {0}
                                   /\ Time(k) \in Nat
<1>1. setting.modulus \in Nat \ {0}
  BY TimingAssumption DEF TimingTypeOK
<1>2. ASSUME NEW k \in DOMAIN info
      PROVE  info[k].sum \in Nat /\ info[k].proportion \in Nat \ {0}
  <2>1. info[k] \in [sum : 0 .. setting.modulus - 1, proportion : Slots]
    BY <1>2 DEF TimingTypeOK
  <2>2. info[k].sum \in 0 .. setting.modulus - 1 /\ info[k].proportion \in Slots
    BY <2>1
  <2>3. info[k].sum \in Nat
    BY <1>1, <2>2
  <2> QED BY <2>2, <2>3, TimingAssumption
<1>3. ASSUME NEW k \in DOMAIN info PROVE Time(k) \in Nat
  BY <1>2, <1>3, DivFacts DEF Time, Proportional, DivBy
<1>4. max \in Nat
  BY <1>1 DEF TimingTypeOK
<1> QED BY <1>1, <1>2, <1>3, <1>4

LEMMA GroupInsert ==
  ASSUME GroupInv, NEW k, NEW slot_count \in Slots, InsertEntry(k, slot_count)
  PROVE  /\ GroupInv' /\ k \in Keys \ DOMAIN info
         /\ DOMAIN info' = DOMAIN info \cup {k}
         /\ info'[k].sum = 0
         /\ \A j \in DOMAIN info : info'[j] = info[j]
<1>0. /\ k \in Keys \ DOMAIN info
      /\ info' = [j \in DOMAIN info \cup {k} |->
                    IF j = k THEN TimeEntry(0, slot_count) ELSE info[j]]
      /\ max' = max /\ setting' = setting
  BY DEF InsertEntry
<1>1. /\ DOMAIN info' = DOMAIN info \cup {k}
      /\ info'[k] = [sum |-> 0, proportion |-> slot_count]
      /\ \A j \in DOMAIN info : info'[j] = info[j]
  BY <1>0 DEF TimeEntry
<1>2. setting.modulus \in Nat \ {0} /\ max \in Nat
  BY GroupTypes DEF GroupInv
<1>3. TimingTypeOK'
  <2>1. [sum |-> 0, proportion |-> slot_count] \in [sum : 0 .. setting.modulus - 1, proportion : Slots]
    BY <1>2
  <2>2. \A j \in DOMAIN info' : info'[j] \in [sum : 0 .. setting.modulus - 1, proportion : Slots]
    BY <1>1, <2>1 DEF GroupInv, TimingTypeOK
  <2>3. info' \in [DOMAIN info' -> [sum : 0 .. setting.modulus - 1, proportion : Slots]]
    BY <1>0, <1>1, <2>2
  <2> QED BY <1>0, <1>1, <2>3 DEF GroupInv, TimingTypeOK
<1>4. TimeAtMostMax'
  <2> SUFFICES ASSUME NEW j \in DOMAIN info' PROVE Time(j)' <= max'
    BY DEF TimeAtMostMax
  <2>1. CASE j = k
    <3>1. slot_count \in Nat \ {0}
      BY TimingAssumption
    <3>2. 0 \div slot_count \in 0 .. 0
      BY <3>1, DivFacts
    <3> QED BY <1>0, <1>1, <1>2, <2>1, <3>2 DEF Time, Proportional, DivBy
  <2>2. CASE j # k
    BY <1>0, <1>1, <2>2 DEF GroupInv, TimeAtMostMax, Time, Proportional, DivBy
  <2> QED BY <2>1, <2>2
<1> QED BY <1>0, <1>1, <1>3, <1>4 DEF GroupInv

LEMMA GroupRemove ==
  ASSUME GroupInv, NEW k, RemoveEntry(k)
  PROVE  /\ GroupInv'
         /\ DOMAIN info' = DOMAIN info \ {k}
         /\ \A j \in DOMAIN info' : info'[j] = info[j]
<1>1. /\ info' = [j \in DOMAIN info \ {k} |-> info[j]]
      /\ max' = max /\ setting' = setting
      /\ DOMAIN info' = DOMAIN info \ {k}
      /\ \A j \in DOMAIN info' : info'[j] = info[j]
  BY DEF RemoveEntry
<1>2. TimingTypeOK'
  BY <1>1 DEF GroupInv, TimingTypeOK
<1>3. TimeAtMostMax'
  BY <1>1 DEF GroupInv, TimeAtMostMax, Time, Proportional, DivBy
<1> QED BY <1>1, <1>2, <1>3 DEF GroupInv

LEMMA GroupClear == ASSUME GroupInv, Clear PROVE GroupInv'
<1>1. /\ info' = [k \in {} |-> 0] /\ max' = 0 /\ setting' = setting /\ DOMAIN info' = {}
  BY DEF Clear, Empty
<1>2. TimingTypeOK'
  BY <1>1, GroupTypes DEF GroupInv, TimingTypeOK
<1> QED BY <1>1, <1>2 DEF GroupInv, TimeAtMostMax

LEMMA GroupUpdate ==
  ASSUME GroupInv, NEW k \in DOMAIN info, NEW dur \in Nat, UpdateDuration(k, dur)
  PROVE  /\ GroupInv'
         /\ DOMAIN info' = DOMAIN info
         /\ info'[k].sum = (info[k].sum + dur) % setting.modulus
         /\ \A j \in DOMAIN info \ {k} : info'[j] = info[j]
<1> DEFINE sum == (info[k].sum + dur) % setting.modulus
           entry == [sum |-> sum, proportion |-> info[k].proportion]
<1>1. /\ info' = [info EXCEPT ![k] = entry]
      /\ max' = Larger(max, sum \div info[k].proportion) /\ setting' = setting
  BY DEF UpdateDuration, TimeEntry, Plus, Proportional, DivBy
<1>2. /\ DOMAIN info' = DOMAIN info /\ info'[k] = entry
      /\ \A j \in DOMAIN info \ {k} : info'[j] = info[j]
  BY <1>1 DEF GroupInv, TimingTypeOK
<1>3. /\ setting.modulus \in Nat \ {0} /\ max \in Nat
      /\ info[k].sum \in Nat /\ info[k].proportion \in Nat \ {0}
  BY GroupTypes DEF GroupInv
<1>4. sum \in 0 .. setting.modulus - 1
  BY <1>3
<1>5. sum \div info[k].proportion \in 0 .. sum
  <2>1. sum \in Nat
    BY <1>3, <1>4
  <2> HIDE DEF sum
  <2> QED BY <1>3, <2>1, DivFacts
<1>6. TimingTypeOK'
  <2>1. entry \in [sum : 0 .. setting.modulus - 1, proportion : Slots]
    BY <1>4 DEF GroupInv, TimingTypeOK
  <2>2. max' \in 0 .. setting.modulus - 1
    BY <1>1, <1>3, <1>4, <1>5 DEF Larger, GroupInv, TimingTypeOK
  <2>3. info' \in [DOMAIN info' -> [sum : 0 .. setting.modulus - 1, proportion : Slots]]
    BY <1>1, <1>2, <2>1 DEF GroupInv, TimingTypeOK
  <2> QED BY <1>1, <1>2, <2>2, <2>3 DEF GroupInv, TimingTypeOK
<1>7. TimeAtMostMax'
  <2> SUFFICES ASSUME NEW j \in DOMAIN info' PROVE Time(j)' <= max'
    BY DEF TimeAtMostMax
  <2>1. CASE j = k
    BY <1>1, <1>2, <1>3, <1>5, <2>1 DEF Time, Proportional, DivBy, Larger
  <2>2. CASE j # k
    <3>1. Time(j)' = Time(j) /\ Time(j) \in Nat /\ Time(j) <= max
      BY <1>2, <2>2, GroupTypes DEF GroupInv, TimeAtMostMax, Time, Proportional, DivBy
    <3> QED BY <1>1, <1>3, <1>4, <1>5, <3>1 DEF Larger
  <2> QED BY <2>1, <2>2
<1> QED BY <1>2, <1>6, <1>7 DEF GroupInv
----------------------------------------------------------------------------
\* A group that is used directly has no wrappers.
DirectAlone == setting.direct => Live = {}

IInv == TypeOK /\ TimeAtMostMax /\ EntriesAreWrappers /\ TimeIsOwn /\ DirectAlone

(* The entry of a wrapper, and that it is nobody else's.                    *)
LEMMA OwnEntry ==
  ASSUME IInv, NEW w \in Live
  PROVE  /\ ~ setting.direct
         /\ index[w] \in DOMAIN info
         /\ \A v \in Live : index[v] = index[w] => v = w
         /\ used[w] \in Nat
  BY DEF IInv, DirectAlone, EntriesAreWrappers, TypeOK

LEMMA InvRegister ==
  ASSUME IInv, ~ setting.direct, NEW w \in Wrappers \ Live, NEW prop \in Slots,
         Register(w, prop), clock' = "shared"
  PROVE  IInv'
<1>1. PICK k \in Keys : /\ InsertEntry(k, prop)
                        /\ index' = Extend(index, w, k)
                        /\ task' = Extend(task, w, "woken")
                        /\ used' = [used EXCEPT ![w] = 0]
                        /\ polling' = polling
  BY DEF Register
<1>2. /\ GroupInv' /\ k \in Keys \ DOMAIN info
      /\ DOMAIN info' = DOMAIN info \cup {k}
      /\ info'[k].sum = 0
      /\ \A j \in DOMAIN info : info'[j] = info[j]
      /\ setting' = setting
  BY <1>1, GroupInsert DEF IInv, TypeOK, GroupInv, InsertEntry
<1>3. /\ DOMAIN index' = Live \cup {w} /\ index'[w] = k
      /\ \A v \in Live : index'[v] = index[v]
  BY <1>1 DEF Extend, Live
<1>4. /\ task' \in [Live' -> {"woken", "waiting", "finished"}]
  BY <1>1, <1>3 DEF Extend, IInv, TypeOK, Live
<1>5. /\ used' \in [Wrappers -> Nat] /\ used'[w] = 0
      /\ \A v \in Live : used'[v] = used[v]
  BY <1>1 DEF IInv, TypeOK
<1>6. TypeOK'
  <2>1. polling' \in Seq(Live')
    BY <1>1, <1>3 DEF IInv, TypeOK, Live
  <2> QED BY <1>2, <1>3, <1>4, <1>5, <2>1 DEF IInv, TypeOK, GroupInv, Live
<1>7. EntriesAreWrappers'
  <2>1. \A v \in Live : index[v] \in DOMAIN info
    BY OwnEntry
  <2> QED BY <1>2, <1>3, <2>1 DEF IInv, EntriesAreWrappers, Live
<1>8. TimeIsOwn'
  <2> SUFFICES ASSUME NEW v \in Live' PROVE info'[index'[v]].sum = used'[v] % setting'.modulus
    BY DEF TimeIsOwn
  <2>1. CASE v = w
    <3>1. setting.modulus \in Nat \ {0}
      BY GroupTypes DEF IInv, TypeOK
    <3> QED BY <1>2, <1>3, <1>5, <2>1, <3>1
  <2>2. CASE v \in Live
    BY <1>2, <1>3, <1>5, <2>2, OwnEntry DEF IInv, TimeIsOwn
  <2> QED BY <1>3, <2>1, <2>2 DEF Live
<1> QED BY <1>2, <1>6, <1>7, <1>8 DEF IInv, GroupInv, DirectAlone

(* A sequence does not need an element that does not occur in it.           *)
LEMMA SeqWithout ==
  ASSUME NEW S, NEW s \in Seq(S), NEW w, \A i \in DOMAIN s : s[i] # w
  PROVE  s \in Seq(S \ {w})
<1>1. s \in [1 .. Len(s) -> S \ {w}] /\ Len(s) \in Nat
  OBVIOUS
<1> QED BY <1>1

LEMMA InvUnregister ==
  ASSUME IInv, NEW w \in Wrappers, NEW last \in {"dropped", "returned"}, Unregister(w, last)
  PROVE  IInv'
<1>1. /\ w \in Live /\ w \notin Polled
      /\ RemoveEntry(index[w])
      /\ index' = Without(index, w) /\ task' = Without(task, w)
      /\ clock' = IF Live = {w} THEN last ELSE clock
      /\ polling' = polling /\ used' = used
  BY DEF Unregister
<1>2. /\ GroupInv' /\ setting' = setting
      /\ DOMAIN info' = DOMAIN info \ {index[w]}
      /\ \A j \in DOMAIN info' : info'[j] = info[j]
  BY <1>1, GroupRemove DEF IInv, TypeOK, GroupInv, RemoveEntry
<1>3. /\ DOMAIN index' = Live \ {w}
      /\ \A v \in Live \ {w} : index'[v] = index[v]
  BY <1>1 DEF Without, Live
<1>4. task' \in [Live' -> {"woken", "waiting", "finished"}]
  BY <1>1, <1>3 DEF Without, IInv, TypeOK, Live
<1>5. TypeOK'
  <2>1. \A i \in DOMAIN polling : polling[i] # w
    BY <1>1 DEF Polled
  <2>2. polling' \in Seq(Live')
    BY <1>1, <1>3, <2>1, SeqWithout DEF IInv, TypeOK, Live
  <2> QED BY <1>1, <1>2, <1>3, <1>4, <2>2 DEF IInv, TypeOK, GroupInv, Live
<1>6. \A v \in Live : index[v] \in DOMAIN info /\ (index[v] = index[w] => v = w)
  BY <1>1, OwnEntry
<1>7. EntriesAreWrappers'
  BY <1>1, <1>2, <1>3, <1>6 DEF IInv, EntriesAreWrappers, Live
<1>8. TimeIsOwn'
  BY <1>1, <1>2, <1>3, <1>6 DEF IInv, TimeIsOwn, Live
<1>9. DirectAlone'
  BY <1>2, <1>3 DEF IInv, DirectAlone, Live
<1> QED BY <1>2, <1>5, <1>7, <1>8, <1>9 DEF IInv, GroupInv

(* Return leaves a sequence of wrappers and the states of their tasks.      *)
LEMMA ReturnTypes ==
  ASSUME IInv, NEW finished \in BOOLEAN, Return(finished)
  PROVE  /\ Innermost \in Live
         /\ polling' \in Seq(Live)
         /\ task' \in [Live -> {"woken", "waiting", "finished"}]
<1>1. polling \in Seq(Live) /\ polling # <<>> /\ Len(polling) \in Nat /\ Len(polling) # 0
  BY DEF IInv, TypeOK, Return
<1>2. Innermost \in Live
  BY <1>1 DEF Innermost
<1>3. polling' \in Seq(Live)
  BY <1>1 DEF Return
<1> QED BY <1>2, <1>3 DEF Return, IInv, TypeOK

LEMMA InvPollEnd ==
  ASSUME IInv, NEW dur \in Nat, NEW finished \in BOOLEAN, PollEnd(dur, finished)
  PROVE  IInv'
<1> DEFINE w == Innermost
<1>1. /\ w \in Live /\ polling' \in Seq(Live)
      /\ task' \in [Live -> {"woken", "waiting", "finished"}]
  BY ReturnTypes DEF PollEnd
<1> HIDE DEF w
<1>2. /\ UpdateDuration(index[w], dur)
      /\ used' = [used EXCEPT ![w] = @ + dur]
      /\ index' = index /\ clock' = clock /\ Live' = Live
  BY DEF PollEnd, w, Live
<1>3. /\ ~ setting.direct /\ index[w] \in DOMAIN info /\ used[w] \in Nat
      /\ \A v \in Live : index[v] = index[w] => v = w
  BY <1>1, OwnEntry
<1>4. /\ GroupInv' /\ setting' = setting
      /\ DOMAIN info' = DOMAIN info
      /\ info'[index[w]].sum = (info[index[w]].sum + dur) % setting.modulus
      /\ \A j \in DOMAIN info \ {index[w]} : info'[j] = info[j]
  BY <1>2, <1>3, GroupUpdate DEF IInv, TypeOK, GroupInv, UpdateDuration
<1>5. /\ used' \in [Wrappers -> Nat] /\ used'[w] = used[w] + dur
      /\ \A v \in Live \ {w} : used'[v] = used[v]
  BY <1>1, <1>2, <1>3 DEF IInv, TypeOK
<1>6. TypeOK'
  BY <1>1, <1>2, <1>4, <1>5 DEF IInv, TypeOK, GroupInv
<1>7. EntriesAreWrappers'
  BY <1>2, <1>4 DEF IInv, EntriesAreWrappers
<1>8. TimeIsOwn'
  <2> SUFFICES ASSUME NEW v \in Live PROVE info'[index[v]].sum = used'[v] % setting.modulus
    BY <1>2, <1>4 DEF TimeIsOwn
  <2>1. CASE v = w
    <3>1. info[index[w]].sum = used[w] % setting.modulus
      BY <1>1 DEF IInv, TimeIsOwn
    <3>2. setting.modulus \in Nat \ {0}
      BY GroupTypes DEF IInv, TypeOK
    <3>3. ((used[w] % setting.modulus) + dur) % setting.modulus = (used[w] + dur) % setting.modulus
      BY <1>3, <3>2, ModPlus
    <3> QED BY <1>4, <1>5, <2>1, <3>1, <3>3
  <2>2. CASE v # w
    BY <1>3, <1>4, <1>5, <2>2, OwnEntry DEF IInv, TimeIsOwn
  <2> QED BY <2>1, <2>2
<1>9. DirectAlone'
  BY <1>2, <1>4 DEF IInv, DirectAlone
<1> QED BY <1>4, <1>6, <1>7, <1>8, <1>9 DEF IInv, GroupInv

(* Steps that only change which wrappers are polled, and their tasks.       *)
LEMMA InvTasksOnly ==
  ASSUME IInv, UNCHANGED <<timing, index, clock, used>>,
         polling' \in Seq(Live), task' \in [Live -> {"woken", "waiting", "finished"}]
  PROVE  IInv'
<1>1. /\ info' = info /\ max' = max /\ setting' = setting /\ index' = index
      /\ clock' = clock /\ used' = used /\ Live' = Live
  BY DEF timing, Live
<1>2. TypeOK'
  BY <1>1 DEF IInv, TypeOK, TimingTypeOK
<1>3. TimeAtMostMax' /\ EntriesAreWrappers' /\ TimeIsOwn' /\ DirectAlone'
  BY <1>1 DEF IInv, TimeAtMostMax, Time, Proportional, DivBy, EntriesAreWrappers, TimeIsOwn, DirectAlone
<1> QED BY <1>2, <1>3 DEF IInv

(* Steps of a group that is used directly.                                  *)
LEMMA InvDirect ==
  ASSUME IInv, setting.direct, TimingNext, UNCHANGED <<index, polling, task, clock, used>>
  PROVE  IInv'
<1>1. setting' = setting
  BY DEF TimingNext, InsertEntry, RemoveEntry, Execute, UpdateDuration, Clear
<1>2. Live = {} /\ Live' = {}
  BY DEF IInv, DirectAlone, Live
<1>3. GroupInv'
  <2>0. GroupInv
    BY DEF IInv, TypeOK, GroupInv
  <2>1. ASSUME NEW k \in Keys, NEW s \in Slots, InsertEntry(k, s) PROVE GroupInv'
    BY <2>0, <2>1, GroupInsert
  <2>2. ASSUME NEW k \in Keys, RemoveEntry(k) PROVE GroupInv'
    BY <2>0, <2>2, GroupRemove
  <2>3. ASSUME NEW k \in Keys, NEW dur \in 0 .. Longest, Execute(k, dur) PROVE GroupInv'
    <3>1. dur \in Nat
      BY TimingAssumption
    <3> QED BY <2>0, <2>3, <3>1, GroupUpdate DEF Execute
  <2>4. ASSUME Clear PROVE GroupInv'
    BY <2>0, <2>4, GroupClear
  <2> QED BY <2>1, <2>2, <2>3, <2>4 DEF TimingNext
<1>4. TypeOK'
  BY <1>2, <1>3 DEF IInv, TypeOK, GroupInv, Live
<1> QED BY <1>1, <1>2, <1>3, <1>4 DEF IInv, GroupInv, EntriesAreWrappers, TimeIsOwn, DirectAlone

LEMMA InvInit == Init => IInv
<1> SUFFICES ASSUME Init PROVE IInv
  OBVIOUS
<1>1. /\ info = [k \in {} |-> 0] /\ index = [k \in {} |-> 0] /\ task = [k \in {} |-> 0]
      /\ DOMAIN info = {} /\ Live = {} /\ max = 0 /\ setting \in Settings
      /\ polling = <<>> /\ clock = "unused" /\ used = [w \in Wrappers |-> 0]
  BY DEF Init, TimingInit, Empty, Live
<1>2. TimingTypeOK
  BY <1>1, TimingAssumption DEF TimingTypeOK
<1>3. TypeOK
  BY <1>1, <1>2 DEF TypeOK
<1> QED BY <1>1, <1>3 DEF IInv, TimeAtMostMax, EntriesAreWrappers, TimeIsOwn, DirectAlone

LEMMA InvNext == IInv /\ [Next]_vars => IInv'
<1> SUFFICES ASSUME IInv, [Next]_vars PROVE IInv'
  OBVIOUS
<1>0. polling \in Seq(Live) /\ task \in [Live -> {"woken", "waiting", "finished"}]
  BY DEF IInv, TypeOK
<1>1. ASSUME ~ setting.direct, NEW w \in Wrappers, NEW prop \in Slots,
             With(w, prop) \/ Insert(w, prop)
      PROVE  IInv'
  <2>1. w \notin Live /\ Register(w, prop) /\ clock' = "shared"
    <3>1. CASE With(w, prop)
      BY <1>1, <3>1 DEF With, IInv, EntriesAreWrappers
    <3>2. CASE Insert(w, prop)
      BY <1>1, <3>2 DEF Insert, IInv, EntriesAreWrappers
    <3> QED BY <1>1, <3>1, <3>2
  <2> QED BY <1>1, <2>1, InvRegister
<1>2. ASSUME NEW w \in Wrappers, Drop(w) \/ Remove(w) PROVE IInv'
  BY <1>2, InvUnregister DEF Drop, Remove
<1>3. ASSUME NEW w \in Wrappers, PollRefused(w) \/ Wake(w) PROVE IInv'
  <2>1. /\ UNCHANGED <<timing, index, clock, used>>
        /\ polling' = polling /\ task' = [task EXCEPT ![w] = "woken"]
    BY <1>3 DEF PollRefused, Wake
  <2> QED BY <1>0, <2>1, InvTasksOnly
<1>4. ASSUME NEW w \in Wrappers, PollBegin(w) PROVE IInv'
  <2>1. /\ UNCHANGED <<timing, index, clock, used>> /\ w \in Live
        /\ polling' = Append(polling, w) /\ task' = [task EXCEPT ![w] = "waiting"]
    BY <1>4 DEF PollBegin, MayPoll
  <2> QED BY <1>0, <2>1, InvTasksOnly
<1>5. ASSUME NEW dur \in 0 .. Longest, NEW finished \in BOOLEAN, PollEnd(dur, finished) PROVE IInv'
  <2>1. dur \in Nat
    BY TimingAssumption
  <2> QED BY <1>5, <2>1, InvPollEnd
<1>6. ASSUME PollPanics PROVE IInv'
  BY <1>6, ReturnTypes, InvTasksOnly DEF PollPanics
<1>7. ASSUME setting.direct, TimingNext, UNCHANGED <<index, polling, task, clock, used>> PROVE IInv'
  BY <1>7, InvDirect
<1>8. CASE UNCHANGED vars
  BY <1>0, <1>8, InvTasksOnly DEF vars
<1> QED BY <1>1, <1>2, <1>3, <1>4, <1>5, <1>6, <1>7, <1>8 DEF Next

(* Entries and wrappers correspond one to one, and the clock is there       *)
(* exactly as long as a wrapper is.                                         *)
THEOREM BalanceEntries == Spec => []EntriesAreWrappers
<1>1. IInv => EntriesAreWrappers
  BY DEF IInv
<1> QED BY <1>1, InvInit, InvNext, PTL DEF Spec

(* Time is accounted to the wrapper whose poll took it, modulo the range of *)
(* the counters.                                                            *)
THEOREM BalanceTimeIsOwn == Spec => []TimeIsOwn
<1>1. IInv => TimeIsOwn
  BY DEF IInv
<1> QED BY <1>1, InvInit, InvNext, PTL DEF Spec

(* can_execute never refuses all entries.  An entry within the bound that   *)
(* does not lead may go on; otherwise all entries have the same time.       *)
THEOREM BalanceSomeoneMayExecute == Spec => []SomeoneMayExecute
<1>1. IInv => SomeoneMayExecute
  <2> SUFFICES ASSUME IInv, NEW i \in DOMAIN info PROVE \E k \in DOMAIN info : CanExecute(k)
    BY DEF SomeoneMayExecute
  <2>1. \A k \in DOMAIN info : Time(k) \in Nat /\ Time(k) <= max
    BY GroupTypes DEF IInv, TypeOK, TimeAtMostMax
  <2>2. max \in Nat /\ MinBound \in Int
    BY GroupTypes DEF IInv, TypeOK, MinBound, DivBy, MulBy
  <2>3. CASE \E j \in DOMAIN info : Time(j) <= MinBound
    <3>1. PICK j \in DOMAIN info : Time(j) <= MinBound
      BY <2>3
    <3>2. CASE Time(j) = max /\ \E k \in DOMAIN info : Time(k) # max
      <4>1. PICK k \in DOMAIN info : Time(k) # max
        BY <3>2
      <4>2. Time(k) <= MinBound
        BY <2>1, <2>2, <3>1, <3>2, <4>1
      <4> QED BY <4>1, <4>2 DEF CanExecute
    <3>3. CASE ~ (Time(j) = max /\ \E k \in DOMAIN info : Time(k) # max)
      BY <3>1, <3>3 DEF CanExecute
    <3> QED BY <3>2, <3>3
  <2>4. CASE ~ \E j \in DOMAIN info : Time(j) <= MinBound
    <3>1. CASE \E k \in DOMAIN info : Time(k) # max
      BY <2>4, <3>1 DEF CanExecute
    <3>2. CASE \A k \in DOMAIN info : Time(k) = max
      BY <2>4, <3>2 DEF CanExecute
    <3> QED BY <3>1, <3>2
  <2> QED BY <2>3, <2>4
<1> QED BY <1>1, InvInit, InvNext, PTL DEF Spec

(* A refusal is always in favour of an entry with less time per slot that   *)
(* may go on: one that is within the bound and behind the largest time, or  *)
(* one behind it when no entry is within the bound.                         *)
THEOREM BalanceRefusedForLess == Spec => []RefusedForLess
<1>1. IInv => RefusedForLess
  <2> SUFFICES ASSUME IInv, NEW k \in DOMAIN info, ~ CanExecute(k)
               PROVE  \E j \in DOMAIN info : CanExecute(j) /\ Time(j) < Time(k)
    BY DEF RefusedForLess
  <2>1. \A j \in DOMAIN info : Time(j) \in Nat /\ Time(j) <= max
    BY GroupTypes DEF IInv, TypeOK, TimeAtMostMax
  <2>2. max \in Nat /\ MinBound \in Int
    BY GroupTypes DEF IInv, TypeOK, MinBound, DivBy, MulBy
  <2>3. ASSUME NEW j \in DOMAIN info, Time(j) < max,
               Time(j) <= MinBound \/ \A i \in DOMAIN info : ~ (Time(i) <= MinBound)
        PROVE  CanExecute(j)
    BY <2>1, <2>2, <2>3 DEF CanExecute
  <2>4. CASE \E i \in DOMAIN info : Time(i) <= MinBound /\ Time(i) < Time(k)
    <3>1. PICK i \in DOMAIN info : Time(i) <= MinBound /\ Time(i) < Time(k)
      BY <2>4
    <3>2. Time(i) < max
      BY <2>1, <2>2, <3>1
    <3> QED BY <2>3, <3>1, <3>2
  <2>5. CASE ~ \E i \in DOMAIN info : Time(i) <= MinBound /\ Time(i) < Time(k)
    <3>1. Time(k) = max /\ \E j \in DOMAIN info : Time(j) # Time(k)
      BY <2>1, <2>2, <2>5 DEF CanExecute
    <3>2. PICK j \in DOMAIN info : Time(j) # Time(k)
      BY <3>1
    <3>3. Time(j) < max /\ Time(j) < Time(k)
      BY <2>1, <2>2, <3>1, <3>2
    <3>4. \A i \in DOMAIN info : ~ (Time(i) <= MinBound)
      <4> SUFFICES ASSUME NEW i \in DOMAIN info, Time(i) <= MinBound PROVE FALSE
        OBVIOUS
      <4>1. ~ (Time(j) <= MinBound) /\ ~ (Time(i) < Time(k))
        BY <2>5, <3>3
      <4> QED BY <2>1, <2>2, <3>1, <3>3, <4>1
    <3> QED BY <2>3, <3>3, <3>4
  <2> QED BY <2>4, <2>5
<1> QED BY <1>1, InvInit, InvNext, PTL DEF Spec
----------------------------------------------------------------------------
(* A time per slot grows with the sum, and by no more than it.             *)
LEMMA DivGrows == ASSUME NEW a \in Nat, NEW d \in Nat, NEW b \in Nat \ {0}
                  PROVE  /\ (a + d) \div b >= a \div b
                         /\ (a + d) \div b <= (a \div b) + d
<1> DEFINE q == a \div b
           r == a % b
           p == (a + d) \div b
           s == (a + d) % b
<1>1. a = b * q + r /\ q \in Int /\ r \in 0 .. (b - 1)
  OBVIOUS
<1>2. a + d = b * p + s /\ p \in Int /\ s \in 0 .. (b - 1)
  OBVIOUS
<1> HIDE DEF q, r, p, s
<1>3. ~ (q >= p + 1)
  <2> SUFFICES ASSUME q >= p + 1 PROVE FALSE
    OBVIOUS
  <2>1. b * q >= b * (p + 1)
    BY <1>1, <1>2
  <2>2. b * (p + 1) = b * p + b
    BY <1>2
  <2> QED BY <1>1, <1>2, <2>1, <2>2
<1>4. ~ (p >= q + d + 1)
  <2> SUFFICES ASSUME p >= q + d + 1 PROVE FALSE
    OBVIOUS
  <2>1. b * p >= b * (q + d + 1)
    BY <1>1, <1>2
  <2>2. b * (q + d + 1) = b * q + b * d + b
    BY <1>1
  <2>3. b * d >= d
    OBVIOUS
  <2> QED BY <1>1, <1>2, <2>1, <2>2, <2>3
<1> QED BY <1>1, <1>2, <1>3, <1>4 DEF q, p

\* Why an entry may go on: it was behind the bound, or no entry was.  The
\* second is said of its own time, which does not change while it executes.
Entitled(k) == \/ Time(k) <= MinBound
               \/ \A j \in DOMAIN info : Time(j) > (Time(k) * 9) \div 10

\* In a group whose entries stay and whose counters are wide enough no sum
\* wraps, and the lead is bounded.
GroupLead == (setting.fixed /\ Wide) =>
               /\ max <= setting.limit
               /\ \A k \in DOMAIN info : info[k].sum <= setting.limit
               /\ BoundedLead

(* The product with 9 does not wrap.                                       *)
LEMMA NineTimes ==
  ASSUME NEW m \in Nat, NEW limit \in Nat, m <= limit, NEW n \in Nat \ {0}, n > 9 * (limit + 1)
  PROVE  (m * 9) % n = m * 9
<1>1. m * 9 \in 0 .. (n - 1) /\ m * 9 \in Int /\ m * 9 = n * 0 + m * 9
  OBVIOUS
<1> QED BY <1>1, ModUnique

LEMMA MinBoundIs ==
  ASSUME TimingTypeOK, Wide, max <= setting.limit
  PROVE  MinBound = (max * 9) \div 10
<1>1. setting.modulus \in Nat \ {0} /\ max \in Nat /\ setting.limit \in Nat
  BY GroupTypes, TimingAssumption DEF TimingTypeOK
<1> QED BY <1>1, NineTimes DEF Wide, MinBound, DivBy, MulBy

(* can_execute lets only entitled entries go on.                           *)
LEMMA ExecutesEntitled ==
  ASSUME GroupInv, Wide, max <= setting.limit, NEW k \in DOMAIN info, CanExecute(k)
  PROVE  Entitled(k)
<1>1. MinBound = (max * 9) \div 10
  BY MinBoundIs DEF GroupInv
<1>2. max \in Nat /\ Time(k) <= max /\ \A j \in DOMAIN info : Time(j) \in Nat
  BY GroupTypes DEF GroupInv, TimeAtMostMax
<1>3. MinBound \in Int /\ (Time(k) * 9) \div 10 \in Int /\ (Time(k) * 9) \div 10 <= MinBound
  BY <1>1, <1>2
<1>4. CASE \E j \in DOMAIN info : Time(j) <= MinBound
  BY <1>4 DEF CanExecute, Entitled
<1>5. CASE \A j \in DOMAIN info : Time(j) > MinBound
  BY <1>2, <1>3, <1>5 DEF Entitled
<1> QED BY <1>2, <1>3, <1>4, <1>5

(* Accounting for a duration of an entitled entry keeps the lead bounded,  *)
(* and the entries that are executing meanwhile entitled.                  *)
LEMMA LeadUpdate ==
  ASSUME GroupInv, GroupLead, setting.fixed, Wide, NEW k \in DOMAIN info, Entitled(k),
         NEW dur \in 0 .. Longest, info[k].sum + dur <= setting.limit, UpdateDuration(k, dur)
  PROVE  /\ GroupLead'
         /\ \A j \in DOMAIN info \ {k} : Entitled(j) => Entitled(j)'
<1>0. /\ setting.modulus \in Nat \ {0} /\ setting.limit \in Nat /\ Longest \in Nat
      /\ dur \in Nat /\ max \in Nat /\ max <= setting.limit
      /\ info[k].sum \in Nat /\ info[k].proportion \in Nat \ {0}
      /\ \A j \in DOMAIN info : Time(j) \in Nat /\ Time(j) <= max /\ info[j].sum <= setting.limit
  BY GroupTypes, TimingAssumption DEF GroupInv, TimingTypeOK, TimeAtMostMax, GroupLead
<1>1. /\ DOMAIN info' = DOMAIN info /\ GroupInv' /\ setting' = setting
      /\ info'[k].sum = (info[k].sum + dur) % setting.modulus
      /\ \A j \in DOMAIN info \ {k} : info'[j] = info[j]
  BY <1>0, GroupUpdate DEF UpdateDuration
<1>2. info'[k].sum = info[k].sum + dur
  <2>1. info[k].sum + dur \in 0 .. (setting.modulus - 1) /\ info[k].sum + dur \in Int
    BY <1>0 DEF Wide
  <2>2. info[k].sum + dur = setting.modulus * 0 + (info[k].sum + dur)
    BY <1>0
  <2> QED BY <1>0, <1>1, <2>1, <2>2, ModUnique
<1>3. info'[k].proportion = info[k].proportion /\ max' = Larger(max, Time(k)')
  BY DEF UpdateDuration, TimeEntry, Time, GroupInv, TimingTypeOK
<1>4. /\ Time(k)' >= Time(k) /\ Time(k)' <= Time(k) + dur
      /\ Time(k)' \in Nat /\ Time(k)' <= info'[k].sum
  <2>1. Time(k)' = (info[k].sum + dur) \div info[k].proportion
    BY <1>2, <1>3 DEF Time, Proportional, DivBy
  <2>2. Time(k) = info[k].sum \div info[k].proportion
    BY DEF Time, Proportional, DivBy
  <2>3. info[k].sum + dur \in Nat
    BY <1>0
  <2>4. /\ (info[k].sum + dur) \div info[k].proportion >= info[k].sum \div info[k].proportion
        /\ (info[k].sum + dur) \div info[k].proportion <= (info[k].sum \div info[k].proportion) + dur
    BY <1>0, DivGrows
  <2>5. (info[k].sum + dur) \div info[k].proportion \in 0 .. (info[k].sum + dur)
    BY <1>0, <2>3, DivFacts
  <2>6. Time(k)' \in 0 .. (info[k].sum + dur)
    BY <2>1, <2>5
  <2> QED BY <1>2, <2>1, <2>2, <2>3, <2>4, <2>6
<1>5. \A j \in DOMAIN info \ {k} : Time(j)' = Time(j)
  BY <1>1 DEF Time, Proportional, DivBy
<1>6. \A j \in DOMAIN info : Time(j)' >= Time(j) /\ Time(j)' \in Nat
  BY <1>0, <1>4, <1>5
<1>7. max' \in Nat /\ max' >= max /\ max' <= setting.limit /\ (max' = max \/ max' = Time(k)')
  BY <1>0, <1>2, <1>3, <1>4 DEF Larger
<1>8. MinBound = (max * 9) \div 10 /\ MinBound' = (max' * 9) \div 10
  <2>1. (max' * 9) % setting.modulus = max' * 9
    BY <1>0, <1>7, NineTimes DEF Wide
  <2>2. MinBound' = (max' * 9) \div 10
    BY <1>1, <2>1 DEF MinBound, DivBy, MulBy
  <2> QED BY <1>0, <2>2, MinBoundIs DEF GroupInv
<1>9. BoundedLead'
  <2>1. CASE max' = max
    BY <1>0, <1>1, <1>6, <2>1 DEF BoundedLead, GroupLead
  <2>2. CASE max' = Time(k)' /\ max' > max /\ Time(k) <= MinBound
    BY <1>0, <1>4, <1>8, <2>2 DEF BoundedLead
  <2>3. CASE max' = Time(k)' /\ \A j \in DOMAIN info : Time(j) > (Time(k) * 9) \div 10
    <3>1. max' - Longest <= Time(k)
      BY <1>0, <1>4, <2>3
    <3>2. ((max' - Longest) * 9) \div 10 <= (Time(k) * 9) \div 10
      BY <1>0, <1>7, <3>1
    <3>3. \A j \in DOMAIN info : Time(j)' > ((max' - Longest) * 9) \div 10
      BY <1>0, <1>6, <1>7, <2>3, <3>2
    <3> QED BY <1>1, <3>3 DEF BoundedLead
  <2> QED BY <1>0, <1>7, <2>1, <2>2, <2>3 DEF Entitled
<1>10. GroupLead'
  BY <1>0, <1>1, <1>2, <1>7, <1>9 DEF GroupLead
<1>11. ASSUME NEW j \in DOMAIN info \ {k}, Entitled(j) PROVE Entitled(j)'
  <2>1. MinBound \in Int /\ MinBound' \in Int /\ MinBound <= MinBound'
    BY <1>0, <1>7, <1>8
  <2>2. Time(j)' = Time(j) /\ Time(j) \in Nat
    BY <1>0, <1>5
  <2>3. CASE Time(j) <= MinBound
    BY <2>1, <2>2, <2>3 DEF Entitled
  <2>4. CASE \A i \in DOMAIN info : Time(i) > (Time(j) * 9) \div 10
    <3>1. (Time(j) * 9) \div 10 \in Int
      BY <2>2
    <3>2. \A i \in DOMAIN info : Time(i)' > (Time(j) * 9) \div 10
      BY <1>0, <1>6, <2>4, <3>1
    <3> QED BY <1>1, <2>2, <3>2 DEF Entitled
  <2> QED BY <1>11, <2>3, <2>4 DEF Entitled
<1> QED BY <1>10, <1>11
----------------------------------------------------------------------------
\* An entry whose poll has begun may be accounted for whenever it ends.
Going(k) == info[k].sum + Longest <= setting.limit /\ Entitled(k)

\* No wrapper is polled inside its own poll, and all that are polled stay
\* entitled while the polls nested in theirs use up time.
PolledInv == /\ \A i, j \in DOMAIN polling : polling[i] = polling[j] => i = j
             /\ (setting.fixed /\ Wide) => \A w \in Polled : Going(index[w])

LInv == GroupLead /\ PolledInv

(* Steps that leave the group and the wrappers alone.                      *)
LEMMA LeadSame ==
  ASSUME LInv, UNCHANGED <<timing, index>>
  PROVE  /\ GroupLead' /\ Wide' = Wide /\ setting' = setting
         /\ \A k : Entitled(k) => Entitled(k)'
         /\ \A k : Going(k) => Going(k)'
BY DEF LInv, GroupLead, BoundedLead, Wide, Entitled, Going, Time, Proportional, DivBy, MinBound,
       MulBy, timing

(* An entry is added before any time has passed.                           *)
LEMMA LeadInsert ==
  ASSUME GroupInv, GroupLead, setting.fixed, Wide, NEW k, NEW slot_count \in Slots,
         InsertEntry(k, slot_count)
  PROVE  /\ GroupLead'
         /\ \A j \in DOMAIN info : Going(j) => Going(j)'
<1>0. max = 0 /\ max' = 0 /\ setting' = setting /\ setting.limit \in Nat /\ Longest \in Nat
  BY TimingAssumption DEF InsertEntry, GroupInv, TimingTypeOK
<1>1. /\ DOMAIN info' = DOMAIN info \cup {k} /\ info'[k].sum = 0
      /\ \A j \in DOMAIN info : info'[j] = info[j]
  BY GroupInsert
<1>2. GroupLead'
  BY <1>0, <1>1 DEF GroupLead, BoundedLead
<1>3. \A j \in DOMAIN info : Time(j)' = Time(j) /\ Time(j) \in Nat /\ Time(j) <= 0
  BY <1>0, <1>1, GroupTypes DEF GroupInv, TimeAtMostMax, Time, Proportional, DivBy
<1>4. MinBound' = 0
  <2>1. setting.modulus \in Nat \ {0}
    BY GroupTypes DEF GroupInv
  <2>2. (0 * 9) % setting.modulus = 0 * 9
    BY <1>0, <2>1, NineTimes DEF Wide
  <2> QED BY <1>0, <2>2 DEF MinBound, DivBy, MulBy
<1> QED BY <1>0, <1>1, <1>2, <1>3, <1>4 DEF Going, Entitled

(* The end of the innermost poll.                                          *)
LEMMA PolledReturn ==
  ASSUME IInv, LInv, NEW finished \in BOOLEAN, Return(finished)
  PROVE  /\ \A i, j \in DOMAIN polling' : polling'[i] = polling'[j] => i = j
         /\ Innermost \in Polled
         /\ Polled' \subseteq Polled \ {Innermost}
<1>1. polling \in Seq(Live) /\ polling # <<>> /\ Len(polling) \in Nat /\ Len(polling) # 0
  BY DEF IInv, TypeOK, Return
<1>2. /\ DOMAIN polling = 1 .. Len(polling)
      /\ DOMAIN polling' = 1 .. Len(polling) - 1
      /\ \A i \in DOMAIN polling' : polling'[i] = polling[i]
  BY <1>1 DEF Return
<1>3. \A i \in DOMAIN polling' : i \in DOMAIN polling /\ i # Len(polling)
  BY <1>1, <1>2
<1>4. Len(polling) \in DOMAIN polling
  BY <1>1, <1>2
<1> QED BY <1>2, <1>3, <1>4 DEF LInv, PolledInv, Polled, Innermost

LEMMA LeadPollEnd ==
  ASSUME IInv, LInv, NEW dur \in 0 .. Longest, NEW finished \in BOOLEAN, PollEnd(dur, finished)
  PROVE  LInv'
<1> DEFINE w == Innermost
<1>1. /\ w \in Live /\ w \in Polled /\ Polled' \subseteq Polled \ {w}
      /\ \A i, j \in DOMAIN polling' : polling'[i] = polling'[j] => i = j
  BY ReturnTypes, PolledReturn DEF PollEnd
<1>2. UpdateDuration(index[w], dur) /\ index' = index /\ setting' = setting
  BY DEF PollEnd, UpdateDuration
<1> HIDE DEF w
<1>3. index[w] \in DOMAIN info /\ \A v \in Live : index[v] = index[w] => v = w
  BY <1>1, OwnEntry
<1>4. Wide' = Wide
  BY <1>2 DEF Wide
<1>5. ASSUME setting.fixed, Wide
      PROVE  GroupLead' /\ \A v \in Polled' : Going(index[v])'
  <2>0. GroupInv /\ GroupLead
    BY DEF IInv, TypeOK, GroupInv, LInv
  <2>1. Going(index[w])
    BY <1>1, <1>5 DEF LInv, PolledInv
  <2>2. info[index[w]].sum + dur <= setting.limit /\ dur \in Nat
    BY <1>3, <2>0, <2>1, GroupTypes, TimingAssumption DEF Going, GroupInv, TimingTypeOK
  <2>3. GroupLead' /\ \A j \in DOMAIN info \ {index[w]} : Entitled(j) => Entitled(j)'
    BY <1>2, <1>3, <1>5, <2>0, <2>1, <2>2, LeadUpdate DEF Going
  <2>4. \A j \in DOMAIN info \ {index[w]} : info'[j] = info[j]
    BY <1>2, <1>3, <2>0, <2>2, GroupUpdate
  <2>5. \A v \in Polled : v \in Live /\ index[v] \in DOMAIN info
    <3>1. \A v \in Polled : v \in Live
      BY DEF Polled, IInv, TypeOK
    <3> QED BY <3>1, OwnEntry
  <2>6. ASSUME NEW v \in Polled' PROVE Going(index[v])'
    <3>1. v \in Polled /\ v # w /\ index[v] \in DOMAIN info \ {index[w]} /\ Going(index[v])
      BY <1>1, <1>3, <1>5, <2>5, <2>6 DEF LInv, PolledInv
    <3> QED BY <1>2, <2>3, <2>4, <3>1 DEF Going
  <2> QED BY <2>3, <2>6
<1>6. GroupLead'
  BY <1>2, <1>4, <1>5 DEF GroupLead
<1> QED BY <1>1, <1>2, <1>4, <1>5, <1>6 DEF LInv, PolledInv

LEMMA LeadRegister ==
  ASSUME IInv, LInv, NEW w \in Wrappers \ Live, NEW prop \in Slots, Register(w, prop)
  PROVE  LInv'
<1>1. PICK k \in Keys : /\ InsertEntry(k, prop)
                        /\ index' = Extend(index, w, k)
                        /\ polling' = polling
  BY DEF Register
<1>2. setting' = setting /\ Wide' = Wide /\ GroupInv /\ GroupLead
  BY <1>1 DEF InsertEntry, Wide, IInv, TypeOK, GroupInv, LInv
<1>3. \A v \in Polled : v \in Live /\ index[v] \in DOMAIN info /\ index'[v] = index[v]
  <2>1. \A v \in Polled : v \in Live
    BY DEF Polled, IInv, TypeOK
  <2> QED BY <1>1, <2>1, OwnEntry DEF Extend, Live
<1>4. Polled' = Polled
  BY <1>1 DEF Polled
<1>5. ASSUME setting.fixed, Wide
      PROVE  GroupLead' /\ \A v \in Polled' : Going(index[v])'
  <2>1. GroupLead' /\ \A j \in DOMAIN info : Going(j) => Going(j)'
    BY <1>1, <1>2, <1>5, LeadInsert
  <2>2. ASSUME NEW v \in Polled PROVE Going(index[v])'
    <3>1. Going(index[v]) /\ index[v] \in DOMAIN info /\ index'[v] = index[v]
      BY <1>3, <1>5, <2>2 DEF LInv, PolledInv
    <3> QED BY <2>1, <3>1 DEF Going, Entitled, Time
  <2> QED BY <1>4, <2>1, <2>2
<1>6. GroupLead'
  BY <1>2, <1>5 DEF GroupLead
<1> QED BY <1>1, <1>2, <1>5, <1>6 DEF LInv, PolledInv

LEMMA LeadPollBegin ==
  ASSUME IInv, LInv, NEW w \in Wrappers, PollBegin(w)
  PROVE  LInv'
<1>1. /\ w \in Live /\ w \notin Polled /\ CanExecute(index[w])
      /\ info[index[w]].sum + Longest <= setting.limit
      /\ polling' = Append(polling, w) /\ UNCHANGED <<timing, index>>
  BY DEF PollBegin, MayPoll
<1>2. polling \in Seq(Live) /\ Len(polling) \in Nat
  BY DEF IInv, TypeOK
<1>3. /\ DOMAIN polling = 1 .. Len(polling)
      /\ DOMAIN polling' = 1 .. Len(polling) + 1
      /\ polling'[Len(polling) + 1] = w
      /\ \A i \in 1 .. Len(polling) : polling'[i] = polling[i]
  BY <1>1, <1>2
<1>4. /\ \A i \in DOMAIN polling' : i \in DOMAIN polling \/ i = Len(polling) + 1
      /\ \A i \in DOMAIN polling : polling[i] # w
  BY <1>1, <1>2, <1>3 DEF Polled
<1>5. \A i, j \in DOMAIN polling' : polling'[i] = polling'[j] => i = j
  BY <1>3, <1>4 DEF LInv, PolledInv
<1>6. Polled' \subseteq Polled \cup {w}
  BY <1>3, <1>4 DEF Polled
<1>7. /\ GroupLead' /\ Wide' = Wide /\ setting' = setting /\ index' = index
      /\ \A k : Going(k) => Going(k)'
  BY <1>1, LeadSame
<1>8. ASSUME setting.fixed, Wide, NEW v \in Polled' PROVE Going(index[v])'
  <2>1. Going(index[v])
    <3>1. CASE v = w
      <4>1. GroupInv /\ max <= setting.limit /\ index[w] \in DOMAIN info
        BY <1>1, <1>8, OwnEntry DEF IInv, TypeOK, GroupInv, LInv, GroupLead
      <4> QED BY <1>1, <1>8, <3>1, <4>1, ExecutesEntitled DEF Going
    <3>2. CASE v \in Polled
      BY <1>8, <3>2 DEF LInv, PolledInv
    <3> QED BY <1>6, <1>8, <3>1, <3>2
  <2> QED BY <1>7, <2>1 DEF Going, Entitled, Time
<1> QED BY <1>5, <1>7, <1>8 DEF LInv, PolledInv

(* Steps of a group that is used directly.                                 *)
LEMMA LeadDirect ==
  ASSUME IInv, LInv, setting.direct, TimingNext, UNCHANGED <<index, polling>>
  PROVE  LInv'
<1>0. GroupInv /\ GroupLead
  BY DEF IInv, TypeOK, GroupInv, LInv
<1>1. setting' = setting /\ Wide' = Wide
  BY DEF TimingNext, InsertEntry, RemoveEntry, Execute, UpdateDuration, Clear, Wide
<1>2. Polled' = {}
  BY DEF IInv, TypeOK, DirectAlone, Polled
<1>3. ASSUME setting.fixed, Wide PROVE GroupLead'
  <2>1. ASSUME NEW k \in Keys, NEW s \in Slots, InsertEntry(k, s) PROVE GroupLead'
    BY <1>0, <1>3, <2>1, LeadInsert
  <2>2. ASSUME NEW k \in Keys, NEW dur \in 0 .. Longest, Execute(k, dur) PROVE GroupLead'
    <3>1. /\ k \in DOMAIN info /\ CanExecute(k) /\ info[k].sum + dur <= setting.limit
          /\ UpdateDuration(k, dur) /\ max <= setting.limit
      BY <1>0, <1>3, <2>2 DEF Execute, GroupLead
    <3>2. Entitled(k)
      BY <1>0, <1>3, <3>1, ExecutesEntitled
    <3> QED BY <1>0, <1>3, <3>1, <3>2, LeadUpdate
  <2> QED BY <1>3, <2>1, <2>2 DEF TimingNext, RemoveEntry, Clear
<1>4. GroupLead'
  BY <1>1, <1>3 DEF GroupLead
<1> QED BY <1>2, <1>4 DEF LInv, PolledInv

LEMMA LeadNext == IInv /\ LInv /\ [Next]_vars => LInv'
<1> SUFFICES ASSUME IInv, LInv, [Next]_vars PROVE LInv'
  OBVIOUS
<1>1. ASSUME ~ setting.direct, NEW w \in Wrappers, NEW prop \in Slots,
             With(w, prop) \/ Insert(w, prop)
      PROVE  LInv'
  <2>1. w \notin Live /\ Register(w, prop)
    BY <1>1 DEF With, Insert, IInv, EntriesAreWrappers
  <2> QED BY <1>1, <2>1, LeadRegister
<1>2. ASSUME NEW w \in Wrappers, Drop(w) \/ Remove(w) PROVE LInv'
  <2>1. ~ setting.fixed /\ setting' = setting /\ polling' = polling
    BY <1>2 DEF Drop, Remove, Unregister, RemoveEntry
  <2> QED BY <2>1 DEF LInv, GroupLead, PolledInv
<1>3. ASSUME UNCHANGED <<timing, index, polling>> PROVE LInv'
  <2>1. /\ GroupLead' /\ Wide' = Wide /\ setting' = setting
        /\ index' = index /\ polling' = polling /\ Polled' = Polled
        /\ \A k : Going(k) => Going(k)'
    BY <1>3, LeadSame DEF Polled
  <2>2. ASSUME setting.fixed, Wide, NEW v \in Polled PROVE Going(index[v])'
    <3>1. Going(index[v])
      BY <2>2 DEF LInv, PolledInv
    <3> QED BY <2>1, <3>1 DEF Going, Entitled, Time
  <2> QED BY <2>1, <2>2 DEF LInv, PolledInv
<1>4. ASSUME NEW w \in Wrappers, PollRefused(w) \/ Wake(w) PROVE LInv'
  BY <1>3, <1>4 DEF PollRefused, Wake
<1>5. ASSUME NEW w \in Wrappers, PollBegin(w) PROVE LInv'
  BY <1>5, LeadPollBegin
<1>6. ASSUME NEW dur \in 0 .. Longest, NEW finished \in BOOLEAN, PollEnd(dur, finished) PROVE LInv'
  BY <1>6, LeadPollEnd
<1>7. ASSUME PollPanics PROVE LInv'
  <2>1. /\ \A i, j \in DOMAIN polling' : polling'[i] = polling'[j] => i = j
        /\ Polled' \subseteq Polled /\ UNCHANGED <<timing, index>>
    BY <1>7, PolledReturn DEF PollPanics
  <2>2. /\ GroupLead' /\ Wide' = Wide /\ setting' = setting
        /\ index' = index /\ \A k : Going(k) => Going(k)'
    BY <2>1, LeadSame
  <2>3. ASSUME setting.fixed, Wide, NEW v \in Polled' PROVE Going(index[v])'
    <3>1. Going(index[v])
      BY <2>1, <2>3 DEF LInv, PolledInv
    <3> QED BY <2>2, <3>1 DEF Going, Entitled, Time
  <2> QED BY <2>1, <2>2, <2>3 DEF LInv, PolledInv
<1>8. ASSUME setting.direct, TimingNext, UNCHANGED <<index, polling>> PROVE LInv'
  BY <1>8, LeadDirect
<1>9. CASE UNCHANGED vars
  BY <1>3, <1>9 DEF vars
<1> QED BY <1>1, <1>2, <1>4, <1>5, <1>6, <1>7, <1>8, <1>9 DEF Next

(* "More-less equal amount of time per slot": while entries stay and no    *)
(* counter wraps, no entry falls more than a tenth and one longest         *)
(* duration behind the one that used the most time, for groups used        *)
(* directly and for wrappers whose polls are nested in each other.         *)
THEOREM BalanceBoundedLead == Spec => []BoundedLead
<1>1. Init => LInv
  <2> SUFFICES ASSUME Init PROVE LInv
    OBVIOUS
  <2>1. max = 0 /\ DOMAIN info = {} /\ DOMAIN polling = {} /\ setting \in Settings
    BY DEF Init, TimingInit, Empty
  <2>2. max <= 10 * Longest /\ max <= setting.limit
    BY <2>1, TimingAssumption
  <2> QED BY <2>1, <2>2 DEF LInv, GroupLead, BoundedLead, PolledInv, Polled
<1>2. LInv => BoundedLead
  BY DEF LInv, GroupLead, BoundedLead
<1> QED BY <1>1, <1>2, InvInit, InvNext, LeadNext, PTL DEF Spec
============================================================================
