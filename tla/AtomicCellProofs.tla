-------------------------- MODULE AtomicCellProofs --------------------------
(***************************************************************************)
(* AtomicCell is proved correct, for any number of processes and any       *)
(* values, on the targets where compare_exchange_weak fails only when the  *)
(* mark is set (SpuriousFail = FALSE).                                     *)
(***************************************************************************)
EXTENDS AtomicCell, TLAPS

\* The mark is set exactly while some process is at the cell.
MarkInv == /\ \A p \in Procs : Inside(p) => mark = TRUE
           /\ mark = TRUE => \E p \in Procs : Inside(p)

\* The copy a process made of the cell is still what the cell holds.
CopyInv == \A p \in Procs : pc[p] = "write" => first[p] = cell

(* Ownership moves: with swaps only, no value is in two places, so no      *)
(* waker the registry keeps in the cell is dropped twice, and none is      *)
(* lost.                                                                   *)
Ownership == Funcs = {} => /\ \A p \in Procs : hand[p] # cell
                           /\ \A p, q \in Procs : hand[p] = hand[q] => p = q

\* Without closures every call is a swap.
SwapsOnly == Funcs = {} => \A p \in Procs : op[p] \in SwapOps

IInv == TypeOK /\ MarkInv /\ MutualExclusion /\ CopyInv

(* A freshly created cell has the types of TypeOK.                         *)
LEMMA InitTyping == Init => TypeOK
<1> SUFFICES ASSUME Init PROVE TypeOK
  OBVIOUS
<1>1. hand \in [Procs -> Values] /\ first \in [Procs -> Values]
  BY DEF Init
<1>2. [v \in Values |-> v] \in [Values -> Values]
  OBVIOUS
<1>3. func \in [Procs -> [Values -> Values]]
  BY <1>2 DEF Init
<1> QED
  BY <1>1, <1>3 DEF Init, TypeOK, Steps, SwapOps, ApplyOps

(* Type correctness of AtomicCell, whatever compare_exchange_weak does.    *)
LEMMA Typing == Spec => []TypeOK
<1> USE CellAssumption
<1>1. Init => TypeOK
  BY InitTyping
<1>2. TypeOK /\ [Next]_vars => TypeOK'
  <2> SUFFICES ASSUME TypeOK, [Next]_vars PROVE TypeOK'
    OBVIOUS
  <2> USE DEF TypeOK, Goto, Steps, SwapOps, ApplyOps
  <2>1. ASSUME NEW p \in Procs, Invoke(p) PROVE TypeOK'
    <3>1. ASSUME NEW o \in SwapOps, InvokeSwap(p, o) PROVE TypeOK'
      BY <3>1 DEF InvokeSwap
    <3>2. ASSUME NEW o \in ApplyOps, NEW f \in Funcs, InvokeApply(p, o, f) PROVE TypeOK'
      <4>1. f \in [Values -> Values]
        OBVIOUS
      <4>2. func' \in [Procs -> [Values -> Values]]
        BY <3>2, <4>1 DEF InvokeApply
      <4> QED
        BY <3>2, <4>2 DEF InvokeApply
    <3> QED
      BY <2>1, <3>1, <3>2 DEF Invoke
  <2>2. ASSUME NEW p \in Procs, Step(p) PROVE TypeOK'
    <3>1. CASE CasOk(p)
      BY <3>1 DEF CasOk
    <3>3. CASE CasErr(p)
      BY <3>3 DEF CasErr
    <3>4. CASE CasRetry(p)
      BY <3>4 DEF CasRetry, vars
    <3>5. CASE Read(p)
      BY <3>5 DEF Read
    <3>6. CASE WriteSwap(p)
      BY <3>6 DEF WriteSwap
    <3>7. CASE WriteApply(p)
      BY <3>7 DEF WriteApply
    <3>8. CASE FuncPanics(p)
      BY <3>8 DEF FuncPanics
    <3>9. CASE Unlock(p)
      BY <3>9 DEF Unlock
    <3>10. CASE Return(p)
      BY <3>10 DEF Return
    <3> QED
      BY <2>2, <3>1, <3>3, <3>4, <3>5, <3>6, <3>7, <3>8, <3>9, <3>10 DEF Step
  <2>3. ASSUME NEW p \in Procs, GetMut(p) PROVE TypeOK'
    BY <2>3 DEF GetMut
  <2>4. CASE UNCHANGED vars
    BY <2>4 DEF vars
  <2> QED
    BY <2>1, <2>2, <2>3, <2>4 DEF Next
<1> QED
  BY <1>1, <1>2, PTL DEF Spec

(* A step of a call keeps the inductive invariant: one case per action.    *)
LEMMA StepKeepsIInv ==
  ASSUME SpuriousFail = FALSE, IInv, TypeOK', NEW p \in Procs, Step(p)
  PROVE  IInv'
<1> USE DEF IInv, TypeOK, MarkInv, MutualExclusion, CopyInv, Inside, Goto, Steps
<1>1. CASE CasOk(p)
  <2>1. mark' = TRUE /\ pc' = [pc EXCEPT ![p] = "read"] /\ UNCHANGED <<cell, first>>
    BY <1>1 DEF CasOk
  <2>2. \A q \in Procs : ~ Inside(q)
    BY <1>1 DEF CasOk
  <2>3. MarkInv' /\ MutualExclusion'
    BY <2>1, <2>2
  <2>4. CopyInv'
    BY <2>1
  <2> QED
    BY <2>3, <2>4
<1>2. CASE CasErr(p)
  BY <1>2 DEF CasErr
<1>3. CASE CasRetry(p)
  BY <1>3 DEF CasRetry, vars
<1>4. CASE Read(p)
  BY <1>4 DEF Read
<1>5. CASE WriteSwap(p)
  BY <1>5 DEF WriteSwap
<1>6. CASE WriteApply(p)
  BY <1>6 DEF WriteApply
<1>7. CASE FuncPanics(p)
  BY <1>7 DEF FuncPanics
<1>8. CASE Unlock(p)
  BY <1>8 DEF Unlock
<1>9. CASE Return(p)
  BY <1>9 DEF Return
<1> QED
  BY <1>1, <1>2, <1>3, <1>4, <1>5, <1>6, <1>7, <1>8, <1>9 DEF Step

(* The inductive invariant holds of the specification.                     *)
LEMMA Invariance == ASSUME SpuriousFail = FALSE PROVE Spec => []IInv
<1>1. Init => IInv
  <2> SUFFICES ASSUME Init PROVE IInv
    OBVIOUS
  <2>1. TypeOK
    BY InitTyping
  <2> QED
    BY <2>1 DEF Init, IInv, MarkInv, MutualExclusion, CopyInv, Inside
<1>2. IInv /\ TypeOK' /\ [Next]_vars => IInv'
  <2> SUFFICES ASSUME IInv, TypeOK', [Next]_vars PROVE IInv'
    OBVIOUS
  <2> USE DEF IInv, MarkInv, MutualExclusion, CopyInv, Inside
  <2>1. ASSUME NEW p \in Procs, Invoke(p) PROVE IInv'
    BY <2>1 DEF Invoke, InvokeSwap, InvokeApply, Goto, TypeOK
  <2>2. ASSUME NEW p \in Procs, Step(p) PROVE IInv'
    BY <2>2, StepKeepsIInv
  <2>3. ASSUME NEW p \in Procs, GetMut(p) PROVE IInv'
    BY <2>3 DEF GetMut
  <2>4. CASE UNCHANGED vars
    BY <2>4 DEF vars
  <2> QED
    BY <2>1, <2>2, <2>3, <2>4 DEF Next
<1> QED
  BY <1>1, <1>2, Typing, PTL DEF Spec

(* At most one process is between the compare_exchange and the release:    *)
(* the comment "we know for sure we are only thread writing to this        *)
(* location" is true on targets without spurious failures.                 *)
THEOREM CellMutualExclusion == ASSUME SpuriousFail = FALSE PROVE Spec => []MutualExclusion
BY Invariance, PTL DEF IInv

(* With swaps only, no value is ever in two places or lost: what the waker *)
(* registry puts in the cell is given back exactly once.                   *)
THEOREM CellOwnership == ASSUME SpuriousFail = FALSE PROVE Spec => []Ownership
<1> DEFINE OInv == Ownership /\ SwapsOnly
<1>1. Init => OInv
  BY DEF Init, Ownership, SwapsOnly, SwapOps
<1>2. IInv /\ IInv' /\ OInv /\ [Next]_vars => OInv'
  <2> SUFFICES ASSUME IInv, OInv, [Next]_vars PROVE OInv'
    OBVIOUS
  <2>1. CASE Funcs # {}
    BY <2>1 DEF Ownership, SwapsOnly
  <2>2. CASE Funcs = {}
    <3> USE <2>2 DEF IInv, TypeOK, CopyInv, Ownership, SwapsOnly
    <3>1. ASSUME NEW p \in Procs, Invoke(p) PROVE OInv'
      BY <3>1 DEF Invoke, InvokeSwap
    <3>2. ASSUME NEW p \in Procs, WriteSwap(p) PROVE OInv'
      <4>1. first[p] = cell
        BY <3>2 DEF WriteSwap
      <4> QED
        BY <3>2, <4>1 DEF WriteSwap
    <3>3. ASSUME NEW p \in Procs, Step(p), ~ WriteSwap(p) PROVE OInv'
      <4>1. ~ WriteApply(p)
        BY DEF WriteApply, SwapOps, ApplyOps
      <4>2. UNCHANGED <<cell, hand, op>>
        BY <3>3, <4>1 DEF Step, CasOk, CasErr, CasRetry, Read,
                          FuncPanics, Unlock, Return, vars
      <4> QED
        BY <4>2
    <3>4. ASSUME NEW p \in Procs, GetMut(p) PROVE OInv'
      BY <3>4 DEF GetMut
    <3>5. CASE UNCHANGED vars
      BY <3>5 DEF vars
    <3> QED
      BY <3>1, <3>2, <3>3, <3>4, <3>5 DEF Next
  <2> QED
    BY <2>1, <2>2
<1> QED
  BY <1>1, <1>2, Invariance, PTL DEF Spec

(* AtomicCell implements the atomic operations of AtomicSwap: every step   *)
(* of the code is an atomic operation or a stuttering step.                *)
THEOREM CellLinearizable == ASSUME SpuriousFail = FALSE PROVE Spec => Linearizable
<1> USE CellAssumption
<1>1. Init => Abstract!Init
  <2> SUFFICES ASSUME Init PROVE Abstract!Init
    OBVIOUS
  <2>1. hand \in [Procs -> Values]
    BY DEF Init
  <2>2. CallStatus = [p \in Procs |-> "idle"]
    BY DEF Init, CallStatus
  <2> QED
    BY <2>1, <2>2 DEF Init, Abstract!Init
<1>2. IInv /\ [Next]_vars => [Abstract!Next]_(Abstract!vars)
  <2> SUFFICES ASSUME IInv, [Next]_vars PROVE Abstract!Next \/ UNCHANGED Abstract!vars
    OBVIOUS
  <2> USE DEF IInv, TypeOK
  <2>0. ASSUME NEW p \in Procs, NEW s \in Steps, Goto(p, s)
        PROVE  CallStatus' = [CallStatus EXCEPT ![p] =
                                CASE s = "idle" -> "idle"
                                  [] s \in {"cas", "read", "write"} -> "pending"
                                  [] s \in {"unlock", "ret"} -> "done"]
    BY <2>0 DEF Goto, CallStatus, Steps
  <2>1. ASSUME NEW p \in Procs, Invoke(p) PROVE Abstract!Next
    <3>1. ASSUME NEW o \in SwapOps, InvokeSwap(p, o)
          PROVE  Abstract!Invoke(p, o, func[p])
      BY <3>1, <2>0 DEF InvokeSwap, Abstract!Invoke, SwapOps, Abstract!ApplyOps, Steps, CallStatus
    <3>2. ASSUME NEW o \in ApplyOps, NEW f \in Funcs, InvokeApply(p, o, f)
          PROVE  Abstract!Invoke(p, o, f)
      BY <3>2, <2>0 DEF InvokeApply, Abstract!Invoke, Steps, CallStatus
    <3>3. func[p] \in [Values -> Values]
      OBVIOUS
    <3>4. \A f \in Funcs : f \in [Values -> Values]
      OBVIOUS
    <3> QED
      BY <2>1, <3>1, <3>2, <3>3, <3>4
      DEF Invoke, Abstract!Next, Abstract!SwapOps, Abstract!ApplyOps, SwapOps, ApplyOps
  <2>2. ASSUME NEW p \in Procs, Step(p) PROVE Abstract!Next \/ UNCHANGED Abstract!vars
    <3> USE DEF Steps
    <3>1. CASE CasOk(p) \/ Read(p) \/ Unlock(p)
      <4>1. CallStatus' = CallStatus
        <5>1. ASSUME NEW s \in Steps, Goto(p, s),
                     \/ pc[p] \in {"cas", "read"} /\ s \in {"read", "write"}
                     \/ pc[p] = "unlock" /\ s = "ret"
              PROVE  CallStatus' = CallStatus
          <6>1. \A q \in Procs : q # p => pc'[q] = pc[q]
            BY <5>1 DEF Goto
          <6>2. pc'[p] = s
            BY <5>1 DEF Goto
          <6>3. \A q \in Procs : CallStatus'[q] = CallStatus[q]
            BY <5>1, <6>1, <6>2 DEF CallStatus
          <6> QED
            BY <6>3 DEF CallStatus
        <5>2. CASE CasOk(p)
          <6>1. pc[p] = "cas" /\ Goto(p, "read")
            BY <5>2 DEF CasOk
          <6> QED
            BY <5>1, <6>1
        <5>3. CASE Read(p)
          <6>1. pc[p] = "read" /\ Goto(p, "write")
            BY <5>3 DEF Read
          <6> QED
            BY <5>1, <6>1
        <5>4. CASE Unlock(p)
          <6>1. pc[p] = "unlock" /\ Goto(p, "ret")
            BY <5>4 DEF Unlock
          <6> QED
            BY <5>1, <6>1
        <5> QED
          BY <3>1, <5>2, <5>3, <5>4
      <4> QED
        BY <3>1, <4>1 DEF CasOk, Read, Unlock, Abstract!vars
    <3>2. CASE CasErr(p)
      <4>1. PICK q \in Procs : Inside(q)
        BY <3>2 DEF CasErr, MarkInv
      <4>2. q # p /\ CallStatus[q] # "idle"
        BY <3>2, <4>1 DEF CasErr, Inside, CallStatus
      <4>3. Abstract!GiveUp(p)
        BY <2>0, <3>2, <4>2 DEF CasErr, Abstract!GiveUp, Abstract!Finish, CallStatus, TryOps, Abstract!TryOps
      <4> QED
        BY <4>3 DEF Abstract!Next
    <3>3. CASE CasRetry(p)
      BY <3>3 DEF CasRetry, vars, Abstract!vars, CallStatus
    <3>4. CASE WriteSwap(p)
      <4>1. first[p] = cell
        BY <3>4 DEF WriteSwap, CopyInv
      <4>2. Abstract!SwapNow(p)
        BY <2>0, <3>4, <4>1 DEF WriteSwap, Abstract!SwapNow, Abstract!Finish, CallStatus, SwapOps, Abstract!SwapOps
      <4> QED
        BY <4>2 DEF Abstract!Next
    <3>5. CASE WriteApply(p)
      <4>1. first[p] = cell
        BY <3>5 DEF WriteApply, CopyInv
      <4>2. Abstract!ApplyNow(p)
        BY <2>0, <3>5, <4>1 DEF WriteApply, Abstract!ApplyNow, Abstract!Finish, CallStatus, ApplyOps, Abstract!ApplyOps
      <4> QED
        BY <4>2 DEF Abstract!Next
    <3>6. CASE FuncPanics(p)
      <4>1. Abstract!Panic(p)
        BY <2>0, <3>6 DEF FuncPanics, Abstract!Panic, Abstract!Finish, CallStatus, ApplyOps, Abstract!ApplyOps
      <4> QED
        BY <4>1 DEF Abstract!Next
    <3>7. CASE Return(p)
      <4>1. Abstract!Return(p)
        BY <2>0, <3>7 DEF Return, Abstract!Return, CallStatus
      <4> QED
        BY <4>1 DEF Abstract!Next
    <3> QED
      BY <2>2, <3>1, <3>2, <3>3, <3>4, <3>5, <3>6, <3>7 DEF Step
  <2>3. ASSUME NEW p \in Procs, GetMut(p) PROVE Abstract!Next
    <3>1. Abstract!Exclusive(p)
      BY <2>3 DEF GetMut, Abstract!Exclusive, CallStatus
    <3> QED
      BY <3>1 DEF Abstract!Next
  <2>4. CASE UNCHANGED vars
    BY <2>4 DEF vars, Abstract!vars, CallStatus
  <2> QED
    BY <2>1, <2>2, <2>3, <2>4 DEF Next
<1> QED
  BY <1>1, <1>2, Invariance, PTL DEF Spec, Linearizable, Abstract!Spec
----------------------------------------------------------------------------
\* Interrupt handler i is in the busy loop of swap or apply, and the process m
\* that it stopped holds the mark.
SpinsOver(i, m) == /\ <<i, m>> \in Preempts
                   /\ pc[i] = "cas" /\ op[i] \notin TryOps
                   /\ Inside(m)

(* A swap or apply in an interrupt handler that stopped a process at the   *)
(* cell never returns, whatever the other processes do: the process that   *)
(* would release the mark is the one that cannot run, and everybody else   *)
(* finds the mark set ("without using locks", cell.rs, is not true there). *)
THEOREM CellHandlerSpins ==
  ASSUME SpuriousFail = FALSE, NEW i \in Procs, NEW m \in Procs
  PROVE  Spec => [](SpinsOver(i, m) => []SpinsOver(i, m))
<1>1. IInv /\ SpinsOver(i, m) /\ [Next]_vars => SpinsOver(i, m)'
  <2> SUFFICES ASSUME IInv, SpinsOver(i, m), [Next]_vars PROVE SpinsOver(i, m)'
    OBVIOUS
  <2>0. /\ mark = TRUE /\ ~ MayStep(m) /\ i # m
        /\ pc \in [Procs -> Steps] /\ op \in [Procs -> SwapOps \cup ApplyOps]
    BY DEF SpinsOver, Inside, MayStep, IInv, MarkInv, TypeOK
  <2>1. ASSUME NEW p \in Procs, p # i, p # m, Invoke(p) \/ Step(p)
        PROVE  pc'[i] = pc[i] /\ pc'[m] = pc[m] /\ op'[i] = op[i]
    BY <2>0, <2>1 DEF Invoke, InvokeSwap, InvokeApply, Step, CasOk, CasErr, CasRetry, Read, WriteSwap,
                      WriteApply, FuncPanics, Unlock, Return, Goto, vars
  <2>2. ASSUME Invoke(m) \/ Step(m) PROVE FALSE
    BY <2>0, <2>2 DEF Invoke, InvokeSwap, InvokeApply, Step, CasOk, CasErr, CasRetry, Read, WriteSwap,
                      WriteApply, FuncPanics, Unlock, Return
  <2>3. ASSUME Invoke(i) \/ Step(i) PROVE UNCHANGED vars
    <3>1. CasRetry(i)
      BY <2>0, <2>3 DEF SpinsOver, Invoke, InvokeSwap, InvokeApply, Step, CasOk, CasErr, Read, WriteSwap,
                        WriteApply, FuncPanics, Unlock, Return
    <3> QED BY <3>1 DEF CasRetry
  <2>4. ASSUME NEW p \in Procs, GetMut(p) PROVE FALSE
    BY <2>4 DEF GetMut, SpinsOver
  <2>5. UNCHANGED vars \/ (pc'[i] = pc[i] /\ pc'[m] = pc[m] /\ op'[i] = op[i])
    BY <2>1, <2>2, <2>3, <2>4 DEF Next
  <2> QED BY <2>5 DEF SpinsOver, Inside, vars
<1> QED BY <1>1, Invariance, PTL DEF Spec
=============================================================================
