----------------------------- MODULE IrqSignal -----------------------------
(***************************************************************************)
(* utils::IrqSignal, as far as it is written: notify, which may run in     *)
(* interrupt handlers, try_listen, and the poll of a listener.  The poll   *)
(* does not register a waker yet, so that the waker stays None; the steps  *)
(* that access it are kept.  One step per access of `value`.               *)
(***************************************************************************)
EXTENDS Integers

CONSTANT Notifiers

Listener == "listener"
Users == Notifiers \cup {Listener}

ASSUME SignalAssumption == Listener \notin Notifiers

VARIABLES flags,       \* IrqSignal::value, the set of its bits
          borrow,      \* IrqSignal::borrow
          step,        \* step[u]: the next step of u's call
          prev,        \* prev[u]: the flags u loaded
          owed         \* history: a notify returned since a poll was last Ready

signal == <<flags, borrow, step, prev, owed>>

Bits == {"EXT_LOCK", "NOTIFIED", "IRQ_LOCK"}

SignalTypeOK == /\ flags \subseteq Bits
                /\ borrow \in BOOLEAN
                /\ step \in [Users -> {"idle", "load", "notify", "inner", "or", "lock", "wake",
                                       "store", "take", "clear", "none", "panicked"}]
                /\ prev \in [Users -> SUBSET Bits]
                /\ owed \in BOOLEAN

SignalInit == /\ flags = {}
              /\ borrow = FALSE
              /\ step = [u \in Users |-> IF u = Listener THEN "none" ELSE "idle"]
              /\ prev = [u \in Users |-> {}]
              /\ owed = FALSE

Goto(u, from, to) == step[u] = from /\ step' = [step EXCEPT ![u] = to]
Load(u) == prev' = [prev EXCEPT ![u] = flags]
\* compare_and_swap: new flags and `then`, or `otherwise`.
Cas(u, from, new, then, otherwise) ==
  IF flags = prev[u] THEN flags' = new /\ Goto(u, from, then)
                     ELSE UNCHANGED flags /\ Goto(u, from, otherwise)
Owe(n) == owed' = (owed \/ step'[n] = "idle")
Locked(f) == f \cap {"IRQ_LOCK", "EXT_LOCK"} # {}

CallNotify(n) == /\ Goto(n, "idle", "load")
                 /\ UNCHANGED <<flags, borrow, prev, owed>>

NotifyLoad(n) == /\ Goto(n, "load", IF "NOTIFIED" \in flags THEN "idle"
                                    ELSE IF "EXT_LOCK" \in flags THEN "notify" ELSE "inner")
                 /\ Load(n)
                 /\ Owe(n) /\ UNCHANGED <<flags, borrow>>

NotifyLocked(n) == /\ Cas(n, "notify", prev[n] \cup {"NOTIFIED"}, "idle", "load")
                   /\ Owe(n) /\ UNCHANGED <<borrow, prev>>

\* Mutant: aborts without leaving the notification.
NotifyInnerAborts(n) == /\ Goto(n, "inner", IF Locked(flags) THEN "idle" ELSE "lock")
                        /\ Load(n)
                        /\ Owe(n) /\ UNCHANGED <<flags, borrow>>

NotifyInner(n) == /\ Goto(n, "inner", IF ~ Locked(flags) THEN "lock"
                                      ELSE IF "NOTIFIED" \in flags THEN "idle" ELSE "or")
                  /\ Load(n)
                  /\ Owe(n) /\ UNCHANGED <<flags, borrow>>

NotifyOr(n) == /\ Goto(n, "or", "idle")
               /\ flags' = flags \cup {"NOTIFIED"}
               /\ Owe(n) /\ UNCHANGED <<borrow, prev>>

NotifyLock(n) == /\ Cas(n, "lock", prev[n] \cup {"IRQ_LOCK", "NOTIFIED"}, "wake", "inner")
                 /\ Owe(n) /\ UNCHANGED <<borrow, prev>>

\* wake_by_ref of the waker, which is None.
NotifyWake(n) == Goto(n, "wake", "store") /\ Owe(n) /\ UNCHANGED <<flags, borrow, prev>>

\* Mutant: the interrupt lock stays set.
NotifyStoreLocked(n) == /\ Goto(n, "store", "idle")
                        /\ Owe(n) /\ UNCHANGED <<flags, borrow, prev>>

NotifyStore(n) == /\ Goto(n, "store", "idle")
                  /\ flags' = {"NOTIFIED"}
                  /\ Owe(n) /\ UNCHANGED <<borrow, prev>>

TryListen == /\ ~ borrow /\ borrow' = TRUE
             /\ Goto(Listener, "none", "idle")
             /\ UNCHANGED <<flags, prev, owed>>

CallPoll == Goto(Listener, "idle", "load") /\ UNCHANGED <<flags, borrow, prev, owed>>

\* The assertion, the wait for an interrupt handler, and the two branches.
PollLoad == /\ Goto(Listener, "load", IF "EXT_LOCK" \in flags THEN "panicked"
                                      ELSE IF "NOTIFIED" \notin flags THEN "or"
                                      ELSE IF "IRQ_LOCK" \in flags THEN "load" ELSE "lock")
            /\ Load(Listener)
            /\ UNCHANGED <<flags, borrow, owed>>

\* Mutant: the lock is taken without a look at what changed.
PollLockAnyway == /\ Goto(Listener, "lock", "take")
                  /\ flags' = {"NOTIFIED", "EXT_LOCK"}
                  /\ UNCHANGED <<borrow, prev, owed>>

PollLock == /\ Cas(Listener, "lock", {"NOTIFIED", "EXT_LOCK"}, "take", "load")
            /\ UNCHANGED <<borrow, prev, owed>>

PollTake == Goto(Listener, "take", "clear") /\ UNCHANGED <<flags, borrow, prev, owed>>

\* Ready.
PollClear == /\ Goto(Listener, "clear", "idle")
             /\ flags' = {}
             /\ owed' = FALSE
             /\ UNCHANGED <<borrow, prev>>

\* "attempt to register waker": sets the lock, and goes round the loop.
PollOr == /\ Goto(Listener, "or", "load")
          /\ flags' = flags \cup {"EXT_LOCK"}
          /\ UNCHANGED <<borrow, prev, owed>>

DropListen == /\ Goto(Listener, "idle", "none") \/ Goto(Listener, "panicked", "none")
              /\ borrow' = FALSE
              /\ UNCHANGED <<flags, prev, owed>>

Notify(n) == \/ NotifyLoad(n) \/ NotifyLocked(n) \/ NotifyInner(n) \/ NotifyOr(n)
             \/ NotifyLock(n) \/ NotifyWake(n) \/ NotifyStore(n)
Poll == PollLoad \/ PollLock \/ PollTake \/ PollClear \/ PollOr

SignalNext == \/ \E n \in Notifiers : CallNotify(n) \/ Notify(n)
              \/ TryListen \/ CallPoll \/ Poll \/ DropListen

\* Calls that began take their steps.
SignalFairness == (\A n \in Notifiers : WF_signal(Notify(n))) /\ WF_signal(Poll)
SignalSpec == SignalInit /\ [][SignalNext]_signal /\ SignalFairness
----------------------------------------------------------------------------
\* The waker is accessed by one notify or by the poll, never by two of them.
WakerExclusive == \A u, v \in Users :
  (step[u] \in {"wake", "store", "take", "clear"} /\
   step[v] \in {"wake", "store", "take", "clear"}) => u = v

\* A notification is never lost: once a notify returned, also because it found
\* the signal locked or notified already, the signal stays notified until a
\* poll returns Ready, whatever other notifies store over the flags.
NotifyKept == owed => "NOTIFIED" \in flags

\* Every poll of a listener ends, whatever interrupt handlers do: with Ready,
\* or, as long as registering the waker is not written, with the assertion.
PollEnds == (step[Listener] = "load") ~> (step[Listener] \in {"idle", "panicked"})
============================================================================
