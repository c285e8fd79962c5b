-------------------------- MODULE SoftwareVMProofs --------------------------
(***************************************************************************)
(* Proofs about the software VM: what MCSoftwareVM checks for two threads  *)
(* and small memories, for any threads, memories, requests and signals.    *)
(***************************************************************************)
EXTENDS MCSoftwareVM, DataLemmas, Sequences, SequenceTheorems, NaturalsInduction, WellFoundedInduction, TLAPS

-----------------------------------------------------------------------------
(* Signal actions.                                                         *)

Dispatches == {"store", "install"}
Places == {Signal!Original, Signal!Default, Signal!Unset} \cup Signal!Slots
Registering == [stage : Dispatches, signal : Signals, slot : Signal!Slots, previous : Places]
Selected == [stage : {"selected"}, signal : Signals, slot : Places, meant : Signal!Actions \cup {Signal!Empty}]

SignalTypes ==
    /\ handler \in [Signals -> {"host", "dispatch"}]
    /\ slots \in [Signal!Slots -> Signal!Actions \cup {Signal!Empty}]
    /\ current \in [Signals -> Places] /\ last \in [Signals -> Places]
    /\ count \in Nat /\ lock \in Threads \cup {Signal!Nobody}
    /\ thread \in [Threads -> {Signal!Idle} \cup Registering \cup Selected]

\* What start and stop have acquired so far, and the handlers of the host.
Hosted == \A i \in Signals : handler[i] = "host"
LifecycleIsOrdered ==
    \/ vm = "off" /\ ~guard /\ ~memory /\ ~enabled /\ Hosted
    \/ vm = "memory" /\ guard /\ memory /\ ~enabled /\ Hosted /\ \A t \in Threads : Signal!Free(t)
    \/ vm = "actions" /\ guard /\ memory /\ ~enabled /\ count >= 1
    \/ vm = "on" /\ guard /\ memory /\ enabled /\ Signal!Ready /\ count >= 1
    \/ vm = "stopping" /\ guard /\ memory /\ ~enabled

\* action_lock is held by the thread that registers, and only while it is on.
LockIsHeld ==
    \A t \in Threads : /\ thread[t].stage \in Dispatches <=> lock = t
                       /\ lock = t => vm = "on"

\* A slot that is in use was filled, and is below the next one to be.
Filled(slot) == slot \in Signal!Slots => slot < count /\ slots[slot] # Signal!Empty
SlotsAreFilled ==
    /\ \A i \in Signals : Filled(current[i]) /\ Filled(last[i])
    /\ \A t \in Threads :
         /\ thread[t].stage \in Dispatches => Filled(thread[t].slot) /\ Filled(thread[t].previous)
         /\ thread[t].stage = "selected" =>
              /\ Filled(thread[t].slot) /\ thread[t].slot \in chosen
              /\ thread[t].meant = Signal!Action(thread[t].slot)

\* A slot is the newest of a signal, or the newest one was chosen and reset.
StillNewest(slot, newest) ==
    slot = newest \/ (slot = Signal!Default /\ Signal!Action(newest).once /\ newest \in chosen)
NewestIsKept ==
    /\ \A i \in Signals :
         \/ StillNewest(current[i], last[i])
         \/ \E t \in Threads : thread[t].stage = "install" /\ thread[t].signal = i
    /\ \A t \in Threads :
         /\ thread[t].stage \in Dispatches => StillNewest(thread[t].previous, last[thread[t].signal])
         /\ thread[t].stage = "install" => StillNewest(current[thread[t].signal], thread[t].slot)

SignalInv == SignalTypes /\ LifecycleIsOrdered /\ LockIsHeld /\ SlotsAreFilled /\ NewestIsKept

\* The slots' special numbers are no slots, nobody is no thread, and no action is
\* an empty slot.
LEMMA SlotFacts ==
    /\ Signal!Slots \subseteq Nat \ {0}
    /\ Signal!Original \notin Signal!Slots /\ Signal!Default \notin Signal!Slots /\ Signal!Unset \notin Signal!Slots
    /\ Signal!Nobody \notin Threads
    /\ \A a \in Signal!Actions : a # Signal!Empty
    /\ ~Signal!Empty.once
BY ThreadAssumption, SignalAssumption
DEF Signal!Slots, Signal!Original, Signal!Default, Signal!Unset, Signal!Nobody, Signal!Actions, Signal!Empty

LEMMA SignalStarts == Signal!Init => SignalInv
<1> SUFFICES ASSUME Signal!Init PROVE SignalInv
  OBVIOUS
<1> USE SlotFacts DEF Signal!Init
<1>1. SignalTypes
  BY DEF SignalTypes, Places
<1>2. LifecycleIsOrdered
  BY DEF LifecycleIsOrdered, Hosted
<1>3. LockIsHeld /\ SlotsAreFilled /\ NewestIsKept
  BY DEF LockIsHeld, SlotsAreFilled, NewestIsKept, Dispatches, Signal!Idle, Filled, StillNewest
<1> QED
  BY <1>1, <1>2, <1>3 DEF SignalInv

\* Start and stop do not touch the slots but for emptying them, with no thread about.
LEMMA LifecycleKeeps ==
    ASSUME SignalInv,
           \/ Signal!StartMemory \/ Signal!StartActions \/ Signal!StartEnable \/ Signal!StopDisable \/ Signal!StopMemory
           \/ \E i \in Signals : Signal!StartHandler(i) \/ Signal!StopHandler(i)
    PROVE  SignalInv'
<1> USE SlotFacts DEF SignalInv, SignalTypes
<1>1. CASE Signal!StartActions
  <2> USE <1>1 DEF Signal!StartActions
  <2>1. SignalTypes'
    BY DEF Places
  <2>2. \A t \in Threads : thread'[t].stage = "idle"
    BY DEF LifecycleIsOrdered, Signal!Free
  <2>3. LifecycleIsOrdered'
    BY DEF LifecycleIsOrdered
  <2>4. LockIsHeld'
    BY <2>2 DEF LockIsHeld, LifecycleIsOrdered, Dispatches
  <2>5. SlotsAreFilled' /\ NewestIsKept'
    BY <2>2 DEF SlotsAreFilled, NewestIsKept, Filled, StillNewest, Dispatches
  <2> QED
    BY <2>1, <2>3, <2>4, <2>5
<1>2. CASE ~Signal!StartActions
  <2>1. UNCHANGED <<current, slots, count, lock, last, thread, chosen>>
    BY <1>2 DEF Signal!StartMemory, Signal!StartEnable, Signal!StopDisable, Signal!StopMemory,
                Signal!StartHandler, Signal!StopHandler, Signal!actions
  <2> USE <2>1
  <2>2. SignalTypes'
    BY <1>2 DEF Signal!StartMemory, Signal!StartEnable, Signal!StopDisable, Signal!StopMemory,
                Signal!StartHandler, Signal!StopHandler, Signal!StartFails
  <2>3. LifecycleIsOrdered'
    <3>1. CASE Signal!StartMemory
      BY <3>1 DEF Signal!StartMemory, LifecycleIsOrdered, Hosted, Signal!Free, Signal!Ready
    <3>2. CASE Signal!StartEnable \/ Signal!StopDisable \/ Signal!StopMemory
      BY <3>2 DEF Signal!StartEnable, Signal!StopDisable, Signal!StopMemory, Signal!Released, LifecycleIsOrdered, Hosted, Signal!Ready
    <3>3. ASSUME NEW i \in Signals, Signal!StartHandler(i)
          PROVE  LifecycleIsOrdered'
      BY <3>3 DEF Signal!StartHandler, Signal!StartFails, Signal!Released, LifecycleIsOrdered, Hosted
    <3>4. ASSUME NEW i \in Signals, Signal!StopHandler(i)
          PROVE  LifecycleIsOrdered'
      BY <3>4 DEF Signal!StopHandler, Signal!lifecycle, LifecycleIsOrdered
    <3> QED
      BY <1>2, <3>1, <3>2, <3>3, <3>4
  <2>4. vm = "on" /\ vm' # "on" => \A t \in Threads : Signal!Free(t)
    BY <1>2 DEF Signal!StartMemory, Signal!StartEnable, Signal!StopDisable, Signal!StopMemory,
                Signal!StartHandler, Signal!StopHandler, Signal!lifecycle
  <2>5. LockIsHeld'
    BY <2>4 DEF LockIsHeld, Signal!Free, Dispatches
  <2>6. SlotsAreFilled' /\ NewestIsKept'
    BY DEF SlotsAreFilled, NewestIsKept, Filled, StillNewest, Signal!Action
  <2> QED
    BY <2>2, <2>3, <2>5, <2>6
<1> QED
  BY <1>1, <1>2

\* What threads other than the one that steps have is as it was.
LEMMA OthersStay ==
    ASSUME SignalInv, NEW t \in Threads, NEW record, Signal!Becomes(t, record)
    PROVE  /\ thread'[t] = record
           /\ \A u \in Threads : u # t => thread'[u] = thread[u]
BY DEF SignalInv, SignalTypes, Signal!Becomes

\* gsv_sigaction: the next slot is one that nothing refers to.
LEMMA SigactionKeeps ==
    ASSUME SignalInv, NEW t \in Threads, NEW i \in Signals, NEW a \in Signal!Actions, Signal!Sigaction(t, i, a)
    PROVE  SignalInv'
<1> DEFINE record == [stage |-> "store", signal |-> i, slot |-> count, previous |-> current[i]]
<1> USE SlotFacts DEF SignalInv, SignalTypes, Signal!Sigaction, Signal!Fills, Signal!lifecycle
<1>1. /\ vm = "on" /\ count \in Signal!Slots
      /\ \A u \in Threads : thread[u].stage \notin Dispatches
      /\ thread[t].stage = "idle"
  BY SignalAssumption DEF LifecycleIsOrdered, Signal!Slots, LockIsHeld, Signal!Free
<1>2. record \in Registering
  BY <1>1 DEF Registering, Dispatches
<1>3. thread'[t] = record /\ \A u \in Threads : u # t => thread'[u] = thread[u]
  BY OthersStay
<1>4. SignalTypes'
  BY <1>1, <1>2 DEF Signal!Becomes
<1>5. LifecycleIsOrdered' /\ LockIsHeld'
  BY <1>1, <1>3 DEF LifecycleIsOrdered, LockIsHeld, Hosted, Signal!Ready, Signal!Free, Dispatches
<1>6. ASSUME NEW slot, Filled(slot)
      PROVE  Filled(slot)' /\ Signal!Action(slot)' = Signal!Action(slot)
  <2>1. slot \in Signal!Slots => slot \in Nat /\ slot < count
    BY <1>6 DEF Filled
  <2>2. slot \in Signal!Slots => slots'[slot] = slots[slot]
    BY <1>1, <2>1
  <2> QED
    BY <1>6, <2>1, <2>2 DEF Filled, Signal!Action
<1>7. \A slot : slot = count => Filled(slot)'
  BY <1>1 DEF Filled
<1>8. SlotsAreFilled'
  BY <1>1, <1>3, <1>6, <1>7 DEF SlotsAreFilled, Dispatches
<1>9. NewestIsKept'
  BY <1>1, <1>3, <1>6 DEF NewestIsKept, StillNewest, Dispatches, SlotsAreFilled
<1> QED
  BY <1>4, <1>5, <1>8, <1>9

\* The slot is published: the signal's newest action is on its way.
LEMMA PublishKeeps ==
    ASSUME SignalInv, NEW t \in Threads, Signal!Publish(t)
    PROVE  SignalInv'
<1> DEFINE record == [thread[t] EXCEPT !.stage = "install"]
<1> USE SlotFacts DEF SignalInv, SignalTypes, Signal!Publish, Signal!lifecycle
<1>1. thread[t] \in Registering /\ lock = t
  BY DEF LockIsHeld, Dispatches, Signal!Idle, Selected
<1>2. record \in Registering /\ record.signal = thread[t].signal /\ record.slot = thread[t].slot
      /\ record.previous = thread[t].previous /\ record.stage = "install"
  BY <1>1 DEF Registering, Dispatches
<1>3. thread'[t] = record /\ \A u \in Threads : u # t => thread'[u] = thread[u]
  BY OthersStay
<1>4. SignalTypes'
  BY <1>1, <1>2 DEF Signal!Becomes, Registering, Places
<1> HIDE DEF record
<1>5. LifecycleIsOrdered' /\ LockIsHeld'
  BY <1>1, <1>2, <1>3 DEF LifecycleIsOrdered, LockIsHeld, Hosted, Signal!Ready, Signal!Free, Dispatches
<1>6. \A slot : Filled(slot)' <=> Filled(slot)
  BY DEF Filled
<1>7. SlotsAreFilled'
  BY <1>1, <1>2, <1>3, <1>6 DEF SlotsAreFilled, Dispatches, Registering, Signal!Action
<1>8. \A slot, newest : StillNewest(slot, newest)' <=> StillNewest(slot, newest)
  BY DEF StillNewest, Signal!Action
<1>9. NewestIsKept'
  <2>1. \A u \in Threads : u # t => thread[u].stage \notin Dispatches
    BY <1>1 DEF LockIsHeld
  <2>2. StillNewest(thread[t].slot, thread[t].slot)
    BY DEF StillNewest
  <2> QED
    BY <1>1, <1>2, <1>3, <1>8, <2>1, <2>2 DEF NewestIsKept, Dispatches, Registering
<1> QED
  BY <1>4, <1>5, <1>7, <1>9

\* The handler is in place, or what was current before is so again.
LEMMA InstallKeeps ==
    ASSUME SignalInv, NEW t \in Threads, Signal!Install(t)
    PROVE  SignalInv'
<1> USE SlotFacts DEF SignalInv, SignalTypes, Signal!Install, Signal!InstallFails, Signal!lifecycle
<1>1. thread[t] \in Registering /\ lock = t
  BY DEF LockIsHeld, Dispatches, Signal!Idle, Selected
<1>2. thread'[t] = Signal!Idle /\ \A u \in Threads : u # t => thread'[u] = thread[u]
  BY OthersStay
<1>3. SignalTypes'
  BY <1>1 DEF Signal!Becomes, Registering, Places
<1>4. LifecycleIsOrdered' /\ LockIsHeld'
  BY <1>1, <1>2 DEF LifecycleIsOrdered, LockIsHeld, Hosted, Signal!Ready, Signal!Free, Dispatches, Signal!Idle
<1>5. \A slot : Filled(slot)' <=> Filled(slot)
  BY DEF Filled
<1>6. SlotsAreFilled'
  BY <1>1, <1>2, <1>5 DEF SlotsAreFilled, Dispatches, Registering, Signal!Action, Signal!Idle
<1>7. \A slot, newest : StillNewest(slot, newest)' <=> StillNewest(slot, newest)
  BY DEF StillNewest, Signal!Action
<1>8. NewestIsKept'
  <2>1. \A u \in Threads : u # t => thread[u].stage \notin Dispatches
    BY <1>1 DEF LockIsHeld
  <2> QED
    BY <1>1, <1>2, <1>7, <2>1 DEF NewestIsKept, Dispatches, Registering, Signal!Idle
<1> QED
  BY <1>3, <1>4, <1>6, <1>8

\* dispatch_signal chooses what is current: a slot that is filled.
LEMMA DispatchKeeps ==
    ASSUME SignalInv, NEW t \in Threads, NEW i \in Signals, NEW f \in Signal!Faults, Signal!Dispatch(t, i, f)
    PROVE  SignalInv'
<1> DEFINE record == [stage |-> "selected", signal |-> i, slot |-> current[i], meant |-> Signal!Action(current[i])]
<1> USE SlotFacts DEF SignalInv, SignalTypes, Signal!Dispatch, Signal!lifecycle, Signal!actions
<1>1. thread[t].stage = "idle" /\ vm # "memory" /\ chosen \subseteq chosen'
  BY DEF Signal!Free, LifecycleIsOrdered, Hosted
<1>2. \A slot : (Filled(slot)' <=> Filled(slot)) /\ Signal!Action(slot)' = Signal!Action(slot)
  BY DEF Filled, Signal!Action
<1>3. \A slot, newest : StillNewest(slot, newest) => StillNewest(slot, newest)'
  BY <1>1, <1>2 DEF StillNewest
<1>4. CASE UNCHANGED <<thread, chosen>>
  BY <1>1, <1>2, <1>3, <1>4
  DEF LifecycleIsOrdered, Hosted, Signal!Ready, Signal!Free, LockIsHeld, SlotsAreFilled, NewestIsKept
<1>5. CASE Signal!Becomes(t, record) /\ chosen' = chosen \cup {current[i]}
  <2>1. Signal!Action(current[i]) \in Signal!Actions \cup {Signal!Empty}
    BY DEF Signal!Action
  <2>2. record \in Selected
    BY <2>1 DEF Selected
  <2>3. thread'[t] = record /\ \A u \in Threads : u # t => thread'[u] = thread[u]
    BY <1>5, OthersStay
  <2>4. SignalTypes'
    BY <1>5, <2>2 DEF Signal!Becomes
  <2>5. LifecycleIsOrdered' /\ LockIsHeld'
    BY <1>1, <2>3 DEF LifecycleIsOrdered, LockIsHeld, Hosted, Signal!Ready, Signal!Free, Dispatches
  <2>6. SlotsAreFilled'
    BY <1>1, <1>2, <1>5, <2>3 DEF SlotsAreFilled, Dispatches
  <2>7. NewestIsKept'
    BY <1>1, <1>3, <2>3 DEF NewestIsKept, Dispatches
  <2> QED
    BY <2>4, <2>5, <2>6, <2>7
<1> QED
  BY <1>4, <1>5

\* A one-shot action is reset by comparing: only if it still is the current one,
\* and then the newest one was chosen.
LEMMA SelectKeeps ==
    ASSUME SignalInv, NEW t \in Threads, Signal!Select(t)
    PROVE  SignalInv'
<1> DEFINE i == thread[t].signal
           slot == thread[t].slot
<1> USE SlotFacts DEF SignalInv, SignalTypes, Signal!Select, Signal!lifecycle
<1>1. thread[t] \in Selected /\ i \in Signals
  BY DEF Selected, Registering, Dispatches, Signal!Idle
<1>2. thread'[t] = Signal!Idle /\ \A u \in Threads : u # t => thread'[u] = thread[u]
  BY OthersStay
<1>3. \/ UNCHANGED current
      \/ /\ Signal!Action(slot).once /\ slot \in chosen /\ current[i] = slot
         /\ current' = [current EXCEPT ![i] = Signal!Default]
  BY <1>1 DEF Signal!Reset, SlotsAreFilled
<1>4. SignalTypes'
  BY <1>1, <1>3 DEF Signal!Becomes, Places
<1>5. LifecycleIsOrdered' /\ LockIsHeld'
  BY <1>1, <1>2 DEF LifecycleIsOrdered, LockIsHeld, Hosted, Signal!Ready, Signal!Free, Dispatches, Signal!Idle, Selected
<1>6. \A s : (Filled(s)' <=> Filled(s)) /\ Signal!Action(s)' = Signal!Action(s)
  BY DEF Filled, Signal!Action
<1>7. \A s, newest : StillNewest(s, newest)' <=> StillNewest(s, newest)
  BY <1>6 DEF StillNewest
<1>8. Filled(Signal!Default)
  BY DEF Filled
<1>9. SlotsAreFilled'
  BY <1>1, <1>2, <1>3, <1>6, <1>8 DEF SlotsAreFilled, Dispatches, Signal!Idle
<1>10. NewestIsKept'
  <2>1. \A newest : StillNewest(current[i], newest) => StillNewest(current'[i], newest)
    <3>1. \A newest : current[i] = Signal!Default => ~Signal!Action(current[i]).once
      BY DEF Signal!Action
    <3> QED
      BY <1>1, <1>3, <3>1 DEF StillNewest
  <2>2. \A u \in Threads : thread'[u].stage \in Dispatches =>
            u # t /\ thread'[u] = thread[u] /\ thread[u].signal \in Signals
    BY <1>2 DEF Dispatches, Signal!Idle, Selected, Registering
  <2>3. \A u \in Threads : thread[u].stage = "install" => thread'[u] = thread[u]
    BY <1>1, <1>2 DEF Selected
  <2>4. ASSUME NEW j \in Signals
        PROVE  (StillNewest(current[j], last[j]) \/ \E u \in Threads : thread[u].stage = "install" /\ thread[u].signal = j)'
    <3>1. CASE StillNewest(current[j], last[j])
      <4>1. StillNewest(current'[j], last[j])
        BY <1>1, <1>3, <2>1, <3>1
      <4> QED
        BY <1>6, <4>1 DEF StillNewest
    <3> QED
      BY <2>3, <3>1 DEF NewestIsKept
  <2>5. ASSUME NEW u \in Threads, thread'[u].stage \in Dispatches
        PROVE  StillNewest(thread[u].previous, last[thread[u].signal])'
    BY <1>6, <2>2, <2>5 DEF NewestIsKept, StillNewest
  <2>6. ASSUME NEW u \in Threads, thread'[u].stage = "install"
        PROVE  StillNewest(current[thread[u].signal], thread[u].slot)'
    <3>1. thread'[u] = thread[u] /\ thread[u].signal \in Signals
      BY <2>2, <2>6 DEF Dispatches
    <3>2. StillNewest(current'[thread[u].signal], thread[u].slot)
      BY <1>1, <1>3, <2>1, <2>6, <3>1 DEF NewestIsKept
    <3> QED
      BY <1>6, <3>1, <3>2 DEF StillNewest
  <2> QED
    BY <2>4, <2>5, <2>6 DEF NewestIsKept
<1> QED
  BY <1>4, <1>5, <1>9, <1>10

LEMMA SignalStepKeeps ==
    ASSUME SignalInv, Signal!Next
    PROVE  SignalInv'
BY LifecycleKeeps, SigactionKeeps, PublishKeeps, InstallKeeps, DispatchKeeps, SelectKeeps DEF Signal!Next

LEMMA SignalStutters ==
    ASSUME SignalInv, UNCHANGED signalVars
    PROVE  SignalInv'
BY DEF signalVars, SignalInv, SignalTypes, LifecycleIsOrdered, Hosted, Signal!Ready, Signal!Free, LockIsHeld,
       SlotsAreFilled, Filled, Signal!Action, NewestIsKept, StillNewest

\* GuestSoftwareVM.c's signal handling for any threads, signals, actions and any
\* number of slots and faults: starting and stopping leave whole handlers or none,
\* a late reset of a one-shot action takes no newer action away, and what a
\* dispatch reads is the action it chose.
THEOREM SignalsAreStable == Spec => []ActionsAreStable
<1> DEFINE Inv == subject = "signal" => SignalInv
<1>1. Init => Inv
  BY SignalStarts DEF Init
<1>2. Inv /\ [Next]_vars => Inv'
  <2> SUFFICES ASSUME Inv, [Next]_vars PROVE Inv'
    OBVIOUS
  <2>1. CASE InSignal /\ Signal!Next
    BY <2>1, SignalStepKeeps DEF InSignal
  <2>2. CASE ~(InSignal /\ Signal!Next)
    <3>1. UNCHANGED <<subject, signalVars>>
      BY <2>2 DEF Next, InSequence, InMapping, InCode, vars
    <3> QED
      BY <3>1, SignalStutters
  <2> QED
    BY <2>1, <2>2
<1>3. Inv => ActionsAreStable
  <2> SUFFICES ASSUME SignalInv
               PROVE  Signal!LifecycleIsWhole /\ Signal!NewestActionStays /\ Signal!ChosenActionsAreStable
    BY DEF ActionsAreStable
  <2> USE SlotFacts DEF SignalInv, SignalTypes
  <2>1. Signal!LifecycleIsWhole
    BY DEF LifecycleIsOrdered, Hosted, Signal!Ready, Signal!LifecycleIsWhole
  <2>2. Signal!NewestActionStays
    BY DEF NewestIsKept, LockIsHeld, Dispatches, StillNewest, Signal!NewestActionStays
  <2>3. Signal!ChosenActionsAreStable
    BY DEF SlotsAreFilled, Filled, Signal!Action, Signal!ChosenActionsAreStable
  <2> QED
    BY <2>1, <2>2, <2>3
<1> QED
  BY <1>1, <1>2, <1>3, PTL DEF Spec

-----------------------------------------------------------------------------
(* Sequences of exclusive instructions.                                    *)

SequenceStates == [active : BOOLEAN, steps : Nat, next : Sequence!Instructions \cup {"none"}, value : Nat, saved : Nat]
Outcomes == {"OK", "UNSUPPORTED", "FAULT"}

SequenceTypes ==
    /\ link \in [Threads -> SUBSET Int]
    /\ data[Counter] \in Nat /\ stores \in Nat
    /\ seq \in [Threads -> SequenceStates]
    /\ \A t \in Threads : seq[t].active => seq[t].next \in Sequence!Instructions
    /\ outcome \in [Threads -> Outcomes] /\ wrote \in [Threads -> BOOLEAN]

\* A load-exclusive that still stands has read what the counter is.
LinksAreTrue == \A t \in Threads : seq[t].active /\ Counter \in link[t] => seq[t].value = data[Counter]

\* A sequence that has changed memory is over, and was carried out.
WritesEnd == \A t \in Threads : wrote[t] => ~seq[t].active /\ outcome[t] = "OK"

SequenceInv == SequenceTypes /\ LinksAreTrue /\ WritesEnd /\ Sequence!NoLostUpdate

LEMMA CellFacts ==
    /\ Counter \in Int /\ Other \in Int /\ Counter \in Sequence!Cells /\ Counter # Other
    /\ Sequence!Span(Counter, 1) = {Counter} /\ Sequence!Span(Other, 1) = {Other}
<1>1. FirstPage \in Nat /\ LastPage \in Nat /\ PageCells \in Nat
  BY SequenceAssumption
<1>2. FirstPage * PageCells \in Int /\ (LastPage + 1) * PageCells - 1 \in Int
  BY <1>1
<1>3. \A c \in Sequence!Cells : c \in Int
  BY <1>2 DEF Sequence!Cells
<1> QED
  BY <1>3, SequenceAssumption DEF Sequence!Span

LEMMA SuccIsNumber == \A v \in Nat : Sequence!Succ(v) \in Nat
BY SequenceAssumption DEF Sequence!Succ

\* Writing some cells breaks the links to them, and no link grows.
LEMMA BreakingBreaks ==
    ASSUME SequenceTypes, NEW C, Sequence!Breaking(C)
    PROVE  /\ link' \in [Threads -> SUBSET Int]
           /\ \A t \in Threads : link'[t] \subseteq link[t] /\ (link[t] \cap C # {} => link'[t] = {})
BY DEF SequenceTypes, Sequence!Breaking

\* What an access that faults returns.
LEMMA FaultsAreNot ==
    ASSUME NEW op, NEW a, NEW n, NEW need, Sequence!Faults(op, a, n, need)
    PROVE  /\ reply'[2] \in {"PROTECTION", "UNMAPPED"}
           /\ UNCHANGED <<perm, data, link>>
BY DEF Sequence!Faults, Sequence!Refuses, Sequence!Access

\* A load-exclusive reads the counter and links to it.
LEMMA LoadExclusiveEffect ==
    ASSUME SequenceTypes, NEW t \in Threads, Sequence!LoadExclusive(t, Counter, 1)
    PROVE  /\ data' = data /\ link' \in [Threads -> SUBSET Int]
           /\ \A u \in Threads : u # t => link'[u] = link[u]
           /\ \/ reply'[2] = "OK" /\ reply'[3][1] = data[Counter]
              \/ reply'[2] \in {"PROTECTION", "UNMAPPED"}
<1>1. CASE Sequence!Faults("load", Counter, 1, {"r"})
  BY <1>1, FaultsAreNot DEF SequenceTypes
<1>2. CASE /\ reply' = <<"load", "OK", Sequence!Contents(Counter, 1)>>
           /\ link' = [link EXCEPT ![t] = Sequence!Span(Counter, 1)]
           /\ UNCHANGED <<perm, data>>
  <2>1. Sequence!Contents(Counter, 1)[1] = data[Counter]
    BY CellFacts DEF Sequence!Contents
  <2> QED
    BY <1>2, <2>1, CellFacts DEF SequenceTypes
<1> QED
  BY <1>1, <1>2 DEF Sequence!LoadExclusive

\* A store-exclusive that stores finds its own link and breaks every one.
LEMMA StoreExclusiveEffect ==
    ASSUME SequenceTypes, NEW t \in Threads, NEW v, Sequence!StoreExclusive(t, Counter, <<v>>)
    PROVE  /\ link' \in [Threads -> SUBSET Int]
           /\ \A u \in Threads : link'[u] \subseteq link[u]
           /\ \/ /\ reply'[2] = "STORED" /\ Counter \in link[t] /\ data'[Counter] = v
                 /\ \A u \in Threads : Counter \notin link'[u]
              \/ reply'[2] \in {"LOST", "NOMEM", "PROTECTION", "UNMAPPED"} /\ data' = data
<1> USE CellFacts DEF SequenceTypes
<1>0. Len(<<v>>) = 1 /\ <<v>>[1] = v
  OBVIOUS
<1>1. CASE Sequence!Refuses("store", "NOMEM")
  BY <1>1 DEF Sequence!Refuses
<1>2. CASE Sequence!Faults("store", Counter, Len(<<v>>), {"w"})
  BY <1>2, FaultsAreNot
<1>3. CASE /\ reply' = <<"store", "LOST">> /\ link' = [link EXCEPT ![t] = {}]
           /\ UNCHANGED <<perm, data>>
  BY <1>3
<1>4. CASE /\ link[t] = Sequence!Span(Counter, Len(<<v>>))
           /\ reply' = <<"store", "STORED">> /\ Sequence!Stores(Counter, <<v>>)
  <2>1. link[t] = {Counter}
    BY <1>0, <1>4
  <2>2. data'[Counter] = v
    <3>1. data' = [c \in Sequence!Cells |-> IF c \in {Counter} THEN <<v>>[c - Counter + 1] ELSE data[c]]
      BY <1>0, <1>4 DEF Sequence!Stores
    <3>2. data'[Counter] = <<v>>[Counter - Counter + 1]
      BY <3>1
    <3>3. Counter - Counter + 1 = 1
      OBVIOUS
    <3> QED
      BY <1>0, <3>2, <3>3
  <2>3. Sequence!Breaking({Counter})
    BY <1>0, <1>4 DEF Sequence!Stores
  <2>4. /\ link' \in [Threads -> SUBSET Int]
        /\ \A u \in Threads : link'[u] \subseteq link[u] /\ (link[u] \cap {Counter} # {} => link'[u] = {})
    BY <2>3, BreakingBreaks
  <2> QED
    BY <1>4, <2>1, <2>2, <2>4
<1> QED
  BY <1>1, <1>2, <1>3, <1>4 DEF Sequence!StoreExclusive

\* A plain write to the other cell leaves the counter and no link grows.
LEMMA WriteEffect ==
    ASSUME SequenceTypes, NEW v, Sequence!Write(Other, <<v>>)
    PROVE  /\ link' \in [Threads -> SUBSET Int]
           /\ \A u \in Threads : link'[u] \subseteq link[u]
           /\ data'[Counter] = data[Counter]
           /\ reply'[2] \in {"OK", "NOMEM", "PROTECTION", "UNMAPPED"}
<1> USE CellFacts DEF SequenceTypes
<1>0. Len(<<v>>) = 1
  OBVIOUS
<1>1. CASE Sequence!Refuses("write", "NOMEM")
  BY <1>1 DEF Sequence!Refuses
<1>2. CASE Sequence!Faults("write", Other, Len(<<v>>), {"w"})
  BY <1>2, FaultsAreNot
<1>3. CASE reply' = <<"write", "OK">> /\ Sequence!Stores(Other, <<v>>)
  <2>1. Sequence!Breaking({Other})
    BY <1>0, <1>3 DEF Sequence!Stores
  <2>2. data'[Counter] = data[Counter]
    BY <1>0, <1>3 DEF Sequence!Stores
  <2> QED
    BY <1>3, <2>1, <2>2, BreakingBreaks
<1> QED
  BY <1>1, <1>2, <1>3 DEF Sequence!Write

\* A sequence's record after the handler has returned, and after one more step.
LEMMA RunRecords ==
    ASSUME NEW s \in SequenceStates
    PROVE  /\ \A v \in Nat : [Sequence!NoSequence EXCEPT !.value = v] \in SequenceStates
           /\ \A v \in Nat : [s EXCEPT !.value = v] \in SequenceStates
           /\ \A next \in Sequence!Instructions : [s EXCEPT !.steps = @ + 1, !.next = next] \in SequenceStates
           /\ \A first \in Sequence!Instructions, v \in Nat :
                 [s EXCEPT !.active = TRUE, !.next = first, !.saved = v] \in SequenceStates
<1>1. \A v \in Nat : [Sequence!NoSequence EXCEPT !.value = v] \in SequenceStates
  BY DEF SequenceStates, Sequence!NoSequence
<1>2. \A v \in Nat : [s EXCEPT !.value = v] \in SequenceStates
  BY DEF SequenceStates
<1>3. \A n \in Nat, next \in Sequence!Instructions : [s EXCEPT !.steps = n, !.next = next] \in SequenceStates
  BY DEF SequenceStates
<1>4. s.steps + 1 \in Nat
  BY DEF SequenceStates
<1>5. \A next \in Sequence!Instructions : [s EXCEPT !.steps = @ + 1, !.next = next] \in SequenceStates
  BY <1>3, <1>4
<1>6. \A first \in Sequence!Instructions, v \in Nat : [s EXCEPT !.active = TRUE, !.next = first, !.saved = v] \in SequenceStates
  BY DEF SequenceStates
<1> QED
  BY <1>1, <1>2, <1>5, <1>6

\* The handler's return: the thread is out of its sequence.
LEMMA ReturnsEffect ==
    ASSUME SequenceTypes, NEW t \in Threads, NEW s \in SequenceStates, NEW result \in Outcomes, Sequence!Returns(t, result, s)
    PROVE  /\ seq' \in [Threads -> SequenceStates] /\ outcome' \in [Threads -> Outcomes]
           /\ \A u \in Threads : u # t => seq'[u] = seq[u] /\ outcome'[u] = outcome[u]
           /\ ~seq'[t].active /\ outcome'[t] = result
<1> DEFINE v == IF result = "OK" THEN s.value ELSE s.saved
<1>1. v \in Nat
  BY DEF SequenceStates
<1>2. [Sequence!NoSequence EXCEPT !.value = v] \in SequenceStates /\ ~[Sequence!NoSequence EXCEPT !.value = v].active
  <2> HIDE DEF v
  <2> QED
    BY <1>1, RunRecords DEF Sequence!NoSequence
<1>3. seq' = [seq EXCEPT ![t] = [Sequence!NoSequence EXCEPT !.value = v]] /\ outcome' = [outcome EXCEPT ![t] = result]
  BY DEF Sequence!Returns
<1> HIDE DEF v
<1> QED
  BY <1>2, <1>3 DEF SequenceTypes

\* The sequence goes on with what it has in its register, or is rejected.
LEMMA ContinuesEffect ==
    ASSUME SequenceTypes, NEW t \in Threads, NEW s \in SequenceStates, s.active, Sequence!Continues(t, s)
    PROVE  /\ seq' \in [Threads -> SequenceStates] /\ outcome' \in [Threads -> Outcomes]
           /\ \A u \in Threads : u # t => seq'[u] = seq[u] /\ outcome'[u] = outcome[u]
           /\ \/ ~seq'[t].active
              \/ seq'[t].active /\ seq'[t].value = s.value /\ seq'[t].next \in Sequence!Instructions
<1>1. CASE Sequence!Returns(t, "UNSUPPORTED", s)
  BY <1>1, ReturnsEffect DEF Outcomes
<1>2. CASE /\ \E next \in Sequence!Instructions : seq' = [seq EXCEPT ![t] = [s EXCEPT !.steps = @ + 1, !.next = next]]
           /\ UNCHANGED outcome
  <2> PICK next \in Sequence!Instructions : seq' = [seq EXCEPT ![t] = [s EXCEPT !.steps = @ + 1, !.next = next]]
    BY <1>2
  <2> DEFINE r == [s EXCEPT !.steps = @ + 1, !.next = next]
  <2>1. r \in SequenceStates
    BY RunRecords
  <2>2. r.active /\ r.value = s.value /\ r.next = next
    BY DEF SequenceStates
  <2>3. seq'[t] = r
    BY DEF SequenceTypes
  <2> QED
    BY <1>2, <2>1, <2>2, <2>3 DEF SequenceTypes
<1> QED
  BY <1>1, <1>2 DEF Sequence!Continues

\* After an access: a fault or the last instruction ends the sequence.
LEMMA AfterEffect ==
    ASSUME SequenceTypes, NEW t \in Threads, NEW s \in SequenceStates, s.active, NEW over \in BOOLEAN, Sequence!After(t, s, over)
    PROVE  /\ seq' \in [Threads -> SequenceStates] /\ outcome' \in [Threads -> Outcomes]
           /\ \A u \in Threads : u # t => seq'[u] = seq[u] /\ outcome'[u] = outcome[u]
           /\ \/ ~seq'[t].active
              \/ seq'[t].active /\ seq'[t].value = s.value /\ seq'[t].next \in Sequence!Instructions
           /\ reply'[2] \in {"OK", "STORED", "LOST"} /\ over => ~seq'[t].active /\ outcome'[t] = "OK"
           /\ over \/ reply'[2] \notin {"OK", "STORED", "LOST"} => ~seq'[t].active
<1>1. CASE reply'[2] \notin {"OK", "STORED", "LOST"}
  <2>1. Sequence!Returns(t, "FAULT", s)
    BY <1>1 DEF Sequence!After
  <2> QED
    BY <1>1, <2>1, ReturnsEffect DEF Outcomes
<1>2. CASE reply'[2] \in {"OK", "STORED", "LOST"} /\ over
  <2>1. Sequence!Returns(t, "OK", s)
    BY <1>2 DEF Sequence!After
  <2> QED
    BY <1>2, <2>1, ReturnsEffect DEF Outcomes
<1>3. CASE reply'[2] \in {"OK", "STORED", "LOST"} /\ ~over
  <2>1. Sequence!Continues(t, s)
    BY <1>3 DEF Sequence!After
  <2> QED
    BY <1>3, <2>1, ContinuesEffect
<1> QED
  BY <1>1, <1>2, <1>3

\* A step that leaves the counter alone and makes no link keeps the invariant if
\* it keeps the register of a sequence that goes on, and records no write of it.
LEMMA QuietStepKeeps ==
    ASSUME SequenceInv, NEW t \in Threads,
           data'[Counter] = data[Counter], stores' = stores,
           link' \in [Threads -> SUBSET Int], \A u \in Threads : link'[u] \subseteq link[u],
           seq' \in [Threads -> SequenceStates], outcome' \in [Threads -> Outcomes], wrote' \in [Threads -> BOOLEAN],
           \A u \in Threads : u # t => seq'[u] = seq[u] /\ outcome'[u] = outcome[u] /\ wrote'[u] = wrote[u],
           seq'[t].active => /\ seq[t].active /\ seq'[t].value = seq[t].value
                             /\ seq'[t].next \in Sequence!Instructions,
           wrote'[t] => ~seq'[t].active /\ outcome'[t] = "OK"
    PROVE  SequenceInv'
<1> USE DEF SequenceInv
<1>1. SequenceTypes'
  BY DEF SequenceTypes
<1>2. LinksAreTrue'
  BY DEF LinksAreTrue
<1>3. WritesEnd'
  BY DEF WritesEnd
<1>4. Sequence!NoLostUpdate'
  BY DEF Sequence!NoLostUpdate
<1> QED
  BY <1>1, <1>2, <1>3, <1>4

LEMMA LoadsExclusiveKeeps ==
    ASSUME SequenceInv, NEW t \in Threads, seq[t].active, Sequence!LoadsExclusive(t)
    PROVE  SequenceInv'
<1> DEFINE s == IF reply'[2] = "OK" THEN [seq[t] EXCEPT !.value = reply'[3][1]] ELSE seq[t]
<1> USE DEF SequenceInv
<1>1. seq[t] \in SequenceStates /\ data[Counter] \in Nat
  BY DEF SequenceTypes
<1>2. /\ data' = data /\ link' \in [Threads -> SUBSET Int]
      /\ \A u \in Threads : u # t => link'[u] = link[u]
      /\ \/ reply'[2] = "OK" /\ reply'[3][1] = data[Counter]
         \/ reply'[2] \in {"PROTECTION", "UNMAPPED"}
  BY LoadExclusiveEffect DEF Sequence!LoadsExclusive
<1>3. s \in SequenceStates /\ s.active /\ (reply'[2] = "OK" => s.value = data[Counter])
  <2>1. CASE reply'[2] = "OK"
    <3>1. s = [seq[t] EXCEPT !.value = data[Counter]]
      BY <1>2, <2>1
    <3>2. [seq[t] EXCEPT !.value = data[Counter]] \in SequenceStates
      BY <1>1, RunRecords
    <3> QED
      BY <1>1, <3>1, <3>2 DEF SequenceStates
  <2>2. CASE reply'[2] # "OK"
    BY <1>1, <2>2
  <2> QED
    BY <2>1, <2>2
<1>4. Sequence!After(t, s, FALSE) /\ UNCHANGED <<wrote, stores>>
  BY DEF Sequence!LoadsExclusive
<1> HIDE DEF s
<1>5. /\ seq' \in [Threads -> SequenceStates] /\ outcome' \in [Threads -> Outcomes]
      /\ \A u \in Threads : u # t => seq'[u] = seq[u] /\ outcome'[u] = outcome[u]
      /\ \/ ~seq'[t].active
         \/ seq'[t].active /\ seq'[t].value = s.value /\ seq'[t].next \in Sequence!Instructions
      /\ reply'[2] \notin {"OK", "STORED", "LOST"} => ~seq'[t].active
  BY <1>3, <1>4, AfterEffect
<1>6. SequenceTypes'
  BY <1>2, <1>4, <1>5 DEF SequenceTypes
<1>7. LinksAreTrue'
  BY <1>2, <1>3, <1>5 DEF LinksAreTrue
<1>8. WritesEnd'
  BY <1>4, <1>5 DEF WritesEnd
<1>9. Sequence!NoLostUpdate'
  BY <1>2, <1>4 DEF Sequence!NoLostUpdate
<1> QED
  BY <1>6, <1>7, <1>8, <1>9

LEMMA StoresExclusiveKeeps ==
    ASSUME SequenceInv, NEW t \in Threads, seq[t].active, Sequence!StoresExclusive(t)
    PROVE  SequenceInv'
<1> DEFINE v == Sequence!Succ(seq[t].value)
<1> USE DEF SequenceInv
<1>1. seq[t] \in SequenceStates /\ v \in Nat /\ ~wrote[t]
  BY SuccIsNumber DEF SequenceTypes, SequenceStates, WritesEnd
<1>2. /\ Sequence!StoreExclusive(t, Counter, <<v>>) /\ Sequence!After(t, seq[t], TRUE)
      /\ wrote' = [wrote EXCEPT ![t] = @ \/ reply'[2] = "STORED"]
      /\ stores' = IF reply'[2] = "STORED" THEN Sequence!Succ(stores) ELSE stores
  BY DEF Sequence!StoresExclusive, Sequence!Changes
<1>3. seq[t].value = data[Counter] \/ Counter \notin link[t]
  BY DEF LinksAreTrue
<1>3a. v = Sequence!Succ(stores) \/ Counter \notin link[t]
  BY <1>3 DEF Sequence!NoLostUpdate
<1> HIDE DEF v
<1>4. /\ link' \in [Threads -> SUBSET Int]
      /\ \A u \in Threads : link'[u] \subseteq link[u]
      /\ \/ /\ reply'[2] = "STORED" /\ Counter \in link[t] /\ data'[Counter] = v
            /\ \A u \in Threads : Counter \notin link'[u]
         \/ reply'[2] \in {"LOST", "NOMEM", "PROTECTION", "UNMAPPED"} /\ data' = data
  BY <1>2, StoreExclusiveEffect
<1>5. /\ seq' \in [Threads -> SequenceStates] /\ outcome' \in [Threads -> Outcomes]
      /\ \A u \in Threads : u # t => seq'[u] = seq[u] /\ outcome'[u] = outcome[u]
      /\ ~seq'[t].active /\ (reply'[2] = "STORED" => outcome'[t] = "OK")
  BY <1>1, <1>2, AfterEffect
<1>6. /\ wrote' \in [Threads -> BOOLEAN] /\ \A u \in Threads : u # t => wrote'[u] = wrote[u]
      /\ wrote'[t] => reply'[2] = "STORED"
  BY <1>1, <1>2 DEF SequenceTypes
<1>7. CASE reply'[2] = "STORED"
  <2>1. data'[Counter] = stores' /\ stores' \in Nat
    BY <1>1, <1>2, <1>3a, <1>4, <1>7
  <2>2. SequenceTypes'
    BY <1>4, <1>5, <1>6, <2>1 DEF SequenceTypes
  <2>3. LinksAreTrue'
    BY <1>4, <1>7 DEF LinksAreTrue
  <2>4. WritesEnd'
    BY <1>5, <1>6 DEF WritesEnd
  <2> QED
    BY <2>1, <2>2, <2>3, <2>4 DEF Sequence!NoLostUpdate
<1>8. CASE reply'[2] # "STORED"
  BY <1>2, <1>4, <1>5, <1>6, <1>8, QuietStepKeeps
<1> QED
  BY <1>7, <1>8

LEMMA PlainAccessKeeps ==
    ASSUME SequenceInv, NEW t \in Threads, seq[t].active, Sequence!LoadsPlainly(t) \/ Sequence!StoresPlainly(t)
    PROVE  SequenceInv'
<1> USE DEF SequenceInv
<1>1. seq[t] \in SequenceStates /\ ~wrote[t]
  BY DEF SequenceTypes, WritesEnd
<1>2. CASE Sequence!LoadsPlainly(t)
  <2>1. data' = data /\ link' = link /\ Sequence!After(t, seq[t], FALSE) /\ UNCHANGED <<wrote, stores>>
    BY <1>2, FaultsAreNot DEF Sequence!LoadsPlainly, Sequence!Read, Sequence!Yields
  <2> QED
    BY <1>1, <2>1, AfterEffect, QuietStepKeeps DEF SequenceTypes
<1>3. CASE Sequence!StoresPlainly(t)
  <2> PICK v \in Byte : Sequence!Write(Other, <<v>>)
    BY <1>3 DEF Sequence!StoresPlainly
  <2>1. Sequence!After(t, seq[t], TRUE) /\ stores' = stores /\ wrote' = [wrote EXCEPT ![t] = @ \/ reply'[2] = "OK"]
    BY <1>3 DEF Sequence!StoresPlainly, Sequence!Changes
  <2>2. /\ wrote' \in [Threads -> BOOLEAN] /\ \A u \in Threads : u # t => wrote'[u] = wrote[u]
        /\ wrote'[t] => reply'[2] = "OK"
    BY <1>1, <2>1 DEF SequenceTypes
  <2>3. /\ seq' \in [Threads -> SequenceStates] /\ outcome' \in [Threads -> Outcomes]
        /\ \A u \in Threads : u # t => seq'[u] = seq[u] /\ outcome'[u] = outcome[u]
        /\ ~seq'[t].active /\ (reply'[2] = "OK" => outcome'[t] = "OK")
    BY <1>1, <2>1, AfterEffect
  <2>4. /\ link' \in [Threads -> SUBSET Int]
        /\ \A u \in Threads : link'[u] \subseteq link[u]
        /\ data'[Counter] = data[Counter]
    BY WriteEffect
  <2> QED
    BY <2>1, <2>2, <2>3, <2>4, QuietStepKeeps
<1> QED
  BY <1>2, <1>3

LEMMA LeavesMemoryKeeps ==
    ASSUME SequenceInv, NEW t \in Threads, seq[t].active, Sequence!LeavesMemory(t),
           seq[t].next \in {"register", "clrex", "branch", "unknown", "unreadable"}
    PROVE  SequenceInv'
<1> USE DEF SequenceInv
<1>1. seq[t] \in SequenceStates /\ ~wrote[t]
  BY DEF SequenceTypes, WritesEnd
<1>2. \/ Sequence!Continues(t, seq[t])
      \/ \E result \in Outcomes : Sequence!Returns(t, result, seq[t])
  BY DEF Sequence!LeavesMemory, Outcomes
<1>3. UNCHANGED <<data, link, wrote, stores>>
  BY DEF Sequence!LeavesMemory
<1>4. /\ seq' \in [Threads -> SequenceStates] /\ outcome' \in [Threads -> Outcomes]
      /\ \A u \in Threads : u # t => seq'[u] = seq[u] /\ outcome'[u] = outcome[u]
      /\ \/ ~seq'[t].active
         \/ seq'[t].active /\ seq'[t].value = seq[t].value /\ seq'[t].next \in Sequence!Instructions
  BY <1>1, <1>2, ContinuesEffect, ReturnsEffect
<1> QED
  BY <1>1, <1>3, <1>4, QuietStepKeeps DEF SequenceTypes

\* A sequence begins with no link and nothing written.
LEMMA TrapKeeps ==
    ASSUME SequenceInv, NEW t \in Threads, Sequence!Trap(t)
    PROVE  SequenceInv'
<1> USE DEF SequenceInv
<1> PICK first \in {"ldxr", "stxr"} :
        seq' = [seq EXCEPT ![t] = [@ EXCEPT !.active = TRUE, !.next = first, !.saved = seq[t].value]]
  BY DEF Sequence!Trap
<1> DEFINE r == [seq[t] EXCEPT !.active = TRUE, !.next = first, !.saved = seq[t].value]
<1>1. first \in Sequence!Instructions /\ seq[t] \in SequenceStates
  BY DEF Sequence!Instructions, SequenceTypes
<1>2. seq[t].value \in Nat
  BY <1>1 DEF SequenceStates
<1>3. r \in SequenceStates
  BY <1>1, <1>2, RunRecords
<1>4. r.next = first
  BY <1>1 DEF SequenceStates
<1>5. seq'[t] = r /\ \A u \in Threads : u # t => seq'[u] = seq[u]
  BY DEF SequenceTypes
<1>6. /\ link' = [link EXCEPT ![t] = {}] /\ wrote' = [wrote EXCEPT ![t] = FALSE]
      /\ UNCHANGED <<data, outcome, stores>>
  BY DEF Sequence!Trap
<1> HIDE DEF r
<1>7. SequenceTypes'
  <2>1. seq' \in [Threads -> SequenceStates]
    BY <1>3 DEF SequenceTypes, r
  <2> QED
    BY <1>1, <1>4, <1>5, <1>6, <2>1 DEF SequenceTypes
<1>8. LinksAreTrue'
  BY <1>5, <1>6 DEF LinksAreTrue, SequenceTypes
<1>9. WritesEnd'
  BY <1>5, <1>6 DEF WritesEnd, SequenceTypes
<1> QED
  BY <1>6, <1>7, <1>8, <1>9 DEF Sequence!NoLostUpdate

\* mprotect keeps the contents and breaks links.
LEMMA ProtectsKeeps ==
    ASSUME SequenceInv, Sequence!Protects
    PROVE  SequenceInv'
<1> USE DEF SequenceInv
<1>1. UNCHANGED <<seq, outcome, wrote, stores>>
  BY DEF Sequence!Protects, Sequence!seqVars
<1>2. /\ link' \in [Threads -> SUBSET Int]
      /\ \A u \in Threads : link'[u] \subseteq link[u]
      /\ data'[Counter] = data[Counter]
  <2> PICK prot \in Protections : Sequence!Protect(Sequence!Pages, prot)
    BY DEF Sequence!Protects
  <2>1. CASE UNCHANGED <<data, link>>
    BY <2>1 DEF SequenceTypes
  <2>2. CASE \E new : Sequence!Remap("protect", Sequence!Pages, new, TRUE)
    <3>1. data'[Counter] = data[Counter]
      BY <2>2, CellFacts DEF Sequence!Remap
    <3>2. Sequence!Breaking(Sequence!CellsOf(Sequence!Pages))
      BY <2>2 DEF Sequence!Remap
    <3> QED
      BY <3>1, <3>2, BreakingBreaks
  <2> QED
    BY <2>1, <2>2 DEF Sequence!Protect, Sequence!Refuses
<1>3. SequenceTypes'
  BY <1>1, <1>2 DEF SequenceTypes
<1>4. LinksAreTrue'
  BY <1>1, <1>2 DEF LinksAreTrue
<1>5. WritesEnd' /\ Sequence!NoLostUpdate'
  BY <1>1, <1>2 DEF WritesEnd, Sequence!NoLostUpdate
<1> QED
  BY <1>3, <1>4, <1>5

LEMMA SequenceStarts == Sequence!Init => SequenceInv
<1> SUFFICES ASSUME Sequence!Init PROVE SequenceInv
  OBVIOUS
<1> USE CellFacts DEF Sequence!Init
<1>1. Sequence!NoSequence \in SequenceStates /\ ~Sequence!NoSequence.active
  BY DEF SequenceStates, Sequence!NoSequence
<1>2. data[Counter] = 0
  OBVIOUS
<1>3. SequenceTypes
  BY <1>1, <1>2 DEF SequenceTypes, Outcomes
<1>4. LinksAreTrue /\ WritesEnd /\ Sequence!NoLostUpdate
  BY <1>1, <1>2 DEF LinksAreTrue, WritesEnd, Sequence!NoLostUpdate
<1> QED
  BY <1>3, <1>4 DEF SequenceInv

LEMMA SequenceStepKeeps ==
    ASSUME SequenceInv, Sequence!Next
    PROVE  SequenceInv'
<1>1. ASSUME NEW t \in Threads, Sequence!Step(t)
      PROVE  SequenceInv'
  <2> USE <1>1
  <2>1. seq[t].active /\ seq[t].next \in Sequence!Instructions
    BY DEF Sequence!Step, SequenceInv, SequenceTypes
  <2>2. CASE seq[t].next = "ldxr"
    BY <2>1, <2>2, LoadsExclusiveKeeps DEF Sequence!Step
  <2>3. CASE seq[t].next = "stxr"
    BY <2>1, <2>3, StoresExclusiveKeeps DEF Sequence!Step
  <2>4. CASE seq[t].next \in {"load", "store"}
    BY <2>1, <2>4, PlainAccessKeeps DEF Sequence!Step
  <2>5. CASE seq[t].next \notin {"ldxr", "stxr", "load", "store"}
    <3>1. Sequence!LeavesMemory(t)
      BY <2>5 DEF Sequence!Step
    <3> QED
      BY <2>1, <2>5, <3>1, LeavesMemoryKeeps DEF Sequence!Instructions
  <2> QED
    BY <2>2, <2>3, <2>4, <2>5
<1> QED
  BY <1>1, TrapKeeps, ProtectsKeeps DEF Sequence!Next

LEMMA SequenceStutters ==
    ASSUME SequenceInv, UNCHANGED sequenceVars
    PROVE  SequenceInv'
BY DEF sequenceVars, SequenceInv, SequenceTypes, LinksAreTrue, WritesEnd, Sequence!NoLostUpdate

\* gm_exclusive_sequence for any threads, memory and any budget of instructions:
\* a store-exclusive that reports success has incremented the value its thread
\* read, whoever else stored in between, and a sequence that is rejected or faults
\* has written nothing.
THEOREM ExclusivesAreAtomic == Spec => []SequencesAreAtomic
<1> DEFINE Inv == subject = "sequence" => SequenceInv
<1>1. Init => Inv
  BY SequenceStarts DEF Init
<1>2. Inv /\ [Next]_vars => Inv'
  <2> SUFFICES ASSUME Inv, [Next]_vars PROVE Inv'
    OBVIOUS
  <2>1. CASE InSequence /\ Sequence!Next
    BY <2>1, SequenceStepKeeps DEF InSequence
  <2>2. CASE ~(InSequence /\ Sequence!Next)
    <3>1. UNCHANGED <<subject, sequenceVars>>
      BY <2>2 DEF Next, InSignal, InMapping, InCode, vars
    <3> QED
      BY <3>1, SequenceStutters
  <2> QED
    BY <2>1, <2>2
<1>3. Inv => SequencesAreAtomic
  BY DEF SequencesAreAtomic, SequenceInv, WritesEnd, Sequence!RejectedWithoutTrace
<1> QED
  BY <1>1, <1>2, <1>3, PTL DEF Spec

-----------------------------------------------------------------------------
(* Placing memory.                                                         *)

Stages == {"idle", "pool", "native", "fail", "fixed", "find", "place", "unmap", "protect"}
CallStates ==
    [stage : Stages, soft : BOOLEAN, at : Int, size : Nat, fixed : BOOLEAN, eligible : BOOLEAN,
     op : {"map", "unmap", "protect", "fallback"}]

\* A place is a space and a cell of it.
MemoryPlaces == {<<TRUE, c>> : c \in Mapping!SoftSpace} \cup {<<FALSE, c>> : c \in Mapping!NativeSpace}

MappingTypes ==
    /\ native \in [Mapping!NativeSpace -> Int] /\ soft \in [Mapping!SoftSpace -> Int]
    /\ pending \in Int /\ poolSize \in Nat /\ alias \in BOOLEAN /\ started \in BOOLEAN
    /\ call \in [Threads -> CallStates] /\ given \in [Threads -> SUBSET MemoryPlaces]

IsPlace(g) == g \in MemoryPlaces
Area(r) == {<<r.soft, c>> : c \in Mapping!Cells(r.at, r.size)}

\* The places a call will replace or free: no longer given to its thread.
Claimed(t) ==
    IF call[t].stage \in {"unmap", "fixed"} \/ (call[t].stage = "native" /\ call[t].fixed)
    THEN Area(call[t]) ELSE {}

\* Before the guest starts there is no call, and nothing was given or hidden.
NothingYet == ~started => hidden = {} /\ \A t \in Threads : call[t].stage = "idle" /\ given[t] = {}

GivenIsOwned == \A t \in Threads : \A g \in given[t] : IsPlace(g) /\ Mapping!Owner(g[1], g[2]) = t

ClaimedIsOwned ==
    \A t \in Threads : \A g \in Claimed(t) :
        /\ IsPlace(g) /\ g \notin given[t]
        /\ \/ Mapping!Owner(g[1], g[2]) = t
           \/ ~g[1] /\ native[g[2]] = Mapping!Code /\ t = Mapping!Min(Threads)

\* Each call is in the space its stage is about.
StagesAreTrue ==
    \A t \in Threads :
        /\ call[t].stage = "native" => ~call[t].soft
        /\ call[t].stage = "fixed" => call[t].soft
        /\ call[t].stage = "pool" => ~call[t].fixed /\ ~call[t].soft /\ call[t].size = poolSize

\* The alias stands for readable code that no call is about to take away.
AliasIsKept ==
    alias =>
        /\ \A c \in Mapping!NativeSpace \cap Mapping!CodeCells : native[c] = Mapping!Code /\ c \notin hidden
        /\ \A t \in Threads : \A g \in Claimed(t) : g[1] \/ g[2] \notin Mapping!CodeCells
        /\ \A t \in Threads :
             call[t].stage = "protect" /\ ~call[t].soft /\ ~call[t].eligible =>
                Mapping!Cells(call[t].at, call[t].size) \cap Mapping!CodeCells = {}

PoolIsWhole ==
    /\ pending # Mapping!None => Mapping!Cells(pending, poolSize) \subseteq Mapping!NativeSpace
    /\ Mapping!PoolIsConserved

\* With a preferred pool: what is tried natively and what is not.
Preferred(r) ==
    (poolSize # 0 /\ r.op \in {"map", "fallback"} /\ r.eligible /\ ~r.fixed /\ r.size >= LargeSize) =>
        /\ r.stage = "native" => r.size = poolSize
        /\ (r.stage \in {"find", "place"} /\ r.size = poolSize /\ r.size # ForcedSize /\ Threshold = 0 /\ ~r.soft) =>
              r.op = "fallback"
PreferenceIsKept == \A t \in Threads : Preferred(call[t])

MappingInv ==
    /\ MappingTypes /\ NothingYet /\ GivenIsOwned /\ ClaimedIsOwned /\ StagesAreTrue
    /\ AliasIsKept /\ PoolIsWhole /\ PreferenceIsKept

\* The marks of memory that is nobody's are not threads.
LEMMA MarkFacts ==
    /\ \A t \in Threads : t \in Int /\ t \notin {Mapping!Free, Mapping!Code, Mapping!Pool}
    /\ Mapping!Free \in Int /\ Mapping!Code \in Int /\ Mapping!Pool \in Int /\ Mapping!None \in Int
    /\ Mapping!Free # Mapping!Code /\ Mapping!Free # Mapping!Pool /\ Mapping!Code # Mapping!Pool
    /\ \A n \in Nat : n # Mapping!None
    /\ Mapping!NativeSpace \subseteq Nat /\ Mapping!SoftSpace \subseteq Nat
BY ThreadAssumption, MappingAssumption
DEF Mapping!Free, Mapping!Code, Mapping!Pool, Mapping!None, Mapping!NativeSpace, Mapping!SoftSpace

LEMMA CallShapes ==
    ASSUME NEW r \in CallStates
    PROVE  /\ \A s \in Stages : /\ [r EXCEPT !.stage = s] \in CallStates
                                /\ [r EXCEPT !.stage = s, !.op = "fallback"] \in CallStates
                                /\ \A a \in Int : [r EXCEPT !.stage = s, !.at = a] \in CallStates
           /\ Mapping!Idle \in CallStates
           /\ r.stage \in Stages /\ r.soft \in BOOLEAN /\ r.fixed \in BOOLEAN /\ r.eligible \in BOOLEAN
           /\ r.at \in Int /\ r.size \in Nat
<1>1. \A s \in Stages : [r EXCEPT !.stage = s] \in CallStates
  BY DEF CallStates
<1>2. \A s \in Stages : [r EXCEPT !.stage = s, !.op = "fallback"] \in CallStates
  BY DEF CallStates
<1>3. \A s \in Stages : \A a \in Int : [r EXCEPT !.stage = s, !.at = a] \in CallStates
  BY DEF CallStates
<1>4. -1 \in Int /\ 1 \in Nat
  OBVIOUS
<1>5. Mapping!Idle \in CallStates
  BY <1>4 DEF CallStates, Mapping!Idle, Mapping!None, Stages
<1> QED
  BY <1>1, <1>2, <1>3, <1>5 DEF CallStates

LEMMA RequestsAreCalls == Mapping!Requests \subseteq CallStates
<1>1. {Mapping!None} \cup Mapping!NativeSpace \subseteq Int
  BY MarkFacts
<1>2. 1 .. MaxSize \subseteq Nat
  BY MappingAssumption
<1>3. "idle" \in Stages
  BY DEF Stages
<1> QED
  BY <1>1, <1>2, <1>3 DEF Mapping!Requests, CallStates

\* The lowest gap is a gap.
LEMMA LowestIsOne ==
    ASSUME NEW S, S \subseteq Nat, S # {}
    PROVE  Mapping!Min(S) \in S
<1>1. PICK n \in S : \A m \in S : <<m, n>> \notin OpToRel(<, Nat)
  BY WFMin, NatLessThanWellFounded, Zenon
<1>2. \A m \in S : ~(m < n)
  BY <1>1, Zenon DEF OpToRel
<1>3. \A m \in S : n <= m
  BY <1>2
<1> QED
  BY <1>3 DEF Mapping!Min

\* The alias is forgotten when a range shares a cell with the code.
LEMMA OverlapsMeans ==
    ASSUME NEW at \in Int, NEW size \in Nat, ~Mapping!Overlaps(at, size)
    PROVE  Mapping!Cells(at, size) \cap Mapping!CodeCells = {}
<1>1. CodeStart \in Nat /\ CodeSize \in Nat
  BY MappingAssumption
<1>2. CASE at <= CodeStart
  <2>1. at + size <= CodeStart
    BY <1>1, <1>2 DEF Mapping!Overlaps
  <2> QED
    BY <1>1, <2>1 DEF Mapping!Cells, Mapping!CodeCells
<1>3. CASE at > CodeStart
  <2>1. at >= CodeStart + CodeSize
    BY <1>1, <1>3 DEF Mapping!Overlaps
  <2> QED
    BY <1>1, <2>1 DEF Mapping!Cells, Mapping!CodeCells
<1> QED
  BY <1>1, <1>2, <1>3

-----------------------------------------------------------------------------
(* Startup: no thread has anything yet.                                    *)

LEMMA MappingStarts == Mapping!Init => MappingInv
<1> SUFFICES ASSUME Mapping!Init PROVE MappingInv
  OBVIOUS
<1> USE MarkFacts DEF Mapping!Init
<1>1. Mapping!Idle \in CallStates /\ Mapping!Idle.stage = "idle"
  <2>1. -1 \in Int /\ 1 \in Nat
    OBVIOUS
  <2> QED
    BY <2>1 DEF CallStates, Mapping!Idle, Mapping!None, Stages
<1>2. MappingTypes
  BY <1>1 DEF MappingTypes
<1>3. \A t \in Threads : call[t].stage = "idle" /\ given[t] = {} /\ Claimed(t) = {}
  BY <1>1 DEF Claimed
<1>4. NothingYet /\ GivenIsOwned /\ ClaimedIsOwned /\ StagesAreTrue /\ AliasIsKept
  BY <1>3 DEF NothingYet, GivenIsOwned, ClaimedIsOwned, StagesAreTrue, AliasIsKept
<1>5. PoolIsWhole
  BY DEF PoolIsWhole, Mapping!PoolIsConserved
<1>6. PreferenceIsKept
  BY <1>3 DEF PreferenceIsKept, Preferred
<1> QED
  BY <1>2, <1>4, <1>5, <1>6 DEF MappingInv

\* With no calls yet, the invariant is about the pool and the code only.
LEMMA StartupKeeps ==
    ASSUME MappingInv, ~started, UNCHANGED <<soft, hidden, call, given>>,
           native' \in [Mapping!NativeSpace -> Int], pending' \in Int, poolSize' \in Nat, alias' \in BOOLEAN, started' \in BOOLEAN,
           alias' => \A c \in Mapping!NativeSpace \cap Mapping!CodeCells : native'[c] = Mapping!Code,
           PoolIsWhole'
    PROVE  MappingInv'
<1> USE DEF MappingInv
<1>1. hidden = {} /\ \A t \in Threads : call'[t].stage = "idle" /\ given'[t] = {}
  BY DEF NothingYet
<1>2. \A t \in Threads : Claimed(t)' = {}
  BY <1>1 DEF Claimed
<1>3. MappingTypes' /\ NothingYet'
  BY <1>1 DEF MappingTypes, NothingYet
<1>4. GivenIsOwned' /\ ClaimedIsOwned' /\ StagesAreTrue'
  BY <1>1, <1>2 DEF GivenIsOwned, ClaimedIsOwned, StagesAreTrue
<1>5. AliasIsKept'
  BY <1>1, <1>2 DEF AliasIsKept
<1>6. PreferenceIsKept'
  BY <1>1 DEF PreferenceIsKept, Preferred
<1> QED
  BY <1>3, <1>4, <1>5, <1>6

LEMMA CodeAliasKeeps ==
    ASSUME MappingInv, Mapping!CodeAlias
    PROVE  MappingInv'
<1> USE MarkFacts DEF MappingInv, MappingTypes, Mapping!CodeAlias
<1>1. Mapping!Cells(CodeStart, CodeSize) = Mapping!CodeCells
  BY DEF Mapping!Cells, Mapping!CodeCells
<1>2. /\ native' \in [Mapping!NativeSpace -> Int]
      /\ \A c \in Mapping!NativeSpace : native'[c] = IF c \in Mapping!CodeCells THEN Mapping!Code ELSE native[c]
  BY <1>1 DEF Mapping!Owned
<1>3. \A c \in Mapping!NativeSpace : native'[c] = Mapping!Pool <=> native[c] = Mapping!Pool
  BY <1>2
<1>4. PoolIsWhole'
  BY <1>3 DEF PoolIsWhole, Mapping!PoolIsConserved
<1> QED
  BY <1>2, <1>4, StartupKeeps

\* The old reservation is released whole and the new one is taken from a gap.
LEMMA PreferNativePoolKeeps ==
    ASSUME MappingInv, NEW size \in {0} \cup LargeSize .. MaxSize, Mapping!PreferNativePool(size)
    PROVE  MappingInv'
<1> DEFINE released == Mapping!PoolReleased(size)
<1> USE MarkFacts DEF MappingInv, MappingTypes
<1>1. size \in Nat
  BY MappingAssumption
<1>2. /\ released \in [Mapping!NativeSpace -> Int]
      /\ \A c \in Mapping!NativeSpace : released[c] = IF native[c] = Mapping!Pool THEN Mapping!Free ELSE native[c]
  <2>1. CASE pending = Mapping!None
    BY <2>1 DEF PoolIsWhole, Mapping!PoolIsConserved, Mapping!PoolReleased
  <2>2. CASE pending # Mapping!None
    <3>1. released = Mapping!Owned(native, pending, poolSize, Mapping!Free)
      BY <2>2 DEF Mapping!PoolReleased
    <3>2. \A c \in Mapping!NativeSpace : c \in Mapping!Cells(pending, poolSize) <=> native[c] = Mapping!Pool
      BY <2>2 DEF PoolIsWhole, Mapping!PoolIsConserved
    <3> QED
      BY <3>1, <3>2 DEF Mapping!Owned
  <2> QED
    BY <2>1, <2>2
<1> HIDE DEF released
<1>3. ~started /\ poolSize' = size /\ UNCHANGED <<soft, hidden, alias, call, given, started>>
  BY DEF Mapping!PreferNativePool
<1>4. /\ native' \in [Mapping!NativeSpace -> Int] /\ pending' \in Int
      /\ \A c \in Mapping!NativeSpace : native[c] = Mapping!Code => native'[c] = Mapping!Code
      /\ PoolIsWhole'
  <2>1. CASE pending' = Mapping!None /\ native' = released
    <3>1. {c \in Mapping!NativeSpace : native'[c] = Mapping!Pool} = {}
      BY <1>2, <2>1
    <3> QED
      BY <1>2, <2>1, <3>1 DEF PoolIsWhole, Mapping!PoolIsConserved
  <2>2. CASE \E at \in Mapping!Gaps(released, size) :
                pending' = at /\ native' = Mapping!Owned(released, at, size, Mapping!Pool)
    <3> PICK at \in Mapping!Gaps(released, size) :
                pending' = at /\ native' = Mapping!Owned(released, at, size, Mapping!Pool)
      BY <2>2
    <3>1. /\ at \in Mapping!NativeSpace /\ Mapping!Cells(at, size) \subseteq Mapping!NativeSpace
          /\ \A c \in Mapping!Cells(at, size) : released[c] = Mapping!Free
      BY <1>2 DEF Mapping!Gaps, Mapping!Fits
    <3>2. /\ native' \in [Mapping!NativeSpace -> Int]
          /\ \A c \in Mapping!NativeSpace : native'[c] = IF c \in Mapping!Cells(at, size) THEN Mapping!Pool ELSE released[c]
      BY <1>2 DEF Mapping!Owned
    <3>3. {c \in Mapping!NativeSpace : native'[c] = Mapping!Pool} = Mapping!Cells(at, size)
      BY <1>2, <3>1, <3>2
    <3>4. PoolIsWhole'
      BY <1>3, <3>1, <3>3 DEF PoolIsWhole, Mapping!PoolIsConserved
    <3> QED
      BY <1>2, <3>1, <3>2, <3>4
  <2> QED
    BY <2>1, <2>2 DEF Mapping!PreferNativePool, released
<1>5. alias' => \A c \in Mapping!NativeSpace \cap Mapping!CodeCells : native'[c] = Mapping!Code
  BY <1>3, <1>4 DEF AliasIsKept
<1> QED
  BY <1>1, <1>3, <1>4, <1>5, StartupKeeps

LEMMA StartKeeps ==
    ASSUME MappingInv, Mapping!Start
    PROVE  MappingInv'
<1>1. PoolIsWhole'
  BY DEF MappingInv, Mapping!Start, PoolIsWhole, Mapping!PoolIsConserved
<1> QED
  BY <1>1, StartupKeeps DEF MappingInv, MappingTypes, Mapping!Start, AliasIsKept

-----------------------------------------------------------------------------
(* A thread's calls.                                                       *)

\* What a call begins with when it names a range: the places are its thread's, or
\* the code's.
LEMMA MineIsOwned ==
    ASSUME MappingInv, NEW t \in Threads, NEW r \in CallStates, Mapping!Mine(t, r), NEW g \in Area(r)
    PROVE  /\ IsPlace(g)
           /\ \/ Mapping!Owner(g[1], g[2]) = t
              \/ ~g[1] /\ native[g[2]] = Mapping!Code /\ t = Mapping!Min(Threads)
<1> USE DEF MappingInv, MappingTypes
<1> PICK c \in Mapping!Cells(r.at, r.size) : g = <<r.soft, c>>
  BY DEF Area
<1>1. r.soft \in BOOLEAN
  BY CallShapes
<1>2. CASE g \in given[t]
  BY <1>2 DEF GivenIsOwned
<1>3. CASE g \notin given[t]
  <2>1. ~r.soft /\ native[c] = Mapping!Code /\ t = Mapping!Min(Threads) /\ c \in Mapping!NativeSpace
    BY <1>1, <1>3 DEF Mapping!Mine, Mapping!Fits
  <2>2. g = <<FALSE, c>>
    BY <1>1, <2>1
  <2>3. IsPlace(g)
    BY <2>1, <2>2 DEF IsPlace, MemoryPlaces
  <2>4. g[1] = FALSE /\ g[2] = c
    BY <1>1, <2>1
  <2> QED
    BY <2>1, <2>3, <2>4
<1> QED
  BY <1>2, <1>3

\* A thread makes a call: memory is as it was.  What the call will replace or free
\* was the thread's and is given up, and the alias is gone if that is code.
LEMMA CallBeginsKeeps ==
    ASSUME MappingInv, NEW t \in Threads, NEW r \in CallStates, NEW stage \in Stages, started,
           UNCHANGED <<native, soft, hidden, pending, poolSize, started>>,
           call' = [call EXCEPT ![t] = [r EXCEPT !.stage = stage]],
           given' = [given EXCEPT ![t] = given'[t]], given'[t] \subseteq given[t],
           alias' \in BOOLEAN, alias' => alias,
           stage = "native" => ~r.soft, stage = "fixed" => r.soft,
           stage = "pool" => ~r.fixed /\ ~r.soft /\ r.size = poolSize,
           stage \in {"unmap", "fixed"} \/ (stage = "native" /\ r.fixed) =>
               /\ Mapping!Mine(t, r) /\ given'[t] = given[t] \ Area(r)
               /\ r.soft \/ alias' = Mapping!Forgotten(r.at, r.size),
           stage = "protect" /\ ~r.soft /\ ~r.eligible => alias' = Mapping!Forgotten(r.at, r.size),
           Preferred([r EXCEPT !.stage = stage])
    PROVE  MappingInv'
<1> DEFINE q == [r EXCEPT !.stage = stage]
           claims == stage \in {"unmap", "fixed"} \/ (stage = "native" /\ r.fixed)
<1> USE DEF MappingInv
<1>1. /\ q \in CallStates /\ q.stage = stage /\ q.soft = r.soft /\ q.at = r.at /\ q.size = r.size
      /\ q.fixed = r.fixed /\ q.eligible = r.eligible /\ q.op = r.op
  BY CallShapes DEF CallStates
<1>2. call' = [call EXCEPT ![t] = q]
  OBVIOUS
<1> HIDE DEF q
<1>3. call'[t] = q /\ \A u \in Threads : u # t => call'[u] = call[u] /\ given'[u] = given[u]
  BY <1>2 DEF MappingTypes
<1>4. Claimed(t)' = IF claims THEN Area(r) ELSE {}
  <2>1. call'[t].soft = r.soft /\ call'[t].at = r.at /\ call'[t].size = r.size
    BY <1>1, <1>3
  <2>2. Area(call[t])' = Area(r)
    BY <2>1 DEF Area
  <2> QED
    BY <1>1, <1>3, <2>2 DEF Claimed
<1>5. \A u \in Threads : u # t => Claimed(u)' = Claimed(u)
  BY <1>3 DEF Claimed, Area
<1>6. \A g : Mapping!Owner(g[1], g[2])' = Mapping!Owner(g[1], g[2])
  BY DEF Mapping!Owner
<1>7. MappingTypes' /\ NothingYet'
  BY <1>1, <1>2 DEF MappingTypes, NothingYet
<1>8. GivenIsOwned'
  BY <1>3, <1>6 DEF GivenIsOwned
<1>9. ClaimedIsOwned'
  <2>1. ASSUME NEW g \in Claimed(t)'
        PROVE  /\ IsPlace(g) /\ g \notin given'[t]
               /\ \/ Mapping!Owner(g[1], g[2]) = t
                  \/ ~g[1] /\ native[g[2]] = Mapping!Code /\ t = Mapping!Min(Threads)
    <3>1. claims /\ g \in Area(r)
      BY <1>4, <2>1
    <3> QED
      BY <3>1, MineIsOwned
  <2> QED
    BY <1>3, <1>5, <1>6, <2>1 DEF ClaimedIsOwned
<1>10. StagesAreTrue'
  BY <1>1, <1>3 DEF StagesAreTrue
<1>11. AliasIsKept'
  <2> SUFFICES ASSUME alias' PROVE AliasIsKept'
    BY DEF AliasIsKept
  <2>1. r.at \in Int /\ r.size \in Nat /\ r.soft \in BOOLEAN
    BY CallShapes
  <2>2. (claims \/ (stage = "protect" /\ ~r.eligible)) /\ ~r.soft =>
            Mapping!Cells(r.at, r.size) \cap Mapping!CodeCells = {}
    BY <2>1, OverlapsMeans DEF Mapping!Forgotten
  <2>3. \A g \in Claimed(t)' : g[1] \/ g[2] \notin Mapping!CodeCells
    BY <1>4, <2>1, <2>2 DEF Area
  <2> QED
    BY <1>1, <1>3, <1>5, <2>2, <2>3 DEF AliasIsKept
<1>12. PoolIsWhole'
  BY DEF PoolIsWhole, Mapping!PoolIsConserved
<1>13. PreferenceIsKept'
  BY <1>3 DEF PreferenceIsKept, Preferred, q
<1> QED
  BY <1>7, <1>8, <1>9, <1>10, <1>11, <1>12, <1>13

LEMMA MapBegins ==
    ASSUME MappingInv, NEW t \in Threads, NEW r \in Mapping!Requests, started,
           r.op = "map", ~r.fixed => r.at = IF r.soft THEN 0 ELSE Mapping!None,
           r.fixed => Mapping!Mine(t, r), Mapping!Map(t, r), UNCHANGED started
    PROVE  MappingInv'
<1> DEFINE stage == Mapping!Route(r)
<1>0. r \in CallStates
  BY RequestsAreCalls
<1>1. /\ r.soft \in BOOLEAN /\ r.fixed \in BOOLEAN /\ r.eligible \in BOOLEAN /\ r.at \in Int /\ r.size \in Nat
  BY <1>0, CallShapes
<1>2. stage \in Stages
  BY DEF Mapping!Route, Mapping!SoftStage, Stages
<1>3. stage = "pool" => r.at = Mapping!None /\ r.eligible /\ ~r.fixed /\ r.size = poolSize
  BY DEF Mapping!Route, Mapping!WantsPool, Mapping!SoftStage
<1>4. stage = "pool" => ~r.soft
  BY <1>1, <1>3 DEF Mapping!None
<1>5. stage = "native" => ~r.soft /\ ~Mapping!Forced(r)
  BY DEF Mapping!Route, Mapping!SoftStage
<1>6. stage = "fixed" => r.soft /\ r.fixed
  BY DEF Mapping!Route, Mapping!SoftStage
<1>7. stage \notin {"unmap", "protect", "place"}
  BY DEF Mapping!Route, Mapping!SoftStage
<1>8. stage = "find" /\ ~r.soft => Mapping!Forced(r)
  BY DEF Mapping!Route, Mapping!SoftStage
<1>9. call' = [call EXCEPT ![t] = [r EXCEPT !.stage = stage]] /\ UNCHANGED <<native, soft, hidden, pending, poolSize>>
  BY DEF Mapping!Map
<1>10. alias' \in BOOLEAN /\ (alias' => alias) /\ (r.fixed /\ ~r.soft => alias' = Mapping!Forgotten(r.at, r.size))
  BY DEF Mapping!Map, Mapping!Forgotten, MappingInv, MappingTypes
<1>11. /\ given' = [given EXCEPT ![t] = given'[t]] /\ given'[t] \subseteq given[t]
       /\ r.fixed => given'[t] = given[t] \ Area(r)
  <2>1. given \in [Threads -> SUBSET MemoryPlaces]
    BY DEF MappingInv, MappingTypes
  <2>2. given' = IF r.fixed THEN [given EXCEPT ![t] = @ \ Area(r)] ELSE given
    BY DEF Mapping!Map, Area
  <2> QED
    BY <2>1, <2>2
<1>12. Preferred([r EXCEPT !.stage = stage])
  <2> DEFINE q == [r EXCEPT !.stage = stage]
  <2>1. /\ q.stage = stage /\ q.soft = r.soft /\ q.size = r.size /\ q.fixed = r.fixed /\ q.eligible = r.eligible /\ q.op = r.op
    BY <1>0 DEF CallStates
  <2> HIDE DEF q, stage
  <2>2. poolSize \in Nat /\ LargeSize \in Nat
    BY MappingAssumption DEF MappingInv, MappingTypes
  <2> SUFFICES Preferred(q)
    BY DEF q
  <2> QED
    BY <1>1, <1>5, <1>7, <1>8, <2>1, <2>2 DEF Preferred, Mapping!Forced
<1> HIDE DEF stage
<1> QED
  BY <1>0, <1>1, <1>2, <1>3, <1>4, <1>5, <1>6, <1>7, <1>9, <1>10, <1>11, <1>12, CallBeginsKeeps

LEMMA UnmapBegins ==
    ASSUME MappingInv, NEW t \in Threads, NEW r \in Mapping!Requests, started,
           r.op = "unmap", Mapping!Mine(t, r), Mapping!Unmap(t, r), UNCHANGED started
    PROVE  MappingInv'
<1>0. r \in CallStates
  BY RequestsAreCalls
<1>1. call' = [call EXCEPT ![t] = [r EXCEPT !.stage = "unmap"]] /\ UNCHANGED <<native, soft, hidden, pending, poolSize>>
  BY DEF Mapping!Unmap
<1>2. alias' \in BOOLEAN /\ (alias' => alias) /\ (r.soft \/ alias' = Mapping!Forgotten(r.at, r.size))
  BY DEF Mapping!Unmap, Mapping!Forgotten, MappingInv, MappingTypes
<1>3. given' = [given EXCEPT ![t] = given'[t]] /\ given'[t] = given[t] \ Area(r)
  <2>1. given \in [Threads -> SUBSET MemoryPlaces]
    BY DEF MappingInv, MappingTypes
  <2>2. given' = [given EXCEPT ![t] = @ \ Area(r)]
    BY DEF Mapping!Unmap, Area
  <2> QED
    BY <2>1, <2>2
<1>4. Preferred([r EXCEPT !.stage = "unmap"])
  BY <1>0 DEF Preferred, CallStates
<1>5. "unmap" \in Stages
  BY DEF Stages
<1> QED
  BY <1>0, <1>1, <1>2, <1>3, <1>4, <1>5, CallBeginsKeeps

LEMMA ProtectBegins ==
    ASSUME MappingInv, NEW t \in Threads, NEW r \in Mapping!Requests, started,
           r.op = "protect", Mapping!Protect(t, r), UNCHANGED started
    PROVE  MappingInv'
<1>0. r \in CallStates
  BY RequestsAreCalls
<1>1. call' = [call EXCEPT ![t] = [r EXCEPT !.stage = "protect"]] /\ UNCHANGED <<native, soft, hidden, pending, poolSize, given>>
  BY DEF Mapping!Protect
<1>2. alias' \in BOOLEAN /\ (alias' => alias) /\ (~r.soft /\ ~r.eligible => alias' = Mapping!Forgotten(r.at, r.size))
  BY DEF Mapping!Protect, Mapping!Forgotten, MappingInv, MappingTypes
<1>3. given' = [given EXCEPT ![t] = given'[t]] /\ given'[t] \subseteq given[t]
  BY <1>1 DEF MappingInv, MappingTypes
<1>4. Preferred([r EXCEPT !.stage = "protect"])
  BY <1>0 DEF Preferred, CallStates
<1>5. "protect" \in Stages
  BY DEF Stages
<1> QED
  BY <1>0, <1>1, <1>2, <1>3, <1>4, <1>5, CallBeginsKeeps

LEMMA CallsKeep ==
    ASSUME MappingInv, NEW t \in Threads, Mapping!Calls(t)
    PROVE  MappingInv'
BY MapBegins, UnmapBegins, ProtectBegins DEF Mapping!Calls

-----------------------------------------------------------------------------
(* A call goes on.                                                         *)

\* A place that changes its owner was the thread's, the code's if it is the thread
\* that may touch it, or nobody's.  The call is past what it had claimed.
LEMMA CallGoesOnKeeps ==
    ASSUME MappingInv, NEW t \in Threads, NEW q \in CallStates, started,
           UNCHANGED <<poolSize, alias, started>>,
           call' = [call EXCEPT ![t] = q],
           q.stage \notin {"unmap", "fixed", "protect", "pool"}, q.stage = "native" => ~q.fixed /\ ~q.soft,
           Preferred(q),
           native' \in [Mapping!NativeSpace -> Int], soft' \in [Mapping!SoftSpace -> Int], pending' \in Int,
           \A g : IsPlace(g) => \/ Mapping!Owner(g[1], g[2])' = Mapping!Owner(g[1], g[2])
                                \/ Mapping!Owner(g[1], g[2]) \in {t, Mapping!Free, Mapping!Pool}
                                \/ ~g[1] /\ native[g[2]] = Mapping!Code /\ t = Mapping!Min(Threads),
           given' = [given EXCEPT ![t] = given'[t]],
           \A g \in given'[t] : IsPlace(g) /\ Mapping!Owner(g[1], g[2])' = t,
           alias => \A c \in Mapping!NativeSpace \cap Mapping!CodeCells : native'[c] = Mapping!Code /\ c \notin hidden',
           PoolIsWhole'
    PROVE  MappingInv'
<1> USE MarkFacts DEF MappingInv
<1>1. call'[t] = q /\ \A u \in Threads : u # t => call'[u] = call[u] /\ given'[u] = given[u]
  BY DEF MappingTypes
<1>2. Claimed(t)' = {}
  BY <1>1 DEF Claimed
<1>3. \A u \in Threads : u # t => Claimed(u)' = Claimed(u)
  BY <1>1 DEF Claimed, Area
<1>4. ASSUME NEW u \in Threads, u # t, NEW g, IsPlace(g),
             \/ Mapping!Owner(g[1], g[2]) = u
             \/ ~g[1] /\ native[g[2]] = Mapping!Code /\ u = Mapping!Min(Threads)
      PROVE  Mapping!Owner(g[1], g[2])' = Mapping!Owner(g[1], g[2])
  BY <1>4 DEF Mapping!Owner
<1>5. MappingTypes' /\ NothingYet'
  BY DEF MappingTypes, NothingYet, IsPlace
<1>6. GivenIsOwned'
  <2>1. ASSUME NEW u \in Threads, u # t, NEW g \in given'[u]
        PROVE  IsPlace(g) /\ Mapping!Owner(g[1], g[2])' = u
    BY <1>1, <1>4, <2>1 DEF GivenIsOwned
  <2>2. ASSUME NEW g \in given'[t]
        PROVE  IsPlace(g) /\ Mapping!Owner(g[1], g[2])' = t
    BY <2>2 DEF GivenIsOwned
  <2> QED
    BY <2>1, <2>2 DEF GivenIsOwned
<1>7. ClaimedIsOwned'
  <2>1. ASSUME NEW u \in Threads, u # t, NEW g \in Claimed(u)
        PROVE  /\ IsPlace(g) /\ g \notin given'[u]
               /\ \/ Mapping!Owner(g[1], g[2])' = u
                  \/ ~g[1] /\ native'[g[2]] = Mapping!Code /\ u = Mapping!Min(Threads)
    <3>1. /\ IsPlace(g) /\ g \notin given[u]
          /\ \/ Mapping!Owner(g[1], g[2]) = u
             \/ ~g[1] /\ native[g[2]] = Mapping!Code /\ u = Mapping!Min(Threads)
      BY <2>1 DEF ClaimedIsOwned
    <3>2. Mapping!Owner(g[1], g[2])' = Mapping!Owner(g[1], g[2])
      BY <1>4, <2>1, <3>1
    <3> QED
      BY <1>1, <2>1, <3>1, <3>2 DEF Mapping!Owner
  <2> QED
    BY <1>2, <1>3, <2>1 DEF ClaimedIsOwned
<1>8. StagesAreTrue'
  BY <1>1 DEF StagesAreTrue
<1>9. AliasIsKept'
  BY <1>1, <1>2, <1>3 DEF AliasIsKept
<1>10. PreferenceIsKept'
  BY <1>1 DEF PreferenceIsKept, Preferred
<1> QED
  BY <1>5, <1>6, <1>7, <1>8, <1>9, <1>10

Extent(space, at, size) == {<<space, c>> : c \in Mapping!Cells(at, size)}

\* The native memory changes in a range.
LEMMA NativeChanges ==
    ASSUME MappingInv, NEW at, NEW size, NEW who \in Int, soft' = soft,
           native' = Mapping!Owned(native, at, size, who), Mapping!Cells(at, size) \subseteq Mapping!NativeSpace
    PROVE  /\ native' \in [Mapping!NativeSpace -> Int] /\ soft' \in [Mapping!SoftSpace -> Int]
           /\ \A g : IsPlace(g) /\ g \notin Extent(FALSE, at, size) => Mapping!Owner(g[1], g[2])' = Mapping!Owner(g[1], g[2])
           /\ \A g \in Extent(FALSE, at, size) : IsPlace(g) /\ Mapping!Owner(g[1], g[2])' = who
           /\ \A c \in Mapping!NativeSpace : native'[c] = IF c \in Mapping!Cells(at, size) THEN who ELSE native[c]
<1> USE DEF MappingInv, MappingTypes
<1>1. /\ native' \in [Mapping!NativeSpace -> Int]
      /\ \A c \in Mapping!NativeSpace : native'[c] = IF c \in Mapping!Cells(at, size) THEN who ELSE native[c]
  BY DEF Mapping!Owned
<1>2. ASSUME NEW g, IsPlace(g), g \notin Extent(FALSE, at, size)
      PROVE  Mapping!Owner(g[1], g[2])' = Mapping!Owner(g[1], g[2])
  <2>1. CASE \E c \in Mapping!SoftSpace : g = <<TRUE, c>>
    BY <2>1 DEF Mapping!Owner
  <2>2. CASE \E c \in Mapping!NativeSpace : g = <<FALSE, c>>
    <3>1. PICK c \in Mapping!NativeSpace : g = <<FALSE, c>>
      BY <2>2
    <3>2. c \notin Mapping!Cells(at, size)
      BY <1>2, <3>1 DEF Extent
    <3> QED
      BY <1>1, <3>1, <3>2 DEF Mapping!Owner
  <2> QED
    BY <1>2, <2>1, <2>2 DEF IsPlace, MemoryPlaces
<1>3. ASSUME NEW g \in Extent(FALSE, at, size)
      PROVE  IsPlace(g) /\ Mapping!Owner(g[1], g[2])' = who
  <2>1. PICK c \in Mapping!Cells(at, size) : g = <<FALSE, c>>
    BY DEF Extent
  <2>2. c \in Mapping!NativeSpace
    OBVIOUS
  <2> QED
    BY <1>1, <2>1, <2>2 DEF IsPlace, MemoryPlaces, Mapping!Owner
<1> QED
  BY <1>1, <1>2, <1>3

\* The software memory changes in a range.
LEMMA SoftChanges ==
    ASSUME MappingInv, NEW at, NEW size, NEW who \in Int, native' = native,
           soft' = Mapping!Owned(soft, at, size, who), Mapping!Cells(at, size) \subseteq Mapping!SoftSpace
    PROVE  /\ native' \in [Mapping!NativeSpace -> Int] /\ soft' \in [Mapping!SoftSpace -> Int]
           /\ \A g : IsPlace(g) /\ g \notin Extent(TRUE, at, size) => Mapping!Owner(g[1], g[2])' = Mapping!Owner(g[1], g[2])
           /\ \A g \in Extent(TRUE, at, size) : IsPlace(g) /\ Mapping!Owner(g[1], g[2])' = who
           /\ \A c \in Mapping!SoftSpace : soft'[c] = IF c \in Mapping!Cells(at, size) THEN who ELSE soft[c]
<1> USE DEF MappingInv, MappingTypes
<1>1. /\ soft' \in [Mapping!SoftSpace -> Int]
      /\ \A c \in Mapping!SoftSpace : soft'[c] = IF c \in Mapping!Cells(at, size) THEN who ELSE soft[c]
  BY DEF Mapping!Owned
<1>2. ASSUME NEW g, IsPlace(g), g \notin Extent(TRUE, at, size)
      PROVE  Mapping!Owner(g[1], g[2])' = Mapping!Owner(g[1], g[2])
  <2>1. CASE \E c \in Mapping!NativeSpace : g = <<FALSE, c>>
    BY <2>1 DEF Mapping!Owner
  <2>2. CASE \E c \in Mapping!SoftSpace : g = <<TRUE, c>>
    <3>1. PICK c \in Mapping!SoftSpace : g = <<TRUE, c>>
      BY <2>2
    <3>2. c \notin Mapping!Cells(at, size)
      BY <1>2, <3>1 DEF Extent
    <3> QED
      BY <1>1, <3>1, <3>2 DEF Mapping!Owner
  <2> QED
    BY <1>2, <2>1, <2>2 DEF IsPlace, MemoryPlaces
<1>3. ASSUME NEW g \in Extent(TRUE, at, size)
      PROVE  IsPlace(g) /\ Mapping!Owner(g[1], g[2])' = who
  <2>1. PICK c \in Mapping!Cells(at, size) : g = <<TRUE, c>>
    BY DEF Extent
  <2>2. c \in Mapping!SoftSpace
    OBVIOUS
  <2> QED
    BY <1>1, <2>1, <2>2 DEF IsPlace, MemoryPlaces, Mapping!Owner
<1> QED
  BY <1>1, <1>2, <1>3

\* A call that is under way has begun, and its record's fields.
LEMMA CallUnderWay ==
    ASSUME MappingInv, NEW t \in Threads, call[t].stage # "idle"
    PROVE  /\ started /\ call[t] \in CallStates /\ Mapping!Idle \in CallStates
           /\ Preferred(Mapping!Idle) /\ Mapping!Idle.stage = "idle"
           /\ given[t] \subseteq MemoryPlaces /\ \A g \in given[t] : IsPlace(g)
<1> USE DEF MappingInv, MappingTypes
<1>1. call[t] \in CallStates
  OBVIOUS
<1>2. Mapping!Idle \in CallStates
  BY <1>1, CallShapes
<1>3. Mapping!Idle.stage = "idle"
  BY DEF Mapping!Idle
<1>4. Preferred(Mapping!Idle)
  BY <1>3 DEF Preferred
<1> QED
  BY <1>1, <1>2, <1>3, <1>4 DEF NothingYet, IsPlace

\* A step that leaves memory as it is.
LEMMA CallMovesKeeps ==
    ASSUME MappingInv, NEW t \in Threads, NEW q \in CallStates, call[t].stage # "idle",
           UNCHANGED <<native, soft, hidden, pending, poolSize, alias, started, given>>,
           call' = [call EXCEPT ![t] = q],
           q.stage \notin {"unmap", "fixed", "protect", "pool"}, q.stage = "native" => ~q.fixed /\ ~q.soft,
           Preferred(q)
    PROVE  MappingInv'
<1> USE DEF MappingInv, MappingTypes
<1>1. started /\ \A g \in given[t] : IsPlace(g) /\ g \in MemoryPlaces
  BY CallUnderWay
<1>2. \A g : Mapping!Owner(g[1], g[2])' = Mapping!Owner(g[1], g[2])
  BY DEF Mapping!Owner
<1>3. PoolIsWhole'
  BY DEF PoolIsWhole, Mapping!PoolIsConserved
<1>4. given' = [given EXCEPT ![t] = given'[t]]
  OBVIOUS
<1>5. alias => \A c \in Mapping!NativeSpace \cap Mapping!CodeCells : native'[c] = Mapping!Code /\ c \notin hidden'
  BY DEF AliasIsKept
<1>6. \A g \in given'[t] : IsPlace(g) /\ Mapping!Owner(g[1], g[2])' = t
  BY <1>2 DEF GivenIsOwned
<1>7. native' \in [Mapping!NativeSpace -> Int] /\ soft' \in [Mapping!SoftSpace -> Int] /\ pending' \in Int
  OBVIOUS
<1> HIDE DEF MappingInv, MappingTypes
<1> QED
  BY <1>1, <1>2, <1>3, <1>4, <1>5, <1>6, <1>7, CallGoesOnKeeps

LEMMA MapFailsKeeps ==
    ASSUME MappingInv, NEW t \in Threads, Mapping!MapFails(t)
    PROVE  MappingInv'
<1>1. call[t].stage # "idle" /\ call' = [call EXCEPT ![t] = Mapping!Idle]
      /\ UNCHANGED <<native, soft, hidden, pending, poolSize, alias, started, given>>
  BY DEF Mapping!MapFails, Mapping!Returns
<1> QED
  BY <1>1, CallUnderWay, CallMovesKeeps

\* gm_sparse_find_free: nothing is held.
LEMMA MapFindsKeeps ==
    ASSUME MappingInv, NEW t \in Threads, Mapping!MapFinds(t)
    PROVE  MappingInv'
<1> DEFINE gaps == Mapping!Gaps(soft, call[t].size)
<1>1. call[t].stage = "find" /\ UNCHANGED <<native, soft, hidden, pending, poolSize, alias, started, given>>
  BY DEF Mapping!MapFinds
<1>2. CASE call' = [call EXCEPT ![t] = Mapping!Idle]
  BY <1>1, <1>2, CallUnderWay, CallMovesKeeps
<1>3. CASE gaps # {} /\ call' = [call EXCEPT ![t].stage = "place", ![t].at = Mapping!Min(gaps)]
  <2> DEFINE a == Mapping!Min(gaps)
             q == [call[t] EXCEPT !.stage = "place", !.at = a]
  <2>1. gaps \subseteq Nat
    BY MarkFacts DEF Mapping!Gaps, MappingInv, MappingTypes
  <2>2. a \in Int
    <3> HIDE DEF gaps
    <3> QED
      BY <1>3, <2>1, LowestIsOne
  <2>3. call[t] \in CallStates /\ "place" \in Stages
    BY <1>1, CallUnderWay DEF Stages
  <2> HIDE DEF a
  <2>4. q \in CallStates
    BY <2>2, <2>3, CallShapes
  <2>5. /\ q.stage = "place" /\ q.soft = call[t].soft /\ q.size = call[t].size /\ q.fixed = call[t].fixed
        /\ q.eligible = call[t].eligible /\ q.op = call[t].op
    BY <2>3 DEF CallStates
  <2>6. call' = [call EXCEPT ![t] = q]
    BY <1>3 DEF MappingInv, MappingTypes, a
  <2> HIDE DEF q
  <2>7. Preferred(q)
    BY <1>1, <2>5 DEF Preferred, MappingInv, PreferenceIsKept
  <2> QED
    BY <1>1, <2>4, <2>5, <2>6, <2>7, CallMovesKeeps
<1> QED
  BY <1>2, <1>3 DEF Mapping!MapFinds, Mapping!Returns

\* A thread is handed a range of the software memory: it was free or its own.
LEMMA SoftGivenKeeps ==
    ASSUME MappingInv, NEW t \in Threads, NEW at, call[t].stage # "idle",
           soft' = Mapping!Owned(soft, at, call[t].size, t), Mapping!Gives(t, TRUE, at),
           UNCHANGED <<native, hidden, pending, poolSize, alias, started>>,
           Mapping!Cells(at, call[t].size) \subseteq Mapping!SoftSpace,
           \A c \in Mapping!Cells(at, call[t].size) : soft[c] \in {t, Mapping!Free}
    PROVE  MappingInv'
<1> DEFINE K == Extent(TRUE, at, call[t].size)
<1>0. started /\ Mapping!Idle \in CallStates /\ Preferred(Mapping!Idle) /\ Mapping!Idle.stage = "idle" /\ t \in Int
  BY CallUnderWay, MarkFacts
<1>1. /\ native' \in [Mapping!NativeSpace -> Int] /\ soft' \in [Mapping!SoftSpace -> Int]
      /\ \A g : IsPlace(g) /\ g \notin K => Mapping!Owner(g[1], g[2])' = Mapping!Owner(g[1], g[2])
      /\ \A g \in K : IsPlace(g) /\ Mapping!Owner(g[1], g[2])' = t
  <2> DEFINE size == call[t].size
  <2>1. /\ native' = native /\ soft' = Mapping!Owned(soft, at, size, t)
        /\ Mapping!Cells(at, size) \subseteq Mapping!SoftSpace
    OBVIOUS
  <2> HIDE DEF size
  <2> SUFFICES /\ native' \in [Mapping!NativeSpace -> Int] /\ soft' \in [Mapping!SoftSpace -> Int]
               /\ \A g : IsPlace(g) /\ g \notin Extent(TRUE, at, size) => Mapping!Owner(g[1], g[2])' = Mapping!Owner(g[1], g[2])
               /\ \A g \in Extent(TRUE, at, size) : IsPlace(g) /\ Mapping!Owner(g[1], g[2])' = t
    BY DEF size
  <2>2. native' \in [Mapping!NativeSpace -> Int] /\ soft' \in [Mapping!SoftSpace -> Int]
    BY <1>0, <2>1, SoftChanges
  <2>3. \A g : IsPlace(g) /\ g \notin Extent(TRUE, at, size) => Mapping!Owner(g[1], g[2])' = Mapping!Owner(g[1], g[2])
    BY <1>0, <2>1, SoftChanges, ZenonT(40)
  <2>4. \A g \in Extent(TRUE, at, size) : IsPlace(g)
    BY <1>0, <2>1, SoftChanges
  <2>5. ASSUME NEW g \in Extent(TRUE, at, size) PROVE Mapping!Owner(g[1], g[2])' = t
    <3> PICK c \in Mapping!Cells(at, size) : g = <<TRUE, c>>
      BY DEF Extent
    <3>1. soft'[c] = t
      BY <1>0, <2>1, SoftChanges
    <3> QED
      BY <3>1 DEF Mapping!Owner
  <2> QED
    BY <2>2, <2>3, <2>4, <2>5
<1>2. ASSUME NEW g \in K PROVE Mapping!Owner(g[1], g[2]) \in {t, Mapping!Free}
  <2> PICK c \in Mapping!Cells(at, call[t].size) : g = <<TRUE, c>>
    BY DEF Extent
  <2> QED
    BY DEF Mapping!Owner
<1>3. call' = [call EXCEPT ![t] = Mapping!Idle] /\ given' = [given EXCEPT ![t] = @ \cup K]
  BY DEF Mapping!Gives, Mapping!Returns, Extent
<1> HIDE DEF K
<1>4. given'[t] = given[t] \cup K /\ given' = [given EXCEPT ![t] = given'[t]]
  BY <1>3 DEF MappingInv, MappingTypes
<1>5. \A g \in given'[t] : IsPlace(g) /\ Mapping!Owner(g[1], g[2])' = t
  BY <1>1, <1>4 DEF MappingInv, GivenIsOwned
<1>6. PoolIsWhole'
  BY DEF PoolIsWhole, Mapping!PoolIsConserved, MappingInv
<1>7. alias => \A c \in Mapping!NativeSpace \cap Mapping!CodeCells : native'[c] = Mapping!Code /\ c \notin hidden'
  BY DEF AliasIsKept, MappingInv
<1>8. pending' \in Int
  BY DEF MappingInv, MappingTypes
<1> QED
  BY <1>0, <1>1, <1>2, <1>3, <1>4, <1>5, <1>6, <1>7, <1>8, CallGoesOnKeeps

LEMMA MapFixedKeeps ==
    ASSUME MappingInv, NEW t \in Threads, Mapping!MapFixed(t)
    PROVE  MappingInv'
<1> DEFINE r == call[t]
<1>1. r.stage = "fixed" /\ UNCHANGED <<native, hidden, pending, poolSize, alias, started>>
  BY DEF Mapping!MapFixed
<1>2. CASE call' = [call EXCEPT ![t] = Mapping!Idle] /\ UNCHANGED <<soft, given>>
  BY <1>1, <1>2, CallUnderWay, CallMovesKeeps
<1>3. CASE soft' = Mapping!Owned(soft, r.at, r.size, t) /\ Mapping!Gives(t, TRUE, r.at)
  <2>1. r.soft /\ r \in CallStates
    BY <1>1, CallUnderWay DEF MappingInv, StagesAreTrue
  <2>2. r.soft = TRUE
    BY <2>1, CallShapes
  <2>3. ASSUME NEW c \in Mapping!Cells(r.at, r.size)
        PROVE  c \in Mapping!SoftSpace /\ soft[c] = t
    <3> DEFINE g == <<TRUE, c>>
    <3>1. g \in Claimed(t)
      BY <1>1, <2>2 DEF Claimed, Area
    <3>2. g \in MemoryPlaces /\ g[1] = TRUE /\ g[2] = c
      BY <3>1 DEF MappingInv, ClaimedIsOwned, IsPlace
    <3>3. Mapping!Owner(g[1], g[2]) = t
      BY <3>1, <3>2 DEF MappingInv, ClaimedIsOwned
    <3>4. soft[c] = t
      BY <3>2, <3>3 DEF Mapping!Owner
    <3> QED
      BY <3>2, <3>4 DEF MemoryPlaces
  <2> QED
    BY <1>1, <1>3, <2>3, SoftGivenKeeps
<1> QED
  BY <1>2, <1>3 DEF Mapping!MapFixed, Mapping!Returns

\* gm_sparse_map without replacement places only where nothing is.
LEMMA MapPlacesKeeps ==
    ASSUME MappingInv, NEW t \in Threads, Mapping!MapPlaces(t)
    PROVE  MappingInv'
<1> DEFINE r == call[t]
           q == [r EXCEPT !.stage = "find"]
<1>1. r.stage = "place" /\ UNCHANGED <<native, hidden, pending, poolSize, alias, started>>
  BY DEF Mapping!MapPlaces
<1>2. CASE call' = [call EXCEPT ![t] = Mapping!Idle] /\ UNCHANGED <<soft, given>>
  BY <1>1, <1>2, CallUnderWay, CallMovesKeeps
<1>3. CASE Mapping!Goes(t, "find") /\ UNCHANGED <<soft, given>>
  <2>1. r \in CallStates /\ "find" \in Stages
    BY <1>1, CallUnderWay DEF Stages
  <2>2. q \in CallStates
    BY <2>1, CallShapes
  <2>3. /\ q.stage = "find" /\ q.soft = r.soft /\ q.size = r.size /\ q.fixed = r.fixed
        /\ q.eligible = r.eligible /\ q.op = r.op
    BY <2>1 DEF CallStates
  <2>4. call' = [call EXCEPT ![t] = q]
    BY <1>3 DEF MappingInv, MappingTypes, Mapping!Goes
  <2> HIDE DEF q
  <2>5. Preferred(q)
    BY <1>1, <2>3 DEF Preferred, MappingInv, PreferenceIsKept
  <2> QED
    BY <1>1, <1>3, <2>2, <2>3, <2>4, <2>5, CallMovesKeeps
<1>4. CASE ~Mapping!Overlapped(t) /\ soft' = Mapping!Owned(soft, r.at, r.size, t) /\ Mapping!Gives(t, TRUE, r.at)
  <2>1. /\ Mapping!Cells(r.at, r.size) \subseteq Mapping!SoftSpace
        /\ \A c \in Mapping!Cells(r.at, r.size) : soft[c] = Mapping!Free
    BY <1>4 DEF Mapping!Overlapped, Mapping!Gaps, Mapping!Fits, MappingInv, MappingTypes
  <2> QED
    BY <1>1, <1>4, <2>1, SoftGivenKeeps
<1> QED
  BY <1>2, <1>3, <1>4 DEF Mapping!MapPlaces, Mapping!Returns

\* A range of the native memory changes hands at the end of a call.
LEMMA NativeRangeKeeps ==
    ASSUME MappingInv, NEW t \in Threads, NEW at, NEW size, NEW who \in {t, Mapping!Free}, call[t].stage # "idle",
           native' = Mapping!Owned(native, at, size, who), Mapping!Returns(t),
           soft' = soft, UNCHANGED <<poolSize, alias, started>>, hidden' \subseteq hidden, pending' \in Int,
           given' = [given EXCEPT ![t] = given'[t]], given'[t] \subseteq given[t] \cup Extent(FALSE, at, size),
           who = t \/ given'[t] \cap Extent(FALSE, at, size) = {},
           Mapping!Cells(at, size) \subseteq Mapping!NativeSpace,
           \A c \in Mapping!Cells(at, size) :
               \/ native[c] \in {t, Mapping!Free, Mapping!Pool}
               \/ native[c] = Mapping!Code /\ t = Mapping!Min(Threads),
           alias => Mapping!Cells(at, size) \cap Mapping!CodeCells = {},
           PoolIsWhole'
    PROVE  MappingInv'
<1> DEFINE K == Extent(FALSE, at, size)
<1>0. started /\ Mapping!Idle \in CallStates /\ Preferred(Mapping!Idle) /\ Mapping!Idle.stage = "idle" /\ t \in Int /\ who \in Int
  BY CallUnderWay, MarkFacts
<1>1. /\ native' \in [Mapping!NativeSpace -> Int] /\ soft' \in [Mapping!SoftSpace -> Int]
      /\ \A c \in Mapping!NativeSpace : native'[c] = IF c \in Mapping!Cells(at, size) THEN who ELSE native[c]
  BY <1>0, NativeChanges
<1>2. \A g : IsPlace(g) /\ g \notin K => Mapping!Owner(g[1], g[2])' = Mapping!Owner(g[1], g[2])
  BY <1>0, NativeChanges
<1>3. ASSUME NEW g \in K
      PROVE  /\ IsPlace(g) /\ Mapping!Owner(g[1], g[2])' = who
             /\ \/ Mapping!Owner(g[1], g[2]) \in {t, Mapping!Free, Mapping!Pool}
                \/ ~g[1] /\ native[g[2]] = Mapping!Code /\ t = Mapping!Min(Threads)
  <2> PICK c \in Mapping!Cells(at, size) : g = <<FALSE, c>>
    BY DEF Extent
  <2>1. native'[c] = who /\ c \in Mapping!NativeSpace
    BY <1>1
  <2>2. g[1] = FALSE /\ g[2] = c
    OBVIOUS
  <2>3. IsPlace(g)
    BY <2>1 DEF IsPlace, MemoryPlaces
  <2>4. Mapping!Owner(g[1], g[2])' = who
    BY <2>1, <2>2 DEF Mapping!Owner
  <2>5. Mapping!Owner(g[1], g[2]) = native[c]
    BY <2>2 DEF Mapping!Owner
  <2> QED
    BY <2>2, <2>3, <2>4, <2>5
<1>4. call' = [call EXCEPT ![t] = Mapping!Idle]
  BY DEF Mapping!Returns
<1> HIDE DEF K
<1>5. ASSUME NEW g \in given'[t] PROVE IsPlace(g) /\ Mapping!Owner(g[1], g[2])' = t
  <2>1. CASE g \in K
    <3>1. who = t
      BY <1>5, <2>1 DEF K
    <3> QED
      BY <1>3, <2>1, <3>1
  <2>2. CASE g \notin K
    <3>1. g \in given[t]
      BY <1>5, <2>2 DEF K
    <3> QED
      BY <1>2, <2>2, <3>1 DEF MappingInv, GivenIsOwned
  <2> QED
    BY <2>1, <2>2
<1>6. alias => \A c \in Mapping!NativeSpace \cap Mapping!CodeCells : native'[c] = Mapping!Code /\ c \notin hidden'
  BY <1>1 DEF AliasIsKept, MappingInv
<1> QED
  BY <1>0, <1>1, <1>2, <1>3, <1>4, <1>5, <1>6, CallGoesOnKeeps

\* The reservation goes whole to the one thread that takes it.
LEMMA MapPoolKeeps ==
    ASSUME MappingInv, NEW t \in Threads, Mapping!MapPool(t)
    PROVE  MappingInv'
<1> DEFINE r == call[t]
           q == [r EXCEPT !.stage = "native"]
<1>1. /\ r.stage = "pool" /\ pending' = Mapping!None /\ r.size = poolSize /\ ~r.fixed /\ ~r.soft
      /\ UNCHANGED <<soft, hidden, poolSize, alias, started>>
  BY DEF Mapping!MapPool, Mapping!TakePool, MappingInv, StagesAreTrue
<1>2. CASE pending = Mapping!None /\ Mapping!Goes(t, "native") /\ UNCHANGED <<native, given>>
  <2>1. r \in CallStates /\ "native" \in Stages
    BY <1>1, CallUnderWay DEF Stages
  <2>2. q \in CallStates
    BY <2>1, CallShapes
  <2>3. /\ q.stage = "native" /\ q.soft = r.soft /\ q.size = r.size /\ q.fixed = r.fixed
        /\ q.eligible = r.eligible /\ q.op = r.op
    BY <2>1 DEF CallStates
  <2>4. call' = [call EXCEPT ![t] = q]
    BY <1>2 DEF MappingInv, MappingTypes, Mapping!Goes
  <2> HIDE DEF q
  <2>5. Preferred(q)
    BY <1>1, <2>3 DEF Preferred
  <2> QED
    BY <1>1, <1>2, <2>2, <2>3, <2>4, <2>5, CallMovesKeeps
<1>3. CASE pending # Mapping!None
  <2> DEFINE cells == Mapping!Cells(pending, poolSize)
  <2>1. /\ cells \subseteq Mapping!NativeSpace
        /\ \A c \in Mapping!NativeSpace : c \in cells <=> native[c] = Mapping!Pool
    BY <1>3 DEF MappingInv, PoolIsWhole, Mapping!PoolIsConserved
  <2>2. \A c \in cells : native[c] = Mapping!Pool /\ native[c] # Mapping!Code
    BY <2>1, MarkFacts
  <2>3. alias => cells \cap Mapping!CodeCells = {}
    BY <2>1, <2>2 DEF MappingInv, AliasIsKept
  <2>4. /\ pending' \in Int /\ hidden' \subseteq hidden /\ soft' = soft /\ UNCHANGED <<poolSize, alias, started>>
        /\ call[t].stage # "idle"
        /\ \A c \in Mapping!Cells(pending, poolSize) :
               \/ native[c] \in {t, Mapping!Free, Mapping!Pool}
               \/ native[c] = Mapping!Code /\ t = Mapping!Min(Threads)
    BY <1>1, <2>2, MarkFacts
  <2>5. ASSUME NEW who \in {t, Mapping!Free}, native' = Mapping!Owned(native, pending, poolSize, who)
        PROVE  PoolIsWhole'
    <3>1. who \in Int /\ who # Mapping!Pool
      BY <2>5, MarkFacts
    <3>2. \A c \in Mapping!NativeSpace : native'[c] = IF c \in cells THEN who ELSE native[c]
      BY <2>5, <3>1 DEF Mapping!Owned, MappingInv, MappingTypes
    <3>3. {c \in Mapping!NativeSpace : native'[c] = Mapping!Pool} = {}
      BY <2>1, <3>1, <3>2
    <3> QED
      BY <1>1, <3>3 DEF PoolIsWhole, Mapping!PoolIsConserved
  <2>6. CASE native' = Mapping!Owned(native, pending, poolSize, t) /\ Mapping!Gives(t, FALSE, pending)
    <3>1. given' = [given EXCEPT ![t] = @ \cup Extent(FALSE, pending, poolSize)] /\ Mapping!Returns(t)
      BY <1>1, <2>6 DEF Mapping!Gives, Extent
    <3>2. /\ given' = [given EXCEPT ![t] = given'[t]]
          /\ given'[t] \subseteq given[t] \cup Extent(FALSE, pending, poolSize)
      BY <3>1 DEF MappingInv, MappingTypes
    <3> HIDE DEF cells
    <3>3. PoolIsWhole'
      BY <2>5, <2>6
    <3>4. Mapping!Cells(pending, poolSize) \subseteq Mapping!NativeSpace
          /\ (alias => Mapping!Cells(pending, poolSize) \cap Mapping!CodeCells = {})
      BY <2>1, <2>3 DEF cells
    <3>5. t \in {t, Mapping!Free}
      OBVIOUS
    <3> QED
      BY <2>4, <2>6, <3>1, <3>2, <3>3, <3>4, <3>5, NativeRangeKeeps
  <2>7. CASE native' = Mapping!Owned(native, pending, poolSize, Mapping!Free) /\ Mapping!Returns(t) /\ UNCHANGED given
    <3>1. /\ given' = [given EXCEPT ![t] = given'[t]]
          /\ given'[t] \subseteq given[t] \cup Extent(FALSE, pending, poolSize)
      BY <2>7 DEF MappingInv, MappingTypes
    <3>2. ASSUME NEW g \in Extent(FALSE, pending, poolSize) PROVE g \notin given[t]
      <4> PICK c \in cells : g = <<FALSE, c>>
        BY DEF Extent
      <4>1. Mapping!Owner(g[1], g[2]) = Mapping!Pool
        BY <2>2 DEF Mapping!Owner
      <4> QED
        BY <4>1, MarkFacts DEF MappingInv, GivenIsOwned
    <3>3. given'[t] \cap Extent(FALSE, pending, poolSize) = {}
      BY <2>7, <3>2
    <3>4. PoolIsWhole'
      BY <2>5, <2>7
    <3>5. Mapping!Cells(pending, poolSize) \subseteq Mapping!NativeSpace
          /\ (alias => Mapping!Cells(pending, poolSize) \cap Mapping!CodeCells = {})
      BY <2>1, <2>3
    <3>6. Mapping!Free \in {t, Mapping!Free}
      OBVIOUS
    <3> HIDE DEF cells
    <3> QED
      BY <2>4, <2>7, <3>1, <3>3, <3>4, <3>5, <3>6, NativeRangeKeeps
  <2> QED
    BY <1>3, <2>6, <2>7 DEF Mapping!MapPool
<1> QED
  BY <1>2, <1>3 DEF Mapping!MapPool

\* What a native call has claimed: its own places, or the code's, which then have
\* no alias; none of the reservation.
LEMMA ClaimedNatively ==
    ASSUME MappingInv, NEW t \in Threads, call[t].soft = FALSE,
           call[t].stage = "unmap" \/ (call[t].stage = "native" /\ call[t].fixed)
    PROVE  LET cells == Mapping!Cells(call[t].at, call[t].size)
           IN  /\ cells \subseteq Mapping!NativeSpace
               /\ \A c \in cells : \/ native[c] = t
                                   \/ native[c] = Mapping!Code /\ t = Mapping!Min(Threads)
               /\ given[t] \cap Extent(FALSE, call[t].at, call[t].size) = {}
               /\ alias => cells \cap Mapping!CodeCells = {}
<1> DEFINE cells == Mapping!Cells(call[t].at, call[t].size)
<1>1. Claimed(t) = Extent(FALSE, call[t].at, call[t].size)
  BY DEF Claimed, Area, Extent
<1>2. ASSUME NEW c \in cells
      PROVE  /\ c \in Mapping!NativeSpace
             /\ native[c] = t \/ (native[c] = Mapping!Code /\ t = Mapping!Min(Threads))
             /\ alias => c \notin Mapping!CodeCells
             /\ <<FALSE, c>> \notin given[t]
  <2> DEFINE g == <<FALSE, c>>
  <2>1. g \in Claimed(t)
    BY <1>1 DEF Extent
  <2>2. g[1] = FALSE /\ g[2] = c
    OBVIOUS
  <2>3. g \in MemoryPlaces /\ g \notin given[t]
    BY <2>1 DEF MappingInv, ClaimedIsOwned, IsPlace
  <2>4. c \in Mapping!NativeSpace
    BY <2>2, <2>3 DEF MemoryPlaces
  <2>5. Mapping!Owner(g[1], g[2]) = native[c]
    BY <2>2 DEF Mapping!Owner
  <2> HIDE DEF g
  <2>6. native[c] = t \/ (native[c] = Mapping!Code /\ t = Mapping!Min(Threads))
    BY <2>1, <2>2, <2>5 DEF MappingInv, ClaimedIsOwned
  <2>7. alias => c \notin Mapping!CodeCells
    BY <2>1, <2>2 DEF MappingInv, AliasIsKept
  <2> QED
    BY <2>3, <2>4, <2>6, <2>7 DEF g
<1>3. given[t] \cap Extent(FALSE, call[t].at, call[t].size) = {}
  BY <1>2 DEF Extent
<1> QED
  BY <1>2, <1>3

\* A range without a cell of the reservation changes hands: it stays as it was.
LEMMA PoolStays ==
    ASSUME MappingInv, NEW at, NEW size, NEW who \in Int, who # Mapping!Pool,
           native' = Mapping!Owned(native, at, size, who), UNCHANGED <<pending, poolSize>>,
           \A c \in Mapping!Cells(at, size) : native[c] # Mapping!Pool
    PROVE  PoolIsWhole'
<1>1. \A c \in Mapping!NativeSpace : native'[c] = IF c \in Mapping!Cells(at, size) THEN who ELSE native[c]
  BY DEF Mapping!Owned, MappingInv, MappingTypes
<1>2. \A c \in Mapping!NativeSpace : native'[c] = Mapping!Pool <=> native[c] = Mapping!Pool
  BY <1>1
<1> QED
  BY <1>2 DEF MappingInv, PoolIsWhole, Mapping!PoolIsConserved

\* The host's mmap: a gap, or the fixed range that was claimed.
LEMMA MapNativeKeeps ==
    ASSUME MappingInv, NEW t \in Threads, Mapping!MapNative(t)
    PROVE  MappingInv'
<1> DEFINE r == call[t]
<1>1. r.stage = "native" /\ UNCHANGED <<soft, pending, poolSize, alias, started>>
  BY DEF Mapping!MapNative
<1>2. r \in CallStates /\ ~r.soft
  BY <1>1, CallUnderWay DEF MappingInv, StagesAreTrue
<1>3. CASE call' = [call EXCEPT ![t] = Mapping!Idle] /\ UNCHANGED <<native, hidden, given>>
  BY <1>1, <1>3, CallUnderWay, CallMovesKeeps
<1>4. CASE /\ call' = [call EXCEPT ![t].stage = Mapping!SoftStage(r), ![t].op = "fallback"]
           /\ UNCHANGED <<native, hidden, given>>
  <2> DEFINE stage == Mapping!SoftStage(r)
             q == [r EXCEPT !.stage = stage, !.op = "fallback"]
  <2>1. stage \in {"fail", "find"} /\ stage \in Stages
    BY <1>2 DEF Mapping!SoftStage, Stages
  <2>2. call' = [call EXCEPT ![t] = q]
    BY <1>4 DEF MappingInv, MappingTypes
  <2> HIDE DEF stage
  <2>3. q \in CallStates
    BY <1>2, <2>1, CallShapes
  <2>4. q.stage = stage /\ q.op = "fallback"
    BY <1>2 DEF CallStates
  <2> HIDE DEF q
  <2>5. Preferred(q)
    BY <2>1, <2>4 DEF Preferred
  <2> QED
    BY <1>1, <1>4, <2>1, <2>2, <2>3, <2>4, <2>5, CallMovesKeeps
<1>5. CASE \E at \in IF r.fixed THEN {r.at} ELSE Mapping!Gaps(native, r.size) :
             /\ native' = Mapping!Owned(native, at, r.size, t)
             /\ hidden' = hidden \ Mapping!Cells(at, r.size)
             /\ Mapping!Gives(t, FALSE, at)
  <2> PICK at \in IF r.fixed THEN {r.at} ELSE Mapping!Gaps(native, r.size) :
             /\ native' = Mapping!Owned(native, at, r.size, t)
             /\ hidden' = hidden \ Mapping!Cells(at, r.size)
             /\ Mapping!Gives(t, FALSE, at)
    BY <1>5
  <2> DEFINE size == r.size
  <2>1. /\ Mapping!Cells(at, size) \subseteq Mapping!NativeSpace
        /\ \A c \in Mapping!Cells(at, size) : \/ native[c] \in {t, Mapping!Free, Mapping!Pool}
                                              \/ native[c] = Mapping!Code /\ t = Mapping!Min(Threads)
        /\ \A c \in Mapping!Cells(at, size) : native[c] # Mapping!Pool
        /\ alias => Mapping!Cells(at, size) \cap Mapping!CodeCells = {}
    <3>1. CASE r.fixed
      <4>1. at = r.at /\ r.soft = FALSE
        BY <1>2, <3>1, CallShapes
      <4> QED
        BY <1>1, <3>1, <4>1, ClaimedNatively, MarkFacts
    <3>2. CASE ~r.fixed
      <4>1. /\ Mapping!Cells(at, size) \subseteq Mapping!NativeSpace
            /\ \A c \in Mapping!Cells(at, size) : native[c] = Mapping!Free
        BY <3>2 DEF Mapping!Gaps, Mapping!Fits, MappingInv, MappingTypes
      <4>2. alias => Mapping!Cells(at, size) \cap Mapping!CodeCells = {}
        BY <4>1, MarkFacts DEF MappingInv, AliasIsKept
      <4> QED
        BY <4>1, <4>2, MarkFacts
    <3> QED
      BY <3>1, <3>2
  <2>2. /\ native' = Mapping!Owned(native, at, size, t) /\ Mapping!Returns(t)
        /\ given' = [given EXCEPT ![t] = @ \cup Extent(FALSE, at, size)]
        /\ hidden' \subseteq hidden
    BY DEF Mapping!Gives, Extent
  <2> HIDE DEF size
  <2>3. /\ given' = [given EXCEPT ![t] = given'[t]]
        /\ given'[t] \subseteq given[t] \cup Extent(FALSE, at, size)
    BY <2>2 DEF MappingInv, MappingTypes
  <2>4. t \in Int /\ t # Mapping!Pool
    BY MarkFacts
  <2>5. PoolIsWhole'
    BY <1>1, <2>1, <2>2, <2>4, PoolStays
  <2>6. pending' \in Int /\ soft' = soft /\ UNCHANGED <<poolSize, alias, started>> /\ call[t].stage # "idle"
    BY <1>1 DEF MappingInv, MappingTypes
  <2>7. t \in {t, Mapping!Free}
    OBVIOUS
  <2> QED
    BY <2>1, <2>2, <2>3, <2>5, <2>6, <2>7, NativeRangeKeeps
<1> QED
  BY <1>3, <1>4, <1>5 DEF Mapping!MapNative, Mapping!Returns

\* munmap and gm_sparse_unmap free what the call claimed.
LEMMA UnmapsKeeps ==
    ASSUME MappingInv, NEW t \in Threads, Mapping!Unmaps(t)
    PROVE  MappingInv'
<1> DEFINE r == call[t]
<1>1. /\ r.stage = "unmap" /\ Mapping!Returns(t) /\ UNCHANGED <<pending, poolSize, alias, given, started>>
      /\ call' = [call EXCEPT ![t] = Mapping!Idle]
  BY DEF Mapping!Unmaps, Mapping!Returns
<1>2. r \in CallStates /\ r.soft \in BOOLEAN
  BY <1>1, CallUnderWay, CallShapes
<1>3. CASE UNCHANGED <<soft, native, hidden>>
  BY <1>1, <1>3, CallUnderWay, CallMovesKeeps
<1>4. given' = [given EXCEPT ![t] = given'[t]] /\ given' = given
  BY <1>1 DEF MappingInv, MappingTypes
<1>5. CASE /\ r.soft /\ soft' = Mapping!Owned(soft, r.at, r.size, Mapping!Free) /\ UNCHANGED <<native, hidden>>
  <2> DEFINE at == r.at
             size == r.size
  <2>0. r.soft = TRUE
    BY <1>2, <1>5
  <2>1. Claimed(t) = Extent(TRUE, at, size)
    BY <1>1, <2>0 DEF Claimed, Area, Extent
  <2>2. ASSUME NEW c \in Mapping!Cells(at, size)
        PROVE  c \in Mapping!SoftSpace /\ soft[c] = t /\ <<TRUE, c>> \notin given[t]
    <3> DEFINE g == <<TRUE, c>>
    <3>1. g \in Claimed(t)
      BY <2>1 DEF Extent
    <3>2. g \in MemoryPlaces /\ g \notin given[t] /\ g[1] = TRUE /\ g[2] = c
      BY <3>1 DEF MappingInv, ClaimedIsOwned, IsPlace
    <3>3. Mapping!Owner(g[1], g[2]) = t
      BY <3>1, <3>2 DEF MappingInv, ClaimedIsOwned
    <3> QED
      BY <3>2, <3>3 DEF Mapping!Owner, MemoryPlaces
  <2>3. soft' = Mapping!Owned(soft, at, size, Mapping!Free) /\ native' = native /\ hidden' = hidden
    BY <1>5
  <2> HIDE DEF at, size
  <2>4. Mapping!Free \in Int /\ Mapping!Cells(at, size) \subseteq Mapping!SoftSpace
    BY <2>2, MarkFacts
  <2>5. /\ native' \in [Mapping!NativeSpace -> Int] /\ soft' \in [Mapping!SoftSpace -> Int]
        /\ \A g : IsPlace(g) /\ g \notin Extent(TRUE, at, size) => Mapping!Owner(g[1], g[2])' = Mapping!Owner(g[1], g[2])
    BY <2>3, <2>4, SoftChanges
  <2>6. ASSUME NEW g \in Extent(TRUE, at, size) PROVE Mapping!Owner(g[1], g[2]) = t /\ g \notin given[t]
    <3> PICK c \in Mapping!Cells(at, size) : g = <<TRUE, c>>
      BY DEF Extent
    <3> QED
      BY <2>2 DEF Mapping!Owner
  <2>7. \A g \in given'[t] : IsPlace(g) /\ Mapping!Owner(g[1], g[2])' = t
    BY <1>4, <2>5, <2>6 DEF MappingInv, GivenIsOwned
  <2>8. PoolIsWhole'
    BY <1>1, <2>3 DEF PoolIsWhole, Mapping!PoolIsConserved, MappingInv
  <2>9. alias => \A c \in Mapping!NativeSpace \cap Mapping!CodeCells : native'[c] = Mapping!Code /\ c \notin hidden'
    BY <2>3 DEF AliasIsKept, MappingInv
  <2>10. /\ started /\ Mapping!Idle \in CallStates /\ Preferred(Mapping!Idle) /\ Mapping!Idle.stage = "idle"
         /\ pending' \in Int
    BY <1>1, CallUnderWay DEF MappingInv, MappingTypes
  <2> QED
    BY <1>1, <1>4, <2>5, <2>6, <2>7, <2>8, <2>9, <2>10, CallGoesOnKeeps
<1>6. CASE /\ ~r.soft /\ native' = Mapping!Owned(native, r.at, r.size, Mapping!Free)
           /\ hidden' = hidden \ Mapping!Cells(r.at, r.size) /\ UNCHANGED soft
  <2> DEFINE at == r.at
             size == r.size
  <2>1. /\ Mapping!Cells(at, size) \subseteq Mapping!NativeSpace
        /\ \A c \in Mapping!Cells(at, size) : \/ native[c] = t
                                              \/ native[c] = Mapping!Code /\ t = Mapping!Min(Threads)
        /\ given[t] \cap Extent(FALSE, at, size) = {}
        /\ alias => Mapping!Cells(at, size) \cap Mapping!CodeCells = {}
    <3>1. r.soft = FALSE
      BY <1>2, <1>6
    <3> QED
      BY <1>1, <3>1, ClaimedNatively
  <2>2. native' = Mapping!Owned(native, at, size, Mapping!Free) /\ hidden' \subseteq hidden /\ soft' = soft
    BY <1>6
  <2> HIDE DEF at, size
  <2>3. Mapping!Free \in Int /\ Mapping!Free # Mapping!Pool /\ \A c \in Mapping!Cells(at, size) : native[c] # Mapping!Pool
    BY <2>1, MarkFacts
  <2>4. PoolIsWhole'
    BY <1>1, <2>2, <2>3, PoolStays
  <2>5. /\ given'[t] \subseteq given[t] \cup Extent(FALSE, at, size) /\ given'[t] \cap Extent(FALSE, at, size) = {}
        /\ \A c \in Mapping!Cells(at, size) : \/ native[c] \in {t, Mapping!Free, Mapping!Pool}
                                              \/ native[c] = Mapping!Code /\ t = Mapping!Min(Threads)
    BY <1>4, <2>1
  <2>6. pending' \in Int /\ UNCHANGED <<poolSize, alias, started>> /\ call[t].stage # "idle" /\ Mapping!Returns(t)
    BY <1>1 DEF MappingInv, MappingTypes
  <2>7. Mapping!Free \in {t, Mapping!Free}
    OBVIOUS
  <2> QED
    BY <1>4, <2>1, <2>2, <2>4, <2>5, <2>6, <2>7, NativeRangeKeeps
<1> QED
  BY <1>3, <1>5, <1>6 DEF Mapping!Unmaps

\* gsv_protect hides code only when its alias is gone.
LEMMA ProtectsMapKeeps ==
    ASSUME MappingInv, NEW t \in Threads, Mapping!Protects(t)
    PROVE  MappingInv'
<1> DEFINE r == call[t]
<1> USE DEF MappingInv
<1>1. /\ r.stage = "protect" /\ call' = [call EXCEPT ![t] = Mapping!Idle]
      /\ UNCHANGED <<native, soft, pending, poolSize, alias, given, started>>
  BY DEF Mapping!Protects, Mapping!Returns
<1>2. /\ started /\ Mapping!Idle \in CallStates /\ Preferred(Mapping!Idle) /\ Mapping!Idle.stage = "idle"
      /\ r \in CallStates /\ r.soft \in BOOLEAN /\ r.eligible \in BOOLEAN
  BY <1>1, CallUnderWay, CallShapes
<1>3. alias => \A c \in Mapping!NativeSpace \cap Mapping!CodeCells : native'[c] = Mapping!Code /\ c \notin hidden'
  <2>1. CASE hidden' \subseteq hidden
    BY <1>1, <2>1 DEF AliasIsKept
  <2>2. CASE ~r.soft /\ ~r.eligible /\ hidden' = hidden \cup Mapping!Cells(r.at, r.size)
    BY <1>1, <2>2 DEF AliasIsKept
  <2> QED
    BY <1>2, <2>1, <2>2 DEF Mapping!Protects
<1>4. \A g : Mapping!Owner(g[1], g[2])' = Mapping!Owner(g[1], g[2])
  BY <1>1 DEF Mapping!Owner
<1>5. \A g \in given'[t] : IsPlace(g) /\ Mapping!Owner(g[1], g[2])' = t
  BY <1>1, <1>4 DEF GivenIsOwned
<1>6. PoolIsWhole'
  BY <1>1 DEF PoolIsWhole, Mapping!PoolIsConserved
<1>7. given' = [given EXCEPT ![t] = given'[t]]
  BY <1>1 DEF MappingTypes
<1>8. native' \in [Mapping!NativeSpace -> Int] /\ soft' \in [Mapping!SoftSpace -> Int] /\ pending' \in Int
  BY <1>1 DEF MappingTypes
<1> HIDE DEF MappingInv
<1> QED
  BY <1>1, <1>2, <1>3, <1>4, <1>5, <1>6, <1>7, <1>8, CallGoesOnKeeps

LEMMA MappingStepKeeps ==
    ASSUME MappingInv, Mapping!Next
    PROVE  MappingInv'
BY CodeAliasKeeps, StartKeeps, PreferNativePoolKeeps, CallsKeep, MapPoolKeeps, MapNativeKeeps, MapFailsKeeps,
   MapFixedKeeps, MapFindsKeeps, MapPlacesKeeps, UnmapsKeeps, ProtectsMapKeeps DEF Mapping!Next, Mapping!Runs

LEMMA MappingStutters ==
    ASSUME MappingInv, UNCHANGED mappingVars
    PROVE  MappingInv'
<1> USE DEF mappingVars, MappingInv
<1>1. MappingTypes' /\ NothingYet' /\ GivenIsOwned' /\ StagesAreTrue'
  BY DEF MappingTypes, NothingYet, GivenIsOwned, StagesAreTrue, Mapping!Owner
<1>2. \A t \in Threads : Claimed(t)' = Claimed(t)
  BY DEF Claimed, Area
<1>3. ClaimedIsOwned' /\ AliasIsKept'
  BY <1>2 DEF ClaimedIsOwned, AliasIsKept, Mapping!Owner
<1>4. PoolIsWhole' /\ PreferenceIsKept'
  BY DEF PoolIsWhole, Mapping!PoolIsConserved, PreferenceIsKept, Preferred
<1> QED
  BY <1>1, <1>3, <1>4

\* gsv_map, gsv_unmap and gsv_protect for any threads, memories and requests: no
\* cell is handed to two threads, the reserved pool is neither lost nor handed out
\* twice, the code alias is used only while it stands for readable code, and the
\* preference for the native pool is honoured.
THEOREM PlacingIsSound == Spec => []PlacementsAreSound
<1> DEFINE Inv == subject = "mapping" => MappingInv
<1>1. Init => Inv
  BY MappingStarts DEF Init
<1>2. Inv /\ [Next]_vars => Inv'
  <2> SUFFICES ASSUME Inv, [Next]_vars PROVE Inv'
    OBVIOUS
  <2>1. CASE InMapping /\ Mapping!Next
    BY <2>1, MappingStepKeeps DEF InMapping
  <2>2. CASE ~(InMapping /\ Mapping!Next)
    <3>1. UNCHANGED <<subject, mappingVars>>
      BY <2>2 DEF Next, InSignal, InSequence, InCode, vars
    <3> QED
      BY <3>1, MappingStutters
  <2> QED
    BY <2>1, <2>2
<1>3. Inv => PlacementsAreSound
  <2> SUFFICES ASSUME MappingInv
               PROVE  /\ Mapping!GivenMemoryIsKept /\ Mapping!PoolIsConserved
                      /\ Mapping!AliasIsTrue /\ Mapping!PreferenceIsHonoured
    BY DEF PlacementsAreSound
  <2> USE DEF MappingInv
  <2>1. Mapping!GivenMemoryIsKept
    BY DEF GivenIsOwned, Mapping!GivenMemoryIsKept
  <2>2. Mapping!PoolIsConserved
    BY DEF PoolIsWhole
  <2>3. Mapping!AliasIsTrue
    <3>1. \A pc \in Mapping!NativeSpace : Mapping!FetchesAlias(pc) => alias /\ pc \in Mapping!CodeCells
      BY MappingAssumption, MarkFacts DEF Mapping!FetchesAlias, Mapping!CodeCells
    <3> QED
      BY <3>1 DEF AliasIsKept, Mapping!AliasIsTrue
  <2>4. Mapping!PreferenceIsHonoured
    BY DEF PreferenceIsKept, Preferred, Mapping!PreferenceIsHonoured
  <2> QED
    BY <2>1, <2>2, <2>3, <2>4
<1> QED
  BY <1>1, <1>2, <1>3, PTL DEF Spec

-----------------------------------------------------------------------------
(* CPUs and the guest's memory: the array of pages.                        *)

Permissions == SUBSET {"r", "w", "x"}
PageRecords ==
    {p \in [address : 0 .. LastGuestPage, bytes : {<<>>} \cup [1 .. GuestPageCells -> Words],
            prot : Permissions, max : Permissions, jit : BOOLEAN] : p.prot \subseteq p.max}

\* The pages of the array by address.
Ascending(pages) == \A i, j \in 1 .. Len(pages) : i < j => pages[i].address < pages[j].address

\* Where a is, or would be put, in pages.
IsLower(pages, a, l) ==
    /\ l \in 1 .. Len(pages) + 1
    /\ \A i \in 1 .. Len(pages) : i < l <=> pages[i].address < a

\* The bounds of the search, and what it makes of them.
Bounds(pages) == (1 .. Len(pages) + 1) \X (1 .. Len(pages) + 1)
Middle(r) == r[1] + (r[2] - r[1]) \div 2
Searches(pages, a, f) ==
    f = [r \in Bounds(pages) |->
            IF r[1] >= r[2] THEN r[1]
            ELSE IF pages[Middle(r)].address < a THEN f[<<Middle(r) + 1, r[2]>>] ELSE f[<<r[1], Middle(r)>>]]

LEMMA LowerIsChosen ==
    ASSUME NEW pages, NEW a
    PROVE  Interpreter!Lower(pages, a) = (CHOOSE f : Searches(pages, a, f))[<<1, Len(pages) + 1>>]
BY DEF Interpreter!Lower, Searches, Bounds, Middle

LEMMA PageFacts ==
    ASSUME NEW pages \in Seq(PageRecords)
    PROVE  /\ Len(pages) \in Nat /\ DOMAIN pages = 1 .. Len(pages)
           /\ \A i \in 1 .. Len(pages) :
                /\ pages[i] \in PageRecords
                /\ pages[i].address \in 0 .. LastGuestPage /\ pages[i].address \in Nat
<1>1. \A i \in 1 .. Len(pages) : pages[i] \in PageRecords
  OBVIOUS
<1>2. \A p \in PageRecords : p.address \in 0 .. LastGuestPage
  BY DEF PageRecords
<1> QED
  BY <1>1, <1>2, CodeAssumption

LEMMA LowerExists ==
    ASSUME NEW pages \in Seq(PageRecords), Ascending(pages), NEW a \in Nat
    PROVE  \E l : IsLower(pages, a, l)
<1> DEFINE S == {i \in 1 .. Len(pages) + 1 : i = Len(pages) + 1 \/ pages[i].address >= a}
<1>1. Len(pages) \in Nat /\ \A i \in 1 .. Len(pages) : pages[i].address \in Nat
  BY PageFacts
<1>2. S \in SUBSET Nat /\ S # {}
  BY <1>1
<1>3. PICK l \in S : \A i \in S : l <= i
  BY <1>2, LeastExists
<1>4. l \in 1 .. Len(pages) + 1
  OBVIOUS
<1>5. \A i \in 1 .. Len(pages) : i < l <=> pages[i].address < a
  <2> SUFFICES ASSUME NEW i \in 1 .. Len(pages) PROVE i < l <=> pages[i].address < a
    OBVIOUS
  <2>1. CASE i < l
    BY <2>1, <1>1, <1>3
  <2>2. CASE l <= i
    <3>1. l <= Len(pages) /\ pages[l].address >= a
      BY <2>2, <1>1, <1>3, <1>4
    <3>2. l = i \/ pages[l].address < pages[i].address
      BY <2>2, <3>1, <1>1, <1>4 DEF Ascending
    <3> QED
      BY <2>2, <3>1, <3>2, <1>1, <1>4
  <2> QED
    BY <2>1, <2>2, <1>1, <1>4
<1> QED
  BY <1>4, <1>5 DEF IsLower

LEMMA MiddleIs ==
    ASSUME NEW lo \in Nat, NEW hi \in Nat, lo < hi
    PROVE  Middle(<<lo, hi>>) \in Nat /\ lo <= Middle(<<lo, hi>>) /\ Middle(<<lo, hi>>) < hi
BY DEF Middle

\* The binary search finds the first page at or above a.
LEMMA LowerFinds ==
    ASSUME NEW pages \in Seq(PageRecords), Ascending(pages), NEW a \in Nat
    PROVE  IsLower(pages, a, Interpreter!Lower(pages, a))
<1>1. Len(pages) \in Nat /\ \A i \in 1 .. Len(pages) : pages[i].address \in Nat
  BY PageFacts
<1>2. PICK l : IsLower(pages, a, l)
  BY LowerExists
<1> DEFINE B == Bounds(pages)
           g == [r \in B |-> IF r[1] >= r[2] THEN r[1] ELSE IF r[2] <= l THEN r[2]
                             ELSE IF r[1] >= l THEN r[1] ELSE l]
           f == CHOOSE f : Searches(pages, a, f)
<1>3. \A lo, hi \in 1 .. Len(pages) + 1 : lo < hi =>
        LET m == Middle(<<lo, hi>>)
        IN  /\ m \in 1 .. Len(pages) /\ lo <= m /\ m < hi
            /\ <<m + 1, hi>> \in B /\ <<lo, m>> \in B
            /\ m < l <=> pages[m].address < a
  BY <1>1, <1>2, MiddleIs DEF Bounds, IsLower
<1>4. Searches(pages, a, g)
  <2> SUFFICES ASSUME NEW r \in B
               PROVE  g[r] = IF r[1] >= r[2] THEN r[1]
                             ELSE IF pages[Middle(r)].address < a THEN g[<<Middle(r) + 1, r[2]>>]
                             ELSE g[<<r[1], Middle(r)>>]
    BY DEF Searches
  <2>1. PICK lo \in 1 .. Len(pages) + 1, hi \in 1 .. Len(pages) + 1 : r = <<lo, hi>>
    BY DEF Bounds
  <2>2. CASE lo >= hi
    BY <2>1, <2>2
  <2>3. CASE lo < hi
    <3> DEFINE m == Middle(r)
    <3>1. /\ m \in 1 .. Len(pages) /\ lo <= m /\ m < hi
          /\ <<m + 1, hi>> \in B /\ <<lo, m>> \in B
          /\ m < l <=> pages[m].address < a
      BY <1>3, <2>1, <2>3
    <3> HIDE DEF m, B
    <3>2. CASE m < l
      <4>1. g[<<m + 1, hi>>] = IF m + 1 >= hi THEN m + 1 ELSE IF hi <= l THEN hi ELSE IF m + 1 >= l THEN m + 1 ELSE l
        BY <3>1
      <4>2. g[r] = IF hi <= l THEN hi ELSE IF lo >= l THEN lo ELSE l
        BY <2>1, <2>3, <1>1
      <4> QED
        BY <4>1, <4>2, <3>1, <3>2, <2>1, <2>3, <1>1, <1>2 DEF m, IsLower
    <3>3. CASE m >= l
      <4>1. g[<<lo, m>>] = IF lo >= m THEN lo ELSE IF m <= l THEN m ELSE IF lo >= l THEN lo ELSE l
        BY <3>1
      <4>2. g[r] = IF hi <= l THEN hi ELSE IF lo >= l THEN lo ELSE l
        BY <2>1, <2>3, <1>1
      <4> QED
        BY <4>1, <4>2, <3>1, <3>3, <2>1, <2>3, <1>1, <1>2 DEF m, IsLower
    <3> QED
      BY <3>1, <3>2, <3>3, <1>2, <1>1 DEF IsLower
  <2> QED
    BY <2>1, <2>2, <2>3, <1>1
<1>5. Searches(pages, a, f)
  BY <1>4
<1> HIDE DEF f, g
<1>6. \A k \in Nat : \A lo, hi \in 1 .. Len(pages) + 1 : hi - lo <= k /\ lo <= l /\ l <= hi => f[<<lo, hi>>] = l
  <2> DEFINE N == {k \in Nat : \A lo, hi \in 1 .. Len(pages) + 1 :
                     hi - lo <= k /\ lo <= l /\ l <= hi => f[<<lo, hi>>] = l}
  <2>0. \A lo, hi \in 1 .. Len(pages) + 1 :
          f[<<lo, hi>>] = IF lo >= hi THEN lo
                          ELSE IF pages[Middle(<<lo, hi>>)].address < a THEN f[<<Middle(<<lo, hi>>) + 1, hi>>]
                          ELSE f[<<lo, Middle(<<lo, hi>>)>>]
    <3> SUFFICES ASSUME NEW lo \in 1 .. Len(pages) + 1, NEW hi \in 1 .. Len(pages) + 1
                 PROVE  f[<<lo, hi>>] = IF lo >= hi THEN lo
                          ELSE IF pages[Middle(<<lo, hi>>)].address < a THEN f[<<Middle(<<lo, hi>>) + 1, hi>>]
                          ELSE f[<<lo, Middle(<<lo, hi>>)>>]
      OBVIOUS
    <3>1. <<lo, hi>> \in Bounds(pages)
      BY DEF Bounds
    <3> DEFINE r == <<lo, hi>>
    <3>2. f[r] = IF r[1] >= r[2] THEN r[1]
                 ELSE IF pages[Middle(r)].address < a THEN f[<<Middle(r) + 1, r[2]>>] ELSE f[<<r[1], Middle(r)>>]
      BY <3>1, <1>5 DEF Searches
    <3> QED
      BY <3>2
  <2>1. 0 \in N
    <3> SUFFICES ASSUME NEW lo \in 1 .. Len(pages) + 1, NEW hi \in 1 .. Len(pages) + 1, hi - lo <= 0, lo <= l, l <= hi
                 PROVE  f[<<lo, hi>>] = l
      OBVIOUS
    <3>1. lo >= hi /\ lo = l
      BY <1>1, <1>2 DEF IsLower
    <3> QED
      BY <2>0, <3>1
  <2>2. \A k \in Nat : k \in N => k + 1 \in N
    <3> SUFFICES ASSUME NEW k \in Nat, k \in N PROVE k + 1 \in N
      OBVIOUS
    <3>0. \A lo, hi \in 1 .. Len(pages) + 1 : hi - lo <= k /\ lo <= l /\ l <= hi => f[<<lo, hi>>] = l
      OBVIOUS
    <3> SUFFICES ASSUME NEW lo \in 1 .. Len(pages) + 1, NEW hi \in 1 .. Len(pages) + 1,
                        hi - lo <= k + 1, lo <= l, l <= hi
                 PROVE  f[<<lo, hi>>] = l
      OBVIOUS
    <3>1. CASE lo >= hi
      BY <3>1, <2>0, <1>1, <1>2 DEF IsLower
    <3>2. CASE lo < hi
      <4> DEFINE m == Middle(<<lo, hi>>)
      <4>1. /\ m \in 1 .. Len(pages) /\ lo <= m /\ m < hi
            /\ m < l <=> pages[m].address < a
        BY <1>3, <3>2
      <4>2. f[<<lo, hi>>] = IF pages[m].address < a THEN f[<<m + 1, hi>>] ELSE f[<<lo, m>>]
        BY <2>0, <3>2, <1>1
      <4> HIDE DEF m
      <4>3. CASE m < l
        <5>1. m + 1 \in 1 .. Len(pages) + 1 /\ hi - (m + 1) <= k /\ m + 1 <= l
          BY <4>1, <4>3, <1>1, <1>2 DEF IsLower
        <5> QED
          BY <3>0, <5>1, <4>1, <4>2, <4>3
      <4>4. CASE l <= m
        <5>1. m \in 1 .. Len(pages) + 1 /\ m - lo <= k
          BY <4>1, <4>4, <1>1, <1>2 DEF IsLower
        <5>2. ~(pages[m].address < a)
          BY <4>1, <4>4, <1>1, <1>2 DEF IsLower
        <5> QED
          BY <3>0, <5>1, <5>2, <4>1, <4>2, <4>4
      <4> QED
        BY <4>3, <4>4, <4>1, <1>1, <1>2 DEF IsLower
    <3> QED
      BY <3>1, <3>2, <1>1
  <2> HIDE DEF N
  <2>3. Nat \subseteq N
    BY <2>1, <2>2, SetInduction
  <2> QED
    BY <2>3 DEF N
<1>7. f[<<1, Len(pages) + 1>>] = l
  BY <1>1, <1>2, <1>6 DEF IsLower
<1> QED
  BY <1>2, <1>7, LowerIsChosen DEF f

-----------------------------------------------------------------------------
(* What an access meets, by the index of the page.                         *)

At(pages, p, i) == i \in 1 .. Len(pages) /\ pages[i].address = p

LEMMA LowerIsIndex ==
    ASSUME NEW pages \in Seq(PageRecords), Ascending(pages), NEW p \in Nat
    PROVE  /\ \A i : At(pages, p, i) => Interpreter!Lower(pages, p) = i
           /\ LET l == Interpreter!Lower(pages, p)
              IN  l \in 1 .. Len(pages) + 1 /\ (l <= Len(pages) /\ pages[l].address = p => At(pages, p, l))
<1> DEFINE l == Interpreter!Lower(pages, p)
<1>1. l \in 1 .. Len(pages) + 1 /\ \A i \in 1 .. Len(pages) : i < l <=> pages[i].address < p
  BY LowerFinds DEF IsLower
<1> HIDE DEF l
<1>2. Len(pages) \in Nat /\ \A i \in 1 .. Len(pages) : pages[i].address \in Nat
  BY PageFacts
<1>3. ASSUME NEW i, At(pages, p, i) PROVE l = i
  <2>1. l <= i
    BY <1>1, <1>2, <1>3 DEF At
  <2>2. l \in 1 .. Len(pages) /\ ~(pages[l].address < p)
    BY <1>1, <1>2, <1>3, <2>1 DEF At
  <2>3. ~(l < i)
    BY <1>2, <1>3, <2>2 DEF At, Ascending
  <2> QED
    BY <2>1, <2>2, <2>3, <1>3 DEF At
<1> QED
  BY <1>1, <1>2, <1>3 DEF At, l

\* Memories with the invariant of the array.
Memories == [pages : Seq(PageRecords), generation : Nat, code : Nat, fault : Int]
Good(m) == m \in Memories /\ Ascending(m.pages)

Refuses(page, t, need) == ~(need \subseteq page.prot) \/ Interpreter!JitRefuses(page, t, need)
CellOf(page, c) == IF page.bytes = <<>> THEN 0 ELSE page.bytes[(c % GuestPageCells) + 1]

LEMMA PageOfFacts ==
    ASSUME NEW c \in Nat
    PROVE  /\ Interpreter!PageOf(c) \in Nat /\ c % GuestPageCells \in 0 .. GuestPageCells - 1
           /\ c = Interpreter!PageOf(c) * GuestPageCells + (c % GuestPageCells)
<1> DEFINE q == c \div GuestPageCells
           i == c % GuestPageCells
<1>1. GuestPageCells \in Nat /\ GuestPageCells > 0
  BY CodeAssumption
<1>2. q \in Nat /\ i \in 0 .. GuestPageCells - 1 /\ c = GuestPageCells * q + i
  BY <1>1
<1> HIDE DEF q, i
<1>3. GuestPageCells * q = q * GuestPageCells
  BY <1>1, <1>2
<1>4. Interpreter!PageOf(c) = q /\ c % GuestPageCells = i
  BY DEF Interpreter!PageOf, q, i
<1>5. c = q * GuestPageCells + i
  BY <1>2, <1>3
<1> QED
  BY <1>2, <1>4, <1>5, Zenon

\* Where a cell is in its page.
LEMMA OffsetIs ==
    ASSUME NEW c \in Nat
    PROVE  c % GuestPageCells \in Nat /\ (c % GuestPageCells) + 1 \in 1 .. GuestPageCells
<1>1. GuestPageCells \in Nat /\ GuestPageCells > 0
  BY CodeAssumption
<1>2. c % GuestPageCells \in 0 .. GuestPageCells - 1
  BY <1>1
<1> QED
  BY <1>1, <1>2

LEMMA AccessFacts ==
    ASSUME NEW m, Good(m), NEW c \in Nat, NEW t, NEW need
    PROVE  /\ \A i : At(m.pages, Interpreter!PageOf(c), i) =>
                /\ Interpreter!Check(m, t, c, need) = IF Refuses(m.pages[i], t, need) THEN "PROTECTION" ELSE "OK"
                /\ Interpreter!CellAt(m, c) = CellOf(m.pages[i], c)
           /\ (\A i : ~At(m.pages, Interpreter!PageOf(c), i)) => Interpreter!Check(m, t, c, need) = "UNMAPPED"
<1> DEFINE p == Interpreter!PageOf(c)
           l == Interpreter!Lower(m.pages, p)
<1>1. m.pages \in Seq(PageRecords) /\ Ascending(m.pages) /\ p \in Nat
  BY PageOfFacts DEF Good, Memories
<1>2. /\ \A i : At(m.pages, p, i) => l = i
      /\ l \in 1 .. Len(m.pages) + 1 /\ (l <= Len(m.pages) /\ m.pages[l].address = p => At(m.pages, p, l))
  BY <1>1, LowerIsIndex
<1>3. Len(m.pages) \in Nat
  BY <1>1, PageFacts
<1>4. /\ Interpreter!Check(m, t, c, need) =
           IF l > Len(m.pages) \/ m.pages[l].address # p THEN "UNMAPPED"
           ELSE IF Refuses(m.pages[l], t, need) THEN "PROTECTION" ELSE "OK"
      /\ Interpreter!CellAt(m, c) = CellOf(m.pages[l], c)
  BY DEF Interpreter!Check, Interpreter!CellAt, Refuses, CellOf, Interpreter!NoBytes
<1> HIDE DEF p, l
<1>5. ASSUME NEW i, At(m.pages, p, i)
      PROVE  /\ Interpreter!Check(m, t, c, need) = IF Refuses(m.pages[i], t, need) THEN "PROTECTION" ELSE "OK"
             /\ Interpreter!CellAt(m, c) = CellOf(m.pages[i], c)
  BY <1>2, <1>3, <1>4, <1>5 DEF At
<1>6. ASSUME \A i : ~At(m.pages, p, i)
      PROVE  Interpreter!Check(m, t, c, need) = "UNMAPPED"
  BY <1>2, <1>3, <1>4, <1>6
<1> QED
  BY <1>5, <1>6 DEF p

\* An access that is not refused meets a page.
LEMMA CheckedIsMapped ==
    ASSUME NEW m, Good(m), NEW c \in Nat, NEW t, NEW need, Interpreter!Check(m, t, c, need) = "OK"
    PROVE  \E i : At(m.pages, Interpreter!PageOf(c), i) /\ ~Refuses(m.pages[i], t, need)
BY AccessFacts

-----------------------------------------------------------------------------
(* Memories that differ in the bytes of their pages.                       *)

SameShape(m, k) ==
    /\ Len(k.pages) = Len(m.pages)
    /\ \A i \in 1 .. Len(m.pages) :
         /\ k.pages[i].address = m.pages[i].address /\ k.pages[i].prot = m.pages[i].prot
         /\ k.pages[i].max = m.pages[i].max /\ k.pages[i].jit = m.pages[i].jit

\* They hold the same in cell c, or something else.
SameCell(m, k, c) ==
    \A i : At(m.pages, Interpreter!PageOf(c), i) => CellOf(k.pages[i], c) = CellOf(m.pages[i], c)

LEMMA ShapeKeeps ==
    ASSUME NEW m, Good(m), NEW k \in Memories, SameShape(m, k)
    PROVE  /\ Good(k)
           /\ \A p, i : At(k.pages, p, i) <=> At(m.pages, p, i)
           /\ \A c \in Nat : \A t, need : Interpreter!Check(k, t, c, need) = Interpreter!Check(m, t, c, need)
<1>1. m.pages \in Seq(PageRecords) /\ k.pages \in Seq(PageRecords)
  BY DEF Good, Memories
<1>2. Good(k)
  BY DEF Good, SameShape, Ascending
<1>3. ASSUME NEW p, NEW i PROVE At(k.pages, p, i) <=> At(m.pages, p, i)
  BY DEF At, SameShape
<1>4. ASSUME NEW c \in Nat, NEW t, NEW need
      PROVE  Interpreter!Check(k, t, c, need) = Interpreter!Check(m, t, c, need)
  <2> DEFINE p == Interpreter!PageOf(c)
  <2>1. CASE \E i : At(m.pages, p, i)
    <3>1. PICK i : At(m.pages, p, i)
      BY <2>1
    <3>2. Refuses(k.pages[i], t, need) <=> Refuses(m.pages[i], t, need)
      BY <3>1 DEF At, SameShape, Refuses, Interpreter!JitRefuses
    <3> QED
      BY <3>1, <3>2, <1>2, <1>3, AccessFacts
  <2>2. CASE \A i : ~At(m.pages, p, i)
    BY <2>2, <1>2, <1>3, AccessFacts
  <2> QED
    BY <2>1, <2>2
<1> QED
  BY <1>2, <1>3, <1>4

\* What a program sees of them.
LEMMA ViewKeeps ==
    ASSUME NEW m, Good(m), NEW k \in Memories, SameShape(m, k)
    PROVE  /\ \A p : Interpreter!PageView(k, p) = Interpreter!PageView(m, p)
           /\ \A p : Interpreter!IsMapped(k, p) = Interpreter!IsMapped(m, p)
           /\ \A c \in Nat : Interpreter!IsMapped(m, Interpreter!PageOf(c)) =>
                \E i : At(m.pages, Interpreter!PageOf(c), i)
<1>1. m.pages \in Seq(PageRecords) /\ k.pages \in Seq(PageRecords)
  BY DEF Good, Memories
<1>2. DOMAIN m.pages = 1 .. Len(m.pages) /\ DOMAIN k.pages = 1 .. Len(m.pages)
  BY <1>1, PageFacts DEF SameShape
<1>3. ASSUME NEW p PROVE Interpreter!PageView(k, p) = Interpreter!PageView(m, p)
  <2>1. {j \in DOMAIN k.pages : k.pages[j].address = p} = {j \in DOMAIN m.pages : m.pages[j].address = p}
    BY <1>2 DEF SameShape
  <2> DEFINE J == {j \in DOMAIN m.pages : m.pages[j].address = p}
  <2>2. \A j \in J : <<k.pages[j].prot, k.pages[j].max, k.pages[j].jit>> = <<m.pages[j].prot, m.pages[j].max, m.pages[j].jit>>
    BY <1>2 DEF SameShape
  <2> HIDE DEF J
  <2>3. {<<k.pages[j].prot, k.pages[j].max, k.pages[j].jit>> : j \in J} = {<<m.pages[j].prot, m.pages[j].max, m.pages[j].jit>> : j \in J}
    BY <2>2
  <2> QED
    BY <2>1, <2>3 DEF J, Interpreter!PageView
<1>4. ASSUME NEW p PROVE Interpreter!IsMapped(k, p) = Interpreter!IsMapped(m, p)
  BY <1>2 DEF SameShape, Interpreter!IsMapped
<1>5. ASSUME NEW c \in Nat, Interpreter!IsMapped(m, Interpreter!PageOf(c))
      PROVE  \E i : At(m.pages, Interpreter!PageOf(c), i)
  BY <1>2, <1>5 DEF Interpreter!IsMapped, At
<1> QED
  BY <1>3, <1>4, <1>5

-----------------------------------------------------------------------------
(* Writes.                                                                 *)

Zeros == [j \in 1 .. GuestPageCells |-> 0]

LEMMA ZerosAre == Zeros \in [1 .. GuestPageCells -> Words] /\ Zeros # <<>>
<1>1. 1 \in DOMAIN Zeros /\ 0 \in Words
  BY CodeAssumption DEF Zeros
<1> QED
  BY <1>1 DEF Zeros

LEMMA BytesAreCells == ASSUME NEW b \in [1 .. GuestPageCells -> Words] PROVE b # <<>>
<1> SUFFICES ASSUME b = <<>> PROVE FALSE
  OBVIOUS
<1>1. DOMAIN b = 1 .. GuestPageCells /\ DOMAIN b = 1 .. 0
  OBVIOUS
<1>2. GuestPageCells \in Nat /\ GuestPageCells > 0
  BY CodeAssumption
<1>3. 1 \in 1 .. GuestPageCells
  BY <1>2
<1> QED
  BY <1>1, <1>3

\* A change of the bytes of some pages leaves the array what it is.
WithBytes(m, b) == [m EXCEPT !.pages = [i \in DOMAIN m.pages |-> [m.pages[i] EXCEPT !.bytes = b[i]]]]

LEMMA BytesChange ==
    ASSUME NEW m, Good(m), NEW k, NEW b, k = WithBytes(m, b),
           \A i \in 1 .. Len(m.pages) : b[i] \in {<<>>} \cup [1 .. GuestPageCells -> Words]
    PROVE  /\ k \in Memories /\ SameShape(m, k) /\ Good(k) /\ k.generation = m.generation /\ k.code = m.code /\ k.fault = m.fault
           /\ \A i \in 1 .. Len(m.pages) : k.pages[i].bytes = b[i]
<1>1. m.pages \in Seq(PageRecords) /\ m \in Memories
  BY DEF Good, Memories
<1>2. /\ Len(m.pages) \in Nat /\ DOMAIN m.pages = 1 .. Len(m.pages)
      /\ \A i \in 1 .. Len(m.pages) : m.pages[i] \in PageRecords
  BY <1>1, PageFacts
<1> DEFINE new == [i \in 1 .. Len(m.pages) |-> [m.pages[i] EXCEPT !.bytes = b[i]]]
<1>3. /\ k = [m EXCEPT !.pages = new] /\ k.pages = new
      /\ k.generation = m.generation /\ k.code = m.code /\ k.fault = m.fault
  BY <1>1, <1>2 DEF Memories, WithBytes
<1>4. \A i \in 1 .. Len(m.pages) :
        /\ new[i] \in PageRecords /\ new[i].bytes = b[i]
        /\ new[i].address = m.pages[i].address /\ new[i].prot = m.pages[i].prot
        /\ new[i].max = m.pages[i].max /\ new[i].jit = m.pages[i].jit
  <2> SUFFICES ASSUME NEW i \in 1 .. Len(m.pages)
               PROVE  LET p == [m.pages[i] EXCEPT !.bytes = b[i]]
                      IN  /\ p \in PageRecords /\ p.bytes = b[i]
                          /\ p.address = m.pages[i].address /\ p.prot = m.pages[i].prot
                          /\ p.max = m.pages[i].max /\ p.jit = m.pages[i].jit
    OBVIOUS
  <2>1. m.pages[i] \in PageRecords
    BY <1>2
  <2> QED
    BY <2>1 DEF PageRecords
<1> HIDE DEF new
<1>5. new \in Seq(PageRecords) /\ Len(new) = Len(m.pages)
  <2>1. new \in [1 .. Len(m.pages) -> PageRecords]
    BY <1>4 DEF new
  <2> QED
    BY <2>1, <1>2
<1>6. k \in Memories /\ SameShape(m, k)
  BY <1>1, <1>3, <1>4, <1>5 DEF Memories, SameShape
<1> QED
  BY <1>3, <1>4, <1>6, ShapeKeeps

LEMMA BackedIs ==
    ASSUME NEW m, Good(m), NEW I, \A i \in I : i \in DOMAIN m.pages /\ m.pages[i].bytes = <<>>
    PROVE  LET k == Interpreter!Backed(m, I)
           IN  /\ k \in Memories /\ SameShape(m, k) /\ Good(k)
               /\ k.generation = m.generation /\ k.code = m.code /\ k.fault = m.fault
               /\ \A c \in Nat : SameCell(m, k, c)
               /\ \A i \in 1 .. Len(m.pages) : k.pages[i].bytes = IF i \in I THEN Zeros ELSE m.pages[i].bytes
<1> DEFINE b == [i \in 1 .. Len(m.pages) |-> IF i \in I THEN Zeros ELSE m.pages[i].bytes]
           k == Interpreter!Backed(m, I)
<1>1. m.pages \in Seq(PageRecords) /\ m \in Memories
  BY DEF Good, Memories
<1>2. /\ Len(m.pages) \in Nat /\ DOMAIN m.pages = 1 .. Len(m.pages)
      /\ \A i \in 1 .. Len(m.pages) : m.pages[i] \in PageRecords
  BY <1>1, PageFacts
<1>3. \A i \in 1 .. Len(m.pages) :
        /\ b[i] \in {<<>>} \cup [1 .. GuestPageCells -> Words]
        /\ m.pages[i] = [m.pages[i] EXCEPT !.bytes = m.pages[i].bytes]
  BY <1>2, ZerosAre DEF PageRecords
<1>4. [i \in DOMAIN m.pages |-> IF i \in I THEN [m.pages[i] EXCEPT !.bytes = [j \in 1 .. GuestPageCells |-> 0]] ELSE m.pages[i]]
        = [i \in DOMAIN m.pages |-> [m.pages[i] EXCEPT !.bytes = b[i]]]
  <2> SUFFICES ASSUME NEW i \in 1 .. Len(m.pages)
               PROVE  (IF i \in I THEN [m.pages[i] EXCEPT !.bytes = [j \in 1 .. GuestPageCells |-> 0]] ELSE m.pages[i])
                        = [m.pages[i] EXCEPT !.bytes = b[i]]
    BY <1>2
  <2>1. CASE i \in I
    BY <2>1 DEF Zeros
  <2>2. CASE i \notin I
    BY <2>2, <1>3
  <2> QED
    BY <2>1, <2>2
<1>5. k = WithBytes(m, b)
  BY <1>1, <1>4 DEF WithBytes, Interpreter!Backed, Memories
<1> HIDE DEF k, b
<1>9. \A i \in 1 .. Len(m.pages) : b[i] \in {<<>>} \cup [1 .. GuestPageCells -> Words]
  BY <1>3
<1>6. /\ k \in Memories /\ SameShape(m, k) /\ Good(k) /\ k.generation = m.generation /\ k.code = m.code /\ k.fault = m.fault
      /\ \A i \in 1 .. Len(m.pages) : k.pages[i].bytes = b[i]
  BY <1>5, <1>9, BytesChange
<1>7. \A i \in 1 .. Len(m.pages) : k.pages[i].bytes = IF i \in I THEN Zeros ELSE m.pages[i].bytes
  BY <1>6 DEF b
<1>8. ASSUME NEW c \in Nat PROVE SameCell(m, k, c)
  <2> SUFFICES ASSUME NEW i \in 1 .. Len(m.pages) PROVE CellOf(k.pages[i], c) = CellOf(m.pages[i], c)
    BY DEF SameCell, At
  <2>1. (c % GuestPageCells) + 1 \in 1 .. GuestPageCells
    BY OffsetIs
  <2>2. CASE i \in I
    <3>1. k.pages[i].bytes = Zeros /\ m.pages[i].bytes = <<>> /\ Zeros[(c % GuestPageCells) + 1] = 0
      BY <2>1, <2>2, <1>7 DEF Zeros
    <3> QED
      BY <3>1, ZerosAre DEF CellOf
  <2>3. CASE i \notin I
    BY <2>3, <1>7 DEF CellOf
  <2> QED
    BY <2>2, <2>3
<1> QED
  BY <1>6, <1>7, <1>8 DEF k

LEMMA LenIs == ASSUME NEW n \in Nat, NEW words \in [1 .. n -> Words] PROVE Len(words) = n /\ DOMAIN words = 1 .. n
OBVIOUS

\* What is in cell c after words have been put at a.
Stored(m, k, a, words, c) ==
    \A i : At(m.pages, Interpreter!PageOf(c), i) =>
        CellOf(k.pages[i], c) = IF c - a + 1 \in DOMAIN words THEN words[c - a + 1] ELSE CellOf(m.pages[i], c)

LEMMA TouchedIs ==
    ASSUME NEW m, Good(m), NEW a \in Nat, NEW n \in Nat
    PROVE  /\ Interpreter!Touched(m, a, n) \subseteq 1 .. Len(m.pages)
           /\ \A c \in a .. a + n - 1 : \A i : At(m.pages, Interpreter!PageOf(c), i) => i \in Interpreter!Touched(m, a, n)
           /\ \A i \in Interpreter!Touched(m, a, n) : \E c \in a .. a + n - 1 : At(m.pages, Interpreter!PageOf(c), i)
<1>1. DOMAIN m.pages = 1 .. Len(m.pages)
  BY PageFacts DEF Good, Memories
<1> QED
  BY <1>1 DEF Interpreter!Touched, At

LEMMA PutIs ==
    ASSUME NEW m, Good(m), NEW a \in Nat, NEW n \in Nat, NEW words \in [1 .. n -> Words],
           \A i \in Interpreter!Touched(m, a, n) : m.pages[i].bytes # <<>>
    PROVE  LET k == Interpreter!Put(m, a, words)
           IN  /\ k \in Memories /\ SameShape(m, k) /\ Good(k)
               /\ k.generation = m.generation /\ k.code = m.code /\ k.fault = m.fault
               /\ \A c \in Nat : Stored(m, k, a, words, c)
<1> DEFINE T == Interpreter!Touched(m, a, n)
           Bytes(i) == [j \in 1 .. GuestPageCells |->
                          LET at == m.pages[i].address * GuestPageCells + j - a
                          IN  IF at \in DOMAIN words THEN words[at] ELSE m.pages[i].bytes[j]]
           b == [i \in 1 .. Len(m.pages) |-> IF i \in T THEN Bytes(i) ELSE m.pages[i].bytes]
           k == Interpreter!Put(m, a, words)
<1>1. m.pages \in Seq(PageRecords) /\ m \in Memories
  BY DEF Good, Memories
<1>2. /\ Len(m.pages) \in Nat /\ DOMAIN m.pages = 1 .. Len(m.pages)
      /\ \A i \in 1 .. Len(m.pages) : m.pages[i] \in PageRecords
  BY <1>1, PageFacts
<1>3. Len(words) = n /\ DOMAIN words = 1 .. n
  BY LenIs
<1>4. T \subseteq 1 .. Len(m.pages)
  BY TouchedIs
<1>5. \A i \in T : m.pages[i].bytes \in [1 .. GuestPageCells -> Words]
  BY <1>2, <1>4 DEF PageRecords
<1>6. \A i \in T : Bytes(i) \in [1 .. GuestPageCells -> Words]
  <2> SUFFICES ASSUME NEW i \in T, NEW j \in 1 .. GuestPageCells, NEW at
               PROVE  (IF at \in DOMAIN words THEN words[at] ELSE m.pages[i].bytes[j]) \in Words
    OBVIOUS
  <2> QED
    BY <1>3, <1>5
<1>7. \A i \in 1 .. Len(m.pages) : b[i] \in {<<>>} \cup [1 .. GuestPageCells -> Words]
  <2> SUFFICES ASSUME NEW i \in 1 .. Len(m.pages) PROVE b[i] \in {<<>>} \cup [1 .. GuestPageCells -> Words]
    OBVIOUS
  <2>1. CASE i \in T
    BY <2>1, <1>6
  <2>2. CASE i \notin T
    BY <2>2, <1>2 DEF PageRecords
  <2> QED
    BY <2>1, <2>2
<1>8. k = [m EXCEPT !.pages = [i \in DOMAIN m.pages |->
              IF i \in T THEN [m.pages[i] EXCEPT !.bytes = Bytes(i)] ELSE m.pages[i]]]
  BY <1>1, <1>2, <1>3 DEF Interpreter!Put, Memories
<1>9. [i \in DOMAIN m.pages |-> IF i \in T THEN [m.pages[i] EXCEPT !.bytes = Bytes(i)] ELSE m.pages[i]]
        = [i \in DOMAIN m.pages |-> [m.pages[i] EXCEPT !.bytes = b[i]]]
  <2> HIDE DEF Bytes, T
  <2> SUFFICES ASSUME NEW i \in 1 .. Len(m.pages)
               PROVE  (IF i \in T THEN [m.pages[i] EXCEPT !.bytes = Bytes(i)] ELSE m.pages[i])
                        = [m.pages[i] EXCEPT !.bytes = b[i]]
    BY <1>2
  <2>0. m.pages[i] = [m.pages[i] EXCEPT !.bytes = m.pages[i].bytes]
    BY <1>2 DEF PageRecords
  <2>1. CASE i \in T
    BY <2>1
  <2>2. CASE i \notin T
    BY <2>2, <2>0
  <2> QED
    BY <2>1, <2>2
<1>10. k = WithBytes(m, b)
  BY <1>8, <1>9, Zenon DEF WithBytes
<1> HIDE DEF k, b, Bytes, T
<1>11. /\ k \in Memories /\ SameShape(m, k) /\ Good(k) /\ k.generation = m.generation /\ k.code = m.code /\ k.fault = m.fault
       /\ \A i \in 1 .. Len(m.pages) : k.pages[i].bytes = b[i]
  BY <1>10, <1>7, BytesChange
<1>12. ASSUME NEW c \in Nat PROVE Stored(m, k, a, words, c)
  <2> SUFFICES ASSUME NEW i \in 1 .. Len(m.pages), m.pages[i].address = Interpreter!PageOf(c)
               PROVE  CellOf(k.pages[i], c) = IF c - a + 1 \in DOMAIN words THEN words[c - a + 1] ELSE CellOf(m.pages[i], c)
    BY DEF Stored, At
  <2>1. (c % GuestPageCells) + 1 \in 1 .. GuestPageCells
    BY OffsetIs
  <2>2. CASE i \in T
    <3> DEFINE x == m.pages[i].address * GuestPageCells
               j == (c % GuestPageCells) + 1
    <3>1. x \in Nat
      BY <1>1, PageFacts, CodeAssumption
    <3>2. c = x + (c % GuestPageCells)
      BY PageOfFacts
    <3>3. x + j - a = c - a + 1
      <4> DEFINE r == c % GuestPageCells
      <4>1. r \in Nat /\ c = x + r /\ j = r + 1
        BY <3>2, OffsetIs
      <4> HIDE DEF x, r, j
      <4> QED
        BY <4>1, <3>1
    <3> HIDE DEF x
    <3>4. b[i][j] = IF x + j - a \in DOMAIN words THEN words[x + j - a] ELSE m.pages[i].bytes[j]
      BY <2>1, <2>2 DEF b, Bytes, x
    <3>5. k.pages[i].bytes[j] = IF c - a + 1 \in DOMAIN words THEN words[c - a + 1] ELSE m.pages[i].bytes[j]
      BY <3>3, <3>4, <1>11
    <3>6. k.pages[i].bytes # <<>> /\ m.pages[i].bytes # <<>>
      BY <2>2, <1>5, <1>6, <1>11, BytesAreCells DEF b
    <3> QED
      BY <3>5, <3>6 DEF CellOf
  <2>3. CASE i \notin T
    <3>1. c \notin a .. a + n - 1
      BY <2>3, TouchedIs DEF At, T
    <3>2. c - a + 1 \notin DOMAIN words
      BY <3>1, <1>3
    <3>3. k.pages[i].bytes = m.pages[i].bytes
      BY <2>3, <1>11 DEF b
    <3> QED
      BY <3>2, <3>3 DEF CellOf
  <2> QED
    BY <2>2, <2>3
<1> QED
  BY <1>11, <1>12 DEF k

\* A change of the counters, or of the fault.
WithCounters(m, generation, code, fault) ==
    [m EXCEPT !.generation = generation, !.code = code, !.fault = fault]

LEMMA CountersChange ==
    ASSUME NEW m, Good(m), NEW generation \in Nat, NEW code \in Nat, NEW fault \in Int, NEW k,
           k = WithCounters(m, generation, code, fault)
    PROVE  k \in Memories /\ k.pages = m.pages /\ k.generation = generation /\ k.code = code /\ k.fault = fault
BY DEF Good, Memories, WithCounters

LEMMA SamePages ==
    ASSUME NEW m, Good(m), NEW k \in Memories, k.pages = m.pages
    PROVE  /\ SameShape(m, k) /\ Good(k)
           /\ \A c : SameCell(m, k, c)
BY DEF Good, SameShape, SameCell

LEMMA WrittenIs ==
    ASSUME NEW m, Good(m), NEW a \in Nat, NEW n \in Nat, NEW words \in [1 .. n -> Words]
    PROVE  LET k == Interpreter!Written(m, a, words)
           IN  /\ k \in Memories /\ SameShape(m, k) /\ Good(k)
               /\ k.code >= m.code
               /\ k.code = m.code => \A i \in Interpreter!Touched(m, a, n) : "x" \notin m.pages[i].prot
               /\ \A c \in Nat : Stored(m, k, a, words, c)
<1> DEFINE T == Interpreter!Touched(m, a, n)
           I == Interpreter!Unbacked(m, a, n)
           b == Interpreter!Backed(m, I)
           p == Interpreter!Put(b, a, words)
           code == \E i \in T : "x" \in m.pages[i].prot
           k == Interpreter!Written(m, a, words)
<1>1. Len(words) = n
  BY LenIs
<1>2. m \in Memories /\ DOMAIN m.pages = 1 .. Len(m.pages) /\ T \subseteq 1 .. Len(m.pages)
  BY PageFacts, TouchedIs DEF Good, Memories
<1>3. I = {i \in T : m.pages[i].bytes = <<>>}
  BY DEF Interpreter!Unbacked, Interpreter!NoBytes
<1>4. /\ b \in Memories /\ SameShape(m, b) /\ Good(b)
      /\ b.generation = m.generation /\ b.code = m.code /\ b.fault = m.fault
      /\ \A c \in Nat : SameCell(m, b, c)
      /\ \A i \in 1 .. Len(m.pages) : b.pages[i].bytes = IF i \in I THEN Zeros ELSE m.pages[i].bytes
  BY <1>2, <1>3, BackedIs
<1>5. Interpreter!Touched(b, a, n) = T
  <2>1. DOMAIN b.pages = 1 .. Len(m.pages)
    BY <1>4, PageFacts DEF Memories, SameShape
  <2> QED
    BY <1>2, <1>4, <2>1 DEF SameShape, Interpreter!Touched
<1>6. \A i \in T : b.pages[i].bytes # <<>>
  BY <1>2, <1>3, <1>4, ZerosAre
<1> HIDE DEF b
<1>7. /\ p \in Memories /\ SameShape(b, p) /\ Good(p)
      /\ p.generation = b.generation /\ p.code = b.code /\ p.fault = b.fault
      /\ \A c \in Nat : Stored(b, p, a, words, c)
  BY <1>4, <1>5, <1>6, PutIs
<1>8. k = [p EXCEPT !.generation = @ + 1, !.code = IF code THEN @ + 1 ELSE @]
  BY <1>1 DEF Interpreter!Written, b
<1> HIDE DEF p, k
<1>9. m.code \in Nat /\ p.generation \in Nat /\ p.code = m.code
  BY <1>2, <1>4, <1>7 DEF Memories
<1>10. k = [p EXCEPT !.generation = p.generation + 1, !.code = IF code THEN p.code + 1 ELSE p.code, !.fault = p.fault]
  BY <1>7, <1>8 DEF Memories
<1>11. /\ k \in Memories /\ k.pages = p.pages /\ k.code = IF code THEN m.code + 1 ELSE m.code
  <2> DEFINE g == p.generation + 1
             d == IF code THEN p.code + 1 ELSE p.code
             f == p.fault
  <2>1. g \in Nat /\ d \in Nat /\ f \in Int
    BY <1>7, <1>9 DEF Memories
  <2>2. k = WithCounters(p, g, d, f)
    BY <1>10 DEF WithCounters
  <2>3. d = IF code THEN m.code + 1 ELSE m.code
    BY <1>9
  <2> HIDE DEF g, d, f, code
  <2>4. k \in Memories /\ k.pages = p.pages /\ k.code = d
    BY <1>7, <2>1, <2>2, CountersChange
  <2> QED
    BY <2>3, <2>4
<1>12. SameShape(m, k)
  BY <1>4, <1>7, <1>11 DEF SameShape
<1>13. Good(k)
  BY <1>11, <1>12, ShapeKeeps
<1>14. ASSUME NEW c \in Nat PROVE Stored(m, k, a, words, c)
  <2> SUFFICES ASSUME NEW i, At(m.pages, Interpreter!PageOf(c), i)
               PROVE  CellOf(k.pages[i], c) = IF c - a + 1 \in DOMAIN words THEN words[c - a + 1] ELSE CellOf(m.pages[i], c)
    BY DEF Stored
  <2>1. At(b.pages, Interpreter!PageOf(c), i)
    BY <1>4, ShapeKeeps
  <2>2. CellOf(p.pages[i], c) = IF c - a + 1 \in DOMAIN words THEN words[c - a + 1] ELSE CellOf(b.pages[i], c)
    BY <1>7, <2>1 DEF Stored
  <2>3. CellOf(b.pages[i], c) = CellOf(m.pages[i], c)
    BY <1>4 DEF SameCell
  <2> QED
    BY <2>2, <2>3, <1>11
<1> QED
  BY <1>9, <1>11, <1>12, <1>13, <1>14 DEF k

\* The first cell an access cannot have.
LEMMA FaultIs ==
    ASSUME NEW m, NEW t, NEW a \in Nat, NEW n \in Nat, NEW need
    PROVE  LET f == Interpreter!FirstFault(m, t, a, n, need)
           IN  /\ f \in Int
               /\ f = -1 => \A c \in a .. a + n - 1 : Interpreter!Check(m, t, c, need) = "OK"
               /\ f # -1 => f \in a .. a + n - 1 /\ Interpreter!Check(m, t, f, need) # "OK"
<1> DEFINE bad == {c \in a .. a + n - 1 : Interpreter!Check(m, t, c, need) # "OK"}
<1>1. CASE bad = {}
  BY <1>1 DEF Interpreter!FirstFault, Interpreter!NoFault
<1>2. CASE bad # {}
  <2>1. bad \in SUBSET Nat
    OBVIOUS
  <2> HIDE DEF bad
  <2>2. \E x \in bad : \A y \in bad : x <= y
    BY <1>2, <2>1, LeastExists
  <2>3. Interpreter!Min(bad) \in bad
    BY <2>2 DEF Interpreter!Min
  <2>4. Interpreter!FirstFault(m, t, a, n, need) = Interpreter!Min(bad)
    BY <1>2 DEF Interpreter!FirstFault, bad
  <2>5. Interpreter!Min(bad) \in Nat
    BY <2>1, <2>3
  <2> QED
    BY <2>3, <2>4, <2>5 DEF bad
<1> QED
  BY <1>1, <1>2

\* What was decoded from m is in k too, or k's code has changed.
StaysDecoded(m, k) ==
    /\ k.code >= m.code
    /\ k.code = m.code =>
         \A c \in Nat : \A t : Interpreter!Check(m, t, c, {"x"}) = "OK" =>
           Interpreter!Check(k, t, c, {"x"}) = "OK" /\ Interpreter!CellAt(k, c) = Interpreter!CellAt(m, c)

LEMMA SameStaysDecoded ==
    ASSUME NEW m, Good(m), NEW k \in Memories, SameShape(m, k), k.code >= m.code,
           k.code = m.code => \A c \in Nat : \A t : Interpreter!Check(m, t, c, {"x"}) = "OK" => SameCell(m, k, c)
    PROVE  StaysDecoded(m, k)
<1> SUFFICES ASSUME k.code = m.code, NEW c \in Nat, NEW t, Interpreter!Check(m, t, c, {"x"}) = "OK"
             PROVE  Interpreter!Check(k, t, c, {"x"}) = "OK" /\ Interpreter!CellAt(k, c) = Interpreter!CellAt(m, c)
  BY DEF StaysDecoded
<1>1. PICK i : At(m.pages, Interpreter!PageOf(c), i)
  BY CheckedIsMapped
<1>2. Good(k) /\ At(k.pages, Interpreter!PageOf(c), i) /\ Interpreter!Check(k, t, c, {"x"}) = "OK"
  BY <1>1, ShapeKeeps
<1>3. CellOf(k.pages[i], c) = CellOf(m.pages[i], c)
  BY <1>1 DEF SameCell
<1> QED
  BY <1>1, <1>2, <1>3, AccessFacts

LEMMA FaultChanges ==
    ASSUME NEW m, Good(m), NEW t, NEW a \in Nat, NEW n \in Nat, NEW need
    PROVE  LET f == Interpreter!Fault(m, t, a, n, need)
           IN  /\ f \in Memories /\ f.pages = m.pages /\ f.code = m.code /\ f.generation = m.generation
               /\ f.fault = Interpreter!FirstFault(m, t, a, n, need)
<1> DEFINE x == Interpreter!FirstFault(m, t, a, n, need)
<1>1. m.generation \in Nat /\ m.code \in Nat /\ x \in Int
  BY FaultIs DEF Good, Memories
<1>2. Interpreter!Fault(m, t, a, n, need) = WithCounters(m, m.generation, m.code, x)
  BY DEF Interpreter!Fault, WithCounters, Good, Memories
<1> HIDE DEF x
<1>3. LET f == Interpreter!Fault(m, t, a, n, need)
      IN  f \in Memories /\ f.pages = m.pages /\ f.code = m.code /\ f.generation = m.generation /\ f.fault = x
  BY <1>1, <1>2, CountersChange
<1> QED
  BY <1>3 DEF x

\* A read leaves what there is.
LeavesAlone(m, k) == k \in Memories /\ k.pages = m.pages /\ k.code = m.code

\* d is what a read returns.
Returns(d, m, t, a, n, need) == d = Interpreter!Read(m, t, a, n, need)

LEMMA ReadIs ==
    ASSUME NEW m, Good(m), NEW t, NEW a \in Nat, NEW n \in Nat, NEW need, NEW d, Returns(d, m, t, a, n, need)
    PROVE  /\ LeavesAlone(m, d.memory)
           /\ d.result = "OK" => \A c \in a .. a + n - 1 : Interpreter!Check(m, t, c, need) = "OK"
<1> DEFINE f == Interpreter!Fault(m, t, a, n, need)
<1>1. f \in Memories /\ f.pages = m.pages /\ f.code = m.code /\ f.fault = Interpreter!FirstFault(m, t, a, n, need)
  BY FaultChanges
<1>2. d.memory = f /\ d.result = IF f.fault # -1 THEN Interpreter!Check(m, t, f.fault, need) ELSE "OK"
  BY DEF Returns, Interpreter!Read, Interpreter!Done, Interpreter!NoFault
<1> HIDE DEF f
<1>3. d.result = "OK" => \A c \in a .. a + n - 1 : Interpreter!Check(m, t, c, need) = "OK"
  BY <1>1, <1>2, FaultIs
<1> QED
  BY <1>1, <1>2, <1>3 DEF LeavesAlone

LEMMA WriteIs ==
    ASSUME NEW m, Good(m), NEW t, NEW a \in Nat, NEW n \in Nat, NEW words \in [1 .. n -> Words], NEW need,
           NEW d \in Interpreter!Write(m, t, a, words, need)
    PROVE  /\ d.memory \in Memories /\ SameShape(m, d.memory) /\ Good(d.memory)
           /\ d.result = "OK" =>
                /\ \A c \in a .. a + n - 1 : Interpreter!Check(m, t, c, need) = "OK"
                /\ \A c \in Nat : Stored(m, d.memory, a, words, c)
           /\ d.result # "OK" => \A c \in Nat : SameCell(m, d.memory, c)
           /\ StaysDecoded(m, d.memory)
<1> DEFINE f == Interpreter!Fault(m, t, a, n, need)
           U == Interpreter!Unbacked(f, a, n)
           w == Interpreter!Written(f, a, words)
<1>1. Len(words) = n /\ DOMAIN words = 1 .. n
  BY LenIs
<1>2. f \in Memories /\ f.pages = m.pages /\ f.code = m.code /\ f.fault = Interpreter!FirstFault(m, t, a, n, need)
  BY FaultChanges
<1>3. SameShape(m, f) /\ Good(f)
  BY <1>2, SamePages
<1>4. \/ f.fault # -1 /\ d = Interpreter!Done(f, Interpreter!Check(m, t, f.fault, need))
      \/ f.fault = -1 /\ d = Interpreter!Done(w, "OK")
      \/ f.fault = -1 /\ \E i \in U : d = Interpreter!Done(Interpreter!Backed(f, {j \in U : j < i}), "NOMEM")
  BY <1>1 DEF Interpreter!Write, Interpreter!NoFault
<1>5. Interpreter!Touched(f, a, n) = Interpreter!Touched(m, a, n)
  BY <1>2 DEF Interpreter!Touched
<1>6. m.code \in Nat
  BY DEF Good, Memories
<1> HIDE DEF f, w, U
<1>7. CASE f.fault # -1 /\ d = Interpreter!Done(f, Interpreter!Check(m, t, f.fault, need))
  <2>1. d.memory = f /\ d.result = Interpreter!Check(m, t, f.fault, need)
    BY <1>7 DEF Interpreter!Done
  <2>2. d.result # "OK"
    BY <1>2, <1>7, <2>1, FaultIs
  <2>3. \A c : SameCell(m, f, c)
    BY <1>2 DEF SameCell
  <2> QED
    BY <1>2, <1>3, <1>6, <2>1, <2>2, <2>3, SameStaysDecoded
<1>8. CASE f.fault = -1 /\ d = Interpreter!Done(w, "OK")
  <2>1. d.memory = w /\ d.result = "OK"
    BY <1>8 DEF Interpreter!Done
  <2>2. /\ w \in Memories /\ SameShape(f, w) /\ Good(w) /\ w.code >= f.code
        /\ w.code = f.code => \A i \in Interpreter!Touched(f, a, n) : "x" \notin f.pages[i].prot
        /\ \A c \in Nat : Stored(f, w, a, words, c)
    BY <1>3, WrittenIs DEF w
  <2>3. SameShape(m, w)
    BY <1>2, <2>2 DEF SameShape
  <2>4. \A c \in Nat : Stored(m, w, a, words, c)
    BY <1>2, <2>2 DEF Stored
  <2>5. \A c \in a .. a + n - 1 : Interpreter!Check(m, t, c, need) = "OK"
    BY <1>2, <1>8, FaultIs
  <2>6. ASSUME w.code = m.code, NEW c \in Nat, NEW th, Interpreter!Check(m, th, c, {"x"}) = "OK"
        PROVE  SameCell(m, w, c)
    <3>1. PICK i : At(m.pages, Interpreter!PageOf(c), i) /\ ~Refuses(m.pages[i], th, {"x"})
      BY <2>6, CheckedIsMapped
    <3>2. "x" \in m.pages[i].prot
      BY <3>1 DEF Refuses
    <3>3. i \notin Interpreter!Touched(m, a, n)
      BY <1>2, <1>5, <2>2, <2>6, <3>2
    <3>4. c \notin a .. a + n - 1
      BY <3>1, <3>3, TouchedIs
    <3>5. c - a + 1 \notin DOMAIN words
      BY <1>1, <3>4
    <3> QED
      BY <2>4, <3>5 DEF Stored, SameCell
  <2>7. StaysDecoded(m, w)
    BY <1>2, <2>2, <2>3, <2>6, SameStaysDecoded
  <2> QED
    BY <2>1, <2>2, <2>3, <2>4, <2>5, <2>7
<1>9. CASE f.fault = -1 /\ \E i \in U : d = Interpreter!Done(Interpreter!Backed(f, {j \in U : j < i}), "NOMEM")
  <2>1. PICK i \in U : d = Interpreter!Done(Interpreter!Backed(f, {j \in U : j < i}), "NOMEM")
    BY <1>9
  <2> DEFINE I == {j \in U : j < i}
             k == Interpreter!Backed(f, I)
  <2>2. \A j \in I : j \in DOMAIN f.pages /\ f.pages[j].bytes = <<>>
    BY DEF U, Interpreter!Unbacked, Interpreter!Touched, Interpreter!NoBytes
  <2> HIDE DEF I
  <2>3. /\ k \in Memories /\ SameShape(f, k) /\ Good(k) /\ k.code = f.code
        /\ \A c \in Nat : SameCell(f, k, c)
    BY <1>3, <2>2, BackedIs
  <2>4. d.memory = k /\ d.result = "NOMEM"
    BY <2>1 DEF Interpreter!Done, I
  <2> HIDE DEF k
  <2>5. SameShape(m, k) /\ \A c \in Nat : SameCell(m, k, c)
    BY <1>2, <2>3 DEF SameShape, SameCell
  <2>6. StaysDecoded(m, k)
    BY <1>2, <1>6, <2>3, <2>5, SameStaysDecoded
  <2> QED
    BY <2>3, <2>4, <2>5, <2>6
<1> QED
  BY <1>4, <1>7, <1>8, <1>9

\* What a program sees.
LEMMA SameSeen ==
    ASSUME NEW m, Good(m), NEW k \in Memories, SameShape(m, k), \A c \in Nat : SameCell(m, k, c)
    PROVE  Interpreter!View(k) = Interpreter!View(m)
<1>1. \A p \in 0 .. LastGuestPage : Interpreter!PageView(k, p) = Interpreter!PageView(m, p)
  BY ViewKeeps
<1>2. ASSUME NEW c \in Interpreter!Cells
      PROVE  (IF Interpreter!IsMapped(k, Interpreter!PageOf(c)) THEN Interpreter!CellAt(k, c) ELSE 0)
               = IF Interpreter!IsMapped(m, Interpreter!PageOf(c)) THEN Interpreter!CellAt(m, c) ELSE 0
  <2>1. c \in Nat
    BY DEF Interpreter!Cells
  <2>2. Interpreter!IsMapped(k, Interpreter!PageOf(c)) = Interpreter!IsMapped(m, Interpreter!PageOf(c))
    BY ViewKeeps
  <2>3. ASSUME Interpreter!IsMapped(m, Interpreter!PageOf(c)) PROVE Interpreter!CellAt(k, c) = Interpreter!CellAt(m, c)
    <3>1. PICK i : At(m.pages, Interpreter!PageOf(c), i)
      BY <2>1, <2>3, ViewKeeps
    <3>2. Good(k) /\ At(k.pages, Interpreter!PageOf(c), i)
      BY <3>1, ShapeKeeps
    <3> QED
      BY <2>1, <3>1, <3>2, AccessFacts DEF SameCell
  <2> QED
    BY <2>2, <2>3
<1> QED
  BY <1>1, <1>2 DEF Interpreter!View

SeenWith(m, a, words) ==
    [Interpreter!View(m) EXCEPT !.cells =
       [c \in Interpreter!Cells |-> IF c - a + 1 \in DOMAIN words THEN words[c - a + 1] ELSE @[c]]]

LEMMA StoredSeen ==
    ASSUME NEW m, Good(m), NEW k \in Memories, SameShape(m, k), NEW a \in Nat, NEW n \in Nat,
           NEW words \in [1 .. n -> Words], \A c \in Nat : Stored(m, k, a, words, c),
           \A c \in a .. a + n - 1 : \E t, need : Interpreter!Check(m, t, c, need) = "OK"
    PROVE  Interpreter!View(k) = SeenWith(m, a, words)
<1>1. \A p \in 0 .. LastGuestPage : Interpreter!PageView(k, p) = Interpreter!PageView(m, p)
  BY ViewKeeps
<1> DEFINE V(x, c) == IF Interpreter!IsMapped(x, Interpreter!PageOf(c)) THEN Interpreter!CellAt(x, c) ELSE 0
<1>2. ASSUME NEW c \in Interpreter!Cells
      PROVE  V(k, c) = IF c - a + 1 \in DOMAIN words THEN words[c - a + 1] ELSE V(m, c)
  <2>1. c \in Nat
    BY DEF Interpreter!Cells
  <2>2. Interpreter!IsMapped(k, Interpreter!PageOf(c)) = Interpreter!IsMapped(m, Interpreter!PageOf(c))
    BY ViewKeeps
  <2>3. CASE Interpreter!IsMapped(m, Interpreter!PageOf(c))
    <3>1. PICK i : At(m.pages, Interpreter!PageOf(c), i)
      BY <2>1, <2>3, ViewKeeps
    <3>2. Good(k) /\ At(k.pages, Interpreter!PageOf(c), i)
      BY <3>1, ShapeKeeps
    <3>3. Interpreter!CellAt(k, c) = CellOf(k.pages[i], c) /\ Interpreter!CellAt(m, c) = CellOf(m.pages[i], c)
      BY <2>1, <3>1, <3>2, AccessFacts
    <3>4. CellOf(k.pages[i], c) = IF c - a + 1 \in DOMAIN words THEN words[c - a + 1] ELSE CellOf(m.pages[i], c)
      BY <2>1, <3>1 DEF Stored
    <3> QED
      BY <2>2, <2>3, <3>3, <3>4
  <2>4. CASE ~Interpreter!IsMapped(m, Interpreter!PageOf(c))
    <3>1. c \notin a .. a + n - 1
      <4> SUFFICES ASSUME c \in a .. a + n - 1 PROVE FALSE
        OBVIOUS
      <4>1. PICK t, need : Interpreter!Check(m, t, c, need) = "OK"
        OBVIOUS
      <4>2. PICK i : At(m.pages, Interpreter!PageOf(c), i)
        BY <2>1, <4>1, CheckedIsMapped
      <4>3. DOMAIN m.pages = 1 .. Len(m.pages)
        BY PageFacts DEF Good, Memories
      <4> QED
        BY <2>4, <4>2, <4>3 DEF At, Interpreter!IsMapped
    <3>2. c - a + 1 \notin DOMAIN words
      BY <2>1, <3>1, LenIs
    <3> QED
      BY <2>2, <2>4, <3>2
  <2> QED
    BY <2>3, <2>4
<1>3. Interpreter!View(k) = [pages |-> [p \in 0 .. LastGuestPage |-> Interpreter!PageView(k, p)],
                             cells |-> [c \in Interpreter!Cells |-> V(k, c)]]
  BY DEF Interpreter!View
<1>4. Interpreter!View(m) = [pages |-> [p \in 0 .. LastGuestPage |-> Interpreter!PageView(m, p)],
                             cells |-> [c \in Interpreter!Cells |-> V(m, c)]]
  BY DEF Interpreter!View
<1> DEFINE old == [c \in Interpreter!Cells |-> V(m, c)]
           shown == [p \in 0 .. LastGuestPage |-> Interpreter!PageView(m, p)]
           new == [c \in Interpreter!Cells |-> IF c - a + 1 \in DOMAIN words THEN words[c - a + 1] ELSE old[c]]
<1> HIDE DEF V
<1>5. Interpreter!View(k) = [pages |-> shown, cells |-> new]
  <2>1. [p \in 0 .. LastGuestPage |-> Interpreter!PageView(k, p)] = shown
    BY <1>1
  <2>2. [c \in Interpreter!Cells |-> V(k, c)] = new
    BY <1>2
  <2> QED
    BY <1>3, <2>1, <2>2, Zenon
<1>6. Interpreter!View(m) = [pages |-> shown, cells |-> old]
  BY <1>4
<1>7. new = [c \in Interpreter!Cells |-> IF c - a + 1 \in DOMAIN words THEN words[c - a + 1] ELSE Interpreter!View(m).cells[c]]
  <2>1. Interpreter!View(m).cells = old
    BY <1>6
  <2> QED
    BY <2>1, Zenon
<1> HIDE DEF old, new, shown
<1>8. [Interpreter!View(m) EXCEPT !.cells = new] = [pages |-> shown, cells |-> new]
  BY <1>6
<1> QED
  BY <1>5, <1>7, <1>8, Zenon DEF SeenWith

-----------------------------------------------------------------------------
(* Changes of the mappings.                                                *)

LEMMA JoinIs ==
    ASSUME NEW a \in Seq(PageRecords), NEW b \in Seq(PageRecords), NEW q, q = a \o b
    PROVE  /\ q \in Seq(PageRecords) /\ Len(q) = Len(a) + Len(b)
           /\ \A i \in 1 .. Len(a) + Len(b) : q[i] = IF i <= Len(a) THEN a[i] ELSE b[i - Len(a)]
OBVIOUS

LEMMA SplicedIs ==
    ASSUME NEW pages \in Seq(PageRecords), NEW new \in Seq(PageRecords),
           NEW first \in 1 .. Len(pages) + 1, NEW beyond \in 1 .. Len(pages) + 1, first <= beyond
    PROVE  LET q == Interpreter!Spliced(pages, first, new, beyond)
           IN  /\ q \in Seq(PageRecords) /\ Len(q) = first - 1 + Len(new) + (Len(pages) + 1 - beyond)
               /\ \A i \in 1 .. Len(q) :
                    q[i] = IF i < first THEN pages[i]
                           ELSE IF i < first + Len(new) THEN new[i - first + 1]
                           ELSE pages[i - first - Len(new) + beyond]
<1> DEFINE head == SubSeq(pages, 1, first - 1)
           tail == SubSeq(pages, beyond, Len(pages))
           q == Interpreter!Spliced(pages, first, new, beyond)
<1>1. Len(pages) \in Nat /\ Len(new) \in Nat
  OBVIOUS
<1>2. head \in Seq(PageRecords) /\ Len(head) = first - 1 /\ \A i \in 1 .. first - 1 : head[i] = pages[i]
  BY <1>1
<1>3. /\ tail \in Seq(PageRecords) /\ Len(tail) = Len(pages) + 1 - beyond
      /\ \A i \in 1 .. Len(pages) + 1 - beyond : tail[i] = pages[beyond + i - 1]
  BY <1>1
<1>4. q = (head \o new) \o tail
  BY DEF Interpreter!Spliced
<1> DEFINE h == head \o new
           c == first - 1
           e == c + Len(new)
<1> HIDE DEF head, tail, q, h, c, e
<1>5. c \in Nat /\ first = c + 1 /\ e \in Nat /\ e = c + Len(new)
  BY <1>1 DEF c, e
<1>6. h \in Seq(PageRecords) /\ Len(h) = e /\ \A i \in 1 .. e : h[i] = IF i <= c THEN pages[i] ELSE new[i - c]
  <2>1. h = head \o new
    BY DEF h
  <2>2. Len(head) = c
    BY <1>2 DEF c
  <2>3. /\ h \in Seq(PageRecords) /\ Len(h) = Len(head) + Len(new)
        /\ \A i \in 1 .. Len(head) + Len(new) : h[i] = IF i <= Len(head) THEN head[i] ELSE new[i - Len(head)]
    BY <1>2, <2>1, JoinIs
  <2>4. ASSUME NEW i \in 1 .. e PROVE h[i] = IF i <= c THEN pages[i] ELSE new[i - c]
    <3>1. h[i] = IF i <= c THEN head[i] ELSE new[i - c]
      BY <2>2, <2>3, <1>5
    <3>2. i <= c => head[i] = pages[i]
      BY <1>2, <1>5
    <3> QED
      BY <3>1, <3>2
  <2> QED
    BY <2>2, <2>3, <2>4, <1>5
<1>7. q \in Seq(PageRecords) /\ Len(q) = e + Len(tail) /\ \A i \in 1 .. Len(q) : q[i] = IF i <= e THEN h[i] ELSE tail[i - e]
  <2>1. q = h \o tail
    BY <1>4 DEF h
  <2>2. /\ q \in Seq(PageRecords) /\ Len(q) = Len(h) + Len(tail)
        /\ \A i \in 1 .. Len(h) + Len(tail) : q[i] = IF i <= Len(h) THEN h[i] ELSE tail[i - Len(h)]
    <3>1. h \in Seq(PageRecords) /\ tail \in Seq(PageRecords) /\ q = h \o tail
      BY <1>3, <1>6, <2>1
    <3> QED
      BY <3>1, JoinIs
  <2> QED
    BY <1>6, <2>2
<1>8. ASSUME NEW i \in 1 .. Len(q)
      PROVE  q[i] = IF i < first THEN pages[i]
                    ELSE IF i < first + Len(new) THEN new[i - first + 1]
                    ELSE pages[i - first - Len(new) + beyond]
  <2>0. i \in Nat /\ i >= 1 /\ i <= Len(q) /\ Len(tail) \in Nat
    BY <1>1, <1>3, <1>5, <1>7
  <2>1. CASE i < first
    <3>1. i <= c /\ i \in 1 .. e
      BY <2>0, <2>1, <1>1, <1>5
    <3> QED
      BY <2>1, <3>1, <1>6, <1>7
  <2>2. CASE first <= i /\ i < first + Len(new)
    <3>1. ~(i <= c) /\ i <= e /\ i \in 1 .. e /\ i - c = i - first + 1 /\ ~(i < first)
      BY <2>0, <2>2, <1>1, <1>5
    <3>2. q[i] = new[i - c]
      BY <3>1, <1>6, <1>7
    <3> QED
      BY <2>2, <3>1, <3>2
  <2>3. CASE first + Len(new) <= i
    <3>0. i - e \in 1 .. Len(pages) + 1 - beyond
      <4>1. i > e /\ i <= e + Len(tail) /\ Len(tail) = Len(pages) + 1 - beyond
        BY <2>0, <2>3, <1>1, <1>3, <1>5, <1>7
      <4> QED
        BY <4>1, <2>0, <1>5
    <3>1. /\ ~(i <= e) /\ i - e \in 1 .. Len(pages) + 1 - beyond /\ beyond + (i - e) - 1 = i - first - Len(new) + beyond
          /\ ~(i < first) /\ ~(i < first + Len(new))
      BY <2>0, <2>3, <3>0, <1>1, <1>5
    <3>2. q[i] = tail[i - e]
      BY <3>1, <1>7
    <3>3. tail[i - e] = pages[beyond + (i - e) - 1]
      BY <3>1, <1>3
    <3> QED
      BY <3>1, <3>2, <3>3
  <2> QED
    BY <2>0, <2>1, <2>2, <2>3, <1>1, <1>5
<1>9. Len(q) = first - 1 + Len(new) + (Len(pages) + 1 - beyond)
  BY <1>1, <1>3, <1>5, <1>7
<1> QED
  BY <1>7, <1>8, <1>9 DEF q

\* Replacing the pages from a on by new ones of the same range.
LEMMA SpliceAscends ==
    ASSUME NEW pages \in Seq(PageRecords), Ascending(pages), NEW new \in Seq(PageRecords), Ascending(new),
           NEW a \in Nat, NEW n \in Nat, \A i \in 1 .. Len(new) : new[i].address \in a .. a + n - 1
    PROVE  LET q == Interpreter!Spliced(pages, Interpreter!Lower(pages, a), new, Interpreter!Lower(pages, a + n))
           IN  q \in Seq(PageRecords) /\ Ascending(q)
<1> DEFINE first == Interpreter!Lower(pages, a)
           beyond == Interpreter!Lower(pages, a + n)
           q == Interpreter!Spliced(pages, first, new, beyond)
<1>1. Len(pages) \in Nat /\ Len(new) \in Nat
  OBVIOUS
<1>2. IsLower(pages, a, first) /\ IsLower(pages, a + n, beyond)
  BY LowerFinds
<1>3. \A i \in 1 .. Len(pages) : pages[i].address \in Nat
  BY PageFacts
<1> HIDE DEF first, beyond
<1>4. first \in 1 .. Len(pages) + 1 /\ beyond \in 1 .. Len(pages) + 1
  BY <1>2 DEF IsLower
<1>5. first <= beyond
  <2> SUFFICES ASSUME beyond < first PROVE FALSE
    BY <1>1, <1>4
  <2>1. beyond \in 1 .. Len(pages)
    BY <1>1, <1>4
  <2>2. pages[beyond].address < a /\ ~(pages[beyond].address < a + n)
    BY <1>2, <2>1, <1>1 DEF IsLower
  <2> QED
    BY <1>3, <2>1, <2>2
<1>6. /\ q \in Seq(PageRecords) /\ Len(q) = first - 1 + Len(new) + (Len(pages) + 1 - beyond)
      /\ \A i \in 1 .. Len(q) :
           q[i] = IF i < first THEN pages[i]
                  ELSE IF i < first + Len(new) THEN new[i - first + 1]
                  ELSE pages[i - first - Len(new) + beyond]
  BY <1>4, <1>5, SplicedIs
<1> HIDE DEF q
<1>7. ASSUME NEW i \in 1 .. Len(q)
      PROVE  \/ i < first /\ i \in 1 .. Len(pages) /\ q[i] = pages[i] /\ pages[i].address < a
             \/ /\ first <= i /\ i < first + Len(new) /\ q[i] = new[i - first + 1] /\ i - first + 1 \in 1 .. Len(new)
                /\ new[i - first + 1].address \in a .. a + n - 1
             \/ LET k == i - first - Len(new) + beyond
                IN  /\ first + Len(new) <= i /\ k \in beyond .. Len(pages) /\ q[i] = pages[k] /\ pages[k].address >= a + n
  <2>1. CASE i < first
    <3>1. i \in 1 .. Len(pages) /\ q[i] = pages[i]
      BY <2>1, <1>1, <1>4, <1>6
    <3> QED
      BY <2>1, <3>1, <1>2 DEF IsLower
  <2>2. CASE first <= i /\ i < first + Len(new)
    <3>0. i - first + 1 \in 1 .. Len(new) /\ ~(i < first)
      BY <2>2, <1>1, <1>4, <1>6
    <3>1. q[i] = new[i - first + 1]
      BY <2>2, <3>0, <1>6
    <3> QED
      BY <2>2, <3>0, <3>1
  <2>3. CASE first + Len(new) <= i
    <3> DEFINE k == i - first - Len(new) + beyond
    <3>1. k \in beyond .. Len(pages) /\ k \in 1 .. Len(pages) /\ q[i] = pages[k]
      BY <2>3, <1>1, <1>4, <1>6
    <3> HIDE DEF k
    <3>2. ~(pages[k].address < a + n)
      BY <3>1, <1>2, <1>4, <1>1 DEF IsLower
    <3>3. pages[k].address >= a + n
      BY <3>1, <3>2, <1>3
    <3> QED
      BY <2>3, <3>1, <3>3 DEF k
  <2> QED
    BY <2>1, <2>2, <2>3, <1>1, <1>4, <1>6
<1>8. ASSUME NEW i \in 1 .. Len(q), NEW j \in 1 .. Len(q), i < j PROVE q[i].address < q[j].address
  <2>0. i \in Nat /\ j \in Nat /\ a \in Nat /\ n \in Nat
    BY <1>6
  <2>9. /\ i < first => q[i].address \in Nat /\ q[i].address < a
        /\ first <= i /\ i < first + Len(new) => q[i].address \in a .. a + n - 1
        /\ first <= j /\ j < first + Len(new) => q[j].address \in a .. a + n - 1
        /\ first + Len(new) <= j => q[j].address \in Nat /\ q[j].address >= a + n
    <3>1. ASSUME NEW x \in 1 .. Len(q)
          PROVE  /\ x < first => q[x].address \in Nat /\ q[x].address < a
                 /\ first <= x /\ x < first + Len(new) => q[x].address \in a .. a + n - 1
                 /\ first + Len(new) <= x => q[x].address \in Nat /\ q[x].address >= a + n
      <4>1. x < first => q[x].address \in Nat /\ q[x].address < a
        BY <1>7, <1>3, <1>1, <1>4
      <4>2. ASSUME first <= x, x < first + Len(new) PROVE q[x].address \in a .. a + n - 1
        <5>1. ~(x < first) /\ ~(first + Len(new) <= x)
          BY <4>2, <1>1, <1>4
        <5> QED
          BY <5>1, <1>7
      <4>3. ASSUME first + Len(new) <= x PROVE q[x].address \in Nat /\ q[x].address >= a + n
        <5> DEFINE k == x - first - Len(new) + beyond
        <5>1. k \in beyond .. Len(pages) /\ q[x] = pages[k] /\ pages[k].address >= a + n
          BY <4>3, <1>7, <1>1, <1>4
        <5>2. k \in 1 .. Len(pages)
          BY <5>1, <1>1, <1>4
        <5> HIDE DEF k
        <5> QED
          BY <5>1, <5>2, <1>3
      <4> QED
        BY <4>1, <4>2, <4>3
    <3> QED
      BY <3>1
  <2>1. CASE i < first /\ j < first
    BY <2>1, <1>7, <1>8, <1>1, <1>4, SMTT(60) DEF Ascending
  <2>2. CASE i < first /\ first <= j
    BY <2>2, <2>9, <1>1, <1>4, <2>0, SMTT(60)
  <2>3. CASE first <= i /\ i < first + Len(new) /\ j < first + Len(new)
    <3> DEFINE u == i - first + 1
               v == j - first + 1
    <3>1. u \in 1 .. Len(new) /\ v \in 1 .. Len(new) /\ u < v /\ q[i] = new[u] /\ q[j] = new[v]
      BY <2>3, <1>7, <1>8, <1>1, <1>4, <2>0
    <3> HIDE DEF u, v
    <3> QED
      BY <3>1 DEF Ascending
  <2>4. CASE first <= i /\ i < first + Len(new) /\ first + Len(new) <= j
    BY <2>4, <2>9, <1>1, <1>4, <2>0, SMTT(60)
  <2>5. CASE first + Len(new) <= i
    <3> DEFINE u == i - first - Len(new) + beyond
               v == j - first - Len(new) + beyond
    <3>0. first + Len(new) <= j /\ u < v
      BY <2>5, <1>8, <1>1, <1>4, <2>0
    <3>2. u \in beyond .. Len(pages) /\ q[i] = pages[u]
      BY <2>5, <1>7, <1>1, <1>4, <2>0
    <3>3. v \in beyond .. Len(pages) /\ q[j] = pages[v]
      BY <3>0, <1>7, <1>1, <1>4, <2>0
    <3> HIDE DEF u, v
    <3>1. u \in 1 .. Len(pages) /\ v \in 1 .. Len(pages) /\ u < v /\ q[i] = pages[u] /\ q[j] = pages[v]
      BY <3>0, <3>2, <3>3, <1>1, <1>4
    <3> HIDE DEF u, v
    <3> QED
      BY <3>1 DEF Ascending
  <2> QED
    BY <2>1, <2>2, <2>3, <2>4, <2>5, <1>8, <1>1, <1>4, <2>0
<1> QED
  BY <1>6, <1>8 DEF Ascending, q, first, beyond

\* A change of the array counts as one of the code.
LEMMA ChangedIs ==
    ASSUME NEW m, Good(m), NEW pages \in Seq(PageRecords), Ascending(pages)
    PROVE  LET k == Interpreter!Changed(m, pages)
           IN  Good(k) /\ k.pages = pages /\ StaysDecoded(m, k)
<1> DEFINE k == Interpreter!Changed(m, pages)
<1>1. k = [m EXCEPT !.pages = pages, !.generation = m.generation + 1, !.code = m.code + 1]
  BY DEF Interpreter!Changed, Good, Memories
<1>2. m.generation \in Nat /\ m.code \in Nat
  BY DEF Good, Memories
<1>3. k \in Memories /\ k.pages = pages /\ k.code = m.code + 1
  <2> DEFINE g == m.generation + 1
             d == m.code + 1
  <2>1. g \in Nat /\ d \in Nat
    BY <1>2
  <2>2. k = [m EXCEPT !.pages = pages, !.generation = g, !.code = d]
    BY <1>1
  <2> HIDE DEF k, g, d
  <2>3. k \in Memories /\ k.pages = pages /\ k.code = d
    BY <2>1, <2>2 DEF Good, Memories
  <2> QED
    BY <2>3 DEF d
<1> HIDE DEF k
<1>4. k.code >= m.code /\ k.code # m.code
  BY <1>2, <1>3
<1> QED
  BY <1>3, <1>4 DEF Good, StaysDecoded, k

LEMMA SameIsGood ==
    ASSUME NEW m, Good(m)
    PROVE  StaysDecoded(m, m)
<1>1. m.code \in Nat
  BY DEF Good, Memories
<1> QED
  BY <1>1 DEF StaysDecoded

LEMMA NewPagesAre ==
    ASSUME NEW a \in Nat, NEW n \in Nat, a + n <= LastGuestPage + 1,
           NEW prot \in Permissions, NEW max \in Permissions, prot \subseteq max, NEW jit \in BOOLEAN
    PROVE  LET new == [i \in 1 .. n |-> Interpreter!Page(a + i - 1, prot, max, jit)]
           IN  /\ new \in Seq(PageRecords) /\ Len(new) = n /\ Ascending(new)
               /\ \A i \in 1 .. Len(new) : new[i].address \in a .. a + n - 1
<1> DEFINE new == [i \in 1 .. n |-> Interpreter!Page(a + i - 1, prot, max, jit)]
<1>1. LastGuestPage \in Nat
  BY CodeAssumption
<1>2. ASSUME NEW i \in 1 .. n
      PROVE  new[i] \in PageRecords /\ new[i].address = a + i - 1
  <2>1. a + i - 1 \in 0 .. LastGuestPage
    BY <1>1
  <2>2. new[i] = [address |-> a + i - 1, bytes |-> <<>>, prot |-> prot, max |-> max, jit |-> jit]
    BY DEF Interpreter!Page, Interpreter!NoBytes
  <2> QED
    BY <2>1, <2>2 DEF PageRecords
<1>3. new \in [1 .. n -> PageRecords]
  BY <1>2
<1> HIDE DEF new
<1>4. new \in Seq(PageRecords) /\ Len(new) = n
  BY <1>3
<1>5. Ascending(new)
  <2> SUFFICES ASSUME NEW i \in 1 .. n, NEW j \in 1 .. n, i < j PROVE new[i].address < new[j].address
    BY <1>4 DEF Ascending
  <2> QED
    BY <1>2
<1>6. \A i \in 1 .. n : new[i].address \in a .. a + n - 1
  BY <1>2
<1> QED
  BY <1>4, <1>5, <1>6 DEF new

LEMMA MapIs ==
    ASSUME NEW m, Good(m), NEW a \in Nat, NEW n \in Nat, a + n <= LastGuestPage + 1,
           NEW prot \in Permissions, NEW max \in Permissions, prot \subseteq max, NEW jit \in BOOLEAN, NEW replace
    PROVE  LET d == Interpreter!Map(m, a, n, prot, max, jit, replace)
           IN  Good(d.memory) /\ StaysDecoded(m, d.memory) /\ d.result \in {"OK", "OVERLAP"}
<1> DEFINE new == [i \in 1 .. n |-> Interpreter!Page(a + i - 1, prot, max, jit)]
           q == Interpreter!Spliced(m.pages, Interpreter!Lower(m.pages, a), new, Interpreter!Lower(m.pages, a + n))
           d == Interpreter!Map(m, a, n, prot, max, jit, replace)
<1>1. /\ new \in Seq(PageRecords) /\ Len(new) = n /\ Ascending(new)
      /\ \A i \in 1 .. Len(new) : new[i].address \in a .. a + n - 1
  BY NewPagesAre
<1>2. \/ d = Interpreter!Done(m, "OVERLAP")
      \/ d = Interpreter!Done(Interpreter!Changed(m, q), "OK")
  BY DEF Interpreter!Map
<1> HIDE DEF new
<1>3. q \in Seq(PageRecords) /\ Ascending(q)
  BY <1>1, SpliceAscends DEF Good, Memories
<1> HIDE DEF q
<1>4. Good(Interpreter!Changed(m, q)) /\ StaysDecoded(m, Interpreter!Changed(m, q))
  BY <1>3, ChangedIs
<1> HIDE DEF d
<1> QED
  BY <1>2, <1>4, SameIsGood DEF Interpreter!Done, d

LEMMA UnmapIs ==
    ASSUME NEW m, Good(m), NEW a \in Nat, NEW n \in Nat
    PROVE  LET d == Interpreter!Unmap(m, a, n)
           IN  Good(d.memory) /\ StaysDecoded(m, d.memory)
<1> DEFINE new == <<>>
           q == Interpreter!Spliced(m.pages, Interpreter!Lower(m.pages, a), new, Interpreter!Lower(m.pages, a + n))
<1>1. /\ new \in Seq(PageRecords) /\ Ascending(new)
      /\ \A i \in 1 .. Len(new) : new[i].address \in a .. a + n - 1
  BY DEF Ascending
<1>2. Interpreter!Unmap(m, a, n) = Interpreter!Done(Interpreter!Changed(m, q), "OK")
  BY DEF Interpreter!Unmap
<1> HIDE DEF new
<1>3. q \in Seq(PageRecords) /\ Ascending(q)
  BY <1>1, SpliceAscends DEF Good, Memories
<1> HIDE DEF q
<1> QED
  BY <1>2, <1>3, ChangedIs DEF Interpreter!Done

LEMMA ProtectIs ==
    ASSUME NEW m, Good(m), NEW a \in Nat, NEW n \in Nat, NEW prot \in Permissions
    PROVE  LET d == Interpreter!Protect(m, a, n, prot)
           IN  Good(d.memory) /\ StaysDecoded(m, d.memory)
<1> DEFINE first == Interpreter!Lower(m.pages, a)
           beyond == Interpreter!Lower(m.pages, a + n)
           q == [i \in DOMAIN m.pages |-> IF i \in first .. beyond - 1 THEN [m.pages[i] EXCEPT !.prot = prot] ELSE m.pages[i]]
           d == Interpreter!Protect(m, a, n, prot)
<1>1. m.pages \in Seq(PageRecords) /\ Ascending(m.pages)
  BY DEF Good, Memories
<1>2. /\ Len(m.pages) \in Nat /\ DOMAIN m.pages = 1 .. Len(m.pages)
      /\ \A i \in 1 .. Len(m.pages) : m.pages[i] \in PageRecords
  BY <1>1, PageFacts
<1>3. \/ d.memory = m
      \/ /\ \A i \in first .. beyond - 1 : prot \subseteq m.pages[i].max
         /\ d.memory = Interpreter!Changed(m, q)
  BY DEF Interpreter!Protect, Interpreter!Done
<1> HIDE DEF d, first, beyond
<1>4. CASE d.memory = m
  BY <1>4, SameIsGood DEF d
<1>5. CASE (\A i \in first .. beyond - 1 : prot \subseteq m.pages[i].max) /\ d.memory = Interpreter!Changed(m, q)
  <2>1. ASSUME NEW i \in 1 .. Len(m.pages)
        PROVE  q[i] \in PageRecords /\ q[i].address = m.pages[i].address
    <3>1. CASE i \in first .. beyond - 1
      <4>1. [m.pages[i] EXCEPT !.prot = prot] \in PageRecords /\ [m.pages[i] EXCEPT !.prot = prot].address = m.pages[i].address
        BY <1>2, <1>5, <3>1 DEF PageRecords
      <4> QED
        BY <4>1, <3>1, <1>2
    <3>2. CASE i \notin first .. beyond - 1
      BY <3>2, <1>2
    <3> QED
      BY <3>1, <3>2
  <2>2. q \in [1 .. Len(m.pages) -> PageRecords]
    BY <2>1, <1>2
  <2> HIDE DEF q
  <2>3. q \in Seq(PageRecords) /\ Len(q) = Len(m.pages)
    BY <2>2, <1>2
  <2>4. Ascending(q)
    BY <2>1, <2>3, <1>1 DEF Ascending
  <2> QED
    BY <2>3, <2>4, <1>5, ChangedIs DEF d
<1> QED
  BY <1>3, <1>4, <1>5

-----------------------------------------------------------------------------
(* gd_mmap's search for a place.                                           *)

\* A page in the n from p on.
Obstructed(pages, p, n) == \E j \in 1 .. Len(pages) : p <= pages[j].address /\ pages[j].address <= p + n - 1

Turns(pages, from, hint) == (from .. Len(pages) + 1) \X (hint .. LastGuestPage + 1)
Seeks(pages, from, hint, n, f) ==
    f = [at \in Turns(pages, from, hint) |->
            IF at[1] > Len(pages) \/ at[2] + n > LastGuestPage + 1 THEN at[2]
            ELSE IF pages[at[1]].address >= at[2] + n THEN at[2]
            ELSE f[<<at[1] + 1, pages[at[1]].address + 1>>]]

LEMMA PlaceIsChosen ==
    ASSUME NEW m, NEW hint, NEW n
    PROVE  LET from == Interpreter!Lower(m.pages, hint)
           IN  Interpreter!FindFree(m, hint, n) = (CHOOSE f : Seeks(m.pages, from, hint, n, f))[<<from, hint>>]
BY DEF Interpreter!FindFree, Seeks, Turns

\* The search has a function: from the beyond page back.
LEMMA SeekExists ==
    ASSUME NEW pages \in Seq(PageRecords), NEW hint \in 0 .. LastGuestPage, NEW n \in Nat, NEW from,
           IsLower(pages, hint, from)
    PROVE  \E f : Seeks(pages, from, hint, n, f)
<1> DEFINE D == hint .. LastGuestPage + 1
           size == Len(pages) + 1 - from
           X == [D -> Nat]
           base == [c \in D |-> c]
           Turn(i, g) == [c \in D |-> IF c + n > LastGuestPage + 1 THEN c
                                      ELSE IF pages[i].address >= c + n THEN c
                                      ELSE g[pages[i].address + 1]]
           step == [k \in 1 .. size |-> [g \in X |-> Turn(Len(pages) + 1 - k, g)]]
<1>1. /\ Len(pages) \in Nat /\ LastGuestPage \in Nat /\ hint \in Nat /\ from \in 1 .. Len(pages) + 1
      /\ \A i \in 1 .. Len(pages) : pages[i].address \in 0 .. LastGuestPage
      /\ \A i \in from .. Len(pages) : i \in 1 .. Len(pages) /\ pages[i].address + 1 \in D
  <2>1. Len(pages) \in Nat /\ LastGuestPage \in Nat /\ hint \in Nat /\ from \in 1 .. Len(pages) + 1
    BY CodeAssumption DEF IsLower
  <2>2. \A i \in 1 .. Len(pages) : pages[i].address \in 0 .. LastGuestPage
    BY PageFacts
  <2>3. ASSUME NEW i \in from .. Len(pages) PROVE i \in 1 .. Len(pages) /\ pages[i].address + 1 \in D
    <3>1. i \in 1 .. Len(pages) /\ ~(i < from)
      BY <2>1
    <3>2. ~(pages[i].address < hint)
      BY <3>1 DEF IsLower
    <3> QED
      BY <2>1, <2>2, <3>1, <3>2
  <2> QED
    BY <2>1, <2>2, <2>3
<1>2. size \in Nat /\ base \in X
  BY <1>1
<1>3. step \in [1 .. size -> [X -> X]]
  <2> SUFFICES ASSUME NEW k \in 1 .. size, NEW g \in X PROVE Turn(Len(pages) + 1 - k, g) \in X
    OBVIOUS
  <2>1. Len(pages) + 1 - k \in from .. Len(pages)
    BY <1>1
  <2> DEFINE i == Len(pages) + 1 - k
  <2>2. pages[i].address + 1 \in D
    BY <1>1, <2>1
  <2> HIDE DEF i
  <2>3. ASSUME NEW c \in D
        PROVE  (IF c + n > LastGuestPage + 1 THEN c
                ELSE IF pages[i].address >= c + n THEN c ELSE g[pages[i].address + 1]) \in Nat
    BY <1>1, <2>2
  <2> QED
    BY <2>3 DEF i
<1> HIDE DEF base, step, X
<1>4. PICK h \in [0 .. size -> X] : Leads(base, size, step, h)
  BY <1>2, <1>3, StepsLead
<1> DEFINE f == [at \in Turns(pages, from, hint) |-> h[Len(pages) + 1 - at[1]][at[2]]]
<1>5. ASSUME NEW at \in Turns(pages, from, hint)
      PROVE  f[at] = IF at[1] > Len(pages) \/ at[2] + n > LastGuestPage + 1 THEN at[2]
                     ELSE IF pages[at[1]].address >= at[2] + n THEN at[2]
                     ELSE f[<<at[1] + 1, pages[at[1]].address + 1>>]
  <2>1. PICK i \in from .. Len(pages) + 1, c \in D : at = <<i, c>>
    BY DEF Turns
  <2>2. f[at] = h[Len(pages) + 1 - i][c]
    BY <2>1
  <2>3. CASE i = Len(pages) + 1
    <3>1. h[Len(pages) + 1 - i] = base
      BY <2>3, <1>1, <1>4 DEF Leads
    <3>2. base[c] = c
      BY DEF base
    <3> QED
      BY <2>1, <2>2, <2>3, <3>1, <3>2, <1>1
  <2>4. CASE i <= Len(pages)
    <3> DEFINE k == Len(pages) + 1 - i
    <3>0. i \in Nat /\ from \in Nat /\ from <= i /\ i <= Len(pages) /\ Len(pages) \in Nat
      BY <2>4, <1>1
    <3>1. /\ k \in 1 .. size /\ i \in from .. Len(pages) /\ Len(pages) + 1 - k = i /\ k - 1 = Len(pages) + 1 - (i + 1)
          /\ i + 1 \in from .. Len(pages) + 1 /\ k - 1 \in 0 .. size
      BY <3>0
    <3> HIDE DEF k
    <3>2. h[k] = step[k][h[k - 1]] /\ h[k - 1] \in X
      BY <3>1, <1>4 DEF Leads
    <3>3. step[k][h[k - 1]] = Turn(i, h[k - 1])
      BY <3>1, <3>2 DEF step
    <3>4. h[k][c] = IF c + n > LastGuestPage + 1 THEN c
                    ELSE IF pages[i].address >= c + n THEN c
                    ELSE h[k - 1][pages[i].address + 1]
      BY <3>2, <3>3
    <3>5. <<i + 1, pages[i].address + 1>> \in Turns(pages, from, hint)
      BY <3>1, <1>1 DEF Turns
    <3>6. f[<<i + 1, pages[i].address + 1>>] = h[k - 1][pages[i].address + 1]
      BY <3>1, <3>5
    <3>7. f[at] = h[k][c]
      BY <2>2 DEF k
    <3> HIDE DEF f
    <3> QED
      BY <2>1, <2>4, <3>4, <3>6, <3>7, <1>1
  <2> QED
    BY <2>3, <2>4, <1>1
<1>6. Seeks(pages, from, hint, n, f)
  <2> DEFINE g == [at \in Turns(pages, from, hint) |->
                    IF at[1] > Len(pages) \/ at[2] + n > LastGuestPage + 1 THEN at[2]
                    ELSE IF pages[at[1]].address >= at[2] + n THEN at[2]
                    ELSE f[<<at[1] + 1, pages[at[1]].address + 1>>]]
  <2>1. f = [at \in Turns(pages, from, hint) |-> f[at]]
    OBVIOUS
  <2> HIDE DEF f
  <2>2. f = g
    BY <1>5, <2>1
  <2> QED
    BY <2>2 DEF Seeks
<1> QED
  BY <1>6

\* It ends at the lowest place that is free, or past the beyond page.
LEMMA SeekFinds ==
    ASSUME NEW pages \in Seq(PageRecords), Ascending(pages), NEW hint \in 0 .. LastGuestPage, NEW n \in Nat \ {0}, NEW from,
           IsLower(pages, hint, from), NEW f, Seeks(pages, from, hint, n, f)
    PROVE  LET r == f[<<from, hint>>]
           IN  /\ r \in hint .. LastGuestPage + 1
               /\ r + n <= LastGuestPage + 1 => ~Obstructed(pages, r, n)
               /\ \A p \in hint .. r - 1 : Obstructed(pages, p, n)
<1> DEFINE Found(r) == /\ r \in hint .. LastGuestPage + 1
                       /\ r + n <= LastGuestPage + 1 => ~Obstructed(pages, r, n)
                       /\ \A p \in hint .. r - 1 : Obstructed(pages, p, n)
           Tried(i, c) == /\ \A j \in 1 .. Len(pages) : j < i => pages[j].address < c
                          /\ \A p \in hint .. c - 1 : Obstructed(pages, p, n)
           N == {k \in Nat : \A i \in from .. Len(pages) + 1, c \in hint .. LastGuestPage + 1 :
                    Len(pages) + 1 - i <= k /\ Tried(i, c) => Found(f[<<i, c>>])}
<1>1. /\ Len(pages) \in Nat /\ LastGuestPage \in Nat /\ hint \in Nat /\ from \in 1 .. Len(pages) + 1
      /\ \A i \in 1 .. Len(pages) : pages[i].address \in 0 .. LastGuestPage /\ pages[i].address \in Nat
  BY CodeAssumption, PageFacts DEF IsLower
<1>2. ASSUME NEW i \in from .. Len(pages) + 1, NEW c \in hint .. LastGuestPage + 1
      PROVE  f[<<i, c>>] = IF i > Len(pages) \/ c + n > LastGuestPage + 1 THEN c
                           ELSE IF pages[i].address >= c + n THEN c
                           ELSE f[<<i + 1, pages[i].address + 1>>]
  <2>1. <<i, c>> \in Turns(pages, from, hint)
    BY DEF Turns
  <2> DEFINE at == <<i, c>>
  <2>2. f[at] = IF at[1] > Len(pages) \/ at[2] + n > LastGuestPage + 1 THEN at[2]
                ELSE IF pages[at[1]].address >= at[2] + n THEN at[2]
                ELSE f[<<at[1] + 1, pages[at[1]].address + 1>>]
    BY <2>1 DEF Seeks
  <2> QED
    BY <2>2
\* The search ends.
<1>3. ASSUME NEW i \in from .. Len(pages) + 1, NEW c \in hint .. LastGuestPage + 1, Tried(i, c),
             i > Len(pages) \/ c + n > LastGuestPage + 1 \/ pages[i].address >= c + n
      PROVE  Found(c)
  <2> SUFFICES ASSUME c + n <= LastGuestPage + 1, NEW j \in 1 .. Len(pages),
                      c <= pages[j].address, pages[j].address <= c + n - 1
               PROVE  FALSE
    BY <1>3 DEF Obstructed
  <2>1. pages[j].address \in Nat /\ c \in Nat /\ i \in Nat /\ n \in Nat
    BY <1>1
  <2>5. j < i => pages[j].address < c
    BY <1>3
  <2>2. j >= i
    BY <2>1, <2>5
  <2>3. i \in 1 .. Len(pages) /\ pages[i].address >= c + n
    BY <1>1, <1>3, <2>1, <2>2
  <2>4. i = j \/ pages[i].address < pages[j].address
    BY <2>1, <2>2, <2>3 DEF Ascending
  <2> QED
    BY <1>1, <2>1, <2>3, <2>4
\* It goes on behind a page that is in the way.
<1>4. ASSUME NEW i \in from .. Len(pages), NEW c \in hint .. LastGuestPage + 1, Tried(i, c), ~(pages[i].address >= c + n)
      PROVE  pages[i].address + 1 \in hint .. LastGuestPage + 1 /\ Tried(i + 1, pages[i].address + 1)
  <2> DEFINE s == pages[i].address
  <2>1. i \in 1 .. Len(pages) /\ ~(i < from)
    BY <1>1
  <2>2. s \in 0 .. LastGuestPage /\ s \in Nat /\ ~(s < hint) /\ s < c + n
    BY <1>1, <1>4, <2>1 DEF IsLower
  <2>3. ASSUME NEW j \in 1 .. Len(pages), j < i + 1 PROVE pages[j].address < s + 1
    <3>1. j = i \/ pages[j].address < s
      BY <2>1, <2>3 DEF Ascending
    <3> QED
      BY <1>1, <2>2, <3>1
  <2>4. ASSUME NEW p \in hint .. s PROVE Obstructed(pages, p, n)
    <3>1. CASE p < c
      BY <1>1, <1>4, <3>1
    <3>2. CASE p >= c
      <4>1. p <= s /\ s <= p + n - 1
        BY <1>1, <2>2, <3>2
      <4> QED
        BY <2>1, <4>1 DEF Obstructed
    <3> QED
      BY <3>1, <3>2, <1>1
  <2> QED
    BY <1>1, <2>2, <2>3, <2>4, SMTT(60)
<1> HIDE DEF Found, Tried
<1>5. 0 \in N
  <2> SUFFICES ASSUME NEW i \in from .. Len(pages) + 1, NEW c \in hint .. LastGuestPage + 1, Len(pages) + 1 - i <= 0, Tried(i, c)
               PROVE  Found(f[<<i, c>>])
    OBVIOUS
  <2>1. i > Len(pages)
    BY <1>1
  <2> QED
    BY <2>1, <1>2, <1>3
<1>6. ASSUME NEW k \in Nat, k \in N PROVE k + 1 \in N
  <2>1. \A i \in from .. Len(pages) + 1, c \in hint .. LastGuestPage + 1 :
          Len(pages) + 1 - i <= k /\ Tried(i, c) => Found(f[<<i, c>>])
    BY <1>6
  <2> SUFFICES ASSUME NEW i \in from .. Len(pages) + 1, NEW c \in hint .. LastGuestPage + 1, Len(pages) + 1 - i <= k + 1, Tried(i, c)
               PROVE  Found(f[<<i, c>>])
    OBVIOUS
  <2>2. CASE i > Len(pages) \/ c + n > LastGuestPage + 1 \/ pages[i].address >= c + n
    BY <2>2, <1>2, <1>3
  <2>3. CASE ~(i > Len(pages) \/ c + n > LastGuestPage + 1 \/ pages[i].address >= c + n)
    <3>0. i \in Nat /\ from \in Nat /\ from <= i /\ i <= Len(pages) /\ Len(pages) \in Nat
      BY <2>3, <1>1
    <3>1. i \in from .. Len(pages) /\ i + 1 \in from .. Len(pages) + 1 /\ Len(pages) + 1 - (i + 1) <= k
      BY <3>0
    <3>2. pages[i].address + 1 \in hint .. LastGuestPage + 1 /\ Tried(i + 1, pages[i].address + 1)
      BY <2>3, <3>1, <1>4
    <3>3. Found(f[<<i + 1, pages[i].address + 1>>])
      BY <2>1, <3>1, <3>2
    <3> QED
      BY <2>3, <3>3, <1>2
  <2> QED
    BY <2>2, <2>3
<1> HIDE DEF N
<1>7. Nat \subseteq N
  BY <1>5, <1>6, SetInduction
<1>8. Len(pages) + 1 - from \in N
  BY <1>1, <1>7
<1>9. Tried(from, hint)
  BY <1>1 DEF Tried, IsLower
<1>10. from \in from .. Len(pages) + 1 /\ hint \in hint .. LastGuestPage + 1
  BY <1>1
<1>11. Found(f[<<from, hint>>])
  <2>1. Len(pages) + 1 - from <= Len(pages) + 1 - from
    BY <1>1
  <2> QED
    BY <1>8, <1>9, <1>10, <2>1 DEF N
<1> QED
  BY <1>11 DEF Found

LEMMA FindFreeIs ==
    ASSUME NEW m, Good(m), NEW hint \in 0 .. LastGuestPage, NEW n \in Nat \ {0}
    PROVE  LET r == Interpreter!FindFree(m, hint, n)
           IN  /\ r \in hint .. LastGuestPage + 1
               /\ r + n <= LastGuestPage + 1 => \A q \in r .. r + n - 1 : ~Interpreter!IsMapped(m, q)
               /\ \A p \in hint .. r - 1 : \E q \in p .. p + n - 1 : Interpreter!IsMapped(m, q)
<1> DEFINE from == Interpreter!Lower(m.pages, hint)
           f == CHOOSE f : Seeks(m.pages, from, hint, n, f)
           r == f[<<from, hint>>]
<1>1. m.pages \in Seq(PageRecords) /\ Ascending(m.pages) /\ hint \in Nat /\ LastGuestPage \in Nat
  BY CodeAssumption DEF Good, Memories
<1>2. IsLower(m.pages, hint, from)
  BY <1>1, LowerFinds
<1>3. Interpreter!FindFree(m, hint, n) = r
  BY PlaceIsChosen
<1> HIDE DEF from
<1>4. Seeks(m.pages, from, hint, n, f)
  BY <1>1, <1>2, SeekExists
<1> HIDE DEF f
<1>5. /\ r \in hint .. LastGuestPage + 1
      /\ r + n <= LastGuestPage + 1 => ~Obstructed(m.pages, r, n)
      /\ \A p \in hint .. r - 1 : Obstructed(m.pages, p, n)
  BY <1>1, <1>2, <1>4, SeekFinds
<1> HIDE DEF r
<1>6. DOMAIN m.pages = 1 .. Len(m.pages) /\ \A i \in 1 .. Len(m.pages) : m.pages[i].address \in Nat
  BY <1>1, PageFacts
<1>7. ASSUME NEW p \in Nat PROVE Obstructed(m.pages, p, n) <=> \E q \in p .. p + n - 1 : Interpreter!IsMapped(m, q)
  BY <1>6 DEF Obstructed, Interpreter!IsMapped
<1> QED
  BY <1>1, <1>3, <1>5, <1>7

-----------------------------------------------------------------------------
(* CPUs and their caches.                                                  *)

Modes == {"protected", "writable"}
Decoded == [pc : Nat, word : Words, valid : BOOLEAN]
CPUStates == [pc : Nat, thread : Modes, cache : [0 .. CacheSize - 1 -> Decoded], generation : Nat, seen : Modes]

\* A cache that was filled from the code as it is now, for either mode of the thread.
CacheHolds(m, p) ==
    p.generation = m.code =>
        \A slot \in 0 .. CacheSize - 1 :
            p.cache[slot].valid =>
                /\ Interpreter!Check(m, p.seen, p.cache[slot].pc, {"x"}) = "OK"
                /\ Interpreter!CellAt(m, p.cache[slot].pc) = p.cache[slot].word

Runs == [cpu : Cpus, left : Nat \ {0}, end : Nat]
RunIs(r) == r = Interpreter!Idle \/ r \in Runs

CodeInv ==
    /\ Good(guest) /\ cpus \in [Cpus -> CPUStates] /\ RunIs(running)
    /\ \A c \in Cpus : cpus[c].generation <= guest.code /\ CacheHolds(guest, cpus[c])

LEMMA CellIsWord ==
    ASSUME NEW m, Good(m), NEW c \in Nat, NEW t, NEW need, Interpreter!Check(m, t, c, need) = "OK"
    PROVE  Interpreter!CellAt(m, c) \in Words
<1>1. PICK i : At(m.pages, Interpreter!PageOf(c), i)
  BY CheckedIsMapped
<1>2. Interpreter!CellAt(m, c) = CellOf(m.pages[i], c)
  BY <1>1, AccessFacts
<1>3. m.pages[i].bytes \in {<<>>} \cup [1 .. GuestPageCells -> Words]
  <2>1. m.pages[i] \in PageRecords
    BY <1>1, PageFacts DEF At, Good, Memories
  <2> QED
    BY <2>1 DEF PageRecords
<1>4. (c % GuestPageCells) + 1 \in 1 .. GuestPageCells
  BY OffsetIs
<1> QED
  BY <1>2, <1>3, <1>4, CodeAssumption DEF CellOf

LEMMA CacheCarries ==
    ASSUME NEW m, Good(m), NEW k, Good(k), StaysDecoded(m, k),
           NEW p \in CPUStates, p.generation <= m.code, CacheHolds(m, p)
    PROVE  p.generation <= k.code /\ CacheHolds(k, p)
<1>1. m.code \in Nat /\ k.code \in Nat /\ p.generation \in Nat /\ k.code >= m.code
  BY DEF Good, Memories, CPUStates, StaysDecoded
<1>2. ASSUME p.generation = k.code, NEW slot \in 0 .. CacheSize - 1, p.cache[slot].valid
      PROVE  /\ Interpreter!Check(k, p.seen, p.cache[slot].pc, {"x"}) = "OK"
             /\ Interpreter!CellAt(k, p.cache[slot].pc) = p.cache[slot].word
  <2>1. p.generation = m.code /\ k.code = m.code
    BY <1>1, <1>2
  <2>2. p.cache[slot].pc \in Nat
    BY DEF CPUStates, Decoded
  <2>3. /\ Interpreter!Check(m, p.seen, p.cache[slot].pc, {"x"}) = "OK"
        /\ Interpreter!CellAt(m, p.cache[slot].pc) = p.cache[slot].word
    BY <1>2, <2>1 DEF CacheHolds
  <2> QED
    BY <2>1, <2>2, <2>3 DEF StaysDecoded
<1> QED
  BY <1>1, <1>2 DEF CacheHolds

\* A step of the memory under caches that stay.
LEMMA MemoryStepKeeps ==
    ASSUME CodeInv, Good(guest'), StaysDecoded(guest, guest'), RunIs(running'),
           NEW c, NEW p \in CPUStates, p.generation <= guest'.code, CacheHolds(guest', p),
           cpus' = cpus \/ cpus' = [cpus EXCEPT ![c] = p]
    PROVE  CodeInv'
<1>1. cpus' \in [Cpus -> CPUStates]
  BY DEF CodeInv
<1>2. ASSUME NEW d \in Cpus
      PROVE  cpus'[d].generation <= guest'.code /\ CacheHolds(guest', cpus'[d])
  <2>1. cpus'[d] = cpus[d] \/ cpus'[d] = p
    BY DEF CodeInv
  <2>2. cpus[d].generation <= guest'.code /\ CacheHolds(guest', cpus[d])
    BY CacheCarries DEF CodeInv
  <2> QED
    BY <2>1, <2>2
<1>3. \A d \in Cpus : cpus'[d].generation <= guest'.code /\ CacheHolds(guest, cpus[d])'
  BY <1>2 DEF CacheHolds
<1>4. RunIs(running)' /\ Good(guest)'
  BY DEF RunIs, Good
<1> QED
  BY <1>1, <1>3, <1>4 DEF CodeInv

LEMMA MemoryOnlyKeeps ==
    ASSUME CodeInv, Good(guest'), StaysDecoded(guest, guest'), UNCHANGED <<cpus, running>>
    PROVE  CodeInv'
<1>2. ASSUME NEW d \in Cpus
      PROVE  cpus'[d].generation <= guest'.code /\ CacheHolds(guest', cpus'[d])
  BY CacheCarries DEF CodeInv
<1>3. \A d \in Cpus : cpus'[d].generation <= guest'.code /\ CacheHolds(guest, cpus[d])'
  BY <1>2 DEF CacheHolds
<1>4. RunIs(running)' /\ Good(guest)'
  BY DEF RunIs, Good, CodeInv
<1> QED
  BY <1>3, <1>4 DEF CodeInv

\* gc_reset leaves nothing in the cache.
LEMMA ResetIs ==
    ASSUME NEW entry \in Nat
    PROVE  LET p == Interpreter!Reset(entry)
           IN  p \in CPUStates /\ p.generation = 0 /\ \A m : CacheHolds(m, p)
<1>1. Interpreter!NoCache \in [0 .. CacheSize - 1 -> Decoded] /\ \A slot \in 0 .. CacheSize - 1 : ~Interpreter!NoCache[slot].valid
  BY CodeAssumption DEF Interpreter!NoCache, Interpreter!Undecoded, Decoded
<1>2. Interpreter!Reset(entry) = [pc |-> entry, thread |-> "protected", cache |-> Interpreter!NoCache, generation |-> 0, seen |-> "writable"]
  BY DEF Interpreter!Reset
<1> QED
  BY <1>1, <1>2 DEF CPUStates, Modes, CacheHolds

LEMMA CodeStarts == Interpreter!Init => CodeInv
<1> SUFFICES ASSUME Interpreter!Init PROVE CodeInv
  OBVIOUS
<1>1. /\ guest = [pages |-> <<>>, generation |-> 0, code |-> 0, fault |-> -1]
      /\ cpus = [c \in Cpus |-> Interpreter!Reset(0)] /\ running = Interpreter!Idle
  BY DEF Interpreter!Init, Interpreter!MemoryInit, Interpreter!NoFault
<1>2. Good(guest)
  BY <1>1 DEF Good, Memories, Ascending
<1> QED
  BY <1>1, <1>2, ResetIs DEF CodeInv, RunIs

-----------------------------------------------------------------------------
(* Steps of a run.                                                         *)

\* gc_run before it looks at its cache: the cache is for the code as it is.
LEMMA RefreshedIs ==
    ASSUME CodeInv, NEW c \in Cpus
    PROVE  LET p == Interpreter!Refreshed(cpus[c])
           IN  /\ p \in CPUStates /\ p.pc = cpus[c].pc /\ p.thread = cpus[c].thread
               /\ p.generation = guest.code /\ p.seen = p.thread /\ CacheHolds(guest, p)
<1> DEFINE q == cpus[c]
           p == Interpreter!Refreshed(q)
<1>1. q \in CPUStates /\ CacheHolds(guest, q) /\ guest.code \in Nat
  BY DEF CodeInv, Good, Memories
<1>2. CASE Interpreter!Current(q)
  BY <1>1, <1>2 DEF Interpreter!Refreshed, Interpreter!Current
<1>3. CASE ~Interpreter!Current(q)
  <2>1. /\ Interpreter!NoCache \in [0 .. CacheSize - 1 -> Decoded]
        /\ \A slot \in 0 .. CacheSize - 1 : ~Interpreter!NoCache[slot].valid
    BY CodeAssumption DEF Interpreter!NoCache, Interpreter!Undecoded, Decoded
  <2>2. p = [q EXCEPT !.cache = Interpreter!NoCache, !.generation = guest.code, !.seen = q.thread]
    BY <1>3 DEF Interpreter!Refreshed
  <2> HIDE DEF p, q
  <2>3. /\ p \in CPUStates /\ p.pc = q.pc /\ p.thread = q.thread /\ p.cache = Interpreter!NoCache
        /\ p.generation = guest.code /\ p.seen = p.thread
    BY <1>1, <2>1, <2>2 DEF CPUStates
  <2> QED
    BY <2>1, <2>3 DEF CacheHolds, p, q
<1> QED
  BY <1>2, <1>3

LEMMA SlotIs == ASSUME NEW pc \in Nat PROVE Interpreter!Slot(pc) \in 0 .. CacheSize - 1
<1>1. CacheSize \in Nat /\ CacheSize > 0
  BY CodeAssumption
<1>2. pc % CacheSize \in 0 .. CacheSize - 1
  BY <1>1
<1> QED
  BY <1>2 DEF Interpreter!Slot

\* The CPU of the run before an instruction is carried out.
Executing(p, m) ==
    /\ p \in CPUStates /\ p.pc = cpus[running.cpu].pc /\ p.thread = cpus[running.cpu].thread
    /\ p.generation = guest.code /\ p.seen = p.thread /\ CacheHolds(m, p)
    /\ m \in Memories /\ m.pages = guest.pages /\ m.code = guest.code

\* What is asked of a step.
StepIsSound ==
    /\ Interpreter!CodeRunsAsWritten /\ Interpreter!StopsInPlace
    /\ Interpreter!WritesAreWhole /\ Interpreter!MmapFindsTheLowestGap

LEMMA RunningIs ==
    ASSUME RunIs(running), running # Interpreter!Idle
    PROVE  running \in Runs /\ running.cpu \in Cpus /\ running.left \in Nat \ {0} /\ running.end \in Nat
BY DEF RunIs, Runs

\* A CPU goes on to another address.
LEMMA ArrivesIs ==
    ASSUME NEW p \in CPUStates, NEW next \in Nat
    PROVE  LET q == [p EXCEPT !.pc = next]
           IN  q \in CPUStates /\ q.generation = p.generation /\ \A m : CacheHolds(m, p) => CacheHolds(m, q)
<1> DEFINE q == [p EXCEPT !.pc = next]
<1>1. /\ q \in CPUStates /\ q.generation = p.generation /\ q.cache = p.cache /\ q.seen = p.seen
  BY DEF CPUStates
<1> HIDE DEF q
<1> QED
  BY <1>1 DEF CacheHolds, q

LEMMA RetiresKeeps ==
    ASSUME CodeInv, running # Interpreter!Idle, NEW p, NEW m, Executing(p, m), NEW next \in Nat, NEW word,
           NEW k, Good(k), StaysDecoded(m, k), Interpreter!Retires(p, next, word, k),
           Interpreter!Check(guest, p.thread, p.pc, {"x"}) = "OK", Interpreter!CellAt(guest, p.pc) = word
    PROVE  CodeInv' /\ StepIsSound
<1>0. Good(guest) /\ SameShape(guest, m) /\ Good(m) /\ StaysDecoded(guest, k)
  <2>1. Good(guest) /\ m \in Memories /\ m.pages = guest.pages /\ m.code = guest.code /\ m.code \in Nat
    BY DEF Executing, CodeInv, Memories
  <2>2. SameShape(guest, m) /\ Good(m) /\ \A c : SameCell(guest, m, c)
    BY <2>1, SamePages
  <2>3. \A c \in Nat : \A t : /\ Interpreter!Check(m, t, c, {"x"}) = Interpreter!Check(guest, t, c, {"x"})
                              /\ Interpreter!CellAt(m, c) = Interpreter!CellAt(guest, c)
    BY <2>1 DEF Interpreter!Check, Interpreter!CellAt
  <2> QED
    BY <2>1, <2>2, <2>3 DEF StaysDecoded
<1> DEFINE q == [p EXCEPT !.pc = next]
<1>1. running \in Runs /\ running.cpu \in Cpus /\ running.left \in Nat \ {0}
  BY RunningIs DEF CodeInv
<1>2. p \in CPUStates /\ p.generation <= m.code /\ CacheHolds(m, p) /\ m.code \in Nat
  BY <1>0 DEF Executing, Good, Memories
<1>3. p.generation <= k.code /\ CacheHolds(k, p)
  BY <1>0, <1>2, CacheCarries
<1>4. q \in CPUStates /\ q.generation <= k.code /\ CacheHolds(k, q)
  BY <1>2, <1>3, ArrivesIs
<1>5. /\ cpus' = [cpus EXCEPT ![running.cpu] = q] /\ guest' = k
      /\ running' = IF running.left = 1 THEN Interpreter!Idle ELSE [running EXCEPT !.left = running.left - 1]
      /\ answer'.op = <<"executed", running.cpu, p.pc, word>>
  BY <1>1 DEF Interpreter!Retires, Runs
<1> HIDE DEF q
<1>6. RunIs(running')
  <2>1. CASE running.left = 1
    BY <2>1, <1>5 DEF RunIs
  <2>2. CASE running.left # 1
    <3>1. running.left - 1 \in Nat \ {0}
      BY <1>1, <2>2
    <3> DEFINE n == running.left - 1
    <3>2. n \in Nat \ {0}
      BY <3>1
    <3>3. running' = [running EXCEPT !.left = n]
      BY <1>5, <2>2
    <3> HIDE DEF n
    <3> QED
      BY <1>1, <3>2, <3>3 DEF RunIs, Runs
  <2> QED
    BY <2>1, <2>2
<1>7. CodeInv'
  BY <1>0, <1>4, <1>5, <1>6, MemoryStepKeeps
<1>8. p.thread = cpus[running.cpu].thread
  BY DEF Executing
<1>9. /\ answer'.op[1] = "executed" /\ answer'.op[2] = running.cpu /\ answer'.op[3] = p.pc /\ answer'.op[4] = word
  BY <1>5
<1>10. StepIsSound
  BY <1>8, <1>9 DEF StepIsSound, Interpreter!CodeRunsAsWritten, Interpreter!StopsInPlace,
                    Interpreter!WritesAreWhole, Interpreter!MmapFindsTheLowestGap
<1> QED
  BY <1>7, <1>10

\* What a read or an instruction fetch leaves is what was there.
LEMMA SamePagesSeen ==
    ASSUME NEW m, Good(m), NEW k \in Memories, k.pages = m.pages, k.code = m.code
    PROVE  /\ Good(k) /\ StaysDecoded(m, k) /\ Interpreter!View(k) = Interpreter!View(m)
           /\ \A c \in Nat : \A t, need : Interpreter!Check(k, t, c, need) = Interpreter!Check(m, t, c, need)
           /\ \A c \in Nat : Interpreter!CellAt(k, c) = Interpreter!CellAt(m, c)
<1>1. SameShape(m, k) /\ Good(k) /\ \A c : SameCell(m, k, c)
  BY SamePages
<1>2. \A c \in Nat : /\ \A t, need : Interpreter!Check(k, t, c, need) = Interpreter!Check(m, t, c, need)
                     /\ Interpreter!CellAt(k, c) = Interpreter!CellAt(m, c)
  BY DEF Interpreter!Check, Interpreter!CellAt
<1>3. m.code \in Nat
  BY DEF Good, Memories
<1> QED
  BY <1>1, <1>2, <1>3, SameSeen DEF StaysDecoded

LEMMA StopsKeeps ==
    ASSUME CodeInv, running # Interpreter!Idle, NEW p, NEW m, Executing(p, m),
           NEW k, Good(k), StaysDecoded(m, k), Interpreter!View(k) = Interpreter!View(m),
           NEW result, Interpreter!Stops(p, k, result)
    PROVE  CodeInv' /\ StepIsSound
<1>1. Good(guest) /\ m \in Memories /\ m.pages = guest.pages /\ m.code = guest.code /\ m.code \in Nat
  BY DEF Executing, CodeInv, Memories
<1>2. Good(m) /\ StaysDecoded(guest, m) /\ Interpreter!View(m) = Interpreter!View(guest)
  BY <1>1, SamePagesSeen
<1>3. StaysDecoded(guest, k)
  <2>1. \A c \in Nat : \A t : Interpreter!Check(m, t, c, {"x"}) = Interpreter!Check(guest, t, c, {"x"})
    BY <1>1, SamePagesSeen
  <2>2. \A c \in Nat : Interpreter!CellAt(m, c) = Interpreter!CellAt(guest, c)
    BY <1>1, SamePagesSeen
  <2> QED
    BY <1>1, <2>1, <2>2 DEF StaysDecoded
<1>4. running \in Runs /\ running.cpu \in Cpus
  BY RunningIs DEF CodeInv
<1>5. p \in CPUStates /\ p.generation <= m.code /\ CacheHolds(m, p)
  BY <1>1 DEF Executing
<1>6. p.generation <= k.code /\ CacheHolds(k, p)
  BY <1>2, <1>5, CacheCarries
<1>7. /\ cpus' = [cpus EXCEPT ![running.cpu] = p] /\ guest' = k /\ running' = Interpreter!Idle
      /\ answer'.op = <<"ran", running.cpu>>
  BY DEF Interpreter!Stops, Interpreter!Ends
<1>8. RunIs(running')
  BY <1>7 DEF RunIs
<1>9. CodeInv'
  BY <1>3, <1>5, <1>6, <1>7, <1>8, MemoryStepKeeps
<1>10. answer'.op[1] = "ran"
  BY <1>7
<1>11. cpus'[running.cpu].pc = cpus[running.cpu].pc
  <2>1. cpus'[running.cpu] = p
    BY <1>4, <1>7 DEF CodeInv
  <2> QED
    BY <2>1 DEF Executing
<1>12. Interpreter!View(guest') = Interpreter!View(guest)
  BY <1>2, <1>7
<1>13. StepIsSound
  BY <1>10, <1>11, <1>12 DEF StepIsSound, Interpreter!CodeRunsAsWritten, Interpreter!StopsInPlace,
                    Interpreter!WritesAreWhole, Interpreter!MmapFindsTheLowestGap
<1> QED
  BY <1>9, <1>13

\* An access goes over cells of the guest's memory.
LEMMA RangesAre ==
    /\ \A s \in Interpreter!CellRanges : s[1] \in Nat /\ s[2] \in Nat
    /\ Interpreter!Cells \subseteq Nat
    /\ \A s \in Interpreter!PageRanges : s[1] \in 0 .. LastGuestPage /\ s[2] \in Nat \ {0} /\ s[1] + s[2] <= LastGuestPage + 1
<1> DEFINE top == (LastGuestPage + 1) * GuestPageCells
<1>1. LastGuestPage \in Nat /\ Sizes \subseteq Nat /\ GuestPageCells \in Nat
  BY CodeAssumption
<1>2. top \in Nat
  BY <1>1
<1>3. Interpreter!Cells = 0 .. top - 1 /\ Interpreter!CellRanges \subseteq (0 .. top - 1) \X Sizes
  BY DEF Interpreter!Cells, Interpreter!CellRanges
<1>4. \A s \in Interpreter!PageRanges :
        s \in (0 .. LastGuestPage) \X (1 .. LastGuestPage + 1) /\ s[1] + s[2] <= LastGuestPage + 1
  BY DEF Interpreter!PageRanges
<1> HIDE DEF top
<1>5. ASSUME NEW s \in Interpreter!CellRanges PROVE s[1] \in Nat /\ s[2] \in Nat
  <2>1. s \in (0 .. top - 1) \X Sizes
    BY <1>3
  <2>2. s[1] \in 0 .. top - 1 /\ s[2] \in Sizes
    BY <2>1
  <2>3. s[1] \in Nat
    BY <1>2, <2>2
  <2>4. s[2] \in Nat
    BY <1>1, <2>2
  <2> QED
    BY <2>3, <2>4
<1>6. Interpreter!Cells \subseteq Nat
  BY <1>2, <1>3
<1>7. \A s \in Interpreter!PageRanges : s[1] \in 0 .. LastGuestPage /\ s[2] \in Nat \ {0} /\ s[1] + s[2] <= LastGuestPage + 1
  BY <1>1, <1>4
<1> QED
  BY <1>5, <1>6, <1>7

LEMMA ExecutesKeeps ==
    ASSUME CodeInv, running # Interpreter!Idle, NEW p, NEW m, Executing(p, m),
           NEW word, Interpreter!Executes(p, m, word),
           Interpreter!Check(guest, p.thread, p.pc, {"x"}) = "OK", Interpreter!CellAt(guest, p.pc) = word
    PROVE  CodeInv' /\ StepIsSound
<1>1. Good(m) /\ m.code \in Nat
  <2>1. Good(guest) /\ m \in Memories /\ m.pages = guest.pages /\ m.code = guest.code /\ m.code \in Nat
    BY DEF Executing, CodeInv, Memories
  <2> QED
    BY <2>1, SamePagesSeen
<1>2. StaysDecoded(m, m)
  BY <1>1, SameIsGood
<1>3. p.pc \in Nat /\ p.pc + 1 \in Nat
  BY DEF Executing, CPUStates
<1>4. CASE Interpreter!Stops(p, m, "UNSUPPORTED")
  BY <1>1, <1>2, <1>4, StopsKeeps
<1>5. ASSUME NEW next \in Interpreter!Cells, Interpreter!Retires(p, next, word, m) PROVE CodeInv' /\ StepIsSound
  <2>1. next \in Nat
    BY RangesAre
  <2> QED
    BY <1>1, <1>2, <1>5, <2>1, RetiresKeeps
<1>6. ASSUME NEW s \in Interpreter!CellRanges, NEW words \in [1 .. s[2] -> Words],
             NEW done \in Interpreter!Write(m, p.thread, s[1], words, {"w"}),
             IF done.result = "OK" THEN Interpreter!Retires(p, p.pc + 1, word, done.memory)
             ELSE Interpreter!Stops(p, done.memory, "MEMORY")
      PROVE  CodeInv' /\ StepIsSound
  <2>1. s[1] \in Nat /\ s[2] \in Nat
    BY RangesAre
  <2>2. /\ done.memory \in Memories /\ SameShape(m, done.memory) /\ Good(done.memory) /\ StaysDecoded(m, done.memory)
        /\ done.result # "OK" => \A c \in Nat : SameCell(m, done.memory, c)
    BY <1>1, <2>1, WriteIs
  <2>3. CASE done.result = "OK"
    BY <1>3, <1>6, <2>2, <2>3, RetiresKeeps
  <2>4. CASE done.result # "OK"
    <3>1. Interpreter!View(done.memory) = Interpreter!View(m)
      BY <1>1, <2>2, <2>4, SameSeen
    <3> QED
      BY <1>6, <2>2, <2>4, <3>1, StopsKeeps
  <2> QED
    BY <2>3, <2>4
<1>7. ASSUME NEW s \in Interpreter!CellRanges, NEW done, done = Interpreter!Read(m, "none", s[1], s[2], {"r"}),
             IF done.result = "OK" THEN Interpreter!Retires(p, p.pc + 1, word, done.memory)
             ELSE Interpreter!Stops(p, done.memory, "MEMORY")
      PROVE  CodeInv' /\ StepIsSound
  <2>1. s[1] \in Nat /\ s[2] \in Nat
    BY RangesAre
  <2> DEFINE need == {"r"}
             t == "none"
             a == s[1]
             n == s[2]
  <2> HIDE DEF need, t, a, n
  <2>2. done.memory \in Memories /\ done.memory.pages = m.pages /\ done.memory.code = m.code
    <3>1. Returns(done, m, t, a, n, need) /\ a \in Nat /\ n \in Nat
      BY <1>7, <2>1 DEF need, t, a, n, Returns
    <3>2. LeavesAlone(m, done.memory)
      BY <1>1, <3>1, ReadIs
    <3> QED
      BY <3>2 DEF LeavesAlone
  <2>3. Good(done.memory) /\ StaysDecoded(m, done.memory) /\ Interpreter!View(done.memory) = Interpreter!View(m)
    BY <1>1, <2>2, SamePagesSeen
  <2> QED
    BY <1>3, <1>7, <2>3, RetiresKeeps, StopsKeeps
<1> QED
  BY <1>4, <1>5, <1>6, <1>7 DEF Interpreter!Executes

\* What gc_run decodes goes into its slot of the cache.
LEMMA FetchedIs ==
    ASSUME NEW p \in CPUStates, NEW m, CacheHolds(m, p), NEW word \in Words,
           Interpreter!Check(m, p.seen, p.pc, {"x"}) = "OK", Interpreter!CellAt(m, p.pc) = word
    PROVE  LET q == [p EXCEPT !.cache[Interpreter!Slot(p.pc)] = [pc |-> p.pc, word |-> word, valid |-> TRUE]]
           IN  /\ q \in CPUStates /\ q.pc = p.pc /\ q.thread = p.thread
               /\ q.generation = p.generation /\ q.seen = p.seen /\ CacheHolds(m, q)
<1> DEFINE d == [pc |-> p.pc, word |-> word, valid |-> TRUE]
           slot == Interpreter!Slot(p.pc)
           cache == [p.cache EXCEPT ![slot] = d]
           q == [p EXCEPT !.cache[slot] = d]
<1>1. p.pc \in Nat /\ slot \in 0 .. CacheSize - 1 /\ p.cache \in [0 .. CacheSize - 1 -> Decoded]
  BY SlotIs DEF CPUStates
<1>2. d \in Decoded /\ d.pc = p.pc /\ d.word = word
  BY <1>1 DEF Decoded
<1> HIDE DEF d, slot
<1>3. cache \in [0 .. CacheSize - 1 -> Decoded] /\ \A s \in 0 .. CacheSize - 1 : cache[s] = IF s = slot THEN d ELSE p.cache[s]
  BY <1>1, <1>2
<1>4. q = [p EXCEPT !.cache = cache]
  OBVIOUS
<1> HIDE DEF cache, q
<1>5. /\ q \in CPUStates /\ q.pc = p.pc /\ q.thread = p.thread /\ q.cache = cache
      /\ q.generation = p.generation /\ q.seen = p.seen
  BY <1>3, <1>4 DEF CPUStates
<1>6. CacheHolds(m, q)
  BY <1>2, <1>3, <1>5 DEF CacheHolds
<1> QED
  BY <1>5, <1>6 DEF q, d, slot

LEMMA StepKeeps ==
    ASSUME CodeInv, Interpreter!Step
    PROVE  CodeInv' /\ StepIsSound
<1> DEFINE p == Interpreter!Refreshed(cpus[running.cpu])
           entry == p.cache[Interpreter!Slot(p.pc)]
           fetched == Interpreter!Read(guest, p.thread, p.pc, 1, {"x"})
           decoded == [pc |-> p.pc, word |-> Interpreter!CellAt(guest, p.pc), valid |-> TRUE]
           q == [p EXCEPT !.cache[Interpreter!Slot(p.pc)] = decoded]
<1>1. running # Interpreter!Idle /\ running.cpu \in Cpus
  BY RunningIs DEF CodeInv, Interpreter!Step
<1>2. /\ p \in CPUStates /\ p.pc = cpus[running.cpu].pc /\ p.thread = cpus[running.cpu].thread
      /\ p.generation = guest.code /\ p.seen = p.thread /\ CacheHolds(guest, p)
  BY <1>1, RefreshedIs
<1>3. Good(guest) /\ guest \in Memories /\ guest.code \in Nat /\ RunIs(running)
  BY DEF CodeInv, Good, Memories
<1>4. Executing(p, guest)
  BY <1>2, <1>3 DEF Executing
<1>5. p.pc \in Nat /\ Interpreter!Slot(p.pc) \in 0 .. CacheSize - 1 /\ p.pc \in p.pc .. p.pc + 1 - 1
  BY <1>2, SlotIs DEF CPUStates
<1>6. \/ /\ Interpreter!Ends("RETURNED") /\ UNCHANGED <<cpus, guest>>
      \/ /\ Interpreter!Hit(entry, p.pc) /\ Interpreter!Executes(p, guest, entry.word)
      \/ /\ fetched.result # "OK" /\ Interpreter!Stops(p, fetched.memory, "MEMORY")
      \/ /\ fetched.result = "OK" /\ Interpreter!Executes(q, fetched.memory, decoded.word)
  BY DEF Interpreter!Step
<1>7. /\ fetched.memory \in Memories /\ fetched.memory.pages = guest.pages /\ fetched.memory.code = guest.code
      /\ fetched.result = "OK" => Interpreter!Check(guest, p.thread, p.pc, {"x"}) = "OK"
  <2> DEFINE need == {"x"}
             n == 1
             a == p.pc
             t == p.thread
             d == fetched
  <2>1. n \in Nat /\ Returns(d, guest, t, a, n, need) /\ a \in Nat /\ a \in a .. a + n - 1
    BY <1>5 DEF Returns
  <2> HIDE DEF need, n, p, a, t, d, fetched
  <2>2. /\ d.memory \in Memories /\ d.memory.pages = guest.pages /\ d.memory.code = guest.code
        /\ d.result = "OK" => \A c \in a .. a + n - 1 : Interpreter!Check(guest, t, c, need) = "OK"
    <3>1. Good(guest) /\ Returns(d, guest, t, a, n, need) /\ a \in Nat /\ n \in Nat
      BY <1>3, <2>1
    <3>2. /\ LeavesAlone(guest, d.memory)
          /\ d.result = "OK" => \A c \in a .. a + n - 1 : Interpreter!Check(guest, t, c, need) = "OK"
      BY <3>1, ReadIs, Zenon
    <3> QED
      BY <3>2 DEF LeavesAlone
  <2>3. d.result = "OK" => Interpreter!Check(guest, t, a, need) = "OK"
    BY <2>1, <2>2
  <2> QED
    BY <2>2, <2>3 DEF need, a, t, d
<1>8. /\ Good(fetched.memory) /\ StaysDecoded(guest, fetched.memory)
      /\ Interpreter!View(fetched.memory) = Interpreter!View(guest)
  BY <1>3, <1>7, SamePagesSeen
<1>9. /\ \A c \in Nat : \A t : Interpreter!Check(fetched.memory, t, c, {"x"}) = Interpreter!Check(guest, t, c, {"x"})
      /\ \A c \in Nat : Interpreter!CellAt(fetched.memory, c) = Interpreter!CellAt(guest, c)
  BY <1>3, <1>7, SamePagesSeen
<1>10. CASE Interpreter!Ends("RETURNED") /\ UNCHANGED <<cpus, guest>>
  <2>1. answer'.op[1] = "ran" /\ running' = Interpreter!Idle /\ cpus' = cpus /\ guest' = guest
    BY <1>10 DEF Interpreter!Ends
  <2>2. CodeInv'
    <3>1. RunIs(running)'
      BY <2>1 DEF RunIs
    <3>2. CodeInv /\ UNCHANGED <<cpus, guest>>
      BY <2>1
    <3>3. Good(guest)' /\ (cpus \in [Cpus -> CPUStates])'
      BY <3>2 DEF CodeInv, Good
    <3>4. (\A c \in Cpus : cpus[c].generation <= guest.code /\ CacheHolds(guest, cpus[c]))'
      BY <3>2 DEF CodeInv, CacheHolds
    <3> QED
      BY <3>1, <3>3, <3>4 DEF CodeInv
  <2>3. StepIsSound
    BY <2>1 DEF StepIsSound, Interpreter!CodeRunsAsWritten, Interpreter!StopsInPlace,
                Interpreter!WritesAreWhole, Interpreter!MmapFindsTheLowestGap
  <2> QED
    BY <2>2, <2>3
<1>11. CASE Interpreter!Hit(entry, p.pc) /\ Interpreter!Executes(p, guest, entry.word)
  <2>1. Interpreter!Check(guest, p.thread, p.pc, {"x"}) = "OK" /\ Interpreter!CellAt(guest, p.pc) = entry.word
    BY <1>2, <1>5, <1>11 DEF CacheHolds, Interpreter!Hit
  <2> HIDE DEF p
  <2> QED
    BY <1>1, <1>4, <1>11, <2>1, ExecutesKeeps
<1>12. CASE fetched.result # "OK" /\ Interpreter!Stops(p, fetched.memory, "MEMORY")
  <2> HIDE DEF p, fetched
  <2> QED
    BY <1>1, <1>4, <1>8, <1>12, StopsKeeps
<1>13. CASE fetched.result = "OK" /\ Interpreter!Executes(q, fetched.memory, decoded.word)
  <2> DEFINE m == fetched.memory
             word == Interpreter!CellAt(guest, p.pc)
  <2> HIDE DEF p, fetched
  <2>1. Interpreter!Check(guest, p.thread, p.pc, {"x"}) = "OK"
    BY <1>7, <1>13
  <2>2. word \in Words
    BY <1>3, <1>5, <2>1, CellIsWord
  <2>3. Interpreter!Check(m, p.seen, p.pc, {"x"}) = "OK" /\ Interpreter!CellAt(m, p.pc) = word
    BY <1>2, <1>5, <1>9, <2>1
  <2>4. CacheHolds(m, p)
    BY <1>2, <1>3, <1>8, CacheCarries
  <2>5. /\ q \in CPUStates /\ q.pc = p.pc /\ q.thread = p.thread
        /\ q.generation = p.generation /\ q.seen = p.seen /\ CacheHolds(m, q)
    BY <1>2, <2>2, <2>3, <2>4, FetchedIs
  <2>6. decoded.word = word
    OBVIOUS
  <2>7. Interpreter!Executes(q, m, word)
    BY <1>13, <2>6
  <2> HIDE DEF q, word, m
  <2>8. Executing(q, m)
    BY <1>2, <1>7, <2>5 DEF Executing, m
  <2>9. Interpreter!CellAt(guest, q.pc) = word
    BY <2>5 DEF word
  <2> QED
    BY <1>1, <2>1, <2>5, <2>7, <2>8, <2>9, ExecutesKeeps
<1> QED
  BY <1>6, <1>10, <1>11, <1>12, <1>13

-----------------------------------------------------------------------------
(* Calls.                                                                  *)

LEMMA MmapKeeps ==
    ASSUME CodeInv, running = Interpreter!Idle, UNCHANGED <<cpus, running>>,
           NEW s \in Interpreter!PageRanges, NEW prot \in GuestProtections, NEW jit \in BOOLEAN, NEW fixed \in BOOLEAN,
           Interpreter!Mmap(s[1], s[2], prot, jit, fixed)
    PROVE  CodeInv' /\ StepIsSound
<1> DEFINE a == s[1]
           n == s[2]
           hint == Interpreter!Hint(a)
           at == Interpreter!PlaceOf(a, n, fixed)
           map == Interpreter!Map(guest, at, n, prot, Interpreter!All, jit, fixed)
<1>1. Good(guest) /\ StaysDecoded(guest, guest)
  BY SameIsGood DEF CodeInv
<1>2. a \in 0 .. LastGuestPage /\ n \in Nat \ {0} /\ a + n <= LastGuestPage + 1 /\ LastGuestPage \in Nat
  BY RangesAre, CodeAssumption
<1>3. hint \in 0 .. LastGuestPage /\ LowPages \in Nat /\ hint >= LowPages
  BY <1>2, CodeAssumption DEF Interpreter!Hint
<1> HIDE DEF hint
<1>4. /\ at \in Nat
      /\ ~fixed => /\ at >= hint
                   /\ at + n <= LastGuestPage + 1 => \A q \in at .. at + n - 1 : ~Interpreter!IsMapped(guest, q)
                   /\ \A p \in hint .. at - 1 : \E q \in p .. p + n - 1 : Interpreter!IsMapped(guest, q)
  <2>1. CASE fixed
    BY <2>1, <1>2 DEF Interpreter!PlaceOf
  <2>2. CASE ~fixed
    <3>1. at = Interpreter!FindFree(guest, hint, n)
      BY <2>2 DEF Interpreter!PlaceOf, hint
    <3> HIDE DEF at, n
    <3> DEFINE r == Interpreter!FindFree(guest, hint, n)
    <3>2. /\ r \in hint .. LastGuestPage + 1
          /\ r + n <= LastGuestPage + 1 => \A q \in r .. r + n - 1 : ~Interpreter!IsMapped(guest, q)
          /\ \A p \in hint .. r - 1 : \E q \in p .. p + n - 1 : Interpreter!IsMapped(guest, q)
      BY <1>1, <1>2, <1>3, FindFreeIs
    <3> HIDE DEF r
    <3>3. r \in Nat /\ r >= hint
      BY <1>2, <1>3, <3>2
    <3> QED
      BY <3>1, <3>2, <3>3 DEF r
  <2> QED
    BY <2>1, <2>2
<1>5. /\ answer'.op = <<"mmap", at, n, fixed, hint>>
      /\ \/ guest' = guest /\ answer'.result = "NOMEM"
         \/ guest' = guest /\ answer'.result = "INVALID" /\ at < LowPages
         \/ at + n <= LastGuestPage + 1 /\ guest' = map.memory
  <2> HIDE DEF map, at, n, a
  <2>1. \/ at + n > LastGuestPage + 1 /\ Interpreter!Return(<<"mmap", at, n, fixed, hint>>, Interpreter!Done(guest, "NOMEM"))
        \/ /\ ~(at + n > LastGuestPage + 1) /\ at < LowPages
           /\ Interpreter!Return(<<"mmap", at, n, fixed, hint>>, Interpreter!Done(guest, "INVALID"))
        \/ Interpreter!Return(<<"mmap", at, n, fixed, hint>>, Interpreter!Done(guest, "NOMEM"))
        \/ ~(at + n > LastGuestPage + 1) /\ Interpreter!Return(<<"mmap", at, n, fixed, hint>>, map)
    BY DEF Interpreter!Mmap, map, at, n, a, hint
  <2>2. ~(at + n > LastGuestPage + 1) => at + n <= LastGuestPage + 1
    BY <1>2, <1>4
  <2> QED
    BY <2>1, <2>2 DEF Interpreter!Return, Interpreter!Done
<1>6. Good(guest') /\ StaysDecoded(guest, guest')
  <2>1. CASE guest' = guest
    BY <1>1, <2>1
  <2>2. CASE at + n <= LastGuestPage + 1 /\ guest' = map.memory
    <3>1. prot \in Permissions /\ Interpreter!All \in Permissions /\ prot \subseteq Interpreter!All
      BY CodeAssumption DEF Permissions, Interpreter!All
    <3> HIDE DEF at, n
    <3>2. Good(map.memory) /\ StaysDecoded(guest, map.memory)
      BY <1>1, <1>2, <1>4, <2>2, <3>1, MapIs
    <3> QED
      BY <2>2, <3>2
  <2> QED
    BY <1>5, <2>1, <2>2
<1>7. CodeInv'
  BY <1>6, MemoryOnlyKeeps
<1>8. /\ answer'.op[1] = "mmap" /\ answer'.op[2] = at /\ answer'.op[3] = n /\ answer'.op[4] = fixed
      /\ answer'.op[5] = hint
  BY <1>5
<1> HIDE DEF map, at, n
<1>9. Interpreter!MmapFindsTheLowestGap
  <2> SUFFICES ASSUME ~fixed, answer'.result # "NOMEM"
               PROVE  /\ at >= LowPages /\ \A q \in at .. at + n - 1 : ~Interpreter!IsMapped(guest, q)
                      /\ \A p \in hint .. at - 1 : ~\A q \in p .. p + n - 1 : ~Interpreter!IsMapped(guest, q)
    BY <1>8 DEF Interpreter!MmapFindsTheLowestGap
  <2>1. at >= LowPages /\ hint \in Nat
    BY <1>2, <1>3, <1>4
  <2>2. at + n <= LastGuestPage + 1
    BY <1>3, <1>4, <1>5, <2>1
  <2> QED
    BY <1>4, <2>1, <2>2
<1>10. StepIsSound
  BY <1>8, <1>9 DEF StepIsSound, Interpreter!CodeRunsAsWritten, Interpreter!StopsInPlace, Interpreter!WritesAreWhole
<1> QED
  BY <1>7, <1>10

\* A call that is none of those the properties are about.
LEMMA OtherCall ==
    ASSUME running = Interpreter!Idle, answer'.op[1] \notin {"executed", "ran", "write", "mmap"}
    PROVE  StepIsSound
BY DEF StepIsSound, Interpreter!CodeRunsAsWritten, Interpreter!StopsInPlace,
       Interpreter!WritesAreWhole, Interpreter!MmapFindsTheLowestGap

LEMMA MappingsKeep ==
    ASSUME CodeInv, running = Interpreter!Idle, UNCHANGED <<cpus, running>>, Interpreter!Mappings
    PROVE  CodeInv' /\ StepIsSound
<1>1. PICK s \in Interpreter!PageRanges :
        \/ \E prot \in GuestProtections, jit, fixed \in BOOLEAN : Interpreter!Mmap(s[1], s[2], prot, jit, fixed)
        \/ \E prot, max \in GuestProtections : Interpreter!MapSegment(s[1], s[2], prot, max)
        \/ \E prot \in GuestProtections : Interpreter!Mprotect(s[1], s[2], prot)
        \/ Interpreter!Munmap(s[1], s[2])
  BY DEF Interpreter!Mappings
<1>2. s[1] \in Nat /\ s[2] \in Nat /\ s[1] + s[2] <= LastGuestPage + 1
  BY RangesAre, CodeAssumption
<1>3. Good(guest) /\ GuestProtections \subseteq Permissions
  BY CodeAssumption DEF CodeInv, Permissions
<1>4. ASSUME NEW prot \in GuestProtections, NEW jit \in BOOLEAN, NEW fixed \in BOOLEAN,
             Interpreter!Mmap(s[1], s[2], prot, jit, fixed)
      PROVE  CodeInv' /\ StepIsSound
  BY <1>4, MmapKeeps
<1>5. ASSUME NEW prot \in GuestProtections, NEW max \in GuestProtections, Interpreter!MapSegment(s[1], s[2], prot, max)
      PROVE  CodeInv' /\ StepIsSound
  <2> DEFINE d == Interpreter!Map(guest, s[1], s[2], prot, max, FALSE, FALSE)
  <2>1. prot \subseteq max /\ guest' = d.memory /\ answer'.op = <<"map", s[1], s[2]>>
    BY <1>5 DEF Interpreter!MapSegment, Interpreter!Return
  <2>2. Good(d.memory) /\ StaysDecoded(guest, d.memory)
    BY <1>2, <1>3, <2>1, MapIs
  <2> HIDE DEF d
  <2>3. CodeInv'
    BY <2>1, <2>2, MemoryOnlyKeeps
  <2>4. answer'.op[1] = "map"
    BY <2>1
  <2> QED
    BY <2>3, <2>4, OtherCall
<1>6. ASSUME NEW prot \in GuestProtections, Interpreter!Mprotect(s[1], s[2], prot)
      PROVE  CodeInv' /\ StepIsSound
  <2> DEFINE d == Interpreter!Protect(guest, s[1], s[2], prot)
  <2>1. guest' = d.memory /\ answer'.op = <<"mprotect", s[1], s[2]>>
    BY <1>6 DEF Interpreter!Mprotect, Interpreter!Return
  <2>2. Good(d.memory) /\ StaysDecoded(guest, d.memory)
    BY <1>2, <1>3, ProtectIs
  <2> HIDE DEF d
  <2>3. CodeInv'
    BY <2>1, <2>2, MemoryOnlyKeeps
  <2>4. answer'.op[1] = "mprotect"
    BY <2>1
  <2> QED
    BY <2>3, <2>4, OtherCall
<1>7. ASSUME Interpreter!Munmap(s[1], s[2])
      PROVE  CodeInv' /\ StepIsSound
  <2> DEFINE d == Interpreter!Unmap(guest, s[1], s[2])
  <2>1. guest' = d.memory /\ answer'.op = <<"munmap", s[1], s[2]>>
    BY <1>7 DEF Interpreter!Munmap, Interpreter!Return
  <2>2. Good(d.memory) /\ StaysDecoded(guest, d.memory)
    BY <1>2, <1>3, UnmapIs
  <2> HIDE DEF d
  <2>3. CodeInv'
    BY <2>1, <2>2, MemoryOnlyKeeps
  <2>4. answer'.op[1] = "munmap"
    BY <2>1
  <2> QED
    BY <2>3, <2>4, OtherCall
<1> QED
  BY <1>1, <1>4, <1>5, <1>6, <1>7

LEMMA PopulateKeeps ==
    ASSUME CodeInv, running = Interpreter!Idle, UNCHANGED <<cpus, running>>,
           NEW s \in Interpreter!CellRanges, NEW words \in [1 .. s[2] -> Words], Interpreter!Populate(s[1], words)
    PROVE  CodeInv' /\ StepIsSound
<1> DEFINE a == s[1]
           n == s[2]
<1>1. a \in Nat /\ n \in Nat /\ Good(guest) /\ words \in [1 .. n -> Words]
  BY RangesAre DEF CodeInv
<1>2. PICK d \in Interpreter!Write(guest, "none", a, words, {}) : Interpreter!Return(<<"write", a, words>>, d)
  BY DEF Interpreter!Populate
<1>3. /\ guest' = d.memory /\ answer'.result = d.result
      /\ answer'.op[1] = "write" /\ answer'.op[2] = a /\ answer'.op[3] = words
  BY <1>2 DEF Interpreter!Return
<1> HIDE DEF a, n
<1>4. /\ d.memory \in Memories /\ SameShape(guest, d.memory) /\ Good(d.memory) /\ StaysDecoded(guest, d.memory)
      /\ d.result = "OK" =>
            /\ \A c \in a .. a + n - 1 : Interpreter!Check(guest, "none", c, {}) = "OK"
            /\ \A c \in Nat : Stored(guest, d.memory, a, words, c)
      /\ d.result # "OK" => \A c \in Nat : SameCell(guest, d.memory, c)
  BY <1>1, WriteIs
<1>5. CodeInv'
  BY <1>3, <1>4, MemoryOnlyKeeps
<1>6. CASE d.result = "OK"
  <2>0. /\ \A c \in a .. a + n - 1 : \E t, need : Interpreter!Check(guest, t, c, need) = "OK"
        /\ \A c \in Nat : Stored(guest, d.memory, a, words, c)
    BY <1>4, <1>6
  <2>1. Interpreter!View(d.memory) = SeenWith(guest, a, words)
    BY <1>1, <1>4, <1>6, <2>0, StoredSeen
  <2>2. Interpreter!WritesAreWhole
    BY <1>3, <1>6, <2>1 DEF Interpreter!WritesAreWhole, SeenWith
  <2> QED
    BY <1>3, <1>5, <2>2 DEF StepIsSound, Interpreter!CodeRunsAsWritten, Interpreter!StopsInPlace, Interpreter!MmapFindsTheLowestGap
<1>7. CASE d.result # "OK"
  <2>1. Interpreter!View(d.memory) = Interpreter!View(guest)
    BY <1>1, <1>4, <1>7, SameSeen
  <2>2. Interpreter!WritesAreWhole
    BY <1>3, <1>7, <2>1 DEF Interpreter!WritesAreWhole
  <2> QED
    BY <1>3, <1>5, <2>2 DEF StepIsSound, Interpreter!CodeRunsAsWritten, Interpreter!StopsInPlace, Interpreter!MmapFindsTheLowestGap
<1> QED
  BY <1>6, <1>7

\* Calls that leave the memory.
LEMMA CPUCallKeeps ==
    ASSUME CodeInv, running = Interpreter!Idle, UNCHANGED guest, NEW c \in Cpus,
           \/ \E budget \in 1 .. MaxBudget, end \in Interpreter!Cells : Interpreter!Run(c, budget, end)
           \/ \E entry \in Interpreter!Cells : Interpreter!ResetCPU(c, entry)
           \/ \E mode \in Modes : Interpreter!JitWriteProtect(c, mode)
    PROVE  CodeInv' /\ StepIsSound
<1>1. Good(guest') /\ StaysDecoded(guest, guest') /\ guest.code \in Nat /\ RunIs(running)
  BY SameIsGood DEF CodeInv, Good, Memories
<1>2. cpus[c] \in CPUStates /\ cpus[c].generation <= guest'.code /\ CacheHolds(guest', cpus[c])
  BY <1>1 DEF CodeInv
<1>3. ASSUME NEW budget \in 1 .. MaxBudget, NEW end \in Interpreter!Cells, Interpreter!Run(c, budget, end)
      PROVE  CodeInv' /\ StepIsSound
  <2>1. cpus' = cpus /\ running' = [cpu |-> c, left |-> budget, end |-> end] /\ answer'.op = <<"run", c>>
    BY <1>3 DEF Interpreter!Run
  <2>2. budget \in Nat \ {0} /\ end \in Nat
    BY RangesAre, CodeAssumption
  <2>3. RunIs(running')
    BY <2>1, <2>2 DEF RunIs, Runs
  <2>4. CodeInv'
    BY <1>1, <1>2, <2>1, <2>3, MemoryStepKeeps
  <2>5. answer'.op[1] = "run"
    BY <2>1
  <2> QED
    BY <2>4, <2>5, OtherCall
<1>4. ASSUME NEW entry \in Interpreter!Cells, Interpreter!ResetCPU(c, entry)
      PROVE  CodeInv' /\ StepIsSound
  <2> DEFINE p == Interpreter!Reset(entry)
  <2>1. cpus' = [cpus EXCEPT ![c] = p] /\ running' = running /\ answer'.op = <<"reset", c>>
    BY <1>4 DEF Interpreter!ResetCPU
  <2>2. entry \in Nat
    BY RangesAre
  <2>3. p \in CPUStates /\ p.generation = 0 /\ CacheHolds(guest', p)
    BY <2>2, ResetIs
  <2>4. p.generation <= guest'.code
    BY <1>1, <2>3
  <2> HIDE DEF p
  <2>5. CodeInv'
    BY <1>1, <2>1, <2>3, <2>4, MemoryStepKeeps
  <2>6. answer'.op[1] = "reset"
    BY <2>1
  <2> QED
    BY <2>5, <2>6, OtherCall
<1>5. ASSUME NEW mode \in Modes, Interpreter!JitWriteProtect(c, mode)
      PROVE  CodeInv' /\ StepIsSound
  <2> DEFINE p == [cpus[c] EXCEPT !.thread = mode]
  <2>1. cpus' = [cpus EXCEPT ![c] = p] /\ running' = running /\ answer'.op = <<"jit", c>>
    BY <1>5 DEF Interpreter!JitWriteProtect, CodeInv
  <2>2. p \in CPUStates /\ p.generation = cpus[c].generation /\ p.cache = cpus[c].cache /\ p.seen = cpus[c].seen
    BY <1>2 DEF CPUStates
  <2> HIDE DEF p
  <2>3. p.generation <= guest'.code /\ CacheHolds(guest', p)
    BY <1>2, <2>2 DEF CacheHolds
  <2>4. CodeInv'
    BY <1>1, <2>1, <2>2, <2>3, MemoryStepKeeps
  <2>5. answer'.op[1] = "jit"
    BY <2>1
  <2> QED
    BY <2>4, <2>5, OtherCall
<1> QED
  BY <1>3, <1>4, <1>5

LEMMA CodeStepKeeps ==
    ASSUME CodeInv, Interpreter!Next
    PROVE  CodeInv' /\ StepIsSound
<1>1. CASE Interpreter!Step
  BY <1>1, StepKeeps
<1>2. CASE Interpreter!Call
  <2>1. /\ running = Interpreter!Idle
        /\ \/ Interpreter!Mappings /\ UNCHANGED <<cpus, running>>
           \/ /\ \E s \in Interpreter!CellRanges : \E words \in [1 .. s[2] -> Words] : Interpreter!Populate(s[1], words)
              /\ UNCHANGED <<cpus, running>>
           \/ \E c \in Cpus : \/ \E budget \in 1 .. MaxBudget, end \in Interpreter!Cells : Interpreter!Run(c, budget, end)
                              \/ \E entry \in Interpreter!Cells : Interpreter!ResetCPU(c, entry)
                              \/ \E mode \in Modes : Interpreter!JitWriteProtect(c, mode)
    BY <1>2 DEF Interpreter!Call, Modes
  <2>2. CASE Interpreter!Mappings /\ UNCHANGED <<cpus, running>>
    BY <2>1, <2>2, MappingsKeep
  <2>3. CASE /\ \E s \in Interpreter!CellRanges : \E words \in [1 .. s[2] -> Words] : Interpreter!Populate(s[1], words)
             /\ UNCHANGED <<cpus, running>>
    BY <2>1, <2>3, PopulateKeeps
  <2>4. ASSUME NEW c \in Cpus,
               \/ \E budget \in 1 .. MaxBudget, end \in Interpreter!Cells : Interpreter!Run(c, budget, end)
               \/ \E entry \in Interpreter!Cells : Interpreter!ResetCPU(c, entry)
               \/ \E mode \in Modes : Interpreter!JitWriteProtect(c, mode)
        PROVE  CodeInv' /\ StepIsSound
    <3>1. UNCHANGED guest
      BY <2>4 DEF Interpreter!Run, Interpreter!ResetCPU, Interpreter!JitWriteProtect
    <3> QED
      BY <2>1, <2>4, <3>1, CPUCallKeeps
  <2> QED
    BY <2>1, <2>2, <2>3, <2>4
<1> QED
  BY <1>1, <1>2 DEF Interpreter!Next

\* What the invariant says of a state.
LEMMA CodeInvMeans ==
    ASSUME CodeInv
    PROVE  Interpreter!CacheIsCurrent /\ Interpreter!PagesAreSorted
<1>1. ASSUME NEW c \in Cpus, Interpreter!Current(cpus[c]), NEW slot \in DOMAIN cpus[c].cache, cpus[c].cache[slot].valid
      PROVE  /\ Interpreter!Check(guest, cpus[c].thread, cpus[c].cache[slot].pc, {"x"}) = "OK"
             /\ Interpreter!CellAt(guest, cpus[c].cache[slot].pc) = cpus[c].cache[slot].word
  <2>1. slot \in 0 .. CacheSize - 1 /\ CacheHolds(guest, cpus[c])
    BY DEF CodeInv, CPUStates
  <2> QED
    BY <1>1, <2>1 DEF Interpreter!Current, CacheHolds
<1>2. Interpreter!CacheIsCurrent
  BY <1>1 DEF Interpreter!CacheIsCurrent
<1>3. guest.pages \in Seq(PageRecords) /\ Ascending(guest.pages)
  BY DEF CodeInv, Good, Memories
<1>4. /\ Len(guest.pages) \in Nat /\ DOMAIN guest.pages = 1 .. Len(guest.pages)
      /\ \A i \in 1 .. Len(guest.pages) : guest.pages[i] \in PageRecords
  BY <1>3, PageFacts
<1>5. \A i \in DOMAIN guest.pages : guest.pages[i].prot \subseteq guest.pages[i].max
  BY <1>4 DEF PageRecords
<1>6. ASSUME NEW i \in 1 .. Len(guest.pages) - 1
      PROVE  guest.pages[i].address < guest.pages[i + 1].address
  BY <1>3, <1>4 DEF Ascending
<1> QED
  BY <1>2, <1>5, <1>6 DEF Interpreter!PagesAreSorted

LEMMA CodeStutters ==
    ASSUME CodeInv, UNCHANGED codeVars
    PROVE  CodeInv'
<1>1. UNCHANGED <<guest, cpus, running>>
  BY DEF codeVars
<1> QED
  BY <1>1 DEF CodeInv, Good, RunIs, CacheHolds

\* The invariant of a state about code, and what a step from it shows.
CodeIsSound == subject = "code" => CodeInv

LEMMA CodeStays ==
    /\ Init => CodeIsSound
    /\ CodeIsSound /\ [Next]_vars => CodeIsSound'
    /\ CodeIsSound /\ Next /\ subject = "code" => CodeInv' /\ StepIsSound
<1>1. Init => CodeIsSound
  BY CodeStarts DEF Init, CodeIsSound
<1>2. ASSUME CodeIsSound, Next, subject = "code" PROVE CodeInv' /\ StepIsSound
  <2>1. CodeInv /\ Interpreter!Next
    BY <1>2 DEF CodeIsSound, Next, InSequence, InMapping, InSignal
  <2> QED
    BY <2>1, CodeStepKeeps
<1>3. ASSUME CodeIsSound, [Next]_vars PROVE CodeIsSound'
  <2>1. subject' = subject
    BY <1>3 DEF Next, InSequence, InMapping, InSignal, InCode, vars
  <2>2. CASE subject = "code" /\ Next
    BY <1>2, <1>3, <2>2 DEF CodeIsSound
  <2>3. CASE subject = "code" /\ UNCHANGED vars
    <3>1. UNCHANGED codeVars
      BY <2>3 DEF vars
    <3> QED
      BY <1>3, <2>3, <3>1, CodeStutters DEF CodeIsSound
  <2>4. CASE subject # "code"
    BY <2>1, <2>4 DEF CodeIsSound
  <2> QED
    BY <1>3, <2>2, <2>3, <2>4
<1> QED
  BY <1>1, <1>2, <1>3

\* gc_run for any CPUs, caches, memories, words and budgets: what it takes from its
\* cache is what memory has at that address and lets the thread execute, however the
\* memory, its protection or the thread's JIT mode was changed before, and what
\* cannot be executed stops at its own address and leaves nothing in memory.
THEOREM CodeStaysCurrent == Spec => CodeIsCurrent
<1> DEFINE Step == subject = "code" => /\ Interpreter!CacheIsCurrent'
                                       /\ Interpreter!CodeRunsAsWritten
                                       /\ Interpreter!StopsInPlace
<1>0. CodeInv' => Interpreter!CacheIsCurrent'
  <2>1. CodeInv => Interpreter!CacheIsCurrent
    BY CodeInvMeans
  <2> QED
    BY <2>1, PTL
<1>1. Init => CodeIsSound
  BY CodeStays
<1>2. CodeIsSound /\ [Next]_vars => CodeIsSound'
  BY CodeStays
<1>3. CodeIsSound /\ [Next]_vars => [Step]_vars
  <2> SUFFICES ASSUME CodeIsSound, Next, subject = "code"
               PROVE  Interpreter!CacheIsCurrent' /\ Interpreter!CodeRunsAsWritten /\ Interpreter!StopsInPlace
    OBVIOUS
  <2>1. CodeInv' /\ StepIsSound
    BY CodeStays
  <2> QED
    BY <1>0, <2>1 DEF StepIsSound
<1>4. CodeIsCurrent <=> [][Step]_vars
  BY DEF CodeIsCurrent
<1> HIDE DEF Step
<1> QED
  BY <1>1, <1>2, <1>3, <1>4, PTL DEF Spec

\* GuestMemory.c and DarwinMemory.c for any memories, pages, permissions and words:
\* the array of pages stays strictly ascending, a write stores all of its words or
\* none, also when the backing runs out halfway, and gd_mmap without MAP_FIXED finds
\* the lowest gap at or above the hint.
THEOREM CallsStayWhole == Spec => CallsAreWhole
<1> DEFINE Sorted == subject = "code" => Interpreter!PagesAreSorted
           Step == subject = "code" => Interpreter!WritesAreWhole /\ Interpreter!MmapFindsTheLowestGap
<1>1. Init => CodeIsSound
  BY CodeStays
<1>2. CodeIsSound /\ [Next]_vars => CodeIsSound'
  BY CodeStays
<1>3. CodeIsSound => Sorted
  BY CodeInvMeans DEF CodeIsSound
<1>4. CodeIsSound /\ [Next]_vars => [Step]_vars
  <2> SUFFICES ASSUME CodeIsSound, Next, subject = "code"
               PROVE  Interpreter!WritesAreWhole /\ Interpreter!MmapFindsTheLowestGap
    OBVIOUS
  <2> QED
    BY CodeStays DEF StepIsSound
<1>5. CallsAreWhole <=> []Sorted /\ [][Step]_vars
  BY DEF CallsAreWhole
<1> HIDE DEF Sorted, Step
<1> QED
  BY <1>1, <1>2, <1>3, <1>4, <1>5, PTL DEF Spec
=============================================================================
