--------------------------- MODULE SignalActions ---------------------------
(***************************************************************************)
(* GuestSoftwareVM.c, faults: starting and stopping the software VM, whose *)
(* handler takes every SIGSEGV and SIGBUS, and the guest's own actions for *)
(* them, which it keeps in slots that are never reused and runs when a     *)
(* fault is not one of its own.                                            *)
(*                                                                         *)
(* Registering is under a lock; dispatching is in signal context and is    *)
(* lock-free.  An action is told by a name and by SA_RESETHAND: it is an   *)
(* action for one signal only.                                             *)
(***************************************************************************)
EXTENDS Integers

CONSTANTS Threads, Signals, Names,
          ActionLimit,  \* ACTION_LIMIT slots
          MaxFaults     \* faults explored

VARIABLES vm,           \* how far start and stop are
          guard, memory, enabled,       \* what start acquired
          handler,      \* the handler the kernel has for each signal
          current,      \* current[signal]: a slot
          slots, count, \* actions, action_count
          lock,         \* who holds action_lock
          thread,       \* where each thread is
          last,         \* history: the slot of the last registration that succeeded
          chosen,       \* history: slots a dispatch has chosen
          faults
vars == <<vm, guard, memory, enabled, handler, current, slots, count, lock, thread, last, chosen, faults>>

lifecycle == <<vm, guard, memory, enabled>>
actions == <<current, slots, count, lock, last>>

Nobody == 0                     \* threads are positive numbers
Original == -1                  \* original[signal]
Default == 0                    \* actions[0], SIG_DFL
Unset == -2
Slots == 1 .. ActionLimit - 1
Actions == [name : Names, once : BOOLEAN]
Empty == [name |-> "none", once |-> FALSE]

\* The action in a slot; the host's own actions are not one-shot.
Action(slot) == IF slot \in Slots THEN slots[slot] ELSE Empty

Idle == [stage |-> "idle"]
Free(t) == thread[t].stage = "idle"
Becomes(t, record) == thread' = [thread EXCEPT ![t] = record]

-----------------------------------------------------------------------------
(* start and gsv_stop.  Signals may arrive between any two steps.          *)

Released == guard' = FALSE /\ memory' = FALSE /\ vm' = "off"

\* Range and sparse memory; nothing is kept if either fails.
StartMemory ==
    /\ vm = "off" /\ \A t \in Threads : Free(t)
    /\ \/ guard' = TRUE /\ memory' = TRUE /\ vm' = "memory"
       \/ UNCHANGED <<guard, memory, vm>>
    /\ UNCHANGED <<enabled, handler, actions, thread, chosen, faults>>

\* The slots are emptied and the host's actions become current.
StartActions ==
    /\ vm = "memory" /\ vm' = "actions"
    /\ slots' = [s \in Slots |-> Empty] /\ count' = 1
    /\ current' = [i \in Signals |-> Original] /\ last' = [i \in Signals |-> Original] /\ chosen' = {}
    /\ UNCHANGED <<guard, memory, enabled, handler, lock, thread, faults>>

\* Both handlers are put back and everything is released.
StartFails == Released /\ handler' = [i \in Signals |-> "host"]

\* One handler after the other; either may fail.
StartHandler(i) ==
    /\ vm = "actions" /\ handler[i] = "host"
    /\ \/ handler' = [handler EXCEPT ![i] = "dispatch"] /\ UNCHANGED <<vm, guard, memory>>
       \/ StartFails
    /\ UNCHANGED <<enabled, actions, thread, chosen, faults>>

Ready == \A i \in Signals : handler[i] = "dispatch"

StartEnable ==
    /\ vm = "actions" /\ Ready /\ vm' = "on" /\ enabled' = TRUE
    /\ UNCHANGED <<guard, memory, handler, actions, thread, chosen, faults>>

\* gsv_stop, once no thread uses the range: first nothing is enabled, then the
\* handlers go, then the memory.
StopDisable ==
    /\ vm = "on" /\ \A t \in Threads : Free(t)
    /\ vm' = "stopping" /\ enabled' = FALSE
    /\ UNCHANGED <<guard, memory, handler, actions, thread, chosen, faults>>

StopHandler(i) ==
    /\ vm = "stopping" /\ handler[i] = "dispatch"
    /\ handler' = [handler EXCEPT ![i] = "host"]
    /\ UNCHANGED <<lifecycle, actions, thread, chosen, faults>>

StopMemory ==
    /\ vm = "stopping" /\ \A i \in Signals : handler[i] = "host"
    /\ Released /\ UNCHANGED <<enabled, handler, actions, thread, chosen, faults>>

-----------------------------------------------------------------------------
(* gsv_sigaction.                                                          *)

\* The next slot takes the action before anyone can see it.
Fills(t, i, action) ==
    /\ count' = count + 1 /\ slots' = [slots EXCEPT ![count] = action]
    /\ Becomes(t, [stage |-> "store", signal |-> i, slot |-> count, previous |-> current[i]])

\* Under the lock; with all slots used the call fails.
Sigaction(t, i, action) ==
    /\ enabled /\ Free(t) /\ lock = Nobody
    /\ count < ActionLimit /\ lock' = t /\ Fills(t, i, action)
    /\ UNCHANGED <<lifecycle, handler, current, last, chosen, faults>>

Publish(t) ==
    /\ thread[t].stage = "store"
    /\ current' = [current EXCEPT ![thread[t].signal] = thread[t].slot]
    /\ Becomes(t, [thread[t] EXCEPT !.stage = "install"])
    /\ UNCHANGED <<lifecycle, handler, slots, count, lock, last, chosen, faults>>

\* The host refused the handler: what was current is so again, the slot is lost.
InstallFails(t) ==
    /\ current' = [current EXCEPT ![thread[t].signal] = thread[t].previous]
    /\ UNCHANGED <<slots, count, last>>

Install(t) ==
    /\ thread[t].stage = "install" /\ lock' = Nobody /\ Becomes(t, Idle)
    /\ \/ last' = [last EXCEPT ![thread[t].signal] = thread[t].slot] /\ UNCHANGED <<current, slots, count>>
       \/ InstallFails(t)
    /\ UNCHANGED <<lifecycle, handler, chosen, faults>>

-----------------------------------------------------------------------------
(* dispatch_signal.                                                        *)

\* handle_fault: a data abort in the software range by code outside of it whose
\* instruction can be fetched and executed on the sparse memory.
Handled(f) == enabled /\ f.inRange /\ f.dataAbort /\ f.native /\ f.step = "OK"
Faults == [inRange : BOOLEAN, dataAbort : BOOLEAN, native : BOOLEAN, step : {"OK", "UNSUPPORTED", "FAULT"}]

\* A fault of its own is resumed; otherwise the current action is looked up.
Dispatch(t, i, f) ==
    /\ handler[i] = "dispatch" /\ faults < MaxFaults /\ Free(t)
    /\ faults' = faults + 1
    /\ IF Handled(f) THEN UNCHANGED <<thread, chosen>>
       ELSE /\ Becomes(t, [stage |-> "selected", signal |-> i, slot |-> current[i], meant |-> Action(current[i])])
            /\ chosen' = chosen \cup {current[i]}
    /\ UNCHANGED <<lifecycle, handler, actions>>

\* Wrong form of Reset: whatever is current by now is reset.
ResetBlindly(i, slot) == current' = [current EXCEPT ![i] = Default]

\* Compare and exchange: only the action that was selected is reset.
Reset(i, slot) == current' = IF current[i] = slot THEN [current EXCEPT ![i] = Default] ELSE current

\* The action is read and a one-shot action reset; then it runs, which is the
\* guest's code.  With the default action the process ends.
Select(t) ==
    /\ thread[t].stage = "selected" /\ Becomes(t, Idle)
    /\ IF Action(thread[t].slot).once THEN Reset(thread[t].signal, thread[t].slot) ELSE UNCHANGED current
    /\ UNCHANGED <<lifecycle, handler, slots, count, lock, last, chosen, faults>>

-----------------------------------------------------------------------------

Init ==
    /\ vm = "off" /\ guard = FALSE /\ memory = FALSE /\ enabled = FALSE
    /\ handler = [i \in Signals |-> "host"] /\ current = [i \in Signals |-> Unset]
    /\ slots = [s \in Slots |-> Empty] /\ count = 0 /\ lock = Nobody
    /\ thread = [t \in Threads |-> Idle] /\ last = [i \in Signals |-> Unset] /\ chosen = {} /\ faults = 0

Next ==
    \/ StartMemory \/ StartActions \/ StartEnable \/ StopDisable \/ StopMemory
    \/ \E i \in Signals : StartHandler(i) \/ StopHandler(i)
    \/ \E t \in Threads :
         \/ Publish(t) \/ Install(t) \/ Select(t)
         \/ \E i \in Signals : \/ \E a \in Actions : Sigaction(t, i, a)
                               \/ \E f \in Faults : Dispatch(t, i, f)

Spec == Init /\ [][Next]_vars

-----------------------------------------------------------------------------
(* Properties.                                                             *)

\* Faults are served only while there is memory to serve them from and both
\* signals lead to it; a start that failed half way and a stop leave the host as
\* it was.
LifecycleIsWhole ==
    /\ enabled => guard /\ memory /\ \A i \in Signals : handler[i] = "dispatch"
    /\ vm = "off" => ~guard /\ ~memory /\ ~enabled /\ \A i \in Signals : handler[i] = "host"

\* The last action that was registered stays in force: no dispatch that chose an
\* older one takes it away, however late it comes to resetting it.  A one-shot
\* action may have been chosen and reset.
NewestActionStays ==
    (lock = Nobody /\ vm = "on") =>
        \A i \in Signals :
            \/ current[i] = last[i]
            \/ current[i] = Default /\ Action(last[i]).once /\ last[i] \in chosen

\* The action a dispatch chose is the one it reads: slots are complete before
\* they are published and never written again, even if registering failed.
ChosenActionsAreStable ==
    \A t \in Threads :
        thread[t].stage = "selected" =>
            /\ thread[t].slot \in Slots => Action(thread[t].slot) # Empty
            /\ Action(thread[t].slot) = thread[t].meant
=============================================================================
