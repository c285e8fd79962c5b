---------------------------- MODULE MCSoftwareVM ----------------------------
(* What the guest meets in the software VM: sequences of exclusive             *)
(* instructions of two threads on shared memory, placing and freeing memory,   *)
(* signal actions, and CPUs that interpret code with the guest's calls on      *)
(* memory.  The four share no variable in the code either; a state is about    *)
(* one subject, and the variables of the others are unused.                    *)
EXTENDS Integers

CONSTANTS
    Subjects,                                                                     \* what a run is about
    Threads,                                                                      \* guest threads
    FirstPage, LastPage, PageCells, Byte, Lengths, Granules, Protections,         \* ExclusiveSequence
    Counter, Other, StepBudget, MaxTraps,
    NativeCells, SoftCells, CodeStart, CodeSize, LargeSize, Threshold,            \* SoftwareMapping
    ForcedSize, MaxSize, MaxCalls,
    Signals, Names, ActionLimit, MaxFaults,                                       \* SignalActions
    Cpus, CacheSize, MaxBudget, LastGuestPage, LowPages, GuestPageCells, Words,   \* GuestCPU
    GuestProtections, Sizes, MaxGuestCalls

VARIABLES
    subject,
    perm, data, link, reply, seq, outcome, wrote, stores, traps,                  \* ExclusiveSequence
    native, soft, hidden, pending, poolSize, alias, call, given, started, calls,  \* SoftwareMapping
    vm, guard, memory, enabled, handler, current, slots, count, lock, thread,     \* SignalActions
    last, chosen, faults,
    guest, answer, asked, cpus, running                                           \* GuestCPU

sequenceVars == <<perm, data, link, reply, seq, outcome, wrote, stores, traps>>
mappingVars == <<native, soft, hidden, pending, poolSize, alias, call, given, started, calls>>
signalVars == <<vm, guard, memory, enabled, handler, current, slots, count, lock, thread, last, chosen, faults>>
codeVars == <<guest, answer, asked, cpus, running>>
vars == <<subject, sequenceVars, mappingVars, signalVars, codeVars>>

Sequence == INSTANCE ExclusiveSequence
Mapping == INSTANCE SoftwareMapping
Signal == INSTANCE SignalActions
Interpreter == INSTANCE GuestCPU WITH
    LastPage <- LastGuestPage, PageCells <- GuestPageCells, Protections <- GuestProtections,
    MaxCalls <- MaxGuestCalls, memory <- guest, reply <- answer, calls <- asked, cpu <- cpus, run <- running

\* Threads are numbers other than the marks of memory that is nobody's.
ASSUME ThreadAssumption == Threads \subseteq Nat \ {0}

\* The guest's memory has a counter and another cell.
ASSUME SequenceAssumption ==
    /\ {FirstPage, LastPage, PageCells} \subseteq Nat /\ Sequence!Modulus \in Nat \ {0}
    /\ {Counter, Other} \subseteq Sequence!Cells /\ Counter # Other

ASSUME MappingAssumption ==
    {NativeCells, SoftCells, CodeStart, CodeSize, LargeSize, Threshold, ForcedSize, MaxSize, MaxCalls} \subseteq Nat

\* No action of a guest is taken for an empty slot.
ASSUME SignalAssumption == ActionLimit \in Nat /\ "none" \notin Names

\* The guest's words, and what its pages may allow.
ASSUME CodeAssumption ==
    /\ LastGuestPage \in Nat /\ LowPages \in Nat /\ 2 * LowPages <= LastGuestPage /\ GuestPageCells \in Nat \ {0}
    /\ 0 \in Words /\ Sizes \subseteq Nat \ {0} /\ GuestProtections \subseteq SUBSET {"r", "w", "x"}
    /\ CacheSize \in Nat \ {0} /\ MaxBudget \in Nat

-----------------------------------------------------------------------------

Unused(x) == x = <<>>
NoSequence ==
    /\ Unused(perm) /\ Unused(data) /\ Unused(link) /\ Unused(reply) /\ Unused(seq)
    /\ Unused(outcome) /\ Unused(wrote) /\ Unused(stores) /\ Unused(traps)
NoMapping ==
    /\ Unused(native) /\ Unused(soft) /\ Unused(hidden) /\ Unused(pending) /\ Unused(poolSize)
    /\ Unused(alias) /\ Unused(call) /\ Unused(given) /\ Unused(started) /\ Unused(calls)
NoSignal ==
    /\ Unused(vm) /\ Unused(guard) /\ Unused(memory) /\ Unused(enabled) /\ Unused(handler) /\ Unused(current)
    /\ Unused(slots) /\ Unused(count) /\ Unused(lock) /\ Unused(thread) /\ Unused(last) /\ Unused(chosen) /\ Unused(faults)
NoCode == Unused(guest) /\ Unused(answer) /\ Unused(asked) /\ Unused(cpus) /\ Unused(running)

Init ==
    /\ subject \in Subjects
    /\ \/ subject = "sequence" /\ Sequence!Init /\ NoMapping /\ NoSignal /\ NoCode
       \/ subject = "mapping" /\ Mapping!Init /\ NoSequence /\ NoSignal /\ NoCode
       \/ subject = "signal" /\ Signal!Init /\ NoSequence /\ NoMapping /\ NoCode
       \/ subject = "code" /\ Interpreter!Init /\ NoSequence /\ NoMapping /\ NoSignal

InSequence == subject = "sequence" /\ UNCHANGED <<subject, mappingVars, signalVars, codeVars>>
InMapping == subject = "mapping" /\ UNCHANGED <<subject, sequenceVars, signalVars, codeVars>>
InSignal == subject = "signal" /\ UNCHANGED <<subject, sequenceVars, mappingVars, codeVars>>
InCode == subject = "code" /\ UNCHANGED <<subject, sequenceVars, mappingVars, signalVars>>

Next ==
    \/ InSequence /\ Sequence!Next
    \/ InMapping /\ Mapping!Next
    \/ InSignal /\ Signal!Next
    \/ InCode /\ Interpreter!Next

GoesOn(t) == (InSequence /\ Sequence!Step(t)) \/ (InMapping /\ Mapping!Runs(t))

\* The handler runs a sequence on the thread that trapped, and a thread in a call
\* goes on: both are scheduled by the system.
Spec ==
    /\ Init /\ [][Next]_vars
    /\ \A t \in Threads : WF_vars(GoesOn(t))

-----------------------------------------------------------------------------
(* Properties, of the subject a state is about.                            *)

\* gm_exclusive_sequence loses no update to another thread's, and one that cannot be
\* carried out leaves no trace before it is handed back to the trapping thread.
SequencesAreAtomic ==
    subject = "sequence" => Sequence!NoLostUpdate /\ Sequence!RejectedWithoutTrace

\* Memory given to one thread is never given to another, the reserved native pool
\* is neither lost nor handed out twice, and the alias of the code arena is used
\* only while it stands for what is mapped there.
PlacementsAreSound ==
    subject = "mapping" =>
        /\ Mapping!GivenMemoryIsKept /\ Mapping!PoolIsConserved
        /\ Mapping!AliasIsTrue /\ Mapping!PreferenceIsHonoured

\* Starting and stopping leave whole handlers or none, the newest action stays in
\* force against a late reset, and a dispatch reads the action it chose.
ActionsAreStable ==
    subject = "signal" =>
        Signal!LifecycleIsWhole /\ Signal!NewestActionStays /\ Signal!ChosenActionsAreStable

\* gc_run's cache of decoded instructions is never seen: code runs as it is in
\* memory, also after the memory, its protection or the thread's JIT mode changed,
\* and what cannot be executed stops in place.
CodeIsCurrent ==
    [][subject = "code" => /\ Interpreter!CacheIsCurrent'
                           /\ Interpreter!CodeRunsAsWritten
                           /\ Interpreter!StopsInPlace]_vars

\* The guest's calls do what they say on the memory a program sees: a write is whole,
\* memory that was asked for is where nothing was, and the array stays sorted.
CallsAreWhole ==
    /\ [](subject = "code" => Interpreter!PagesAreSorted)
    /\ [][subject = "code" => Interpreter!WritesAreWhole /\ Interpreter!MmapFindsTheLowestGap]_vars

\* Thread t is in a sequence or in a call.
Busy(t) == \/ subject = "sequence" /\ seq[t].active
           \/ subject = "mapping" /\ call[t].stage # "idle"

\* A sequence and a call both end, though each may have to start over because of
\* the other thread.
CallsEnd == \A t \in Threads : Busy(t) ~> ~Busy(t)
=============================================================================
