------------------------------ MODULE MCLaunch ------------------------------
(* What the runtime sets up for a guest: the arena and the entry of a debugged *)
(* launch, the pages and the container of a signed one, the budget of its      *)
(* reservations, and the tables its threads ask, of unwind information and of  *)
(* thread-local storage.  A state is about one subject, and the variables of   *)
(* the others are unused.                                                      *)
EXTENDS Integers

CONSTANTS
    Smallest, Largest, Needs, Attempts, MaxRegions,             \* DebuggerEntry
    Pages, Values,                                              \* SignedLaunch
    FileSpace, PageSize, HeaderSize, CommandSize, SegmentSize, SectionSize, Chunk, MaxLength, MaxPages,  \* SignedContainer
    Slots, Headers, CodeSpace,                                  \* UnwindRegistry
    Threads, TLSSpace, Entry, MaxImages, MaxSize, MaxBlocks,    \* GuestTLS
    Top, Budget, Floor, Threshold, MaxReservations, MaxClaims,  \* VMBudget
    MaxReserve, MaxMap, MaxCalls, MaxHost

VARIABLES
    subject,
    attached, regions, granted, aliases, reserved, arena, call,                  \* DebuggerEntry
    guest, container, pc, handle, text, active, shadow, shadowSize, last,        \* SignedLaunch
    asked, located,                                                              \* SignedContainer
    images, count, finder, add, registered, find,                                \* UnwindRegistry
    templates, key, blocks, made, wrote, answer,                                 \* GuestTLS
    budget, kernel, believed, guestCalls, holes                                  \* VMBudget

entryVars == <<attached, regions, granted, aliases, reserved, arena, call>>
signedVars == <<guest, container, pc, handle, text, active, shadow, shadowSize, last>>
containerVars == <<asked, located>>
unwindVars == <<images, count, finder, add, registered, find>>
tlsVars == <<templates, key, blocks, made, wrote, answer>>
budgetVars == <<budget, kernel, believed, guestCalls, holes>>
vars == <<subject, entryVars, signedVars, containerVars, unwindVars, tlsVars, budgetVars>>

Debugger == INSTANCE DebuggerEntry
Signed == INSTANCE SignedLaunch WITH arena <- text
Container == INSTANCE SignedContainer WITH Space <- FileSpace, Page <- PageSize, answer <- located
Unwind == INSTANCE UnwindRegistry WITH Space <- CodeSpace
TLS == INSTANCE GuestTLS WITH Space <- TLSSpace, images <- templates
Pool == INSTANCE VMBudget WITH MaxRegions <- MaxReservations, calls <- guestCalls

\* Sizes, counts and addresses are numbers; a descriptor has some length.
ASSUME EntryAssumption == {Smallest, Largest, Attempts, MaxRegions} \subseteq Nat /\ Needs \subseteq Nat
ASSUME SignedAssumption == Pages \in Nat
ASSUME ContainerAssumption ==
    /\ {FileSpace, HeaderSize, CommandSize, SegmentSize, MaxLength, MaxPages} \subseteq Nat
    /\ {PageSize, SectionSize, Chunk} \subseteq Nat \ {0} /\ HeaderSize <= PageSize
ASSUME UnwindAssumption == {Slots, CodeSpace} \subseteq Nat
ASSUME TLSAssumption ==
    {TLSSpace, MaxImages, MaxSize, MaxBlocks} \subseteq Nat /\ Entry \in Nat \ {0}
ASSUME BudgetAssumption ==
    /\ {Top, Budget, MaxReservations, MaxClaims, MaxReserve, MaxMap, MaxCalls, MaxHost} \subseteq Nat
    /\ Floor \in Nat \ {0} /\ Threshold \in Nat \ {0}

-----------------------------------------------------------------------------

Unused(x) == x = "unused"
NoEntry ==
    /\ Unused(attached) /\ Unused(regions) /\ Unused(granted) /\ Unused(aliases) /\ Unused(reserved)
    /\ Unused(arena) /\ Unused(call)
NoSigned ==
    /\ Unused(guest) /\ Unused(container) /\ Unused(pc) /\ Unused(handle) /\ Unused(text)
    /\ Unused(active) /\ Unused(shadow) /\ Unused(shadowSize) /\ Unused(last)
NoContainer == Unused(asked) /\ Unused(located)
NoUnwind ==
    /\ Unused(images) /\ Unused(count) /\ Unused(finder) /\ Unused(add) /\ Unused(registered) /\ Unused(find)
NoTLS ==
    /\ Unused(templates) /\ Unused(key) /\ Unused(blocks) /\ Unused(made) /\ Unused(wrote) /\ Unused(answer)

NoBudget ==
    /\ Unused(budget) /\ Unused(kernel) /\ Unused(believed) /\ Unused(guestCalls) /\ Unused(holes)

Init ==
    \/ subject = "entry" /\ Debugger!Init /\ NoSigned /\ NoContainer /\ NoUnwind /\ NoTLS /\ NoBudget
    \/ subject = "signed" /\ Signed!Init /\ NoEntry /\ NoContainer /\ NoUnwind /\ NoTLS /\ NoBudget
    \/ subject = "container" /\ Container!Init /\ NoEntry /\ NoSigned /\ NoUnwind /\ NoTLS /\ NoBudget
    \/ subject = "unwind" /\ Unwind!Init /\ NoEntry /\ NoSigned /\ NoContainer /\ NoTLS /\ NoBudget
    \/ subject = "tls" /\ TLS!Init /\ NoEntry /\ NoSigned /\ NoContainer /\ NoUnwind /\ NoBudget
    \/ subject = "budget" /\ Pool!Init /\ NoEntry /\ NoSigned /\ NoContainer /\ NoUnwind /\ NoTLS

Next ==
    /\ UNCHANGED subject
    /\ \/ subject = "entry" /\ Debugger!Next /\ UNCHANGED <<signedVars, containerVars, unwindVars, tlsVars, budgetVars>>
       \/ subject = "signed" /\ Signed!Next /\ UNCHANGED <<entryVars, containerVars, unwindVars, tlsVars, budgetVars>>
       \/ subject = "container" /\ Container!Next /\ UNCHANGED <<entryVars, signedVars, unwindVars, tlsVars, budgetVars>>
       \/ subject = "unwind" /\ Unwind!Next /\ UNCHANGED <<entryVars, signedVars, containerVars, tlsVars, budgetVars>>
       \/ subject = "tls" /\ TLS!Next /\ UNCHANGED <<entryVars, signedVars, containerVars, unwindVars, budgetVars>>
       \/ subject = "budget" /\ Pool!Next /\ UNCHANGED <<entryVars, signedVars, containerVars, unwindVars, tlsVars>>

Spec == Init /\ [][Next]_vars

-----------------------------------------------------------------------------
(* Properties, of the subject a state is about.                            *)

\* An external launch enters the guest only once the debugger is gone, in
\* executable memory that holds the image, and no call that failed or was
\* repeated on the way leaks a region or its alias.
EntryIsPrepared ==
    subject = "entry" => Debugger!EntryIsPrepared /\ Debugger!RegionsAreHeldOrGivenBack

\* The guest unpacks itself from the file's bytes and goes on with the container's,
\* and no byte of it differs: signed pages hold what was signed, copies are
\* copies, the restored pages are the unpacked ones, a refused launch keeps
\* nothing.  The container is found only inside its signed file.
SignedLaunchIsGenuine ==
    /\ [](subject = "signed" => /\ Signed!UnpackerStartsFromTheFile /\ Signed!SignedPagesAreGenuine
                                /\ Signed!CopiesAreCopies /\ Signed!RefusedLeavesNothing)
    /\ Signed!RestoreChangesNothing
    /\ [](subject = "container" => /\ Container!ReadsStayInside /\ Container!LocatedIsSigned
                                   /\ Container!PagesAreFound /\ Container!MismatchesAreExact)

\* A thread that unwinds while another registers an image gets whole, registered
\* information, and finds what was registered before; a thread's variables are
\* its own, from its first access to its end.
TablesAreWhole ==
    /\ subject = "unwind" => /\ Unwind!PublishedSlotsAreWhole /\ Unwind!FoundIsRegistered
                             /\ Unwind!RegisteredIsFound
    /\ subject = "tls" => TLS!ThreadsKeepTheirValues /\ TLS!BlocksAreOwned /\ TLS!ServedExactly

\* What the budget counts, what the regions say and what the kernel has mapped for
\* the guest are the same, after any trims, holes and claims; and no call touches
\* other code's pages in the missing part of a region that lives.
ReservationsAreExact ==
    /\ [](subject = "budget" => Pool!BudgetIsExact)
    /\ [][subject = "budget" => Pool!MissingIsSpared]_vars

\* GuestVMBudget.h: the missing part is never unmapped or protected for the guest,
\* other code's mappings may come to live there.  A call of the guest leaves every
\* page of other code alone: violated, once the region's own part is gone.
OtherCodeIsLeftAlone == [][subject = "budget" => Pool!SparesOtherCode]_vars
=============================================================================
