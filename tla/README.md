# Tolkara in TLA+

Tolkara runs unmodified arm64 macOS applications on an iPad. This directory holds
TLA+ modules for the parts of it whose correctness depends on the order of events, or on
algorithms at the edges of their limits, the TLC configurations that check them, and TLAPS
proofs of the results that should hold for every size of the system.

Every definition is translated from the source; `PROJECT.json` ("map") names, for each
definition, the lines it stands for. Definitions marked `external` model what the
repository only uses: the system's provider messages, debugserver, the network.
Definitions introduced by "Wrong form" are plausible bugs; they are not part of any
specification and exist so that each property can be shown to notice one.

## The system

| Component | State | Operations | Talks to |
|---|---|---|---|
| Guest runtime (`runtime/NativeGuest.m`, `DebuggerArena.c`, `NativeCodeMemory.c`) | code arena with an executable and a writable view, quarantine, launch state | reserve, prepare, adopt, write, enter | arena publisher; kernel |
| Arena publisher and poller (`authorization/App`) | one request, generation, deadline, outcome | prepare, submit once, poll, give up | provider messages (system IPC) |
| Arena preparation service (`authorization/Debugger/ArenaPreparationService.swift`) | accepted request, its reply, used, closed | submit, poll, prepare, invalidate | debugger client |
| Debugger session and client (`DebugArenaSession.swift`, `DebugArenaClient.swift`) | phase, outstanding commands, batches, deadlines | begin, receive, tick, cancel, disconnected | debugserver over a tunnel stream |
| Tunnel TCP, streams, manager (`authorization/Transport`) | connection state, buffers, sequence numbers | open, write, read, packet in, tick, close | CDTunnel |
| CDTunnel, discovery, developer session, pairing | handshakes, queues, timers | connect, pair, discover, close | the device's own services |
| Packet provider, TCP proxy (`authorization/Tunnel`) | generation, connections | start, stop, packets in | the system's packet tunnel |
| Sparse guest memory (`runtime/GuestSparseMemory.c`) | region list, page table, backing store, generations | map, unmap, protect, read, write, exclusive | software VM |
| VM budget (`runtime/GuestVMBudget.c`) | reservations with what is missing of them, claims, the sum reserved | reserve, map, unmap, protect | kernel |
| Guest memory and interpreter (`GuestMemory.c`, `DarwinMemory.c`, `GuestCPU.c`) | sorted pages, generations; per CPU registers and decoded instructions | map, protect, read, write; run | each other |
| Software VM (`GuestSoftwareVM.c`, `GuestExclusive.c`, `GuestMemoryInstruction.c`) | software range, native pool, code alias, signal actions | fault, map, unmap, string and buffer calls, sigaction | sparse memory; kernel |
| Image loading, linking, fixups (`GuestImage.c`, `GuestLink.c`, `GuestFixups.c`) | a mapped image, the set of libraries | load, export, find libraries, bind, fix up | guest memory |
| Signed launch (`SignedImage.c`, `NativeGuest.m`) | container, arena, which pages are anonymous | prepare, stage, write, verify, restore | kernel |
| Thread-local and unwind tables (`GuestTLS.c`, `GuestUnwind.c`) | slots per image, blocks per thread | register, find | the guest's threads, the system's unwinder |
| Launcher (`launcher/App`) | app library on disk, execution mode | import, remove, launch | runtime, authorization |
| Translation layer (`translation`) | adapters between macOS and iPadOS interfaces | | the system |

What is hard in it: the app, the provider and debugserver are three processes, the
first of which the last one stops; provider messages get lost; the tunnel and the app
are restarted independently; every protocol has deadlines that race late answers; the
guest's threads share a software page table, a placement policy and signal actions, part
of them read in signal context without a lock; caches of code must not outlive the code;
and files from elsewhere are parsed with sums that can wrap and graphs that can loop.

## Modules

| Module | Models | Extends or uses |
|---|---|---|
| `ArenaTransaction` | what one arena preparation promises | |
| `ArenaSession` | `DebugArenaSession` and `DebugArenaClient`, with debugserver and the target (external) | refines `ArenaTransaction` |
| `MCArenaSession` | instances for TLC | `ArenaSession` |
| `ArenaSessionProofs` | TLAPS proofs | `ArenaSession`, `DataLemmas` |
| `ArenaHandoff` | app, provider messages, preparation service, tunnel restarts, debugger | the promise of `ArenaTransaction`, one per service |
| `ArenaHandoffProofs` | TLAPS proofs | `ArenaHandoff` |
| `AddressSpace` | what the sparse memory's header promises | |
| `SparseMemory` | `GuestSparseMemory.c` | refines `AddressSpace` |
| `MCSparseMemory` | instances for TLC | `SparseMemory` |
| `SparseMemoryProofs` | TLAPS proofs | `SparseMemory`, `DataLemmas` |
| `TunnelTCP` | `TunnelTCP.swift`, with its peer and the network (external) | |
| `TunnelTCPProofs` | TLAPS proofs | `TunnelTCP` |
| `TunnelLink` | `CDTunnelConnection.swift`, with the system's `NWConnection` (external) | |
| `MCTunnelLink` | instances for TLC | `TunnelLink` |
| `TunnelLinkProofs` | TLAPS proofs | `TunnelLink`, `DataLemmas` |
| `VMBudget` | `GuestVMBudget.c`, with the kernel (external) | |
| `GuestMemory` | `GuestMemory.c` and `DarwinMemory.c` | |
| `GuestCPU` | `gc_run` of `GuestCPU.c` and its cache | extends `GuestMemory` |
| `CPUArithmetic` | register instructions and decoding of `GuestCPU.c` | |
| `MemoryInstruction` | `GuestMemoryInstruction.c` | |
| `SoftwareBuffers` | string, buffer and file calls of `GuestSoftwareVM.c` | |
| `MCInstructions` | the three above on small operands | `MemoryInstruction`, `CPUArithmetic`, `SoftwareBuffers` |
| `ExclusiveSequence` | `GuestExclusive.c` | extends `AddressSpace` |
| `SoftwareMapping` | mappings, pool and code alias of `GuestSoftwareVM.c` | |
| `SignalActions` | start, stop, faults and signal actions of `GuestSoftwareVM.c` | |
| `MCSoftwareVM` | the three above and `GuestCPU` side by side; `SoftwareVM.cfg` and `GuestCPU.cfg` give their sizes | all four |
| `SoftwareVMProofs` | TLAPS proofs | `MCSoftwareVM` |
| `ImageLoad`, `ExportTrie` | `GuestImage.c` | |
| `LinkSet`, `LinkLookup` | `GuestLink.c` | |
| `Fixups`, `ChainedFixups` | `GuestFixups.c` | |
| `MCImage` | the six above on small files and graphs | all six |
| `DebuggerEntry` | `DebuggerArena.c`, `nc_adopt`, and their use by `NativeGuest.m` | |
| `SignedLaunch`, `SignedContainer` | `SignedImage.c` and the signed route of `NativeGuest.m` | |
| `UnwindRegistry` | `GuestUnwind.c` | |
| `GuestTLS` | `GuestTLS.c` | |
| `MCLaunch` | the five above and `VMBudget` side by side; `Launch.cfg` and `MissingPart.cfg` give their sizes | all six |
| `LaunchProofs` | TLAPS proofs | `MCLaunch`, `DataLemmas` |
| `DataLemmas` | lemmas about sums over finite sets and about streams of packets | |

`MCInstructions`, `MCSoftwareVM`, `MCImage` and `MCLaunch` put parts that share no state
side by side: a state has one `subject`, chosen initially, and only that part's actions are
enabled and only that part's properties speak of it. The state graph is the sum of theirs,
not the product, and one run asks all questions about one area of the code.

## What makes each part correct

| Component | Properties |
|---|---|
| Arena debugger session | one attach at most; every arena passes the whole preflight before the first page is written; each reply is taken for the answer to its own command, while draining too; `prepared` and `failedDetached` are reported only when the debugger is gone; a report always comes; a stopped app always runs again |
| Arena handoff | the app frees or writes its arena only when no debugger is or will be in it; one submission, one owner, one attach, through lost messages, relaunches and tunnel restarts; the app's call returns and an accepted request is settled |
| Sparse guest memory | an access behaves as on a flat memory of mapped pages; failed calls change nothing; the region list stays canonical; backing pages are neither lost nor shared; a store-exclusive that succeeds found its cells untouched |
| CDTunnel connection | the room reserved is that of the packets on their way; a completion runs once though stop and the connection both report it; a timer runs exactly while something is awaited, and a stale one does nothing; every send is answered |
| Tunnel TCP | the bytes read are a prefix of the bytes written, exactly once and in order, through loss, duplication and reordering; buffers stay within their capacities; the states follow TCP's |
| Tunnel streams and manager | a port is not reused while the old connection may still send; one write in flight; overflow stops the tunnel rather than dropping a packet |
| Developer session, pairing, discovery | one completion per request; a timer of an earlier phase changes nothing; a closed session stays closed |
| VM budget | what is counted is what is mapped, whatever trims, holes and full tables come between; two reservations never overlap; no call of the guest reaches other code in the missing part of a region that lives (once the region's own part is gone it may: see the finding) |
| Guest memory, interpreter | a write is whole; a mapping that is not fixed gets the lowest gap that holds it, above the low guard; code runs as it is in memory now; an instruction that cannot be carried out leaves no trace; flags, shifts and immediates are exact |
| Software VM | no update of an exclusive sequence is lost, and one that is given up left no trace; memory is given to one thread; the alias is used only while it is true; a late reset never undoes a newer signal action; string calls give the C library's results |
| Debugger arena, guest entry | the guest is entered only in an arena that executes and that no debugger watches; what is refused is given back |
| Signed launch | the unpacker starts from the file's bytes; signed pages are never anything else; the restore changes no byte; a refused launch keeps nothing |
| Image loading, linking, fixups | a load is whole or leaves nothing; names, libraries and definitions are the ones dyld's rules choose, through cycles; each pointer is fixed once, inside the image |
| Thread-local and unwind tables | an entry is seen whole or not at all; a thread's storage is its own |
| App library | an interrupted import or removal leaves the old or the new library |

## Modules in detail

### `ArenaTransaction`, `ArenaSession`

`ArenaTransaction` is the promise of one preparation towards the app: a debugger
attaches at most once, touches pages only while attached, leaves once; `prepared`
needs every page touched and the debugger gone, `failedDetached` needs it gone,
`uncertain` promises nothing.

`ArenaSession` is `DebugArenaSession` driven by `DebugArenaClient`. `session` is the
class's own state (phase, outstanding commands, acknowledgement mode, batch cursors,
counters, pending failure, verdict). A call of `receive` is broken into steps, one per
packet, with `call` holding its local state (unparsed packets, how many replies it may
still take, commands collected): another call cannot run in between, since the client
works on one queue, but each reply can take its own path. `Begin`, `Receive...`,
`Reply...`, `TimedOut`, `Cancel`, `Disconnected`, `OpenFails`, `WriteFails` are the
client's entry points and the cases of `reply`. debugserver and the target process
(`Server...`, `target`, `debugger`, `touched`) are external: the server answers truly
about its target or with an error, damages or repeats a packet, sends console output,
and notices a lost connection at any time. Data is abstracted to what the checks tell
apart: a read returns zeros or not, a region is acceptable or not, a process or a
challenge matches or not.

### `ArenaHandoff`

Three processes. The app: `nc_create_managed` (`arena`), `TKLocalArenaPublisher`
(`publisher`), `TKLocalArenaPoller` (`poller`), with deadlines in `expired`. The wire:
sets of requests and answers, each of which may be lost and is delivered in any order;
an answer to a process that is gone goes nowhere. The provider: one
`ArenaPreparationService` per tunnel start (`service`), and per service one
transaction (`tx`) with just what `ArenaTransaction` promises: after `uncertain` the
debugger may still attach, prepare and leave. `Relaunch`, `StopTunnel` and
`StartTunnel` happen at any time. While a debugger is attached the app takes no step.

### `AddressSpace`, `SparseMemory`

`AddressSpace` is a flat memory: protections per page, bytes per cell, and for each
thread the cells of its load-exclusive (which may be lost spuriously, and must be lost
when a cell is written or remapped). Calls may fail for lack of memory, changing
nothing. `SparseMemory` is the C code: the sorted, merged region list that `change`
rebuilds, the open-addressed page table with deleted entries, the backing pages and the
stack of freed ones, page generations and the mapping generation. Each call holds the
spin lock from its first look at the state to its return, so each is one step. The
refinement mapping reads a page's protection from the region list and a cell from the
page table; a thread's link stands while `store_exclusive` would accept its monitor.

### `TunnelTCP`

`tcp` holds the class's variables: state, sequence numbers (modulo `Modulus`), the segment in
flight with its retries, both buffers, the peer's window, and the closing deadline. Every
public call (`Connect`, `Write`, `Read`, `ShutdownWrite`, `Abort`), every case of `receive` and
every case of `tick` is an action, each ending with the `flush` the code ends with. A byte is
its position in its stream, so a byte that is lost, repeated or misplaced shows.

The peer and the network are external. What this side sends stays on the wire, and the peer
may take any of it, in any order, any number of times or never: that is loss, duplication
and reordering at once. (Pure acknowledgements are left out: what the peer may send never
depends on them.) The other way the network needs no state: at any time any segment
may arrive that a correct peer can have sent, with any acknowledgement it has ever been able
to give, any window of `PeerWindows` and any stretch of the bytes it has sent.

### `TunnelLink`

`send` runs on its caller's thread in two steps, `Admit` (under the lock) and `Dispatch` (onto
the queue), so that other sends, `start` and `cancel` fall in between. The blocks on the queue
run in order; the connection's callbacks and the timer handlers run between them in any order.
A timer's generation is abstracted to what it decides: a handler that is due is `current` or
`stale`. `writes` are the writes the link waits for, `sending` the callbacks that will still
come, and after a stop they differ. The sizes of packets stay, their contents do not: a
packet may or may not pass the configuration's check.

### `VMBudget`

`budget` is the code's table (regions, claims, the sum reserved), `kernel` what is mapped on
each page and for whom, `believed` the pages the guest takes for its own. A reservation past
the threshold is granted smaller when the budget is spent; the rest is the region's missing
part. Unmapping a hole splits a region if the table has room and otherwise leaves it
counted. The kernel places a mapping on any free pages, refuses at will, and lets other code
map any free page. `holes` is history: pages that were unmapped while a full table keeps them
counted. The table of claims keeps no order, since the code moves its last entry about; a call
that unmaps walks its range by `Borders` and does to each piece what the code does
(`UnmappedPieces`), the kinds of the later pieces being what they were when the call began.

Two properties speak of other code. `MissingIsSpared`, a part of `ReservationsAreExact`, says that
no call changes a page of other code in the missing part of a region that lives; it holds, and is
proved. `OtherCodeIsLeftAlone` says what the header promises without that condition, that the
guest never changes a page of other code; the code breaks it (see "Finding" below).

### `GuestMemory`, `GuestCPU`, `CPUArithmetic`

`memory` is the array of pages with its two generations and the last fault. Calls do not
overlap, as the header asks. A mapping that is not fixed starts its search at a hint, or at
the default one above the low guard. `GuestCPU` adds CPUs (`cpu`), each with its cache of decoded
instructions, and the run under way (`run`), one step per instruction. Registers may hold
anything, so where a branch goes and what a store writes is any choice, its own code
included. What register instructions compute is in `CPUArithmetic`, at widths of four and
two bits; logical immediates keep their real widths.

### `MemoryInstruction`, `SoftwareBuffers`

Questions and answers: a state holds an instruction or a call with its operands, its
successor the result. `MemoryInstruction` covers scalar loads and stores with write-back,
pairs, sign extension, atomics and the layouts of structure accesses, a byte having one bit
and structures their real sizes. `SoftwareBuffers` covers the string, memory and stream
calls on memory that is partly software, in pages of which some are not mapped, and partly
native, ending right before memory that cannot be read.

### `ExclusiveSequence`, `SoftwareMapping`, `SignalActions`

In `ExclusiveSequence` each access of an emulated sequence is a step, and the memory is
`AddressSpace`, the abstract specification that `SparseMemory` is proved to implement.
Both threads increment a counter, so a lost update shows in its value.
`SoftwareMapping` breaks a call where the code releases the sparse memory's lock: the gap
found by one thread may be taken by another before it is mapped. The code alias, a readable
view of executable memory, is dropped by calls that touch what it stands for.
`SignalActions` has the lock of registration and the lock-free dispatch: choosing an action,
reading its slot, resetting it if it is for one use.

### `ImageLoad`, `ExportTrie`, `LinkSet`, `LinkLookup`, `Fixups`, `ChainedFixups`

A file is its slices and load commands, with offsets in units and widths small enough to
wrap. Loading is taken in steps, in the code's order: `Begin`, each load command (`ReadCommand`,
`ReadName`, `ReadTrie`, `MapSegment`), `FindEntry`, `ReadInitializers`, and at the end `Publish`, or
`Discard` from wherever it failed. `staged` is the image under construction and `blocks` are the
allocations that exist, so what a late failure leaves behind shows: blocks that neither the image nor
the staged one reaches. A trie is a graph of nodes, with
cycles and edges that lead outside. `LinkSet` is the breadth-first search for libraries
along run paths; `LinkLookup` answers binds in a fixed set of images and orders the
initializers. `Fixups` interprets the rebase and bind opcodes (an ordinal given
by LEB128 is checked at its opcode, an immediate or special one only when it is bound with),
`ChainedFixups` the chains;
each is checked against what the streams mean: pointers inside the segments, lazy records
on their own, later streams over earlier ones. Chains that share cells are left out, as no
linker writes them.

A lookup asks each library once. When a re-export changes the name on the way, a library
asked under the old name is not asked again under the new one, so a flat lookup may find
nothing although a definition can be reached; `DefinitionsAreFound` therefore speaks of
links without renaming.

### `DebuggerEntry`, `SignedLaunch`, `SignedContainer`

`DebuggerEntry`: a debugger outside the app provides executable regions on request, by
traps that end the process when nobody serves them. It may answer with nonsense, go at any
moment, and take the executability of a region with it. It attaches before a launch begins,
not during one. Retries with smaller sizes, adoption with an alias, the choice between a
reserved arena and a new one, and the checks of `da_entry_allowed` are the actions.

`SignedLaunch`: the guest's `__TEXT`, page by page, in the file, in the signed container and
in memory. `Open`, `Check`, `Map`, `Remap` and `Fail` are `signed_image_prepare`, then the
initializer runs and its stores and calls (`Store`, `Copy`, `MapOver`) go through the hooks,
then `Verify` and `Restore`. The thread that runs the initializer is the only one.
`SignedContainer` has the parts that only read: finding the image in a loaded container,
a page in the guest, and comparing.

### `UnwindRegistry`, `GuestTLS`

`UnwindRegistry` interleaves one registration, slot by slot and segment by segment, with a
lookup that loads the count first. The count is stored with release and loaded with
acquire, so interleaving is all that can happen. `GuestTLS` has descriptors at wrapping
addresses, templates, and a block per thread and image that the thread's end frees; an
allocation or `pthread_setspecific` may fail.

## Runs

| Run | Instance | Shows |
|---|---|---|
| `arena_session` | two arenas of two pages and of one; reads of one or three units, two reads and two pages per batch; a target with no fault or one, at any unit | preflight before writes, pairing of replies, refinement of `ArenaTransaction`; if deadlines pass, it reports and the app resumes; if the server answers, a verdict comes without any deadline |
| `arena_handoff` | two app processes, two services, two messages per process | the three safety properties that the proofs establish for every size; the call returns, an accepted request is settled |
| `sparse_regions` | three pages, two protections, room for two regions, three changes | region list and discarding, refinement of `AddressSpace` |
| `sparse_access` | two pages of one cell whose probes collide and wrap, two backing pages, two protections, a thread with a monitor, one write, two changes | page table and backing, reads after recycling, exclusives against writes, protection and remapping, refinement of `AddressSpace` |
| `tunnel_tcp` | sequence numbers modulo 32 that wrap within the first bytes; segments of two bytes, buffers of two, three bytes each way, windows of none and two, one retry | order and completeness of both streams, what is in flight and what a segment carries, what a close means; connecting and closing end, written bytes leave |
| `tunnel_link` | two small packets and a large one; room for three bytes or two packets; start called twice | room, single completion, timers; every send is answered |
| `guest_cpu` | two pages, two CPUs with a cache of one entry, runs of two instructions, four calls | code is current |
| `image` | two segments and a page zero, tries of three nodes, three to four images, streams of up to three opcodes, a segment of two pages of chains | loads that fail at each step and what they leave, exports, links, fixups |
| `instructions` | registers of eight bits at one bit per byte, arithmetic at four and two bits, six cells of buffer | instructions and buffer calls |
| `software_vm` | two threads; a page of two cells; three native and three software cells; three slots for actions, three faults; five pages of guest memory, the lowest one its guard, the default hint at the third, three calls | exclusive sequences, placements, signal actions, whole writes and the place of mappings; every sequence and call ends |
| `launch` | images of one and three units, regions of two to five, three of them at most; four pages of `__TEXT`; two unwind slots; two threads with thread-local storage; a budget of two of six pages, two reservations, one claim, five calls, one page of other code | guest entry, signed launch, container, tables; exact accounting of reservations, other code in missing parts |
| `vm_budget_missing` | as `launch` | expects a violation: the finding |

Finding (`vm_budget_missing`). `GuestVMBudget.h:17-20` promises that the missing part of a region
"is never unmapped, protected or advised" for the application, since other code's mappings may
come to live there. `sweep` (`GuestVMBudget.c:111-117`) drops a region with the last page of its
own. The trace: three pages are reserved, one is granted and one is the guard; the guest unmaps these
two, and the region is gone; other code maps the third page; the guest unmaps the third page, which
lies in no region now and counts as its own. The test of trims (`test_vm_budget.c:167-173`) gives the
missing part back in the same call, where this cannot happen.

Why the bounds are enough. Sessions: a read of three units over pages of two crosses a
page and ends short at an arena's end, two arenas make a fault in the second one visible
after the first passed, and two reads per batch leave a batch with replies outstanding
when its first fails. Handoff: two processes and two services give every stale
combination (old process and new service, new process and old service), two messages a
submission and a query that overtake each other; the proofs remove the bounds. Sparse
memory: unmapping or protecting the middle of three pages needs three regions where two
fit; two pages with equal hashes put one behind the other's deleted entry; a replaced
page's backing is handed out again within two changes. One thread has a monitor; the
writes and atomics between its load and its store are anybody's, as these calls know no
thread, and `ExclusiveSequence` has two threads over `AddressSpace`. `MaxWrites` and `MaxChanges`
bound the 64-bit generations, which do not wrap in practice.
Tunnel TCP: two bytes to a segment make a partial acknowledgement possible, three bytes
against a buffer of two an overflow of the window and a FIN that does not fit, a window of
none a probe; both initial sequence numbers lie just below the
modulus. Tunnel link: one and two bytes against room for three exhaust each of the two limits
with the other one free, and two writes leave one under way when the other is completed.
VM budget: two reservations of up to four pages exceed a budget of two, and with two entries
the table is full when a hole would split one. Guest memory:
with five pages, the lowest one the guard, a mapping in the middle leaves gaps below and above the
hint that hold the next mapping or are too small for it, and a write of two cells crosses
into a page that fails. Interpreter: two pages and four calls are enough to map, write, run and
change the code under a filled cache; what the cache would answer is checked in every state, so no
further run is needed to see it. Software VM: two threads and three cells make both want the same gap, and
three slots let a newer action replace a chosen one and a third find the table full.
Images: names, cycles, run paths and chains are as long as it takes to reach each limit of
the code, which are constants here (`Limit`, `Extra`, `CountLimit`, `MaxSegments`).
Launch: a region can be too small, fitting and refused in one launch; four pages hold a
rewritten range with an identical page inside it and pages behind it.

Deadlock is checked except where the modelled thing really comes to an end: the bounded
processes and services of `ArenaHandoff`, a connection of `TunnelTCP`, a stopped `TunnelLink`,
questions that were answered (`image`, `instructions`), a process that has ended, a guest
that was entered or the bounded calls on a budget (`launch`), and the bounded calls of
`guest_cpu` and `software_vm`.

Fairness. `DeadlinesPass` (a premise of `Concludes` and `AppResumes`) assumes that the
client's queue runs its timer and its receive loop, and that a server whose connection was
closed notices; nothing of the network or of an answering server. `ServerResponds` assumes the
opposite: an answering server and no deadline. `FairSpec` of `ArenaHandoff` assumes that time
passes, that the publisher's wait times out and its caller goes on, that the service's queue
and timer run, and that a debugger leaves (which `AppResumes` shows of the session).
`TickingSpec` of `TunnelTCP` assumes that the owner calls `tick` (the manager's timer does) and
nothing of peer or network, except that a peer does not repeat its FIN for ever. `FairSpec` of
`TunnelLink` assumes that threads and the queue run and that time passes; the connection owes
no callback at all. `MCSoftwareVM` assumes that a thread in a sequence or in a call is
scheduled; whether it has to start over depends on the other thread's bounded calls.

Every property has a mutant, a plausible bug in a mapped definition under which TLC
reports the property violated ("mutants" in `PROJECT.json`); a property that joins several
parts has one for more than one of them where the parts are modules of their own.

## Proofs

TLAPS checks every theorem for all values of the constants that the named assumptions
allow. "For every size" below means that.

| Theorem | Says |
|---|---|
| `HandoffTypes`, `HandoffIsJustified` | types and inductive invariant of `ArenaHandoff` |
| `DebuggerNeverSurprises`, `WritingIsPrepared`, `OneAttach` | its three safety properties |
| `ProgressIsVouched` | inductive invariant of `ArenaSession` |
| `WritesAreJustified`, `RepliesAreTheirCommands` | its two safety properties |
| `SessionIsTransaction` | it implements `ArenaTransaction` |
| `ConnectionIsSound` | inductive invariant of `TunnelTCP` |
| `StreamsAreInOrder`, `SentStaysTrue`, `EndsStayTrue` | its three safety properties |
| `RegionsStayCanonical`, `TheTableStaysSound` | the two safety properties of `SparseMemory` |
| `SparseMemoryIsAddressSpace` | it implements `AddressSpace` |
| `LinkIsSound` | inductive invariant of `TunnelLink` |
| `ReportsAreSingle`, `TimeoutsAreTrue`, `AdmissionIsConserved` | `ReportedOnce`, the action property `TimersAreTrue`, `AdmissionIsExact` |
| `SignalsAreStable`, `ExclusivesAreAtomic`, `PlacingIsSound`, `CodeStaysCurrent`, `CallsStayWhole` | the five safety properties of `MCSoftwareVM`, the last two action properties |
| `EntriesArePrepared`, `TablesAreSound`, `SignedLaunchesAreGenuine` | the properties of launches and tables in `MCLaunch` |
| `BudgetStaysExact` | `ReservationsAreExact`, its invariant of the budget and the action property on missing parts |

None of the safety properties is inductive; what each needs is the argument for it.

### `ArenaHandoffProofs`

Assumes of the bounds only that they are numbers (`BoundsAssumption`). That the app may free
its arena depends on no submission of its being on its way to a service that would act on it
later, so the invariant follows a submission: `SubmittedOnce` (it is not sent yet, on its way,
or owned by one service), `RepliesAreTrue` (what a service has answered or will answer agrees
with its debugger) and `AppIsJustified` (an answer under way, the publisher's outcome and the
arena's state are backed by `Safe` and `PreparedFor` of this process). `HasSent` keeps a
process that has not started from being the subject of an old message. One lemma per kind of
step, and `SafeFrame`, which says which changes cannot make a safe process unsafe.

### `ArenaSessionProofs`

For arenas of any number and size (`SizesAssumption`: regions of whole pages), any chunks,
batch sizes and limits (`LimitsAssumption`) and any targets (`TargetsAssumption`).

The session trusts that the next reply answers its next command. What makes this true is
spread over both directions of the connection, so the invariant treats them as one stream:
for each command that is awaited there is exactly one token, which is the command or a
`-` on its way to the server, or a reply, a refusal or a damaged reply on its way back
(`Going`, `Coming`). `TokensMatch` lines the tokens up with the end of the last batch and says
what a reply vouches for (`Vouched`): a "zeros" that those bytes of the target are zero, an
"OK" to `M` that the page was written, and so on. `ProgressIsEarned` is what the session may
believe in each phase: region by region in `region`, up to the read cursor in `preflight`, up
to the page cursor in `prepare`; a draining batch is one of reads and writes.
`WritesAreHarmless` says that an `M` exists anywhere only when the target is clean,
`AttachesOnce` that an attach is never repeated, `VerdictIsTrue` what a verdict says of the
debugger. A broken stream or a passed deadline ends the matching (`Live`), and that is why
both end in a verdict that promises nothing.

The arithmetic of the loops is in lemmas of its own: `ReadsCover` (the reads of a batch cover
from the cursor to their end without a gap, though the last is short), `BatchWritesBack` (each
page is written and read back), and the lemmas on `Before`, the pages that lie before a
cursor. The refinement goes action by action: only the server's `vAttach`, `M`, `D` and its
loss of the connection and the client's `finish` change what `ArenaTransaction` sees.

### `SparseMemoryProofs`

For any space, page size, capacity, hash, table of at least twice the capacity, region limit,
protections and spans (`SpaceAssumption`, `GranuleAssumption`). Every call is one of four
things to the space (`StepIs`): it leaves it alone, carries out a change of the regions, backs the
pages of a span, or writes one.

* Regions (`RegionInv`): the list `change` rebuilds is canonical after each region of the old one
  and ends where the next may begin (`RebuildStep`), because the parts it cuts a region into are
  regions or empty (`PartsAre`) and `append` merges (`AppendedIsCanonical`). `RebuiltIs` says the
  same of the whole loop, and what the new list maps each page to.
* Table: `FoundAt` is a page whose probe passes only other pages and deleted entries. `page_slot`
  returns exactly such a slot (`PageSlotFinds`), or with insertion one whose occupation hides
  nobody (`PageSlotInserts`, `PutIsPlaced`, `DeleteIsPlaced`). An entry that was free exists
  because fewer pages are resident than there are slots (`VacantSlot`).
* Backing (`Conserved`): `Shared` gives each backing page below `next` one owner, a resident page or
  the stack. With an empty stack `next` is the number of resident pages (`NoneFree`), so the
  preflight of a write, which counts the missing pages (`Roomy`), keeps it inside the store.
* What holds backing is mapped: a write passed `check_access`, and `CheckAccessIs` says that its walk
  finds the first page of the span that is not accessible, or that there is none.

The refinement (`SparseMemoryIsAddressSpace`) goes call by call, from a small addition to that
invariant. `MonitorInv` says that a valid monitor covers cells of one page (`AlignedIs`) and never saw
a generation ahead of its page's or of the mappings': generations only grow, so a page that was
written since differs from what the monitor saw, and a link that `AddressSpace` has broken cannot
be honoured (`LinksBreak`). Of the data it must be known what the loops over the pages leave in
them: backing pages changes no cell (`BackedContents`: a recycled one is zeroed first), a write changes
its cells only (`WrittenContents`), and dropping the pages of a changed region makes those read as zero
that the change takes out of the map or replaces, and no others (`ChangedCells`, `RemapIs`).
`GapIsFree` and `NoEarlierRun` make the gap that `find_free` returns the lowest free one. Then there is
one lemma per call (`MapIs` to `ExchangeIs`), which finds the step of `AddressSpace` it takes, the
refused calls those that change nothing.

### `TunnelTCPProofs`

For any modulus that both streams fit into twice over, any initial sequence numbers, buffers,
segment sizes and windows (`TCPAssumption`). Longer streams are outside: the model's network
may hold a segment back for ever, and then no comparison modulo 2^32 could keep an old one
apart; the code relies on the network here as every TCP does.

Sequence numbers wrap and positions in a stream do not, so the invariant gives each number
the position it stands for, counted from what the buffers hold: `SentTo`, `AckedTo`, `TakenTo`.
`Numbered`, `Stored` and `Follows` say it of the sender (the bytes in flight and the bytes waiting
are the written ones of their positions, and the peer has not taken more than was sent),
`Hearing` of the receiver, `Taking` of the peer, `Closed` of the two ends. `Sound` is the part that
survives delay: every segment ever sent holds the bytes of its place (`Carries`) and reaches no
further than what is sent now (`Reaches`), whatever was retransmitted or split since, so it does
not matter which of them the peer takes, or when. `Onward` says which steps leave all earlier
segments sound. The lemmas `SignedIs`, `PlusIsOne` and `AmountIs` carry differences of numbers
over to differences of positions; `FlushKeeps`, `AcknowledgedKeeps`, `AcceptedKeeps` and
`FinishedKeeps` are the code's own helpers, and each action is a lemma over them.

### `TunnelLinkProofs`

For any finite set of packets with any sizes, any limits and any number of calls of `start`
(`LinkAssumption`). `QueueIsTrue` and `WritesAreCalls` give each send one place: its block on
the queue, the connection, or its report. `TimersAreSound` ties a timer that is due and current
to what it was armed for. Admission is a counter that the code only adds to and subtracts
from, so `RoomIsExact` equates it with a sum over the sends inside; the sums over finite sets
come from `DataLemmas`.

### `SoftwareVMProofs`

For any threads, pages, pools, requests, signals, slots, CPUs, words and caches (`ThreadAssumption`,
`SequenceAssumption`, `MappingAssumption`, `SignalAssumption`, `CodeAssumption`).

* Signals (`SignalInv`): registration is locked, dispatch is not. A slot in use was filled
  and stays so (`SlotsAreFilled`); a signal's entry is its newest action or the default that
  stands for it after a one-shot (`NewestIsKept`), which must hold of what a registration
  remembers to put back, too.
* Exclusive sequences (`SequenceInv`): while a thread's link to the counter stands, the value
  it loaded is the counter's (`LinksAreTrue`); a sequence that wrote is over (`WritesEnd`).
* Placement (`MappingInv`): a call that was interrupted where the lock is released still
  owns what it will replace (`ClaimedIsOwned`), and no such call is about to take away what
  the code alias stands for (`AliasIsKept`).
* Code (`CodeInv`): the array of pages is sorted and has each page once, so its binary search finds
  what is mapped (`Good`). A CPU whose cache is of an older generation of the code empties it before
  it looks; one of the newest generation holds only instructions that are in executable memory
  as they were decoded (`CacheHolds`), because every call that changes code or what may execute
  moves the generation on, and the cache is emptied when the thread's mode of writing to its code
  is another than the one it was filled in.

### `LaunchProofs`

For any sizes, numbers of attempts, regions, pages, slots, images and address spaces
(`EntryAssumption`, `SignedAssumption`, `ContainerAssumption`, `UnwindAssumption`, `TLSAssumption`,
`BudgetAssumption`: they are numbers, what is divided by is not zero, a header fits its page, and
the floor and the threshold of the budget are at least a page).

* Entry (`EntryInv`): every region is the reserved arena, the guest's or the one being adopted
  (`RegionsAreAccounted`), so each failure path gives back what it holds; the stage says
  which of them there are (`CallIsPlaced`) and what has been found out (`ArenaIsFound`).
* Unwind table (`UnwindInv`): the slot behind the count holds what the registration has
  filled in so far (`SlotIsFilled`), and a lookup knows that no slot it passed covers its
  address (`LookupIsTrue`).
* Thread-local storage (`TLSInv`): the images' descriptors lie apart and do not wrap
  (`ImagesLieApart`), a block holds exactly what its thread wrote (`BlocksAreTrue`).
* Signed launch (`SignedInv`): behind the rewritten range the container has the guest's bytes
  (`SizeIsFound`), which pages are signed and what the others hold is known at each stage
  (`PagesAreTrue`), and the hooks know the border between them exactly while it exists
  (`HooksAreTrue`), so that no call writes to a signed page. The restore is quiet because the
  comparison before it covered every page in front of the border.
* Container: there is no state to keep, each answer is computed in one step, so the work is in
  the algorithms. The walk of the load commands stays inside them and the page (`WalkIsInside`);
  the sum that picks the section at the marker cannot have wrapped if the section fits its
  segment; the binary search keeps smaller pages below and the others above, and comes closer
  by one at each step (`Searching`); after each chunk what is counted is what differs so far
  (`CountsTo`). The model asks for at most two load commands and two sections, also in the proof.
* Budget (`PoolInv`): after every piece of a call, and not only after the call, the regions lie apart
  and the counter is their sum (`Balanced`): what `forget` leaves of a region lies within it
  (`RemainsAre`) and weighs as much less as was taken (`ForgottenIs`), and a missing part that is cut
  short for want of a claim weighs nothing (`ClaimedIs`). A call that unmaps goes piece by piece;
  `Reached` says what it has left when it stands at a page: each region of now descends from one of
  before, misses only what that one missed or what was given back, has no guard among what was given
  back, and every claim outside of that stands. `UnmappedIsReached` is the induction over the pieces,
  `SweptIs` the end of the call, which drops the empty regions with the claims in their missing parts
  and no other claim. A missing page that no claim covers is missing to every operation
  (`UnclaimedIsMissing`), since an anchor, where the application's own mapping is taken to begin, covers only
  claimed pages of a missing part (`AnchorsAre`); so no call touches it while its region lives.

The subjects of `MCSoftwareVM` and `MCLaunch` have an invariant each; a step belongs to one
subject and leaves the others' variables alone.

### `DataLemmas`

`SetInduction` is induction stated with a set in place of a predicate, so that a first-order
prover can use it. From it come the sums over finite sets (`SumType`, `SumAdds`,
`SumSubtracts`, `SumOfImage`) and the lemmas on what is kept of a sequence of packets (`Kept`) when one is
taken from its head, appended, or moved from one part to the next (`StreamTakes`,
`StreamGrows`, `StreamMoves`). A function defined by recursion is reached by showing
first that a function with its equations exists (`KeepsExists`, `SumsExist`, and `StepsLead`
for one that takes a step of its own at each number). `LeastExists` and `GreatestExists` are for
what a search ends at.

### Only model-checked

* Liveness, which needs fairness and `ENABLED`: `Concludes`, `AppResumes`,
  `PreparationReturns`, `AcceptedIsSettled`, `SendsConclude`, `ConnectionConcludes`,
  `WrittenIsSent`, `CallsEnd`.
* `MCInstructions` and `MCImage`: `CPUArithmetic` uses operators on bits and `LinkLookup`
  declares a recursive operator, neither of which the prover reads in a module it proves.

## Plan

Done: the arena preparation, both its parts with the proof of their safety for every size, sparse memory,
the tunnel's TCP and link, the VM budget, guest memory and interpreter, the software VM,
images, links and fixups, the debugger's arena and the guest's entry, signed launches, and
the tables of threads. What is left, in this order:

1. `TunnelStreams` (ports, retirement) and `TunnelConnectionManager` (back pressure, callbacks
   that call back) over the two tunnel modules, with a byte stream that delivers a prefix as
   the abstract specification of a stream.
2. `LocalDeveloperSession`, `RemoteDiscovery`, `PairingSession`: timers of earlier phases,
   completions exactly once; abstract specification: a one-shot request.
3. `LocalPacketTCPProxy`, `AppLibrary`, `ExecutionMode`.
4. The wait trace and the table of wraps (`GuestWaitTrace.c`, `GuestWrap.c`), name lookup of
   `GuestPaths.c`, the table of chained imports.

## Not modelled, and why

* Byte layouts (control messages, debug packets, TCP headers, plists): parsing is modelled
  by whether it succeeds and what it yields.
* debugserver, Network Extension, the keychain and the kernel are external: modelled as far
  as the code relies on them, with every failure the code handles.
* Threads of a guest that store into `__TEXT` between the verification and the restore of a
  signed launch (in the launches the code does, the guest has one thread then, which is stopped in a
  hook), and a debugger that attaches in the middle of a launch.
* The data of vector registers, and the copying of registers from and to a signal frame.
* The probe of signed files (`SignedFileProbe.c`) asks the kernel and prints its answers.
* The translation layer and the development tools: adapters and file transformations with
  little state of their own.
* Clocks: a deadline is an event that may happen at any time after it is set; durations are
  compared only where the order of two deadlines matters.
* Argument checks that no caller violates, allocation failures before a component exists, and
  logging.

`PROJECT.json` lists every component with its status, and the hazards each property is for.
