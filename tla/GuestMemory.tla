---------------------------- MODULE GuestMemory ----------------------------
(***************************************************************************)
(* GuestMemory.c and DarwinMemory.c: the guest's pages in one array sorted *)
(* by address, and the Darwin calls on it.  Addresses of pages count       *)
(* pages; a cell is one instruction word.  A page without bytes reads as   *)
(* zeros.  Calls do not overlap: the header asks for serialization.        *)
(***************************************************************************)
EXTENDS Integers, Sequences, SequencesExt, FiniteSetsExt

CONSTANTS
    LastPage,      \* pages are 0 .. LastPage
    LowPages,      \* the low guard: pages that gd_mmap never gives out
    PageCells,     \* cells of a page
    Words,         \* what a cell holds; 0 is one of them
    Protections,   \* sets of permissions
    Sizes,         \* cells of an access
    MaxCalls       \* bound: calls

VARIABLES
    memory,        \* [pages, generation, code, fault]
    reply,         \* what the last call returned
    calls

NoBytes == <<>>
NoFault == -1
All == {"r", "w", "x"}
Page(address, prot, max, jit) ==
    [address |-> address, bytes |-> NoBytes, prot |-> prot, max |-> max, jit |-> jit]

-----------------------------------------------------------------------------
(* Pages.                                                                  *)

\* The index of the first page at or above an address: binary search.
Lower(pages, a) ==
    LET find[r \in (1 .. Len(pages) + 1) \X (1 .. Len(pages) + 1)] ==
            LET lo == r[1]
                hi == r[2]
                mid == lo + (hi - lo) \div 2
            IN  IF lo >= hi THEN lo
                ELSE IF pages[mid].address < a THEN find[<<mid + 1, hi>>] ELSE find[<<lo, mid>>]
    IN  find[<<1, Len(pages) + 1>>]

\* The pages with those from first up to last replaced.
Spliced(pages, first, new, last) ==
    SubSeq(pages, 1, first - 1) \o new \o SubSeq(pages, last, Len(pages))

\* A change of the mappings.
Changed(m, pages) ==
    [m EXCEPT !.pages = pages, !.generation = @ + 1, !.code = @ + 1]

\* What a call leaves: the memory and what it returns.
Done(m, result) == [memory |-> m, result |-> result]

Map(m, a, n, prot, max, jit, replace) ==
    LET first == Lower(m.pages, a)
        last == Lower(m.pages, a + n)
        new == [i \in 1 .. n |-> Page(a + i - 1, prot, max, jit)]
    IN  IF ~replace /\ first # last THEN Done(m, "OVERLAP")
        ELSE Done(Changed(m, Spliced(m.pages, first, new, last)), "OK")

Unmap(m, a, n) ==
    Done(Changed(m, Spliced(m.pages, Lower(m.pages, a), <<>>, Lower(m.pages, a + n))), "OK")

Protect(m, a, n, prot) ==
    LET first == Lower(m.pages, a)
        last == Lower(m.pages, a + n)
    IN  IF last - first # n THEN Done(m, "UNMAPPED")
        ELSE IF \E i \in first .. last - 1 : ~(prot \subseteq m.pages[i].max) THEN Done(m, "PROTECTION")
        ELSE Done(Changed(m, [i \in DOMAIN m.pages |->
                 IF i \in first .. last - 1 THEN [m.pages[i] EXCEPT !.prot = prot] ELSE m.pages[i]]), "OK")

\* Wrong form of FindFree: the first gap is taken, whatever its size.
FindFreeFirstGap(m, hint, n) ==
    Min({p \in hint .. LastPage + 1 : \A i \in DOMAIN m.pages : m.pages[i].address # p})

\* First fit from the hint on; what runs past the last page is refused.
FindFree(m, hint, n) ==
    LET from == Lower(m.pages, hint)
        seek[at \in (from .. Len(m.pages) + 1) \X (hint .. LastPage + 1)] ==
            LET i == at[1]
                candidate == at[2]
            IN  IF i > Len(m.pages) \/ candidate + n > LastPage + 1 THEN candidate
                ELSE IF m.pages[i].address >= candidate + n THEN candidate
                ELSE seek[<<i + 1, m.pages[i].address + 1>>]
    IN  seek[<<from, hint>>]

-----------------------------------------------------------------------------
(* Accesses.  A thread is "none" (no thread), or where it stands with its   *)
(* JIT pages: "protected" (it may execute them) or "writable".             *)

PageOf(c) == c \div PageCells
JitRefuses(page, thread, need) ==
    page.jit /\ \/ need = {"w"} /\ thread = "protected"
                \/ need = {"x"} /\ thread = "writable"

\* What an access to one cell meets.
Check(m, thread, c, need) ==
    LET i == Lower(m.pages, PageOf(c))
    IN  IF i > Len(m.pages) \/ m.pages[i].address # PageOf(c) THEN "UNMAPPED"
        ELSE IF ~(need \subseteq m.pages[i].prot) \/ JitRefuses(m.pages[i], thread, need) THEN "PROTECTION"
        ELSE "OK"

\* The first cell of n from a that cannot be accessed.
FirstFault(m, thread, a, n, need) ==
    LET bad == {c \in a .. a + n - 1 : Check(m, thread, c, need) # "OK"}
    IN  IF bad = {} THEN NoFault ELSE Min(bad)

CellAt(m, c) ==
    LET page == m.pages[Lower(m.pages, PageOf(c))]
    IN  IF page.bytes = NoBytes THEN 0 ELSE page.bytes[(c % PageCells) + 1]

\* The pages of an access, and those of them that have no bytes yet.
Touched(m, a, n) == {i \in DOMAIN m.pages : \E c \in a .. a + n - 1 : PageOf(c) = m.pages[i].address}
Unbacked(m, a, n) == {i \in Touched(m, a, n) : m.pages[i].bytes = NoBytes}
Backed(m, indexes) ==
    [m EXCEPT !.pages = [i \in DOMAIN @ |->
        IF i \in indexes THEN [@[i] EXCEPT !.bytes = [j \in 1 .. PageCells |-> 0]] ELSE @[i]]]

Put(m, a, words) ==
    LET Stored(page) == [page EXCEPT !.bytes = [j \in 1 .. PageCells |->
            LET at == page.address * PageCells + j - a
            IN  IF at \in DOMAIN words THEN words[at] ELSE @[j]]]
    IN  [m EXCEPT !.pages = [i \in DOMAIN @ |->
            IF i \in Touched(m, a, Len(words)) THEN Stored(@[i]) ELSE @[i]]]

Fault(m, thread, a, n, need) == [m EXCEPT !.fault = FirstFault(m, thread, a, n, need)]

\* All pages are backed before the first word is stored.
Written(m, a, words) ==
    LET code == \E i \in Touched(m, a, Len(words)) : "x" \in m.pages[i].prot
    IN  [Put(Backed(m, Unbacked(m, a, Len(words))), a, words) EXCEPT
            !.generation = @ + 1, !.code = IF code THEN @ + 1 ELSE @]

Read(m, thread, a, n, need) ==
    LET f == Fault(m, thread, a, n, need)
    IN  Done(f, IF f.fault # NoFault THEN Check(m, thread, f.fault, need) ELSE "OK")

\* Wrong form of Write: each page is backed when the copy reaches it.
WritePagewise(m, thread, a, words, need) ==
    LET f == Fault(m, thread, a, Len(words), need)
    IN  IF f.fault # NoFault THEN {Done(f, Check(m, thread, f.fault, need))}
        ELSE {Done(Written(f, a, words), "OK")}
             \cup {Done(Written(f, a, SubSeq(words, 1, k)), "NOMEM") :
                     k \in {k \in DOMAIN words : Unbacked(f, a + k, Len(words) - k) # {}}}

\* The outcomes of a write: the backing may run out at any page.
Write(m, thread, a, words, need) ==
    LET f == Fault(m, thread, a, Len(words), need)
        unbacked == Unbacked(f, a, Len(words))
    IN  IF f.fault # NoFault THEN {Done(f, Check(m, thread, f.fault, need))}
        ELSE {Done(Written(f, a, words), "OK")}
             \cup {Done(Backed(f, {j \in unbacked : j < i}), "NOMEM") : i \in unbacked}

-----------------------------------------------------------------------------
(* Calls.                                                                  *)

\* A call returns, and the memory is what it left.
Return(op, done) == memory' = done.memory /\ reply' = [op |-> op, result |-> done.result]

\* Where a mapping goes that is not fixed, or LastPage + 1 and more: not below twice
\* the low guard, unless the guest asks for what is above the guard.
Hint(a) == IF a < LowPages THEN 2 * LowPages ELSE a
PlaceOf(a, n, fixed) == IF fixed THEN a ELSE FindFree(memory, Hint(a), n)

\* gd_mmap; allocating the new array of pages may fail.
Mmap(a, n, prot, jit, fixed) ==
    LET at == PlaceOf(a, n, fixed)
        op == <<"mmap", at, n, fixed, Hint(a)>>
    IN  IF at + n > LastPage + 1 THEN Return(op, Done(memory, "NOMEM"))
        ELSE IF at < LowPages THEN Return(op, Done(memory, "INVALID"))
        ELSE \/ Return(op, Done(memory, "NOMEM"))
             \/ Return(op, Map(memory, at, n, prot, All, jit, fixed))

\* The image loader maps with the segment's limits, and never over anything.
MapSegment(a, n, prot, max) ==
    prot \subseteq max /\ Return(<<"map", a, n>>, Map(memory, a, n, prot, max, FALSE, FALSE))

Mprotect(a, n, prot) == Return(<<"mprotect", a, n>>, Protect(memory, a, n, prot))
Munmap(a, n) == Return(<<"munmap", a, n>>, Unmap(memory, a, n))

Populate(a, words) ==
    \E done \in Write(memory, "none", a, words, {}) : Return(<<"write", a, words>>, done)

PageRanges == {s \in (0 .. LastPage) \X (1 .. LastPage + 1) : s[1] + s[2] <= LastPage + 1}
CellRanges == {s \in (0 .. (LastPage + 1) * PageCells - 1) \X Sizes : s[1] + s[2] <= (LastPage + 1) * PageCells}

MemoryInit ==
    /\ memory = [pages |-> <<>>, generation |-> 0, code |-> 0, fault |-> NoFault]
    /\ reply = [op |-> <<"init">>, result |-> "OK"]
    /\ calls = 0

\* Calls of the loader and of the guest's system layer.
Mappings ==
    \E s \in PageRanges :
        \/ \E prot \in Protections, jit, fixed \in BOOLEAN : Mmap(s[1], s[2], prot, jit, fixed)
        \/ \E prot, max \in Protections : MapSegment(s[1], s[2], prot, max)
        \/ \E prot \in Protections : Mprotect(s[1], s[2], prot)
        \/ Munmap(s[1], s[2])

-----------------------------------------------------------------------------
(* Properties; those with primes are about a step.                         *)

\* gm_map, gm_unmap: the array stays strictly ascending, which every binary
\* search in it relies on, and no page exceeds its limits.
PagesAreSorted ==
    /\ \A i \in 1 .. Len(memory.pages) - 1 : memory.pages[i].address < memory.pages[i + 1].address
    /\ \A i \in DOMAIN memory.pages : memory.pages[i].prot \subseteq memory.pages[i].max

\* What the guest sees of a page and of a cell.
IsMapped(m, p) == \E i \in DOMAIN m.pages : m.pages[i].address = p
PageView(m, p) ==
    {<<m.pages[i].prot, m.pages[i].max, m.pages[i].jit>> : i \in {j \in DOMAIN m.pages : m.pages[j].address = p}}
Cells == 0 .. (LastPage + 1) * PageCells - 1
View(m) ==
    [pages |-> [p \in 0 .. LastPage |-> PageView(m, p)],
     cells |-> [c \in Cells |-> IF IsMapped(m, PageOf(c)) THEN CellAt(m, c) ELSE 0]]

\* A write (copy) stores all of its words or none, whatever page it faults on
\* and wherever the backing runs out; nothing else changes.
WritesAreWhole ==
    reply'.op[1] = "write" =>
        LET a == reply'.op[2]
            words == reply'.op[3]
            stored == [View(memory) EXCEPT !.cells = [c \in Cells |->
                          IF c - a + 1 \in DOMAIN words THEN words[c - a + 1] ELSE @[c]]]
        IN  View(memory') = IF reply'.result = "OK" THEN stored ELSE View(memory)

\* gd_mmap without MAP_FIXED finds the lowest gap at or above the hint, replaces
\* nothing, and gives out no page of the low guard.
MmapFindsTheLowestGap ==
    (reply'.op[1] = "mmap" /\ ~reply'.op[4] /\ reply'.result # "NOMEM") =>
        LET at == reply'.op[2]
            n == reply'.op[3]
            Free(p) == \A q \in p .. p + n - 1 : ~IsMapped(memory, q)
        IN  /\ at >= LowPages /\ Free(at)
            /\ \A p \in reply'.op[5] .. at - 1 : ~Free(p)
=============================================================================
