---------------------------- MODULE SparseMemory ----------------------------
(***************************************************************************)
(* GuestSparseMemory.c: a sorted list of merged regions, an open-addressed *)
(* table of resident pages, a bounded backing store with a stack of freed  *)
(* pages, and the generations that exclusive accesses compare.             *)
(*                                                                         *)
(* Every call holds the space's spin lock from its first look at the state *)
(* to its return, so a call is one step; what interleaves are the calls of *)
(* the guest's threads, each with its exclusive monitor.  Pages are        *)
(* numbered; a page holds PageCells bytes and a byte is a member of Byte.  *)
(* The host's allocations at initialization succeed or there is no space.  *)
(***************************************************************************)
EXTENDS Integers, Sequences, SequencesExt, FiniteSetsExt

CONSTANTS
    FirstPage, LastPage,     \* the pages of the space
    PageCells,
    Base,                    \* bytes are 0 .. Base - 1
    Capacity,                \* pages of backing
    SlotCount, Hash,         \* the page table's size, and where a probe starts
    RegionLimit,
    Threads,
    Lengths, Granules,       \* bytes of an access, of an atomic access
    Protections,             \* the protections asked for
    MaxWrites, MaxChanges    \* bounds of the two generations

Pages == FirstPage .. LastPage
Byte == 0 .. Base - 1
Slots == 0 .. SlotCount - 1

ASSUME SpaceAssumption ==
    /\ FirstPage \in Nat \ {0} /\ LastPage \in Nat /\ FirstPage <= LastPage
    /\ PageCells \in Nat \ {0} /\ Base \in Nat \ {0, 1} /\ Capacity \in Nat \ {0}
    /\ SlotCount \in Nat /\ SlotCount >= 2 * Capacity /\ Hash \in [Pages -> Slots]
    /\ RegionLimit \in Nat /\ MaxWrites \in Nat /\ MaxChanges \in Nat
    /\ Lengths \subseteq Nat

\* atomic_size: powers of two, far below a page.
ASSUME GranuleAssumption == \A n \in Granules : n \in Nat \ {0} /\ PageCells % n = 0

VARIABLES
    regions,                 \* <<[start, end, prot, max]>>, in pages, end exclusive
    store,                   \* the page table and the backing pages
    generation,              \* successful writes
    mappingGeneration,       \* successful changes of the regions
    monitor,                 \* each thread's GMSparseExclusive
    reply                    \* what the last call returned

vars == <<regions, store, generation, mappingGeneration, monitor, reply>>

-----------------------------------------------------------------------------
(* The page table.                                                         *)

\* An entry's address is its page, 0 if it was never used, or Deleted.
Deleted == LastPage + 1
Empty(address) == [address |-> address, backing |-> 0, generation |-> 0]
Live(entry) == entry.address \notin {0, Deleted}

Probe(page, k) == (Hash[page] + k) % SlotCount

\* Wrong form of PageSlot: a search gives up at a deleted entry.
PageSlotStopsAtDeleted(table, page, insertion) ==
    LET at(k) == table[Probe(page, k)].address
        stops == {k \in Slots : at(k) \in {page, 0, Deleted}}
    IN  IF stops # {} /\ (insertion \/ at(Min(stops)) = page) THEN Probe(page, Min(stops)) ELSE -1

\* page_slot: linear probing over deleted entries; -1 when there is no slot.
PageSlot(table, page, insertion) ==
    LET at(k) == table[Probe(page, k)].address
        stops == {k \in Slots : at(k) \in {page, 0}}
        gaps == {k \in Slots : at(k) = Deleted /\ (stops = {} \/ k < Min(stops))}
    IN  IF stops # {} /\ at(Min(stops)) = page THEN Probe(page, Min(stops))
        ELSE IF ~insertion THEN -1
        ELSE IF gaps # {} THEN Probe(page, Min(gaps))
        ELSE IF stops # {} THEN Probe(page, Min(stops)) ELSE -1

Resident(page) == PageSlot(store.table, page, FALSE) # -1

\* A page obtains a zeroed backing page, a freed one first.
Allocate(s, page) ==
    LET backing == IF s.free # <<>> THEN s.free[Len(s.free)] ELSE s.next
    IN  [table |-> [s.table EXCEPT ![PageSlot(s.table, page, TRUE)] =
                       [address |-> page, backing |-> backing, generation |-> 0]],
         bytes |-> [s.bytes EXCEPT ![backing] = [i \in 0 .. PageCells - 1 |-> 0]],
         free |-> IF s.free # <<>> THEN Front(s.free) ELSE s.free,
         next |-> IF s.free # <<>> THEN s.next ELSE s.next + 1,
         resident |-> s.resident + 1]

\* An entry is deleted, and its backing page is the next to be handed out.
Drop(s, slot) ==
    [s EXCEPT !.table[slot] = Empty(Deleted), !.free = Append(@, s.table[slot].backing), !.resident = @ - 1]

\* discard_pages walks the table in slot order.
Discard(s, from, to) ==
    LET behind[n \in 0 .. SlotCount] ==
            IF n = 0 THEN s
            ELSE LET t == behind[n - 1]
                 IN  IF t.table[n - 1].address \in from .. to - 1 THEN Drop(t, n - 1) ELSE t
    IN  behind[SlotCount]

-----------------------------------------------------------------------------
(* The region list.                                                        *)

Region(start, end, prot, max) == [start |-> start, end |-> end, prot |-> prot, max |-> max]

\* Wrong form of Appended: equal neighbours stay apart.
AppendedUnmerged(list, r) == IF r.start = r.end THEN list ELSE Append(list, r)

\* append: empty pieces vanish, equal neighbours merge.
Appended(list, r) ==
    IF r.start = r.end THEN list
    ELSE IF list # <<>> /\ Last(list).end = r.start
            /\ Last(list).prot = r.prot /\ Last(list).max = r.max
         THEN [list EXCEPT ![Len(list)].end = r.end]
         ELSE Append(list, r)

Larger(x, y) == IF x > y THEN x ELSE y
Smaller(x, y) == IF x < y THEN x ELSE y

\* What a region has before a and behind end - 1.
Before(r, a) == [r EXCEPT !.end = Larger(Smaller(@, a), r.start)]
Behind(r, end) == [r EXCEPT !.start = Smaller(Larger(@, end), r.end)]

\* What change puts between them: PROTECT the rest of the region, with the new
\* protection; MAP the new region, into the first one that ends behind a.
Between(op, i, a, end, prot, max) ==
    LET r == regions[i]
        meets == r.end > a /\ r.start < end
        first == r.end > a /\ (i = 1 \/ regions[i - 1].end <= a)
    IN  IF op = "protect" /\ meets THEN Region(Larger(r.start, a), Smaller(r.end, end), prot, r.max)
        ELSE IF op = "map" /\ first THEN Region(a, end, prot, max)
        ELSE Region(a, a, prot, max)

\* change rebuilds the list region by region; a new one may come last.
Rebuilt(op, a, end, prot, max) ==
    LET n == Len(regions)
        next[i \in 0 .. n] ==
            IF i = 0 THEN <<>>
            ELSE Appended(Appended(Appended(next[i - 1], Before(regions[i], a)), Between(op, i, a, end, prot, max)),
                          Behind(regions[i], end))
        last == op = "map" /\ (n = 0 \/ regions[n].end <= a)
    IN  Appended(next[n], Region(a, IF last THEN end ELSE a, prot, max))

\* The regions that meet the range; whether they cover it without a gap.
Meeting(a, end) == {i \in DOMAIN regions : regions[i].end > a /\ regions[i].start < end}
Covered(a, end) ==
    \A p \in a .. end - 1 : \E i \in Meeting(a, end) : regions[i].start <= p /\ p < regions[i].end

\* The call op returns r and changes nothing.
Refuse(op, r) ==
    reply' = <<op, r>> /\ UNCHANGED <<regions, store, generation, mappingGeneration, monitor>>
Yield(op, value) ==
    reply' = <<op, "OK", value>> /\ UNCHANGED <<regions, store, generation, mappingGeneration, monitor>>

\* The changes that are allowed are carried out, or the list is full.
Rebuild(op, a, end, prot, max) ==
    LET list == Rebuilt(op, a, end, prot, max)
    IN  \/ Len(list) > RegionLimit /\ Refuse(op, "NOMEM")
        \/ /\ Len(list) <= RegionLimit
           /\ mappingGeneration < MaxChanges
           /\ regions' = list
           /\ mappingGeneration' = mappingGeneration + 1
           /\ store' = IF op = "protect" \/ store.resident = 0 THEN store ELSE Discard(store, a, end)
           /\ reply' = <<op, "OK">>
           /\ UNCHANGED <<generation, monitor>>

Map(a, end, prot, max, replace) ==
    \/ ~replace /\ Meeting(a, end) # {} /\ Refuse("map", "OVERLAP")
    \/ (replace \/ Meeting(a, end) = {}) /\ Rebuild("map", a, end, prot, max)
Unmap(a, end) == Rebuild("unmap", a, end, {}, {})

\* Wrong form of Protect: the range may have holes.
ProtectHoles(a, end, prot) ==
    LET allowed == \A i \in Meeting(a, end) : prot \subseteq regions[i].max
    IN  \/ ~allowed /\ Refuse("protect", "PROTECTION")
        \/ allowed /\ Rebuild("protect", a, end, prot, {})

Protect(a, end, prot) ==
    LET allowed == \A i \in Meeting(a, end) : prot \subseteq regions[i].max
    IN  \/ ~Covered(a, end) /\ Refuse("protect", "UNMAPPED")
        \/ Covered(a, end) /\ ~allowed /\ Refuse("protect", "PROTECTION")
        \/ Covered(a, end) /\ allowed /\ Rebuild("protect", a, end, prot, {})

\* gm_sparse_find_free: the gaps are tried in order, the one behind the last
\* region at the end.
FindFree(n) ==
    LET gap(i) == IF i = 1 THEN FirstPage ELSE regions[i - 1].end
        enough == {i \in DOMAIN regions : n <= regions[i].start - gap(i)}
        candidate == gap(IF enough = {} THEN Len(regions) + 1 ELSE Min(enough))
    IN  IF n <= LastPage + 1 - candidate THEN Yield("free", <<candidate>>) ELSE Refuse("free", "NOMEM")

-----------------------------------------------------------------------------
(* Accesses.                                                               *)

PageOf(cell) == cell \div PageCells
Touched(a, n) == IF n = 0 THEN {} ELSE PageOf(a) .. PageOf(a + n - 1)

\* check_access walks the regions while they cover the span without a gap.
CheckAccess(a, n, need) ==
    LET end == PageOf(a + n - 1) + 1
        walk(w, r) == IF w.stopped \/ w.covered = end \/ r.end <= w.covered THEN w
                      ELSE IF r.start > w.covered THEN [w EXCEPT !.stopped = TRUE]
                      ELSE IF ~(need \subseteq r.prot)
                           THEN [w EXCEPT !.stopped = TRUE, !.result = "PROTECTION"]
                      ELSE [w EXCEPT !.covered = Smaller(r.end, end)]
        walked[i \in 0 .. Len(regions)] ==
            IF i = 0 THEN [covered |-> PageOf(a), stopped |-> FALSE, result |-> "UNMAPPED"]
            ELSE walk(walked[i - 1], regions[i])
        done == walked[Len(regions)]
    IN  IF n = 0 \/ done.covered = end THEN "OK" ELSE done.result

ByteAt(s, cell) ==
    LET slot == PageSlot(s.table, PageOf(cell), FALSE)
    IN  IF slot = -1 THEN 0 ELSE s.bytes[s.table[slot].backing][cell % PageCells]
Contents(a, n) == [i \in 1 .. n |-> ByteAt(store, a + i - 1)]

\* The preflight of a write: the pages that would have to be backed.
Missing(a, n) == {p \in Touched(a, n) : ~Resident(p)}
Fits(a, n) == Cardinality(Missing(a, n)) <= Capacity - store.resident
WriteResult(a, n) ==
    LET result == CheckAccess(a, n, {"w"})
    IN  IF result = "OK" /\ ~Fits(a, n) THEN "NOMEM" ELSE result

\* A page is backed, if it is not yet.
Back(s, page) == IF PageSlot(s.table, page, FALSE) = -1 THEN Allocate(s, page) ELSE s

\* The bytes from a on that lie in a page are stored in it.
Store(s, page, a, bytes) ==
    LET slot == PageSlot(s.table, page, FALSE)
        stored(old) == [i \in 0 .. PageCells - 1 |->
            LET at == page * PageCells + i - a + 1 IN IF at \in DOMAIN bytes THEN bytes[at] ELSE old[i]]
    IN  [s EXCEPT !.table[slot].generation = generation + 1,
                  !.bytes[s.table[slot].backing] = stored(@)]

\* The loops over the pages of an access.
PageCount(a, n) == PageOf(a + n - 1) - PageOf(a) + 1
Backed(a, n) ==
    LET backed[k \in 0 .. PageCount(a, n)] ==
            IF k = 0 THEN store ELSE Back(backed[k - 1], PageOf(a) + k - 1)
    IN  backed[PageCount(a, n)]
Written(a, bytes) ==
    LET written[k \in 0 .. PageCount(a, Len(bytes))] ==
            IF k = 0 THEN store
            ELSE LET page == PageOf(a) + k - 1 IN Store(Back(written[k - 1], page), page, a, bytes)
    IN  written[PageCount(a, Len(bytes))]

\* access_locked for writing, after its preflight: r is what the call returns.
Commit(a, bytes, r) ==
    /\ reply' = r
    /\ UNCHANGED <<regions, mappingGeneration>>
    /\ IF bytes = <<>> THEN UNCHANGED <<store, generation>>
       ELSE /\ generation < MaxWrites
            /\ generation' = generation + 1
            /\ store' = Written(a, bytes)

Read(a, n) ==
    LET result == CheckAccess(a, n, {"r"})
    IN  IF result = "OK" THEN Yield("read", Contents(a, n)) ELSE Refuse("read", result)
Write(a, bytes) ==
    LET result == WriteResult(a, Len(bytes))
    IN  \/ result # "OK" /\ Refuse("write", result)
        \/ result = "OK" /\ Commit(a, bytes, <<"write", "OK">>) /\ UNCHANGED monitor

\* gm_sparse_prepare backs what a system call will write; nothing is written yet.
Prepare(a, n, need) ==
    LET result == CheckAccess(a, n, need)
    IN  IF result # "OK" \/ n = 0 \/ "w" \notin need THEN Refuse("prepare", result)
        ELSE IF ~Fits(a, n) THEN Refuse("prepare", "NOMEM")
        ELSE /\ store' = Backed(a, n)
             /\ reply' = <<"prepare", "OK">>
             /\ UNCHANGED <<regions, generation, mappingGeneration, monitor>>

-----------------------------------------------------------------------------
(* Atomic accesses.                                                        *)

NoMonitor == [address |-> 0, size |-> 0, generation |-> 0, mapping |-> 0, valid |-> FALSE]
PageGeneration(cell) ==
    LET slot == PageSlot(store.table, PageOf(cell), FALSE)
    IN  IF slot = -1 THEN 0 ELSE store.table[slot].generation

LoadExclusive(t, a, n) ==
    LET result == CheckAccess(a, n, {"r"})
    IN  \/ result # "OK" /\ Refuse("load", result)
        \/ /\ result = "OK"
           /\ reply' = <<"load", "OK", Contents(a, n)>>
           /\ monitor' = [monitor EXCEPT ![t] =
                 [address |-> a, size |-> n, generation |-> PageGeneration(a),
                  mapping |-> mappingGeneration, valid |-> TRUE]]
           /\ UNCHANGED <<regions, store, generation, mappingGeneration>>

\* Wrong form of Holds: a write to the page goes unnoticed.
HoldsDespiteWrites(t) == monitor[t].valid /\ monitor[t].mapping = mappingGeneration

\* The monitor holds: nothing was mapped, and nothing written to its page.
Holds(t) ==
    LET m == monitor[t]
    IN  m.valid /\ m.mapping = mappingGeneration /\ m.generation = PageGeneration(m.address)
Spent(t) == monitor' = [monitor EXCEPT ![t] = NoMonitor]

StoreExclusive(t, a, bytes) ==
    LET valid == Holds(t) /\ monitor[t].address = a /\ monitor[t].size = Len(bytes)
        result == WriteResult(a, Len(bytes))
    IN  \/ valid /\ result # "OK" /\ Refuse("store", result)
        \/ valid /\ result = "OK" /\ Commit(a, bytes, <<"store", "STORED">>) /\ Spent(t)
        \/ ~valid /\ reply' = <<"store", "LOST">> /\ Spent(t)
           /\ UNCHANGED <<regions, store, generation, mappingGeneration>>

\* The second half of an atomic update: new replaces old.
Replace(op, a, old, new) ==
    LET result == WriteResult(a, Len(new))
    IN  \/ result # "OK" /\ Refuse(op, result)
        \/ result = "OK" /\ Commit(a, new, <<op, "OK", old>>) /\ UNCHANGED monitor

CompareExchange(a, expected, desired) ==
    LET result == CheckAccess(a, Len(expected), {"r", "w"})
        old == Contents(a, Len(expected))
    IN  \/ result # "OK" /\ Refuse("exchange", result)
        \/ result = "OK" /\ old # expected /\ Yield("exchange", old)
        \/ result = "OK" /\ old = expected /\ Replace("exchange", a, old, desired)

\* gm_sparse_atomic; new is what the operation computes from the old bytes.
Atomic(a, new) ==
    LET result == CheckAccess(a, Len(new), {"r"})
    IN  \/ result # "OK" /\ Refuse("atomic", result)
        \/ result = "OK" /\ Replace("atomic", a, Contents(a, Len(new)), new)

-----------------------------------------------------------------------------
Init ==
    /\ regions = <<>> /\ generation = 0 /\ mappingGeneration = 0
    /\ store = [table |-> [slot \in Slots |-> Empty(0)],
                bytes |-> [b \in 0 .. Capacity - 1 |-> [i \in 0 .. PageCells - 1 |-> 0]],
                free |-> <<>>, next |-> 0, resident |-> 0]
    /\ monitor = [t \in Threads |-> NoMonitor]
    /\ reply = <<"init", "OK">>

\* What the calls are given: a range of pages, a span of cells, an aligned one.
Bytes(n) == [1 .. n -> Byte]
FirstCell == FirstPage * PageCells
EndCell == (LastPage + 1) * PageCells
Spans == {s \in (FirstCell .. EndCell - 1) \X Lengths : s[1] + s[2] <= EndCell}
Aligned == {s \in (FirstCell .. EndCell - 1) \X Granules : s[1] % s[2] = 0 /\ s[1] + s[2] <= EndCell}

Mapping ==
    \E a \in Pages, end \in Pages \cup {LastPage + 1} :
        /\ a < end
        /\ \/ \E prot, max \in Protections, replace \in BOOLEAN :
                 prot \subseteq max /\ Map(a, end, prot, max, replace)
           \/ Unmap(a, end)
           \/ \E prot \in Protections : Protect(a, end, prot)
           \/ FindFree(end - a)
Accessing ==
    \E s \in Spans :
        \/ Read(s[1], s[2])
        \/ \E bytes \in Bytes(s[2]) : Write(s[1], bytes)
        \/ \E need \in Protections : Prepare(s[1], s[2], need)
AccessingAtomically ==
    \E s \in Aligned :
        \/ \E new \in Bytes(s[2]) : Atomic(s[1], new)
        \/ \E expected, desired \in Bytes(s[2]) : CompareExchange(s[1], expected, desired)
        \/ \E t \in Threads : \/ LoadExclusive(t, s[1], s[2])
                              \/ \E bytes \in Bytes(s[2]) : StoreExclusive(t, s[1], bytes)

Next == Mapping \/ Accessing \/ AccessingAtomically

Spec == Init /\ [][Next]_vars

-----------------------------------------------------------------------------
(* Properties.                                                             *)

\* change rebuilds the list so that the regions are in order, apart, merged as
\* far as they can be, and never more than REGION_LIMIT.
RegionsAreCanonical ==
    /\ Len(regions) <= RegionLimit
    /\ \A i \in DOMAIN regions :
          LET r == regions[i]
          IN  /\ FirstPage <= r.start /\ r.start < r.end /\ r.end <= LastPage + 1
              /\ r.prot \subseteq r.max
              /\ i > 1 => /\ regions[i - 1].end <= r.start
                          /\ ~(/\ regions[i - 1].end = r.start
                               /\ regions[i - 1].prot = r.prot /\ regions[i - 1].max = r.max)

\* Through allocation, recycling and discard_pages no backing page is lost or in
\* use twice, and resident and next_backing agree with the table.
BackingIsConserved ==
    LET live == {slot \in Slots : Live(store.table[slot])}
        used == {store.table[slot].backing : slot \in live}
    IN  /\ Cardinality(live) = store.resident /\ Cardinality(used) = store.resident
        /\ IsInjective(store.free)
        /\ used \cap ToSet(store.free) = {}
        /\ used \cup ToSet(store.free) = 0 .. store.next - 1
        /\ store.next <= Capacity

\* page_slot finds every resident page where it is, whatever was deleted before
\* it; so no page is entered twice.
EveryPageIsFound ==
    \A slot \in Slots :
        Live(store.table[slot]) => PageSlot(store.table, store.table[slot].address, FALSE) = slot

\* Only mapped pages hold backing: change discards what it unmaps or replaces.
ResidentMeansMapped ==
    \A slot \in Slots : Live(store.table[slot]) =>
        \E i \in DOMAIN regions :
            store.table[slot].address \in regions[i].start .. regions[i].end - 1

\* The page table and the backing agree with each other and with the regions.
TableIsSound == ResidentMeansMapped /\ BackingIsConserved /\ EveryPageIsFound

\* The regions and the store are the address space the header promises.
PermOf(p) ==
    LET at == {i \in DOMAIN regions : p \in regions[i].start .. regions[i].end - 1}
    IN  IF at = {} THEN [prot |-> {}, max |-> {}, mapped |-> FALSE]
        ELSE LET r == regions[Min(at)] IN [prot |-> r.prot, max |-> r.max, mapped |-> TRUE]
AddressSpace ==
    INSTANCE AddressSpace WITH
        perm <- [p \in Pages |-> PermOf(p)],
        data <- [c \in FirstCell .. EndCell - 1 |-> ByteAt(store, c)],
        link <- [t \in Threads |-> IF Holds(t)
                    THEN monitor[t].address .. monitor[t].address + monitor[t].size - 1 ELSE {}]

\* Reads return what was last written, failed calls change nothing, discarded
\* pages come back as zeros, and an exclusive store finds its cells untouched.
ImplementsAddressSpace == AddressSpace!SpaceSpec
=============================================================================
