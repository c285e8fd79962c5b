------------------------------ MODULE VMBudget ------------------------------
(***************************************************************************)
(* GuestVMBudget.c: large reservations of the guest are mapped smaller     *)
(* than asked once the budget is spent.  The guest believes it has all of  *)
(* what it asked for; what it was not given is the missing part of its     *)
(* region, where other code's mappings, or the guest's own later ones      *)
(* (claims), may come to live.                                             *)
(*                                                                         *)
(* Every call holds the lock, so a call is one step.  Addresses and sizes  *)
(* are counted in pages.  The kernel (external) places a mapping on any    *)
(* free pages, refuses one at will, and lets the host map any free page.   *)
(***************************************************************************)
EXTENDS Integers, FiniteSets, FiniteSetsExt, Functions

CONSTANTS
    Top,                       \* pages are 0 .. Top - 1
    Budget, Floor, Threshold,
    MaxRegions, MaxClaims,
    MaxReserve, MaxMap,        \* bounds: pages of a reservation, of another mapping
    MaxCalls, MaxHost          \* bounds: calls of the guest, pages of the host

VARIABLES
    budget,                    \* [regions, claims, reserved]; an entry of the table of claims keeps its number
    kernel,                    \* kernel[p]: "free", "rw", "none" (both the guest's), "host"
    believed,                  \* pages the guest takes for its own
    calls,                     \* calls of the guest so far
    holes                      \* history: pages unmapped while they stay counted

vars == <<budget, kernel, believed, calls, holes>>

AllPages == 0 .. Top - 1
Interval(from, to) == from .. to - 1
Guest == {"rw", "none"}

-----------------------------------------------------------------------------
(* Regions: [start, end) granted, [end, limit) the guard, [limit, span)    *)
(* missing.                                                                *)

Region(start, end, limit, span) == [start |-> start, end |-> end, limit |-> limit, span |-> span]
Own(r) == Interval(r.start, r.limit)
Missing(r) == Interval(r.limit, r.span)
MissingPages(b) == UNION {Missing(r) : r \in b.regions}

\* Wrong form of Anchors: all that was asked for is taken for a region's own.
AnchorsAsked(b, p) ==
    LET owner == {r \in b.regions : p \in Own(r)}
    IN  IF owner # {} THEN {Interval(r.start, r.span) : r \in owner} ELSE {{}}

\* What an operation at a page starts in: a region's own mapping or a claim.
\* Of claims that overlap any may be found first.
Anchors(b, p) ==
    LET owner == {r \in b.regions : p \in Own(r)}
        claims == {c \in Range(b.claims) : p \in Interval(c.start, c.end)}
    IN  IF owner # {} THEN {Own(r) : r \in owner}
        ELSE IF claims # {} THEN {Interval(c.start, c.end) : c \in claims}
        ELSE {{}}

\* What a page is to an operation with this anchor.
Kind(b, p, anchor) ==
    IF p \notin anchor /\ p \in MissingPages(b) THEN "missing"
    ELSE IF \E r \in b.regions : p \in Interval(r.start, r.end) THEN "granted"
    ELSE IF \E r \in b.regions : p \in Interval(r.end, r.limit) THEN "guard"
    ELSE "outside"

Kinds(b, from, to, anchor) == {Kind(b, p, anchor) : p \in Interval(from, to)}

-----------------------------------------------------------------------------
(* Bookkeeping.                                                            *)

\* A mapping of the guest inside a missing part stays its own.  With no room to
\* remember that, the missing part ends where it begins.
Claimed(b, from, to) ==
    LET hit == {r \in b.regions : to > r.limit /\ from < r.span}
        room == (1 .. MaxClaims) \ DOMAIN b.claims
    IN  IF hit = {} THEN b
        ELSE IF room # {}
        THEN [b EXCEPT !.claims = [i \in DOMAIN b.claims \cup {Min(room)} |->
                IF i \in DOMAIN b.claims THEN b.claims[i] ELSE [start |-> from, end |-> to]]]
        ELSE [b EXCEPT !.regions = (@ \ hit) \cup {[r EXCEPT !.span = Max({from, r.limit})] : r \in hit}]

Unclaimed(claims, from, to) ==
    LET kept == {i \in DOMAIN claims : ~(from <= claims[i].start /\ to >= claims[i].end)}
        Cut(c) == IF from <= c.start /\ to > c.start THEN [c EXCEPT !.start = to]
                  ELSE IF from < c.end /\ to >= c.end THEN [c EXCEPT !.end = from]
                  ELSE c
    IN  [i \in kept |-> Cut(claims[i])]

\* What remains of a region when [from, to) of its own mapping is gone.  A hole
\* in the middle splits it, if there is room for another region.
Remains(b, r, from, to) ==
    LET above == [r EXCEPT !.start = to, !.end = Max({@, to})]
    IN  IF from <= r.start THEN {above}
        ELSE IF to >= r.limit THEN {[r EXCEPT !.end = Min({@, from}), !.limit = from]}
        ELSE IF Cardinality(b.regions) < MaxRegions
        THEN {Region(r.start, Min({r.end, from}), from, from), above}
        ELSE {r}

\* Wrong form of Forgotten: a hole that could not be split off is released too.
ForgottenReleasesHole(b, r, from, to) ==
    [b EXCEPT !.regions = (@ \ {r}) \cup Remains(b, r, from, to), !.reserved = @ - (to - from)]

\* With no room to split it off, a hole stays counted.
Forgotten(b, r, from, to) ==
    LET remains == Remains(b, r, from, to)
    IN  [b EXCEPT !.regions = (@ \ {r}) \cup remains,
                  !.reserved = IF remains = {r} THEN @ ELSE @ - (to - from)]

\* Regions with nothing of their own left are gone, and the claims in them, in the
\* order of the table, which is any.
Gone(b) == {r \in b.regions : r.start >= r.limit}
Orders(S) == {f \in [1 .. Cardinality(S) -> S] : \A i, j \in DOMAIN f : f[i] = f[j] => i = j}
Swept(b, order) ==
    LET claims[k \in 0 .. Cardinality(Gone(b))] ==
            IF k = 0 THEN b.claims ELSE Unclaimed(claims[k - 1], order[k].limit, order[k].span)
    IN  [b EXCEPT !.regions = @ \ Gone(b), !.claims = claims[Cardinality(Gone(b))]]

-----------------------------------------------------------------------------
(* Calls that map.                                                         *)

FreeRun(k, from, n) == from + n <= Top /\ \A p \in Interval(from, from + n) : k[p] = "free"
Places(k, n) == {from \in AllPages : FreeRun(k, from, n)}
Set(k, pages, value) == [p \in AllPages |-> IF p \in pages THEN value ELSE k[p]]

Overlaps(b, from, n) == \E r \in b.regions : from < r.span /\ from + n > r.start

\* What is asked of the kernel: what is left of the budget or the floor, and,
\* while the kernel refuses, half of it.
Want(n) ==
    LET room == IF budget.reserved < Budget THEN Budget - budget.reserved ELSE 0
    IN  IF n <= room THEN n ELSE Min({n, Max({room, Floor})})
Tried(n) == {want \in 1 .. Want(n) : \E i \in 0 .. Want(n) : want = Want(n) \div (2 ^ i)}
Mapped(n, want) == IF want < n THEN want + 1 ELSE want

\* The whole span asked for must be free of other reservations, and where it
\* is not granted also of everything else.
Suits(from, n, want) ==
    /\ ~Overlaps(budget, from, n)
    /\ want < n => from + n <= Top
                   /\ \A p \in Interval(from + Mapped(n, want), from + n) : kernel[p] = "free"

\* free_span, searched from the bottom while [from, from + m) is mapped.
Holes(from, m, n) ==
    {h \in AllPages : /\ FreeRun(Set(kernel, Interval(from, from + m), "rw"), h, n)
                   /\ ~Overlaps(budget, h, n)}

\* Where the reservation ends up, if anywhere.
Placement(n, want) ==
    {from \in Places(kernel, Mapped(n, want)) : Suits(from, n, want)}
    \cup {Min(Holes(from, Mapped(n, want), n)) :
            from \in {f \in Places(kernel, Mapped(n, want)) :
                        ~Suits(f, n, want) /\ Holes(f, Mapped(n, want), n) # {}}}

Reserve(n) ==
    /\ n >= Threshold /\ Cardinality(budget.regions) < MaxRegions
    /\ \E want \in Tried(n) : \E from \in Placement(n, want) :
        LET limit == from + Mapped(n, want)
            span == IF want < n THEN from + n ELSE limit
        IN  /\ budget' = [budget EXCEPT !.regions = @ \cup {Region(from, from + want, limit, span)},
                                        !.reserved = @ + Mapped(n, want)]
            /\ kernel' = Set(Set(kernel, Interval(from, from + want), "rw"), Interval(from + want, limit), "none")
            /\ believed' = believed \cup Interval(from, from + n)
    /\ UNCHANGED holes

\* A mapping the kernel places: too small to count, or past the last region.  A
\* hint into a missing part is dropped.
MapAnywhere(n) ==
    /\ n < Threshold \/ Cardinality(budget.regions) = MaxRegions
    /\ \E from \in Places(kernel, n) :
        /\ budget' = Claimed(budget, from, from + n)
        /\ kernel' = Set(kernel, Interval(from, from + n), "rw")
        /\ believed' = believed \cup Interval(from, from + n)
    /\ UNCHANGED holes

\* The ranges the guest works on.
Believed(from, to) == from < to /\ Interval(from, to) \subseteq believed

MapFixed(from, to) ==
    /\ Believed(from, to)
    /\ \E anchor \in Anchors(budget, from) :
        Kinds(budget, from, to, anchor) \cap {"guard", "missing"} = {}
    /\ budget' = Claimed(budget, from, to)
    /\ kernel' = Set(kernel, Interval(from, to), "rw")
    /\ UNCHANGED <<believed, holes>>

-----------------------------------------------------------------------------
(* Calls on what is mapped.                                                *)

PagesOf(from, to, anchor, kinds) == {p \in Interval(from, to) : Kind(budget, p, anchor) \in kinds}

\* Where what lies between from and to changes its kind or its region, or the anchor
\* ends.  Within the anchor nothing is missing, and no missing part ends.
Borders(from, to, anchor) ==
    {from, to} \cup (UNION {{r.start, r.end, r.limit} : r \in budget.regions})
              \cup {r.span : r \in {s \in budget.regions : s.span \notin anchor}}
              \cup {p \in Interval(from, to) : p \notin anchor /\ p - 1 \in anchor}

Unmapped(b, kind, from, to) ==
    CASE kind = "missing" -> b
      [] kind = "outside" -> [b EXCEPT !.claims = Unclaimed(@, from, to)]
      [] OTHER -> Forgotten(b, CHOOSE r \in b.regions : from \in Own(r), from, to)

\* The budget when the pieces of [from, to) are unmapped, one after the other.  What is
\* done to a piece does not change what a later one is.
UnmappedPieces(from, to, anchor) ==
    LET Since(p) == Max({x \in Borders(from, to, anchor) : from <= x /\ x < p})
        done[p \in from .. to] ==
            IF p = from THEN budget
            ELSE Unmapped(done[Since(p)], Kind(budget, Since(p), anchor), Since(p), p)
    IN  done[to]

\* Pages of the range that are unmapped and stay counted.
HolesLeft(b, gone) == {p \in gone : \E r \in b.regions : p \in Own(r)}

Unmap(from, to) ==
    /\ Believed(from, to)
    /\ \E anchor \in Anchors(budget, from) :
        LET done == UnmappedPieces(from, to, anchor)
            gone == PagesOf(from, to, anchor, {"granted", "guard", "outside"})
        IN  /\ \E order \in Orders(Gone(done)) : budget' = Swept(done, order)
            /\ kernel' = Set(kernel, gone, "free")
            /\ holes' = holes \cup HolesLeft(budget', gone)
    /\ believed' = believed \ Interval(from, to)

\* To make anything usable that was not given fails and changes nothing.
Protect(from, to, value) ==
    /\ Believed(from, to)
    /\ \E anchor \in Anchors(budget, from) :
        /\ value = "rw" => Kinds(budget, from, to, anchor) \cap {"guard", "missing"} = {}
        /\ kernel' = Set(kernel, {p \in PagesOf(from, to, anchor, {"granted", "outside"}) : kernel[p] # "free"}, value)
    /\ UNCHANGED <<budget, believed, holes>>

\* Other code of the process maps a page.
HostMaps(p) ==
    /\ kernel[p] = "free" /\ Cardinality({q \in AllPages : kernel[q] = "host"}) < MaxHost
    /\ kernel' = [kernel EXCEPT ![p] = "host"]
    /\ UNCHANGED <<budget, believed, calls, holes>>

-----------------------------------------------------------------------------
Init ==
    /\ budget = [regions |-> {}, claims |-> [i \in {} |-> 0], reserved |-> 0]
    /\ kernel = [p \in AllPages |-> "free"]
    /\ believed = {}
    /\ calls = 0
    /\ holes = {}

GuestCalls ==
    /\ calls < MaxCalls /\ calls' = calls + 1
    /\ \/ \E n \in 1 .. MaxReserve : Reserve(n)
       \/ \E n \in 1 .. MaxMap : MapAnywhere(n)
       \/ \E from, to \in 0 .. Top :
           MapFixed(from, to) \/ Unmap(from, to) \/ \E value \in Guest : Protect(from, to, value)

Next == GuestCalls \/ \E p \in AllPages : HostMaps(p)

Spec == Init /\ [][Next]_vars

-----------------------------------------------------------------------------
(* Properties.                                                             *)

\* The counter is the sum of the regions' own mappings, guards included, through
\* trims, holes and a full table; it is compared with the budget and never
\* recomputed.
ReservedIsExact ==
    budget.reserved = SumFunctionOnSet([r \in budget.regions |-> r.limit - r.start], budget.regions)

\* No two regions share an address of what was asked for: a guest that looks up
\* a pool by its range finds one.
SpansAreDisjoint ==
    /\ \A r \in budget.regions : r.start <= r.end /\ r.end <= r.limit /\ r.limit <= r.span
    /\ \A r, s \in budget.regions : r # s => Interval(r.start, r.span) \cap Interval(s.start, s.span) = {}

\* What is counted is mapped for the guest, and a guard is never usable; only a
\* hole that a full table could not split off stays counted.
CountedIsMapped ==
    \A r \in budget.regions :
        /\ \A p \in Own(r) \ holes : kernel[p] \in Guest
        /\ \A p \in Interval(r.end, r.limit) : kernel[p] = "none"

\* The guest's own mappings in a missing part are remembered as its own.
OwnMappingsAreClaimed ==
    \A p \in MissingPages(budget) :
        kernel[p] \in Guest => \E c \in Range(budget.claims) : p \in Interval(c.start, c.end)

\* What the budget counts, what the regions say and what the kernel has mapped for
\* the guest are the same.
BudgetIsExact == ReservedIsExact /\ SpansAreDisjoint /\ CountedIsMapped /\ OwnMappingsAreClaimed

\* While a region lives, no call of the guest reaches a mapping of other code in its
\* missing part, whatever the call covers besides and wherever it begins.
MissingIsSpared ==
    \A p \in MissingPages(budget) :
        /\ kernel[p] = "host"
        /\ ~ \E c \in Range(budget.claims) : p \in Interval(c.start, c.end)
        => kernel'[p] = "host"

\* What GuestVMBudget.h promises of the missing part: whatever the guest does with
\* what it takes for its own, other code's mappings there stay.  The code forgets
\* the missing part with the last page of the region's own, and breaks it.
SparesOtherCode == \A p \in AllPages : kernel[p] = "host" => kernel'[p] = "host"
=============================================================================
