---------------------------- MODULE SignedLaunch ----------------------------
(***************************************************************************)
(* A launch by Local signing: SignedImage.c with signed_image_prepare, the *)
(* staging, the hooks on the guest's memory calls, and the verification    *)
(* and restore of NativeGuest.m.                                           *)
(*                                                                         *)
(* Only pages of a signed container may execute.  The container holds the  *)
(* guest's __TEXT as it is after its first initializer has unpacked it.    *)
(* The leading pages that differ from the file are anonymous memory while  *)
(* the initializer rewrites them; the others are the container's from the  *)
(* start.  A page is one cell, holding one of Values; the header and load  *)
(* commands are kept apart.                                                *)
(***************************************************************************)
EXTENDS Integers, Sequences

CONSTANTS
    Pages,              \* the pages of the guest's __TEXT
    Values              \* what a page may hold, 0 included: numbers

VARIABLES
    guest,              \* the file: [bytes, staged, segments, header, initializer]
    container,          \* the container: [bytes, size, header]
    pc,                 \* how far the launch is
    handle,             \* the container is open
    arena,              \* the pages of __TEXT in memory: [bytes, signed]; <<>> while there is none
    active, shadow, shadowSize,  \* signed_image
    last                \* the guest's last call into __TEXT: where, and what it was to write

vars == <<guest, container, pc, handle, arena, active, shadow, shadowSize, last>>

Text == 0 .. Pages - 1
Calls == [at : Text, bytes : UNION {[1 .. n -> Values] : n \in 1 .. Pages}] \cup {[at |-> 0, bytes |-> <<>>]}
NoCall == [at |-> 0, bytes |-> <<>>]

Init ==
    /\ guest \in [bytes : [Text -> Values], staged : SUBSET Text, segments : 1 .. 2, header : {"this"}, initializer : 0 .. Pages]
    /\ \A p \in Text \ guest.staged : guest.bytes[p] = 0
    /\ container \in [bytes : [Text -> Values], size : {Pages, Pages + 1}, header : {"this", "other"}]
    /\ pc = "start" /\ handle = FALSE /\ arena = <<>> /\ active = FALSE /\ shadow = FALSE /\ shadowSize = 0 /\ last = NoCall

-----------------------------------------------------------------------------
(* SignedImage.c.                                                          *)

\* Original bytes: the staged ones, or zeros.
OriginalPage(p) == IF p \in guest.staged THEN guest.bytes[p] ELSE 0

\* si_match_guest: one executable segment, of this size, with this header.
MatchGuest == guest.segments = 1 /\ container.size = Pages /\ container.header = guest.header

Differs(p) == OriginalPage(p) # container.bytes[p]

\* The end of the last page that differs.
ShadowEnd ==
    CHOOSE n \in 0 .. Pages : (\A p \in n .. Pages - 1 : ~Differs(p)) /\ (n = 0 \/ Differs(n - 1))

\* si_shadow_size: the first initializer lies in __TEXT, behind the rewritten range.
ShadowSize == guest.initializer < Pages /\ guest.initializer >= ShadowEnd

-----------------------------------------------------------------------------
(* signed_image_prepare.                                                   *)

Fails == pc' = "fail"

\* dlopen.
Open ==
    /\ pc = "start"
    /\ \/ handle' = TRUE /\ pc' = "opened"
       \/ handle' = FALSE /\ pc' = "refused"
    /\ UNCHANGED <<guest, container, arena, active, shadow, shadowSize, last>>

\* No mapping changes until the container matches.
Check ==
    /\ pc = "opened"
    /\ IF MatchGuest /\ ShadowSize THEN pc' = "matched" /\ shadowSize' = ShadowEnd ELSE Fails /\ UNCHANGED shadowSize
    /\ UNCHANGED <<guest, container, handle, arena, active, shadow, last>>

\* Anonymous memory for the whole image.
Map ==
    /\ pc = "matched"
    /\ \/ arena' = [p \in Text |-> [bytes |-> 0, signed |-> FALSE]] /\ pc' = "mapped"
       \/ Fails /\ UNCHANGED arena
    /\ UNCHANGED <<guest, container, handle, active, shadow, shadowSize, last>>

SignedPage(p) == [bytes |-> container.bytes[p], signed |-> TRUE]

\* The container's pages over the suffix, if there is one.
Remap ==
    /\ pc = "mapped"
    /\ \/ /\ arena' = [p \in Text |-> IF p >= shadowSize THEN SignedPage(p) ELSE arena[p]]
          /\ active' = TRUE /\ shadow' = (shadowSize # 0) /\ pc' = "prepared"
       \/ shadowSize < Pages /\ Fails /\ UNCHANGED <<arena, active, shadow>>
    /\ UNCHANGED <<guest, container, handle, shadowSize, last>>

Fail ==
    /\ pc = "fail" /\ pc' = "refused" /\ arena' = <<>> /\ handle' = FALSE
    /\ UNCHANGED <<guest, container, active, shadow, shadowSize, last>>

\* The staged pages of the rewritten range; those behind it are the container's.
Stage ==
    /\ pc = "prepared" /\ pc' = "staged"
    /\ arena' = [p \in Text |-> IF p \in guest.staged /\ p < shadowSize THEN [arena[p] EXCEPT !.bytes = guest.bytes[p]] ELSE arena[p]]
    /\ UNCHANGED <<guest, container, handle, active, shadow, shadowSize, last>>

-----------------------------------------------------------------------------
(* The guest's calls into __TEXT, while its first initializer unpacks and  *)
(* later.                                                                  *)

Runs == pc \in {"unpacking", "running"}

\* The initializer is called.
Enter == pc = "staged" /\ pc' = "unpacking" /\ UNCHANGED <<guest, container, handle, arena, active, shadow, shadowSize, last>>

\* Wrong form of ShadowPart: the range counts as anonymous for ever.
ShadowPartStale(at, n) == IF at >= shadowSize THEN 0 ELSE IF shadowSize - at < n THEN shadowSize - at ELSE n

\* The leading part of a write that lands in memory that is still anonymous.
ShadowPart(at, n) ==
    IF ~shadow \/ at >= shadowSize THEN 0 ELSE IF shadowSize - at < n THEN shadowSize - at ELSE n

Written(bytes, at, n) ==
    [p \in Text |-> IF p >= at /\ p < at + n THEN [arena[p] EXCEPT !.bytes = bytes[p - at + 1]] ELSE arena[p]]

\* What the call was to write, as its source is before it.
Source(from, n) == [i \in 1 .. n |-> arena[from + i - 1].bytes]

Regenerated(at, bytes, part) == \A i \in part + 1 .. Len(bytes) : arena[at + i - 1].bytes = bytes[i]

\* final_image_write and final_image_memset: the signed part must be there already,
\* and only then is the other part written.  Else the process ends.
Write(at, bytes) ==
    LET part == ShadowPart(at, Len(bytes))
    IN  /\ last' = [at |-> at, bytes |-> bytes]
        /\ IF Regenerated(at, bytes, part) THEN arena' = Written(bytes, at, part) /\ UNCHANGED pc
           ELSE pc' = "aborted" /\ UNCHANGED arena
        /\ UNCHANGED <<guest, container, handle, active, shadow, shadowSize>>

\* memcpy and memmove within __TEXT.
Copy ==
    /\ Runs
    /\ \E at \in Text, from \in Text : \E n \in 1 .. Pages :
          at + n <= Pages /\ from + n <= Pages /\ Write(at, Source(from, n))

\* memcpy from elsewhere, of whatever the guest made there; memset.
CopyIn ==
    /\ Runs
    /\ \E at \in Text : \E n \in 1 .. Pages - at : \E bytes \in [1 .. n -> Values] : Write(at, bytes)

\* mmap over __TEXT: zeros in anonymous memory, nothing anywhere else.
MapOver ==
    /\ Runs
    /\ \E at \in Text : \E n \in 1 .. Pages - at :
          arena' = IF ShadowPart(at, n) = n THEN Written([i \in 1 .. n |-> 0], at, n) ELSE arena
    /\ last' = NoCall /\ UNCHANGED <<guest, container, pc, handle, active, shadow, shadowSize>>

\* The guest's own stores: into anonymous memory, or a fault.
Store ==
    /\ Runs /\ last' = NoCall
    /\ \E p \in Text, v \in Values :
          IF arena[p].signed THEN pc' = "aborted" /\ UNCHANGED arena
          ELSE arena' = [arena EXCEPT ![p].bytes = v] /\ UNCHANGED pc
    /\ UNCHANGED <<guest, container, handle, active, shadow, shadowSize>>

-----------------------------------------------------------------------------
(* The initializer returned.                                               *)

Return ==
    /\ pc = "unpacking" /\ pc' = IF shadow THEN "verify" ELSE "running"
    /\ UNCHANGED <<guest, container, handle, arena, active, shadow, shadowSize, last>>

\* si_count_mismatches over the rewritten range.
Verified == \A p \in 0 .. shadowSize - 1 : arena[p].bytes = container.bytes[p]

Verify ==
    /\ pc = "verify"
    /\ IF Verified THEN shadow' = FALSE /\ pc' = "restore" ELSE pc' = "blocked" /\ UNCHANGED shadow
    /\ UNCHANGED <<guest, container, handle, arena, active, shadowSize, last>>

\* The container's pages replace it.
Restore ==
    /\ pc = "restore"
    /\ \/ arena' = [p \in Text |-> IF p < shadowSize THEN SignedPage(p) ELSE arena[p]] /\ pc' = "running"
       \/ pc' = "blocked" /\ UNCHANGED arena
    /\ last' = NoCall /\ UNCHANGED <<guest, container, handle, active, shadow, shadowSize>>

Next ==
    \/ Open \/ Check \/ Map \/ Remap \/ Fail \/ Stage \/ Enter
    \/ Copy \/ CopyIn \/ MapOver \/ Store
    \/ Return \/ Verify \/ Restore
Spec == Init /\ [][Next]_vars

-----------------------------------------------------------------------------
(* Properties.                                                             *)

\* The initializer starts from the image as the file has it, although part of it
\* is the container's, and its own page executes.
UnpackerStartsFromTheFile ==
    pc = "staged" => /\ \A p \in Text : arena[p].bytes = OriginalPage(p)
                     /\ arena[guest.initializer].signed

\* Whatever the guest does, a page of the container holds what was signed, and
\* once the launch goes on every page is one.
SignedPagesAreGenuine ==
    arena # <<>> => \A p \in Text : /\ arena[p].signed => arena[p].bytes = container.bytes[p]
                                    /\ pc = "running" => arena[p].signed

\* A copy into __TEXT did exactly what memmove does, wherever it lay, even over its
\* own source; a process that ended had really tried to change a signed page.
CopiesAreCopies ==
    /\ Runs => \A i \in 1 .. Len(last.bytes) : arena[last.at + i - 1].bytes = last.bytes[i]
    /\ pc = "aborted" /\ last # NoCall =>
          \E i \in 1 .. Len(last.bytes) : arena[last.at + i - 1].signed /\ arena[last.at + i - 1].bytes # last.bytes[i]

\* The pages that replace the unpacked ones change no byte of the guest.
RestoreChangesNothing ==
    [][pc = "restore" /\ pc' = "running" => \A p \in Text : arena'[p].bytes = arena[p].bytes]_vars

\* A launch that was refused keeps neither memory nor the container, wherever the
\* preparation failed, and no hook believes that there is one.
RefusedLeavesNothing == pc = "refused" => arena = <<>> /\ ~handle /\ ~active /\ ~shadow
=============================================================================
