--------------------------- MODULE SignedContainer ---------------------------
(***************************************************************************)
(* The parts of SignedImage.c that only read: si_locate_image, which finds *)
(* the page image in a loaded container, original_page, which finds a page *)
(* of the guest, and si_count_mismatches, which compares two images.       *)
(*                                                                         *)
(* Each step asks one question and records the answer.  Addresses wrap at  *)
(* Space; a page, a header, a command and a section record are a few units *)
(* long, of the eight bytes that load commands are aligned to.             *)
(***************************************************************************)
EXTENDS Integers, Sequences, FiniteSets

CONSTANTS
    Space,              \* 2^64 at its small width
    Page,               \* GM_PAGE_SIZE
    HeaderSize, CommandSize, SegmentSize, SectionSize,
    Chunk,              \* bytes compared at once: 4096
    MaxLength,          \* bound: the bytes of two images that are compared
    MaxPages            \* bound: the pages of a guest

VARIABLES asked, answer
vars == <<asked, answer>>

NoQuestion == [kind |-> "none"]
Init == asked = NoQuestion /\ answer = NoQuestion

Within(offset, size, total) == offset <= total /\ size <= total - offset

-----------------------------------------------------------------------------
(* si_locate_image: the load commands.                                     *)

Refuse(walk) == [walk EXCEPT !.ok = FALSE]
ReadTo(walk, end) == [walk EXCEPT !.read = IF end > @ THEN end ELSE @]

\* The sections of a segment that its command has room for.
Sections(walk, c) == IF c.nsects > (c.size - SegmentSize) \div SectionSize THEN -1 ELSE c.nsects

\* A segment: its sections are read only if it is __TEXT, of which there is one.
Segment(walk, c) ==
    LET seen == ReadTo(walk, walk.cursor + SegmentSize)
        n == Sections(walk, c)
    IN  IF c.size < SegmentSize THEN Refuse(walk)
        ELSE IF n < 0 \/ (c.kind = "text" /\ walk.text) THEN Refuse(seen)
        ELSE IF c.kind # "text" THEN seen
        ELSE [ReadTo(seen, walk.cursor + SegmentSize + n * SectionSize) EXCEPT !.text = TRUE]

Command(walk, c) ==
    LET seen == ReadTo(walk, walk.cursor + CommandSize)
        done == IF c.kind = "other" THEN seen ELSE Segment(seen, c)
    IN  IF ~walk.ok THEN walk
        ELSE IF ~Within(walk.cursor, CommandSize, walk.end) THEN Refuse(walk)
        ELSE IF c.size < CommandSize \/ ~Within(walk.cursor, c.size, walk.end) THEN Refuse(seen)
        ELSE [done EXCEPT !.cursor = @ + c.size]

Begun(q) == [ok |-> q.sizeofcmds <= Page - HeaderSize, cursor |-> HeaderSize, end |-> HeaderSize + q.sizeofcmds,
             read |-> HeaderSize, text |-> FALSE]

\* Each of the header's commands, which fill exactly what it says.
Walk(q) ==
    LET upto[n \in 0 .. Len(q.commands)] == IF n = 0 THEN Begun(q) ELSE Command(upto[n - 1], q.commands[n])
        walked == upto[Len(q.commands)]
    IN  [walked EXCEPT !.ok = @ /\ walked.cursor = walked.end /\ walked.text]

Commands == [kind : {"text", "segment", "other"}, size : 0 .. Page, nsects : 0 .. 2]

WalkCommands ==
    \E sizeofcmds \in 0 .. Page, commands \in UNION {[1 .. n -> Commands] : n \in 0 .. 2} :
        /\ asked' = [kind |-> "walk", sizeofcmds |-> sizeofcmds, commands |-> commands]
        /\ answer' = Walk(asked')

-----------------------------------------------------------------------------
(* si_locate_image: the section at the marker.                             *)

Refused == [ok |-> FALSE, bytes |-> 0, size |-> 0]

\* q.code: __TEXT maps the header, read and execute.
\* The sum wraps; it only picks the section.
AtMarker(q, s) == s.size # 0 /\ (q.header + s.addr - q.vmaddr) % Space = q.v1

Limit(q) == IF q.filesize < q.vmsize THEN q.filesize ELSE q.vmsize

\* Wrong form of Fits: the end is computed, and wraps.
FitsWrapped(q, s) == s.addr >= q.vmaddr /\ (s.addr - q.vmaddr + s.size) % Space <= Limit(q)

\* Only bytes that the file backs are covered by the signature.
Fits(q, s) == s.addr >= q.vmaddr /\ Within(s.addr - q.vmaddr, s.size, Limit(q))

Locate(q) ==
    LET found == {i \in DOMAIN q.sections : AtMarker(q, q.sections[i])}
        s == q.sections[CHOOSE i \in found : TRUE]
    IN  IF q.v1 = 0 \/ q.final # q.v1 \/ q.header % Page # 0 \/ ~q.code THEN Refused
        ELSE IF ~\E i \in found : found = {i} THEN Refused
        ELSE IF ~Fits(q, s) \/ (s.addr - q.vmaddr) % Page # 0 \/ s.size % Page # 0 THEN Refused
        ELSE [ok |-> TRUE, bytes |-> q.v1, size |-> s.size]

\* Around the bounds of pages.
Edges == {n \in 0 .. Space - 1 : n % Page \in {0, 1, Page - 1}}

\* The loader has mapped the segment: it does not wrap in memory.
LocateImage ==
    \E header \in {n \in Edges : n % Page # Page - 1}, vmaddr \in {0, 1, Page}, vmsize \in {0, Page, 2 * Page - 1, 2 * Page},
       filesize \in Edges, addr \in Edges, size \in Edges, twice \in BOOLEAN, code \in BOOLEAN :
      LET named == (header + addr - vmaddr) % Space
      IN  \E v1 \in {0, named, (named + Page) % Space} : \E final \in {0, v1} :
        /\ header + vmsize <= Space
        /\ asked' = [kind |-> "locate", header |-> header, vmaddr |-> vmaddr, vmsize |-> vmsize, filesize |-> filesize,
                     v1 |-> v1, final |-> final, code |-> code,
                     sections |-> <<[addr |-> addr, size |-> size]>> \o (IF twice THEN <<[addr |-> addr, size |-> Page]>> ELSE <<>>)]
        /\ answer' = Locate(asked')

-----------------------------------------------------------------------------
(* original_page and si_count_mismatches.                                  *)

\* One step of the search in pages that are in order.
Halve(q, at) ==
    LET mid == at.lo + (at.hi - at.lo) \div 2
    IN  IF q.pages[mid + 1] < q.address THEN [at EXCEPT !.lo = mid + 1] ELSE [at EXCEPT !.hi = mid]

OriginalPage(q) ==
    LET search[n \in 0 .. Len(q.pages) + 1] ==
            IF n = 0 THEN [lo |-> 0, hi |-> Len(q.pages)]
            ELSE LET at == search[n - 1] IN IF at.lo < at.hi THEN Halve(q, at) ELSE at
        lo == search[Len(q.pages) + 1].lo
    IN  lo < Len(q.pages) /\ q.pages[lo + 1] = q.address

FindPage ==
    \E n \in 0 .. MaxPages + 1 : \E pages \in [1 .. n -> 0 .. MaxPages] :
        /\ \A i, j \in 1 .. n : i < j => pages[i] < pages[j]
        /\ \E address \in 0 .. MaxPages : asked' = [kind |-> "page", pages |-> pages, address |-> address]
        /\ answer' = [found |-> OriginalPage(asked')]

\* The end of a chunk, or of the images.
ChunkEnd(q, chunk) == IF q.size - chunk < Chunk THEN q.size ELSE chunk + Chunk

\* Chunk by chunk, and byte by byte in those that differ.
CountChunk(q, counted, chunk) ==
    LET differing == {i \in chunk .. ChunkEnd(q, chunk) - 1 : q.a[i + 1] # q.b[i + 1]}
        first == CHOOSE i \in differing : \A j \in differing : i <= j
    IN  IF differing = {} THEN counted
        ELSE [count |-> counted.count + Cardinality(differing), first |-> IF counted.count = 0 THEN first ELSE counted.first]

CountMismatches(q) ==
    LET counted[n \in 0 .. MaxLength] ==
            IF n = 0 THEN [count |-> 0, first |-> q.size]
            ELSE IF (n - 1) * Chunk < q.size THEN CountChunk(q, counted[n - 1], (n - 1) * Chunk) ELSE counted[n - 1]
    IN  counted[MaxLength]

Compare ==
    \E size \in 0 .. MaxLength : \E a \in [1 .. size -> 0 .. 1], b \in [1 .. size -> 0 .. 1] :
        /\ asked' = [kind |-> "compare", size |-> size, a |-> a, b |-> b]
        /\ answer' = CountMismatches(asked')

Next == asked = NoQuestion /\ (WalkCommands \/ LocateImage \/ FindPage \/ Compare)
Spec == Init /\ [][Next]_vars

-----------------------------------------------------------------------------
(* Properties.                                                             *)

\* However the load commands lie, nothing behind the commands is read, and never
\* more than the first page, which is what is known to be mapped.
ReadsStayInside == asked.kind = "walk" => answer.read <= Page /\ (answer.read > HeaderSize => answer.read <= answer.end)

\* The image that is found lies whole in what the file backs of the mapped __TEXT,
\* on pages of its own, although the sum that picked it may have wrapped.
LocatedIsSigned ==
    asked.kind = "locate" /\ answer.ok =>
        /\ answer.size > 0 /\ answer.bytes % Page = 0 /\ answer.size % Page = 0
        /\ asked.header <= answer.bytes /\ answer.bytes + answer.size <= asked.header + Limit(asked)

\* A page is found exactly when the guest has it.
PagesAreFound == asked.kind = "page" => answer.found = (\E i \in DOMAIN asked.pages : asked.pages[i] = asked.address)

\* Every differing byte is counted, in the last part too, and the first one named.
MismatchesAreExact ==
    asked.kind = "compare" =>
        LET differing == {i \in 0 .. asked.size - 1 : asked.a[i + 1] # asked.b[i + 1]}
        IN  /\ answer.count = Cardinality(differing)
            /\ differing = {} => answer.first = asked.size
            /\ differing # {} => answer.first \in differing /\ \A i \in differing : answer.first <= i
=============================================================================
