------------------------------ MODULE ImageLoad ------------------------------
(***************************************************************************)
(* gi_load and gi_load_library of GuestImage.c: choosing the slice of a    *)
(* file, reading its load commands and sections, mapping its segments and  *)
(* finding its entry; gi_extent; gi_destroy.                               *)
(*                                                                         *)
(* A load works on a staged image, which it allocates piece by piece, and  *)
(* may fail before, between and in these pieces: because of the file, of a *)
(* read, of memory.  Only the end of it touches the caller's image.        *)
(* Blocks are what is allocated for images: names, the export trie, the    *)
(* list of initializers and pages with their bytes.                        *)
(*                                                                         *)
(* Offsets count units, a page is Page of them.  A file is the slices its  *)
(* fat table lists (none in a thin file) and, for every slice, one list of *)
(* load commands of which the last ends at commandsEnd.  Memory maps an    *)
(* address to its protection and the file position of its byte, Zero for a *)
(* byte no file gives.  Lengths of names and of commands are left out.     *)
(***************************************************************************)
EXTENDS Integers, Sequences, SequencesExt, FiniteSetsExt, TLC

CONSTANTS
    Page, Width,        \* GM_PAGE_SIZE, and 2^64
    Low,                \* the 4 GiB below which an executable maps nothing
    MapBudget,          \* the 2 GiB an image may map
    MaxSegments,        \* GI_MAX_SEGMENTS
    MaxNames            \* GI_MAX_DYLIBS, and GI_MAX_RPATHS

VARIABLES
    file,               \* the file that is loaded
    image, source,      \* the caller's image, and the file it came from
    staged,             \* the load that is under way: where it is, and its image
    blocks              \* what is allocated

Zero == -1
Header == 1             \* the size of the Mach-O header
Within(offset, size, total) == offset <= total /\ size <= total - offset

-----------------------------------------------------------------------------
(* The slice.                                                              *)

\* Fat table: the one plain arm64 slice, which lies behind the table and in the
\* file.  [ok, offset, size].
Slice(f) ==
    LET table == Len(f.slices)
        plain == SelectSeq(f.slices, LAMBDA s : s.plain)
    IN  IF f.slices = <<>> THEN [ok |-> TRUE, offset |-> 0, size |-> f.size]
        ELSE IF Len(plain) # 1 THEN [ok |-> FALSE, offset |-> 0, size |-> 0]
        ELSE [ok |-> plain[1].offset >= table /\ Within(plain[1].offset, plain[1].size, f.size),
              offset |-> plain[1].offset, size |-> plain[1].size]

-----------------------------------------------------------------------------
(* Load commands.                                                          *)

Empty ==
    [segments |-> <<>>, text |-> <<>>, entryOffset |-> <<>>, init |-> <<>>, tls |-> [address |-> 0, size |-> 0],
     descriptors |-> <<>>, unwind |-> <<>>, names |-> [library |-> 0, rpath |-> 0], exports |-> FALSE,
     trie |-> FALSE, chained |-> FALSE, memory |-> <<>>, mapped |-> 0, entry |-> 0, list |-> FALSE,
     initializers |-> <<>>, slice |-> 0]
Bad == "bad"
IsBad(i) == DOMAIN i = {Bad}
Broken == [bad |-> TRUE]

FileBacked(type) == type \notin {"zerofill", "localZero"}

\* A section lies in its segment and, with contents, in the file as in memory.
SectionFits(s, section, size) ==
    /\ section.address >= s.address /\ Within(section.address - s.address, section.size, s.size)
    /\ FileBacked(section.type) =>
          /\ Within(section.offset, section.size, size) /\ section.offset >= s.fileOffset
          /\ Within(section.offset - s.fileOffset, section.size, s.fileSize)
          /\ section.address - s.address = section.offset - s.fileOffset

\* The template of the thread-local storage grows to hold the section.
Hull(tls, section) ==
    LET start == IF tls.size = 0 \/ section.address < tls.address THEN section.address ELSE tls.address
        old == tls.address + tls.size
        end == IF section.address + section.size > old THEN section.address + section.size ELSE old
    IN  [address |-> start, size |-> end - start]

\* What the loader keeps of a section; a second one of a kind is refused.
Keep(i, s, section) ==
    CASE section.type \in {"pointers", "offsets"} ->
             IF i.init # <<>> THEN Broken ELSE [i EXCEPT !.init = <<section>>]
      [] section.type = "unwind" ->
             IF s.name # "text" \/ ~s.read \/ section.size = 0 \/ i.unwind # <<>> THEN Broken
             ELSE [i EXCEPT !.unwind = <<section>>]
      [] section.type \in {"local", "localZero"} -> [i EXCEPT !.tls = Hull(@, section)]
      [] section.type = "descriptors" ->
             IF i.descriptors # <<>> THEN Broken ELSE [i EXCEPT !.descriptors = <<section>>]
      [] OTHER -> i

\* Wrong form of SegmentFits: the end of the segment may wrap.
SegmentFitsWrapped(s, size) ==
    /\ Within(s.fileOffset, s.fileSize, size) /\ s.fileSize <= s.size
    /\ s.address % Page = 0 /\ s.size % Page = 0

SegmentFits(s, size) ==
    /\ Within(s.fileOffset, s.fileSize, size) /\ s.fileSize <= s.size /\ s.size <= Width - 1 - s.address
    /\ s.address % Page = 0 /\ s.size % Page = 0

\* LC_SEGMENT_64.  The header is in __TEXT, which is executable.
Segment(i, s, size, commandsEnd) ==
    LET text == IF s.name = "text" THEN [i EXCEPT !.segments = Append(@, s), !.text = <<s.address>>]
                ELSE [i EXCEPT !.segments = Append(@, s)]
    IN  IF \/ Len(i.segments) = MaxSegments \/ ~SegmentFits(s, size)
           \/ s.name = "text" /\ (i.text # <<>> \/ s.fileOffset # 0 \/ s.fileSize < commandsEnd \/ ~s.exec)
        THEN Broken
        ELSE FoldLeft(LAMBDA acc, section :
                 IF IsBad(acc) \/ ~SectionFits(s, section, size) THEN Broken ELSE Keep(acc, s, section),
                 text, s.sections)

Command(i, c, size, commandsEnd) ==
    CASE c.command = "segment" -> Segment(i, c, size, commandsEnd)
      [] c.command \in DOMAIN i.names -> IF i.names[c.command] = MaxNames THEN Broken ELSE [i EXCEPT !.names[c.command] = @ + 1]
      [] c.command = "main" -> IF i.entryOffset # <<>> THEN Broken ELSE [i EXCEPT !.entryOffset = <<c.offset>>]
      [] c.command = "exports" ->
             IF i.exports \/ ~Within(c.offset, c.size, size) THEN Broken ELSE [i EXCEPT !.exports = TRUE]
      [] c.command = "chained" ->
             IF i.chained \/ ~Within(c.offset, c.size, size) THEN Broken ELSE [i EXCEPT !.chained = TRUE]
      [] c.command = "encrypted" -> Broken
      [] OTHER -> i

\* The list as a whole has a header, and an entry in executables only.
Complete(i, f) == i.text # <<>> /\ f.executable = (i.entryOffset # <<>>)

-----------------------------------------------------------------------------
(* Mapping.                                                                *)

\* 64-bit sums wrap.
End(s) == (s.address + s.size) % Width
Overlap(s, p) == s.size # 0 /\ p.size # 0 /\ s.address < End(p) /\ p.address < End(s)

\* gm_map and gm_populate: the bytes of a segment.
BytesOf(s, slice) ==
    [a \in {k % Width : k \in s.address .. s.address + s.size - 1} |->
        [read |-> s.read, exec |-> s.exec,
         byte |-> IF (a - s.address) % Width < s.fileSize THEN slice + s.fileOffset + ((a - s.address) % Width) ELSE Zero]]

\* __PAGEZERO reserves the low addresses and maps nothing.
PlaceSegment(f, i, n) ==
    LET s == i.segments[n]
    IN  IF \E k \in 1 .. n - 1 : Overlap(s, i.segments[k]) THEN Broken
        ELSE IF s.name = "pagezero" THEN IF s.address = 0 /\ s.size = Low /\ s.fileSize = 0 THEN i ELSE Broken
        ELSE IF s.size = 0 THEN i
        ELSE IF (f.executable /\ s.address < Low) \/ s.size > MapBudget \/ i.mapped > MapBudget - s.size THEN Broken
        ELSE [i EXCEPT !.memory = BytesOf(s, i.slice) @@ @, !.mapped = @ + s.size]

HoldsEntry(s, offset) == s.exec /\ offset >= s.fileOffset /\ Within(offset - s.fileOffset, 1, s.fileSize)

\* LC_MAIN's offset, in the first executable segment that holds it.
Entered(i) ==
    LET holding == SelectSeq(i.segments, LAMBDA s : HoldsEntry(s, i.entryOffset[1]))
    IN  IF i.entryOffset = <<>> THEN i
        ELSE IF holding = <<>> THEN Broken
        ELSE [i EXCEPT !.entry = holding[1].address + i.entryOffset[1] - holding[1].fileOffset]

Readable(i, a) == a \in DOMAIN i.memory /\ i.memory[a].read
Executable(i, a) == a \in DOMAIN i.memory /\ i.memory[a].exec

\* Initializers: offsets are resolved and checked now, of pointers the first, unless
\* chained fixups have yet to write it.
ByOffset(i) == i.init # <<>> /\ i.init[1].type = "offsets"
Addresses(i, f) == IF ByOffset(i) THEN [k \in 1 .. i.init[1].size |-> i.text[1] + f.initOffset] ELSE <<>>
InitializersFit(i, f) ==
    /\ i.init # <<>> /\ i.init[1].size > 0 =>
          /\ Readable(i, i.init[1].address)
          /\ i.init[1].type = "pointers" /\ ~i.chained => Executable(i, f.initPointer)
    /\ \A k \in DOMAIN Addresses(i, f) : Executable(i, Addresses(i, f)[k])

\* The mapped header must be the one in the file.
HeaderFits(i) == Readable(i, i.text[1]) /\ i.memory[i.text[1]].byte = i.slice

\* gi_extent: [low, size] of what is mapped, to whole pages.
Extent(i) ==
    LET held == {s \in ToSet(i.segments) : s.size # 0 /\ s.name # "pagezero"}
        low == Min({s.address : s \in held})
    IN  IF held = {} THEN [low |-> i.text[1], size |-> 0]
        ELSE [low |-> low, size |-> ((Max({s.address + s.size : s \in held}) - low + Page - 1) \div Page) * Page]

-----------------------------------------------------------------------------
(* What is allocated.                                                      *)

\* The names a load has read, the pages it has mapped.
NameBlocks(i) == UNION {{kind} \X (1 .. i.names[kind]) : kind \in DOMAIN i.names}
PageBlocks(i) == {"page"} \X {a \div Page : a \in DOMAIN i.memory}
TrieBlocks(i) == IF i.trie THEN {<<"trie", 0>>} ELSE {}
ListBlocks(i) == IF i.list THEN {<<"list", 0>>} ELSE {}

\* Wrong form of Freed: the list of initializers is forgotten.
FreedButList(i) == NameBlocks(i) \cup TrieBlocks(i) \cup PageBlocks(i)

\* What gi_destroy frees.
Freed(i) == NameBlocks(i) \cup TrieBlocks(i) \cup ListBlocks(i) \cup PageBlocks(i)

-----------------------------------------------------------------------------
(* A load.                                                                 *)

NoLoad == [at |-> "none", next |-> 1, image |-> Empty]
InUse(i) == i.memory # <<>> \/ i.segments # <<>>

\* Where the load goes on, with what image.
GoesTo(at, next, i) == staged' = [at |-> at, next |-> next, image |-> i]
Fails(i) == GoesTo("failed", 1, i)
Allocates(new) == blocks' = blocks \cup new

\* An image in use is not loaded over.
Begin ==
    /\ staged = NoLoad /\ ~InUse(image)
    /\ LET slice == Slice(file)
       IN  IF slice.ok /\ Within(Header, file.commandsEnd - Header, slice.size)
           THEN GoesTo("commands", 1, [Empty EXCEPT !.slice = slice.offset])
           ELSE Fails(Empty)
    /\ UNCHANGED <<file, image, source, blocks>>

InCommands == staged.at = "commands" /\ staged.next <= Len(file.commands)
Kept(c) == Command(staged.image, c, Slice(file).size, file.commandsEnd)

ReadCommand ==
    /\ InCommands
    /\ LET c == file.commands[staged.next]
       IN  /\ c.command \notin DOMAIN staged.image.names
           /\ IF IsBad(Kept(c)) THEN Fails(staged.image) ELSE GoesTo("commands", staged.next + 1, Kept(c))
    /\ UNCHANGED <<file, image, source, blocks>>

\* A name is the image's before it is read.
ReadName ==
    /\ InCommands
    /\ LET c == file.commands[staged.next]
       IN  /\ c.command \in DOMAIN staged.image.names
           /\ IF IsBad(Kept(c)) THEN Fails(staged.image) /\ UNCHANGED blocks
              ELSE /\ Fails(Kept(c)) \/ GoesTo("commands", staged.next + 1, Kept(c))
                   /\ Allocates(NameBlocks(Kept(c)))
    /\ UNCHANGED <<file, image, source>>

\* After the last command; so is the trie.
ReadTrie ==
    /\ staged.at = "commands" /\ staged.next > Len(file.commands)
    /\ LET i == [staged.image EXCEPT !.trie = staged.image.exports]
       IN  IF ~Complete(staged.image, file) THEN Fails(staged.image) /\ UNCHANGED blocks
           ELSE /\ (i.trie /\ Fails(i)) \/ GoesTo("segments", 1, i)
                /\ Allocates(TrieBlocks(i))
    /\ UNCHANGED <<file, image, source>>

\* gm_map, and then gm_populate with what is read.
MapSegment ==
    /\ staged.at = "segments" /\ staged.next <= Len(staged.image.segments)
    /\ LET i == PlaceSegment(file, staged.image, staged.next)
           content == staged.image.segments[staged.next].fileSize > 0
       IN  IF IsBad(i) THEN Fails(staged.image) /\ UNCHANGED blocks
           ELSE /\ (content /\ Fails(i)) \/ GoesTo("segments", staged.next + 1, i)
                /\ Allocates(PageBlocks(i))
    /\ UNCHANGED <<file, image, source>>

FindEntry ==
    /\ staged.at = "segments" /\ staged.next > Len(staged.image.segments)
    /\ LET i == Entered(staged.image)
       IN  IF IsBad(i) THEN Fails(staged.image) ELSE GoesTo("initializers", 1, i)
    /\ UNCHANGED <<file, image, source, blocks>>

\* The list of initializers is filled one by one, and the header compared last.
ReadInitializers ==
    /\ staged.at = "initializers"
    /\ LET i == [staged.image EXCEPT !.list = ByOffset(staged.image)]
       IN  /\ IF InitializersFit(i, file) /\ HeaderFits(i)
              THEN GoesTo("loaded", 1, [i EXCEPT !.initializers = Addresses(i, file)])
              ELSE Fails(i)
           /\ Allocates(ListBlocks(i))
    /\ UNCHANGED <<file, image, source>>

\* A read or an allocation fails before the step it is for.
Breaks ==
    /\ staged.at \in {"commands", "segments", "initializers"} /\ Fails(staged.image)
    /\ UNCHANGED <<file, image, source, blocks>>

\* load_path: the staged image becomes the caller's, or is destroyed.
Publish ==
    /\ staged.at = "loaded"
    /\ image' = staged.image /\ source' = <<file>> /\ staged' = NoLoad
    /\ UNCHANGED <<file, blocks>>

Discard ==
    /\ staged.at = "failed"
    /\ blocks' = blocks \ Freed(staged.image) /\ staged' = NoLoad
    /\ UNCHANGED <<file, image, source>>

Destroy ==
    /\ staged = NoLoad /\ InUse(image)
    /\ blocks' = blocks \ Freed(image) /\ image' = Empty /\ source' = <<>>
    /\ UNCHANGED <<file, staged>>

-----------------------------------------------------------------------------
(* Files: every layout of two segments, every pair of sections of some     *)
(* kinds, other commands, fat tables; all else as in a good file.          *)

Section(address, size, offset, type) == [address |-> address, size |-> size, offset |-> offset, type |-> type]
Seg(name, address, size, fileOffset, fileSize, read, exec, sections) ==
    [command |-> "segment", name |-> name, address |-> address, size |-> size, fileOffset |-> fileOffset,
     fileSize |-> fileSize, read |-> read, exec |-> exec, sections |-> sections]
Main(offset) == [command |-> "main", offset |-> offset]
Data(command, offset, size) == [command |-> command, offset |-> offset, size |-> size]
Plain(command) == [command |-> command]

File(slices, size, executable, commands) ==
    [slices |-> slices, size |-> size, executable |-> executable, commands |-> commands, commandsEnd |-> 2,
     initOffset |-> 1, initPointer |-> 5]

GoodText == Seg("text", 4, 4, 0, 3, TRUE, TRUE, <<>>)
Good == <<GoodText, Main(2)>>
PageZero == {<<>>, <<Seg("pagezero", 0, Low, 0, 0, FALSE, FALSE, <<>>)>>, <<Seg("pagezero", 0, Page, 0, 0, FALSE, FALSE, <<>>)>>}
Texts == {Seg("text", address, s[1], 0, s[2], read, TRUE, <<>>) :
             address \in {0, 4, 12}, s \in {<<2, 2>>, <<2, 3>>, <<4, 1>>, <<4, 3>>}, read \in BOOLEAN}
Datas == {Seg("data", address, size, offset, fileSize, TRUE, exec, <<>>) :
             address \in {2, 4, 6, 12}, size \in {0, 2, 4}, offset \in {0, 2}, fileSize \in {0, 2}, exec \in BOOLEAN}
Mains == {<<>>} \cup {<<Main(offset)>> : offset \in 1 .. 3}

\* In a data segment of six units, the last three of which no file gives.
Sections == {Section(8 + at, size, 2 + at, type) : at \in 0 .. 3, size \in 0 .. 2, type \in {"local", "localZero", "offsets", "pointers"}}
             \cup {Section(8, 2, 2, type) : type \in {"regular", "descriptors", "unwind"}} \cup {Section(8, 2, 3, "regular")}
SectionLists == {<<a, b>> : a, b \in Sections} \cup {<<a>> : a \in Sections}
Others == {Plain("library"), Plain("rpath"), Plain("encrypted"), Plain("other"), Data("exports", 1, 2), Data("exports", 3, 2), Data("chained", 2, 1),
           Data("chained", 2, 5), Main(2), GoodText, Seg("text", 8, 2, 0, 2, TRUE, TRUE, <<Section(8, 1, 0, "unwind")>>)}
FatSlices == {[plain |-> plain, offset |-> offset, size |-> size] : plain \in BOOLEAN, offset \in {0, 1, 2, 4}, size \in {1, 4, 5}}

Init ==
    /\ \/ \E zero \in PageZero, text \in Texts, data \in Datas, main \in Mains, executable \in BOOLEAN :
             file = File(<<>>, 4, executable, zero \o <<text, data>> \o main)
       \/ \E sections \in SectionLists, at \in {1, 4}, chained \in {<<>>, <<Data("chained", 2, 1)>>} :
             file = [File(<<>>, 6, FALSE, <<GoodText, Seg("data", 8, 6, 2, 3, TRUE, FALSE, sections)>> \o chained)
                        EXCEPT !.initOffset = at, !.initPointer = GoodText.address + at]
       \/ \E a, b \in Others : file = File(<<>>, 4, TRUE, Good \o <<a, b>>)
       \/ \E slices \in {<<a>> : a \in FatSlices} \cup {<<a, b>> : a, b \in FatSlices} : file = File(slices, 6, TRUE, Good)
    /\ image = Empty /\ source = <<>> /\ staged = NoLoad /\ blocks = {}

Next ==
    \/ Begin \/ ReadCommand \/ ReadName \/ ReadTrie \/ MapSegment \/ FindEntry \/ ReadInitializers
    \/ Breaks \/ Publish \/ Discard \/ Destroy

-----------------------------------------------------------------------------
(* Properties.                                                             *)

Held == image # Empty
Content == {s \in ToSet(image.segments) : s.name # "pagezero" /\ s.size # 0}
Span(s) == s.address .. s.address + s.size - 1

\* A loaded image maps each of its segments whole, none over another and none
\* past the top of the address space, with the file's bytes and then zeroes; an
\* executable's all lie above the 4 GiB, and together they keep to the budget.
SegmentsAreMappedApart ==
    Held =>
        /\ DOMAIN image.memory = UNION {Span(s) : s \in Content}
        /\ \A s \in Content : \A a \in Span(s) :
              image.memory[a].byte = IF a - s.address < s.fileSize THEN image.slice + s.fileOffset + a - s.address ELSE Zero
        /\ MapThenSumSet(LAMBDA s : s.size, Content) = image.mapped /\ image.mapped <= MapBudget
        /\ source[1].executable => \A a \in DOMAIN image.memory : a >= Low

\* The entry is the byte of the slice that LC_MAIN names, and it is code.
EntryIsCode ==
    Held /\ source[1].executable =>
        Executable(image, image.entry) /\ image.memory[image.entry].byte = image.slice + image.entryOffset[1]

\* Every initializer that is known is code: of offsets all, of pointers the first,
\* unless fixups have yet to write it.  There is one for every offset.
InitializersAreCode ==
    Held /\ image.init # <<>> =>
        /\ image.init[1].type = "offsets" => Len(image.initializers) = image.init[1].size
        /\ \A k \in DOMAIN image.initializers : Executable(image, image.initializers[k])
        /\ image.init[1].type = "pointers" /\ image.init[1].size > 0 /\ ~image.chained =>
               Executable(image, source[1].initPointer)

\* The range an image is placed by is the least one of whole pages that holds all
\* it maps.
ExtentHoldsTheImage ==
    Held => LET e == Extent(image)
            IN  /\ DOMAIN image.memory \subseteq e.low .. e.low + e.size - 1 /\ e.size % Page = 0
                /\ e.low \in DOMAIN image.memory /\ \E a \in DOMAIN image.memory : a >= e.low + e.size - Page

\* The template of the thread-local storage holds every section of it that is not
\* empty, in whatever order they come, and begins and ends with one.
TemplateHoldsItsSections ==
    Held => LET local == {t \in UNION {ToSet(s.sections) : s \in ToSet(image.segments)} : t.type \in {"local", "localZero"}}
                end == image.tls.address + image.tls.size
            IN  image.tls.size # 0 \/ (\E t \in local : t.size # 0) =>
                    /\ \A t \in local : t.size # 0 => t.address >= image.tls.address /\ t.address + t.size <= end
                    /\ \E t, u \in local : t.address = image.tls.address /\ u.address + u.size = end

\* What an image can reach.
Reached(i) == NameBlocks(i) \cup TrieBlocks(i) \cup ListBlocks(i) \cup PageBlocks(i)
Count(f, kind) == Cardinality({k \in DOMAIN f.commands : f.commands[k].command = kind})

\* All that is allocated belongs to the caller's image or to a load that is under
\* way, whatever step earlier loads failed at, and nothing of theirs is freed; the
\* caller's image is empty until a load has succeeded, and then it has all that the
\* file's commands ask for.
LoadedWholeOrNotAtAll ==
    /\ blocks = Reached(image) \cup Reached(staged.image)
    /\ staged # NoLoad => image = Empty
    /\ IF source = <<>> THEN image = Empty
       ELSE LET f == source[1]
            IN  /\ image.segments = SelectSeq(f.commands, LAMBDA c : c.command = "segment")
                /\ \A kind \in DOMAIN image.names : image.names[kind] = Count(f, kind)
                /\ image.trie = (Count(f, "exports") > 0) /\ image.list = ByOffset(image)
                /\ Count(f, "encrypted") = 0
=============================================================================
