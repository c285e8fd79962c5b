--------------------------- MODULE UnwindRegistry ---------------------------
(***************************************************************************)
(* GuestUnwind.c: the table in which the system's unwinder finds the       *)
(* sections of images placed outside dyld.  One thread registers images;   *)
(* any thread may unwind meanwhile and reads the table without a lock.     *)
(*                                                                         *)
(* The count is stored with release and loaded with acquire, so a reader   *)
(* that sees it sees what was written before: steps interleave here, none  *)
(* is reordered.  The unwinder's registration is external.                 *)
(***************************************************************************)
EXTENDS Integers, Sequences

CONSTANTS
    Slots,              \* NG_UNWIND_IMAGES
    Headers,            \* where images are placed: numbers
    Space               \* code addresses, up to the last that does not wrap

VARIABLES
    images,             \* the table: [header, code], header 0 while it is not set
    count,              \* image_count
    finder,             \* remove_finder: the unwinder asks find_sections
    add,                \* ng_unwind_add: how far it is
    registered,         \* the images whose registration was answered with true
    find                \* find_sections in another thread

vars == <<images, count, finder, add, registered, find>>

Empty == [header |-> 0, code |-> <<>>]
Asleep == [pc |-> "idle", at |-> 0, count |-> 0, i |-> 1, answer |-> Empty, known |-> 0]
Idle == [pc |-> "idle", image |-> Empty, next |-> 1, sections |-> "none"]

\* Segments as they lie after the slide; the last one's end wraps.
SegmentKinds == {[start |-> 0, size |-> 1, exec |-> TRUE], [start |-> 1, size |-> 2, exec |-> TRUE],
                 [start |-> 0, size |-> 2, exec |-> FALSE], [start |-> Space, size |-> 1, exec |-> TRUE]}
Segments == UNION {[1 .. n -> SegmentKinds] : n \in 0 .. 2}

\* What the executable ones among the first n segments cover.
Filled(segments) ==
    LET code[n \in 0 .. Len(segments)] ==
            IF n = 0 THEN <<>>
            ELSE IF segments[n].exec THEN Append(code[n - 1], [start |-> segments[n].start, size |-> segments[n].size])
            ELSE code[n - 1]
    IN  code

\* The address lies in one of the ranges.
Covers(code, pc) == \E j \in DOMAIN code : pc >= code[j].start /\ pc - code[j].start < code[j].size

Init ==
    /\ images = [i \in 1 .. Slots |-> Empty] /\ count = 0 /\ finder = FALSE /\ add = Idle /\ registered = <<>>
    /\ find = Asleep

-----------------------------------------------------------------------------
(* ng_unwind_add.                                                          *)

\* What section_valid says of the two sections: none, inside a readable segment's
\* file bytes, or not.
Sections == {"none", "inside", "outside"}

\* The checks: an image without sections needs no place; the table has one for each
\* header.
Begin ==
    /\ add.pc = "idle"
    /\ \E header \in Headers, segments \in Segments, sections \in Sections :
          LET taken == \E i \in 1 .. count : images[i].header = header
          IN  add' = IF sections # "inside" \/ count = Slots \/ taken THEN add
                     ELSE [pc |-> "clear", image |-> [header |-> header, code |-> segments], next |-> 1, sections |-> sections]
    /\ UNCHANGED <<images, count, finder, registered, find>>

\* Wrong form of Cleared: what an earlier attempt left stays.
ClearedNever(i) == images

\* memset of the slot.
Cleared(i) == [images EXCEPT ![i] = Empty]

ClearStep ==
    /\ add.pc = "clear" /\ images' = Cleared(count + 1) /\ add' = [add EXCEPT !.pc = "fill"]
    /\ UNCHANGED <<count, finder, registered, find>>

\* One segment; one that wraps ends the call and leaves what is there.
Fill ==
    /\ add.pc = "fill" /\ add.next <= Len(add.image.code)
    /\ LET s == add.image.code[add.next]
       IN  IF ~s.exec \/ s.size = 0 THEN add' = [add EXCEPT !.next = @ + 1] /\ UNCHANGED images
           ELSE IF s.size > Space - s.start THEN add' = Idle /\ UNCHANGED images
           ELSE /\ add' = [add EXCEPT !.next = @ + 1]
                /\ images' = [images EXCEPT ![count + 1].code = Append(@, [start |-> s.start, size |-> s.size])]
    /\ UNCHANGED <<count, finder, registered, find>>

\* An image without code is refused.
Finish ==
    /\ add.pc = "fill" /\ add.next > Len(add.image.code)
    /\ IF images[count + 1].code = <<>> THEN add' = Idle /\ UNCHANGED images
       ELSE images' = [images EXCEPT ![count + 1].header = add.image.header] /\ add' = [add EXCEPT !.pc = "register"]
    /\ UNCHANGED <<count, finder, registered, find>>

\* The unwinder learns of find_sections once; that may fail.
Register ==
    /\ add.pc = "register"
    /\ \/ finder' = TRUE /\ add' = [add EXCEPT !.pc = "publish"]
       \/ ~finder /\ add' = Idle /\ UNCHANGED finder
    /\ UNCHANGED <<images, count, registered, find>>

Executable(image) == [header |-> image.header, code |-> Filled(image.code)[Len(image.code)]]

\* Now it counts.
Publish ==
    /\ add.pc = "publish" /\ count' = count + 1 /\ registered' = Append(registered, Executable(add.image)) /\ add' = Idle
    /\ UNCHANGED <<images, finder, find>>

\* ng_unwind_reset: no thread may still unwind.
Reset ==
    /\ add.pc = "idle" /\ find.pc = "idle" /\ finder /\ finder' = FALSE /\ count' = 0 /\ registered' = <<>>
    /\ UNCHANGED <<images, add, find>>

-----------------------------------------------------------------------------
(* find_sections.                                                          *)

Load ==
    /\ find.pc = "idle" /\ finder
    /\ \E at \in 0 .. Space :
          find' = [find EXCEPT !.pc = "scan", !.at = at, !.count = count, !.i = 1, !.answer = Empty, !.known = Len(registered)]
    /\ UNCHANGED <<images, count, finder, add, registered>>

More == find.i <= find.count

Scan ==
    /\ find.pc = "scan"
    /\ find' = IF ~More THEN [find EXCEPT !.pc = "done"]
               ELSE IF Covers(images[find.i].code, find.at) THEN [find EXCEPT !.pc = "copy"]
               ELSE [find EXCEPT !.i = @ + 1]
    /\ UNCHANGED <<images, count, finder, add, registered>>

Copy ==
    /\ find.pc = "copy" /\ find' = [find EXCEPT !.pc = "done", !.answer = images[find.i]]
    /\ UNCHANGED <<images, count, finder, add, registered>>

Return ==
    /\ find.pc = "done" /\ find' = Asleep
    /\ UNCHANGED <<images, count, finder, add, registered>>

Next == Begin \/ ClearStep \/ Fill \/ Finish \/ Register \/ Publish \/ Reset \/ Load \/ Scan \/ Copy \/ Return
Spec == Init /\ [][Next]_vars

-----------------------------------------------------------------------------
(* Properties.                                                             *)

In(image, pc) == pc \in UNION {image.code[j].start .. image.code[j].start + image.code[j].size - 1 : j \in DOMAIN image.code}

\* Each slot that counts is one registered image, whole and alone, whatever earlier
\* registrations left in it when they failed.
PublishedSlotsAreWhole == count = Len(registered) /\ \A i \in 1 .. count : images[i] = registered[i]

\* A thread that unwinds while an image is being registered gets the sections of an
\* image that was, and whose code the address lies in.
FoundIsRegistered ==
    find.pc = "done" /\ find.answer # Empty =>
        In(find.answer, find.at) /\ \E i \in DOMAIN registered : registered[i] = find.answer

\* An image that was registered before the question is found by every address of
\* its code: the first that has it answers.
RegisteredIsFound ==
    find.pc = "done" /\ (\E i \in 1 .. find.known : In(registered[i], find.at)) => find.answer # Empty
=============================================================================
