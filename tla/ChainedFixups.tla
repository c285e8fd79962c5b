--------------------------- MODULE ChainedFixups ---------------------------
(***************************************************************************)
(* GuestFixups.c, chained fixups: the pointers themselves hold the list.   *)
(* Each says what it is to become (a slid address or an import) and how    *)
(* far the next one of its chain is; a table lists where the chains of     *)
(* each page begin.                                                        *)
(*                                                                         *)
(* A cell is a stride, half a pointer; a pointer is held in its first      *)
(* cell.  The image is one segment; its table may point anywhere.  Chains  *)
(* that share cells are left out: a linker never writes them, and the      *)
(* second would take the first one's values for records.                   *)
(***************************************************************************)
EXTENDS Integers, Sequences, FiniteSets, SequencesExt

CONSTANTS SegmentStart, SegmentSize,    \* cells of the segment
          PageSize,
          Header,       \* header_address
          Slide,
          Offset,       \* the format's targets are offsets from the header
          Imports,      \* chained imports: [weak, addend, found]
          Nexts,        \* distances to the next pointer, 0 at the end
          Modulus

VARIABLES question, answer
vars == <<question, answer>>

Pointer == 2
Cells == SegmentStart .. SegmentStart + SegmentSize - 1
SegmentEnd == SegmentStart + SegmentSize
Pages == 2
None == -1
Wrap(v) == v % Modulus

\* A record: a bind of an import or a rebase to a target, and the distance to
\* the next pointer, 0 for the last.  Fixed pointers hold a value.
Records == [bind : {TRUE}, n : 0 .. Len(Imports), next : {0}] \cup [bind : {FALSE}, n : {1}, next : Nexts]
Value(v) == [value |-> v]

\* base is the segment_offset of the table.
PageStart(base, page) == Header + base + page * PageSize

\* Wrong form of PageEnd: a chain may run on to the next page.
PageEndSegment(base, page) == SegmentEnd

\* A chain stays on its page, inside the segment.
PageEnd(base, page) ==
    IF PageStart(base, page) + PageSize > SegmentEnd THEN SegmentEnd ELSE PageStart(base, page) + PageSize

-----------------------------------------------------------------------------
(* One chain.  s = [status, mem, at, fixed].                               *)

Fails(s) == [s EXCEPT !.status = "failed"]

\* What the pointer becomes, or nothing if its import cannot be found.
Becomes(r) ==
    IF r.bind
    THEN IF r.n >= Len(Imports) THEN None
         ELSE LET i == Imports[r.n + 1]
              IN  IF ~i.found /\ ~i.weak THEN None ELSE Wrap((IF i.found THEN 8 ELSE 0) + i.addend)
    ELSE Wrap(r.n + Slide + IF Offset THEN Header ELSE 0)

\* The record is read before it is replaced.
Link(q, s, page) ==
    LET r == s.mem[s.at]
        v == Becomes(r)
    IN  IF s.at > PageEnd(q.base, page) - Pointer \/ s.at < PageStart(q.base, page) THEN Fails(s)
        ELSE IF v = None THEN Fails(s)
        ELSE [s EXCEPT !.mem[s.at] = Value(v), !.fixed = @ + 1, !.at = @ + r.next,
                       !.status = IF r.next = 0 THEN "ended" ELSE "running"]

\* Follows a chain to its end; there is a bound on its pointers.
Chain(q, s, page, start) ==
    LET begun == [s EXCEPT !.status = "running", !.at = PageStart(q.base, page) + start]
        followed == FoldLeft(LAMBDA acc, k : IF acc.status = "running" THEN Link(q, acc, page) ELSE acc,
                             begun, [k \in 1 .. SegmentSize + 1 |-> k])
    IN  IF followed.status = "running" THEN Fails(followed) ELSE followed

\* The starts of a page's chains: none, one, or a list further along that goes
\* on to an entry marked as the last.  A list that leaves the table is followed
\* to its end and then refused, like a start beyond its page.
Starts(q, entry) ==
    CASE entry.kind = "none" -> <<>>
      [] entry.kind = "one" -> <<entry.n>>
      [] OTHER ->
            LET lasts == {k \in entry.n .. Len(q.list) : q.list[k].last}
                end == IF lasts = {} THEN Len(q.list) ELSE CHOOSE k \in lasts : \A j \in lasts : k <= j
            IN  [k \in 1 .. end - entry.n + 1 |-> q.list[entry.n + k - 1].start] \o IF lasts = {} THEN <<PageSize>> ELSE <<>>

\* Page by page, chain by chain, until one fails.
Page(q, s, page) ==
    FoldLeft(LAMBDA acc, start :
                 IF acc.status = "failed" THEN acc
                 ELSE IF \/ start >= PageSize
                         \/ PageStart(q.base, page) < SegmentStart \/ PageStart(q.base, page) >= SegmentEnd THEN Fails(acc)
                 ELSE Chain(q, acc, page, start),
             s, Starts(q, q.table[page + 1]))

Chained(q) ==
    FoldLeft(LAMBDA acc, p : Page(q, acc, p - 1),
             [status |-> "ended", mem |-> q.mem, at |-> 0, fixed |-> 0], [p \in 1 .. Len(q.table) |-> p])

-----------------------------------------------------------------------------
(* Questions: all records in the even cells, all tables of two pages.      *)

Unanswered == <<>>
Entry(kind, n) == [kind |-> kind, n |-> n]
Entries(starts) == {Entry("none", 0)} \cup {Entry("one", n) : n \in starts} \cup {Entry("list", n) : n \in 1 .. 2}
Lists == [1 .. 2 -> [start : {0, PageSize - 1}, last : BOOLEAN]]
Odd == [bind |-> FALSE, n |-> 0, next |-> 0]

\* The pointers of the chain that starts at a cell, as the image lists them.
Listed(mem, start) ==
    LET from[c \in 0 .. SegmentEnd + Pointer + 1] ==
            IF c \notin Cells THEN {c} ELSE IF mem[c].next = 0 THEN {c} ELSE {c} \cup from[c + mem[c].next]
    IN  from[start]
\* The chains of an image: page and start, with its place in the list.
Listings(q) ==
    UNION {LET e == q.table[p]
           IN  CASE e.kind = "none" -> {}
                 [] e.kind = "one" -> {<<p, e.n, 0>>}
                 [] OTHER -> {<<p, q.list[k].start, k>> :
                                k \in {j \in e.n .. Len(q.list) : \A i \in e.n .. j - 1 : ~q.list[i].last}} :
           p \in 1 .. Pages}
ChainOf(q, l) == Listed(q.mem, PageStart(q.base, l[1] - 1) + l[2])
Apart(q) ==
    \A l, o \in Listings(q) : l # o => \A c \in ChainOf(q, l), d \in ChainOf(q, o) : c - d >= Pointer \/ d - c >= Pointer

Init ==
    /\ answer = Unanswered
    /\ \E first \in Entries({0, 1}), second \in Entries({0, PageSize}), list \in Lists, base \in {SegmentStart - Header, 0},
          even \in [{c \in Cells : c % Pointer = 0} -> Records] :
          /\ question = [table |-> <<first, second>>, list |-> list, base |-> base,
                         mem |-> [c \in Cells |-> IF c % Pointer = 0 THEN even[c] ELSE Odd]]
          /\ first.kind # "list" /\ second.kind # "list" => list = CHOOSE l \in Lists : TRUE
          /\ Apart(question)

Answers == answer = Unanswered /\ answer' = <<Chained(question)>> /\ UNCHANGED question
Spec == Init /\ [][Answers]_vars

-----------------------------------------------------------------------------
(* Properties.                                                             *)

AllListed == UNION {ChainOf(question, l) : l \in Listings(question)}

\* Every pointer some chain lists has become what its record said, exactly once,
\* and nothing else has changed; all of that or the image is refused.
ChainsAreFixedOnce ==
    (answer # Unanswered /\ answer[1].status # "failed") =>
        /\ answer[1].fixed = Cardinality(AllListed)
        /\ \A c \in Cells : answer[1].mem[c] = IF c \in AllListed THEN Value(Becomes(question.mem[c]))
                                               ELSE question.mem[c]

\* No chain takes a pointer that is not whole on its page: even of an image that
\* is refused, only such pointers were touched.
ChainsStayOnTheirPage ==
    answer # Unanswered =>
        \A c \in Cells : answer[1].mem[c] # question.mem[c] =>
            \E p \in 0 .. Pages - 1 : /\ question.table[p + 1].kind # "none" /\ c >= PageStart(question.base, p)
                                      /\ c + Pointer <= PageStart(question.base, p) + PageSize
=============================================================================
