----------------------------- MODULE ExportTrie ------------------------------
(***************************************************************************)
(* gi_export of GuestImage.c: the walk through an image's export trie.     *)
(*                                                                         *)
(* A node is [terminal, edges]: what its symbol is, if one ends there, and *)
(* its edges in order, each a label and the node it leads to; Outside      *)
(* stands for an offset past the end.  Numbers are of Width values.  A     *)
(* behaviour answers one query.                                            *)
(***************************************************************************)
EXTENDS Integers, Sequences, SequencesExt

CONSTANTS
    Extra,              \* the empty edges a walk may take: 8192
    Width               \* 2^64

VARIABLES image, symbol, answer
vars == <<image, symbol, answer>>

Outside == 3
Invalid == [result |-> "invalid"]
Absent == [result |-> "missing"]

-----------------------------------------------------------------------------
(* What a terminal says.                                                   *)

\* The address of an offset from the header, or none when it would wrap.
Slid(i, value) == IF value > Width - 1 - i.header THEN -1 ELSE value + i.header

\* Only a segment with some protection counts.
Mapped(i, address) ==
    \E s \in i.segments : s.prot /\ address >= s.address /\ address - s.address < s.size

\* A thread-local symbol is one of the image's descriptors, three words each.
Descriptor(i, address) ==
    /\ address >= i.descriptors /\ address - i.descriptors < i.descriptorsSize
    /\ (address - i.descriptors) % i.descriptor = 0

Terminal(i, t) ==
    LET address == IF t.kind = "absolute" THEN t.value ELSE Slid(i, t.value)
    IN  CASE t.kind = "unknown" -> Invalid
          [] t.kind = "reexport" ->
                 IF t.value \in 1 .. i.libraries /\ t.name # "unterminated"
                 THEN [result |-> "reexport", ordinal |-> t.value, name |-> t.name]
                 ELSE Invalid
          [] OTHER ->
                 IF \/ t.kind # "absolute" /\ (address = -1 \/ ~Mapped(i, address))
                    \/ t.kind = "local" /\ ~Descriptor(i, address)
                 THEN Invalid
                 ELSE [result |-> "found", address |-> address, weak |-> t.weak, perThread |-> t.kind = "local"]

-----------------------------------------------------------------------------
(* The walk.                                                               *)

Matches(label, rest) == IsPrefix(label, rest)

\* All the edges are read: an offset outside, or two labelled edges that match,
\* make the trie invalid; an empty label always matches; the first match is taken.
Scan(edges, rest) ==
    FoldLeft(LAMBDA acc, e :
        LET matches == Matches(e.label, rest)
            labelled == matches /\ e.label # <<>>
        IN  IF acc.invalid \/ e.to = Outside \/ (labelled /\ acc.labelled) THEN [acc EXCEPT !.invalid = TRUE]
            ELSE [invalid |-> FALSE, labelled |-> acc.labelled \/ labelled,
                  found |-> IF matches /\ acc.found = <<>> THEN <<e>> ELSE acc.found],
        [invalid |-> FALSE, labelled |-> FALSE, found |-> <<>>], edges)

\* One node: either an answer or the next node and what is left of the symbol.
Step(i, walk) ==
    LET node == i.trie[walk.node]
        scanned == Scan(node.edges, walk.rest)
    IN  IF walk.rest = <<>> /\ node.terminal # <<>> THEN [walk EXCEPT !.result = <<Terminal(i, node.terminal[1])>>]
        ELSE IF scanned.invalid THEN [walk EXCEPT !.result = <<Invalid>>]
        ELSE IF scanned.found = <<>> THEN [walk EXCEPT !.result = <<Absent>>]
        ELSE [node |-> scanned.found[1].to, result |-> <<>>,
              rest |-> SubSeq(walk.rest, Len(scanned.found[1].label) + 1, Len(walk.rest))]

\* Wrong form of Budget: the empty edges alone.
BudgetShort(name) == Extra

\* Every labelled edge takes a character at least, and the rest are empty.
Budget(name) == Len(name) + Extra

Export(i, name) ==
    LET walked == FoldLeft(LAMBDA walk, n : IF walk.result # <<>> THEN walk ELSE Step(i, walk),
                           [node |-> 0, rest |-> name, result |-> <<>>], [n \in 1 .. Budget(name) |-> n])
    IN  IF name = <<>> THEN Invalid ELSE IF i.trie = <<>> THEN Absent
        ELSE IF walked.result = <<>> THEN Invalid ELSE walked.result[1]

-----------------------------------------------------------------------------
(* Queries: every trie of three nodes, then every terminal.                *)

Edges(labels, nodes) == {[label |-> l, to |-> n] : l \in labels, n \in nodes}
Lists(edges) == {<<>>} \cup {<<a>> : a \in edges} \cup {<<a, b>> : a, b \in edges}
Ends(n) == {<<>>, <<[kind |-> "absolute", weak |-> FALSE, value |-> n]>>}
Nodes(n, lists) == [terminal : Ends(n), edges : lists]
Labels == {<<>>, <<"a">>, <<"a", "b">>}

Image(trie) ==
    [trie |-> trie, header |-> 10, libraries |-> 2, descriptors |-> 12, descriptorsSize |-> 3, descriptor |-> 2,
     segments |-> {[address |-> 0, size |-> 4, prot |-> FALSE], [address |-> 1, size |-> 2, prot |-> TRUE],
                   [address |-> 10, size |-> 5, prot |-> TRUE]}]
Tries ==
    {[n \in 0 .. 2 |-> IF n = 0 THEN root ELSE IF n = 1 THEN one ELSE two] :
        root \in Nodes(0, Lists(Edges(Labels, {1, 2}) \cup Edges({<<"b">>}, {Outside}))),
        one \in Nodes(1, {<<>>} \cup {<<e>> : e \in Edges(Labels, {0, 2})}),
        two \in Nodes(2, {<<>>} \cup {<<e>> : e \in Edges({<<>>, <<"a">>}, {1, Outside})})}
Terminals ==
    [kind : {"regular", "absolute", "local", "unknown"}, weak : BOOLEAN, value : 0 .. Width - 1]
        \cup [kind : {"reexport"}, value : 0 .. 3, name : {"same", "other", "unterminated"}]
Single(t) == [n \in 0 .. 1 |-> IF n = 0 THEN [terminal |-> <<>>, edges |-> <<[label |-> <<"a">>, to |-> 1]>>]
                               ELSE [terminal |-> <<t>>, edges |-> <<>>]]

Init ==
    /\ \/ image \in {Image(trie) : trie \in Tries \cup {<<>>}} /\ symbol \in {<<"a">>, <<"a", "b">>, <<"a", "a">>}
       \/ image \in {Image(Single(t)) : t \in Terminals} /\ symbol \in {<<"a">>, <<>>}
    /\ answer = <<>>

Query == answer = <<>> /\ answer' = <<Export(image, symbol)>> /\ UNCHANGED <<image, symbol>>
Next == Query
Spec == Init /\ [][Next]_vars

-----------------------------------------------------------------------------
(* Properties.                                                             *)

\* The places a walk may stand at: a node and what is left of the symbol.
Onward(place) ==
    {<<e.to, SubSeq(place[2], Len(e.label) + 1, Len(place[2]))>> :
        e \in {d \in ToSet(image.trie[place[1]].edges) : d.to # Outside /\ Matches(d.label, place[2])}}
Places ==
    LET reach[n \in 0 .. 6] == IF n = 0 THEN {<<0, symbol>>} ELSE reach[n - 1] \cup UNION {Onward(p) : p \in reach[n - 1]}
    IN  reach[6]
Spelled == {image.trie[p[1]].terminal[1] : p \in {q \in Places : q[2] = <<>> /\ image.trie[q[1]].terminal # <<>>}}

\* A trie as a linker writes it: no way back, no offset outside, an empty edge
\* alone at its node, and no two edges that begin alike.
WellFormed ==
    \A n \in DOMAIN image.trie :
        LET edges == image.trie[n].edges
        IN  /\ \A k \in DOMAIN edges : edges[k].to # Outside /\ edges[k].to > n
            /\ \A k, l \in DOMAIN edges : k < l => /\ edges[k].label # <<>> /\ edges[l].label # <<>>
                                                   /\ edges[k].label[1] # edges[l].label[1]
Answered == answer # <<>> /\ symbol # <<>> /\ image.trie # <<>>

\* What is found is what a terminal says that some way from the root spells the
\* symbol to, in whatever trie, cycles of empty edges included; and two ways on
\* are never chosen between silently.
FoundIsSpelled ==
    Answered /\ answer[1].result \in {"found", "reexport"} =>
        /\ answer[1] \in {Terminal(image, t) : t \in Spelled}
        /\ \A k, l \in DOMAIN image.trie[0].edges :
              k < l /\ image.trie[0].edges[k].label # <<>> /\ image.trie[0].edges[l].label # <<>>
                => ~(Matches(image.trie[0].edges[k].label, symbol) /\ Matches(image.trie[0].edges[l].label, symbol))

\* In a trie as a linker writes it a symbol is found exactly when it is spelled:
\* the budget never runs out, and empty edges hide nothing.
SpelledIsFound ==
    Answered /\ WellFormed => answer[1] = IF Spelled = {} THEN Absent ELSE Terminal(image, CHOOSE t \in Spelled : TRUE)

\* An address that is found lies where the image is mapped, at or above its
\* header, by as much as the trie says.
ExportsPointIntoTheImage ==
    Answered /\ answer[1].result = "found" =>
        \E t \in Spelled :
            \/ t.kind = "absolute" /\ answer[1].address = t.value
            \/ /\ t.kind \in {"regular", "local"} /\ answer[1].address - image.header = t.value
               /\ \E s \in image.segments : s.prot /\ answer[1].address \in s.address .. s.address + s.size - 1
=============================================================================
