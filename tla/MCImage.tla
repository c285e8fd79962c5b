------------------------------- MODULE MCImage -------------------------------
(* What becomes of an image: loaded, found with the libraries it needs, asked  *)
(* for its symbols, and fixed up.  Each part is a module of its own, over      *)
(* files, links, tries and opcode streams of its own; a state is about one of  *)
(* them, its subject, and question, answer and context are that module's       *)
(* variables; staged and blocks are those of a load.                           *)
EXTENDS Integers, Sequences

VARIABLES subject, context, question, answer, staged, blocks
vars == <<subject, context, question, answer, staged, blocks>>

\* A page zero that is never mapped, and two segments, of which the first holds
\* three pointers.
Segments ==
    <<[address |-> 0, size |-> 4, prot |-> FALSE], [address |-> 4, size |-> 6, prot |-> TRUE],
      [address |-> 10, size |-> 3, prot |-> TRUE]>>
\* One found, one weak and missing, one missing.
Imports ==
    <<[found |-> TRUE, weak |-> FALSE, addend |-> 1], [found |-> FALSE, weak |-> TRUE, addend |-> 2],
      [found |-> FALSE, weak |-> FALSE, addend |-> 0]>>

Image == INSTANCE ImageLoad WITH
    Page <- 2, Width <- 16, Low <- 4, MapBudget <- 10, MaxSegments <- 3, MaxNames <- 1,
    file <- question, image <- answer, source <- context
Trie == INSTANCE ExportTrie WITH Extra <- 2, Width <- 16, image <- context, symbol <- question
Set == INSTANCE LinkSet WITH Limit <- 3, world <- context, set <- answer
Lookup == INSTANCE LinkLookup WITH world <- context
Opcodes == INSTANCE Fixups WITH
    Dylibs <- 1, Modulus <- 16, Slide <- 5, Symbols <- {"a", "b"}, CountLimit <- 4, MaxLength <- 3,
    GroupBits <- 2, WordBits <- 5
Chains == INSTANCE ChainedFixups WITH
    SegmentStart <- 4, SegmentSize <- 6, PageSize <- 4, Header <- 2, Slide <- 5, Offset <- TRUE,
    Nexts <- {0, 2, 3}, Modulus <- 16

NoLoad == staged = <<>> /\ blocks = {}

Init ==
    \/ subject = "image" /\ Image!Init
    \/ subject = "trie" /\ Trie!Init /\ NoLoad
    \/ subject = "set" /\ Set!Init /\ question = <<>> /\ NoLoad
    \/ subject = "lookup" /\ Lookup!Init /\ NoLoad
    \/ subject = "opcodes" /\ Opcodes!Init /\ context = <<>> /\ NoLoad
    \/ subject = "chains" /\ Chains!Init /\ context = <<>> /\ NoLoad

Asks ==
    \/ subject = "trie" /\ Trie!Next
    \/ subject = "set" /\ Set!Next /\ UNCHANGED question
    \/ subject = "lookup" /\ Lookup!Next
    \/ subject = "opcodes" /\ Opcodes!Answers /\ UNCHANGED context
    \/ subject = "chains" /\ Chains!Answers /\ UNCHANGED context

Next ==
    /\ UNCHANGED subject
    /\ \/ subject = "image" /\ Image!Next
       \/ Asks /\ UNCHANGED <<staged, blocks>>

Spec == Init /\ [][Next]_vars

-----------------------------------------------------------------------------
(* Properties, of the subject a state is about.                            *)

\* gi_load leaves a whole image or none, at whatever step it fails, and what it had
\* allocated is freed: the segments of an image are mapped apart and inside the
\* file, its entry and initializers are code, its extent and its thread-local
\* template hold what they should.
LoadsAreWhole ==
    subject = "image" =>
        /\ Image!LoadedWholeOrNotAtAll /\ Image!SegmentsAreMappedApart /\ Image!EntryIsCode /\ Image!InitializersAreCode
        /\ Image!ExtentHoldsTheImage /\ Image!TemplateHoldsItsSections

\* gi_export finds exactly the symbols the trie spells, follows no loop for ever,
\* and answers with an address of the image.
ExportsAreFound ==
    subject = "trie" => Trie!FoundIsSpelled /\ Trie!SpelledIsFound /\ Trie!ExportsPointIntoTheImage

\* The libraries an application carries are all it needs and nothing outside it,
\* and a lookup among them finds the definition dyld's rules choose, through
\* re-exports, weak definitions and loops of links.
LinksAreRight ==
    /\ subject = "set" => /\ Set!CarriedOnceInside /\ Set!SetIsClosed
                          /\ Set!LoadersComeFirst /\ Set!RunPathsAreSearchedInOrder
    /\ subject = "lookup" => /\ Lookup!AnswersAreReachable /\ Lookup!DefinitionsAreFound
                             /\ Lookup!WeakDefinitionsAgree /\ Lookup!InitializersRunAfterNeeds

\* Opcodes and chains write inside the image's own segments, each pointer once and
\* with the value it stands for, whatever stream, page or chain it comes from.
FixupsAreExact ==
    /\ subject = "opcodes" => /\ Opcodes!FixupsAreConfined /\ Opcodes!RebasesSlide /\ Opcodes!RepeatsAreLoops
                              /\ Opcodes!LazyRecordsStandAlone /\ Opcodes!LaterStreamsWin /\ Opcodes!LebIsExact
    /\ subject = "chains" => Chains!ChainsAreFixedOnce /\ Chains!ChainsStayOnTheirPage
==============================================================================
