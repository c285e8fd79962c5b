----------------------------- MODULE LinkLookup ------------------------------
(***************************************************************************)
(* GuestLink.c, once the libraries are loaded: which of an application's   *)
(* images answers a bind (gl_lookup), and the order in which its libraries *)
(* are initialized (gl_initialization_order).                              *)
(*                                                                         *)
(* Image 0 is the executable, the others are its libraries in load order.  *)
(* links[i] are the images that i's install names point at, 0 for a file   *)
(* the application does not carry.  A behaviour answers one question.      *)
(***************************************************************************)
EXTENDS Integers, Sequences, SequencesExt, FiniteSets

VARIABLES world, question, answer
vars == <<world, question, answer>>

Executable == 0
NotCarried == 0
Libraries(w) == DOMAIN w.links \ {Executable}
LoadOrder(w) == [k \in 1 .. Cardinality(Libraries(w)) |-> k]

-----------------------------------------------------------------------------
(* Exports.                                                                *)

\* What an image's own trie says of a symbol (gi_export).
Missing == [kind |-> "missing"]
Strong == [kind |-> "strong"]
Weak == [kind |-> "weak"]
Reexport(ordinal, name) == [kind |-> "reexport", ordinal |-> ordinal, name |-> name]

\* A search: the definition it found, if any, and the libraries it has asked.
Nothing(asked) == [found |-> <<>>, asked |-> asked]
Found(i, symbol, kind, asked) == [found |-> <<[image |-> i, symbol |-> symbol, weak |-> kind = "weak"]>>, asked |-> asked]

RECURSIVE ImageExport(_, _, _, _, _)

\* library_export: each library is asked once.
LibraryExport(w, i, symbol, shallow, asked) ==
    IF i = NotCarried \/ i \in asked THEN Nothing(asked) ELSE ImageExport(w, i, symbol, shallow, asked \cup {i})

\* A re-export in the trie leads to one library, under the name it gives.
Followed(w, i, symbol, asked) ==
    LibraryExport(w, w.links[i][w.exports[i][symbol].ordinal], w.exports[i][symbol].name, FALSE, asked)

\* Wrong form of Through: only the first library that is re-exported whole.
ThroughFirst(w, i, symbol, asked) ==
    LET whole == {k \in DOMAIN w.links[i] : k \in w.whole[i]}
    IN  IF whole = {} THEN Nothing(asked)
        ELSE LibraryExport(w, w.links[i][CHOOSE k \in whole : \A l \in whole : k <= l], symbol, FALSE, asked)

\* The libraries that are re-exported whole, in the order of the install names.
Through(w, i, symbol, asked) ==
    FoldLeft(LAMBDA acc, k : IF acc.found # <<>> \/ k \notin w.whole[i] THEN acc
                             ELSE LibraryExport(w, w.links[i][k], symbol, FALSE, acc.asked),
             Nothing(asked), [k \in DOMAIN w.links[i] |-> k])

ImageExport(w, i, symbol, shallow, asked) ==
    CASE w.exports[i][symbol].kind \in {"strong", "weak"} -> Found(i, symbol, w.exports[i][symbol].kind, asked)
      [] w.exports[i][symbol].kind = "reexport" -> Followed(w, i, symbol, asked)
      [] OTHER -> IF shallow THEN Nothing(asked) ELSE Through(w, i, symbol, asked)

\* executable_export or library_export.
ExportOf(w, i, symbol, shallow, asked) ==
    IF i = Executable THEN ImageExport(w, i, symbol, shallow, asked) ELSE LibraryExport(w, i, symbol, shallow, asked)

\* What each image with weak definitions offers, in load order.
Candidates(w, symbol) ==
    FlattenSeq([k \in 1 .. Len(LoadOrder(w)) + 1 |->
                    IF w.weakDefines[k - 1] THEN ExportOf(w, k - 1, symbol, TRUE, {}).found ELSE <<>>])

\* coalesce: the first that is not weak, else the first, else the image's own.
Coalesce(w, from, symbol) ==
    LET strong == SelectSeq(Candidates(w, symbol), LAMBDA c : ~c.weak)
    IN  IF strong # <<>> THEN <<Head(strong)>>
        ELSE IF Candidates(w, symbol) # <<>> THEN <<Head(Candidates(w, symbol))>>
        ELSE ExportOf(w, from, symbol, FALSE, {}).found

\* The executable, then the libraries as loaded, until one answers.
Flat(w, symbol) ==
    FoldLeft(LAMBDA acc, i : IF acc.found # <<>> THEN acc ELSE LibraryExport(w, i, symbol, FALSE, acc.asked),
             ImageExport(w, Executable, symbol, FALSE, {}), LoadOrder(w)).found

\* gl_lookup.  A positive ordinal names one of the image's libraries; the special
\* ordinals are named for what they ask.
Lookup(w, from, ordinal, symbol) ==
    CASE ordinal \in {"first", "second"} ->
             LET n == IF ordinal = "first" THEN 1 ELSE 2
             IN  IF n > Len(w.links[from]) THEN <<>> ELSE LibraryExport(w, w.links[from][n], symbol, FALSE, {}).found
      [] ordinal = "main" -> ImageExport(w, Executable, symbol, FALSE, {}).found
      [] ordinal = "self" -> ExportOf(w, from, symbol, FALSE, {}).found
      [] ordinal = "flat" -> Flat(w, symbol)
      [] ordinal = "weak" -> Coalesce(w, from, symbol)

-----------------------------------------------------------------------------
(* Initialization.                                                         *)

RECURSIVE InitializeAfter(_, _, _)

\* initialize_after, of a library not seen yet: those it links, then itself.
Needed(w, i, acc) ==
    LET after == FoldLeft(LAMBDA a, j : IF j = NotCarried THEN a ELSE InitializeAfter(w, j, a),
                          [acc EXCEPT !.seen = @ \cup {i}], w.links[i])
    IN  [after EXCEPT !.order = Append(@, i)]

InitializeAfter(w, i, acc) == IF i \in acc.seen THEN acc ELSE Needed(w, i, acc)

\* gl_initialization_order: the executable's libraries, then the rest as loaded.
InitializationOrder(w) ==
    FoldLeft(LAMBDA acc, i : IF i = NotCarried THEN acc ELSE InitializeAfter(w, i, acc),
             [seen |-> {}, order |-> <<>>], w.links[Executable] \o LoadOrder(w)).order

-----------------------------------------------------------------------------
(* Questions: binds of "f" among three images, and orders of four.         *)

Names == {"f", "g"}
Exports(ordinals) == {Missing, Strong, Weak} \cup {Reexport(o, name) : o \in ordinals, name \in Names}
SetsOf(n) == SUBSET (1 .. n)

\* The second library also links one the application does not carry.
LookupWorlds(weakDefines, reexporting) ==
    {[links |-> (0 :> <<1, 2>>) @@ (1 :> <<2>>) @@ (2 :> <<1, NotCarried>>),
      whole |-> (0 :> w0) @@ (1 :> w1) @@ (2 :> w2),
      weakDefines |-> weakDefines,
      exports |-> (0 :> [f |-> e0, g |-> Missing]) @@ (1 :> [f |-> e1, g |-> g1]) @@ (2 :> [f |-> e2, g |-> g2])] :
        w0 \in reexporting, w1 \in SetsOf(1), w2 \in SetsOf(1), e0 \in Exports(1 .. 2), e1 \in Exports(1 .. 1), e2 \in Exports(1 .. 2),
        g1 \in {Missing, Strong}, g2 \in {Missing, Weak}}

Links(n) == {<<>>} \cup {<<a>> : a \in 1 .. n} \cup {<<a, b>> : a, b \in 1 .. n}
OrderWorlds == {[links |-> links] : links \in [0 .. 3 -> Links(3)]}

Images == 0 .. 2
Ask(from, ordinal) == [from |-> from, ordinal |-> ordinal]
Bind == {Ask(i, o) : i \in Images, o \in {"first", "second", "self"}} \cup {Ask(0, "main"), Ask(0, "flat")}
Order == Ask(0, "order")

Init ==
    /\ \/ world \in LookupWorlds([i \in Images |-> FALSE], SetsOf(2)) /\ question \in Bind
       \/ \E weak \in [Images -> BOOLEAN] : world \in LookupWorlds(weak, {{}}) /\ question \in {Ask(i, "weak") : i \in Images}
       \/ world \in OrderWorlds /\ question = Order
    /\ answer = <<>>

Answer == answer = <<>> /\ UNCHANGED <<world, question>>
LookupBind == Answer /\ question # Order /\ answer' = <<Lookup(world, question.from, question.ordinal, "f")>>
OrderLibraries == Answer /\ question = Order /\ answer' = <<InitializationOrder(world)>>

Next == LookupBind \/ OrderLibraries
Spec == Init /\ [][Next]_vars

-----------------------------------------------------------------------------
(* Properties.                                                             *)

Bound == answer # <<>> /\ question # Order
Ordered == answer # <<>> /\ question = Order

\* Where one image's answer may come from: its own definition or, without one,
\* what it re-exports.
Sources(node) ==
    LET e == world.exports[node[1]][node[2]]
    IN  CASE e.kind = "reexport" -> {<<world.links[node[1]][e.ordinal], e.name>>}
          [] e.kind = "missing" -> {<<world.links[node[1]][k], node[2]>> : k \in world.whole[node[1]]}
          [] OTHER -> {}
Carried(nodes) == {node \in nodes : node[1] # NotCarried}
Closure(starts) ==
    LET reach[n \in 0 .. 6] == IF n = 0 THEN starts ELSE reach[n - 1] \cup Carried(UNION {Sources(node) : node \in reach[n - 1]})
    IN  reach[6]
Definitions(starts) == {node \in Closure(starts) : world.exports[node[1]][node[2]].kind \in {"strong", "weak"}}

\* The images a bind of f asks.
Starts ==
    CASE question.ordinal = "first" -> Carried({<<world.links[question.from][1], "f">>})
      [] question.ordinal = "second" ->
             IF Len(world.links[question.from]) < 2 THEN {} ELSE Carried({<<world.links[question.from][2], "f">>})
      [] question.ordinal = "main" -> {<<Executable, "f">>}
      [] question.ordinal = "self" -> {<<question.from, "f">>}
      [] OTHER -> {<<i, "f">> : i \in Images}

\* A bind is answered only by a definition that the images it asks reach by
\* their re-exports, whatever names those give on the way and whatever cycles
\* they form; and weak is what that definition is.
AnswersAreReachable ==
    Bound => \A k \in DOMAIN answer[1] :
        /\ <<answer[1][k].image, answer[1][k].symbol>> \in Definitions(Starts)
        /\ answer[1][k].weak = (world.exports[answer[1][k].image][answer[1][k].symbol].kind = "weak")

Renamed == \E i \in Images : world.exports[i]["f"].kind = "reexport" /\ world.exports[i]["f"].name = "g"

\* Where no re-export gives another name, a definition that can be reached is
\* found, asking each library once though several of them may lead to it, and a
\* flat lookup answers from the first image in load order that reaches one.
DefinitionsAreFound ==
    Bound /\ question.ordinal # "weak" /\ ~Renamed =>
        /\ (answer[1] # <<>>) = (Definitions(Starts) # {})
        /\ question.ordinal = "flat" /\ answer[1] # <<>> =>
              LET first == CHOOSE i \in Images : /\ Definitions({<<i, "f">>}) # {}
                                                 /\ \A j \in Images : Definitions({<<j, "f">>}) # {} => i <= j
              IN  <<answer[1][1].image, "f">> \in Definitions({<<first, "f">>})

\* One definition for all: where any image with weak definitions offers the
\* symbol, every image that binds it weakly gets the same definition, and that is
\* not weak if one of them defines it otherwise.
WeakDefinitionsAgree ==
    Bound /\ question.ordinal = "weak" =>
        LET offering == {i \in Images : world.weakDefines[i] /\ ExportOf(world, i, "f", TRUE, {}).found # <<>>}
        IN  /\ offering # {} => \A i \in Images : Lookup(world, i, "weak", "f") = answer[1]
            /\ (\E i \in offering : world.exports[i]["f"] = Strong) => ~answer[1][1].weak

\* What a library needs, directly or not.
Needs ==
    LET reach[n \in 0 .. 3] ==
            IF n = 0 THEN [i \in DOMAIN world.links |-> {world.links[i][k] : k \in DOMAIN world.links[i]}]
            ELSE [i \in DOMAIN world.links |-> reach[n - 1][i] \cup UNION {reach[n - 1][j] : j \in reach[n - 1][i]}]
    IN  reach[3]
Before(i, j) == \E a, b \in DOMAIN answer[1] : a < b /\ answer[1][a] = i /\ answer[1][b] = j

\* Every library is initialized once, and after all it links, except what needs
\* it in turn; what the executable needs comes before what nothing reaches.
InitializersRunAfterNeeds ==
    Ordered =>
        /\ Len(answer[1]) = 3 /\ ToSet(answer[1]) = Libraries(world)
        /\ \A i, j \in Libraries(world) : i # j /\ j \in ToSet(world.links[i]) /\ i \notin Needs[j] => Before(j, i)
        /\ \A i, j \in Libraries(world) : i \in Needs[Executable] /\ j \notin Needs[Executable] => Before(i, j)
=============================================================================
