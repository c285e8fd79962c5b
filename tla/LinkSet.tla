------------------------------- MODULE LinkSet -------------------------------
(***************************************************************************)
(* GuestLink.c, loading: the libraries an application carries with it.     *)
(* Install names are resolved against the naming image, its run paths and  *)
(* those of the images that loaded it; nothing outside the application's   *)
(* folder is opened.  Libraries are loaded breadth first.                  *)
(*                                                                         *)
(* A path is <<directory, leaf>>; links[path] is the file it leads to, or  *)
(* NoFile.  A behaviour loads one application, may carry more, and ends.   *)
(***************************************************************************)
EXTENDS Integers, Sequences, SequencesExt

CONSTANTS Limit         \* GL_MAX_LIBRARIES

VARIABLES world, set
vars == <<world, set>>

NoFile == <<"none", "none">>
ExecutableDirectory == "app"
Executable == 0

\* Install names and run paths: a prefix, a directory if there is no prefix, and
\* a leaf for names.
Name(prefix, dir, leaf) == [prefix |-> prefix, dir |-> dir, leaf |-> leaf]

\* Image 0 is the executable; the others are the libraries in load order.
ImageOf(s, i) == IF i = Executable THEN world.executable ELSE world.files[s.libraries[i].path]
DirectoryOf(s, i) == IF i = Executable THEN ExecutableDirectory ELSE s.libraries[i].path[1]

-----------------------------------------------------------------------------
(* gl_resolve.                                                             *)

\* expand: the directory a prefix stands for; unknown prefixes stand for none.
Expand(s, i, name) ==
    CASE name.prefix = "executable" -> ExecutableDirectory
      [] name.prefix = "loader" -> DirectoryOf(s, i)
      [] name.prefix = "none" -> name.dir
      [] OTHER -> "none"

\* accept: links are followed first, and the file must lie inside the folder.
Accept(s, path) ==
    IF path \in DOMAIN world.links /\ world.links[path][1] \in s.root THEN world.links[path] ELSE NoFile

\* The first run path of an image under which the leaf is found.
InRunPaths(s, i, leaf) ==
    FoldLeft(LAMBDA found, rpath : IF found # NoFile THEN found ELSE Accept(s, <<Expand(s, i, rpath), leaf>>),
             NoFile, ImageOf(s, i).rpaths)

\* The image itself and its loaders: at most every library and the executable.
Steps(s) == Len(s.libraries) + 1

\* Up the loaders from an image: [at, found].
SearchRunPaths(s, from, leaf) ==
    FoldLeft(LAMBDA acc, step :
                 IF acc.found # NoFile \/ acc.stopped THEN acc
                 ELSE [found |-> InRunPaths(s, acc.at, leaf), stopped |-> acc.at = Executable,
                       at |-> IF acc.at = Executable THEN Executable ELSE s.libraries[acc.at].loader],
             [found |-> NoFile, stopped |-> FALSE, at |-> from], [k \in 1 .. Steps(s) |-> k]).found

Resolve(s, from, name) ==
    IF name.prefix = "rpath" THEN SearchRunPaths(s, from, name.leaf)
    ELSE Accept(s, <<Expand(s, from, name), name.leaf>>)

-----------------------------------------------------------------------------
(* Loading.                                                                *)

Empty(root) == [libraries |-> <<>>, refused |-> 0, root |-> root, failed |-> FALSE]
Paths(s) == {s.libraries[k].path : k \in DOMAIN s.libraries}

\* carry: one that cannot be read or needs constructors for its thread-local
\* storage is counted; only a full list fails.
Carry(s, path, loader) ==
    IF Len(s.libraries) = Limit THEN [s EXCEPT !.failed = TRUE]
    ELSE IF ~world.files[path].readable THEN [s EXCEPT !.refused = @ + 1]
    ELSE [s EXCEPT !.libraries = Append(@, [path |-> path, loader |-> loader])]

Known(s, path) == path \in Paths(s)

\* carried_by: the libraries one image lists.
CarriedBy(s, from) ==
    FoldLeft(LAMBDA acc, name :
                 LET path == Resolve(acc, from, name)
                 IN  IF acc.failed \/ path = NoFile \/ Known(acc, path) THEN acc ELSE Carry(acc, path, from),
             s, ImageOf(s, from).dylibs)

\* Wrong form of Breadth: only the images there at the start.
BreadthShort(s, first) ==
    FoldLeft(LAMBDA acc, i : IF acc.failed \/ i < first \/ i > Len(s.libraries) THEN acc ELSE CarriedBy(acc, i),
             s, [i \in 1 .. Limit |-> i])

\* Every image from the first on, those that are loaded meanwhile included.
Breadth(s, first) ==
    FoldLeft(LAMBDA acc, i : IF acc.failed \/ i < first \/ i > Len(acc.libraries) THEN acc ELSE CarriedBy(acc, i),
             s, [i \in 1 .. Limit |-> i])

\* gl_load: a set that cannot be completed is destroyed.
Loaded ==
    LET s == Breadth(CarriedBy(Empty({"app", "fw"}), Executable), 1)
    IN  IF s.failed THEN [Empty({}) EXCEPT !.failed = TRUE] ELSE s

\* gl_carry: further libraries by path, in a folder that may be wider, then what
\* they link.  A path that is no file inside ends it.
Carried(s, root, paths) ==
    LET wider == [s EXCEPT !.root = root]
        listed == FoldLeft(LAMBDA acc, path :
                      LET file == Accept(acc, path)
                      IN  IF acc.failed THEN acc ELSE IF file = NoFile THEN [acc EXCEPT !.failed = TRUE]
                          ELSE IF Known(acc, file) THEN acc ELSE Carry(acc, file, Executable),
                      wider, paths)
    IN  IF listed.failed THEN listed ELSE Breadth(listed, Len(s.libraries) + 1)

-----------------------------------------------------------------------------
(* Applications.                                                           *)

Sequences(elements, n) == UNION {[1 .. k -> elements] : k \in 0 .. n}
Dylibs == {Name("rpath", "none", "A"), Name("rpath", "none", "B"), Name("loader", "none", "B"), Name("none", "out", "A")}
RunPaths == {Name("loader", "none", "none"), Name("none", "fw", "none"), Name("other", "none", "none")}
Image(dylibs, rpaths, readable) == [dylibs |-> dylibs, rpaths |-> rpaths, readable |-> readable]

\* A and B in two folders or one, B in the second a file or a link that leads out
\* or to A.
Folders ==
    {[path \in paths |-> IF path = <<"fw", "B">> THEN b ELSE path] :
        paths \in {{<<"fw", "A">>, <<"fw", "B">>, <<"app", "A">>, <<"app", "B">>, <<"out", "A">>}, {<<"fw", "A">>, <<"fw", "B">>, <<"out", "A">>}},
        b \in {<<"fw", "B">>, <<"out", "A">>, <<"fw", "A">>}}

Files(a, b) == [path \in {<<d, l>> : d \in {"app", "fw", "out"}, l \in {"A", "B"}} |-> IF path[2] = "A" THEN a ELSE b]

Init ==
    /\ \E links \in Folders, names \in Sequences(Dylibs, 2), rpaths \in Sequences(RunPaths, 2),
          a \in Sequences(Dylibs, 1), b \in Sequences(Dylibs \ {Name("none", "out", "A")}, 1),
          aPaths \in Sequences(RunPaths \ {Name("other", "none", "none")}, 1), readable \in BOOLEAN :
          /\ IsInjective(rpaths) /\ (aPaths = <<>> \/ a # <<>>) /\ (readable \/ b = <<>>)
          /\ world = [links |-> links, executable |-> Image(names, rpaths, TRUE),
                      files |-> Files(Image(a, aPaths, TRUE), Image(b, <<>>, readable))]
    /\ set = <<>>

Load == set = <<>> /\ set' = <<Loaded>> /\ UNCHANGED world
CarryMore ==
    /\ Len(set) = 1 /\ ~set[1].failed
    /\ \E root \in {{"app", "fw"}, {"app", "fw", "out"}}, path \in {<<"fw", "B">>, <<"out", "A">>} :
          set' = Append(set, Carried(set[1], root, <<path>>))
    /\ UNCHANGED world

Next == Load \/ CarryMore
Spec == Init /\ [][Next]_vars

-----------------------------------------------------------------------------
(* Properties.                                                             *)

Current == set[Len(set)]
Complete == set # <<>> /\ ~Current.failed
Members == Executable .. Len(Current.libraries)

\* No file outside the application's folder is ever carried, through whatever
\* link or run path it was named, and none is carried twice under two names.
CarriedOnceInside ==
    set # <<>> =>
        /\ \A i \in DOMAIN Current.libraries : Current.libraries[i].path[1] \in Current.root
        /\ \A i, j \in DOMAIN Current.libraries : Current.libraries[i].path = Current.libraries[j].path => i = j

\* Loading is complete and justified: every install name of the executable and of
\* every library that leads to a readable file inside has that file in the set,
\* and every library is there because its loader names it.
SetIsClosed ==
    (Complete /\ Len(set) = 1) =>
        /\ \A i \in Members : \A k \in DOMAIN ImageOf(Current, i).dylibs :
              LET path == Resolve(Current, i, ImageOf(Current, i).dylibs[k])
              IN  path # NoFile /\ world.files[path].readable => path \in Paths(Current)
        /\ \A i \in DOMAIN Current.libraries :
              \E k \in DOMAIN ImageOf(Current, Current.libraries[i].loader).dylibs :
                 Resolve(Current, Current.libraries[i].loader, ImageOf(Current, Current.libraries[i].loader).dylibs[k])
                     = Current.libraries[i].path

\* Breadth first: an image's loader was loaded before it, and in the same order.
\* So the way up the loaders ends at the executable.
LoadersComeFirst ==
    Complete => \A i, j \in DOMAIN Current.libraries :
        /\ Current.libraries[i].loader < i
        /\ i < j /\ Len(set) = 1 => Current.libraries[i].loader <= Current.libraries[j].loader

\* @rpath names are looked up in the run paths of the image, then of its loader,
\* and so on up to the executable, and the first file found is it.
RunPathsAreSearchedInOrder ==
    Complete =>
        LET chain[i \in Members] == IF i = Executable THEN <<i>> ELSE <<i>> \o chain[Current.libraries[i].loader]
            Candidates(i) == FlattenSeq([k \in DOMAIN chain[i] |->
                                [r \in DOMAIN ImageOf(Current, chain[i][k]).rpaths |->
                                    <<Expand(Current, chain[i][k], ImageOf(Current, chain[i][k]).rpaths[r]), "A">>]])
            Inside(i) == SelectSeq(Candidates(i), LAMBDA c : Accept(Current, c) # NoFile)
        IN  \A i \in Members :
              Resolve(Current, i, Name("rpath", "none", "A")) = IF Inside(i) = <<>> THEN NoFile ELSE Accept(Current, Head(Inside(i)))
=============================================================================
