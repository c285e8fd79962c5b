---------------------------- MODULE AddressSpace ----------------------------
(***************************************************************************)
(* What GuestSparseMemory.h promises: a range of pages, each unmapped or   *)
(* mapped with a protection, whose cells read as zero until written, and   *)
(* atomic operations on it.  An operation that fails changes nothing.      *)
(*                                                                         *)
(* A link is a thread's load-exclusive.  It breaks when its cells are      *)
(* written or remapped; it may break at any other moment, too.             *)
(***************************************************************************)
EXTENDS Integers, Sequences, FiniteSetsExt

CONSTANTS FirstPage, LastPage, PageCells, Byte, Threads

VARIABLES perm,      \* perm[p]: Unmapped, or the page's protections
          data,      \* data[c]: the byte in cell c
          link,      \* link[t]: the cells of t's load-exclusive, or {}
          reply      \* what the last operation returned

spaceVars == <<perm, data, link, reply>>

Pages == FirstPage .. LastPage
Cells == FirstPage * PageCells .. (LastPage + 1) * PageCells - 1
PageOf(c) == c \div PageCells
CellsOf(P) == {c \in Cells : PageOf(c) \in P}
Unmapped == [prot |-> {}, max |-> {}, mapped |-> FALSE]
Mapped(prot, max) == [prot |-> prot, max |-> max, mapped |-> TRUE]

SpaceInit ==
    /\ perm = [p \in Pages |-> Unmapped]
    /\ data = [c \in Cells |-> 0]
    /\ link = [t \in Threads |-> {}]
    /\ reply = <<"init", "OK">>

\* The links that may be left when the cells of C change.
Breaking(C) ==
    \E broken \in SUBSET Threads :
        /\ {t \in Threads : link[t] \cap C # {}} \subseteq broken
        /\ link' = [t \in Threads |-> IF t \in broken THEN {} ELSE link[t]]

\* Operation op returns result and changes nothing.
Refuses(op, result) == reply' = <<op, result>> /\ UNCHANGED <<perm, data, link>>
Yields(op, value) == reply' = <<op, "OK", value>> /\ UNCHANGED <<perm, data, link>>

\* Pages P take new protections; their cells are zeroed unless kept.
Remap(op, P, new, kept) ==
    /\ reply' = <<op, "OK">>
    /\ perm' = [p \in Pages |-> IF p \in P THEN new[p] ELSE perm[p]]
    /\ data' = [c \in Cells |-> IF PageOf(c) \in P /\ ~kept THEN 0 ELSE data[c]]
    /\ Breaking(CellsOf(P))

Map(P, prot, max, replace) ==
    \/ Refuses("map", "NOMEM")
    \/ ~replace /\ Refuses("map", "OVERLAP") /\ \E p \in P : perm[p].mapped
    \/ /\ Remap("map", P, [p \in P |-> Mapped(prot, max)], FALSE)
       /\ replace \/ \A p \in P : ~perm[p].mapped
Unmap(P) ==
    \/ Refuses("unmap", "NOMEM")
    \/ Remap("unmap", P, [p \in P |-> Unmapped], FALSE)
Protect(P, prot) ==
    LET whole == \A p \in P : perm[p].mapped
        allowed == \A p \in P : prot \subseteq perm[p].max
    IN  \/ Refuses("protect", "NOMEM")
        \/ Refuses("protect", "UNMAPPED") /\ ~whole
        \/ Refuses("protect", "PROTECTION") /\ whole /\ ~allowed
        \/ /\ whole /\ allowed
           /\ Remap("protect", P, [p \in P |-> Mapped(prot, perm[p].max)], TRUE)

\* The lowest n pages in a row that are not mapped.
FindFree(n) ==
    LET free == {q \in Pages : ~perm[q].mapped}
        starts == {p \in free : p .. p + n - 1 \subseteq free}
    IN  \/ Refuses("free", "NOMEM") /\ starts = {}
        \/ starts # {} /\ Yields("free", <<Min(starts)>>)

-----------------------------------------------------------------------------
\* The cells of n bytes from a, and what stands in the way of accessing them:
\* the first page that is not mapped or lacks the permission.
Span(a, n) == a .. a + n - 1
Access(a, n, need) ==
    LET bad == {p \in {PageOf(c) : c \in Span(a, n)} :
                   ~perm[p].mapped \/ ~(need \subseteq perm[p].prot)}
    IN  IF bad = {} THEN "OK"
        ELSE IF perm[Min(bad)].mapped THEN "PROTECTION" ELSE "UNMAPPED"
Faults(op, a, n, need) == Access(a, n, need) # "OK" /\ Refuses(op, Access(a, n, need))

Contents(a, n) == [i \in 1 .. n |-> data[a + i - 1]]

Read(a, n) ==
    \/ Faults("read", a, n, {"r"})
    \/ Access(a, n, {"r"}) = "OK" /\ Yields("read", Contents(a, n))

\* Bytes are stored from a on.
Stores(a, bytes) ==
    /\ data' = [c \in Cells |-> IF c \in Span(a, Len(bytes)) THEN bytes[c - a + 1] ELSE data[c]]
    /\ Breaking(Span(a, Len(bytes)))
    /\ UNCHANGED perm

Write(a, bytes) ==
    \/ Refuses("write", "NOMEM")
    \/ Faults("write", a, Len(bytes), {"w"})
    \/ reply' = <<"write", "OK">> /\ Access(a, Len(bytes), {"w"}) = "OK" /\ Stores(a, bytes)

\* A buffer is checked, and backed if it is to be written.
Prepare(a, n, need) ==
    \/ Refuses("prepare", "NOMEM")
    \/ Refuses("prepare", Access(a, n, need))

LoadExclusive(t, a, n) ==
    \/ Faults("load", a, n, {"r"})
    \/ /\ Access(a, n, {"r"}) = "OK"
       /\ reply' = <<"load", "OK", Contents(a, n)>>
       /\ link' = [link EXCEPT ![t] = Span(a, n)]
       /\ UNCHANGED <<perm, data>>

\* A store that is carried out finds its link unbroken.
StoreExclusive(t, a, bytes) ==
    \/ /\ link[t] = Span(a, Len(bytes))
       /\ \/ Refuses("store", "NOMEM")
          \/ Faults("store", a, Len(bytes), {"w"})
          \/ /\ reply' = <<"store", "STORED">> /\ Access(a, Len(bytes), {"w"}) = "OK"
             /\ Stores(a, bytes)
    \/ /\ reply' = <<"store", "LOST">> /\ link' = [link EXCEPT ![t] = {}]
       /\ UNCHANGED <<perm, data>>

\* Read, and replace by new where that is wanted.
Update(op, a, new, Wanted(_)) ==
    LET n == Len(new)
    IN  \/ Refuses(op, "NOMEM")
        \/ Faults(op, a, n, {"r", "w"})
        \/ /\ Access(a, n, {"r", "w"}) = "OK"
           /\ reply' = <<op, "OK", Contents(a, n)>>
           /\ IF Wanted(Contents(a, n)) THEN Stores(a, new) ELSE UNCHANGED <<perm, data, link>>

CompareExchange(a, expected, desired) ==
    LET Same(old) == old = expected IN Update("exchange", a, desired, Same)

\* An arithmetic update; new is whatever the operation computes.
Atomic(a, new) ==
    LET Always(old) == TRUE IN Update("atomic", a, new, Always)

-----------------------------------------------------------------------------
\* What the operations are given.
CONSTANTS Lengths,        \* bytes of an access
          Granules,       \* bytes of an atomic access
          Protections     \* sets of permissions

Ranges == {s \in Pages \X (1 .. LastPage - FirstPage + 1) : s[1] + s[2] <= LastPage + 1}
Bytes(n) == [1 .. n -> Byte]
Spans(L) == {s \in Cells \X L : s[1] + s[2] <= (LastPage + 1) * PageCells}

\* The operation that returned is the one that made the step.
SpaceNext ==
    \/ /\ reply'[1] \in {"map", "unmap", "protect", "free"}
       /\ \E s \in Ranges :
             LET P == s[1] .. s[1] + s[2] - 1
             IN  \/ \E prot, max \in Protections, replace \in BOOLEAN :
                       prot \subseteq max /\ Map(P, prot, max, replace)
                 \/ Unmap(P)
                 \/ \E prot \in Protections : Protect(P, prot)
                 \/ FindFree(s[2])
    \/ /\ reply'[1] \in {"read", "write", "prepare"}
       /\ \E s \in Spans(Lengths) :
             \/ Read(s[1], s[2])
             \/ \E bytes \in Bytes(s[2]) : Write(s[1], bytes)
             \/ \E need \in Protections : Prepare(s[1], s[2], need)
    \/ /\ reply'[1] \in {"load", "store", "exchange", "atomic"}
       /\ \E s \in Spans(Granules) :
             \/ \E new \in Bytes(s[2]) : Atomic(s[1], new)
             \/ \E desired, expected \in Bytes(s[2]) : CompareExchange(s[1], expected, desired)
             \/ \E t \in Threads : \/ LoadExclusive(t, s[1], s[2])
                                   \/ \E bytes \in Bytes(s[2]) : StoreExclusive(t, s[1], bytes)

SpaceSpec == SpaceInit /\ [][SpaceNext]_spaceVars
=============================================================================
