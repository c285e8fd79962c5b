------------------------- MODULE SparseMemoryProofs -------------------------
EXTENDS SparseMemory, SequenceTheorems, DataLemmas, TLAPS

-----------------------------------------------------------------------------
(* The region list.                                                        *)

Permissions == UNION Protections
Piece == [start : Nat, end : Nat, prot : SUBSET Permissions, max : SUBSET Permissions]
Sound(r) == FirstPage <= r.start /\ r.start < r.end /\ r.end <= LastPage + 1 /\ r.prot \subseteq r.max
Apart(q, r) == q.end <= r.start /\ ~(q.end = r.start /\ q.prot = r.prot /\ q.max = r.max)

\* A list of regions, built up to b.
Canonical(list) ==
    /\ list \in Seq(Piece)
    /\ \A i \in DOMAIN list : Sound(list[i])
    /\ \A i \in DOMAIN list : i > 1 => Apart(list[i - 1], list[i])
EndsBy(list, b) == list # <<>> => list[Len(list)].end <= b

\* A list maps page p with these protections.
Has(r, p, prot, max) == r.start <= p /\ p < r.end /\ r.prot = prot /\ r.max = max
Maps(list, p, prot, max) == \E i \in DOMAIN list : Has(list[i], p, prot, max)

LEMMA LastOf == ASSUME NEW list, list # <<>> PROVE Last(list) = list[Len(list)]
BY DEF Last

LEMMA ListFacts ==
    ASSUME NEW list \in Seq(Piece)
    PROVE  /\ Len(list) \in Nat /\ DOMAIN list = 1 .. Len(list) /\ list \in [1 .. Len(list) -> Piece]
           /\ \A i \in 1 .. Len(list) : list[i] \in Piece /\ list[i].start \in Nat /\ list[i].end \in Nat
<1> USE DEF Piece
<1>1. Len(list) \in Nat /\ DOMAIN list = 1 .. Len(list)
  OBVIOUS
<1> HIDE DEF Piece
<1>2. list \in [1 .. Len(list) -> Piece]
  BY <1>1
<1>3. \A i \in 1 .. Len(list) : list[i] \in Piece
  BY <1>2
<1>4. \A r \in Piece : r.start \in Nat /\ r.end \in Nat
  BY DEF Piece
<1> QED
  BY <1>1, <1>2, <1>3, <1>4

LEMMA AppendedIsList ==
    ASSUME NEW list \in Seq(Piece), NEW r \in Piece
    PROVE  Appended(list, r) \in Seq(Piece)
<1>1. CASE r.start = r.end
  BY <1>1 DEF Appended
<1> DEFINE joined == /\ list # <<>> /\ Last(list).end = r.start
                     /\ Last(list).prot = r.prot /\ Last(list).max = r.max
<1>2. CASE r.start # r.end /\ joined
  <2>1. Appended(list, r) = [list EXCEPT ![Len(list)].end = r.end]
    BY <1>2 DEF Appended
  <2>2. list \in [1 .. Len(list) -> Piece] /\ Len(list) \in Nat /\ r.end \in Nat
    BY ListFacts DEF Piece
  <2>3. \A i \in 1 .. Len(list) : [list[i] EXCEPT !.end = r.end] \in Piece
    BY <2>2 DEF Piece
  <2>4. [list EXCEPT ![Len(list)].end = r.end] \in [1 .. Len(list) -> Piece]
    BY <2>2, <2>3
  <2> QED
    BY <2>1, <2>2, <2>4
<1>3. CASE r.start # r.end /\ ~joined
  BY <1>3 DEF Appended
<1> QED
  BY <1>1, <1>2, <1>3

\* What append leaves: nothing changes, the last region grows, or one is added.
LEMMA AppendedShape ==
    ASSUME NEW list \in Seq(Piece), NEW r \in Piece, r.start # r.end
    PROVE  LET n == Len(list)
               new == Appended(list, r)
           IN  \/ /\ n > 0 /\ Len(new) = n /\ DOMAIN new = 1 .. n
                  /\ \A i \in 1 .. n - 1 : new[i] = list[i]
                  /\ new[n] = [list[n] EXCEPT !.end = r.end]
                  /\ list[n].end = r.start /\ list[n].prot = r.prot /\ list[n].max = r.max
               \/ /\ Len(new) = n + 1 /\ DOMAIN new = 1 .. n + 1
                  /\ \A i \in 1 .. n : new[i] = list[i]
                  /\ new[n + 1] = r
                  /\ ~(n > 0 /\ list[n].end = r.start /\ list[n].prot = r.prot /\ list[n].max = r.max)
<1> DEFINE n == Len(list)
           new == Appended(list, r)
           joined == /\ list # <<>> /\ Last(list).end = r.start
                     /\ Last(list).prot = r.prot /\ Last(list).max = r.max
<1>1. n \in Nat /\ DOMAIN list = 1 .. n /\ (list # <<>> <=> n > 0)
  BY EmptySeq
<1>2. CASE joined
  <2>1. new = [list EXCEPT ![n].end = r.end]
    BY <1>2 DEF Appended
  <2>2. new \in Seq(Piece)
    BY AppendedIsList
  <2>3. DOMAIN new = 1 .. n
    BY <1>1, <2>1
  <2>4. Len(new) = n
    BY <1>1, <2>2, <2>3
  <2>5. n > 0 /\ list[n] = Last(list)
    BY <1>1, <1>2, LastOf
  <2>6. \A i \in 1 .. n - 1 : new[i] = list[i]
    BY <1>1, <2>1
  <2>7. new[n] = [list[n] EXCEPT !.end = r.end]
    BY <1>1, <2>1, <2>5
  <2> QED
    BY <1>2, <2>3, <2>4, <2>5, <2>6, <2>7
<1>3. CASE ~joined
  <2>1. new = Append(list, r)
    BY <1>3 DEF Appended
  <2>2. Len(new) = n + 1 /\ DOMAIN new = 1 .. n + 1 /\ new[n + 1] = r /\ \A i \in 1 .. n : new[i] = list[i]
    BY <1>1, <2>1
  <2>3. ~(n > 0 /\ list[n].end = r.start /\ list[n].prot = r.prot /\ list[n].max = r.max)
    BY <1>1, <1>3, LastOf
  <2> QED
    BY <2>2, <2>3
<1> QED
  BY <1>2, <1>3

LEMMA AppendedIsCanonical ==
    ASSUME NEW list, Canonical(list), NEW r \in Piece, r.start <= r.end,
           r.start # r.end => Sound(r) /\ EndsBy(list, r.start)
    PROVE  /\ Canonical(Appended(list, r))
           /\ \A b \in Nat : EndsBy(list, b) /\ (r.start # r.end => r.end <= b) => EndsBy(Appended(list, r), b)
<1>1. CASE r.start = r.end
  BY <1>1 DEF Appended
<1>2. CASE r.start # r.end
  <2> DEFINE n == Len(list)
             new == Appended(list, r)
  <2>1. list \in Seq(Piece) /\ n \in Nat /\ DOMAIN list = 1 .. n /\ new \in Seq(Piece)
    BY AppendedIsList DEF Canonical
  <2>2. list # <<>> <=> n > 0
    BY <2>1, EmptySeq
  <2>a. Sound(r) /\ r.start \in Nat /\ r.end \in Nat /\ r.start < r.end
    BY <1>2 DEF Sound, Piece
  <2>b. \A i \in 1 .. n : Sound(list[i]) /\ list[i].start \in Nat /\ list[i].end \in Nat /\ list[i] \in Piece
    BY <2>1, ListFacts DEF Canonical
  <2> HIDE DEF new, n
  <2>3. CASE /\ n > 0 /\ Len(new) = n /\ DOMAIN new = 1 .. n
             /\ \A i \in 1 .. n - 1 : new[i] = list[i]
             /\ new[n] = [list[n] EXCEPT !.end = r.end]
             /\ list[n].end = r.start /\ list[n].prot = r.prot /\ list[n].max = r.max
    <3>1. new[n].start = list[n].start /\ new[n].end = r.end /\ new[n].prot = list[n].prot /\ new[n].max = list[n].max
      BY <2>1, <2>3, <2>b DEF Piece
    <3>2. Sound(new[n])
      BY <2>1, <2>3, <2>a, <2>b, <3>1 DEF Sound
    <3>3. \A i \in 1 .. n : Sound(new[i])
      BY <2>1, <2>3, <2>b, <3>2
    <3>4. \A i \in 1 .. n : i > 1 => Apart(new[i - 1], new[i])
      <4> SUFFICES ASSUME NEW i \in 1 .. n, i > 1 PROVE Apart(new[i - 1], new[i])
        OBVIOUS
      <4>1. Apart(list[i - 1], list[i]) /\ new[i - 1] = list[i - 1]
        BY <2>1, <2>3 DEF Canonical
      <4>2. CASE i = n
        BY <3>1, <4>1, <4>2 DEF Apart
      <4>3. CASE i # n
        BY <2>1, <2>3, <4>1, <4>3
      <4> QED
        BY <4>2, <4>3
    <3>5. \A b \in Nat : r.end <= b => EndsBy(new, b)
      BY <2>3, <3>1 DEF EndsBy
    <3> QED
      BY <1>2, <2>1, <2>3, <3>3, <3>4, <3>5 DEF Canonical, new
  <2>4. CASE /\ Len(new) = n + 1 /\ DOMAIN new = 1 .. n + 1
             /\ \A i \in 1 .. n : new[i] = list[i]
             /\ new[n + 1] = r
             /\ ~(n > 0 /\ list[n].end = r.start /\ list[n].prot = r.prot /\ list[n].max = r.max)
    <3>1. \A i \in 1 .. n + 1 : Sound(new[i])
      BY <2>1, <2>4, <2>a, <2>b
    <3>2. \A i \in 1 .. n + 1 : i > 1 => Apart(new[i - 1], new[i])
      <4> SUFFICES ASSUME NEW i \in 1 .. n + 1, i > 1 PROVE Apart(new[i - 1], new[i])
        OBVIOUS
      <4>1. CASE i = n + 1
        <5>1. n > 0 /\ new[i - 1] = list[n] /\ new[i] = r
          BY <2>1, <2>4, <4>1
        <5>2. list[n].end <= r.start
          BY <1>2, <2>2, <5>1 DEF EndsBy, n
        <5> QED
          BY <2>4, <5>1, <5>2 DEF Apart
      <4>2. CASE i # n + 1
        <5>1. i \in 1 .. n /\ i - 1 \in 1 .. n
          BY <2>1, <4>2
        <5>2. Apart(list[i - 1], list[i])
          BY <2>1, <5>1 DEF Canonical
        <5> QED
          BY <2>4, <5>1, <5>2
      <4> QED
        BY <4>1, <4>2
    <3>3. \A b \in Nat : r.end <= b => EndsBy(new, b)
      BY <2>4 DEF EndsBy
    <3> QED
      BY <1>2, <2>1, <2>4, <3>1, <3>2, <3>3 DEF Canonical, new
  <2> QED
    BY <1>2, <2>1, <2>3, <2>4, AppendedShape DEF new, n
<1> QED
  BY <1>1, <1>2

\* append adds the pages of its region, and no others.
LEMMA AppendedMaps ==
    ASSUME NEW list, Canonical(list), NEW r \in Piece, r.start <= r.end, NEW p \in Int, NEW prot, NEW max
    PROVE  Maps(Appended(list, r), p, prot, max) <=> Maps(list, p, prot, max) \/ Has(r, p, prot, max)
<1>1. CASE r.start = r.end
  <2>1. ~Has(r, p, prot, max)
    BY <1>1 DEF Has, Piece
  <2> QED
    BY <1>1, <2>1 DEF Appended
<1>2. CASE r.start # r.end
  <2> DEFINE n == Len(list)
             new == Appended(list, r)
  <2>1. list \in Seq(Piece) /\ n \in Nat /\ DOMAIN list = 1 .. n
    BY DEF Canonical
  <2>2. r.start \in Nat /\ r.end \in Nat /\ r.start < r.end
    BY <1>2 DEF Piece
  <2>3. \A i \in 1 .. n : list[i] \in Piece /\ list[i].start \in Nat /\ list[i].end \in Nat /\ list[i].start < list[i].end
    BY <2>1, ListFacts DEF Canonical, Sound
  <2>s. list \in Seq(Piece)
    BY <2>1
  <2> HIDE DEF new, n
  <2>4. CASE /\ n > 0 /\ Len(new) = n /\ DOMAIN new = 1 .. n
             /\ \A i \in 1 .. n - 1 : new[i] = list[i]
             /\ new[n] = [list[n] EXCEPT !.end = r.end]
             /\ list[n].end = r.start /\ list[n].prot = r.prot /\ list[n].max = r.max
    <3>1. n \in 1 .. n /\ 1 .. n = (1 .. n - 1) \cup {n}
      BY <2>1, <2>4
    <3>2. new[n].start = list[n].start /\ new[n].end = r.end /\ new[n].prot = list[n].prot /\ new[n].max = list[n].max
      BY <2>4, <2>3, <3>1 DEF Piece
    <3>3. Has(new[n], p, prot, max) <=> Has(list[n], p, prot, max) \/ Has(r, p, prot, max)
      BY <2>2, <2>3, <2>4, <3>1, <3>2 DEF Has
    <3>4. Maps(new, p, prot, max) <=> Has(new[n], p, prot, max) \/ \E i \in 1 .. n - 1 : Has(list[i], p, prot, max)
      BY <2>4, <3>1 DEF Maps
    <3>5. Maps(list, p, prot, max) <=> Has(list[n], p, prot, max) \/ \E i \in 1 .. n - 1 : Has(list[i], p, prot, max)
      BY <2>1, <3>1 DEF Maps
    <3> QED
      BY <3>3, <3>4, <3>5 DEF new
  <2>5. CASE /\ Len(new) = n + 1 /\ DOMAIN new = 1 .. n + 1
             /\ \A i \in 1 .. n : new[i] = list[i]
             /\ new[n + 1] = r
             /\ ~(n > 0 /\ list[n].end = r.start /\ list[n].prot = r.prot /\ list[n].max = r.max)
    <3>1. 1 .. n + 1 = (1 .. n) \cup {n + 1}
      BY <2>1
    <3>2. Maps(new, p, prot, max) <=> Has(r, p, prot, max) \/ \E i \in 1 .. n : Has(list[i], p, prot, max)
      BY <2>5, <3>1 DEF Maps
    <3> QED
      BY <2>1, <3>2 DEF Maps, new
  <2> QED
    BY <1>2, <2>s, <2>4, <2>5, AppendedShape DEF new, n
<1> QED
  BY <1>1, <1>2
-----------------------------------------------------------------------------
(* change: the list is rebuilt.                                            *)

\* What change is called with: protections that some mapping may have.
Asked(op, a, end, prot, max) ==
    /\ op \in {"map", "unmap", "protect"}
    /\ a \in Nat /\ end \in Nat /\ FirstPage <= a /\ a < end /\ end <= LastPage + 1
    /\ prot \in SUBSET Permissions /\ max \in SUBSET Permissions
    /\ op = "map" => prot \subseteq max
    /\ op = "protect" => \A i \in Meeting(a, end) : prot \subseteq regions[i].max

\* How far the list reaches behind its first i regions.
Reach(op, i, a, end) ==
    IF i = 0 THEN 0
    ELSE IF op = "map" /\ regions[i].end > a THEN Larger(regions[i].end, end) ELSE regions[i].end

Next3(list, op, i, a, end, prot, max) ==
    Appended(Appended(Appended(list, Before(regions[i], a)), Between(op, i, a, end, prot, max)), Behind(regions[i], end))

LEMMA RegionFacts ==
    ASSUME Canonical(regions), NEW i \in DOMAIN regions
    PROVE  /\ i \in 1 .. Len(regions) /\ Len(regions) \in Nat
           /\ regions[i] \in Piece /\ Sound(regions[i])
           /\ regions[i].start \in Nat /\ regions[i].end \in Nat /\ regions[i].start < regions[i].end
           /\ regions[i].prot \in SUBSET Permissions /\ regions[i].max \in SUBSET Permissions
           /\ i > 1 => /\ regions[i - 1].end \in Nat /\ regions[i - 1].end <= regions[i].start
                       /\ i - 1 \in DOMAIN regions
<1>1. i \in 1 .. Len(regions) /\ Len(regions) \in Nat /\ DOMAIN regions = 1 .. Len(regions)
  BY ListFacts DEF Canonical
<1>2. regions[i] \in Piece /\ Sound(regions[i])
  BY <1>1, ListFacts DEF Canonical
<1>3. i > 1 => /\ regions[i - 1].end \in Nat /\ regions[i - 1].end <= regions[i].start /\ i - 1 \in DOMAIN regions
  <2> SUFFICES ASSUME i > 1 PROVE regions[i - 1].end \in Nat /\ regions[i - 1].end <= regions[i].start /\ i - 1 \in DOMAIN regions
    OBVIOUS
  <2>1. i - 1 \in 1 .. Len(regions)
    BY <1>1
  <2>2. Apart(regions[i - 1], regions[i])
    BY <1>1 DEF Canonical
  <2> QED
    BY <1>1, <2>1, <2>2, ListFacts DEF Canonical, Apart
<1> QED
  BY <1>1, <1>2, <1>3 DEF Sound, Piece

\* The parts of a region are regions, or empty.
LEMMA PartsAre ==
    ASSUME Canonical(regions), NEW i \in DOMAIN regions, NEW op, NEW a, NEW end, NEW prot, NEW max,
           Asked(op, a, end, prot, max)
    PROVE  LET r == regions[i]
               x == Before(r, a)
               y == Between(op, i, a, end, prot, max)
               z == Behind(r, end)
           IN  /\ x \in Piece /\ y \in Piece /\ z \in Piece
               /\ x.start <= x.end /\ y.start <= y.end /\ z.start <= z.end
               /\ x.start # x.end => /\ Sound(x) /\ x.start = r.start /\ r.start < a /\ x.end <= a /\ x.end <= r.end
               /\ y.start # y.end => /\ Sound(y) /\ a <= y.start
                                     /\ op # "map" => r.start <= y.start /\ y.end <= r.end /\ y.end <= end
                                     /\ op = "map" => /\ y.start = a /\ y.end = end /\ r.end > a
                                                      /\ i > 1 => regions[i - 1].end <= a
               /\ z.start # z.end => /\ Sound(z) /\ z.end = r.end /\ end < r.end /\ end <= z.start /\ r.start <= z.start
<1> DEFINE r == regions[i]
           x == Before(r, a)
           y == Between(op, i, a, end, prot, max)
           z == Behind(r, end)
<1>1. /\ r \in Piece /\ Sound(r) /\ r.start \in Nat /\ r.end \in Nat /\ r.start < r.end
      /\ r.prot \in SUBSET Permissions /\ r.max \in SUBSET Permissions
  BY RegionFacts
<1>2. FirstPage <= r.start /\ r.end <= LastPage + 1 /\ r.prot \subseteq r.max /\ FirstPage \in Nat /\ LastPage \in Nat
  BY <1>1, SpaceAssumption DEF Sound
<1>3. /\ a \in Nat /\ end \in Nat /\ FirstPage <= a /\ a < end /\ end <= LastPage + 1
      /\ prot \in SUBSET Permissions /\ max \in SUBSET Permissions
      /\ op = "map" => prot \subseteq max
      /\ op = "protect" => \A k \in Meeting(a, end) : prot \subseteq regions[k].max
  BY DEF Asked
<1>4. /\ x \in Piece /\ x.start = r.start /\ x.end = Larger(Smaller(r.end, a), r.start)
      /\ x.prot = r.prot /\ x.max = r.max
  BY <1>1, <1>3 DEF Before, Piece, Larger, Smaller
<1>5. /\ z \in Piece /\ z.end = r.end /\ z.start = Smaller(Larger(r.start, end), r.end)
      /\ z.prot = r.prot /\ z.max = r.max
  BY <1>1, <1>3 DEF Behind, Piece, Larger, Smaller
<1> DEFINE meets == r.end > a /\ r.start < end
           first == r.end > a /\ (i = 1 \/ regions[i - 1].end <= a)
<1>6. y = IF op = "protect" /\ meets THEN Region(Larger(r.start, a), Smaller(r.end, end), prot, r.max)
          ELSE IF op = "map" /\ first THEN Region(a, end, prot, max)
          ELSE Region(a, a, prot, max)
  BY DEF Between
<1>7. \A s, e, p, m : Region(s, e, p, m).start = s /\ Region(s, e, p, m).end = e /\ Region(s, e, p, m).prot = p /\ Region(s, e, p, m).max = m
  BY DEF Region
<1>8. \A s, e \in Nat, p, m \in SUBSET Permissions : Region(s, e, p, m) \in Piece
  BY DEF Region, Piece
<1> HIDE DEF x, y, z
<1>9. x.start <= x.end /\ (x.start # x.end => Sound(x) /\ r.start < a /\ x.end <= a /\ x.end <= r.end)
  BY <1>1, <1>2, <1>3, <1>4 DEF Sound, Larger, Smaller
<1>10. z.start <= z.end /\ (z.start # z.end => Sound(z) /\ end < r.end /\ end <= z.start /\ r.start <= z.start)
  BY <1>1, <1>2, <1>3, <1>5 DEF Sound, Larger, Smaller
<1>11. CASE op = "protect" /\ meets
  <2>1. y = Region(Larger(r.start, a), Smaller(r.end, end), prot, r.max)
    BY <1>6, <1>11
  <2>2. y.start = Larger(r.start, a) /\ y.end = Smaller(r.end, end) /\ y.prot = prot /\ y.max = r.max
    BY <1>7, <2>1
  <2>3. Larger(r.start, a) \in Nat /\ Smaller(r.end, end) \in Nat
    BY <1>1, <1>3 DEF Larger, Smaller
  <2>4. y \in Piece
    BY <1>1, <1>3, <1>8, <2>1, <2>3
  <2>5. prot \subseteq r.max
    <3>1. i \in Meeting(a, end)
      BY <1>11 DEF Meeting
    <3> QED
      BY <1>3, <1>11, <3>1
  <2>6. /\ y.start < y.end /\ a <= y.start /\ r.start <= y.start /\ y.end <= r.end /\ y.end <= end
    BY <1>1, <1>3, <1>11, <2>2 DEF Larger, Smaller
  <2>7. Sound(y)
    BY <1>1, <1>2, <1>3, <2>2, <2>3, <2>5, <2>6 DEF Sound
  <2> QED
    BY <1>4, <1>5, <1>9, <1>10, <1>11, <2>2, <2>3, <2>4, <2>6, <2>7 DEF x, y, z
<1>12. CASE op = "map" /\ first
  <2>1. y = Region(a, end, prot, max)
    BY <1>6, <1>12
  <2>2. y.start = a /\ y.end = end /\ y.prot = prot /\ y.max = max /\ y \in Piece
    BY <1>3, <1>7, <1>8, <2>1
  <2>3. Sound(y)
    BY <1>3, <1>12, <2>2 DEF Sound
  <2>4. i > 1 => regions[i - 1].end <= a
    BY <1>12
  <2>5. y.start <= y.end
    BY <1>3, <2>2
  <2> QED
    BY <1>3, <1>4, <1>5, <1>9, <1>10, <1>12, <2>2, <2>3, <2>4, <2>5 DEF x, y, z
<1>13. CASE ~(op = "protect" /\ meets) /\ ~(op = "map" /\ first)
  <2>1. y = Region(a, a, prot, max)
    BY <1>6, <1>13
  <2>2. y.start = a /\ y.end = a /\ y \in Piece
    BY <1>3, <1>7, <1>8, <2>1
  <2>3. y.start <= y.end
    BY <1>3, <2>2
  <2> QED
    BY <1>3, <1>4, <1>5, <1>9, <1>10, <2>2, <2>3 DEF x, y, z
<1> QED
  BY <1>11, <1>12, <1>13

\* One turn of change's loop.
LEMMA RebuildStep ==
    ASSUME Canonical(regions), NEW i \in DOMAIN regions, NEW op, NEW a, NEW end, NEW prot, NEW max,
           Asked(op, a, end, prot, max), NEW list, Canonical(list), EndsBy(list, Reach(op, i - 1, a, end))
    PROVE  LET new == Next3(list, op, i, a, end, prot, max)
           IN  /\ Canonical(new) /\ EndsBy(new, Reach(op, i, a, end))
               /\ \A p \in Int : \A v, w :
                     Maps(new, p, v, w) <=> \/ Maps(list, p, v, w) \/ Has(Before(regions[i], a), p, v, w)
                                           \/ Has(Between(op, i, a, end, prot, max), p, v, w)
                                           \/ Has(Behind(regions[i], end), p, v, w)
<1> DEFINE r == regions[i]
           x == Before(r, a)
           y == Between(op, i, a, end, prot, max)
           z == Behind(r, end)
           s == Appended(list, x)
           t == Appended(s, y)
           u == Appended(t, z)
           before == Reach(op, i - 1, a, end)
           after == Reach(op, i, a, end)
<1>1. /\ i \in Nat /\ i # 0 /\ r.start \in Nat /\ r.end \in Nat /\ r.start < r.end
      /\ i > 1 => regions[i - 1].end \in Nat /\ regions[i - 1].end <= r.start
  BY RegionFacts
<1>2. a \in Nat /\ end \in Nat /\ a < end
  BY DEF Asked
<1>3. /\ x \in Piece /\ y \in Piece /\ z \in Piece
      /\ x.start <= x.end /\ y.start <= y.end /\ z.start <= z.end
      /\ x.start # x.end => /\ Sound(x) /\ x.start = r.start /\ r.start < a /\ x.end <= a /\ x.end <= r.end
      /\ y.start # y.end => /\ Sound(y) /\ a <= y.start
                            /\ op # "map" => r.start <= y.start /\ y.end <= r.end /\ y.end <= end
                            /\ op = "map" => /\ y.start = a /\ y.end = end /\ r.end > a
                                             /\ i > 1 => regions[i - 1].end <= a
      /\ z.start # z.end => /\ Sound(z) /\ z.end = r.end /\ end < r.end /\ end <= z.start /\ r.start <= z.start
  BY PartsAre
<1>4. \A p \in Piece : p.start \in Nat /\ p.end \in Nat
  BY DEF Piece
<1>5. /\ before \in Nat /\ (before <= r.start \/ (op = "map" /\ i > 1 /\ regions[i - 1].end > a /\ before <= Larger(r.start, end)))
      /\ (i > 1 /\ regions[i - 1].end <= a => before <= a) /\ (i = 1 => before = 0)
  <2>1. CASE i = 1
    <3>1. before = 0
      BY <2>1 DEF Reach
    <3> QED
      BY <1>1, <2>1, <3>1
  <2>2. CASE i > 1
    <3>1. before = IF op = "map" /\ regions[i - 1].end > a THEN Larger(regions[i - 1].end, end) ELSE regions[i - 1].end
      BY <1>1, <2>2 DEF Reach
    <3> QED
      BY <1>1, <1>2, <2>2, <3>1 DEF Larger
  <2> QED
    BY <1>1, <2>1, <2>2
<1>6. after \in Nat /\ r.end <= after /\ (op = "map" /\ r.end > a => end <= after)
  BY <1>1, <1>2 DEF Reach, Larger
<1>h. EndsBy(list, before)
  OBVIOUS
<1>m. \A b, c \in Nat : \A l : Canonical(l) /\ EndsBy(l, b) /\ b <= c => EndsBy(l, c)
  <2> SUFFICES ASSUME NEW b \in Nat, NEW c \in Nat, NEW l, Canonical(l), EndsBy(l, b), b <= c, l # <<>> PROVE l[Len(l)].end <= c
    BY DEF EndsBy
  <2>1. l \in Seq(Piece)
    BY DEF Canonical
  <2>2. Len(l) \in 1 .. Len(l)
    BY <2>1, EmptySeq, ListFacts
  <2>3. l[Len(l)].end \in Nat
    BY <2>1, <2>2, ListFacts
  <2> QED
    BY <2>3 DEF EndsBy
<1> HIDE DEF before, after, x, y, z, s, t, u
<1>7. x.start # x.end => Sound(x) /\ EndsBy(list, x.start)
  <2> SUFFICES ASSUME x.start # x.end PROVE EndsBy(list, x.start)
    BY <1>3
  <2>1. r.start < a /\ x.start = r.start
    BY <1>3
  <2>2. before <= r.start
    BY <1>1, <1>2, <1>5, <2>1
  <2> QED
    BY <1>1, <1>5, <1>h, <1>m, <2>1, <2>2
<1>8. Canonical(s) /\ \A b \in Nat : EndsBy(list, b) /\ (x.start # x.end => x.end <= b) => EndsBy(s, b)
  BY <1>3, <1>7, AppendedIsCanonical DEF s
<1>9. y.start # y.end => Sound(y) /\ EndsBy(s, y.start)
  <2> SUFFICES ASSUME y.start # y.end PROVE EndsBy(s, y.start)
    BY <1>3
  <2>1. y.start \in Nat /\ (x.start # x.end => x.end <= y.start)
    BY <1>2, <1>3, <1>4
  <2>2. before <= y.start
    <3>1. CASE op = "map"
      <4>1. y.start = a /\ (i > 1 => regions[i - 1].end <= a)
        BY <1>3, <3>1
      <4> QED
        BY <1>1, <1>2, <1>5, <4>1
    <3>2. CASE op # "map"
      <4>1. r.start <= y.start /\ before <= r.start
        BY <1>3, <1>5, <3>2
      <4> QED
        BY <1>1, <1>5, <2>1, <4>1
    <3> QED
      BY <3>1, <3>2
  <2>3. EndsBy(list, y.start)
    BY <1>5, <1>h, <1>m, <2>1, <2>2
  <2> QED
    BY <1>8, <2>1, <2>3
<1>10. Canonical(t) /\ \A b \in Nat : EndsBy(s, b) /\ (y.start # y.end => y.end <= b) => EndsBy(t, b)
  BY <1>3, <1>8, <1>9, AppendedIsCanonical DEF t
<1>11. z.start # z.end => Sound(z) /\ EndsBy(t, z.start)
  <2> SUFFICES ASSUME z.start # z.end PROVE EndsBy(t, z.start)
    BY <1>3
  <2>1. z.start \in Nat /\ end <= z.start /\ r.start <= z.start /\ end < r.end
    BY <1>3, <1>4
  <2>2. (x.start # x.end => x.end <= z.start) /\ (y.start # y.end => y.end <= z.start)
    <3>1. x.end \in Nat /\ y.end \in Nat
      BY <1>3, <1>4
    <3> QED
      BY <1>2, <1>3, <2>1, <3>1
  <2>3. before <= z.start
    BY <1>1, <1>2, <1>5, <2>1 DEF Larger
  <2>4. EndsBy(list, z.start)
    BY <1>5, <1>h, <1>m, <2>1, <2>3
  <2> QED
    BY <1>8, <1>10, <2>1, <2>2, <2>4
<1>12. Canonical(u) /\ \A b \in Nat : EndsBy(t, b) /\ (z.start # z.end => z.end <= b) => EndsBy(u, b)
  BY <1>3, <1>10, <1>11, AppendedIsCanonical DEF u
<1>13. EndsBy(u, after)
  <2>1. before <= after
    <3>1. CASE before <= r.start
      BY <1>1, <1>5, <1>6, <3>1
    <3>2. CASE op = "map" /\ i > 1 /\ regions[i - 1].end > a /\ before <= Larger(r.start, end)
      <4>1. r.end > a
        BY <1>1, <1>2, <3>2
      <4> QED
        BY <1>1, <1>2, <1>5, <1>6, <3>2, <4>1 DEF Larger
    <3> QED
      BY <1>5, <3>1, <3>2
  <2>2. EndsBy(list, after)
    BY <1>5, <1>6, <1>h, <1>m, <2>1
  <2>3. (x.start # x.end => x.end <= after) /\ (y.start # y.end => y.end <= after) /\ (z.start # z.end => z.end <= after)
    <3>1. x.end \in Nat /\ y.end \in Nat /\ z.end \in Nat
      BY <1>3, <1>4
    <3> QED
      BY <1>1, <1>2, <1>3, <1>6, <3>1
  <2> QED
    BY <1>6, <1>8, <1>10, <1>12, <2>2, <2>3
<1>14. ASSUME NEW p \in Int, NEW v, NEW w
       PROVE  Maps(u, p, v, w) <=> Maps(list, p, v, w) \/ Has(x, p, v, w) \/ Has(y, p, v, w) \/ Has(z, p, v, w)
  <2>1. Maps(s, p, v, w) <=> Maps(list, p, v, w) \/ Has(x, p, v, w)
    BY <1>3, AppendedMaps DEF s
  <2>2. Maps(t, p, v, w) <=> Maps(s, p, v, w) \/ Has(y, p, v, w)
    BY <1>3, <1>8, AppendedMaps DEF t
  <2>3. Maps(u, p, v, w) <=> Maps(t, p, v, w) \/ Has(z, p, v, w)
    BY <1>3, <1>10, AppendedMaps DEF u
  <2> QED
    BY <2>1, <2>2, <2>3
<1> QED
  BY <1>12, <1>13, <1>14 DEF Next3, u, t, s, x, y, z, after
\* What page p is mapped with when change is behind the first n regions.
Inside(r, p) == r.start <= p /\ p < r.end
MapsBehind(op, a, end, prot, max, n, p, x, y) ==
    \/ ~(a <= p /\ p < end) /\ \E j \in 1 .. n : Has(regions[j], p, x, y)
    \/ a <= p /\ p < end /\ op = "map" /\ x = prot /\ y = max /\ \E j \in 1 .. n : regions[j].end > a
    \/ a <= p /\ p < end /\ op = "protect" /\ x = prot /\ \E j \in 1 .. n : Inside(regions[j], p) /\ y = regions[j].max

\* What a region's parts map.
LEMMA PartsMap ==
    ASSUME Canonical(regions), NEW i \in DOMAIN regions, NEW op, NEW a, NEW end, NEW prot, NEW max,
           Asked(op, a, end, prot, max), NEW p \in Int, NEW x, NEW y
    PROVE  LET r == regions[i]
               first == r.end > a /\ (i = 1 \/ regions[i - 1].end <= a)
           IN  /\ Has(Before(r, a), p, x, y) \/ Has(Behind(r, end), p, x, y)
                     <=> ~(a <= p /\ p < end) /\ Has(r, p, x, y)
               /\ Has(Between(op, i, a, end, prot, max), p, x, y)
                     <=> /\ a <= p /\ p < end /\ x = prot
                         /\ (op = "map" /\ first /\ y = max) \/ (op = "protect" /\ Inside(r, p) /\ y = r.max)
<1> DEFINE r == regions[i]
           b == Between(op, i, a, end, prot, max)
           meets == r.end > a /\ r.start < end
           first == r.end > a /\ (i = 1 \/ regions[i - 1].end <= a)
<1>1. r \in Piece /\ r.start \in Nat /\ r.end \in Nat /\ r.start < r.end
  BY RegionFacts
<1>2. a \in Nat /\ end \in Nat /\ a < end
  BY DEF Asked
<1>3. Has(Before(r, a), p, x, y) <=> p < a /\ Has(r, p, x, y)
  BY <1>1, <1>2 DEF Has, Before, Larger, Smaller, Piece
<1>4. Has(Behind(r, end), p, x, y) <=> end <= p /\ Has(r, p, x, y)
  BY <1>1, <1>2 DEF Has, Behind, Larger, Smaller, Piece
<1>5. b = IF op = "protect" /\ meets THEN Region(Larger(r.start, a), Smaller(r.end, end), prot, r.max)
          ELSE IF op = "map" /\ first THEN Region(a, end, prot, max)
          ELSE Region(a, a, prot, max)
  BY DEF Between
<1>6. \A s, e, q, m : Region(s, e, q, m).start = s /\ Region(s, e, q, m).end = e /\ Region(s, e, q, m).prot = q /\ Region(s, e, q, m).max = m
  BY DEF Region
<1>7. Has(b, p, x, y) <=> b.start <= p /\ p < b.end /\ b.prot = x /\ b.max = y
  BY DEF Has
<1>8. Has(b, p, x, y) <=>
        /\ a <= p /\ p < end /\ x = prot
        /\ (op = "map" /\ first /\ y = max) \/ (op = "protect" /\ Inside(r, p) /\ y = r.max)
  <2>1. CASE op = "protect" /\ meets
    <3>1. b.start = Larger(r.start, a) /\ b.end = Smaller(r.end, end) /\ b.prot = prot /\ b.max = r.max
      BY <1>5, <1>6, <2>1
    <3> HIDE DEF b
    <3> QED
      BY <1>1, <1>2, <1>7, <2>1, <3>1 DEF Larger, Smaller, Inside
  <2>2. CASE op = "map" /\ first
    <3>1. b.start = a /\ b.end = end /\ b.prot = prot /\ b.max = max
      BY <1>5, <1>6, <2>2
    <3> HIDE DEF b, first
    <3> QED
      BY <1>2, <1>7, <2>2, <3>1
  <2>3. CASE ~(op = "protect" /\ meets) /\ ~(op = "map" /\ first)
    <3>1. b.start = a /\ b.end = a
      BY <1>5, <1>6, <2>3
    <3>2. ~Has(b, p, x, y)
      <4> HIDE DEF b
      <4> QED
        BY <1>2, <1>7, <3>1
    <3>3. op = "protect" /\ a <= p /\ p < end => ~Inside(r, p)
      BY <1>1, <1>2, <2>3 DEF Inside
    <3> QED
      BY <2>3, <3>2, <3>3
  <2> QED
    BY <2>1, <2>2, <2>3
<1>9. Has(Before(r, a), p, x, y) \/ Has(Behind(r, end), p, x, y) <=> ~(a <= p /\ p < end) /\ Has(r, p, x, y)
  BY <1>2, <1>3, <1>4
<1> QED
  BY <1>8, <1>9

LEMMA RebuildMaps ==
    ASSUME Canonical(regions), NEW i \in DOMAIN regions, NEW op, NEW a, NEW end, NEW prot, NEW max,
           Asked(op, a, end, prot, max), NEW list, Canonical(list), EndsBy(list, Reach(op, i - 1, a, end)),
           NEW p \in Int, NEW x, NEW y,
           Maps(list, p, x, y) <=> MapsBehind(op, a, end, prot, max, i - 1, p, x, y)
    PROVE  Maps(Next3(list, op, i, a, end, prot, max), p, x, y) <=> MapsBehind(op, a, end, prot, max, i, p, x, y)
<1> DEFINE r == regions[i]
           u == Before(r, a)
           v == Between(op, i, a, end, prot, max)
           w == Behind(r, end)
           first == r.end > a /\ (i = 1 \/ regions[i - 1].end <= a)
           in == a <= p /\ p < end
<1>1. i \in 1 .. Len(regions) /\ 1 .. i = (1 .. i - 1) \cup {i}
  BY RegionFacts
<1>2. Maps(Next3(list, op, i, a, end, prot, max), p, x, y)
        <=> Maps(list, p, x, y) \/ Has(u, p, x, y) \/ Has(v, p, x, y) \/ Has(w, p, x, y)
  BY RebuildStep
<1>3. /\ Has(u, p, x, y) \/ Has(w, p, x, y) <=> ~in /\ Has(r, p, x, y)
      /\ Has(v, p, x, y) <=> /\ in /\ x = prot
                             /\ (op = "map" /\ first /\ y = max) \/ (op = "protect" /\ Inside(r, p) /\ y = r.max)
  BY PartsMap
<1>5. (\E j \in 1 .. i : regions[j].end > a) <=> (\E j \in 1 .. i - 1 : regions[j].end > a) \/ first
  <2>1. (\E j \in 1 .. i : regions[j].end > a) <=> (\E j \in 1 .. i - 1 : regions[j].end > a) \/ r.end > a
    BY <1>1
  <2>2. ASSUME r.end > a, ~first PROVE \E j \in 1 .. i - 1 : regions[j].end > a
    <3>1. i # 1 /\ ~(regions[i - 1].end <= a)
      BY <2>2
    <3>2. i - 1 \in 1 .. i - 1 /\ regions[i - 1].end \in Nat
      BY <1>1, <3>1, RegionFacts
    <3>3. regions[i - 1].end > a
      BY <3>1, <3>2 DEF Asked
    <3> QED
      BY <3>2, <3>3
  <2> QED
    BY <2>1, <2>2
<1>6. (\E j \in 1 .. i : Has(regions[j], p, x, y)) <=> (\E j \in 1 .. i - 1 : Has(regions[j], p, x, y)) \/ Has(r, p, x, y)
  BY <1>1
<1>7. (\E j \in 1 .. i : Inside(regions[j], p) /\ y = regions[j].max)
        <=> (\E j \in 1 .. i - 1 : Inside(regions[j], p) /\ y = regions[j].max) \/ (Inside(r, p) /\ y = r.max)
  BY <1>1
<1>8. Maps(list, p, x, y) <=>
        \/ ~in /\ \E j \in 1 .. i - 1 : Has(regions[j], p, x, y)
        \/ in /\ op = "map" /\ x = prot /\ y = max /\ \E j \in 1 .. i - 1 : regions[j].end > a
        \/ in /\ op = "protect" /\ x = prot /\ \E j \in 1 .. i - 1 : Inside(regions[j], p) /\ y = regions[j].max
  BY DEF MapsBehind
<1>9. MapsBehind(op, a, end, prot, max, i, p, x, y) <=>
        \/ ~in /\ \E j \in 1 .. i : Has(regions[j], p, x, y)
        \/ in /\ op = "map" /\ x = prot /\ y = max /\ \E j \in 1 .. i : regions[j].end > a
        \/ in /\ op = "protect" /\ x = prot /\ \E j \in 1 .. i : Inside(regions[j], p) /\ y = regions[j].max
  BY DEF MapsBehind
<1> HIDE DEF in, first, r, u, v, w
<1> QED
  BY <1>2, <1>3, <1>5, <1>6, <1>7, <1>8, <1>9
\* What p is mapped with after the change.
MapsAfter(op, a, end, prot, max, p, x, y) ==
    \/ ~(a <= p /\ p < end) /\ Maps(regions, p, x, y)
    \/ a <= p /\ p < end /\ op = "map" /\ x = prot /\ y = max
    \/ a <= p /\ p < end /\ op = "protect" /\ x = prot /\ \E j \in DOMAIN regions : Inside(regions[j], p) /\ y = regions[j].max

Rebuilds(op, a, end, prot, max, f) ==
    f = [i \in 0 .. Len(regions) |->
            IF i = 0 THEN <<>>
            ELSE Appended(Appended(Appended(f[i - 1], Before(regions[i], a)), Between(op, i, a, end, prot, max)),
                          Behind(regions[i], end))]

LEMMA RebuildExists ==
    ASSUME Canonical(regions), NEW op, NEW a, NEW end, NEW prot, NEW max, Asked(op, a, end, prot, max)
    PROVE  \E f : Rebuilds(op, a, end, prot, max, f)
<1> DEFINE n == Len(regions)
           X == Seq(Piece)
           step == [i \in 1 .. n |-> [l \in X |-> Next3(l, op, i, a, end, prot, max)]]
<1>1. n \in Nat /\ DOMAIN regions = 1 .. n
  BY ListFacts DEF Canonical
<1>2. <<>> \in X
  OBVIOUS
<1>3. \A i \in 1 .. n : \A l \in X : Next3(l, op, i, a, end, prot, max) \in X
  BY <1>1, PartsAre, AppendedIsList DEF Next3
<1> HIDE DEF X
<1>4. step \in [1 .. n -> [X -> X]]
  BY <1>3
<1>5. PICK f \in [0 .. n -> X] : Leads(<<>>, n, step, f)
  <2> HIDE DEF n, step
  <2> QED
    BY <1>1, <1>2, <1>4, StepsLead
<1>6. ASSUME NEW i \in 1 .. n PROVE f[i] = Next3(f[i - 1], op, i, a, end, prot, max)
  <2>1. i - 1 \in 0 .. n
    BY <1>1
  <2>2. f[i - 1] \in X
    BY <2>1
  <2>3. f[i] = step[i][f[i - 1]]
    BY <1>5 DEF Leads
  <2> QED
    BY <2>2, <2>3
<1> DEFINE g == [i \in 0 .. n |-> IF i = 0 THEN <<>> ELSE Next3(f[i - 1], op, i, a, end, prot, max)]
<1>7. f[0] = <<>>
  BY <1>5 DEF Leads
<1>8. ASSUME NEW k \in 0 .. n PROVE f[k] = g[k]
  <2>1. CASE k = 0
    BY <1>7, <2>1
  <2>2. CASE k # 0
    BY <1>1, <1>6, <2>2
  <2> QED
    BY <2>1, <2>2
<1>9. f = g
  BY <1>8
<1> QED
  BY <1>9 DEF Rebuilds, Next3

\* The regions are in order.
LEMMA EndsAscend ==
    ASSUME Canonical(regions), NEW j \in DOMAIN regions, NEW k \in DOMAIN regions, j <= k
    PROVE  regions[j].end <= regions[k].end /\ (j < k => regions[j].end <= regions[k].start)
<1> DEFINE N == {m \in Nat : j + m \in DOMAIN regions =>
                    regions[j].end <= regions[j + m].end /\ (m # 0 => regions[j].end <= regions[j + m].start)}
<1>1. DOMAIN regions = 1 .. Len(regions) /\ Len(regions) \in Nat
  BY ListFacts DEF Canonical
<1>2. 0 \in N
  BY <1>1, RegionFacts
<1>3. ASSUME NEW m \in Nat, m \in N PROVE m + 1 \in N
  <2> SUFFICES ASSUME j + (m + 1) \in DOMAIN regions
               PROVE  regions[j].end <= regions[j + (m + 1)].end /\ regions[j].end <= regions[j + (m + 1)].start
    BY <1>3
  <2>1. j + m \in DOMAIN regions /\ (j + (m + 1)) - 1 = j + m /\ j + (m + 1) > 1
    BY <1>1
  <2>2. regions[j].end <= regions[j + m].end
    BY <1>3, <2>1
  <2>3. regions[j + m].end <= regions[j + (m + 1)].start
    BY <2>1, RegionFacts
  <2>4. regions[j].end \in Nat /\ regions[j + m].end \in Nat
    BY <2>1, RegionFacts
  <2>5. /\ regions[j + (m + 1)].start \in Nat /\ regions[j + (m + 1)].end \in Nat
        /\ regions[j + (m + 1)].start < regions[j + (m + 1)].end
    BY RegionFacts
  <2> QED
    BY <2>2, <2>3, <2>4, <2>5
<1>4. Nat \subseteq N
  <2> HIDE DEF N
  <2> QED
    BY <1>2, <1>3, SetInduction
<1>5. k - j \in Nat /\ j + (k - j) = k
  BY <1>1
<1>6. k - j \in N
  BY <1>4, <1>5
<1> QED
  BY <1>1, <1>5, <1>6

LEMMA RebuiltIs ==
    ASSUME Canonical(regions), NEW op, NEW a, NEW end, NEW prot, NEW max, Asked(op, a, end, prot, max)
    PROVE  LET list == Rebuilt(op, a, end, prot, max)
           IN  /\ Canonical(list)
               /\ \A p \in Int : \A x, y : Maps(list, p, x, y) <=> MapsAfter(op, a, end, prot, max, p, x, y)
<1> DEFINE n == Len(regions)
           f == CHOOSE f : Rebuilds(op, a, end, prot, max, f)
           last == op = "map" /\ (n = 0 \/ regions[n].end <= a)
           new == Region(a, IF last THEN end ELSE a, prot, max)
<1>1. n \in Nat /\ DOMAIN regions = 1 .. n
  BY ListFacts DEF Canonical
<1>2. Rebuilds(op, a, end, prot, max, f)
  BY RebuildExists
<1>3. Rebuilt(op, a, end, prot, max) = Appended(f[n], new)
  BY DEF Rebuilt, Rebuilds
<1> HIDE DEF f
<1>4. f[0] = <<>> /\ \A i \in 1 .. n : f[i] = Next3(f[i - 1], op, i, a, end, prot, max)
  BY <1>1, <1>2 DEF Rebuilds, Next3
<1> DEFINE Fine(i) ==
             /\ Canonical(f[i]) /\ EndsBy(f[i], Reach(op, i, a, end))
             /\ \A p \in Int : \A x, y : Maps(f[i], p, x, y) <=> MapsBehind(op, a, end, prot, max, i, p, x, y)
           N == {i \in Nat : i <= n => Fine(i)}
<1>5. 0 \in N
  <2>1. Canonical(f[0]) /\ EndsBy(f[0], Reach(op, 0, a, end))
    BY <1>4 DEF Canonical, EndsBy
  <2>2. \A p \in Int : \A x, y : ~Maps(f[0], p, x, y) /\ ~MapsBehind(op, a, end, prot, max, 0, p, x, y)
    BY <1>4 DEF Maps, MapsBehind
  <2> QED
    BY <2>1, <2>2
<1>6. ASSUME NEW i \in Nat, i \in N PROVE i + 1 \in N
  <2> SUFFICES ASSUME i + 1 <= n PROVE Fine(i + 1)
    OBVIOUS
  <2>1. i + 1 \in DOMAIN regions /\ (i + 1) - 1 = i /\ i + 1 \in 1 .. n /\ i <= n
    BY <1>1
  <2>2. Fine(i)
    BY <1>6, <2>1
  <2>3. f[i + 1] = Next3(f[i], op, i + 1, a, end, prot, max)
    BY <1>4, <2>1
  <2> DEFINE k == i + 1
  <2>4. k - 1 = i /\ k \in DOMAIN regions
    BY <2>1
  <2> HIDE DEF k
  <2>5. Canonical(f[i]) /\ EndsBy(f[i], Reach(op, k - 1, a, end))
    BY <2>2, <2>4
  <2>6. Canonical(Next3(f[i], op, k, a, end, prot, max)) /\ EndsBy(Next3(f[i], op, k, a, end, prot, max), Reach(op, k, a, end))
    BY <2>4, <2>5, RebuildStep
  <2>7. ASSUME NEW p \in Int, NEW x, NEW y
        PROVE  Maps(Next3(f[i], op, k, a, end, prot, max), p, x, y) <=> MapsBehind(op, a, end, prot, max, k, p, x, y)
    <3>1. Maps(f[i], p, x, y) <=> MapsBehind(op, a, end, prot, max, k - 1, p, x, y)
      BY <2>2, <2>4
    <3> QED
      BY <2>4, <2>5, <3>1, RebuildMaps
  <2> QED
    BY <2>3, <2>6, <2>7 DEF k
<1>7. Nat \subseteq N
  <2> HIDE DEF N
  <2> QED
    BY <1>5, <1>6, SetInduction
<1>8. Fine(n)
  BY <1>1, <1>7
<1>9. /\ a \in Nat /\ end \in Nat /\ FirstPage <= a /\ a < end /\ end <= LastPage + 1
      /\ prot \in SUBSET Permissions /\ max \in SUBSET Permissions /\ (op = "map" => prot \subseteq max)
  BY DEF Asked
<1>10. /\ new.start = a /\ new.end = (IF last THEN end ELSE a) /\ new.prot = prot /\ new.max = max
       /\ new \in Piece /\ new.start <= new.end
  BY <1>9 DEF Region, Piece
<1>11. last => EndsBy(f[n], a)
  <2> SUFFICES ASSUME last, f[n] # <<>> PROVE f[n][Len(f[n])].end <= a
    BY DEF EndsBy
  <2>1. f[n][Len(f[n])].end <= Reach(op, n, a, end) /\ n # 0
    BY <1>4, <1>8 DEF EndsBy
  <2>2. n \in DOMAIN regions
    BY <1>1, <2>1
  <2>3. regions[n].end \in Nat /\ regions[n].end <= a
    BY <2>1, <2>2, RegionFacts
  <2>4. Reach(op, n, a, end) = regions[n].end
    BY <1>9, <2>1, <2>3 DEF Reach
  <2>5. f[n] \in Seq(Piece) /\ Len(f[n]) \in 1 .. Len(f[n])
    BY <1>8, EmptySeq, ListFacts DEF Canonical
  <2>6. f[n][Len(f[n])].end \in Nat
    BY <2>5, ListFacts
  <2> QED
    BY <1>9, <2>1, <2>3, <2>4, <2>6
<1> HIDE DEF Fine, new
<1>12. new.start # new.end => Sound(new) /\ EndsBy(f[n], new.start)
  BY <1>9, <1>10, <1>11 DEF Sound
<1>13. Canonical(f[n]) /\ \A p \in Int : \A x, y : Maps(f[n], p, x, y) <=> MapsBehind(op, a, end, prot, max, n, p, x, y)
  BY <1>8 DEF Fine
<1>14. Canonical(Appended(f[n], new))
  BY <1>10, <1>12, <1>13, AppendedIsCanonical
<1>15. ASSUME NEW p \in Int, NEW x, NEW y
       PROVE  Maps(Appended(f[n], new), p, x, y) <=> MapsAfter(op, a, end, prot, max, p, x, y)
  <2>1. Maps(Appended(f[n], new), p, x, y) <=> MapsBehind(op, a, end, prot, max, n, p, x, y) \/ Has(new, p, x, y)
    BY <1>10, <1>13, AppendedMaps
  <2>2. Has(new, p, x, y) <=> a <= p /\ p < end /\ last /\ x = prot /\ y = max
    BY <1>9, <1>10 DEF Has
  <2>3. op = "map" => (last <=> ~\E j \in 1 .. n : regions[j].end > a)
    <3>1. ASSUME op = "map", last, NEW j \in 1 .. n PROVE ~(regions[j].end > a)
      <4>1. n # 0 /\ n \in DOMAIN regions /\ regions[n].end <= a
        BY <1>1, <3>1
      <4>2. regions[j].end <= regions[n].end
        BY <1>1, <4>1, EndsAscend
      <4>3. regions[j].end \in Nat /\ regions[n].end \in Nat
        BY <1>1, <4>1, RegionFacts
      <4> QED
        BY <1>9, <4>1, <4>2, <4>3
    <3>2. ASSUME op = "map", ~last PROVE \E j \in 1 .. n : regions[j].end > a
      <4>1. n # 0 /\ ~(regions[n].end <= a)
        BY <3>2
      <4>2. n \in 1 .. n /\ regions[n].end \in Nat
        BY <1>1, <4>1, RegionFacts
      <4> QED
        BY <1>9, <4>1, <4>2
    <3> QED
      BY <3>1, <3>2
  <2>4. Maps(regions, p, x, y) <=> \E j \in 1 .. n : Has(regions[j], p, x, y)
    BY <1>1 DEF Maps
  <2> DEFINE in == a <= p /\ p < end
             some == \E j \in 1 .. n : regions[j].end > a
             here == \E j \in 1 .. n : Inside(regions[j], p) /\ y = regions[j].max
  <2>5. MapsBehind(op, a, end, prot, max, n, p, x, y) <=>
          \/ ~in /\ Maps(regions, p, x, y)
          \/ in /\ op = "map" /\ x = prot /\ y = max /\ some
          \/ in /\ op = "protect" /\ x = prot /\ here
    BY <2>4 DEF MapsBehind
  <2>6. MapsAfter(op, a, end, prot, max, p, x, y) <=>
          \/ ~in /\ Maps(regions, p, x, y)
          \/ in /\ op = "map" /\ x = prot /\ y = max
          \/ in /\ op = "protect" /\ x = prot /\ here
    BY <1>1 DEF MapsAfter
  <2>7. last => op = "map"
    OBVIOUS
  <2> HIDE DEF last, in, some, here
  <2>8. op = "map" => (last <=> ~some)
    BY <2>3 DEF some
  <2>9. Has(new, p, x, y) <=> in /\ last /\ x = prot /\ y = max
    BY <2>2 DEF in
  <2> QED
    BY <2>1, <2>5, <2>6, <2>7, <2>8, <2>9
<1> QED
  BY <1>3, <1>14, <1>15
-----------------------------------------------------------------------------
(* page_slot.                                                              *)

Entries == [address : {0, Deleted} \cup Pages, backing : Nat, generation : Nat]
Tables == [Slots -> Entries]
AddressAt(table, page, k) == table[Probe(page, k)].address

\* The probe for a page gets to its k-th slot: it has met neither the page nor an
\* entry that was never used.
Passes(table, page, k) == \A j \in Slots : j < k => AddressAt(table, page, j) \notin {page, 0}
FoundAt(table, page, slot) ==
    \E k \in Slots : Probe(page, k) = slot /\ AddressAt(table, page, k) = page /\ Passes(table, page, k)

LEMMA MinOf ==
    ASSUME NEW S \in SUBSET Nat, S # {}
    PROVE  Min(S) \in S /\ \A n \in S : Min(S) <= n
BY LeastExists DEF Min

LEMMA NumbersAre ==
    /\ FirstPage \in Nat /\ FirstPage > 0 /\ LastPage \in Nat /\ FirstPage <= LastPage /\ PageCells \in Nat /\ PageCells > 0
    /\ Capacity \in Nat /\ Capacity > 0 /\ SlotCount \in Nat /\ SlotCount > Capacity /\ Base \in Nat /\ Base > 0
    /\ Deleted \in Nat /\ Deleted # 0 /\ Deleted \notin Pages /\ 0 \notin Pages /\ Slots \subseteq Nat /\ Pages \subseteq Nat
    /\ -1 \notin Slots
BY SpaceAssumption DEF Deleted, Pages, Slots

LEMMA ProbeIsSlot ==
    ASSUME NEW page \in Pages, NEW k \in Slots
    PROVE  Probe(page, k) \in Slots
<1>1. Hash[page] \in Slots
  BY SpaceAssumption
<1>2. Hash[page] \in Nat /\ k \in Nat /\ SlotCount \in Nat /\ SlotCount > 0
  BY <1>1, SpaceAssumption DEF Slots
<1>3. (Hash[page] + k) % SlotCount \in 0 .. SlotCount - 1
  <2> DEFINE x == Hash[page] + k
  <2>1. x \in Nat
    BY <1>2
  <2> HIDE DEF x
  <2>2. x % SlotCount \in 0 .. SlotCount - 1
    BY <1>2, <2>1
  <2> QED
    BY <2>2 DEF x
<1> QED
  BY <1>3 DEF Probe, Slots

\* A probe meets every slot, once.
LEMMA ProbeMeets ==
    ASSUME NEW page \in Pages, NEW slot \in Slots
    PROVE  \E k \in Slots : Probe(page, k) = slot
<1> DEFINE h == Hash[page]
           n == SlotCount
<1>1. h \in Nat /\ h < n /\ slot \in Nat /\ slot < n /\ n \in Nat /\ n > 0
  BY SpaceAssumption, NumbersAre DEF Slots
<1>2. Slots = 0 .. n - 1 /\ \A k : Probe(page, k) = (h + k) % n
  BY DEF Slots, Probe
<1> HIDE DEF h, n
<1>3. CASE slot >= h
  <2>1. slot - h \in 0 .. n - 1 /\ h + (slot - h) = slot /\ slot % n = slot
    BY <1>1, <1>3
  <2> QED
    BY <1>2, <2>1
<1>4. CASE slot < h
  <2>1. slot - h + n \in 0 .. n - 1 /\ h + (slot - h + n) = slot + n
    BY <1>1, <1>4
  <2>2. (slot + n) % n = slot
    BY <1>1
  <2> QED
    BY <1>2, <2>1, <2>2
<1> QED
  BY <1>1, <1>3, <1>4

LEMMA ProbeIsInjective ==
    ASSUME NEW page \in Pages, NEW j \in Slots, NEW k \in Slots, Probe(page, j) = Probe(page, k)
    PROVE  j = k
<1> DEFINE h == Hash[page]
           n == SlotCount
           x == h + j
           y == h + k
<1>1. h \in Nat /\ h < n /\ j \in Nat /\ j < n /\ k \in Nat /\ k < n /\ n \in Nat /\ n > 0
  BY SpaceAssumption, NumbersAre DEF Slots
<1>2. x % n = y % n
  BY DEF Probe
<1> HIDE DEF h, n
<1>3. x % n = IF x < n THEN x ELSE x - n
  BY <1>1
<1>4. y % n = IF y < n THEN y ELSE y - n
  BY <1>1
<1> QED
  BY <1>1, <1>2, <1>3, <1>4

\* What page_slot returns.
LEMMA PageSlotFinds ==
    ASSUME NEW table \in Tables, NEW page \in Pages
    PROVE  /\ PageSlot(table, page, FALSE) = -1 \/ FoundAt(table, page, PageSlot(table, page, FALSE))
           /\ \A slot : FoundAt(table, page, slot) => PageSlot(table, page, FALSE) = slot
<1> DEFINE at(k) == table[Probe(page, k)].address
           stops == {k \in Slots : at(k) \in {page, 0}}
           m == Min(stops)
           found == stops # {} /\ at(m) = page
           r == PageSlot(table, page, FALSE)
<1>1. r = IF found THEN Probe(page, m) ELSE -1
  BY DEF PageSlot
<1>2. \A k : AddressAt(table, page, k) = at(k)
  BY DEF AddressAt
<1>3. stops \in SUBSET Nat
  BY NumbersAre
<1>4. \A k \in Slots : Passes(table, page, k) <=> \A j \in Slots : j < k => j \notin stops
  BY <1>2 DEF Passes
<1>5. stops # {} => m \in stops /\ \A k \in stops : m <= k
  BY <1>3, MinOf
<1>6. \A k \in stops : k \in Slots /\ k \in Nat
  BY <1>3
<1>7. \A k \in Slots : k \in Nat /\ (k \in stops <=> at(k) \in {page, 0})
  BY NumbersAre
<1> HIDE DEF stops, at, m, r
<1>8. r = -1 \/ FoundAt(table, page, r)
  <2> SUFFICES ASSUME found PROVE FoundAt(table, page, r)
    BY <1>1
  <2>1. m \in Slots /\ r = Probe(page, m) /\ at(m) = page
    BY <1>1, <1>5, <1>6
  <2>2. Passes(table, page, m)
    BY <1>4, <1>5, <1>6, <1>7, <2>1
  <2> QED
    BY <1>2, <2>1, <2>2 DEF FoundAt
<1>9. ASSUME NEW slot, FoundAt(table, page, slot) PROVE r = slot
  <2>1. PICK k \in Slots : Probe(page, k) = slot /\ at(k) = page /\ Passes(table, page, k)
    BY <1>2, <1>9 DEF FoundAt
  <2>2. k \in stops
    BY <1>7, <2>1
  <2>3. m = k
    <3>1. m \in stops /\ m <= k /\ m \in Nat /\ k \in Nat /\ m \in Slots
      BY <1>5, <1>6, <2>2
    <3>2. ~(m < k)
      BY <1>4, <2>1, <3>1
    <3> QED
      BY <3>1, <3>2
  <2> QED
    BY <1>1, <2>1, <2>2, <2>3
<1> QED
  BY <1>8, <1>9 DEF r

LEMMA PageSlotInserts ==
    ASSUME NEW table \in Tables, NEW page \in Pages, PageSlot(table, page, FALSE) = -1,
           NEW vacant \in Slots, table[vacant].address \in {0, Deleted}
    PROVE  LET slot == PageSlot(table, page, TRUE)
           IN  /\ slot \in Slots /\ table[slot].address \in {0, Deleted}
               /\ \E k \in Slots : Probe(page, k) = slot /\ Passes(table, page, k)
<1> DEFINE at(k) == table[Probe(page, k)].address
           stops == {k \in Slots : at(k) \in {page, 0}}
           m == Min(stops)
           gaps == {k \in Slots : at(k) = Deleted /\ (stops = {} \/ k < m)}
           g == Min(gaps)
           found == stops # {} /\ at(m) = page
           r == PageSlot(table, page, TRUE)
<1>1. r = IF found THEN Probe(page, m)
          ELSE IF gaps # {} THEN Probe(page, g)
          ELSE IF stops # {} THEN Probe(page, m) ELSE -1
  BY DEF PageSlot
<1>2. \A k : AddressAt(table, page, k) = at(k)
  BY DEF AddressAt
<1>3. stops \in SUBSET Nat /\ gaps \in SUBSET Nat
  BY NumbersAre
<1>4. \A k \in Slots : Passes(table, page, k) <=> \A j \in Slots : j < k => j \notin stops
  BY <1>2 DEF Passes
<1>5. stops # {} => m \in stops /\ \A k \in stops : m <= k
  BY <1>3, MinOf
<1>6. gaps # {} => g \in gaps
  BY <1>3, MinOf
<1>7. \A k \in Slots : k \in Nat /\ (k \in stops <=> at(k) \in {page, 0})
                       /\ (k \in gaps <=> at(k) = Deleted /\ (stops = {} \/ k < m))
  BY NumbersAre
<1>8. \A k \in stops \cup gaps : k \in Slots
  OBVIOUS
<1>9. \A k \in Slots : Probe(page, k) \in Slots
  BY ProbeIsSlot
<1>10. ~found
  <2> SUFFICES ASSUME found PROVE FALSE
    OBVIOUS
  <2>1. m \in Slots /\ at(m) = page
    BY <1>5, <1>8
  <2>2. Passes(table, page, m)
    <3> HIDE DEF stops, at, m
    <3> SUFFICES ASSUME NEW j \in Slots, j < m, j \in stops PROVE FALSE
      BY <1>4, <2>1
    <3>1. m <= j /\ m \in Nat /\ j \in Nat
      BY <1>3, <1>5, <1>7, <2>1
    <3> QED
      BY <3>1
  <2>3. FoundAt(table, page, Probe(page, m))
    BY <1>2, <2>1, <2>2 DEF FoundAt
  <2>4. Probe(page, m) = -1
    BY <2>3, PageSlotFinds
  <2> QED
    BY <1>9, <2>1, <2>4, NumbersAre
<1>11. PICK v \in Slots : at(v) \in {0, Deleted}
  <2>1. PICK v \in Slots : Probe(page, v) = vacant
    BY ProbeMeets
  <2> QED
    BY <2>1
<1>12. stops # {} \/ gaps # {}
  BY <1>7, <1>11
<1>a. \A k : table[Probe(page, k)].address = at(k)
  OBVIOUS
<1> HIDE DEF stops, gaps, at, m, g, r
<1>13. CASE gaps # {}
  <2>1. g \in Slots /\ at(g) = Deleted /\ (stops = {} \/ g < m) /\ r = Probe(page, g)
    BY <1>1, <1>6, <1>7, <1>8, <1>10, <1>13
  <2>2. Passes(table, page, g)
    <3> SUFFICES ASSUME NEW j \in Slots, j < g, j \in stops PROVE FALSE
      BY <1>4, <2>1
    <3>1. g < m /\ m <= j /\ m \in Nat /\ g \in Nat /\ j \in Nat
      BY <1>3, <1>5, <1>7, <2>1
    <3> QED
      BY <3>1
  <2> QED
    BY <1>9, <1>a, <2>1, <2>2 DEF r
<1>14. CASE gaps = {}
  <2>1. stops # {} /\ r = Probe(page, m)
    BY <1>1, <1>10, <1>12, <1>14
  <2>2. m \in Slots /\ at(m) = 0
    BY <1>5, <1>7, <1>8, <1>10, <2>1
  <2>3. Passes(table, page, m)
    <3> SUFFICES ASSUME NEW j \in Slots, j < m, j \in stops PROVE FALSE
      BY <1>4, <2>2
    <3>1. m <= j /\ m \in Nat /\ j \in Nat
      BY <1>3, <1>5, <1>7, <2>1
    <3> QED
      BY <3>1
  <2> QED
    BY <1>9, <1>a, <2>1, <2>2, <2>3 DEF r
<1> QED
  BY <1>13, <1>14
-----------------------------------------------------------------------------
(* What the calls do.                                                      *)

\* change is carried out.
Carried(op, a, end, prot, max) ==
    /\ Asked(op, a, end, prot, max)
    /\ Len(Rebuilt(op, a, end, prot, max)) <= RegionLimit
    /\ regions' = Rebuilt(op, a, end, prot, max)
    /\ store' = IF op = "protect" \/ store.resident = 0 THEN store ELSE Discard(store, a, end)
    /\ generation' = generation /\ mappingGeneration' = mappingGeneration + 1
\* A span that passed the preflight of a write.
Accessible(a, n) ==
    /\ a \in Nat /\ n \in Nat /\ n # 0 /\ FirstCell <= a /\ a + n <= EndCell
    /\ Fits(a, n) /\ \E need : CheckAccess(a, n, need) = "OK"

Stays == UNCHANGED <<regions, store, generation, mappingGeneration>>
Changes == \E op, a, end, prot, max : Carried(op, a, end, prot, max)
Backs == UNCHANGED <<regions, generation, mappingGeneration>> /\ \E a, n : Accessible(a, n) /\ store' = Backed(a, n)
Writes == /\ UNCHANGED <<regions, mappingGeneration>> /\ generation' = generation + 1
          /\ \E a, bytes : bytes \in Seq(Byte) /\ Accessible(a, Len(bytes)) /\ store' = Written(a, bytes)

LEMMA RebuildIs ==
    ASSUME NEW op, NEW a, NEW end, NEW prot, NEW max, Asked(op, a, end, prot, max), Rebuild(op, a, end, prot, max)
    PROVE  Stays \/ Changes
<1>1. CASE Refuse(op, "NOMEM")
  BY <1>1 DEF Refuse, Stays
<1>2. CASE Carried(op, a, end, prot, max)
  BY <1>2 DEF Changes
<1> HIDE DEF Stays, Changes
<1> QED
  BY <1>1, <1>2 DEF Rebuild, Carried

LEMMA BytesAre ==
    ASSUME NEW n \in Nat, NEW bytes \in Bytes(n)
    PROVE  bytes \in Seq(Byte) /\ Len(bytes) = n /\ (bytes = <<>> <=> n = 0)
BY DEF Bytes

LEMMA CommitIs ==
    ASSUME NEW a \in Nat, NEW bytes \in Seq(Byte), NEW r, NEW need, Commit(a, bytes, r),
           FirstCell <= a, a + Len(bytes) <= EndCell, CheckAccess(a, Len(bytes), need) = "OK", Fits(a, Len(bytes))
    PROVE  Stays \/ Writes
<1>1. CASE bytes = <<>>
  BY <1>1 DEF Commit, Stays
<1>2. CASE bytes # <<>>
  <2>1. Len(bytes) \in Nat /\ Len(bytes) # 0
    BY <1>2
  <2>2. Accessible(a, Len(bytes))
    BY <2>1 DEF Accessible
  <2>3. UNCHANGED <<regions, mappingGeneration>> /\ generation' = generation + 1 /\ store' = Written(a, bytes)
    BY <1>2 DEF Commit
  <2> QED
    BY <2>2, <2>3 DEF Writes
<1> QED
  BY <1>1, <1>2

LEMMA MayBeWritten ==
    ASSUME NEW a, NEW n, WriteResult(a, n) = "OK"
    PROVE  CheckAccess(a, n, {"w"}) = "OK" /\ Fits(a, n)
BY DEF WriteResult

LEMMA MappingIs == ASSUME Mapping PROVE Stays \/ Changes
<1>1. PICK a \in Pages, end \in Pages \cup {LastPage + 1} :
        /\ a < end
        /\ \/ \E prot, max \in Protections, replace \in BOOLEAN :
                 prot \subseteq max /\ Map(a, end, prot, max, replace)
           \/ Unmap(a, end)
           \/ \E prot \in Protections : Protect(a, end, prot)
           \/ FindFree(end - a)
  BY DEF Mapping
<1>2. a \in Nat /\ end \in Nat /\ FirstPage <= a /\ a < end /\ end <= LastPage + 1
  BY <1>1, SpaceAssumption DEF Pages
<1>3. \A prot \in Protections : prot \in SUBSET Permissions
  BY DEF Permissions
<1>4. ASSUME NEW prot \in Protections, NEW max \in Protections, NEW replace \in BOOLEAN,
             prot \subseteq max, Map(a, end, prot, max, replace)
      PROVE  Stays \/ Changes
  <2>1. Asked("map", a, end, prot, max)
    BY <1>2, <1>3, <1>4 DEF Asked
  <2>2. CASE Refuse("map", "OVERLAP")
    BY <2>2 DEF Refuse, Stays
  <2>3. CASE Rebuild("map", a, end, prot, max)
    BY <2>1, <2>3, RebuildIs
  <2> QED
    BY <1>4, <2>2, <2>3 DEF Map
<1>5. CASE Unmap(a, end)
  <2>1. Asked("unmap", a, end, {}, {})
    BY <1>2 DEF Asked
  <2> QED
    BY <1>5, <2>1, RebuildIs DEF Unmap
<1>6. ASSUME NEW prot \in Protections, Protect(a, end, prot) PROVE Stays \/ Changes
  <2>1. CASE Refuse("protect", "UNMAPPED") \/ Refuse("protect", "PROTECTION")
    BY <2>1 DEF Refuse, Stays
  <2>2. CASE /\ \A i \in Meeting(a, end) : prot \subseteq regions[i].max
             /\ Rebuild("protect", a, end, prot, {})
    <3>1. Asked("protect", a, end, prot, {})
      BY <1>2, <1>3, <2>2 DEF Asked
    <3> QED
      BY <2>2, <3>1, RebuildIs
  <2> QED
    BY <1>6, <2>1, <2>2 DEF Protect
<1>7. CASE FindFree(end - a)
  BY <1>7 DEF FindFree, Yield, Refuse, Stays
<1> HIDE DEF Stays, Changes
<1> QED
  BY <1>1, <1>4, <1>5, <1>6, <1>7

LEMMA SpanIs ==
    ASSUME NEW s \in Spans \cup Aligned
    PROVE  s[1] \in Nat /\ s[2] \in Nat /\ FirstCell <= s[1] /\ s[1] + s[2] <= EndCell
<1>1. FirstCell \in Nat
  BY NumbersAre DEF FirstCell
<1>2. s[1] \in FirstCell .. EndCell - 1 /\ s[2] \in Lengths \cup Granules /\ s[1] + s[2] <= EndCell
  BY DEF Spans, Aligned
<1>3. EndCell \in Nat
  BY NumbersAre DEF EndCell
<1>4. s[2] \in Nat
  BY <1>2, SpaceAssumption, GranuleAssumption
<1>5. s[1] \in Nat /\ FirstCell <= s[1]
  <2> HIDE DEF FirstCell, EndCell
  <2> QED
    BY <1>1, <1>2, <1>3
<1> QED
  BY <1>2, <1>4, <1>5

LEMMA AccessingIs == ASSUME Accessing PROVE Stays \/ Backs \/ Writes
<1>1. PICK s \in Spans : \/ Read(s[1], s[2])
                         \/ \E bytes \in Bytes(s[2]) : Write(s[1], bytes)
                         \/ \E need \in Protections : Prepare(s[1], s[2], need)
  BY DEF Accessing
<1>2. s[1] \in Nat /\ s[2] \in Nat /\ FirstCell <= s[1] /\ s[1] + s[2] <= EndCell
  BY SpanIs
<1>3. CASE Read(s[1], s[2])
  BY <1>3 DEF Read, Yield, Refuse, Stays
<1>4. ASSUME NEW bytes \in Bytes(s[2]), Write(s[1], bytes) PROVE Stays \/ Writes
  <2>1. bytes \in Seq(Byte) /\ Len(bytes) = s[2]
    BY <1>2, BytesAre
  <2>2. CASE Refuse("write", WriteResult(s[1], Len(bytes)))
    BY <2>2 DEF Refuse, Stays
  <2>3. CASE WriteResult(s[1], Len(bytes)) = "OK" /\ Commit(s[1], bytes, <<"write", "OK">>)
    BY <1>2, <2>1, <2>3, MayBeWritten, CommitIs
  <2> QED
    BY <1>4, <2>2, <2>3 DEF Write
<1>5. ASSUME NEW need \in Protections, Prepare(s[1], s[2], need) PROVE Stays \/ Backs
  <2> DEFINE result == CheckAccess(s[1], s[2], need)
  <2>1. CASE result # "OK" \/ s[2] = 0 \/ "w" \notin need \/ ~Fits(s[1], s[2])
    BY <1>5, <2>1 DEF Prepare, Refuse, Stays
  <2>2. CASE ~(result # "OK" \/ s[2] = 0 \/ "w" \notin need \/ ~Fits(s[1], s[2]))
    <3>1. Accessible(s[1], s[2])
      BY <1>2, <2>2 DEF Accessible
    <3>2. UNCHANGED <<regions, generation, mappingGeneration>> /\ store' = Backed(s[1], s[2])
      BY <1>5, <2>2 DEF Prepare
    <3> QED
      BY <3>1, <3>2 DEF Backs
  <2> QED
    BY <2>1, <2>2
<1> HIDE DEF Stays, Backs, Writes
<1> QED
  BY <1>1, <1>3, <1>4, <1>5

LEMMA ReplaceIs ==
    ASSUME NEW op, NEW a \in Nat, NEW old, NEW new \in Seq(Byte), FirstCell <= a, a + Len(new) <= EndCell,
           Replace(op, a, old, new)
    PROVE  Stays \/ Writes
<1>1. CASE Refuse(op, WriteResult(a, Len(new)))
  BY <1>1 DEF Refuse, Stays
<1>2. CASE WriteResult(a, Len(new)) = "OK" /\ Commit(a, new, <<op, "OK", old>>)
  BY <1>2, MayBeWritten, CommitIs
<1> QED
  BY <1>1, <1>2 DEF Replace

LEMMA AccessingAtomicallyIs == ASSUME AccessingAtomically PROVE Stays \/ Writes
<1>1. PICK s \in Aligned :
        \/ \E new \in Bytes(s[2]) : Atomic(s[1], new)
        \/ \E expected, desired \in Bytes(s[2]) : CompareExchange(s[1], expected, desired)
        \/ \E t \in Threads : \/ LoadExclusive(t, s[1], s[2])
                              \/ \E bytes \in Bytes(s[2]) : StoreExclusive(t, s[1], bytes)
  BY DEF AccessingAtomically
<1>2. s[1] \in Nat /\ s[2] \in Nat /\ FirstCell <= s[1] /\ s[1] + s[2] <= EndCell
  BY SpanIs
<1>3. \A b \in Bytes(s[2]) : b \in Seq(Byte) /\ Len(b) = s[2]
  BY <1>2, BytesAre
<1>4. ASSUME NEW new \in Bytes(s[2]), Atomic(s[1], new) PROVE Stays \/ Writes
  <2>1. CASE Refuse("atomic", CheckAccess(s[1], Len(new), {"r"}))
    BY <2>1 DEF Refuse, Stays
  <2>2. CASE Replace("atomic", s[1], Contents(s[1], Len(new)), new)
    BY <1>2, <1>3, <2>2, ReplaceIs
  <2> QED
    BY <1>4, <2>1, <2>2 DEF Atomic
<1>5. ASSUME NEW expected \in Bytes(s[2]), NEW desired \in Bytes(s[2]), CompareExchange(s[1], expected, desired)
      PROVE  Stays \/ Writes
  <2> DEFINE old == Contents(s[1], Len(expected))
  <2>1. CASE Refuse("exchange", CheckAccess(s[1], Len(expected), {"r", "w"})) \/ Yield("exchange", old)
    BY <2>1 DEF Refuse, Yield, Stays
  <2>2. CASE Replace("exchange", s[1], old, desired)
    BY <1>2, <1>3, <2>2, ReplaceIs
  <2> HIDE DEF Stays, Writes
  <2> QED
    BY <1>5, <2>1, <2>2 DEF CompareExchange
<1>6. ASSUME NEW t \in Threads, LoadExclusive(t, s[1], s[2]) PROVE Stays \/ Writes
  BY <1>6 DEF LoadExclusive, Refuse, Stays
<1>7. ASSUME NEW t \in Threads, NEW bytes \in Bytes(s[2]), StoreExclusive(t, s[1], bytes) PROVE Stays \/ Writes
  <2>1. CASE Refuse("store", WriteResult(s[1], Len(bytes)))
    BY <2>1 DEF Refuse, Stays
  <2>2. CASE WriteResult(s[1], Len(bytes)) = "OK" /\ Commit(s[1], bytes, <<"store", "STORED">>)
    BY <1>2, <1>3, <2>2, MayBeWritten, CommitIs
  <2>3. CASE UNCHANGED <<regions, store, generation, mappingGeneration>>
    BY <2>3 DEF Stays
  <2> HIDE DEF Stays, Writes
  <2> QED
    BY <1>7, <2>1, <2>2, <2>3 DEF StoreExclusive
<1> HIDE DEF Stays, Writes
<1> QED
  BY <1>1, <1>4, <1>5, <1>6, <1>7

LEMMA StepIs == ASSUME [Next]_vars PROVE Stays \/ Changes \/ Backs \/ Writes
<1>1. CASE UNCHANGED vars
  BY <1>1 DEF vars, Stays
<1> HIDE DEF Stays, Changes, Backs, Writes
<1> QED
  BY <1>1, MappingIs, AccessingIs, AccessingAtomicallyIs DEF Next

-----------------------------------------------------------------------------
(* The region list stays canonical.                                        *)

RegionInv == Canonical(regions) /\ Len(regions) <= RegionLimit

LEMMA InitRegions == Init => RegionInv
<1> SUFFICES ASSUME Init PROVE RegionInv
  OBVIOUS
<1>1. regions = <<>>
  BY DEF Init
<1> QED
  BY <1>1, SpaceAssumption DEF RegionInv, Canonical

LEMMA NextRegions == RegionInv /\ [Next]_vars => RegionInv'
<1> SUFFICES ASSUME RegionInv, [Next]_vars PROVE RegionInv'
  OBVIOUS
<1>1. CASE UNCHANGED regions
  BY <1>1 DEF RegionInv, Canonical
<1>2. CASE Changes
  <2>1. PICK op, a, end, prot, max : Carried(op, a, end, prot, max)
    BY <1>2 DEF Changes
  <2>2. Asked(op, a, end, prot, max) /\ regions' = Rebuilt(op, a, end, prot, max) /\ Len(regions') <= RegionLimit
    BY <2>1 DEF Carried
  <2>3. Canonical(Rebuilt(op, a, end, prot, max))
    BY <2>2, RebuiltIs DEF RegionInv
  <2> QED
    BY <2>2, <2>3 DEF RegionInv, Canonical
<1> QED
  BY <1>1, <1>2, StepIs DEF Stays, Backs, Writes

LEMMA RegionInvImplies == RegionInv => RegionsAreCanonical
<1> SUFFICES ASSUME RegionInv, NEW i \in DOMAIN regions
             PROVE  /\ Sound(regions[i])
                    /\ i > 1 => Apart(regions[i - 1], regions[i])
  BY DEF RegionInv, RegionsAreCanonical, Sound, Apart
<1> QED
  BY DEF RegionInv, Canonical

\* change cuts, splits, joins and inserts regions on every map, unmap and protect:
\* whatever it is asked for, the list stays sorted, disjoint, within the space,
\* merged as far as it can be, and no longer than REGION_LIMIT.
THEOREM RegionsStayCanonical == Spec => []RegionsAreCanonical
<1>1. Spec => []RegionInv
  BY InitRegions, NextRegions, PTL DEF Spec
<1> QED
  BY <1>1, RegionInvImplies, PTL
-----------------------------------------------------------------------------
(* The page table, from one operation to the next.                         *)

\* Every resident page is found where it is.
Placed(table) ==
    \A slot \in Slots : table[slot].address \in Pages => FoundAt(table, table[slot].address, slot)

LEMMA LiveIs ==
    ASSUME NEW table \in Tables, NEW slot \in Slots
    PROVE  /\ Live(table[slot]) <=> table[slot].address \in Pages
           /\ table[slot].address \notin Pages <=> table[slot].address \in {0, Deleted}
           /\ table[slot].backing \in Nat /\ table[slot].generation \in Nat
<1>1. table[slot] \in Entries
  BY DEF Tables
<1>2. table[slot].address \in {0, Deleted} \cup Pages /\ table[slot].backing \in Nat /\ table[slot].generation \in Nat
  BY <1>1 DEF Entries
<1>3. 0 \notin Pages /\ Deleted \notin Pages
  BY NumbersAre
<1> QED
  BY <1>2, <1>3 DEF Live

LEMMA FoundIsThere ==
    ASSUME NEW table, NEW page, NEW slot, FoundAt(table, page, slot)
    PROVE  table[slot].address = page
BY DEF FoundAt, AddressAt

LEMMA MissingIsNowhere ==
    ASSUME NEW table \in Tables, Placed(table), NEW page \in Pages, PageSlot(table, page, FALSE) = -1, NEW slot \in Slots
    PROVE  table[slot].address # page
<1> SUFFICES ASSUME table[slot].address = page PROVE FALSE
  OBVIOUS
<1>1. FoundAt(table, page, slot)
  BY DEF Placed
<1>2. slot = -1
  BY <1>1, PageSlotFinds
<1> QED
  BY <1>2, NumbersAre

\* A page that is entered where its search may end is found there, and hides none.
LEMMA PutIsPlaced ==
    ASSUME NEW table \in Tables, Placed(table), NEW page \in Pages, PageSlot(table, page, FALSE) = -1,
           NEW slot \in Slots, table[slot].address \in {0, Deleted}, NEW entry \in Entries, entry.address = page,
           NEW k \in Slots, Probe(page, k) = slot, Passes(table, page, k)
    PROVE  LET t == [table EXCEPT ![slot] = entry]
           IN  /\ t \in Tables /\ Placed(t) /\ FoundAt(t, page, slot)
               /\ \A q \in Pages : PageSlot(table, q, FALSE) # -1 => PageSlot(t, q, FALSE) # -1
<1> DEFINE t == [table EXCEPT ![slot] = entry]
<1>1. t \in Tables /\ t[slot] = entry /\ \A j \in Slots : j # slot => t[j] = table[j]
  BY DEF Tables
<1>2. page # 0 /\ page # Deleted
  BY NumbersAre
<1> HIDE DEF t
<1>3. FoundAt(t, page, slot)
  <2>1. ASSUME NEW j \in Slots, j < k PROVE AddressAt(t, page, j) \notin {page, 0}
    <3>1. j # k
      BY <2>1, NumbersAre
    <3>2. Probe(page, j) # slot /\ Probe(page, j) \in Slots
      BY <3>1, ProbeIsInjective, ProbeIsSlot
    <3>3. AddressAt(t, page, j) = AddressAt(table, page, j)
      BY <1>1, <3>2 DEF AddressAt
    <3> QED
      BY <2>1, <3>3 DEF Passes
  <2> QED
    BY <1>1, <2>1 DEF FoundAt, Passes, AddressAt
<1>4. ASSUME NEW q \in Pages, NEW j \in Slots, j # slot, FoundAt(table, q, j)
      PROVE  FoundAt(t, q, j)
  <2>1. PICK m \in Slots : Probe(q, m) = j /\ AddressAt(table, q, m) = q /\ Passes(table, q, m)
    BY <1>4 DEF FoundAt
  <2>2. q # page
    BY <1>4, FoundIsThere, MissingIsNowhere
  <2>3. ASSUME NEW i \in Slots, i < m PROVE AddressAt(t, q, i) \notin {q, 0}
    <3>1. AddressAt(table, q, i) \notin {q, 0} /\ Probe(q, i) \in Slots
      BY <2>1, <2>3, ProbeIsSlot DEF Passes
    <3>2. CASE Probe(q, i) = slot
      BY <1>1, <1>2, <2>2, <3>2 DEF AddressAt
    <3>3. CASE Probe(q, i) # slot
      BY <1>1, <3>1, <3>3 DEF AddressAt
    <3> QED
      BY <3>2, <3>3
  <2>4. AddressAt(t, q, m) = q
    BY <1>1, <1>4, <2>1 DEF AddressAt
  <2> QED
    BY <2>1, <2>3, <2>4 DEF FoundAt, Passes
<1>5. Placed(t)
  <2> SUFFICES ASSUME NEW j \in Slots, t[j].address \in Pages PROVE FoundAt(t, t[j].address, j)
    BY DEF Placed
  <2>1. CASE j = slot
    BY <1>1, <1>3, <2>1
  <2>2. CASE j # slot
    BY <1>1, <1>4, <2>2 DEF Placed
  <2> QED
    BY <2>1, <2>2
<1>6. ASSUME NEW q \in Pages, PageSlot(table, q, FALSE) # -1 PROVE PageSlot(t, q, FALSE) # -1
  <2> DEFINE j == PageSlot(table, q, FALSE)
  <2>1. FoundAt(table, q, j)
    BY <1>6, PageSlotFinds
  <2> HIDE DEF j
  <2>2. j \in Slots
    BY <2>1, ProbeIsSlot DEF FoundAt
  <2>3. j # slot
    BY <2>1, FoundIsThere, NumbersAre
  <2>4. FoundAt(t, q, j)
    BY <1>4, <2>1, <2>2, <2>3
  <2>5. PageSlot(t, q, FALSE) = j
    BY <1>1, <2>4, PageSlotFinds
  <2> QED
    BY <2>2, <2>5, NumbersAre
<1> QED
  BY <1>1, <1>3, <1>5, <1>6 DEF t

\* A deleted entry lets the probes pass.
LEMMA DeleteIsPlaced ==
    ASSUME NEW table \in Tables, Placed(table), NEW slot \in Slots
    PROVE  LET t == [table EXCEPT ![slot] = Empty(Deleted)]
           IN  t \in Tables /\ Placed(t)
<1> DEFINE t == [table EXCEPT ![slot] = Empty(Deleted)]
<1>0. Empty(Deleted) \in Entries /\ Empty(Deleted).address = Deleted
  BY DEF Empty, Entries
<1>1. t \in Tables /\ t[slot].address = Deleted /\ \A j \in Slots : j # slot => t[j] = table[j]
  BY <1>0 DEF Tables
<1> HIDE DEF t
<1> SUFFICES ASSUME NEW j \in Slots, t[j].address \in Pages PROVE FoundAt(t, t[j].address, j)
  BY <1>1 DEF Placed, t
<1> DEFINE q == t[j].address
<1>2. j # slot /\ t[j] = table[j] /\ q \in Pages /\ q # Deleted
  BY <1>1, NumbersAre
<1>3. FoundAt(table, q, j)
  BY <1>2 DEF Placed
<1>4. PICK m \in Slots : Probe(q, m) = j /\ AddressAt(table, q, m) = q /\ Passes(table, q, m)
  BY <1>3 DEF FoundAt
<1>5. ASSUME NEW i \in Slots, i < m PROVE AddressAt(t, q, i) \notin {q, 0}
  <2>1. AddressAt(table, q, i) \notin {q, 0} /\ Probe(q, i) \in Slots
    BY <1>2, <1>4, <1>5, ProbeIsSlot DEF Passes
  <2>2. CASE Probe(q, i) = slot
    BY <1>1, <1>2, <2>2, NumbersAre DEF AddressAt
  <2>3. CASE Probe(q, i) # slot
    BY <1>1, <2>1, <2>3 DEF AddressAt
  <2> QED
    BY <2>2, <2>3
<1>6. AddressAt(t, q, m) = q
  BY <1>2, <1>4 DEF AddressAt
<1> QED
  BY <1>4, <1>5, <1>6 DEF FoundAt, Passes

\* Entries that keep their addresses are found where they were.
LEMMA SameAddresses ==
    ASSUME NEW table \in Tables, NEW t \in Tables, \A j \in Slots : t[j].address = table[j].address
    PROVE  /\ Placed(table) => Placed(t)
           /\ \A q \in Pages : PageSlot(t, q, FALSE) = PageSlot(table, q, FALSE)
<1>1. \A q \in Pages : \A k \in Slots : AddressAt(t, q, k) = AddressAt(table, q, k)
  BY ProbeIsSlot DEF AddressAt
<1>2. \A q \in Pages : \A j : FoundAt(t, q, j) <=> FoundAt(table, q, j)
  BY <1>1 DEF FoundAt, Passes
<1>3. ASSUME NEW q \in Pages PROVE PageSlot(t, q, FALSE) = PageSlot(table, q, FALSE)
  <2>1. CASE PageSlot(table, q, FALSE) # -1
    BY <1>2, <2>1, PageSlotFinds
  <2>2. CASE PageSlot(t, q, FALSE) # -1
    BY <1>2, <2>2, PageSlotFinds
  <2> QED
    BY <2>1, <2>2
<1> QED
  BY <1>2, <1>3 DEF Placed

-----------------------------------------------------------------------------
(* The backing pages.                                                      *)

LiveSlots(table) == {slot \in Slots : table[slot].address \in Pages}
UsedBy(table, b) == \E j \in LiveSlots(table) : table[j].backing = b
IsFree(free, b) == \E i \in DOMAIN free : free[i] = b

\* Each backing page below next is of one resident page or free, once.
Shared(table, free, next) ==
    /\ \A j, k \in LiveSlots(table) : table[j].backing = table[k].backing => j = k
    /\ \A i, k \in DOMAIN free : free[i] = free[k] => i = k
    /\ \A b \in Nat : ~(UsedBy(table, b) /\ IsFree(free, b))
    /\ \A b \in Nat : b < next <=> UsedBy(table, b) \/ IsFree(free, b)

LEMMA SlotsAreFinite ==
    ASSUME NEW table
    PROVE  /\ IsFiniteSet(Slots) /\ Cardinality(Slots) = SlotCount
           /\ IsFiniteSet(LiveSlots(table)) /\ Cardinality(LiveSlots(table)) \in Nat
           /\ Cardinality(LiveSlots(table)) <= SlotCount
<1>1. IsFiniteSet(Slots) /\ Cardinality(Slots) = SlotCount
  <2>1. SlotCount \in Nat /\ SlotCount > 0 /\ SlotCount - 1 \in Int /\ 0 \in Int
    BY NumbersAre
  <2>2. IsFiniteSet(0 .. SlotCount - 1) /\ Cardinality(0 .. SlotCount - 1) = SlotCount - 1 - 0 + 1
    BY <2>1, FS_Interval
  <2> QED
    BY <2>1, <2>2 DEF Slots
<1>2. LiveSlots(table) \in SUBSET Slots
  BY DEF LiveSlots
<1> QED
  BY <1>1, <1>2, FS_Subset, FS_CardinalityType

\* A slot is vacant, while fewer pages are resident than there are slots.
LEMMA VacantSlot ==
    ASSUME NEW table \in Tables, Cardinality(LiveSlots(table)) < SlotCount
    PROVE  \E slot \in Slots : table[slot].address \in {0, Deleted}
<1>1. LiveSlots(table) # Slots
  BY SlotsAreFinite
<1>2. PICK slot \in Slots : slot \notin LiveSlots(table)
  BY <1>1 DEF LiveSlots
<1> QED
  BY <1>2, LiveIs DEF LiveSlots

\* Distinct backing pages of distinct slots: as many as there are slots.
LEMMA AsManyBackings ==
    ASSUME NEW table \in Tables, \A j, k \in LiveSlots(table) : table[j].backing = table[k].backing => j = k
    PROVE  LET used == {table[j].backing : j \in LiveSlots(table)}
           IN  IsFiniteSet(used) /\ Cardinality(used) = Cardinality(LiveSlots(table))
<1> DEFINE live == LiveSlots(table)
           used == {table[j].backing : j \in live}
           f == [j \in live |-> table[j].backing]
<1>0. f \in [live -> used] /\ (\A j, k \in live : f[j] = f[k] => j = k) /\ \A b \in used : \E j \in live : f[j] = b
  OBVIOUS
<1>1. f \in Bijection(live, used)
  <2> HIDE DEF f, used, live
  <2> QED
    BY <1>0 DEF Bijection, Injection, Surjection, IsInjective
<1>2. ExistsBijection(live, used)
  BY <1>1 DEF ExistsBijection
<1> QED
  BY <1>2, SlotsAreFinite, FS_Bijection

\* With nothing free, as many pages have been handed out as are resident.
LEMMA NoneFree ==
    ASSUME NEW table \in Tables, NEW next \in Nat, Shared(table, <<>>, next)
    PROVE  Cardinality(LiveSlots(table)) = next
<1> DEFINE used == {table[j].backing : j \in LiveSlots(table)}
<1>1. \A b \in Nat : ~IsFree(<<>>, b)
  BY DEF IsFree
<1>2. \A b \in Nat : b < next <=> b \in used
  BY <1>1 DEF Shared, UsedBy
<1>3. used \subseteq Nat
  BY LiveIs DEF LiveSlots
<1>4. used = 0 .. next - 1
  BY <1>2, <1>3
<1>5. Cardinality(0 .. next - 1) = next
  <2>1. next - 1 \in Int /\ 0 \in Int
    OBVIOUS
  <2>2. Cardinality(0 .. next - 1) = IF 0 > next - 1 THEN 0 ELSE next - 1 - 0 + 1
    BY <2>1, FS_Interval
  <2> QED
    BY <2>2
<1>6. Cardinality(used) = Cardinality(LiveSlots(table))
  BY AsManyBackings DEF Shared
<1> QED
  BY <1>4, <1>5, <1>6
\* What a page that is entered makes of them.
Puts(table, slot, entry, t) ==
    /\ LiveSlots(t) = LiveSlots(table) \cup {slot} /\ slot \notin LiveSlots(table)
    /\ t[slot] = entry /\ \A j \in LiveSlots(table) : t[j] = table[j]
    /\ \A b : UsedBy(t, b) <=> UsedBy(table, b) \/ b = entry.backing
    /\ Cardinality(LiveSlots(t)) = Cardinality(LiveSlots(table)) + 1

LEMMA PutUses ==
    ASSUME NEW table \in Tables, NEW slot \in Slots, table[slot].address \notin Pages,
           NEW entry \in Entries, entry.address \in Pages
    PROVE  Puts(table, slot, entry, [table EXCEPT ![slot] = entry])
<1> DEFINE t == [table EXCEPT ![slot] = entry]
<1>1. t[slot] = entry /\ \A j \in Slots : j # slot => t[j] = table[j]
  BY DEF Tables
<1> HIDE DEF t
<1>2. LiveSlots(t) = LiveSlots(table) \cup {slot} /\ slot \notin LiveSlots(table)
  BY <1>1 DEF LiveSlots
<1>3. \A j \in LiveSlots(table) : t[j] = table[j]
  BY <1>1, <1>2 DEF LiveSlots
<1>4. \A b : UsedBy(t, b) <=> UsedBy(table, b) \/ b = entry.backing
  BY <1>1, <1>2, <1>3 DEF UsedBy
<1>5. Cardinality(LiveSlots(t)) = Cardinality(LiveSlots(table)) + 1
  BY <1>2, SlotsAreFinite, FS_AddElement
<1> QED
  BY <1>1, <1>2, <1>3, <1>4, <1>5 DEF t, Puts

LEMMA PutTakesFreed ==
    ASSUME NEW table \in Tables, NEW slot \in Slots, table[slot].address \notin Pages,
           NEW entry \in Entries, entry.address \in Pages, NEW next \in Nat,
           NEW free \in Seq(Nat), free # <<>>, entry.backing = free[Len(free)], Shared(table, free, next)
    PROVE  Shared([table EXCEPT ![slot] = entry], Front(free), next)
<1> DEFINE t == [table EXCEPT ![slot] = entry]
           n == Len(free)
           less == Front(free)
           b0 == entry.backing
<1>1. n \in Nat /\ n > 0 /\ DOMAIN free = 1 .. n
  OBVIOUS
<1>2. DOMAIN less = 1 .. n - 1 /\ \A i \in 1 .. n - 1 : less[i] = free[i]
  BY DEF Front
<1>3. b0 = free[n] /\ b0 \in Nat /\ n \in DOMAIN free
  BY <1>1
<1> HIDE DEF t, n, less, b0
<1>4. IsFree(free, b0) /\ ~UsedBy(table, b0)
  BY <1>3 DEF IsFree, Shared
<1>5. \A i, k \in DOMAIN free : free[i] = free[k] => i = k
  BY DEF Shared
<1>6. ASSUME NEW b PROVE IsFree(less, b) <=> IsFree(free, b) /\ b # b0
  <2>1. ASSUME IsFree(less, b) PROVE IsFree(free, b) /\ b # b0
    <3>1. PICK i \in 1 .. n - 1 : free[i] = b
      BY <1>2, <2>1 DEF IsFree
    <3>2. i \in DOMAIN free /\ i # n
      BY <1>1
    <3> QED
      BY <1>3, <1>5, <3>1, <3>2 DEF IsFree
  <2>2. ASSUME IsFree(free, b), b # b0 PROVE IsFree(less, b)
    <3>1. PICK i \in DOMAIN free : free[i] = b
      BY <2>2 DEF IsFree
    <3>2. i \in 1 .. n - 1
      BY <1>1, <1>3, <2>2, <3>1
    <3> QED
      BY <1>2, <3>1, <3>2 DEF IsFree
  <2> QED
    BY <2>1, <2>2
<1>7. /\ LiveSlots(t) = LiveSlots(table) \cup {slot} /\ slot \notin LiveSlots(table)
      /\ t[slot] = entry /\ \A j \in LiveSlots(table) : t[j] = table[j]
      /\ \A b : UsedBy(t, b) <=> UsedBy(table, b) \/ b = b0
  <2>1. Puts(table, slot, entry, t)
    BY PutUses DEF t
  <2> QED
    BY <2>1 DEF Puts, b0
<1>8. ASSUME NEW j \in LiveSlots(t), NEW k \in LiveSlots(t), t[j].backing = t[k].backing PROVE j = k
  <2>1. CASE j = slot /\ k # slot
    BY <1>4, <1>7, <1>8, <2>1 DEF UsedBy, b0
  <2>2. CASE j # slot /\ k = slot
    BY <1>4, <1>7, <1>8, <2>2 DEF UsedBy, b0
  <2>3. CASE j # slot /\ k # slot
    BY <1>7, <1>8, <2>3 DEF Shared
  <2> QED
    BY <2>1, <2>2, <2>3
<1>9. ASSUME NEW i \in DOMAIN less, NEW k \in DOMAIN less, less[i] = less[k] PROVE i = k
  <2>1. i \in DOMAIN free /\ k \in DOMAIN free
    BY <1>1, <1>2
  <2> QED
    BY <1>2, <1>5, <1>9, <2>1
<1>10. \A b \in Nat : ~(UsedBy(t, b) /\ IsFree(less, b))
  BY <1>6, <1>7 DEF Shared
<1>11. \A b \in Nat : b < next <=> UsedBy(t, b) \/ IsFree(less, b)
  BY <1>4, <1>6, <1>7 DEF Shared
<1> QED
  BY <1>8, <1>9, <1>10, <1>11 DEF Shared, t, less

LEMMA PutTakesNext ==
    ASSUME NEW table \in Tables, NEW slot \in Slots, table[slot].address \notin Pages,
           NEW entry \in Entries, entry.address \in Pages, NEW next \in Nat, entry.backing = next,
           Shared(table, <<>>, next)
    PROVE  Shared([table EXCEPT ![slot] = entry], <<>>, next + 1)
<1> DEFINE t == [table EXCEPT ![slot] = entry]
<1>1. \A b : ~IsFree(<<>>, b)
  BY DEF IsFree
<1>2. \A b \in Nat : b < next <=> UsedBy(table, b)
  BY <1>1 DEF Shared
<1>3. ~UsedBy(table, next)
  BY <1>2
<1>a. Puts(table, slot, entry, t)
  BY PutUses
<1>4. /\ LiveSlots(t) = LiveSlots(table) \cup {slot} /\ slot \notin LiveSlots(table)
      /\ t[slot] = entry /\ \A j \in LiveSlots(table) : t[j] = table[j]
      /\ \A b : UsedBy(t, b) <=> UsedBy(table, b) \/ b = next
  <2> HIDE DEF t
  <2> QED
    BY <1>a DEF Puts
<1> HIDE DEF t
<1>5. ASSUME NEW j \in LiveSlots(t), NEW k \in LiveSlots(t), t[j].backing = t[k].backing PROVE j = k
  <2>1. CASE j = slot /\ k # slot
    BY <1>3, <1>4, <1>5, <2>1 DEF UsedBy
  <2>2. CASE j # slot /\ k = slot
    BY <1>3, <1>4, <1>5, <2>2 DEF UsedBy
  <2>3. CASE j # slot /\ k # slot
    BY <1>4, <1>5, <2>3 DEF Shared
  <2> QED
    BY <2>1, <2>2, <2>3
<1>6. \A b \in Nat : b < next + 1 <=> UsedBy(t, b)
  BY <1>2, <1>4
<1> QED
  BY <1>1, <1>5, <1>6 DEF Shared, t

\* What a page that is deleted makes of them.
LEMMA DeleteGivesBack ==
    ASSUME NEW table \in Tables, NEW slot \in Slots, table[slot].address \in Pages,
           NEW next \in Nat, NEW free \in Seq(Nat), Shared(table, free, next)
    PROVE  LET t == [table EXCEPT ![slot] = Empty(Deleted)]
           IN  /\ Shared(t, Append(free, table[slot].backing), next)
               /\ Cardinality(LiveSlots(t)) = Cardinality(LiveSlots(table)) - 1
<1> DEFINE t == [table EXCEPT ![slot] = Empty(Deleted)]
           b0 == table[slot].backing
           more == Append(free, b0)
           n == Len(free)
<1>1. t[slot].address = Deleted /\ \A j \in Slots : j # slot => t[j] = table[j]
  BY DEF Tables, Empty
<1>2. b0 \in Nat
  BY LiveIs
<1>3. n \in Nat /\ DOMAIN free = 1 .. n
  OBVIOUS
<1>4. DOMAIN more = 1 .. n + 1 /\ more[n + 1] = b0 /\ \A i \in 1 .. n : more[i] = free[i]
  BY <1>2
<1> HIDE DEF t, b0, more, n
<1>5. LiveSlots(t) = LiveSlots(table) \ {slot} /\ slot \in LiveSlots(table)
  BY <1>1, NumbersAre DEF LiveSlots
<1>6. \A j \in LiveSlots(t) : j \in LiveSlots(table) /\ j # slot /\ t[j] = table[j]
  BY <1>1, <1>5 DEF LiveSlots
<1>7. UsedBy(table, b0)
  BY <1>5 DEF UsedBy, b0
<1>8. \A j, k \in LiveSlots(table) : table[j].backing = table[k].backing => j = k
  BY DEF Shared
<1>9. \A b : UsedBy(t, b) <=> UsedBy(table, b) /\ b # b0
  <2>1. ASSUME NEW b, UsedBy(t, b) PROVE UsedBy(table, b) /\ b # b0
    BY <1>5, <1>6, <1>8, <2>1 DEF UsedBy, b0
  <2>2. ASSUME NEW b, UsedBy(table, b), b # b0 PROVE UsedBy(t, b)
    <3>1. PICK j \in LiveSlots(table) : table[j].backing = b
      BY <2>2 DEF UsedBy
    <3>2. j # slot
      BY <2>2, <3>1 DEF b0
    <3> QED
      BY <1>5, <1>6, <3>1, <3>2 DEF UsedBy
  <2> QED
    BY <2>1, <2>2
<1>10. \A b : IsFree(more, b) <=> IsFree(free, b) \/ b = b0
  <2>1. \A i : i \in 1 .. n + 1 <=> i \in 1 .. n \/ i = n + 1
    BY <1>3
  <2> QED
    BY <1>3, <1>4, <2>1 DEF IsFree
<1>11. ~IsFree(free, b0)
  BY <1>2, <1>7 DEF Shared
<1>12. ASSUME NEW i \in DOMAIN more, NEW k \in DOMAIN more, more[i] = more[k] PROVE i = k
  <2>0. \A j \in DOMAIN more : j \in 1 .. n \/ j = n + 1
    BY <1>3, <1>4
  <2>1. CASE i \in 1 .. n /\ k \in 1 .. n
    BY <1>3, <1>4, <1>12, <2>1 DEF Shared
  <2>2. CASE i \in 1 .. n /\ k = n + 1
    BY <1>3, <1>4, <1>11, <1>12, <2>2 DEF IsFree
  <2>3. CASE i = n + 1 /\ k \in 1 .. n
    BY <1>3, <1>4, <1>11, <1>12, <2>3 DEF IsFree
  <2> QED
    BY <2>0, <2>1, <2>2, <2>3
<1>13. \A b \in Nat : ~(UsedBy(t, b) /\ IsFree(more, b))
  BY <1>9, <1>10 DEF Shared
<1>14. \A b \in Nat : b < next <=> UsedBy(t, b) \/ IsFree(more, b)
  BY <1>7, <1>9, <1>10 DEF Shared
<1>15. \A j, k \in LiveSlots(t) : t[j].backing = t[k].backing => j = k
  BY <1>6, <1>8
<1>16. Cardinality(LiveSlots(t)) = Cardinality(LiveSlots(table)) - 1
  <2> DEFINE live == LiveSlots(table)
  <2>1. IsFiniteSet(live)
    BY SlotsAreFinite
  <2> HIDE DEF live
  <2>2. slot \in live => Cardinality(live \ {slot}) = Cardinality(live) - 1
    BY <2>1, FS_RemoveElement
  <2>3. LiveSlots(t) = live \ {slot} /\ slot \in live
    BY <1>5 DEF live
  <2>4. Cardinality(LiveSlots(t)) = Cardinality(live) - 1
    BY <2>2, <2>3
  <2> QED
    BY <2>4 DEF live
<1> QED
  BY <1>12, <1>13, <1>14, <1>15, <1>16 DEF Shared, t, more, b0

LEMMA SameBackings ==
    ASSUME NEW table \in Tables, NEW t \in Tables, NEW free, NEW next,
           \A j \in Slots : t[j].address = table[j].address /\ t[j].backing = table[j].backing
    PROVE  LiveSlots(t) = LiveSlots(table) /\ (Shared(table, free, next) => Shared(t, free, next))
<1>1. LiveSlots(t) = LiveSlots(table)
  BY DEF LiveSlots
<1>2. \A j \in LiveSlots(table) : t[j].backing = table[j].backing
  BY DEF LiveSlots
<1>3. \A b : UsedBy(t, b) <=> UsedBy(table, b)
  BY <1>1, <1>2 DEF UsedBy
<1> QED
  BY <1>1, <1>2, <1>3 DEF Shared
-----------------------------------------------------------------------------
(* The store, from one operation to the next.                              *)

Block == [0 .. PageCells - 1 -> Byte]
Stores == [table : Tables, bytes : [0 .. Capacity - 1 -> Block], free : Seq(Nat), next : Nat, resident : Int]

Conserved(s) ==
    /\ s \in Stores /\ Placed(s.table) /\ Shared(s.table, s.free, s.next)
    /\ Cardinality(LiveSlots(s.table)) = s.resident /\ s.next <= Capacity

\* The pages that have backing.
HasPage(s, p) == PageSlot(s.table, p, FALSE) # -1
Holding(s) == {s.table[slot].address : slot \in LiveSlots(s.table)}

LEMMA StoreParts ==
    ASSUME NEW s \in Stores
    PROVE  /\ s.table \in Tables /\ s.bytes \in [0 .. Capacity - 1 -> Block] /\ s.free \in Seq(Nat)
           /\ s.next \in Nat /\ s.resident \in Int
BY DEF Stores

\* A page has backing when an entry holds it.
LEMMA HoldingIs ==
    ASSUME NEW s \in Stores, Placed(s.table)
    PROVE  Holding(s) = {p \in Pages : HasPage(s, p)}
<1>0. s.table \in Tables
  BY StoreParts
<1>1. ASSUME NEW p \in Holding(s) PROVE p \in Pages /\ HasPage(s, p)
  <2>1. PICK slot \in Slots : p = s.table[slot].address /\ p \in Pages
    BY <1>1 DEF Holding, LiveSlots
  <2>2. FoundAt(s.table, p, slot)
    BY <2>1 DEF Placed
  <2>3. PageSlot(s.table, p, FALSE) = slot
    BY <1>0, <2>1, <2>2, PageSlotFinds
  <2> QED
    BY <2>1, <2>3, NumbersAre DEF HasPage
<1>2. ASSUME NEW p \in Pages, HasPage(s, p) PROVE p \in Holding(s)
  <2> DEFINE slot == PageSlot(s.table, p, FALSE)
  <2>1. FoundAt(s.table, p, slot)
    BY <1>0, <1>2, PageSlotFinds DEF HasPage
  <2> HIDE DEF slot
  <2>2. slot \in Slots /\ s.table[slot].address = p
    BY <2>1, ProbeIsSlot, FoundIsThere DEF FoundAt
  <2> QED
    BY <2>2 DEF Holding, LiveSlots
<1> QED
  BY <1>1, <1>2

LEMMA ZeroBlock == [i \in 0 .. PageCells - 1 |-> 0] \in Block
<1>1. 0 \in Byte
  BY SpaceAssumption DEF Byte
<1> QED
  BY <1>1 DEF Block

AllocatedBacking(s) == IF s.free # <<>> THEN s.free[Len(s.free)] ELSE s.next

LEMMA AllocateIsStore ==
    ASSUME NEW s \in Stores, NEW page \in Pages
    PROVE  /\ Allocate(s, page) \in Stores
           /\ AllocatedBacking(s) \in Nat
           /\ Allocate(s, page).table = [s.table EXCEPT ![PageSlot(s.table, page, TRUE)] =
                                            [address |-> page, backing |-> AllocatedBacking(s), generation |-> 0]]
           /\ Allocate(s, page).bytes = [s.bytes EXCEPT ![AllocatedBacking(s)] = [i \in 0 .. PageCells - 1 |-> 0]]
           /\ Allocate(s, page).free = (IF s.free # <<>> THEN Front(s.free) ELSE s.free)
           /\ Allocate(s, page).next = (IF s.free # <<>> THEN s.next ELSE s.next + 1)
           /\ Allocate(s, page).resident = s.resident + 1
<1> DEFINE b == AllocatedBacking(s)
           slot == PageSlot(s.table, page, TRUE)
           entry == [address |-> page, backing |-> b, generation |-> 0]
           zero == [i \in 0 .. PageCells - 1 |-> 0]
           table == [s.table EXCEPT ![slot] = entry]
           bytes == [s.bytes EXCEPT ![b] = zero]
           free == IF s.free # <<>> THEN Front(s.free) ELSE s.free
           next == IF s.free # <<>> THEN s.next ELSE s.next + 1
<1>0. /\ s.table \in Tables /\ s.bytes \in [0 .. Capacity - 1 -> Block] /\ s.free \in Seq(Nat)
      /\ s.next \in Nat /\ s.resident \in Int
  BY StoreParts
<1>1. b \in Nat
  <2>1. CASE s.free = <<>>
    BY <1>0, <2>1 DEF AllocatedBacking
  <2>2. CASE s.free # <<>>
    BY <1>0, <2>2 DEF AllocatedBacking
  <2> QED
    BY <2>1, <2>2
<1>2. Allocate(s, page) = [table |-> table, bytes |-> bytes, free |-> free, next |-> next, resident |-> s.resident + 1]
  BY DEF Allocate, AllocatedBacking
<1>3. entry \in Entries
  BY <1>1 DEF Entries
<1>4. table \in Tables
  <2> HIDE DEF entry, slot
  <2> QED
    BY <1>0, <1>3 DEF Tables
<1>5. bytes \in [0 .. Capacity - 1 -> Block]
  <2> HIDE DEF zero, b
  <2>1. zero \in Block
    BY ZeroBlock DEF zero
  <2> QED
    BY <1>0, <2>1
<1>6. free \in Seq(Nat)
  <2>1. CASE s.free # <<>>
    <3> DEFINE f == s.free
               n == Len(f) - 1
    <3>1. f \in Seq(Nat) /\ f # <<>>
      BY <1>0, <2>1
    <3> HIDE DEF f
    <3>2. n \in Nat /\ n <= Len(f)
      BY <3>1
    <3>3. SubSeq(f, 1, n) \in Seq(Nat)
      BY <3>1, <3>2
    <3> QED
      BY <2>1, <3>3 DEF Front, f
  <2> QED
    BY <1>0, <2>1
<1>7. next \in Nat
  BY <1>0
<1> HIDE DEF table, bytes, free, next
<1>8. Allocate(s, page) \in Stores
  BY <1>0, <1>2, <1>4, <1>5, <1>6, <1>7 DEF Stores
<1> QED
  BY <1>1, <1>2, <1>8 DEF table, bytes, free, next

\* A page obtains backing: one that was free, or one never handed out.
LEMMA AllocateIsSound ==
    ASSUME NEW s, Conserved(s), NEW page \in Pages, ~HasPage(s, page), s.resident < Capacity
    PROVE  /\ Conserved(Allocate(s, page))
           /\ Holding(Allocate(s, page)) = Holding(s) \cup {page}
           /\ Allocate(s, page).resident = s.resident + 1
<1> DEFINE u == Allocate(s, page)
           table == s.table
           b == AllocatedBacking(s)
           slot == PageSlot(table, page, TRUE)
           entry == [address |-> page, backing |-> b, generation |-> 0]
           t == [table EXCEPT ![slot] = entry]
<1>1. s \in Stores /\ table \in Tables /\ s.free \in Seq(Nat) /\ s.next \in Nat /\ s.resident \in Int
  BY StoreParts DEF Conserved
<1>2. /\ Placed(table) /\ Shared(table, s.free, s.next) /\ Cardinality(LiveSlots(table)) = s.resident /\ s.next <= Capacity
  BY DEF Conserved
<1>3. /\ u \in Stores /\ b \in Nat /\ u.table = t /\ u.resident = s.resident + 1
      /\ u.free = (IF s.free # <<>> THEN Front(s.free) ELSE s.free)
      /\ u.next = (IF s.free # <<>> THEN s.next ELSE s.next + 1)
  BY <1>1, AllocateIsStore
<1>4. entry \in Entries /\ entry.address = page /\ entry.backing = b
  BY <1>3 DEF Entries
<1>5. PageSlot(table, page, FALSE) = -1
  BY DEF HasPage
<1>6. Cardinality(LiveSlots(table)) < SlotCount
  BY <1>1, <1>2, NumbersAre
<1> HIDE DEF u, table, b, slot, entry
<1>7. PICK vacant \in Slots : table[vacant].address \in {0, Deleted}
  BY <1>1, <1>6, VacantSlot
<1>8. /\ slot \in Slots /\ table[slot].address \in {0, Deleted}
      /\ \E k \in Slots : Probe(page, k) = slot /\ Passes(table, page, k)
  BY <1>1, <1>5, <1>7, PageSlotInserts DEF slot
<1>9. t \in Tables /\ Placed(t)
  BY <1>1, <1>2, <1>4, <1>5, <1>8, PutIsPlaced
<1>10. table[slot].address \notin Pages /\ entry.address \in Pages
  BY <1>1, <1>4, <1>8, LiveIs
<1>11. Puts(table, slot, entry, t)
  BY <1>1, <1>4, <1>8, <1>10, PutUses
<1>12. Shared(t, u.free, u.next) /\ u.next <= Capacity
  <2>1. CASE s.free # <<>>
    <3>1. entry.backing = s.free[Len(s.free)]
      BY <1>4, <2>1 DEF b, AllocatedBacking
    <3>2. Shared(t, Front(s.free), s.next)
      BY <1>1, <1>2, <1>4, <1>8, <1>10, <2>1, <3>1, PutTakesFreed
    <3> QED
      BY <1>2, <1>3, <2>1, <3>2
  <2>2. CASE s.free = <<>>
    <3>1. entry.backing = s.next
      BY <1>4, <2>2 DEF b, AllocatedBacking
    <3>2. Shared(table, <<>>, s.next)
      BY <1>2, <2>2
    <3>3. Shared(t, <<>>, s.next + 1)
      BY <1>1, <1>4, <1>8, <1>10, <3>1, <3>2, PutTakesNext
    <3>4. Cardinality(LiveSlots(table)) = s.next
      BY <1>1, <3>2, NoneFree
    <3>5. s.next + 1 <= Capacity
      BY <1>1, <1>2, <3>4, NumbersAre
    <3> QED
      BY <1>3, <2>2, <3>3, <3>5
  <2> QED
    BY <2>1, <2>2
<1>13. Cardinality(LiveSlots(t)) = u.resident
  BY <1>2, <1>3, <1>11 DEF Puts
<1>14. Conserved(u)
  BY <1>3, <1>9, <1>12, <1>13 DEF Conserved
<1>15. Holding(u) = Holding(s) \cup {page}
  <2> HIDE DEF t
  <2>1. /\ LiveSlots(t) = LiveSlots(table) \cup {slot} /\ t[slot] = entry
        /\ \A j \in LiveSlots(table) : t[j] = table[j]
    BY <1>11 DEF Puts
  <2>2. Holding(u) = {t[j].address : j \in LiveSlots(t)} /\ Holding(s) = {table[j].address : j \in LiveSlots(table)}
    BY <1>3 DEF Holding, table
  <2>3. t[slot].address = page
    BY <1>4, <2>1
  <2> QED
    BY <2>1, <2>2, <2>3
<1> QED
  BY <1>3, <1>14, <1>15 DEF u
\* The pages of an access that still have to be backed are as many as there is room for.
Roomy(s, P) == Cardinality({p \in P : ~HasPage(s, p)}) <= Capacity - s.resident

LEMMA BackIsStore ==
    ASSUME NEW s \in Stores, NEW page \in Pages
    PROVE  Back(s, page) \in Stores
BY AllocateIsStore DEF Back

LEMMA BackIsSound ==
    ASSUME NEW s, Conserved(s), NEW P \in SUBSET Pages, NEW page \in P, Roomy(s, P)
    PROVE  /\ Conserved(Back(s, page)) /\ Roomy(Back(s, page), P)
           /\ Holding(Back(s, page)) = Holding(s) \cup {page}
<1> DEFINE u == Back(s, page)
           missing(x) == {p \in P : ~HasPage(x, p)}
<1>1. s \in Stores /\ Placed(s.table) /\ s.resident \in Int
  BY StoreParts DEF Conserved
<1>2. Holding(s) = {p \in Pages : HasPage(s, p)}
  BY <1>1, HoldingIs
<1>3. CASE HasPage(s, page)
  <2>1. u = s
    BY <1>3 DEF Back, HasPage
  <2>2. page \in Holding(s)
    BY <1>2, <1>3
  <2> QED
    BY <2>1, <2>2
<1>4. CASE ~HasPage(s, page)
  <2>1. u = Allocate(s, page)
    BY <1>4 DEF Back, HasPage
  <2>2. IsFiniteSet(Pages)
    BY SpaceAssumption, FS_Interval DEF Pages
  <2>3. IsFiniteSet(missing(s)) /\ Cardinality(missing(s)) \in Nat
    <3>1. missing(s) \in SUBSET Pages
      OBVIOUS
    <3> QED
      BY <2>2, <3>1, FS_Subset, FS_CardinalityType
  <2>4. page \in missing(s)
    BY <1>4
  <2>5. Cardinality(missing(s)) > 0
    BY <2>3, <2>4, FS_EmptySet
  <2>6. Cardinality(missing(s)) <= Capacity - s.resident
    BY DEF Roomy
  <2>7. s.resident < Capacity
    BY <1>1, <2>3, <2>5, <2>6, NumbersAre
  <2>8. /\ Conserved(u) /\ Holding(u) = Holding(s) \cup {page} /\ u.resident = s.resident + 1
    BY <1>4, <2>1, <2>7, AllocateIsSound
  <2> HIDE DEF u
  <2>9. u \in Stores /\ Placed(u.table)
    BY <2>8 DEF Conserved
  <2>10. Holding(u) = {p \in Pages : HasPage(u, p)}
    BY <2>9, HoldingIs
  <2>11. missing(u) = missing(s) \ {page}
    BY <1>2, <2>8, <2>10
  <2> HIDE DEF missing
  <2>12. Cardinality(missing(u)) = Cardinality(missing(s)) - 1
    BY <2>3, <2>4, <2>11, FS_RemoveElement
  <2>13. Roomy(u, P)
    BY <1>1, <2>3, <2>6, <2>8, <2>12, NumbersAre DEF Roomy, missing
  <2> QED
    BY <2>8, <2>13 DEF u
<1> QED
  BY <1>3, <1>4

StoredSlot(s, page) == PageSlot(s.table, page, FALSE)
StoredBlock(old, page, a, bytes) ==
    [i \in 0 .. PageCells - 1 |->
        LET at == page * PageCells + i - a + 1 IN IF at \in DOMAIN bytes THEN bytes[at] ELSE old[i]]

StoresIn(s, slot, page, a, bytes, u) ==
    /\ u.table = [s.table EXCEPT ![slot].generation = generation + 1]
    /\ u.bytes = [s.bytes EXCEPT ![s.table[slot].backing] = StoredBlock(@, page, a, bytes)]
    /\ u.free = s.free /\ u.next = s.next /\ u.resident = s.resident

LEMMA StoreIsStore ==
    ASSUME NEW s \in Stores, NEW page \in Pages, NEW a \in Nat, NEW bytes \in Seq(Byte), generation \in Nat
    PROVE  Store(s, page, a, bytes) \in Stores /\ StoresIn(s, StoredSlot(s, page), page, a, bytes, Store(s, page, a, bytes))
<1> DEFINE u == Store(s, page, a, bytes)
           slot == StoredSlot(s, page)
           b == s.table[slot].backing
           table == [s.table EXCEPT ![slot].generation = generation + 1]
           data == [s.bytes EXCEPT ![b] = StoredBlock(@, page, a, bytes)]
<1>0. /\ s.table \in Tables /\ s.bytes \in [0 .. Capacity - 1 -> Block] /\ s.free \in Seq(Nat)
      /\ s.next \in Nat /\ s.resident \in Int
      /\ s = [table |-> s.table, bytes |-> s.bytes, free |-> s.free, next |-> s.next, resident |-> s.resident]
  BY StoreParts DEF Stores
<1>1. u = [s EXCEPT !.table = table, !.bytes = data]
  BY DEF Store, StoredBlock, StoredSlot
<1>2. u = [table |-> table, bytes |-> data, free |-> s.free, next |-> s.next, resident |-> s.resident]
  <2> HIDE DEF u, table, data
  <2> QED
    BY <1>0, <1>1
<1>3. table \in Tables
  <2>1. \A e \in Entries : [e EXCEPT !.generation = generation + 1] \in Entries
    BY DEF Entries
  <2> HIDE DEF slot
  <2> QED
    BY <1>0, <2>1 DEF Tables
<1>4. \A old \in Block : StoredBlock(old, page, a, bytes) \in Block
  <2> SUFFICES ASSUME NEW old \in Block, NEW i \in 0 .. PageCells - 1
               PROVE  LET at == page * PageCells + i - a + 1 IN (IF at \in DOMAIN bytes THEN bytes[at] ELSE old[i]) \in Byte
    BY DEF StoredBlock, Block
  <2>1. old[i] \in Byte
    BY DEF Block
  <2>2. \A x \in DOMAIN bytes : bytes[x] \in Byte
    OBVIOUS
  <2> QED
    BY <2>1, <2>2
<1>5. data \in [0 .. Capacity - 1 -> Block]
  <2> HIDE DEF b
  <2> QED
    BY <1>0, <1>4
<1> HIDE DEF u, table, data
<1>6. u \in Stores
  BY <1>0, <1>2, <1>3, <1>5 DEF Stores
<1> QED
  BY <1>2, <1>6 DEF u, table, data, slot, b, StoresIn

\* Storing bytes leaves every page where it is.
LEMMA StoreIsSound ==
    ASSUME NEW s, Conserved(s), NEW page \in Pages, NEW a \in Nat, NEW bytes \in Seq(Byte), generation \in Nat
    PROVE  /\ Conserved(Store(s, page, a, bytes))
           /\ Holding(Store(s, page, a, bytes)) = Holding(s)
           /\ \A P \in SUBSET Pages : Roomy(s, P) => Roomy(Store(s, page, a, bytes), P)
<1> DEFINE u == Store(s, page, a, bytes)
           slot == StoredSlot(s, page)
<1>1. s \in Stores /\ s.table \in Tables
  BY StoreParts DEF Conserved
<1>2. /\ u \in Stores /\ u.table = [s.table EXCEPT ![slot].generation = generation + 1]
      /\ u.free = s.free /\ u.next = s.next /\ u.resident = s.resident
  <2> HIDE DEF slot, u
  <2>1. u \in Stores /\ StoresIn(s, slot, page, a, bytes, u)
    BY <1>1, StoreIsStore DEF slot, u
  <2> QED
    BY <2>1 DEF StoresIn
<1>3. u.table \in Tables
  BY <1>2, StoreParts
<1> HIDE DEF u, slot
<1>4. \A j \in Slots : u.table[j].address = s.table[j].address /\ u.table[j].backing = s.table[j].backing
  BY <1>1, <1>2 DEF Tables, Entries
<1>5. /\ Placed(s.table) => Placed(u.table)
      /\ \A q \in Pages : PageSlot(u.table, q, FALSE) = PageSlot(s.table, q, FALSE)
  BY <1>1, <1>3, <1>4, SameAddresses
<1>6. LiveSlots(u.table) = LiveSlots(s.table) /\ (Shared(s.table, s.free, s.next) => Shared(u.table, s.free, s.next))
  BY <1>1, <1>3, <1>4, SameBackings
<1>7. Conserved(u)
  BY <1>2, <1>5, <1>6 DEF Conserved
<1>8. Holding(u) = Holding(s)
  BY <1>4, <1>6 DEF Holding, LiveSlots
<1>9. ASSUME NEW P \in SUBSET Pages, Roomy(s, P) PROVE Roomy(u, P)
  <2>1. {p \in P : ~HasPage(u, p)} = {p \in P : ~HasPage(s, p)}
    BY <1>5 DEF HasPage
  <2> QED
    BY <1>2, <1>9, <2>1 DEF Roomy
<1> QED
  BY <1>7, <1>8, <1>9 DEF u

LEMMA DropIsStore ==
    ASSUME NEW s \in Stores, NEW slot \in Slots
    PROVE  LET u == Drop(s, slot)
           IN  /\ u \in Stores
               /\ u.table = [s.table EXCEPT ![slot] = Empty(Deleted)] /\ u.bytes = s.bytes
               /\ u.free = Append(s.free, s.table[slot].backing)
               /\ u.next = s.next /\ u.resident = s.resident - 1
<1> DEFINE u == Drop(s, slot)
           table == [s.table EXCEPT ![slot] = Empty(Deleted)]
           free == Append(s.free, s.table[slot].backing)
<1>0. /\ s.table \in Tables /\ s.bytes \in [0 .. Capacity - 1 -> Block] /\ s.free \in Seq(Nat)
      /\ s.next \in Nat /\ s.resident \in Int
      /\ s = [table |-> s.table, bytes |-> s.bytes, free |-> s.free, next |-> s.next, resident |-> s.resident]
  BY StoreParts DEF Stores
<1>1. u = [s EXCEPT !.table = table, !.free = free, !.resident = s.resident - 1]
  BY DEF Drop
<1>2. u = [table |-> table, bytes |-> s.bytes, free |-> free, next |-> s.next, resident |-> s.resident - 1]
  <2> HIDE DEF u, table, free
  <2> QED
    BY <1>0, <1>1
<1>3. Empty(Deleted) \in Entries
  BY DEF Empty, Entries
<1>4. table \in Tables
  BY <1>0, <1>3 DEF Tables
<1>5. s.table[slot].backing \in Nat
  BY <1>0, LiveIs
<1>6. free \in Seq(Nat)
  BY <1>0, <1>5
<1> HIDE DEF u, table, free
<1>7. u \in Stores
  BY <1>0, <1>2, <1>4, <1>6 DEF Stores
<1> QED
  BY <1>2, <1>7 DEF u, table, free

LEMMA DropIsSound ==
    ASSUME NEW s, Conserved(s), NEW slot \in Slots, s.table[slot].address \in Pages
    PROVE  Conserved(Drop(s, slot))
<1> DEFINE u == Drop(s, slot)
           t == [s.table EXCEPT ![slot] = Empty(Deleted)]
<1>1. s \in Stores /\ s.table \in Tables /\ s.free \in Seq(Nat) /\ s.next \in Nat /\ s.resident \in Int
  BY StoreParts DEF Conserved
<1>2. /\ Placed(s.table) /\ Shared(s.table, s.free, s.next) /\ Cardinality(LiveSlots(s.table)) = s.resident /\ s.next <= Capacity
  BY DEF Conserved
<1>3. /\ u \in Stores /\ u.table = t /\ u.free = Append(s.free, s.table[slot].backing)
      /\ u.next = s.next /\ u.resident = s.resident - 1
  BY <1>1, DropIsStore
<1>4. Placed(t)
  BY <1>1, <1>2, DeleteIsPlaced
<1>5. Shared(t, Append(s.free, s.table[slot].backing), s.next) /\ Cardinality(LiveSlots(t)) = Cardinality(LiveSlots(s.table)) - 1
  BY <1>1, <1>2, DeleteGivesBack
<1> HIDE DEF u, t
<1>6. Conserved(u)
  BY <1>2, <1>3, <1>4, <1>5 DEF Conserved
<1> QED
  BY <1>6 DEF u
-----------------------------------------------------------------------------
(* The loops over the page table and over the pages of an access.          *)

\* A loop from s whose i-th step is step[i] exists, as a function of the store.
LEMMA LoopExists ==
    ASSUME NEW n \in Nat, NEW s \in Stores, NEW step \in [1 .. n -> [Stores -> Stores]]
    PROVE  \E f \in [0 .. n -> Stores] : f[0] = s /\ \A i \in 1 .. n : f[i] = step[i][f[i - 1]]
<1> HIDE DEF Stores
<1>1. PICK f \in [0 .. n -> Stores] : Leads(s, n, step, f)
  BY StepsLead
<1> QED
  BY <1>1 DEF Leads

Discards(s, from, to, f) ==
    f = [n \in 0 .. SlotCount |->
            IF n = 0 THEN s
            ELSE LET t == f[n - 1]
                 IN  IF t.table[n - 1].address \in from .. to - 1 THEN Drop(t, n - 1) ELSE t]

LEMMA DiscardExists ==
    ASSUME NEW s \in Stores, NEW from, NEW to
    PROVE  \E f : Discards(s, from, to, f)
<1> DEFINE one(t, n) == IF t.table[n - 1].address \in from .. to - 1 THEN Drop(t, n - 1) ELSE t
           step == [i \in 1 .. SlotCount |-> [t \in Stores |-> one(t, i)]]
<1>0. SlotCount \in Nat /\ \A i \in 1 .. SlotCount : i - 1 \in Slots
  BY NumbersAre DEF Slots
<1>1. \A i \in 1 .. SlotCount : \A t \in Stores : one(t, i) \in Stores
  BY <1>0, DropIsStore
<1> HIDE DEF Stores, one
<1>2. step \in [1 .. SlotCount -> [Stores -> Stores]]
  BY <1>1
<1>3. PICK f \in [0 .. SlotCount -> Stores] : f[0] = s /\ \A i \in 1 .. SlotCount : f[i] = step[i][f[i - 1]]
  <2> HIDE DEF step
  <2> QED
    BY <1>0, <1>2, LoopExists
<1>4. \A i \in 1 .. SlotCount : f[i - 1] \in Stores /\ f[i] = one(f[i - 1], i)
  <2> SUFFICES ASSUME NEW i \in 1 .. SlotCount PROVE f[i - 1] \in Stores /\ f[i] = one(f[i - 1], i)
    OBVIOUS
  <2>1. i - 1 \in 0 .. SlotCount
    BY <1>0
  <2>2. f[i - 1] \in Stores /\ f[i] = step[i][f[i - 1]]
    BY <1>3, <2>1
  <2> QED
    BY <2>2
<1>5. \A i \in 0 .. SlotCount : f[i] = IF i = 0 THEN s ELSE one(f[i - 1], i)
  BY <1>0, <1>3, <1>4
<1>6. f = [n \in 0 .. SlotCount |-> IF n = 0 THEN s ELSE one(f[n - 1], n)]
  BY <1>5
<1> QED
  BY <1>6 DEF Discards, one

\* discard_pages: the pages of the range lose their backing, the others keep their
\* entries.
LEMMA DiscardIsSound ==
    ASSUME NEW s, Conserved(s), NEW from \in Nat, NEW to \in Nat, FirstPage <= from, to <= LastPage + 1
    PROVE  /\ Conserved(Discard(s, from, to))
           /\ \A slot \in Slots :
                 IF s.table[slot].address \in from .. to - 1
                 THEN Discard(s, from, to).table[slot] = Empty(Deleted)
                 ELSE Discard(s, from, to).table[slot] = s.table[slot]
           /\ Discard(s, from, to).bytes = s.bytes
<1> DEFINE f == CHOOSE f : Discards(s, from, to, f)
           gone(x) == x \in from .. to - 1
           Fine(n) ==
             /\ Conserved(f[n]) /\ f[n].bytes = s.bytes
             /\ \A slot \in Slots : f[n].table[slot] = IF slot < n /\ gone(s.table[slot].address)
                                                       THEN Empty(Deleted) ELSE s.table[slot]
           N == {n \in Nat : n <= SlotCount => Fine(n)}
<1>0. SlotCount \in Nat /\ Slots = 0 .. SlotCount - 1
  BY NumbersAre DEF Slots
<1>1. s \in Stores
  BY DEF Conserved
<1>2. Discards(s, from, to, f)
  BY <1>1, DiscardExists
<1>3. Discard(s, from, to) = f[SlotCount]
  BY DEF Discard, Discards
<1> HIDE DEF f
<1>4. /\ f[0] = s
      /\ \A n \in 1 .. SlotCount : f[n] = IF gone(f[n - 1].table[n - 1].address) THEN Drop(f[n - 1], n - 1) ELSE f[n - 1]
  <2>1. \A n \in 0 .. SlotCount : f[n] =
           IF n = 0 THEN s ELSE IF gone(f[n - 1].table[n - 1].address) THEN Drop(f[n - 1], n - 1) ELSE f[n - 1]
    BY <1>2, Zenon DEF Discards
  <2>2. 0 \in 0 .. SlotCount /\ \A n \in 1 .. SlotCount : n \in 0 .. SlotCount /\ n # 0
    BY <1>0
  <2> HIDE DEF gone
  <2> QED
    BY <2>1, <2>2
<1>5. 0 \in N
  BY <1>0, <1>4
<1>6. ASSUME NEW n \in Nat, n \in N PROVE n + 1 \in N
  <2> SUFFICES ASSUME n + 1 <= SlotCount PROVE Fine(n + 1)
    OBVIOUS
  <2>1. Fine(n) /\ n \in Slots /\ n + 1 \in 1 .. SlotCount /\ (n + 1) - 1 = n
    BY <1>0, <1>6
  <2>2. f[n + 1] = IF gone(f[n].table[n].address) THEN Drop(f[n], n) ELSE f[n]
    BY <1>4, <2>1
  <2>3. f[n].table[n] = s.table[n]
    BY <2>1
  <2>4. \A slot \in Slots : slot < n + 1 <=> slot < n \/ slot = n
    BY <1>0
  <2>5. CASE gone(s.table[n].address)
    <3>1. f[n + 1] = Drop(f[n], n)
      BY <2>2, <2>3, <2>5
    <3>2. f[n].table[n].address \in Pages
      BY <2>3, <2>5, NumbersAre DEF Pages
    <3>3. Conserved(Drop(f[n], n))
      BY <2>1, <3>2, DropIsSound
    <3>4. f[n] \in Stores /\ f[n].table \in Tables
      BY <2>1, StoreParts DEF Conserved
    <3>5. Drop(f[n], n).table = [f[n].table EXCEPT ![n] = Empty(Deleted)] /\ Drop(f[n], n).bytes = f[n].bytes
      BY <2>1, <3>4, DropIsStore
    <3>6. \A slot \in Slots : Drop(f[n], n).table[slot] = IF slot = n THEN Empty(Deleted) ELSE f[n].table[slot]
      BY <3>4, <3>5 DEF Tables
    <3> QED
      BY <2>1, <2>4, <2>5, <3>1, <3>3, <3>5, <3>6
  <2>6. CASE ~gone(s.table[n].address)
    BY <2>1, <2>2, <2>3, <2>4, <2>6
  <2> QED
    BY <2>5, <2>6
<1>7. Nat \subseteq N
  <2> HIDE DEF N
  <2> QED
    BY <1>5, <1>6, SetInduction
<1>8. Fine(SlotCount)
  BY <1>0, <1>7
<1> QED
  BY <1>0, <1>3, <1>8

LEMMA DiscardHolds ==
    ASSUME NEW s, Conserved(s), NEW from \in Nat, NEW to \in Nat, FirstPage <= from, to <= LastPage + 1
    PROVE  Holding(Discard(s, from, to)) = Holding(s) \ (from .. to - 1)
<1> DEFINE u == Discard(s, from, to)
<1>1. \A slot \in Slots : IF s.table[slot].address \in from .. to - 1
                          THEN u.table[slot] = Empty(Deleted) ELSE u.table[slot] = s.table[slot]
  BY DiscardIsSound
<1>2. Empty(Deleted).address = Deleted /\ Deleted \notin Pages
  BY NumbersAre DEF Empty
<1> HIDE DEF u
<1>3. \A slot \in Slots : slot \in LiveSlots(u.table) <=> slot \in LiveSlots(s.table) /\ s.table[slot].address \notin from .. to - 1
  BY <1>1, <1>2 DEF LiveSlots
<1>4. \A slot \in LiveSlots(u.table) : slot \in Slots /\ u.table[slot] = s.table[slot]
  BY <1>1, <1>3 DEF LiveSlots
<1>5. Holding(u) = Holding(s) \ (from .. to - 1)
  BY <1>3, <1>4 DEF Holding, LiveSlots
<1> QED
  BY <1>5 DEF u

\* Pages and cells.
LEMMA PageOfIs ==
    ASSUME NEW c \in Nat
    PROVE  PageOf(c) \in Nat /\ PageOf(c) * PageCells <= c /\ c < (PageOf(c) + 1) * PageCells
<1>1. PageCells \in Nat /\ PageCells > 0
  BY NumbersAre
<1> QED
  BY <1>1 DEF PageOf
LEMMA PageOfOrder ==
    ASSUME NEW c \in Nat, NEW p \in Nat
    PROVE  (p * PageCells <= c => p <= PageOf(c)) /\ (c < p * PageCells => PageOf(c) < p)
<1> DEFINE q == PageOf(c)
<1>1. PageCells \in Nat /\ PageCells > 0
  BY NumbersAre
<1>2. q \in Nat /\ q * PageCells <= c /\ c < (q + 1) * PageCells
  BY PageOfIs
<1> HIDE DEF q
<1>3. ASSUME p * PageCells <= c PROVE p <= q
  <2> SUFFICES ASSUME p >= q + 1 PROVE FALSE
    BY <1>2
  <2>1. p * PageCells >= (q + 1) * PageCells
    BY <1>1, <1>2
  <2>2. p * PageCells \in Nat /\ (q + 1) * PageCells \in Nat
    BY <1>1, <1>2
  <2> QED
    BY <1>2, <1>3, <2>1, <2>2
<1>4. ASSUME c < p * PageCells PROVE q < p
  <2> SUFFICES ASSUME p <= q PROVE FALSE
    BY <1>2
  <2>1. p * PageCells <= q * PageCells
    BY <1>1, <1>2
  <2>2. p * PageCells \in Nat /\ q * PageCells \in Nat
    BY <1>1, <1>2
  <2> QED
    BY <1>2, <1>4, <2>1, <2>2
<1> QED
  BY <1>3, <1>4 DEF q

\* The pages of a span are pages of the space.
LEMMA SpanPages ==
    ASSUME NEW a \in Nat, NEW n \in Nat, n # 0, FirstCell <= a, a + n <= EndCell
    PROVE  /\ PageOf(a) \in Nat /\ PageOf(a + n - 1) \in Nat /\ a + n - 1 \in Nat
           /\ FirstPage <= PageOf(a) /\ PageOf(a) <= PageOf(a + n - 1) /\ PageOf(a + n - 1) <= LastPage
           /\ Touched(a, n) = PageOf(a) .. PageOf(a + n - 1) /\ Touched(a, n) \subseteq Pages
           /\ PageCount(a, n) \in Nat
           /\ \A k \in 1 .. PageCount(a, n) : PageOf(a) + k - 1 \in Touched(a, n)
           /\ \A p \in Touched(a, n) : \E k \in 1 .. PageCount(a, n) : p = PageOf(a) + k - 1
<1> DEFINE z == a + n - 1
           p == PageOf(a)
           q == PageOf(z)
<1>0. z \in Nat /\ a <= z /\ z = a + n - 1
  OBVIOUS
<1>1. /\ FirstPage \in Nat /\ LastPage \in Nat /\ LastPage + 1 \in Nat
      /\ FirstPage * PageCells <= a /\ z < (LastPage + 1) * PageCells
  <2>1. FirstPage \in Nat /\ LastPage \in Nat /\ PageCells \in Nat
    BY NumbersAre
  <2>2. (LastPage + 1) * PageCells \in Nat /\ a + n <= (LastPage + 1) * PageCells
    BY <2>1 DEF EndCell
  <2> QED
    BY <1>0, <2>1, <2>2 DEF FirstCell
<1> HIDE DEF z
<1>2. p \in Nat /\ q \in Nat /\ p * PageCells <= a
  BY <1>0, PageOfIs
<1>3. FirstPage <= p /\ q < LastPage + 1
  BY <1>0, <1>1, PageOfOrder
<1>4. p <= q
  <2>1. p * PageCells <= z
    <3>1. p * PageCells \in Nat
      BY <1>2, NumbersAre
    <3> QED
      BY <1>0, <1>2, <3>1
  <2> QED
    BY <1>0, <1>2, <2>1, PageOfOrder
<1> HIDE DEF p, q
<1>5. Touched(a, n) = p .. q /\ PageCount(a, n) = q - p + 1
  BY <1>0 DEF Touched, PageCount, p, q
<1>6. p .. q \subseteq Pages
  BY <1>1, <1>2, <1>3 DEF Pages
<1>7. q - p + 1 \in Nat /\ \A k \in 1 .. q - p + 1 : p + k - 1 \in p .. q
  BY <1>2, <1>4
<1>8. \A m \in p .. q : m - p + 1 \in 1 .. q - p + 1 /\ m = p + (m - p + 1) - 1
  BY <1>2, <1>4
<1>9. \A m \in p .. q : \E k \in 1 .. q - p + 1 : m = p + k - 1
  BY <1>8
<1>10. q <= LastPage
  BY <1>1, <1>2, <1>3
<1> QED
  BY <1>0, <1>2, <1>3, <1>4, <1>5, <1>6, <1>7, <1>9, <1>10 DEF p, q, z
LEMMA AccessibleIs ==
    ASSUME NEW a, NEW n, Accessible(a, n)
    PROVE  /\ a \in Nat /\ n \in Nat /\ n # 0 /\ FirstCell <= a /\ a + n <= EndCell
           /\ Roomy(store, Touched(a, n)) /\ \E need : CheckAccess(a, n, need) = "OK"
BY DEF Accessible, Fits, Missing, Resident, Roomy, HasPage

\* Through the pages of an access each is backed, and bytes may be stored in it.
LEMMA LoopIsSound ==
    ASSUME Conserved(store), generation \in Nat, NEW a, NEW n, Accessible(a, n), NEW bytes \in Seq(Byte), NEW f, f[0] = store,
           \A k \in 1 .. PageCount(a, n) :
               LET page == PageOf(a) + k - 1
               IN  f[k] = Back(f[k - 1], page) \/ f[k] = Store(Back(f[k - 1], page), page, a, bytes)
    PROVE  Conserved(f[PageCount(a, n)]) /\ Holding(f[PageCount(a, n)]) = Holding(store) \cup Touched(a, n)
<1> DEFINE P == Touched(a, n)
           m == PageCount(a, n)
           page(k) == PageOf(a) + k - 1
           Fine(k) == /\ Conserved(f[k]) /\ Roomy(f[k], P)
                      /\ Holding(f[k]) = Holding(store) \cup {page(j) : j \in 1 .. k}
           N == {k \in Nat : k <= m => Fine(k)}
<1>1. a \in Nat /\ n \in Nat /\ n # 0 /\ FirstCell <= a /\ a + n <= EndCell /\ Roomy(store, P)
  BY AccessibleIs
<1>2. /\ P \in SUBSET Pages /\ m \in Nat /\ \A k \in 1 .. m : page(k) \in P
      /\ \A p \in P : \E k \in 1 .. m : p = page(k)
  BY <1>1, SpanPages
<1>3. \A k \in 1 .. m : f[k] = Back(f[k - 1], page(k)) \/ f[k] = Store(Back(f[k - 1], page(k)), page(k), a, bytes)
  OBVIOUS
<1> HIDE DEF P, m, page
<1>4. 0 \in N
  BY <1>1
<1>5. ASSUME NEW k \in Nat, k \in N PROVE k + 1 \in N
  <2> SUFFICES ASSUME k + 1 <= m PROVE Fine(k + 1)
    OBVIOUS
  <2> DEFINE p == page(k + 1)
             u == Back(f[k], p)
  <2>1. Fine(k) /\ k + 1 \in 1 .. m /\ (k + 1) - 1 = k
    BY <1>2, <1>5
  <2>2. p \in P /\ p \in Pages /\ (f[k + 1] = u \/ f[k + 1] = Store(u, p, a, bytes))
    BY <1>2, <1>3, <2>1
  <2>3. Conserved(u) /\ Roomy(u, P) /\ Holding(u) = Holding(f[k]) \cup {p}
    BY <1>2, <2>1, <2>2, BackIsSound
  <2>4. {page(j) : j \in 1 .. k + 1} = {page(j) : j \in 1 .. k} \cup {p}
    <3>1. 1 .. k + 1 = (1 .. k) \cup {k + 1}
      OBVIOUS
    <3> QED
      BY <3>1
  <2> HIDE DEF u, p
  <2>5. Conserved(f[k + 1]) /\ Roomy(f[k + 1], P) /\ Holding(f[k + 1]) = Holding(u)
    <3>1. CASE f[k + 1] = u
      BY <2>3, <3>1
    <3>2. CASE f[k + 1] = Store(u, p, a, bytes)
      BY <1>1, <1>2, <2>2, <2>3, <3>2, StoreIsSound
    <3> QED
      BY <2>2, <3>1, <3>2
  <2> QED
    BY <2>1, <2>3, <2>4, <2>5
<1>6. Nat \subseteq N
  <2> HIDE DEF N
  <2> QED
    BY <1>4, <1>5, SetInduction
<1>7. Fine(m)
  <2>1. m \in N
    <3> HIDE DEF N
    <3> QED
      BY <1>2, <1>6
  <2> HIDE DEF Fine
  <2> QED
    BY <1>2, <2>1
<1>8. {page(j) : j \in 1 .. m} = P
  BY <1>2
<1> QED
  BY <1>7, <1>8 DEF P, m

Backings(a, n, f) ==
    f = [k \in 0 .. PageCount(a, n) |-> IF k = 0 THEN store ELSE Back(f[k - 1], PageOf(a) + k - 1)]
Writings(a, bytes, f) ==
    f = [k \in 0 .. PageCount(a, Len(bytes)) |->
            IF k = 0 THEN store
            ELSE LET page == PageOf(a) + k - 1 IN Store(Back(f[k - 1], page), page, a, bytes)]

LEMMA WritingExists ==
    ASSUME store \in Stores, generation \in Nat, NEW a, NEW bytes \in Seq(Byte), Accessible(a, Len(bytes))
    PROVE  (\E f : Writings(a, bytes, f)) /\ \E f : Backings(a, Len(bytes), f)
<1> DEFINE m == PageCount(a, Len(bytes))
           page(k) == PageOf(a) + k - 1
           one(t, k) == Store(Back(t, page(k)), page(k), a, bytes)
           two(t, k) == Back(t, page(k))
           step1 == [i \in 1 .. m |-> [t \in Stores |-> one(t, i)]]
           step2 == [i \in 1 .. m |-> [t \in Stores |-> two(t, i)]]
<1>0. a \in Nat /\ Len(bytes) \in Nat /\ Len(bytes) # 0 /\ FirstCell <= a /\ a + Len(bytes) <= EndCell
  BY AccessibleIs
<1>1. m \in Nat /\ \A k \in 1 .. m : page(k) \in Pages
  BY <1>0, SpanPages
<1>2. \A i \in 1 .. m : \A t \in Stores : one(t, i) \in Stores /\ two(t, i) \in Stores
  <2> HIDE DEF page, m
  <2> QED
    BY <1>0, <1>1, BackIsStore, StoreIsStore
<1> HIDE DEF Stores, one, two, m
<1>3. step1 \in [1 .. m -> [Stores -> Stores]] /\ step2 \in [1 .. m -> [Stores -> Stores]]
  BY <1>2
<1>4. PICK f \in [0 .. m -> Stores] : f[0] = store /\ \A i \in 1 .. m : f[i] = step1[i][f[i - 1]]
  <2> HIDE DEF step1
  <2> QED
    BY <1>1, <1>3, LoopExists
<1>5. PICK g \in [0 .. m -> Stores] : g[0] = store /\ \A i \in 1 .. m : g[i] = step2[i][g[i - 1]]
  <2> HIDE DEF step2
  <2> QED
    BY <1>1, <1>3, LoopExists
<1>6. ASSUME NEW i \in 1 .. m PROVE f[i] = one(f[i - 1], i) /\ g[i] = two(g[i - 1], i)
  <2>1. i - 1 \in 0 .. m
    BY <1>1
  <2>2. f[i - 1] \in Stores /\ f[i] = step1[i][f[i - 1]] /\ g[i - 1] \in Stores /\ g[i] = step2[i][g[i - 1]]
    BY <1>4, <1>5, <2>1
  <2> QED
    BY <2>2
<1>7. \A k \in 0 .. m : k = 0 \/ k \in 1 .. m
  BY <1>1
<1>8. f = [k \in 0 .. m |-> IF k = 0 THEN store ELSE one(f[k - 1], k)]
  BY <1>4, <1>6, <1>7
<1>9. g = [k \in 0 .. m |-> IF k = 0 THEN store ELSE two(g[k - 1], k)]
  BY <1>5, <1>6, <1>7
<1>10. Writings(a, bytes, f)
  BY <1>8, Zenon DEF Writings, one, m
<1>11. Backings(a, Len(bytes), g)
  BY <1>9, Zenon DEF Backings, two, m
<1> QED
  BY <1>10, <1>11

LEMMA WrittenIsSound ==
    ASSUME Conserved(store), generation \in Nat, NEW a, NEW bytes \in Seq(Byte), Accessible(a, Len(bytes))
    PROVE  Conserved(Written(a, bytes)) /\ Holding(Written(a, bytes)) = Holding(store) \cup Touched(a, Len(bytes))
<1> DEFINE f == CHOOSE f : Writings(a, bytes, f)
           m == PageCount(a, Len(bytes))
<1>1. Writings(a, bytes, f)
  BY WritingExists DEF Conserved
<1>2. Written(a, bytes) = f[m]
  BY DEF Written, Writings
<1> HIDE DEF f
<1>3. \A k \in 0 .. m : f[k] = IF k = 0 THEN store
                               ELSE Store(Back(f[k - 1], PageOf(a) + k - 1), PageOf(a) + k - 1, a, bytes)
  BY <1>1, Zenon DEF Writings
<1>4. a \in Nat /\ Len(bytes) \in Nat /\ Len(bytes) # 0 /\ FirstCell <= a /\ a + Len(bytes) <= EndCell
  BY AccessibleIs
<1>5. m \in Nat
  BY <1>4, SpanPages
<1> HIDE DEF m
<1>6. 0 \in 0 .. m /\ \A k \in 1 .. m : k \in 0 .. m /\ k # 0
  BY <1>5
<1>7. f[0] = store /\ \A k \in 1 .. m : f[k] = Store(Back(f[k - 1], PageOf(a) + k - 1), PageOf(a) + k - 1, a, bytes)
  BY <1>3, <1>6
<1>8. Conserved(f[m]) /\ Holding(f[m]) = Holding(store) \cup Touched(a, Len(bytes))
  BY <1>4, <1>7, LoopIsSound DEF m
<1> QED
  BY <1>2, <1>8

LEMMA BackedIsSound ==
    ASSUME Conserved(store), generation \in Nat, NEW a, NEW n, Accessible(a, n)
    PROVE  Conserved(Backed(a, n)) /\ Holding(Backed(a, n)) = Holding(store) \cup Touched(a, n)
<1> DEFINE f == CHOOSE f : Backings(a, n, f)
           m == PageCount(a, n)
           bytes == [i \in 1 .. n |-> 0]
<1>0. bytes \in Seq(Byte) /\ Len(bytes) = n
  <2>1. n \in Nat /\ 0 \in Byte
    BY AccessibleIs, SpaceAssumption DEF Byte
  <2> QED
    BY <2>1
<1>1. Backings(a, n, f)
  BY <1>0, WritingExists DEF Conserved
<1>2. Backed(a, n) = f[m]
  BY DEF Backed, Backings
<1> HIDE DEF f
<1>3. \A k \in 0 .. m : f[k] = IF k = 0 THEN store ELSE Back(f[k - 1], PageOf(a) + k - 1)
  BY <1>1, Zenon DEF Backings
<1>4. a \in Nat /\ n \in Nat /\ n # 0 /\ FirstCell <= a /\ a + n <= EndCell
  BY AccessibleIs
<1>5. m \in Nat
  BY <1>4, SpanPages
<1> HIDE DEF m, bytes
<1>6. 0 \in 0 .. m /\ \A k \in 1 .. m : k \in 0 .. m /\ k # 0
  BY <1>5
<1>7. f[0] = store /\ \A k \in 1 .. m : f[k] = Back(f[k - 1], PageOf(a) + k - 1)
  BY <1>3, <1>6
<1>8. Conserved(f[m]) /\ Holding(f[m]) = Holding(store) \cup Touched(a, n)
  BY <1>0, <1>4, <1>7, LoopIsSound DEF m
<1> QED
  BY <1>2, <1>8
-----------------------------------------------------------------------------
(* check_access.                                                           *)

\* Page p is mapped, and every access in need is allowed.
MappedPage(p) == \E i \in DOMAIN regions : Inside(regions[i], p)
GoodPage(p, need) == \E i \in DOMAIN regions : Inside(regions[i], p) /\ need \subseteq regions[i].prot

Walk(w, r, end, need) ==
    IF w.stopped \/ w.covered = end \/ r.end <= w.covered THEN w
    ELSE IF r.start > w.covered THEN [w EXCEPT !.stopped = TRUE]
    ELSE IF ~(need \subseteq r.prot) THEN [w EXCEPT !.stopped = TRUE, !.result = "PROTECTION"]
    ELSE [w EXCEPT !.covered = Smaller(r.end, end)]
Walks(a, end, need, f) ==
    f = [i \in 0 .. Len(regions) |->
            IF i = 0 THEN [covered |-> PageOf(a), stopped |-> FALSE, result |-> "UNMAPPED"]
            ELSE Walk(f[i - 1], regions[i], end, need)]
WalkStates == [covered : Int, stopped : BOOLEAN, result : {"UNMAPPED", "PROTECTION"}]

\* The steps of a walk, one by one.
WalksTo(w, r, end, need, v) ==
    /\ v \in WalkStates
    /\ w.stopped = TRUE \/ w.covered = end \/ r.end <= w.covered => v = w
    /\ w.stopped = FALSE /\ w.covered # end /\ ~(r.end <= w.covered) =>
          IF r.start > w.covered
          THEN v.stopped = TRUE /\ v.covered = w.covered /\ v.result = w.result
          ELSE IF ~(need \subseteq r.prot)
          THEN v.stopped = TRUE /\ v.covered = w.covered /\ v.result = "PROTECTION"
          ELSE v.stopped = FALSE /\ v.covered = Smaller(r.end, end) /\ v.result = w.result

LEMMA WalkIs ==
    ASSUME NEW w \in WalkStates, NEW r \in Piece, NEW end \in Int, NEW need
    PROVE  WalksTo(w, r, end, need, Walk(w, r, end, need))
<1>0. r.start \in Nat /\ r.end \in Nat /\ Smaller(r.end, end) \in Int
  BY DEF Piece, Smaller
<1>1. /\ w.covered \in Int /\ w.stopped \in BOOLEAN /\ w.result \in {"UNMAPPED", "PROTECTION"}
      /\ w = [covered |-> w.covered, stopped |-> w.stopped, result |-> w.result]
  BY DEF WalkStates
<1> DEFINE u == [w EXCEPT !.stopped = TRUE]
           v == [w EXCEPT !.stopped = TRUE, !.result = "PROTECTION"]
           x == [w EXCEPT !.covered = Smaller(r.end, end)]
<1>2. u \in WalkStates /\ u.stopped = TRUE /\ u.covered = w.covered /\ u.result = w.result
  BY DEF WalkStates
<1>3. v \in WalkStates /\ v.stopped = TRUE /\ v.covered = w.covered /\ v.result = "PROTECTION"
  BY DEF WalkStates
<1>4. x \in WalkStates /\ x.stopped = w.stopped /\ x.covered = Smaller(r.end, end) /\ x.result = w.result
  BY <1>0 DEF WalkStates
<1> HIDE DEF u, v, x
<1>5. Walk(w, r, end, need) =
        IF w.stopped \/ w.covered = end \/ r.end <= w.covered THEN w
        ELSE IF r.start > w.covered THEN u ELSE IF ~(need \subseteq r.prot) THEN v ELSE x
  BY DEF Walk, u, v, x
<1>6. CASE w.stopped = TRUE
  BY <1>5, <1>6 DEF WalksTo
<1>7. CASE w.stopped = FALSE
  BY <1>2, <1>3, <1>4, <1>5, <1>7 DEF WalksTo
<1> QED
  BY <1>1, <1>6, <1>7 DEF WalksTo

LEMMA WalkExists ==
    ASSUME Canonical(regions), NEW a \in Nat, NEW end \in Int, NEW need
    PROVE  \E f \in [0 .. Len(regions) -> WalkStates] : Walks(a, end, need, f)
<1> DEFINE n == Len(regions)
           base == [covered |-> PageOf(a), stopped |-> FALSE, result |-> "UNMAPPED"]
           step == [i \in 1 .. n |-> [w \in WalkStates |-> Walk(w, regions[i], end, need)]]
<1>1. n \in Nat /\ DOMAIN regions = 1 .. n /\ \A i \in 1 .. n : regions[i] \in Piece
  BY ListFacts DEF Canonical
<1>2. base \in WalkStates
  BY PageOfIs DEF WalkStates
<1>3. \A i \in 1 .. n : \A w \in WalkStates : Walk(w, regions[i], end, need) \in WalkStates
  BY <1>1, WalkIs DEF WalksTo
<1> HIDE DEF WalkStates, base
<1>4. step \in [1 .. n -> [WalkStates -> WalkStates]]
  BY <1>3
<1>5. PICK f \in [0 .. n -> WalkStates] : Leads(base, n, step, f)
  <2> HIDE DEF n, step
  <2> QED
    BY <1>1, <1>2, <1>4, StepsLead
<1>6. ASSUME NEW i \in 1 .. n PROVE f[i] = Walk(f[i - 1], regions[i], end, need)
  <2>1. i - 1 \in 0 .. n
    BY <1>1
  <2>2. f[i - 1] \in WalkStates
    BY <2>1
  <2>3. f[i] = step[i][f[i - 1]]
    BY <1>5 DEF Leads
  <2> QED
    BY <2>2, <2>3
<1>7. f[0] = base
  BY <1>5 DEF Leads
<1>8. \A k \in 0 .. n : k = 0 \/ k \in 1 .. n
  BY <1>1
<1>9. f = [k \in 0 .. n |-> IF k = 0 THEN base ELSE Walk(f[k - 1], regions[k], end, need)]
  BY <1>6, <1>7, <1>8
<1>10. Walks(a, end, need, f)
  BY <1>9, Zenon DEF Walks, base, n
<1> QED
  BY <1>10

\* A page is in one region at most.
LEMMA OneRegion ==
    ASSUME Canonical(regions), NEW i \in DOMAIN regions, NEW j \in DOMAIN regions, NEW p \in Int,
           Inside(regions[i], p), Inside(regions[j], p)
    PROVE  i = j
<1>1. DOMAIN regions = 1 .. Len(regions) /\ Len(regions) \in Nat
  BY ListFacts DEF Canonical
<1>2. /\ regions[i].start \in Nat /\ regions[i].end \in Nat /\ regions[j].start \in Nat /\ regions[j].end \in Nat
      /\ regions[i].start <= p /\ p < regions[i].end /\ regions[j].start <= p /\ p < regions[j].end
  BY RegionFacts DEF Inside
<1>3. ~(i < j)
  BY <1>1, <1>2, EndsAscend
<1>4. ~(j < i)
  BY <1>1, <1>2, EndsAscend
<1> QED
  BY <1>1, <1>3, <1>4

\* What check_access finds: the whole span is accessible, or its first page that is not.
Verdict(from, end, need, result) ==
    \/ result = "OK" /\ \A p \in from .. end - 1 : GoodPage(p, need)
    \/ \E c \in from .. end - 1 :
          /\ \A p \in from .. c - 1 : GoodPage(p, need)
          /\ \/ result = "UNMAPPED" /\ ~MappedPage(c)
             \/ result = "PROTECTION" /\ MappedPage(c) /\ ~GoodPage(c, need)

LEMMA CheckAccessIs ==
    ASSUME Canonical(regions), NEW a \in Nat, NEW n \in Nat, n # 0, NEW need
    PROVE  Verdict(PageOf(a), PageOf(a + n - 1) + 1, need, CheckAccess(a, n, need))
<1> DEFINE m == Len(regions)
           from == PageOf(a)
           end == PageOf(a + n - 1) + 1
           f == CHOOSE f : Walks(a, end, need, f)
<1>0. a + n - 1 \in Nat /\ a <= a + n - 1
  OBVIOUS
<1>1. from \in Nat /\ end \in Nat /\ from < end
  <2>1. from \in Nat /\ PageOf(a + n - 1) \in Nat /\ from * PageCells <= a
    BY <1>0, PageOfIs
  <2>2. from * PageCells <= a + n - 1
    <3> HIDE DEF from
    <3>1. from * PageCells \in Nat
      BY <2>1, NumbersAre
    <3> QED
      BY <1>0, <2>1, <3>1
  <2>3. from <= PageOf(a + n - 1)
    <3> HIDE DEF from
    <3> QED
      BY <1>0, <2>1, <2>2, PageOfOrder
  <2> HIDE DEF from
  <2> QED
    BY <2>1, <2>3
<1>2. m \in Nat /\ DOMAIN regions = 1 .. m
  BY ListFacts DEF Canonical
<1>3. Walks(a, end, need, f)
  <2>1. end \in Int
    BY <1>1
  <2> HIDE DEF end
  <2> QED
    BY <2>1, WalkExists
<1>4. CheckAccess(a, n, need) = IF f[m].covered = end THEN "OK" ELSE f[m].result
  <2>1. CheckAccess(a, n, need) = IF n = 0 \/ f[m].covered = end THEN "OK" ELSE f[m].result
    BY DEF CheckAccess, Walks, Walk
  <2> HIDE DEF f, end
  <2> QED
    BY <2>1
<1> HIDE DEF f, end
<1>5. \A i \in 0 .. m : f[i] = IF i = 0 THEN [covered |-> from, stopped |-> FALSE, result |-> "UNMAPPED"]
                               ELSE Walk(f[i - 1], regions[i], end, need)
  BY <1>3, Zenon DEF Walks
<1> HIDE DEF from
<1> DEFINE Cover(w) == w.covered \in from .. end /\ \A p \in from .. w.covered - 1 : GoodPage(p, need)
           Open(w, i) == /\ w.stopped = FALSE /\ w.result = "UNMAPPED"
                         /\ w.covered = end \/ \A j \in 1 .. i : regions[j].end <= w.covered
           Shut(w) == /\ w.stopped = TRUE /\ w.covered # end
                      /\ \/ w.result = "UNMAPPED" /\ ~MappedPage(w.covered)
                         \/ w.result = "PROTECTION" /\ MappedPage(w.covered) /\ ~GoodPage(w.covered, need)
           Fine(i) == f[i] \in WalkStates /\ Cover(f[i]) /\ (Open(f[i], i) \/ Shut(f[i]))
           N == {i \in Nat : i <= m => Fine(i)}
<1>6. 0 \in N
  <2>0. 0 \in 0 .. m
    BY <1>2
  <2>1. f[0] = [covered |-> from, stopped |-> FALSE, result |-> "UNMAPPED"]
    BY <1>5, <2>0
  <2>2. f[0] \in WalkStates
    BY <1>1, <2>1 DEF WalkStates
  <2> QED
    BY <1>1, <2>1, <2>2
<1>7. ASSUME NEW i0 \in Nat, i0 \in N PROVE i0 + 1 \in N
  <2> HIDE DEF Fine
  <2> SUFFICES ASSUME i0 + 1 <= m PROVE Fine(i0 + 1)
    OBVIOUS
  <2> USE DEF Fine
  <2> DEFINE i == i0 + 1
             w == f[i0]
             v == f[i]
             r == regions[i]
             c == w.covered
  <2>1. /\ i \in 1 .. m /\ i \in DOMAIN regions /\ i - 1 = i0 /\ v = Walk(w, r, end, need)
        /\ \A j \in DOMAIN regions : j \in 1 .. i0 \/ j = i \/ j > i
    BY <1>2, <1>5
  <2>2. Fine(i0)
    BY <1>7
  <2>3. /\ r \in Piece /\ r.start \in Nat /\ r.end \in Nat /\ r.start < r.end
        /\ w \in WalkStates /\ c \in Int /\ from <= c /\ c <= end
    BY <1>1, <2>1, <2>2, RegionFacts
  <2>4. 1 .. i = (1 .. i0) \cup {i}
    OBVIOUS
  <2> HIDE DEF i, w, v, r
  <2>5. /\ v \in WalkStates
        /\ w.stopped = TRUE \/ w.covered = end \/ r.end <= w.covered => v = w
        /\ w.stopped = FALSE /\ w.covered # end /\ ~(r.end <= w.covered) =>
                     IF r.start > w.covered
                     THEN v.stopped = TRUE /\ v.covered = w.covered /\ v.result = w.result
                     ELSE IF ~(need \subseteq r.prot)
                     THEN v.stopped = TRUE /\ v.covered = w.covered /\ v.result = "PROTECTION"
                     ELSE v.stopped = FALSE /\ v.covered = Smaller(r.end, end) /\ v.result = w.result
    <3>1. WalksTo(w, r, end, need, v)
      BY <1>1, <2>1, <2>3, WalkIs
    <3> QED
      BY <3>1 DEF WalksTo
  <2>6. CASE Shut(w) \/ c = end \/ r.end <= c
    <3>1. v = w
      BY <2>5, <2>6
    <3>2. Cover(v) /\ (Shut(v) \/ Open(v, i))
      <4>1. CASE Shut(w)
        BY <2>2, <3>1, <4>1 DEF w
      <4>2. CASE Open(w, i0) /\ c = end
        BY <2>2, <3>1, <4>2 DEF w
      <4>3. CASE Open(w, i0) /\ c # end /\ r.end <= c
        BY <2>2, <2>4, <3>1, <4>3 DEF w, r
      <4> QED
        BY <2>2, <2>6, <4>1, <4>2, <4>3 DEF w
    <3> QED
      BY <2>5, <3>2 DEF v, i
  <2>7. CASE ~(Shut(w) \/ c = end \/ r.end <= c)
    <3>1. Open(w, i0) /\ Cover(w) /\ w.stopped = FALSE /\ c # end /\ c < r.end /\ c < end /\ w.result = "UNMAPPED"
      BY <1>1, <2>2, <2>3, <2>7 DEF w
    <3>2. \A j \in 1 .. i0 : regions[j].end <= c
      BY <3>1
    <3>3. ASSUME NEW j \in DOMAIN regions, Inside(regions[j], c) PROVE j \notin 1 .. i0
      <4>1. regions[j].end \in Nat /\ c < regions[j].end
        BY <3>3, RegionFacts DEF Inside
      <4> QED
        BY <2>3, <3>2, <4>1
    <3>4. CASE r.start > c
      <4>1. ~MappedPage(c)
        <5> SUFFICES ASSUME NEW j \in DOMAIN regions, Inside(regions[j], c) PROVE FALSE
          BY DEF MappedPage
        <5>1. regions[j].start \in Nat /\ regions[j].start <= c
          BY RegionFacts DEF Inside
        <5>2. j # i
          BY <2>3, <3>4, <5>1 DEF r
        <5>3. i < j
          BY <1>2, <2>1, <3>3, <5>2
        <5>4. regions[i].end <= regions[j].start
          BY <2>1, <5>3, EndsAscend
        <5> QED
          BY <2>3, <3>1, <5>1, <5>4 DEF r
      <4>2. v.stopped = TRUE /\ v.covered = c /\ v.result = "UNMAPPED"
        BY <2>5, <3>1, <3>4, <2>3
      <4> QED
        BY <2>5, <3>1, <4>1, <4>2 DEF v, i
    <3>5. CASE ~(r.start > c)
      <4>1. Inside(r, c)
        BY <2>3, <3>1, <3>5 DEF Inside
      <4>2. CASE ~(need \subseteq r.prot)
        <5>1. v.stopped = TRUE /\ v.covered = c /\ v.result = "PROTECTION"
          BY <2>5, <3>1, <3>5, <4>2, <2>3
        <5>2. MappedPage(c)
          BY <2>1, <4>1 DEF MappedPage, r
        <5>3. ~GoodPage(c, need)
          BY <2>1, <2>3, <4>1, <4>2, OneRegion DEF GoodPage, r
        <5> QED
          BY <2>5, <3>1, <5>1, <5>2, <5>3 DEF v, i
      <4>3. CASE need \subseteq r.prot
        <5> DEFINE d == Smaller(r.end, end)
        <5>1. v.stopped = FALSE /\ v.covered = d /\ v.result = "UNMAPPED"
          BY <2>5, <3>1, <3>5, <4>3, <2>3
        <5>2. d \in Int /\ c < d /\ d <= r.end /\ d <= end /\ (d = end \/ d = r.end)
          BY <1>1, <2>3, <3>1 DEF Smaller
        <5> HIDE DEF d
        <5>3. ASSUME NEW p \in from .. d - 1 PROVE GoodPage(p, need)
          <6>1. CASE p < c
            BY <1>1, <2>3, <3>1, <5>2, <6>1
          <6>2. CASE ~(p < c)
            <7>1. Inside(r, p)
              BY <1>1, <2>3, <3>5, <5>2, <6>2 DEF Inside
            <7> QED
              BY <2>1, <4>3, <7>1 DEF GoodPage, r
          <6> QED
            BY <6>1, <6>2
        <5>4. Cover(v)
          BY <1>1, <2>3, <5>1, <5>2, <5>3
        <5>5. d = end \/ \A j \in 1 .. i : regions[j].end <= d
          <6> SUFFICES ASSUME d = r.end, NEW j \in 1 .. i PROVE regions[j].end <= d
            BY <5>2
          <6>1. CASE j = i
            BY <2>3, <5>2, <6>1 DEF r
          <6>2. CASE j \in 1 .. i0
            <7>1. j \in DOMAIN regions
              BY <1>2, <2>1, <6>2
            <7>2. regions[j].end \in Nat
              BY <7>1, RegionFacts
            <7> QED
              BY <2>3, <3>2, <5>2, <6>2, <7>2
          <6> QED
            BY <2>4, <6>1, <6>2
        <5>6. Open(v, i)
          BY <5>1, <5>5
        <5> QED
          BY <2>5, <5>4, <5>6 DEF v, i
      <4> QED
        BY <4>2, <4>3
    <3> QED
      BY <3>4, <3>5
  <2> QED
    BY <2>6, <2>7
<1>8. Nat \subseteq N
  <2> HIDE DEF N
  <2> QED
    BY <1>6, <1>7, SetInduction
<1>9. Fine(m)
  BY <1>2, <1>8
<1> DEFINE c == f[m].covered
<1>10. CASE c = end
  BY <1>4, <1>9, <1>10 DEF Verdict, from, end
<1>11. CASE c # end /\ Shut(f[m])
  <2>1. c \in from .. end - 1
    BY <1>1, <1>9, <1>11
  <2> QED
    BY <1>4, <1>9, <1>11, <2>1 DEF Verdict, from, end
<1>12. CASE c # end /\ Open(f[m], m)
  <2>1. c \in from .. end - 1
    BY <1>1, <1>9, <1>12
  <2>2. ~MappedPage(c)
    <3> SUFFICES ASSUME NEW j \in DOMAIN regions, Inside(regions[j], c) PROVE FALSE
      BY DEF MappedPage
    <3>1. regions[j].end \in Nat /\ c < regions[j].end /\ regions[j].end <= c
      BY <1>2, <1>12, RegionFacts DEF Inside
    <3> QED
      BY <1>1, <2>1, <3>1
  <2> QED
    BY <1>4, <1>9, <1>12, <2>1, <2>2 DEF Verdict, from, end
<1> QED
  BY <1>9, <1>10, <1>11, <1>12
\* A span that may be accessed is mapped, every page of it.
LEMMA AccessibleIsMapped ==
    ASSUME Canonical(regions), NEW a, NEW n, Accessible(a, n), NEW p \in Touched(a, n)
    PROVE  MappedPage(p) /\ p \in Pages
<1>1. a \in Nat /\ n \in Nat /\ n # 0 /\ FirstCell <= a /\ a + n <= EndCell /\ \E need : CheckAccess(a, n, need) = "OK"
  BY AccessibleIs
<1>2. PICK need : CheckAccess(a, n, need) = "OK"
  BY <1>1
<1>3. Verdict(PageOf(a), PageOf(a + n - 1) + 1, need, "OK")
  BY <1>1, <1>2, CheckAccessIs
<1>4. Touched(a, n) = PageOf(a) .. PageOf(a + n - 1) /\ Touched(a, n) \subseteq Pages /\ PageOf(a + n - 1) \in Nat /\ PageOf(a) \in Nat
  BY <1>1, SpanPages
<1> DEFINE end == PageOf(a + n - 1) + 1
<1>5. p \in PageOf(a) .. end - 1
  BY <1>4
<1>6. GoodPage(p, need)
  <2> HIDE DEF end
  <2>1. Verdict(PageOf(a), end, need, "OK")
    BY <1>3 DEF end
  <2>2. \A q \in PageOf(a) .. end - 1 : GoodPage(q, need)
    BY <2>1 DEF Verdict
  <2> QED
    BY <1>5, <2>2
<1> QED
  BY <1>4, <1>6 DEF GoodPage, MappedPage

-----------------------------------------------------------------------------
(* The table stays sound.                                                  *)

TableInv ==
    /\ RegionInv /\ generation \in Nat
    /\ Conserved(store)
    /\ \A p \in Holding(store) : MappedPage(p)

LEMMA MapsMapped ==
    ASSUME NEW list, NEW p
    PROVE  (\E i \in DOMAIN list : Inside(list[i], p)) <=> \E x, y : Maps(list, p, x, y)
BY DEF Inside, Maps, Has

LEMMA InitTable == Init => TableInv
<1> SUFFICES ASSUME Init PROVE TableInv
  OBVIOUS
<1> DEFINE table == [slot \in Slots |-> Empty(0)]
           zero == [i \in 0 .. PageCells - 1 |-> 0]
           bytes == [b \in 0 .. Capacity - 1 |-> zero]
<1>1. RegionInv
  BY InitRegions
<1>2. generation \in Nat
  BY DEF Init
<1>3. store = [table |-> table, bytes |-> bytes, free |-> <<>>, next |-> 0, resident |-> 0]
  BY DEF Init
<1>4. Empty(0) \in Entries /\ Empty(0).address = 0
  BY DEF Empty, Entries
<1>5. table \in Tables /\ \A slot \in Slots : table[slot].address \notin Pages
  BY <1>4, NumbersAre DEF Tables
<1>6. bytes \in [0 .. Capacity - 1 -> Block]
  BY ZeroBlock
<1> HIDE DEF table, bytes
<1>7. store \in Stores /\ store.table = table /\ store.free = <<>> /\ store.next = 0 /\ store.resident = 0
  BY <1>3, <1>5, <1>6 DEF Stores
<1>8. LiveSlots(table) = {}
  BY <1>5 DEF LiveSlots
<1>9. Placed(table)
  BY <1>5 DEF Placed
<1>10. Shared(table, <<>>, 0)
  BY <1>8 DEF Shared, UsedBy, IsFree
<1>11. Cardinality(LiveSlots(table)) = 0 /\ 0 <= Capacity
  BY <1>8, FS_EmptySet, NumbersAre
<1>12. Holding(store) = {}
  BY <1>7, <1>8 DEF Holding
<1> QED
  BY <1>1, <1>2, <1>7, <1>9, <1>10, <1>11, <1>12 DEF TableInv, Conserved

LEMMA NextTable == TableInv /\ [Next]_vars => TableInv'
<1> SUFFICES ASSUME TableInv, [Next]_vars PROVE TableInv'
  OBVIOUS
<1>1. RegionInv'
  BY NextRegions DEF TableInv
<1>2. generation \in Nat /\ Conserved(store) /\ Canonical(regions) /\ \A p \in Holding(store) : MappedPage(p)
  BY DEF TableInv, RegionInv
<1>3. store \in Stores /\ store.resident \in Int
  BY <1>2, StoreParts DEF Conserved
<1>4. ASSUME generation' \in Nat, NEW s, store' = s, Conserved(s), \A p \in Holding(s) : MappedPage(p)' PROVE TableInv'
  <2>1. Conserved(store') /\ \A p \in Holding(store') : MappedPage(p)'
    BY <1>4
  <2>2. Conserved(store)'
    BY <2>1 DEF Conserved, Placed, Shared, UsedBy, IsFree, LiveSlots, FoundAt, Passes, AddressAt
  <2>3. Holding(store)' = Holding(store')
    BY DEF Holding, LiveSlots
  <2> QED
    BY <1>1, <1>4, <2>1, <2>2, <2>3 DEF TableInv
<1>5. CASE Stays
  <2>1. \A p \in Holding(store) : MappedPage(p)'
    BY <1>2, <1>5 DEF Stays, MappedPage
  <2> QED
    BY <1>2, <1>4, <1>5, <2>1 DEF Stays
<1>6. CASE Changes
  <2>1. PICK op, a, end, prot, max : Carried(op, a, end, prot, max)
    BY <1>6 DEF Changes
  <2>2. /\ Asked(op, a, end, prot, max) /\ generation' = generation /\ regions' = Rebuilt(op, a, end, prot, max)
        /\ store' = IF op = "protect" \/ store.resident = 0 THEN store ELSE Discard(store, a, end)
    BY <2>1 DEF Carried
  <2>3. \A p \in Int : \A x, y : Maps(regions', p, x, y) <=> MapsAfter(op, a, end, prot, max, p, x, y)
    BY <1>2, <2>2, RebuiltIs
  <2>4. a \in Nat /\ end \in Nat /\ FirstPage <= a /\ end <= LastPage + 1 /\ a < end
    BY <2>2 DEF Asked
  <2>5. ASSUME NEW p \in Int, MappedPage(p), op = "protect" \/ p \notin a .. end - 1 PROVE MappedPage(p)'
    <3>1. PICK i \in DOMAIN regions : Inside(regions[i], p)
      BY <2>5 DEF MappedPage
    <3>2. \E x, y : MapsAfter(op, a, end, prot, max, p, x, y)
      <4>1. CASE a <= p /\ p < end
        <5>1. op = "protect"
          BY <2>4, <2>5, <4>1
        <5>2. MapsAfter(op, a, end, prot, max, p, prot, regions[i].max)
          BY <3>1, <4>1, <5>1 DEF MapsAfter
        <5> QED
          BY <5>2
      <4>2. CASE ~(a <= p /\ p < end)
        <5>1. Maps(regions, p, regions[i].prot, regions[i].max)
          BY <3>1 DEF Maps, Has, Inside
        <5>2. MapsAfter(op, a, end, prot, max, p, regions[i].prot, regions[i].max)
          BY <4>2, <5>1 DEF MapsAfter
        <5> QED
          BY <5>2
      <4> QED
        BY <4>1, <4>2
    <3>3. \E x, y : Maps(regions', p, x, y)
      BY <2>3, <3>2
    <3>4. \E j \in DOMAIN regions' : Inside(regions'[j], p)
      BY <3>3, MapsMapped
    <3> QED
      BY <3>4 DEF MappedPage, Inside
  <2>6. Holding(store) \subseteq Int
    <3>1. Pages \subseteq Int
      BY NumbersAre
    <3>2. \A p \in Holding(store) : p \in Pages
      BY DEF Holding, LiveSlots
    <3> QED
      BY <3>1, <3>2
  <2>7. CASE op = "protect"
    <3>1. \A p \in Holding(store) : MappedPage(p)'
      BY <1>2, <2>5, <2>6, <2>7
    <3> QED
      BY <1>2, <1>4, <2>2, <2>7, <3>1
  <2>8. CASE op # "protect" /\ store.resident = 0
    <3>1. LiveSlots(store.table) = {}
      BY <1>2, <2>8, SlotsAreFinite, FS_EmptySet DEF Conserved
    <3>2. \A p \in Holding(store) : MappedPage(p)'
      BY <3>1 DEF Holding
    <3> QED
      BY <1>2, <1>4, <2>2, <2>8, <3>2
  <2>9. CASE op # "protect" /\ store.resident # 0
    <3> DEFINE s == Discard(store, a, end)
    <3>1. store' = s
      BY <2>2, <2>9
    <3>2. Conserved(s) /\ Holding(s) = Holding(store) \ (a .. end - 1)
      BY <1>2, <2>4, DiscardIsSound, DiscardHolds
    <3> HIDE DEF s
    <3>3. \A p \in Holding(s) : MappedPage(p)'
      BY <1>2, <2>5, <2>6, <3>2
    <3> QED
      BY <1>2, <1>4, <2>2, <3>1, <3>2, <3>3
  <2> QED
    BY <2>7, <2>8, <2>9
<1>7. ASSUME UNCHANGED regions, generation' \in Nat, NEW a, NEW n, Accessible(a, n), NEW s, store' = s, Conserved(s),
             Holding(s) = Holding(store) \cup Touched(a, n)
      PROVE  TableInv'
  <2>1. \A p \in Holding(s) : MappedPage(p)
    BY <1>2, <1>7, AccessibleIsMapped
  <2>2. \A p \in Holding(s) : MappedPage(p)'
    BY <1>7, <2>1 DEF MappedPage
  <2> QED
    BY <1>4, <1>7, <2>2
<1>8. CASE Backs
  <2>1. PICK a, n : Accessible(a, n) /\ store' = Backed(a, n)
    BY <1>8 DEF Backs
  <2>2. Conserved(Backed(a, n)) /\ Holding(Backed(a, n)) = Holding(store) \cup Touched(a, n)
    BY <1>2, <2>1, BackedIsSound
  <2>3. UNCHANGED regions /\ generation' \in Nat
    BY <1>2, <1>8 DEF Backs
  <2> QED
    BY <1>7, <2>1, <2>2, <2>3
<1>9. CASE Writes
  <2>1. PICK a, bytes : bytes \in Seq(Byte) /\ Accessible(a, Len(bytes)) /\ store' = Written(a, bytes)
    BY <1>9 DEF Writes
  <2>2. Conserved(Written(a, bytes)) /\ Holding(Written(a, bytes)) = Holding(store) \cup Touched(a, Len(bytes))
    BY <1>2, <2>1, WrittenIsSound
  <2>3. UNCHANGED regions /\ generation' \in Nat
    BY <1>2, <1>9 DEF Writes
  <2> QED
    BY <1>7, <2>1, <2>2, <2>3
<1> QED
  BY <1>5, <1>6, <1>8, <1>9, StepIs

LEMMA TableInvImplies == TableInv => TableIsSound
<1> SUFFICES ASSUME TableInv PROVE TableIsSound
  OBVIOUS
<1> DEFINE table == store.table
           live == {slot \in Slots : Live(table[slot])}
           used == {table[slot].backing : slot \in live}
           free == store.free
<1>1. Conserved(store) /\ \A p \in Holding(store) : MappedPage(p)
  BY DEF TableInv
<1>2. /\ store \in Stores /\ table \in Tables /\ free \in Seq(Nat) /\ store.next \in Nat /\ store.resident \in Int
      /\ Placed(table) /\ Shared(table, free, store.next)
      /\ Cardinality(LiveSlots(table)) = store.resident /\ store.next <= Capacity
  BY <1>1, StoreParts DEF Conserved
<1>3. live = LiveSlots(table)
  BY <1>2, LiveIs DEF LiveSlots
<1>4. used = {table[slot].backing : slot \in LiveSlots(table)}
  BY <1>3
<1>5. Cardinality(used) = store.resident
  BY <1>2, <1>4, AsManyBackings DEF Shared
<1> HIDE DEF table, free
<1>6. \A b : b \in used <=> UsedBy(table, b)
  BY <1>4 DEF UsedBy
<1>7. used \subseteq Nat
  BY <1>2, <1>3, LiveIs DEF LiveSlots
<1>8. ToSet(free) \subseteq Nat /\ \A b : b \in ToSet(free) <=> IsFree(free, b)
  BY <1>2 DEF ToSet, IsFree
<1> HIDE DEF used, live
<1>9. used \cap ToSet(free) = {}
  BY <1>2, <1>6, <1>7, <1>8 DEF Shared
<1>10. used \cup ToSet(free) = 0 .. store.next - 1
  <2>1. \A b \in Nat : b \in used \cup ToSet(free) <=> b < store.next
    BY <1>2, <1>6, <1>8 DEF Shared
  <2>2. \A b : b \in 0 .. store.next - 1 <=> b \in Nat /\ b < store.next
    BY <1>2
  <2> QED
    BY <1>7, <1>8, <2>1, <2>2
<1>11. IsInjective(free)
  BY <1>2 DEF Shared, IsInjective
<1>12. BackingIsConserved
  BY <1>2, <1>3, <1>5, <1>9, <1>10, <1>11 DEF BackingIsConserved, used, live, table, free
<1>13. EveryPageIsFound
  <2> SUFFICES ASSUME NEW slot \in Slots, Live(table[slot]) PROVE PageSlot(table, table[slot].address, FALSE) = slot
    BY DEF EveryPageIsFound, table
  <2>1. table[slot].address \in Pages
    BY <1>2, LiveIs
  <2>2. FoundAt(table, table[slot].address, slot)
    BY <1>2, <2>1 DEF Placed
  <2> QED
    BY <1>2, <2>1, <2>2, PageSlotFinds
<1>14. ResidentMeansMapped
  <2> SUFFICES ASSUME NEW slot \in Slots, Live(table[slot])
               PROVE  \E i \in DOMAIN regions : table[slot].address \in regions[i].start .. regions[i].end - 1
    BY DEF ResidentMeansMapped, table
  <2> DEFINE p == table[slot].address
  <2>1. p \in Pages /\ p \in Holding(store) /\ p \in Nat
    BY <1>2, LiveIs, NumbersAre DEF Holding, LiveSlots, table
  <2>2. PICK i \in DOMAIN regions : Inside(regions[i], p)
    BY <1>1, <2>1 DEF MappedPage
  <2>3. regions[i].start \in Nat /\ regions[i].end \in Nat
    BY RegionFacts DEF TableInv, RegionInv
  <2> HIDE DEF p
  <2>4. p \in regions[i].start .. regions[i].end - 1
    BY <2>1, <2>2, <2>3 DEF Inside
  <2> QED
    BY <2>4 DEF p
<1> QED
  BY <1>12, <1>13, <1>14 DEF TableIsSound

\* page_slot, backing_for, discard_pages and change together: through every order
\* of mapping, writing, recycling and unmapping, no backing page is lost or has two
\* owners, resident and next_backing count what the table holds, every page is found
\* where it is whatever was deleted before it, and what is resident is mapped.
THEOREM TheTableStaysSound == Spec => []TableIsSound
<1>1. Spec => []TableInv
  BY InitTable, NextTable, PTL DEF Spec
<1> QED
  BY <1>1, TableInvImplies, PTL
-----------------------------------------------------------------------------
(* What the pages hold.                                                    *)

Zero == [i \in 0 .. PageCells - 1 |-> 0]
EntryOf(s, p) == s.table[PageSlot(s.table, p, FALSE)]
BlockOf(s, p) == IF HasPage(s, p) THEN s.bytes[EntryOf(s, p).backing] ELSE Zero
GenerationOf(s, p) == IF HasPage(s, p) THEN EntryOf(s, p).generation ELSE 0

\* A page's slot, and what is in it.
Held(s, p, j) ==
    /\ HasPage(s, p) /\ PageSlot(s.table, p, FALSE) = j
    /\ BlockOf(s, p) = s.bytes[s.table[j].backing] /\ GenerationOf(s, p) = s.table[j].generation
    /\ s.table[j].backing \in 0 .. Capacity - 1 /\ s.table[j].generation \in Nat
LEMMA HeldAt ==
    ASSUME NEW s, Conserved(s), NEW j \in Slots, NEW p \in Pages, s.table[j].address = p
    PROVE  Held(s, p, j)
<1>1. s \in Stores /\ s.table \in Tables /\ Placed(s.table) /\ Shared(s.table, s.free, s.next) /\ s.next <= Capacity /\ s.next \in Nat
  BY StoreParts DEF Conserved
<1>2. FoundAt(s.table, p, j)
  BY <1>1 DEF Placed
<1>3. PageSlot(s.table, p, FALSE) = j
  BY <1>1, <1>2, PageSlotFinds
<1>4. HasPage(s, p)
  BY <1>3, NumbersAre DEF HasPage
<1>5. s.table[j].backing \in Nat /\ s.table[j].generation \in Nat
  BY <1>1, LiveIs
<1>6. UsedBy(s.table, s.table[j].backing)
  BY DEF UsedBy, LiveSlots
<1>7. s.table[j].backing < s.next
  BY <1>1, <1>5, <1>6 DEF Shared
<1>8. s.table[j].backing \in 0 .. Capacity - 1
  BY <1>1, <1>5, <1>7, NumbersAre
<1> QED
  BY <1>3, <1>4, <1>5, <1>8 DEF Held, BlockOf, GenerationOf, EntryOf

LEMMA HeldSomewhere ==
    ASSUME NEW s, Conserved(s), NEW p \in Pages, HasPage(s, p)
    PROVE  \E j \in Slots : s.table[j].address = p /\ Held(s, p, j)
<1>1. s \in Stores /\ Placed(s.table)
  BY DEF Conserved
<1>2. p \in Holding(s)
  BY <1>1, HoldingIs
<1>3. PICK j \in Slots : s.table[j].address = p
  BY <1>2 DEF Holding, LiveSlots
<1> QED
  BY <1>3, HeldAt

LEMMA HeldNowhere ==
    ASSUME NEW s, NEW p, ~HasPage(s, p)
    PROVE  BlockOf(s, p) = Zero /\ GenerationOf(s, p) = 0
BY DEF BlockOf, GenerationOf

\* Different pages, different backing.
LEMMA HeldApart ==
    ASSUME NEW s, Conserved(s), NEW j \in Slots, NEW k \in Slots, s.table[j].address \in Pages, s.table[k].address \in Pages, j # k
    PROVE  s.table[j].backing # s.table[k].backing
BY DEF Conserved, Shared, LiveSlots

\* A page holds the same in s as in u.
Agree(s, u, p) == BlockOf(u, p) = BlockOf(s, p) /\ GenerationOf(u, p) = GenerationOf(s, p)

LEMMA AgreeFrom ==
    ASSUME NEW s, Conserved(s), NEW u, Conserved(u), NEW p \in Pages, HasPage(s, p) <=> HasPage(u, p),
           \A j \in Slots : s.table[j].address = p =>
               /\ u.table[j] = s.table[j]
               /\ s.table[j].backing \in 0 .. Capacity - 1 => u.bytes[s.table[j].backing] = s.bytes[s.table[j].backing]
    PROVE  Agree(s, u, p)
<1>1. CASE ~HasPage(s, p)
  BY <1>1, HeldNowhere DEF Agree
<1>2. CASE HasPage(s, p)
  <2>1. PICK j \in Slots : s.table[j].address = p /\ Held(s, p, j)
    BY <1>2, HeldSomewhere
  <2>2. u.table[j] = s.table[j] /\ u.bytes[s.table[j].backing] = s.bytes[s.table[j].backing]
    BY <2>1 DEF Held
  <2>3. Held(u, p, j)
    BY <2>1, <2>2, HeldAt
  <2> QED
    BY <2>1, <2>2, <2>3 DEF Held, Agree
<1> QED
  BY <1>1, <1>2

\* Backing a page changes what no page holds: it holds zeros before and after.
LEMMA AllocateAgrees ==
    ASSUME NEW s, Conserved(s), NEW page \in Pages, ~HasPage(s, page), s.resident < Capacity, NEW p \in Pages
    PROVE  Agree(s, Allocate(s, page), p)
<1> DEFINE u == Allocate(s, page)
           b == AllocatedBacking(s)
           slot == PageSlot(s.table, page, TRUE)
           entry == [address |-> page, backing |-> b, generation |-> 0]
<1>1. /\ s \in Stores /\ s.table \in Tables /\ s.free \in Seq(Nat) /\ s.next \in Nat /\ s.next <= Capacity
      /\ s.bytes \in [0 .. Capacity - 1 -> Block] /\ s.resident \in Int
      /\ Placed(s.table) /\ Shared(s.table, s.free, s.next) /\ Cardinality(LiveSlots(s.table)) = s.resident
  BY StoreParts DEF Conserved
<1>2. /\ u \in Stores /\ b \in Nat /\ u.table = [s.table EXCEPT ![slot] = entry] /\ u.bytes = [s.bytes EXCEPT ![b] = Zero]
  BY <1>1, AllocateIsStore DEF Zero
<1>3. Conserved(u) /\ Holding(u) = Holding(s) \cup {page}
  BY AllocateIsSound
<1>4. Holding(s) = {q \in Pages : HasPage(s, q)}
  BY <1>1, HoldingIs
<1> HIDE DEF u, slot, b
<1>4a. Holding(u) = {q \in Pages : HasPage(u, q)}
  BY <1>3, HoldingIs DEF Conserved
<1>5. Cardinality(LiveSlots(s.table)) < SlotCount
  BY <1>1, NumbersAre
<1>6. PICK vacant \in Slots : s.table[vacant].address \in {0, Deleted}
  BY <1>1, <1>5, VacantSlot
<1>7. slot \in Slots /\ s.table[slot].address \in {0, Deleted}
  BY <1>1, <1>6, PageSlotInserts DEF slot, HasPage
<1>8. \A j \in Slots : j # slot => u.table[j] = s.table[j]
  BY <1>1, <1>2 DEF Tables
<1>9. ~UsedBy(s.table, b)
  <2>1. CASE s.free = <<>>
    <3>1. b = s.next
      BY <2>1 DEF b, AllocatedBacking
    <3> QED
      BY <1>1, <3>1 DEF Shared
  <2>2. CASE s.free # <<>>
    <3>1. b = s.free[Len(s.free)]
      BY <2>2 DEF b, AllocatedBacking
    <3>2. Len(s.free) \in DOMAIN s.free
      BY <1>1, <2>2
    <3>3. IsFree(s.free, b)
      BY <3>1, <3>2 DEF IsFree
    <3> QED
      BY <1>1, <1>2, <3>3 DEF Shared
  <2> QED
    BY <2>1, <2>2
<1>10. CASE p # page
  <2>1. HasPage(s, p) <=> HasPage(u, p)
    BY <1>3, <1>4, <1>4a, <1>10
  <2>2. ASSUME NEW j \in Slots, s.table[j].address = p
        PROVE  /\ u.table[j] = s.table[j]
               /\ s.table[j].backing \in 0 .. Capacity - 1 => u.bytes[s.table[j].backing] = s.bytes[s.table[j].backing]
    <3>1. j # slot
      BY <1>7, <2>2, NumbersAre
    <3>2. s.table[j].backing # b
      BY <1>9, <2>2 DEF UsedBy, LiveSlots
    <3> QED
      BY <1>1, <1>2, <1>8, <3>1, <3>2
  <2>3. Agree(s, u, p)
    BY <1>3, <2>1, <2>2, AgreeFrom
  <2> QED
    BY <2>3 DEF u
<1>11. CASE p = page
  <2>1. u.table[slot] = entry /\ entry.address = page /\ entry.backing = b /\ entry.generation = 0
    BY <1>1, <1>2, <1>7 DEF Tables
  <2>2. Held(u, p, slot)
    BY <1>3, <1>7, <1>11, <2>1, HeldAt
  <2>3. u.bytes[b] = Zero
    BY <1>1, <1>2, <2>1, <2>2 DEF Held
  <2>4. Agree(s, u, p)
    BY <1>11, <2>1, <2>2, <2>3, HeldNowhere DEF Agree, Held
  <2> QED
    BY <2>4 DEF u
<1> QED
  BY <1>10, <1>11

LEMMA BackAgrees ==
    ASSUME NEW s, Conserved(s), NEW P \in SUBSET Pages, NEW page \in P, Roomy(s, P), NEW p \in Pages
    PROVE  Agree(s, Back(s, page), p)
<1>1. CASE HasPage(s, page)
  BY <1>1 DEF Back, HasPage, Agree
<1>2. CASE ~HasPage(s, page)
  <2>1. Back(s, page) = Allocate(s, page)
    BY <1>2 DEF Back, HasPage
  <2>2. s.resident < Capacity
    <3> DEFINE missing == {q \in P : ~HasPage(s, q)}
    <3>1. IsFiniteSet(Pages)
      BY SpaceAssumption, FS_Interval DEF Pages
    <3>2. IsFiniteSet(missing) /\ Cardinality(missing) \in Nat
      <4>1. missing \in SUBSET Pages
        OBVIOUS
      <4> QED
        BY <3>1, <4>1, FS_Subset, FS_CardinalityType
    <3>3. page \in missing
      BY <1>2
    <3>4. Cardinality(missing) > 0
      BY <3>2, <3>3, FS_EmptySet
    <3>5. Cardinality(missing) <= Capacity - s.resident /\ s.resident \in Int
      BY StoreParts DEF Roomy, Conserved
    <3> HIDE DEF missing
    <3> QED
      BY <3>2, <3>4, <3>5, NumbersAre
  <2> QED
    BY <1>2, <2>1, <2>2, AllocateAgrees
<1> QED
  BY <1>1, <1>2

\* Storing bytes in a page changes that page.
LEMMA StoreContents ==
    ASSUME NEW s, Conserved(s), NEW page \in Pages, HasPage(s, page), NEW a \in Nat, NEW bytes \in Seq(Byte), generation \in Nat
    PROVE  LET u == Store(s, page, a, bytes)
           IN  /\ BlockOf(u, page) = StoredBlock(BlockOf(s, page), page, a, bytes)
               /\ GenerationOf(u, page) = generation + 1
               /\ \A p \in Pages : p # page => Agree(s, u, p)
<1> DEFINE u == Store(s, page, a, bytes)
<1>1. s \in Stores /\ s.table \in Tables /\ s.bytes \in [0 .. Capacity - 1 -> Block]
  BY StoreParts DEF Conserved
<1>2. PICK slot \in Slots : s.table[slot].address = page /\ Held(s, page, slot)
  BY HeldSomewhere
<1>3. StoredSlot(s, page) = slot
  BY <1>2 DEF Held, StoredSlot
<1>4. u \in Stores /\ StoresIn(s, slot, page, a, bytes, u)
  BY <1>1, <1>3, StoreIsStore
<1>5. Conserved(u) /\ Holding(u) = Holding(s)
  BY StoreIsSound
<1> HIDE DEF u
<1> DEFINE b == s.table[slot].backing
<1>6. b \in 0 .. Capacity - 1 /\ BlockOf(s, page) = s.bytes[b]
  BY <1>2 DEF Held
<1>7. /\ u.table[slot].address = page /\ u.table[slot].backing = b /\ u.table[slot].generation = generation + 1
      /\ \A j \in Slots : j # slot => u.table[j] = s.table[j]
  <2>1. u.table = [s.table EXCEPT ![slot].generation = generation + 1] /\ s.table \in [Slots -> Entries]
    BY <1>1, <1>4 DEF StoresIn, Tables
  <2>2. s.table[slot] \in Entries
    BY <2>1
  <2> QED
    BY <1>2, <2>1, <2>2 DEF Entries
<1>8. u.bytes[b] = StoredBlock(s.bytes[b], page, a, bytes) /\ \A x \in 0 .. Capacity - 1 : x # b => u.bytes[x] = s.bytes[x]
  <2>1. u.bytes = [s.bytes EXCEPT ![b] = StoredBlock(s.bytes[b], page, a, bytes)]
    BY <1>4 DEF StoresIn
  <2> HIDE DEF b
  <2> QED
    BY <1>1, <1>6, <2>1
<1>9. Held(u, page, slot)
  BY <1>5, <1>7, HeldAt
<1>10. BlockOf(u, page) = StoredBlock(BlockOf(s, page), page, a, bytes) /\ GenerationOf(u, page) = generation + 1
  BY <1>6, <1>7, <1>8, <1>9 DEF Held
<1>11. ASSUME NEW p \in Pages, p # page PROVE Agree(s, u, p)
  <2>1. HasPage(s, p) <=> HasPage(u, p)
    BY <1>5, HoldingIs DEF Conserved
  <2>2. ASSUME NEW j \in Slots, s.table[j].address = p
        PROVE  /\ u.table[j] = s.table[j]
               /\ s.table[j].backing \in 0 .. Capacity - 1 => u.bytes[s.table[j].backing] = s.bytes[s.table[j].backing]
    <3>1. j # slot
      BY <1>2, <1>11, <2>2
    <3>2. s.table[j].backing # b
      BY <1>2, <2>2, <3>1, HeldApart
    <3> HIDE DEF b
    <3> QED
      BY <1>7, <1>8, <3>1, <3>2
  <2> QED
    BY <1>5, <2>1, <2>2, AgreeFrom
<1> QED
  BY <1>10, <1>11 DEF u

\* Discarding pages: they hold zeros again, the others what they held.
LEMMA DiscardContents ==
    ASSUME NEW s, Conserved(s), NEW from \in Nat, NEW to \in Nat, FirstPage <= from, to <= LastPage + 1, NEW p \in Pages
    PROVE  IF p \in from .. to - 1
           THEN BlockOf(Discard(s, from, to), p) = Zero /\ GenerationOf(Discard(s, from, to), p) = 0
           ELSE Agree(s, Discard(s, from, to), p)
<1> DEFINE u == Discard(s, from, to)
<1>1. /\ Conserved(u) /\ Holding(u) = Holding(s) \ (from .. to - 1) /\ u.bytes = s.bytes
      /\ \A j \in Slots : IF s.table[j].address \in from .. to - 1 THEN u.table[j] = Empty(Deleted) ELSE u.table[j] = s.table[j]
  BY DiscardIsSound, DiscardHolds
<1>2. Holding(s) = {q \in Pages : HasPage(s, q)}
  BY HoldingIs DEF Conserved
<1> HIDE DEF u
<1>3. Holding(u) = {q \in Pages : HasPage(u, q)}
  BY <1>1, HoldingIs DEF Conserved
<1>4. CASE p \in from .. to - 1
  <2>1. ~HasPage(u, p)
    BY <1>1, <1>3, <1>4
  <2> QED
    BY <1>4, <2>1, HeldNowhere DEF u
<1>5. CASE p \notin from .. to - 1
  <2>1. HasPage(s, p) <=> HasPage(u, p)
    BY <1>1, <1>2, <1>3, <1>5
  <2>2. Agree(s, u, p)
    BY <1>1, <1>5, <2>1, AgreeFrom
  <2> QED
    BY <1>5, <2>2 DEF u
<1> QED
  BY <1>4, <1>5
-----------------------------------------------------------------------------
(* The pages and cells of the address space.                               *)

Cells == FirstCell .. EndCell - 1
Unmapped == [prot |-> {}, max |-> {}, mapped |-> FALSE]
Mapped(prot, max) == [prot |-> prot, max |-> max, mapped |-> TRUE]
CellOf(s, c) == BlockOf(s, PageOf(c))[c % PageCells]

LEMMA CellIs ==
    ASSUME NEW c \in Cells
    PROVE  c \in Nat /\ PageOf(c) \in Pages /\ c % PageCells \in 0 .. PageCells - 1
<1>1. FirstPage \in Nat /\ LastPage \in Nat /\ PageCells \in Nat /\ PageCells > 0 /\ LastPage + 1 \in Nat
  BY NumbersAre
<1>2. FirstCell \in Nat /\ EndCell \in Nat
  BY <1>1 DEF FirstCell, EndCell
<1>3. c \in Nat /\ FirstCell <= c /\ c < EndCell
  BY <1>2 DEF Cells
<1>4. PageOf(c) \in Nat /\ FirstPage <= PageOf(c) /\ PageOf(c) < LastPage + 1
  BY <1>1, <1>3, PageOfIs, PageOfOrder DEF FirstCell, EndCell
<1>5. PageOf(c) \in Pages
  BY <1>1, <1>4 DEF Pages
<1>6. c % PageCells \in 0 .. PageCells - 1
  BY <1>1, <1>3
<1> QED
  BY <1>3, <1>5, <1>6

LEMMA ByteIs ==
    ASSUME NEW s, NEW c \in Cells
    PROVE  ByteAt(s, c) = CellOf(s, c)
<1>1. c % PageCells \in 0 .. PageCells - 1
  BY CellIs
<1>2. CASE HasPage(s, PageOf(c))
  BY <1>2, Zenon DEF HasPage, ByteAt, CellOf, BlockOf, EntryOf
<1>3. CASE ~HasPage(s, PageOf(c))
  <2>1. ByteAt(s, c) = 0
    BY <1>3 DEF HasPage, ByteAt
  <2> QED
    BY <1>1, <1>3, <2>1 DEF CellOf, BlockOf, Zero
<1> QED
  BY <1>2, <1>3

\* A page's protections are those its region has.
PermAgrees ==
    \A p \in Pages :
        /\ \A x, y : Maps(regions, p, x, y) => PermOf(p) = Mapped(x, y)
        /\ (\A x, y : ~Maps(regions, p, x, y)) => PermOf(p) = Unmapped

LEMMA PermIs == RegionInv => PermAgrees
<1> SUFFICES ASSUME RegionInv, NEW p \in Pages
             PROVE  /\ \A x, y : Maps(regions, p, x, y) => PermOf(p) = Mapped(x, y)
                    /\ (\A x, y : ~Maps(regions, p, x, y)) => PermOf(p) = Unmapped
  BY DEF PermAgrees
<1> DEFINE at == {i \in DOMAIN regions : p \in regions[i].start .. regions[i].end - 1}
<1>1. Canonical(regions) /\ p \in Nat
  BY NumbersAre DEF RegionInv
<1>2. \A i \in DOMAIN regions : i \in at <=> Inside(regions[i], p)
  <2> SUFFICES ASSUME NEW i \in DOMAIN regions PROVE i \in at <=> Inside(regions[i], p)
    OBVIOUS
  <2>1. regions[i].start \in Nat /\ regions[i].end \in Nat
    BY <1>1, RegionFacts
  <2> QED
    BY <1>1, <2>1 DEF Inside
<1>3. PermOf(p) = IF at = {} THEN Unmapped ELSE Mapped(regions[Min(at)].prot, regions[Min(at)].max)
  BY Zenon DEF PermOf, Unmapped, Mapped
<1>4. at \subseteq DOMAIN regions
  OBVIOUS
<1> HIDE DEF at
<1>5. ASSUME NEW i \in DOMAIN regions, Inside(regions[i], p)
      PROVE  PermOf(p) = Mapped(regions[i].prot, regions[i].max)
  <2>1. at = {i}
    BY <1>1, <1>2, <1>4, <1>5, OneRegion
  <2>2. i \in Nat
    BY <1>1, RegionFacts
  <2>3. Min({i}) = i
    BY <2>2, MinOf
  <2> QED
    BY <1>3, <2>1, <2>3
<1>6. ASSUME NEW x, NEW y, Maps(regions, p, x, y) PROVE PermOf(p) = Mapped(x, y)
  BY <1>5, <1>6 DEF Maps, Has, Inside
<1>7. ASSUME \A x, y : ~Maps(regions, p, x, y) PROVE PermOf(p) = Unmapped
  <2>1. \A i \in DOMAIN regions : ~Inside(regions[i], p)
    BY <1>7, MapsMapped
  <2>2. at = {}
    BY <1>2, <1>4, <2>1
  <2> QED
    BY <1>3, <2>2
<1> QED
  BY <1>6, <1>7

LEMMA PermIsNext == RegionInv' => PermAgrees'
BY PermIs, PTL

\* change gives the pages of its range their protections, the others keep theirs.
NewPerm(op, prot, max, p) ==
    IF op = "map" THEN Mapped(prot, max)
    ELSE IF op = "protect" THEN Mapped(prot, PermOf(p).max) ELSE Unmapped

LEMMA ChangedPerm ==
    ASSUME RegionInv, RegionInv', NEW op, NEW a, NEW end, NEW prot, NEW max, Carried(op, a, end, prot, max),
           op = "protect" => \A p \in a .. end - 1 : MappedPage(p), NEW p \in Pages
    PROVE  PermOf(p)' = IF p \in a .. end - 1 THEN NewPerm(op, prot, max, p) ELSE PermOf(p)
<1>1. Canonical(regions) /\ p \in Nat /\ p \in Int
  BY NumbersAre DEF RegionInv
<1>2. Asked(op, a, end, prot, max) /\ regions' = Rebuilt(op, a, end, prot, max)
  BY DEF Carried
<1>3. a \in Nat /\ end \in Nat /\ op \in {"map", "unmap", "protect"}
  BY <1>2 DEF Asked
<1>4. \A x, y : Maps(regions', p, x, y) <=> MapsAfter(op, a, end, prot, max, p, x, y)
  BY <1>1, <1>2, RebuiltIs
<1>5. /\ \A x, y : Maps(regions, p, x, y) => PermOf(p) = Mapped(x, y)
      /\ (\A x, y : ~Maps(regions, p, x, y)) => PermOf(p) = Unmapped
  BY PermIs DEF PermAgrees
<1>6. /\ \A x, y : Maps(regions', p, x, y) => PermOf(p)' = Mapped(x, y)
      /\ (\A x, y : ~Maps(regions', p, x, y)) => PermOf(p)' = Unmapped
  <2>1. PermAgrees'
    BY PermIsNext
  <2> QED
    BY <2>1 DEF PermAgrees, Maps, Has
<1>7. p \in a .. end - 1 <=> a <= p /\ p < end
  BY <1>1, <1>3
<1>8. CASE p \notin a .. end - 1
  <2>1. \A x, y : Maps(regions', p, x, y) <=> Maps(regions, p, x, y)
    BY <1>4, <1>7, <1>8 DEF MapsAfter
  <2>2. CASE \E x, y : Maps(regions, p, x, y)
    BY <1>5, <1>6, <1>8, <2>1, <2>2
  <2>3. CASE \A x, y : ~Maps(regions, p, x, y)
    BY <1>5, <1>6, <1>8, <2>1, <2>3
  <2> QED
    BY <2>2, <2>3
<1>9. CASE p \in a .. end - 1 /\ op = "map"
  <2>1. Maps(regions', p, prot, max)
    BY <1>4, <1>7, <1>9 DEF MapsAfter
  <2> QED
    BY <1>6, <1>9, <2>1 DEF NewPerm
<1>10. CASE p \in a .. end - 1 /\ op = "unmap"
  <2>1. \A x, y : ~Maps(regions', p, x, y)
    BY <1>4, <1>7, <1>10 DEF MapsAfter
  <2> QED
    BY <1>6, <1>10, <2>1 DEF NewPerm
<1>11. CASE p \in a .. end - 1 /\ op = "protect"
  <2>1. PICK i \in DOMAIN regions : Inside(regions[i], p)
    BY <1>11 DEF MappedPage
  <2>2. PermOf(p) = Mapped(regions[i].prot, regions[i].max)
    BY <1>5, <2>1 DEF Maps, Has, Inside
  <2>3. Maps(regions', p, prot, regions[i].max)
    BY <1>4, <1>7, <1>11, <2>1 DEF MapsAfter
  <2> QED
    BY <1>6, <1>11, <2>2, <2>3 DEF NewPerm, Mapped
<1> QED
  BY <1>3, <1>8, <1>9, <1>10, <1>11
\* What a page allows.
LEMMA AllowedIs ==
    ASSUME RegionInv, NEW p \in Pages, NEW need
    PROVE  /\ MappedPage(p) <=> PermOf(p).mapped
           /\ GoodPage(p, need) <=> PermOf(p).mapped /\ need \subseteq PermOf(p).prot
<1>1. /\ \A x, y : Maps(regions, p, x, y) => PermOf(p) = Mapped(x, y)
      /\ (\A x, y : ~Maps(regions, p, x, y)) => PermOf(p) = Unmapped
  BY PermIs DEF PermAgrees
<1>2. ASSUME NEW i \in DOMAIN regions, Inside(regions[i], p) PROVE PermOf(p) = Mapped(regions[i].prot, regions[i].max)
  BY <1>1, <1>2 DEF Maps, Has, Inside
<1>3. CASE \E i \in DOMAIN regions : Inside(regions[i], p)
  <2>1. PICK i \in DOMAIN regions : Inside(regions[i], p)
    BY <1>3
  <2>2. PermOf(p).mapped = TRUE /\ PermOf(p).prot = regions[i].prot
    BY <1>2, <2>1 DEF Mapped
  <2>3. p \in Int /\ Canonical(regions)
    BY NumbersAre DEF RegionInv
  <2>4. \A j \in DOMAIN regions : Inside(regions[j], p) => j = i
    BY <2>1, <2>3, OneRegion
  <2>5. MappedPage(p)
    BY <2>1 DEF MappedPage
  <2>6. GoodPage(p, need) <=> need \subseteq regions[i].prot
    BY <2>1, <2>4 DEF GoodPage
  <2> QED
    BY <2>2, <2>5, <2>6
<1>4. CASE ~\E i \in DOMAIN regions : Inside(regions[i], p)
  <2>1. PermOf(p) = Unmapped
    BY <1>1, <1>4, MapsMapped
  <2>2. PermOf(p).mapped = FALSE
    BY <2>1 DEF Unmapped
  <2>3. ~MappedPage(p) /\ ~GoodPage(p, need)
    BY <1>4 DEF MappedPage, GoodPage
  <2> QED
    BY <2>2, <2>3
<1> QED
  BY <1>3, <1>4

LEMMA PagesOfSpan ==
    ASSUME NEW a \in Nat, NEW n \in Nat, n # 0, FirstCell <= a, a + n <= EndCell
    PROVE  {PageOf(c) : c \in a .. a + n - 1} = PageOf(a) .. PageOf(a + n - 1)
<1> DEFINE z == a + n - 1
<1>1. z \in Nat /\ a <= z /\ a + n - 1 = z
  OBVIOUS
<1> HIDE DEF z
<1>2. PageOf(a) \in Nat /\ PageOf(z) \in Nat /\ PageCells \in Nat /\ PageCells > 0
  BY <1>1, PageOfIs, NumbersAre
<1>3. ASSUME NEW c \in a .. z PROVE PageOf(c) \in PageOf(a) .. PageOf(z)
  <2>1. c \in Nat /\ a <= c /\ c <= z
    BY <1>1
  <2>2. PageOf(c) \in Nat /\ PageOf(c) * PageCells <= c /\ PageOf(a) * PageCells <= a
    BY <2>1, PageOfIs
  <2>3. PageOf(c) * PageCells \in Nat /\ PageOf(a) * PageCells \in Nat
    BY <1>2, <2>2
  <2>4. PageOf(c) * PageCells <= z /\ PageOf(a) * PageCells <= c
    BY <1>1, <2>1, <2>2, <2>3
  <2>5. PageOf(c) <= PageOf(z) /\ PageOf(a) <= PageOf(c)
    BY <1>1, <1>2, <2>1, <2>2, <2>4, PageOfOrder
  <2> QED
    BY <1>2, <2>2, <2>5
<1>4. ASSUME NEW p \in PageOf(a) .. PageOf(z) PROVE \E c \in a .. z : p = PageOf(c)
  <2>1. p \in Nat /\ PageOf(a) <= p /\ p <= PageOf(z)
    BY <1>2
  <2>2. CASE p = PageOf(a)
    BY <1>1, <2>2
  <2>3. CASE p # PageOf(a)
    <3> DEFINE c == p * PageCells
    <3>1. c \in Nat /\ p + 1 \in Nat /\ c < (p + 1) * PageCells
      BY <1>2, <2>1
    <3> HIDE DEF c
    <3>2. ~(c <= a) /\ ~(z < c)
      BY <1>1, <1>2, <2>1, <2>3, PageOfOrder DEF c
    <3>3. p <= PageOf(c) /\ PageOf(c) < p + 1 /\ PageOf(c) \in Nat
      BY <2>1, <3>1, PageOfIs, PageOfOrder DEF c
    <3>4. c \in a .. z /\ p = PageOf(c)
      BY <1>1, <2>1, <3>1, <3>2, <3>3
    <3> QED
      BY <3>4
  <2> QED
    BY <2>2, <2>3
<1> QED
  BY <1>1, <1>3, <1>4

\* An access is allowed in the regions when it is in the address space.
LEMMA AccessIs ==
    ASSUME RegionInv, NEW a \in Nat, NEW n \in Nat, FirstCell <= a, a + n <= EndCell, NEW need
    PROVE  AddressSpace!Access(a, n, need) = CheckAccess(a, n, need)
<1> DEFINE span == {PageOf(c) : c \in a .. a + n - 1}
           bad == {p \in span : ~PermOf(p).mapped \/ ~(need \subseteq PermOf(p).prot)}
<1>1. CASE n = 0
  <2>1. CheckAccess(a, n, need) = "OK"
    BY <1>1 DEF CheckAccess
  <2>2. a .. a + n - 1 = {}
    BY <1>1
  <2>3. AddressSpace!Access(a, n, need) = "OK"
    BY <2>2 DEF AddressSpace!Access, AddressSpace!Span
  <2> QED
    BY <2>1, <2>3
<1>2. CASE n # 0
  <2> DEFINE from == PageOf(a)
             end == PageOf(a + n - 1) + 1
             result == CheckAccess(a, n, need)
  <2>1. /\ from \in Nat /\ end \in Nat /\ span = from .. end - 1 /\ span \subseteq Pages
        /\ from .. end - 1 = PageOf(a) .. PageOf(a + n - 1)
    <3>1. PageOf(a) \in Nat /\ PageOf(a + n - 1) \in Nat /\ PageOf(a) .. PageOf(a + n - 1) \subseteq Pages
      BY <1>2, SpanPages
    <3>2. span = PageOf(a) .. PageOf(a + n - 1)
      BY <1>2, PagesOfSpan
    <3> QED
      BY <3>1, <3>2
  <2>2. Verdict(from, end, need, result)
    BY <1>2, CheckAccessIs DEF RegionInv
  <2> HIDE DEF from, end, result, span
  <2>3. AddressSpace!Access(a, n, need) =
            IF bad = {} THEN "OK" ELSE IF PermOf(Min(bad)).mapped THEN "PROTECTION" ELSE "UNMAPPED"
    <3>1. bad \subseteq Pages
      BY <2>1
    <3>2. bad # {} => Min(bad) \in Pages
      <4>1. Pages \subseteq Nat
        BY NumbersAre
      <4> HIDE DEF bad
      <4> QED
        BY <3>1, <4>1, MinOf
    <3>3. bad = {p \in span : \/ ~[q \in Pages |-> PermOf(q)][p].mapped
                              \/ ~(need \subseteq [q \in Pages |-> PermOf(q)][p].prot)}
      BY <2>1
    <3> HIDE DEF bad
    <3>4. AddressSpace!Access(a, n, need) =
            IF bad = {} THEN "OK" ELSE IF [q \in Pages |-> PermOf(q)][Min(bad)].mapped THEN "PROTECTION" ELSE "UNMAPPED"
      BY <3>3, Zenon DEF AddressSpace!Access, AddressSpace!Span, AddressSpace!PageOf, PageOf, AddressSpace!Pages, Pages,
                  AddressSpace!Min, Min, span
    <3> QED
      BY <3>2, <3>4
  <2>4. \A p \in span : p \in bad <=> ~GoodPage(p, need)
    BY <2>1, AllowedIs
  <2>5. \A p \in span : MappedPage(p) <=> PermOf(p).mapped
    BY <2>1, AllowedIs
  <2>6. bad \subseteq span
    OBVIOUS
  <2> HIDE DEF bad
  <2>7. CASE result = "OK" /\ \A p \in from .. end - 1 : GoodPage(p, need)
    <3>1. bad = {}
      BY <2>1, <2>4, <2>6, <2>7
    <3> QED
      BY <2>3, <2>7, <3>1 DEF result
  <2>8. ASSUME NEW c \in from .. end - 1, \A p \in from .. c - 1 : GoodPage(p, need),
               \/ result = "UNMAPPED" /\ ~MappedPage(c)
               \/ result = "PROTECTION" /\ MappedPage(c) /\ ~GoodPage(c, need)
        PROVE  AddressSpace!Access(a, n, need) = result
    <3>1. c \in bad
      <4>1. MappedPage(c) \/ ~GoodPage(c, need)
        BY DEF MappedPage, GoodPage
      <4> QED
        BY <2>1, <2>4, <2>8, <4>1
    <3>2. bad \in SUBSET Nat /\ c \in Nat
      BY <2>1, <2>6
    <3>3. Min(bad) \in bad /\ Min(bad) <= c /\ Min(bad) \in Nat
      BY <3>1, <3>2, MinOf
    <3>3a. Min(bad) \in span /\ from <= Min(bad)
      BY <2>1, <2>6, <3>3
    <3>4. ~(Min(bad) < c)
      <4> SUFFICES ASSUME Min(bad) < c PROVE FALSE
        OBVIOUS
      <4>1. Min(bad) \in from .. c - 1
        BY <2>1, <3>2, <3>3, <3>3a
      <4> QED
        BY <2>4, <2>8, <3>3, <3>3a, <4>1
    <3>5. Min(bad) = c
      BY <3>2, <3>3, <3>4
    <3>6. MappedPage(c) <=> PermOf(c).mapped
      BY <2>5, <2>6, <3>1
    <3> QED
      BY <2>3, <2>8, <3>1, <3>5, <3>6
  <2> QED
    BY <2>2, <2>7, <2>8 DEF Verdict, result
<1> QED
  BY <1>1, <1>2

\* The bytes of a span.
LEMMA ContentsAre ==
    ASSUME NEW a \in Nat, NEW n \in Nat, FirstCell <= a, a + n <= EndCell
    PROVE  AddressSpace!Contents(a, n) = Contents(a, n)
<1>1. ASSUME NEW i \in 1 .. n PROVE a + i - 1 \in Cells
  <2>1. FirstCell \in Nat /\ EndCell \in Nat
    BY NumbersAre DEF FirstCell, EndCell
  <2> QED
    BY <2>1 DEF Cells
<1>2. \A i \in 1 .. n : [c \in Cells |-> ByteAt(store, c)][a + i - 1] = ByteAt(store, a + i - 1)
  BY <1>1
<1>3. AddressSpace!Contents(a, n) = [i \in 1 .. n |-> [c \in Cells |-> ByteAt(store, c)][a + i - 1]]
  BY DEF AddressSpace!Contents, Cells
<1> QED
  BY <1>2, <1>3 DEF Contents
-----------------------------------------------------------------------------
(* What the loops over the pages leave in them.                            *)

\* A page holds in u what it held in s with the bytes stored.
Wrote(s, u, p, a, bytes) ==
    BlockOf(u, p) = StoredBlock(BlockOf(s, p), p, a, bytes) /\ GenerationOf(u, p) = generation + 1

LEMMA BackedContents ==
    ASSUME Conserved(store), generation \in Nat, NEW a, NEW n, Accessible(a, n)
    PROVE  \A p \in Pages : Agree(store, Backed(a, n), p)
<1> DEFINE P == Touched(a, n)
           m == PageCount(a, n)
           page(k) == PageOf(a) + k - 1
           f == CHOOSE f : Backings(a, n, f)
           Fine(k) == Conserved(f[k]) /\ Roomy(f[k], P) /\ \A p \in Pages : Agree(store, f[k], p)
           N == {k \in Nat : k <= m => Fine(k)}
           bytes == [i \in 1 .. n |-> 0]
<1>1. a \in Nat /\ n \in Nat /\ n # 0 /\ FirstCell <= a /\ a + n <= EndCell /\ Roomy(store, P)
  BY AccessibleIs
<1>2. P \in SUBSET Pages /\ m \in Nat /\ \A k \in 1 .. m : page(k) \in P
  BY <1>1, SpanPages
<1>3. bytes \in Seq(Byte) /\ Len(bytes) = n
  <2>1. 0 \in Byte
    BY SpaceAssumption DEF Byte
  <2> QED
    BY <1>1, <2>1
<1>4. Backings(a, n, f)
  <2> HIDE DEF bytes
  <2> QED
    BY <1>3, WritingExists DEF Conserved
<1>5. Backed(a, n) = f[m]
  BY DEF Backed, Backings
<1> HIDE DEF f
<1>6. \A k \in 0 .. m : f[k] = IF k = 0 THEN store ELSE Back(f[k - 1], page(k))
  BY <1>4, Zenon DEF Backings
<1> HIDE DEF P, m, page
<1>7. 0 \in N
  <2>1. f[0] = store
    BY <1>2, <1>6
  <2> QED
    BY <1>1, <2>1 DEF Agree
<1>8. ASSUME NEW k \in Nat, k \in N PROVE k + 1 \in N
  <2> SUFFICES ASSUME k + 1 <= m PROVE Fine(k + 1)
    OBVIOUS
  <2>1. Fine(k) /\ k + 1 \in 0 .. m /\ k + 1 \in 1 .. m /\ (k + 1) - 1 = k
    BY <1>2, <1>8
  <2>2. page(k + 1) \in P /\ f[k + 1] = Back(f[k], page(k + 1))
    BY <1>2, <1>6, <2>1
  <2>3. Conserved(f[k + 1]) /\ Roomy(f[k + 1], P)
    BY <1>2, <2>1, <2>2, BackIsSound
  <2>4. \A p \in Pages : Agree(f[k], f[k + 1], p)
    BY <1>2, <2>1, <2>2, BackAgrees
  <2> QED
    BY <2>1, <2>3, <2>4 DEF Agree
<1>9. Nat \subseteq N
  <2> HIDE DEF N
  <2> QED
    BY <1>7, <1>8, SetInduction
<1>10. m \in N
  <2> HIDE DEF N
  <2> QED
    BY <1>2, <1>9
<1>11. Fine(m)
  <2> HIDE DEF Fine
  <2> QED
    BY <1>2, <1>10
<1> QED
  BY <1>5, <1>11

LEMMA WrittenContents ==
    ASSUME Conserved(store), generation \in Nat, NEW a, NEW bytes \in Seq(Byte), Accessible(a, Len(bytes))
    PROVE  \A p \in Pages : IF p \in Touched(a, Len(bytes)) THEN Wrote(store, Written(a, bytes), p, a, bytes)
                            ELSE Agree(store, Written(a, bytes), p)
<1> DEFINE n == Len(bytes)
           P == Touched(a, n)
           m == PageCount(a, n)
           first == PageOf(a)
           f == CHOOSE f : Writings(a, bytes, f)
           Fine(k) == /\ Conserved(f[k]) /\ Roomy(f[k], P)
                      /\ \A p \in Pages : IF first <= p /\ p < first + k THEN Wrote(store, f[k], p, a, bytes)
                                          ELSE Agree(store, f[k], p)
           N == {k \in Nat : k <= m => Fine(k)}
<1>1. a \in Nat /\ n \in Nat /\ n # 0 /\ FirstCell <= a /\ a + n <= EndCell /\ Roomy(store, P)
  BY AccessibleIs
<1>2. /\ P \in SUBSET Pages /\ m \in Nat /\ first \in Nat /\ \A k \in 1 .. m : first + k - 1 \in P
      /\ \A p \in Pages : p \in P <=> first <= p /\ p < first + m
  <2>1. P \in SUBSET Pages /\ m \in Nat /\ \A k \in 1 .. m : first + k - 1 \in P
    BY <1>1, SpanPages
  <2>2. PageOf(a) \in Nat /\ PageOf(a + n - 1) \in Nat /\ P = PageOf(a) .. PageOf(a + n - 1)
    BY <1>1, SpanPages
  <2>3. m = PageOf(a + n - 1) - PageOf(a) + 1
    BY DEF PageCount
  <2>4. \A p \in Nat : p \in P <=> first <= p /\ p < first + m
    BY <2>2, <2>3
  <2> QED
    BY <2>1, <2>2, <2>4, NumbersAre
<1>4. Writings(a, bytes, f)
  BY WritingExists DEF Conserved
<1>5. Written(a, bytes) = f[m]
  BY DEF Written, Writings
<1> HIDE DEF f
<1>6. \A k \in 0 .. m : f[k] = IF k = 0 THEN store ELSE Store(Back(f[k - 1], first + k - 1), first + k - 1, a, bytes)
  BY <1>4, Zenon DEF Writings
<1> HIDE DEF P, m, first, n
<1>7. 0 \in N
  <2>1. f[0] = store
    BY <1>2, <1>6
  <2>2. ASSUME NEW p \in Pages PROVE ~(first <= p /\ p < first + 0)
    BY <1>2, NumbersAre
  <2> QED
    BY <1>1, <2>1, <2>2 DEF Agree
<1>8. ASSUME NEW k \in Nat, k \in N PROVE k + 1 \in N
  <2> SUFFICES ASSUME k + 1 <= m PROVE Fine(k + 1)
    OBVIOUS
  <2> DEFINE q == first + (k + 1) - 1
             u == Back(f[k], q)
  <2>1. Fine(k) /\ k + 1 \in 0 .. m /\ k + 1 \in 1 .. m /\ (k + 1) - 1 = k /\ q = first + k
    BY <1>2, <1>8
  <2>2. q \in P /\ q \in Pages /\ f[k + 1] = Store(u, q, a, bytes)
    <3>1. k + 1 # 0
      OBVIOUS
    <3>2. f[k + 1] = Store(Back(f[(k + 1) - 1], q), q, a, bytes)
      BY <1>6, <2>1, <3>1
    <3>3. q \in P
      BY <1>2, <2>1
    <3> HIDE DEF q
    <3>4. f[k + 1] = Store(Back(f[k], q), q, a, bytes)
      BY <2>1, <3>2
    <3> QED
      BY <1>2, <3>3, <3>4
  <2>3. Conserved(u) /\ Roomy(u, P) /\ Holding(u) = Holding(f[k]) \cup {q}
    BY <1>2, <2>1, <2>2, BackIsSound
  <2>4. \A p \in Pages : Agree(f[k], u, p)
    BY <1>2, <2>1, <2>2, BackAgrees
  <2>5. HasPage(u, q)
    BY <2>2, <2>3, HoldingIs DEF Conserved
  <2> HIDE DEF u
  <2>6. Conserved(f[k + 1]) /\ Roomy(f[k + 1], P)
    BY <1>1, <1>2, <2>2, <2>3, StoreIsSound
  <2>7. /\ BlockOf(f[k + 1], q) = StoredBlock(BlockOf(u, q), q, a, bytes) /\ GenerationOf(f[k + 1], q) = generation + 1
        /\ \A p \in Pages : p # q => Agree(u, f[k + 1], p)
    BY <1>1, <2>2, <2>3, <2>5, StoreContents
  <2>8. ASSUME NEW p \in Pages
        PROVE  IF first <= p /\ p < first + (k + 1) THEN Wrote(store, f[k + 1], p, a, bytes) ELSE Agree(store, f[k + 1], p)
    <3>1. p \in Nat
      BY NumbersAre
    <3>2. CASE p = q
      <4>1. first <= p /\ p < first + (k + 1) /\ ~(p < first + k)
        BY <1>2, <2>1, <3>1, <3>2
      <4>2. Agree(store, f[k], p)
        BY <2>1, <4>1
      <4>3. BlockOf(u, p) = BlockOf(store, p)
        BY <2>4, <4>2 DEF Agree
      <4>4. Wrote(store, f[k + 1], p, a, bytes)
        BY <2>7, <3>2, <4>3 DEF Wrote
      <4> QED
        BY <4>1, <4>4
    <3>3. CASE p # q
      <4>1. first <= p /\ p < first + (k + 1) <=> first <= p /\ p < first + k
        BY <1>2, <2>1, <3>1, <3>3
      <4>2. IF first <= p /\ p < first + k THEN Wrote(store, f[k], p, a, bytes) ELSE Agree(store, f[k], p)
        BY <2>1
      <4>3. Agree(f[k], u, p) /\ Agree(u, f[k + 1], p)
        BY <2>4, <2>7, <3>3
      <4>4. Agree(f[k], f[k + 1], p)
        BY <4>3 DEF Agree
      <4> QED
        BY <4>1, <4>2, <4>4 DEF Agree, Wrote
    <3> QED
      BY <3>2, <3>3
  <2> QED
    BY <2>6, <2>8
<1>9. Nat \subseteq N
  <2> HIDE DEF N
  <2> QED
    BY <1>7, <1>8, SetInduction
<1>10. m \in N
  <2> HIDE DEF N
  <2> QED
    BY <1>2, <1>9
<1>11. Fine(m)
  <2> HIDE DEF Fine
  <2> QED
    BY <1>2, <1>10
<1> HIDE DEF N
<1> QED
  BY <1>2, <1>5, <1>11 DEF P, n
-----------------------------------------------------------------------------
(* The monitors.                                                           *)

Monitors == [address : Nat, size : Nat, generation : Nat, mapping : Nat, valid : BOOLEAN]

\* A monitor that was set covers cells of one page, and saw no generation of the future.
Linked(m, g, mg) ==
    /\ FirstCell <= m.address /\ m.address + m.size <= EndCell /\ m.size > 0
    /\ PageOf(m.address + m.size - 1) = PageOf(m.address)
    /\ m.generation <= g /\ m.mapping <= mg

MonitorInv ==
    /\ mappingGeneration \in Nat
    /\ \A p \in Pages : GenerationOf(store, p) <= generation
    /\ monitor \in [Threads -> Monitors]
    /\ \A t \in Threads : monitor[t].valid => Linked(monitor[t], generation, mappingGeneration)

SpaceInv == TableInv /\ MonitorInv

\* What a load-exclusive leaves in the monitor.
Loaded(a, n) ==
    [address |-> a, size |-> n, generation |-> PageGeneration(a), mapping |-> mappingGeneration, valid |-> TRUE]

\* An aligned span does not cross a page.
LEMMA AlignedIs ==
    ASSUME NEW s \in Aligned
    PROVE  /\ s[1] \in Nat /\ s[2] \in Nat /\ s[2] > 0 /\ FirstCell <= s[1] /\ s[1] + s[2] <= EndCell
           /\ PageOf(s[1] + s[2] - 1) = PageOf(s[1])
<1> DEFINE a == s[1]
           n == s[2]
           i == a \div n
           j == PageCells \div n
           q == PageOf(a)
           x == (q + 1) * j
<1>1. a \in Nat /\ n \in Nat /\ FirstCell <= a /\ a + n <= EndCell
  BY SpanIs
<1>2. n \in Granules /\ a % n = 0
  BY DEF Aligned
<1>3. n > 0 /\ PageCells % n = 0 /\ PageCells \in Nat
  BY <1>1, <1>2, GranuleAssumption, NumbersAre
<1> HIDE DEF a, n
<1>4. a = n * i /\ i \in Nat
  BY <1>1, <1>2, <1>3
<1>5. PageCells = n * j /\ j \in Nat
  BY <1>1, <1>3
<1>6. q \in Nat /\ a < (q + 1) * PageCells
  BY <1>1, PageOfIs
<1> HIDE DEF i, j, q, x
<1>7. PageOf(a) <= PageOf(a + n - 1) /\ PageOf(a + n - 1) \in Nat /\ a + n - 1 \in Nat
  <2>1. n # 0
    BY <1>3
  <2> QED
    BY <1>1, <2>1, SpanPages
<1>8. x \in Nat /\ (q + 1) * PageCells = n * x
  <2>1. x \in Nat
    BY <1>5, <1>6 DEF x
  <2>2. (q + 1) * (n * j) = n * ((q + 1) * j)
    BY <1>1, <1>5, <1>6
  <2> QED
    BY <1>5, <2>1, <2>2 DEF x
<1>9. i < x
  <2> SUFFICES ASSUME x <= i PROVE FALSE
    BY <1>4, <1>8
  <2>1. n * x <= n * i
    BY <1>1, <1>4, <1>8
  <2>2. n * x \in Nat /\ n * i \in Nat
    BY <1>1, <1>4, <1>8
  <2> QED
    BY <1>4, <1>6, <1>8, <2>1, <2>2
<1>10. n * (i + 1) <= n * x
  <2>1. i + 1 <= x /\ i + 1 \in Nat
    BY <1>4, <1>8, <1>9
  <2> QED
    BY <1>1, <1>8, <2>1
<1>11. a + n <= (q + 1) * PageCells
  <2>1. n * (i + 1) = n * i + n
    BY <1>1, <1>4
  <2> QED
    BY <1>4, <1>8, <1>10, <2>1
<1>12. (q + 1) * PageCells \in Nat /\ q + 1 \in Nat
  BY <1>3, <1>6
<1>13. a + n - 1 < (q + 1) * PageCells
  BY <1>1, <1>11, <1>12
<1>14. PageOf(a + n - 1) < q + 1
  BY <1>7, <1>12, <1>13, PageOfOrder
<1>15. PageOf(a + n - 1) = q
  BY <1>6, <1>7, <1>14 DEF q
<1> QED
  BY <1>1, <1>3, <1>15 DEF a, n, q

LEMMA GenerationIs ==
    ASSUME NEW s, Conserved(s), NEW p \in Pages
    PROVE  GenerationOf(s, p) \in Nat
<1>1. CASE HasPage(s, p)
  <2>1. PICK j \in Slots : s.table[j].address = p /\ Held(s, p, j)
    BY <1>1, HeldSomewhere
  <2> QED
    BY <2>1 DEF Held
<1>2. CASE ~HasPage(s, p)
  BY <1>2, HeldNowhere
<1> QED
  BY <1>1, <1>2

LEMMA PageGenerationIs == \A c : PageGeneration(c) = GenerationOf(store, PageOf(c))
BY Zenon DEF PageGeneration, GenerationOf, HasPage, EntryOf

\* What a step does to the monitors.
Loads == Stays /\ \E t \in Threads, s \in Aligned : monitor' = [monitor EXCEPT ![t] = Loaded(s[1], s[2])]
Spends == \E t \in Threads : Spent(t)

LEMMA MonitorMoves == ASSUME [Next]_vars PROVE UNCHANGED monitor \/ Spends \/ Loads
<1>1. CASE UNCHANGED vars
  BY <1>1 DEF vars
<1>2. CASE Mapping
  BY <1>2 DEF Mapping, Map, Unmap, Protect, FindFree, Rebuild, Refuse, Yield
<1>3. CASE Accessing
  BY <1>3 DEF Accessing, Read, Write, Prepare, Refuse, Yield
<1>4. CASE AccessingAtomically
  <2>1. PICK s \in Aligned :
        \/ \E new \in Bytes(s[2]) : Atomic(s[1], new)
        \/ \E expected, desired \in Bytes(s[2]) : CompareExchange(s[1], expected, desired)
        \/ \E t \in Threads : \/ LoadExclusive(t, s[1], s[2])
                              \/ \E bytes \in Bytes(s[2]) : StoreExclusive(t, s[1], bytes)
    BY <1>4 DEF AccessingAtomically
  <2>2. ASSUME NEW new, Atomic(s[1], new) PROVE UNCHANGED monitor
    BY <2>2 DEF Atomic, Replace, Refuse
  <2>3. ASSUME NEW expected, NEW desired, CompareExchange(s[1], expected, desired) PROVE UNCHANGED monitor
    BY <2>3 DEF CompareExchange, Replace, Refuse, Yield
  <2>4. ASSUME NEW t \in Threads, LoadExclusive(t, s[1], s[2]) PROVE UNCHANGED monitor \/ Loads
    BY <2>4 DEF LoadExclusive, Refuse, Loads, Loaded, Stays
  <2>5. ASSUME NEW t \in Threads, NEW bytes, StoreExclusive(t, s[1], bytes) PROVE UNCHANGED monitor \/ Spends
    BY <2>5 DEF StoreExclusive, Refuse, Spends
  <2> QED
    BY <2>1, <2>2, <2>3, <2>4, <2>5
<1> QED
  BY <1>1, <1>2, <1>3, <1>4 DEF Next
\* In the beginning nothing is resident.
LEMMA InitPages == ASSUME Init PROVE \A p \in Pages : BlockOf(store, p) = Zero /\ GenerationOf(store, p) = 0
<1> SUFFICES ASSUME NEW p \in Pages PROVE BlockOf(store, p) = Zero /\ GenerationOf(store, p) = 0
  OBVIOUS
<1>1. store \in Stores /\ Placed(store.table)
  BY InitTable DEF TableInv, Conserved
<1>2. \A slot \in Slots : store.table[slot].address = 0
  BY DEF Init, Empty
<1>3. Holding(store) = {}
  BY <1>2, NumbersAre DEF Holding, LiveSlots
<1>4. ~HasPage(store, p)
  BY <1>1, <1>3, HoldingIs
<1> QED
  BY <1>4, HeldNowhere

LEMMA InitSpace == Init => SpaceInv
<1> SUFFICES ASSUME Init PROVE SpaceInv
  OBVIOUS
<1>1. TableInv
  BY InitTable
<1>2. mappingGeneration \in Nat /\ \A p \in Pages : GenerationOf(store, p) <= generation
  <2>1. mappingGeneration = 0 /\ generation = 0
    BY DEF Init
  <2> QED
    BY <2>1, InitPages
<1>3. NoMonitor \in Monitors /\ NoMonitor.valid = FALSE
  BY DEF NoMonitor, Monitors
<1>4. monitor = [t \in Threads |-> NoMonitor]
  BY DEF Init
<1> HIDE DEF Init
<1>5. monitor \in [Threads -> Monitors] /\ \A t \in Threads : monitor[t].valid = FALSE
  BY <1>3, <1>4
<1> QED
  BY <1>1, <1>2, <1>5 DEF SpaceInv, MonitorInv

\* The generations only grow, and no page is ahead of them.
LEMMA GenerationsGrow ==
    ASSUME SpaceInv, [Next]_vars
    PROVE  /\ generation \in Nat /\ generation' \in Nat /\ generation <= generation'
           /\ mappingGeneration \in Nat /\ mappingGeneration' \in Nat /\ mappingGeneration <= mappingGeneration'
           /\ \A p \in Pages : GenerationOf(store', p) <= generation'
<1>1. /\ generation \in Nat /\ mappingGeneration \in Nat /\ Conserved(store) /\ Canonical(regions)
      /\ \A p \in Pages : GenerationOf(store, p) <= generation /\ GenerationOf(store, p) \in Nat
  BY GenerationIs DEF SpaceInv, TableInv, MonitorInv, RegionInv
<1>2. CASE Stays
  BY <1>1, <1>2 DEF Stays
<1>3. CASE Changes
  <2>1. PICK op, a, end, prot, max : Carried(op, a, end, prot, max)
    BY <1>3 DEF Changes
  <2>2. /\ Asked(op, a, end, prot, max) /\ generation' = generation /\ mappingGeneration' = mappingGeneration + 1
        /\ store' = store \/ store' = Discard(store, a, end)
    BY <2>1 DEF Carried
  <2>3. a \in Nat /\ end \in Nat /\ FirstPage <= a /\ end <= LastPage + 1
    BY <2>2 DEF Asked
  <2>4. ASSUME NEW p \in Pages PROVE GenerationOf(store', p) <= generation
    <3>1. CASE store' = store
      BY <1>1, <3>1
    <3>2. CASE store' = Discard(store, a, end)
      <4>1. GenerationOf(store', p) = 0 \/ GenerationOf(store', p) = GenerationOf(store, p)
        BY <1>1, <2>3, <3>2, DiscardContents DEF Agree
      <4> QED
        BY <1>1, <4>1
    <3> QED
      BY <2>2, <3>1, <3>2
  <2> QED
    BY <1>1, <2>2, <2>4
<1>4. CASE Backs
  <2>1. PICK a, n : Accessible(a, n) /\ store' = Backed(a, n)
    BY <1>4 DEF Backs
  <2>2. \A p \in Pages : Agree(store, store', p)
    BY <1>1, <2>1, BackedContents
  <2> QED
    BY <1>1, <1>4, <2>2 DEF Agree, Backs
<1>5. CASE Writes
  <2>1. PICK a, bytes : bytes \in Seq(Byte) /\ Accessible(a, Len(bytes)) /\ store' = Written(a, bytes)
    BY <1>5 DEF Writes
  <2>2. generation' = generation + 1 /\ mappingGeneration' = mappingGeneration
    BY <1>5 DEF Writes
  <2>3. ASSUME NEW p \in Pages PROVE GenerationOf(store', p) <= generation + 1
    <3>1. IF p \in Touched(a, Len(bytes)) THEN Wrote(store, store', p, a, bytes) ELSE Agree(store, store', p)
      BY <1>1, <2>1, WrittenContents
    <3>2. GenerationOf(store', p) = generation + 1 \/ GenerationOf(store', p) = GenerationOf(store, p)
      BY <3>1 DEF Wrote, Agree
    <3> QED
      BY <1>1, <3>2
  <2> QED
    BY <1>1, <2>2, <2>3
<1> QED
  BY <1>2, <1>3, <1>4, <1>5, StepIs

LEMMA LoadedIs ==
    ASSUME SpaceInv, NEW s \in Aligned
    PROVE  /\ Loaded(s[1], s[2]) \in Monitors /\ Loaded(s[1], s[2]).valid = TRUE
           /\ Linked(Loaded(s[1], s[2]), generation, mappingGeneration)
<1> DEFINE m == Loaded(s[1], s[2])
<1>1. /\ s[1] \in Nat /\ s[2] \in Nat /\ s[2] > 0 /\ FirstCell <= s[1] /\ s[1] + s[2] <= EndCell
      /\ PageOf(s[1] + s[2] - 1) = PageOf(s[1])
  BY AlignedIs
<1>2. PageOf(s[1]) \in Pages
  <2>1. s[2] # 0
    BY <1>1
  <2> QED
    BY <1>1, <2>1, SpanPages, NumbersAre DEF Pages
<1>3. mappingGeneration \in Nat /\ PageGeneration(s[1]) \in Nat /\ PageGeneration(s[1]) <= generation
  BY <1>2, GenerationIs, PageGenerationIs DEF SpaceInv, MonitorInv, TableInv
<1>4. /\ m.address = s[1] /\ m.size = s[2] /\ m.generation = PageGeneration(s[1]) /\ m.mapping = mappingGeneration
      /\ m.valid = TRUE
  BY DEF Loaded
<1>5. m \in Monitors
  BY <1>1, <1>3 DEF Monitors, Loaded
<1> HIDE DEF m
<1>6. Linked(m, generation, mappingGeneration)
  BY <1>1, <1>3, <1>4 DEF Linked
<1> QED
  BY <1>4, <1>5, <1>6 DEF m

LEMMA NextSpace == SpaceInv /\ [Next]_vars => SpaceInv'
<1> SUFFICES ASSUME SpaceInv, [Next]_vars PROVE SpaceInv'
  OBVIOUS
<1>1. TableInv'
  BY NextTable DEF SpaceInv
<1>2. /\ generation \in Nat /\ generation' \in Nat /\ generation <= generation'
      /\ mappingGeneration \in Nat /\ mappingGeneration' \in Nat /\ mappingGeneration <= mappingGeneration'
      /\ \A p \in Pages : GenerationOf(store', p) <= generation'
  BY GenerationsGrow
<1> DEFINE Was(m) == Linked(m, generation, mappingGeneration)
           Is(m) == Linked(m, generation', mappingGeneration')
<1>3. monitor \in [Threads -> Monitors] /\ \A t \in Threads : monitor[t].valid => Was(monitor[t])
  BY DEF SpaceInv, MonitorInv
<1>4. \A m \in Monitors : Was(m) => Is(m)
  <2> SUFFICES ASSUME NEW m \in Monitors, Was(m) PROVE Is(m)
    OBVIOUS
  <2>1. m.generation \in Nat /\ m.mapping \in Nat
    BY DEF Monitors
  <2>2. m.generation <= generation' /\ m.mapping <= mappingGeneration'
    BY <1>2, <2>1 DEF Linked
  <2> QED
    BY <2>2 DEF Linked
<1> HIDE DEF Was, Is
<1>5. monitor' \in [Threads -> Monitors] /\ \A t \in Threads : monitor'[t].valid => Is(monitor'[t])
  <2>1. CASE UNCHANGED monitor
    BY <1>3, <1>4, <2>1
  <2>2. ASSUME NEW t \in Threads, NEW m \in Monitors, monitor' = [monitor EXCEPT ![t] = m], m.valid => Was(m)
        PROVE  monitor' \in [Threads -> Monitors] /\ \A u \in Threads : monitor'[u].valid => Is(monitor'[u])
    <3>1. monitor' \in [Threads -> Monitors]
      BY <1>3, <2>2
    <3>2. \A u \in Threads : monitor[u] \in Monitors /\ monitor'[u] = IF u = t THEN m ELSE monitor[u]
      BY <1>3, <2>2
    <3> QED
      BY <1>3, <1>4, <2>2, <3>1, <3>2
  <2>3. CASE Spends
    <3>1. PICK t \in Threads : monitor' = [monitor EXCEPT ![t] = NoMonitor]
      BY <2>3 DEF Spends, Spent
    <3>2. NoMonitor \in Monitors /\ NoMonitor.valid = FALSE
      BY DEF NoMonitor, Monitors
    <3> QED
      BY <2>2, <3>1, <3>2
  <2>4. CASE Loads
    <3>1. PICK t \in Threads, s \in Aligned : monitor' = [monitor EXCEPT ![t] = Loaded(s[1], s[2])]
      BY <2>4 DEF Loads
    <3>2. Loaded(s[1], s[2]) \in Monitors /\ Was(Loaded(s[1], s[2]))
      BY LoadedIs DEF Was
    <3> QED
      BY <2>2, <3>1, <3>2
  <2> QED
    BY <2>1, <2>3, <2>4, MonitorMoves
<1>6. (\A p \in Pages : GenerationOf(store, p) <= generation)'
  BY <1>2
<1>7. MonitorInv'
  BY <1>2, <1>5, <1>6 DEF MonitorInv, Is
<1> QED
  BY <1>1, <1>7 DEF SpaceInv
-----------------------------------------------------------------------------
(* The links of the address space.                                         *)

LinkOf(t) == IF Holds(t) THEN monitor[t].address .. monitor[t].address + monitor[t].size - 1 ELSE {}
LinkBy(m, s, mg) ==
    IF m.valid /\ m.mapping = mg /\ m.generation = GenerationOf(s, PageOf(m.address))
    THEN m.address .. m.address + m.size - 1 ELSE {}

LEMMA LinkIs == \A t \in Threads : LinkOf(t) = LinkBy(monitor[t], store, mappingGeneration)
BY PageGenerationIs, Zenon DEF LinkOf, LinkBy, Holds

LEMMA LinkIsNext == \A t \in Threads : LinkOf(t)' = LinkBy(monitor'[t], store', mappingGeneration')
<1>1. (\A t \in Threads : LinkOf(t) = LinkBy(monitor[t], store, mappingGeneration))'
  BY LinkIs, PTL
<1> QED
  BY <1>1

\* A link's cells are in the space, in the page its monitor watches.
LEMMA LinkFacts ==
    ASSUME SpaceInv, NEW t \in Threads, monitor[t].valid
    PROVE  LET m == monitor[t]
           IN  /\ m \in Monitors /\ PageOf(m.address) \in Pages
               /\ m.generation \in Nat /\ m.generation <= generation
               /\ m.mapping \in Nat /\ m.mapping <= mappingGeneration
               /\ \A c \in m.address .. m.address + m.size - 1 : PageOf(c) = PageOf(m.address)
<1> DEFINE m == monitor[t]
           a == m.address
           n == m.size
<1>1. m \in Monitors /\ Linked(m, generation, mappingGeneration)
  BY DEF SpaceInv, MonitorInv
<1>2. a \in Nat /\ n \in Nat /\ m.generation \in Nat /\ m.mapping \in Nat
  BY <1>1 DEF Monitors
<1>3. /\ FirstCell <= a /\ a + n <= EndCell /\ n > 0 /\ n # 0 /\ PageOf(a + n - 1) = PageOf(a)
      /\ m.generation <= generation /\ m.mapping <= mappingGeneration
  BY <1>1, <1>2 DEF Linked
<1> HIDE DEF a, n, m
<1>4. PageOf(a) \in Nat /\ PageOf(a) .. PageOf(a + n - 1) \subseteq Pages
  <2>1. a \in Nat /\ n \in Nat /\ n # 0 /\ FirstCell <= a /\ a + n <= EndCell
    BY <1>2, <1>3
  <2>2. Touched(a, n) = PageOf(a) .. PageOf(a + n - 1) /\ Touched(a, n) \subseteq Pages
    BY <2>1, SpanPages
  <2> QED
    BY <2>1, <2>2, PageOfIs
<1>5. {PageOf(c) : c \in a .. a + n - 1} = PageOf(a) .. PageOf(a + n - 1)
  BY <1>2, <1>3, PagesOfSpan
<1>6. PageOf(a) .. PageOf(a + n - 1) = {PageOf(a)}
  BY <1>3, <1>4
<1> QED
  BY <1>1, <1>2, <1>3, <1>4, <1>5, <1>6 DEF a, n, m

LEMMA LinkKept ==
    ASSUME SpaceInv, NEW t \in Threads, monitor'[t] = monitor[t], mappingGeneration' = mappingGeneration,
           \A p \in Pages : GenerationOf(store', p) = GenerationOf(store, p)
    PROVE  LinkOf(t)' = LinkOf(t)
<1>1. CASE ~monitor[t].valid
  BY <1>1, LinkIs, LinkIsNext DEF LinkBy
<1>2. CASE monitor[t].valid
  BY <1>2, LinkIs, LinkIsNext, LinkFacts DEF LinkBy
<1> QED
  BY <1>1, <1>2

\* A change of the regions breaks every link.
LEMMA LinkRemapped ==
    ASSUME SpaceInv, NEW t \in Threads, monitor'[t] = monitor[t], mappingGeneration' = mappingGeneration + 1
    PROVE  LinkOf(t)' = {}
<1>1. CASE ~monitor[t].valid
  BY <1>1, LinkIsNext DEF LinkBy
<1>2. CASE monitor[t].valid
  <2>1. monitor[t].mapping \in Nat /\ monitor[t].mapping <= mappingGeneration /\ mappingGeneration \in Nat
    BY <1>2, LinkFacts DEF SpaceInv, MonitorInv
  <2>2. monitor[t].mapping # mappingGeneration'
    BY <2>1
  <2> QED
    BY <2>2, LinkIsNext DEF LinkBy
<1> QED
  BY <1>1, <1>2

\* A write breaks the links of its pages.
LEMMA LinkWritten ==
    ASSUME SpaceInv, NEW t \in Threads, monitor'[t] = monitor[t], mappingGeneration' = mappingGeneration,
           NEW a, NEW bytes \in Seq(Byte), Accessible(a, Len(bytes)), store' = Written(a, bytes)
    PROVE  /\ LinkOf(t)' \in {LinkOf(t), {}}
           /\ LinkOf(t) \cap (a .. a + Len(bytes) - 1) # {} => LinkOf(t)' = {}
<1>1. CASE ~monitor[t].valid
  BY <1>1, LinkIsNext DEF LinkBy
<1>2. CASE monitor[t].valid
  <2> DEFINE m == monitor[t]
             p == PageOf(m.address)
             n == Len(bytes)
             cells == m.address .. m.address + m.size - 1
  <2>1. p \in Pages /\ m.generation \in Nat /\ m.generation <= generation /\ generation \in Nat /\ \A c \in cells : PageOf(c) = p
    BY <1>2, LinkFacts DEF SpaceInv, TableInv
  <2>2. Conserved(store)
    BY DEF SpaceInv, TableInv
  <2>3. IF p \in Touched(a, n) THEN Wrote(store, store', p, a, bytes) ELSE Agree(store, store', p)
    BY <2>1, <2>2, WrittenContents
  <2>4. a \in Nat /\ n \in Nat /\ n # 0 /\ FirstCell <= a /\ a + n <= EndCell
    BY AccessibleIs
  <2>5. /\ LinkOf(t) = IF m.mapping = mappingGeneration /\ m.generation = GenerationOf(store, p) THEN cells ELSE {}
        /\ LinkOf(t)' = IF m.mapping = mappingGeneration /\ m.generation = GenerationOf(store', p) THEN cells ELSE {}
    BY <1>2, LinkIs, LinkIsNext DEF LinkBy
  <2> HIDE DEF m, p, n, cells
  <2>6. Touched(a, n) = {PageOf(c) : c \in a .. a + n - 1}
    <3>1. Touched(a, n) = PageOf(a) .. PageOf(a + n - 1)
      BY <2>4, SpanPages
    <3>2. {PageOf(c) : c \in a .. a + n - 1} = PageOf(a) .. PageOf(a + n - 1)
      BY <2>4, PagesOfSpan
    <3> QED
      BY <3>1, <3>2
  <2>7. CASE p \in Touched(a, n)
    <3>1. GenerationOf(store', p) = generation + 1
      BY <2>3, <2>7 DEF Wrote
    <3>2. m.generation # GenerationOf(store', p)
      BY <2>1, <3>1
    <3> QED
      BY <2>5, <3>2
  <2>8. CASE p \notin Touched(a, n)
    <3>1. LinkOf(t)' = LinkOf(t)
      BY <2>3, <2>5, <2>8 DEF Agree
    <3>2. cells \cap (a .. a + n - 1) = {}
      BY <2>1, <2>6, <2>8
    <3> QED
      BY <2>5, <3>1, <3>2 DEF n
  <2> QED
    BY <2>7, <2>8
<1> QED
  BY <1>1, <1>2

LEMMA LinkSpent ==
    ASSUME NEW t \in Threads, monitor'[t] = NoMonitor
    PROVE  LinkOf(t)' = {}
BY LinkIsNext DEF LinkBy, NoMonitor

LEMMA LinksBreak ==
    ASSUME NEW C, \A t \in Threads : LinkOf(t)' \in {LinkOf(t), {}} /\ (LinkOf(t) \cap C # {} => LinkOf(t)' = {})
    PROVE  AddressSpace!Breaking(C)
<1> DEFINE broken == {t \in Threads : LinkOf(t)' = {}}
           link == [t \in Threads |-> LinkOf(t)]
<1>1. broken \in SUBSET Threads
  OBVIOUS
<1>2. {t \in Threads : link[t] \cap C # {}} \subseteq broken
  OBVIOUS
<1>3. [t \in Threads |-> LinkOf(t)'] = [t \in Threads |-> IF t \in broken THEN {} ELSE link[t]]
  OBVIOUS
<1> HIDE DEF broken
<1>4. /\ {t \in Threads : [u \in Threads |-> LinkOf(u)][t] \cap C # {}} \subseteq broken
      /\ [t \in Threads |-> LinkOf(t)]' = [t \in Threads |-> IF t \in broken THEN {} ELSE [u \in Threads |-> LinkOf(u)][t]]
  BY <1>2, <1>3
<1> QED
  BY <1>1, <1>4 DEF AddressSpace!Breaking, LinkOf
-----------------------------------------------------------------------------
(* The steps of the address space.                                         *)

SpacePerm == [p \in Pages |-> PermOf(p)]
SpaceData == [c \in Cells |-> ByteAt(store, c)]
SpaceLink == [t \in Threads |-> LinkOf(t)]

LEMMA PermKept == regions' = regions => SpacePerm' = SpacePerm
BY DEF SpacePerm, PermOf
LEMMA DataKept == store' = store => SpaceData' = SpaceData
BY DEF SpaceData
LEMMA LinkIsKept == UNCHANGED <<store, mappingGeneration, monitor>> => SpaceLink' = SpaceLink
BY DEF SpaceLink, LinkOf, Holds, PageGeneration

LEMMA SpaceKept ==
    /\ regions' = regions => [p \in Pages |-> PermOf(p)]' = [p \in Pages |-> PermOf(p)]
    /\ store' = store => [c \in FirstCell .. EndCell - 1 |-> ByteAt(store, c)]' = [c \in FirstCell .. EndCell - 1 |-> ByteAt(store, c)]
    /\ UNCHANGED <<store, mappingGeneration, monitor>> =>
         [t \in Threads |-> IF Holds(t) THEN monitor[t].address .. monitor[t].address + monitor[t].size - 1 ELSE {}]'
           = [t \in Threads |-> IF Holds(t) THEN monitor[t].address .. monitor[t].address + monitor[t].size - 1 ELSE {}]
BY PermKept, DataKept, LinkIsKept DEF SpacePerm, SpaceData, SpaceLink, LinkOf, Cells

LEMMA RefuseIs == ASSUME NEW op, NEW r, Refuse(op, r) PROVE AddressSpace!Refuses(op, r)
BY SpaceKept DEF Refuse, AddressSpace!Refuses

LEMMA YieldIs == ASSUME NEW op, NEW value, Yield(op, value) PROVE AddressSpace!Yields(op, value)
BY SpaceKept DEF Yield, AddressSpace!Yields

\* A cell's place in its page.
LEMMA CellParts ==
    ASSUME NEW c \in Cells
    PROVE  PageOf(c) * PageCells + (c % PageCells) = c
<1> DEFINE q == c \div PageCells
           i == c % PageCells
<1>1. c \in Nat /\ PageCells \in Nat /\ PageCells > 0
  BY CellIs, NumbersAre
<1>2. q \in Nat /\ i \in Nat
  BY <1>1
<1>3. c = PageCells * q + i
  BY <1>1
<1> HIDE DEF q, i
<1>4. PageCells * q = q * PageCells
  BY <1>1, <1>2
<1> QED
  BY <1>3, <1>4 DEF PageOf, q, i

LEMMA WrittenCells ==
    ASSUME SpaceInv, NEW a, NEW bytes \in Seq(Byte), Accessible(a, Len(bytes)), NEW c \in Cells
    PROVE  ByteAt(Written(a, bytes), c)
             = IF c \in a .. a + Len(bytes) - 1 THEN bytes[c - a + 1] ELSE ByteAt(store, c)
<1> DEFINE n == Len(bytes)
           p == PageOf(c)
           i == c % PageCells
           u == Written(a, bytes)
<1>1. c \in Nat /\ p \in Pages /\ i \in 0 .. PageCells - 1 /\ p * PageCells + i = c /\ PageCells \in Nat /\ p \in Nat
  <2>1. p \in Pages /\ p * PageCells + i = c /\ c \in Nat /\ i \in 0 .. PageCells - 1
    BY CellIs, CellParts
  <2> QED
    BY <2>1, NumbersAre
<1>2. a \in Nat /\ n \in Nat /\ n # 0 /\ FirstCell <= a /\ a + n <= EndCell
  BY AccessibleIs
<1>3. IF p \in Touched(a, n) THEN Wrote(store, u, p, a, bytes) ELSE Agree(store, u, p)
  BY <1>1, WrittenContents DEF SpaceInv, TableInv
<1>4. ByteAt(u, c) = BlockOf(u, p)[i] /\ ByteAt(store, c) = BlockOf(store, p)[i]
  BY ByteIs DEF CellOf
<1>5. DOMAIN bytes = 1 .. n
  OBVIOUS
<1>6. c \in a .. a + n - 1 => p \in Touched(a, n)
  <2> HIDE DEF n
  <2>1. Touched(a, n) = PageOf(a) .. PageOf(a + n - 1)
    BY <1>2, SpanPages
  <2>2. {PageOf(x) : x \in a .. a + n - 1} = PageOf(a) .. PageOf(a + n - 1)
    BY <1>2, PagesOfSpan
  <2> QED
    BY <2>1, <2>2
<1> HIDE DEF n, p, i, u
<1>7. c \in a .. a + n - 1 <=> c - a + 1 \in DOMAIN bytes
  BY <1>1, <1>2, <1>5
<1>8. CASE p \in Touched(a, n)
  <2>1. BlockOf(u, p) = StoredBlock(BlockOf(store, p), p, a, bytes)
    BY <1>3, <1>8 DEF Wrote
  <2>2. p * PageCells + i - a + 1 = c - a + 1
    BY <1>1, <1>2
  <2>3. StoredBlock(BlockOf(store, p), p, a, bytes)[i]
          = IF c - a + 1 \in DOMAIN bytes THEN bytes[c - a + 1] ELSE BlockOf(store, p)[i]
    BY <1>1, <2>2 DEF StoredBlock
  <2> QED
    BY <1>4, <1>7, <2>1, <2>3 DEF n, u
<1>9. CASE p \notin Touched(a, n)
  BY <1>3, <1>4, <1>6, <1>9 DEF Agree, n, u
<1> QED
  BY <1>8, <1>9

\* Bytes are committed: the cells of the span take them, and links to them break.
LEMMA CommitStores ==
    ASSUME SpaceInv, NEW a \in Nat, NEW bytes \in Seq(Byte), NEW r, Commit(a, bytes, r),
           FirstCell <= a, a + Len(bytes) <= EndCell, WriteResult(a, Len(bytes)) = "OK",
           \A t \in Threads : monitor'[t] \in {monitor[t], NoMonitor}
    PROVE  AddressSpace!Stores(a, bytes) /\ reply' = r
<1> DEFINE n == Len(bytes)
           C == a .. a + n - 1
<1>1. reply' = r /\ regions' = regions /\ mappingGeneration' = mappingGeneration /\ n \in Nat
  BY DEF Commit
<1>2. CASE bytes = <<>>
  <2>1. n = 0 /\ C = {}
    BY <1>2
  <2>2. store' = store
    BY <1>2 DEF Commit
  <2>3. \A c \in Cells : ByteAt(store, c)' = IF c \in C THEN bytes[c - a + 1] ELSE ByteAt(store, c)
    BY <2>1, <2>2
  <2>4. \A t \in Threads : LinkOf(t)' \in {LinkOf(t), {}} /\ (LinkOf(t) \cap C # {} => LinkOf(t)' = {})
    BY <1>1, <2>1, <2>2, LinkKept, LinkSpent
  <2>5. AddressSpace!Breaking(C)
    BY <2>4, LinksBreak
  <2> QED
    BY <1>1, <2>3, <2>5, SpaceKept DEF AddressSpace!Stores, AddressSpace!Span, Cells, AddressSpace!Cells, FirstCell, EndCell
<1>3. CASE bytes # <<>>
  <2>1. n # 0 /\ Accessible(a, n)
    BY <1>1, <1>3, MayBeWritten DEF Accessible
  <2>2. store' = Written(a, bytes)
    BY <1>3 DEF Commit
  <2>3. \A c \in Cells : ByteAt(store, c)' = IF c \in C THEN bytes[c - a + 1] ELSE ByteAt(store, c)
    BY <2>1, <2>2, WrittenCells
  <2>4. \A t \in Threads : LinkOf(t)' \in {LinkOf(t), {}} /\ (LinkOf(t) \cap C # {} => LinkOf(t)' = {})
    BY <1>1, <2>1, <2>2, LinkWritten, LinkSpent
  <2>5. AddressSpace!Breaking(C)
    BY <2>4, LinksBreak
  <2> QED
    BY <1>1, <2>3, <2>5, SpaceKept DEF AddressSpace!Stores, AddressSpace!Span, Cells, AddressSpace!Cells, FirstCell, EndCell
<1> QED
  BY <1>2, <1>3
-----------------------------------------------------------------------------
(* Mapping.                                                                *)

LEMMA ChangedCells ==
    ASSUME SpaceInv, NEW op, NEW a, NEW end, NEW prot, NEW max, Carried(op, a, end, prot, max), NEW c \in Cells
    PROVE  ByteAt(store, c)' = IF PageOf(c) \in a .. end - 1 /\ op # "protect" THEN 0 ELSE ByteAt(store, c)
<1> DEFINE p == PageOf(c)
           i == c % PageCells
<1>1. p \in Pages /\ i \in 0 .. PageCells - 1
  BY CellIs
<1>2. Asked(op, a, end, prot, max) /\ store' = IF op = "protect" \/ store.resident = 0 THEN store ELSE Discard(store, a, end)
  BY DEF Carried
<1>3. a \in Nat /\ end \in Nat /\ FirstPage <= a /\ end <= LastPage + 1
  BY <1>2 DEF Asked
<1>4. Conserved(store)
  BY DEF SpaceInv, TableInv
<1>5. ByteAt(store, c)' = ByteAt(store', c)
  OBVIOUS
<1>6. ByteAt(store', c) = BlockOf(store', p)[i] /\ ByteAt(store, c) = BlockOf(store, p)[i] /\ Zero[i] = 0
  BY <1>1, ByteIs DEF CellOf, Zero
<1> HIDE DEF p, i
<1>7. CASE op = "protect"
  BY <1>2, <1>5, <1>7
<1>8. CASE op # "protect" /\ store.resident = 0
  <2>1. LiveSlots(store.table) = {}
    BY <1>4, <1>8, SlotsAreFinite, FS_EmptySet DEF Conserved
  <2>2. Holding(store) = {}
    BY <2>1 DEF Holding
  <2>3. ~HasPage(store, p)
    BY <1>1, <1>4, <2>2, HoldingIs DEF Conserved
  <2>4. ByteAt(store, c) = 0
    BY <1>6, <2>3, HeldNowhere
  <2> QED
    BY <1>2, <1>5, <1>8, <2>4
<1>9. CASE op # "protect" /\ store.resident # 0
  <2>1. store' = Discard(store, a, end)
    BY <1>2, <1>9
  <2>2. IF p \in a .. end - 1 THEN BlockOf(store', p) = Zero ELSE Agree(store, store', p)
    BY <1>1, <1>3, <1>4, <2>1, DiscardContents
  <2> QED
    BY <1>5, <1>6, <1>9, <2>2 DEF Agree, p
<1> QED
  BY <1>7, <1>8, <1>9

LEMMA RemapIs ==
    ASSUME SpaceInv, SpaceInv', NEW op, NEW a, NEW end, NEW prot, NEW max, Carried(op, a, end, prot, max),
           monitor' = monitor, reply' = <<op, "OK">>, op = "protect" => \A p \in a .. end - 1 : MappedPage(p),
           NEW new, \A p \in a .. end - 1 : new[p] = NewPerm(op, prot, max, p)
    PROVE  AddressSpace!Remap(op, a .. end - 1, new, op = "protect")
<1> DEFINE P == a .. end - 1
           kept == op = "protect"
<1>1. \A p \in Pages : PermOf(p)' = IF p \in P THEN new[p] ELSE PermOf(p)
  BY ChangedPerm DEF SpaceInv, TableInv
<1>2. \A c \in Cells : ByteAt(store, c)' = IF PageOf(c) \in P /\ ~kept THEN 0 ELSE ByteAt(store, c)
  BY ChangedCells
<1>3. \A t \in Threads : LinkOf(t)' = {}
  BY LinkRemapped DEF Carried
<1>4. \A C : AddressSpace!Breaking(C)
  BY <1>3, LinksBreak
<1> HIDE DEF P, kept
<1>5. [p \in Pages |-> PermOf(p)]' = [p \in Pages |-> IF p \in P THEN new[p] ELSE [q \in Pages |-> PermOf(q)][p]]
  BY <1>1
<1>6. [c \in Cells |-> ByteAt(store, c)]'
        = [c \in Cells |-> IF PageOf(c) \in P /\ ~kept THEN 0 ELSE [x \in Cells |-> ByteAt(store, x)][c]]
  BY <1>2
<1>7. AddressSpace!Remap(op, P, new, kept)
  BY <1>4, <1>5, <1>6 DEF AddressSpace!Remap, AddressSpace!Pages, Pages, AddressSpace!Cells, Cells, FirstCell, EndCell,
     AddressSpace!PageOf, PageOf
<1> QED
  BY <1>7 DEF P, kept

\* A range meets a region when one of its pages is mapped.
LEMMA MeetingIs ==
    ASSUME RegionInv, NEW a \in Nat, NEW end \in Nat, FirstPage <= a, a < end, end <= LastPage + 1
    PROVE  /\ a .. end - 1 \subseteq Pages
           /\ \A i \in Meeting(a, end) : \E p \in a .. end - 1 : i \in DOMAIN regions /\ Inside(regions[i], p)
           /\ \A p \in a .. end - 1 : \A i \in DOMAIN regions : Inside(regions[i], p) => i \in Meeting(a, end)
<1>1. a .. end - 1 \subseteq Pages
  BY NumbersAre DEF Pages
<1>2. ASSUME NEW i \in Meeting(a, end) PROVE \E p \in a .. end - 1 : i \in DOMAIN regions /\ Inside(regions[i], p)
  <2> DEFINE p == IF regions[i].start > a THEN regions[i].start ELSE a
  <2>1. i \in DOMAIN regions /\ regions[i].end > a /\ regions[i].start < end
    BY DEF Meeting
  <2>2. regions[i].start \in Nat /\ regions[i].end \in Nat /\ regions[i].start < regions[i].end
    BY <2>1, RegionFacts DEF RegionInv
  <2>3. p \in a .. end - 1 /\ Inside(regions[i], p)
    BY <2>1, <2>2 DEF Inside
  <2> QED
    BY <2>1, <2>3
<1>3. ASSUME NEW p \in a .. end - 1, NEW i \in DOMAIN regions, Inside(regions[i], p) PROVE i \in Meeting(a, end)
  <2>1. regions[i].start \in Nat /\ regions[i].end \in Nat
    BY RegionFacts DEF RegionInv
  <2> QED
    BY <1>3, <2>1 DEF Inside, Meeting
<1> QED
  BY <1>1, <1>2, <1>3

LEMMA MeetingPages ==
    ASSUME RegionInv, NEW a \in Nat, NEW end \in Nat, FirstPage <= a, a < end, end <= LastPage + 1, NEW prot
    PROVE  /\ Meeting(a, end) = {} <=> \A p \in a .. end - 1 : ~PermOf(p).mapped
           /\ Covered(a, end) <=> \A p \in a .. end - 1 : PermOf(p).mapped
           /\ Covered(a, end) => \A p \in a .. end - 1 : MappedPage(p)
           /\ Covered(a, end) =>
                 ((\A i \in Meeting(a, end) : prot \subseteq regions[i].max) <=> \A p \in a .. end - 1 : prot \subseteq PermOf(p).max)
<1> DEFINE P == a .. end - 1
<1>1. /\ P \subseteq Pages
      /\ \A i \in Meeting(a, end) : \E p \in P : i \in DOMAIN regions /\ Inside(regions[i], p)
      /\ \A p \in P : \A i \in DOMAIN regions : Inside(regions[i], p) => i \in Meeting(a, end)
  BY MeetingIs
<1>2. \A p \in P : MappedPage(p) <=> PermOf(p).mapped
  BY <1>1, AllowedIs
<1>3. Covered(a, end) <=> \A p \in P : \E i \in Meeting(a, end) : Inside(regions[i], p)
  BY DEF Covered, Inside
<1> HIDE DEF P
<1>4. Covered(a, end) <=> \A p \in P : MappedPage(p)
  BY <1>1, <1>3 DEF MappedPage
<1>5. Meeting(a, end) = {} <=> \A p \in P : ~MappedPage(p)
  BY <1>1 DEF MappedPage
<1>6. ASSUME NEW p \in P, NEW i \in DOMAIN regions, Inside(regions[i], p) PROVE PermOf(p).max = regions[i].max
  <2>1. p \in Pages /\ Maps(regions, p, regions[i].prot, regions[i].max)
    BY <1>1, <1>6 DEF Maps, Has, Inside
  <2>2. PermOf(p) = Mapped(regions[i].prot, regions[i].max)
    BY <2>1, PermIs DEF PermAgrees
  <2> QED
    BY <2>2 DEF Mapped
<1>7. ASSUME Covered(a, end)
      PROVE  (\A i \in Meeting(a, end) : prot \subseteq regions[i].max) <=> \A p \in P : prot \subseteq PermOf(p).max
  <2>1. ASSUME \A i \in Meeting(a, end) : prot \subseteq regions[i].max, NEW p \in P PROVE prot \subseteq PermOf(p).max
    <3>1. PICK i \in DOMAIN regions : Inside(regions[i], p)
      BY <1>4, <1>7 DEF MappedPage
    <3>2. i \in Meeting(a, end) /\ PermOf(p).max = regions[i].max
      BY <1>1, <1>6, <3>1
    <3> QED
      BY <2>1, <3>2
  <2>2. ASSUME \A p \in P : prot \subseteq PermOf(p).max, NEW i \in Meeting(a, end) PROVE prot \subseteq regions[i].max
    <3>1. PICK p \in P : i \in DOMAIN regions /\ Inside(regions[i], p)
      BY <1>1
    <3>2. PermOf(p).max = regions[i].max
      BY <1>6, <3>1
    <3>3. prot \subseteq PermOf(p).max
      BY <2>2
    <3> QED
      BY <3>2, <3>3
  <2> QED
    BY <2>1, <2>2
<1> QED
  BY <1>2, <1>4, <1>5, <1>7 DEF P
LEMMA RebuildSteps ==
    ASSUME NEW op, NEW a, NEW end, NEW prot, NEW max, Asked(op, a, end, prot, max), Rebuild(op, a, end, prot, max)
    PROVE  Refuse(op, "NOMEM") \/ (Carried(op, a, end, prot, max) /\ monitor' = monitor /\ reply' = <<op, "OK">>)
BY Zenon DEF Rebuild, Carried

LEMMA RangeIs ==
    ASSUME NEW a \in Pages, NEW end \in Pages \cup {LastPage + 1}, a < end
    PROVE  /\ a \in Nat /\ end \in Nat /\ FirstPage <= a /\ end <= LastPage + 1
           /\ <<a, end - a>> \in AddressSpace!Ranges /\ a .. a + (end - a) - 1 = a .. end - 1
<1>1. a \in Nat /\ end \in Nat /\ FirstPage <= a /\ end <= LastPage + 1 /\ FirstPage \in Nat /\ LastPage \in Nat
  BY SpaceAssumption DEF Pages
<1>2. end - a \in 1 .. LastPage - FirstPage + 1 /\ a + (end - a) <= LastPage + 1 /\ a + (end - a) - 1 = end - 1
  BY <1>1
<1>3. <<a, end - a>> \in Pages \X (1 .. LastPage - FirstPage + 1)
  BY <1>2
<1> QED
  BY <1>1, <1>2, <1>3 DEF AddressSpace!Ranges, AddressSpace!Pages, Pages

\* A call on a range of pages is one of the address space.
LEMMA MappingStep ==
    ASSUME NEW a \in Pages, NEW end \in Pages \cup {LastPage + 1}, a < end,
           reply'[1] \in {"map", "unmap", "protect", "free"},
           \/ \E prot, max \in Protections, replace \in BOOLEAN : prot \subseteq max /\ AddressSpace!Map(a .. end - 1, prot, max, replace)
           \/ AddressSpace!Unmap(a .. end - 1)
           \/ \E prot \in Protections : AddressSpace!Protect(a .. end - 1, prot)
           \/ AddressSpace!FindFree(end - a)
    PROVE  AddressSpace!SpaceNext
<1> DEFINE s == <<a, end - a>>
           P == s[1] .. s[1] + s[2] - 1
<1>1. s \in AddressSpace!Ranges /\ P = a .. end - 1 /\ s[2] = end - a
  BY RangeIs
<1>2. \/ \E prot, max \in Protections, replace \in BOOLEAN : prot \subseteq max /\ AddressSpace!Map(P, prot, max, replace)
      \/ AddressSpace!Unmap(P)
      \/ \E prot \in Protections : AddressSpace!Protect(P, prot)
      \/ AddressSpace!FindFree(s[2])
  <2> HIDE DEF s, P
  <2> QED
    BY <1>1
<1> HIDE DEF s
<1> QED
  BY <1>1, <1>2, Zenon DEF AddressSpace!SpaceNext

LEMMA SpacePages == ASSUME NEW P \in SUBSET Pages PROVE \A p \in P : [q \in Pages |-> PermOf(q)][p] = PermOf(p)
OBVIOUS

LEMMA MapIs ==
    ASSUME SpaceInv, SpaceInv', NEW a \in Pages, NEW end \in Pages \cup {LastPage + 1}, a < end,
           NEW prot \in Protections, NEW max \in Protections, NEW replace \in BOOLEAN, prot \subseteq max,
           Map(a, end, prot, max, replace)
    PROVE  AddressSpace!Map(a .. end - 1, prot, max, replace) /\ reply'[1] = "map"
<1> DEFINE P == a .. end - 1
           new == [p \in P |-> Mapped(prot, max)]
           whole == Meeting(a, end) = {}
<1>1. a \in Nat /\ end \in Nat /\ FirstPage <= a /\ end <= LastPage + 1 /\ RegionInv
  BY RangeIs DEF SpaceInv, TableInv
<1>2. Asked("map", a, end, prot, max)
  BY <1>1 DEF Asked, Permissions
<1>3. P \subseteq Pages
  BY <1>1, MeetingIs
<1>4. whole <=> \A p \in P : ~PermOf(p).mapped
  BY <1>1, MeetingPages
<1>5. whole <=> \A p \in P : ~[q \in Pages |-> PermOf(q)][p].mapped
  BY <1>3, <1>4, SpacePages
<1> HIDE DEF P, whole
<1>6. CASE Refuse("map", "NOMEM")
  <2>1. AddressSpace!Refuses("map", "NOMEM") /\ reply'[1] = "map"
    BY <1>6, RefuseIs DEF Refuse
  <2> QED
    BY <2>1 DEF AddressSpace!Map, P
<1>7. CASE ~replace /\ ~whole /\ Refuse("map", "OVERLAP")
  <2>1. AddressSpace!Refuses("map", "OVERLAP") /\ reply'[1] = "map"
    BY <1>7, RefuseIs DEF Refuse
  <2>2. \E p \in P : [q \in Pages |-> PermOf(q)][p].mapped
    BY <1>5, <1>7
  <2> QED
    BY <1>7, <2>1, <2>2 DEF AddressSpace!Map, AddressSpace!Pages, Pages, P
<1>8. CASE (replace \/ whole) /\ Carried("map", a, end, prot, max) /\ monitor' = monitor /\ reply' = <<"map", "OK">>
  <2>1. \A p \in P : new[p] = NewPerm("map", prot, max, p)
    BY DEF NewPerm
  <2>2. AddressSpace!Remap("map", P, new, "map" = "protect")
    <3> HIDE DEF new
    <3> QED
      BY <1>8, <2>1, RemapIs DEF P
  <2>3. AddressSpace!Remap("map", P, new, FALSE)
    <3>1. ("map" = "protect") = FALSE
      OBVIOUS
    <3> QED
      BY <2>2, <3>1
  <2>4. replace \/ \A p \in P : ~[q \in Pages |-> PermOf(q)][p].mapped
    BY <1>5, <1>8
  <2> QED
    BY <1>8, <2>3, <2>4 DEF AddressSpace!Map, AddressSpace!Mapped, Mapped, AddressSpace!Pages, Pages, P
<1>9. CASE (replace \/ whole) /\ Rebuild("map", a, end, prot, max)
  BY <1>2, <1>6, <1>8, <1>9, RebuildSteps
<1> QED
  BY <1>7, <1>9 DEF Map, whole

LEMMA UnmapIs ==
    ASSUME SpaceInv, SpaceInv', NEW a \in Pages, NEW end \in Pages \cup {LastPage + 1}, a < end, Unmap(a, end)
    PROVE  AddressSpace!Unmap(a .. end - 1) /\ reply'[1] = "unmap"
<1> DEFINE P == a .. end - 1
           new == [p \in P |-> Unmapped]
<1>1. a \in Nat /\ end \in Nat /\ FirstPage <= a /\ end <= LastPage + 1
  BY RangeIs
<1>2. Asked("unmap", a, end, {}, {})
  BY <1>1 DEF Asked
<1>3. CASE Refuse("unmap", "NOMEM")
  <2>1. AddressSpace!Refuses("unmap", "NOMEM") /\ reply'[1] = "unmap"
    BY <1>3, RefuseIs DEF Refuse
  <2> QED
    BY <2>1 DEF AddressSpace!Unmap
<1>4. CASE Carried("unmap", a, end, {}, {}) /\ monitor' = monitor /\ reply' = <<"unmap", "OK">>
  <2>1. \A p \in P : new[p] = NewPerm("unmap", {}, {}, p)
    BY DEF NewPerm
  <2>2. AddressSpace!Remap("unmap", P, new, "unmap" = "protect")
    <3> HIDE DEF new
    <3> QED
      BY <1>4, <2>1, RemapIs
  <2>3. AddressSpace!Remap("unmap", P, new, FALSE)
    <3>1. ("unmap" = "protect") = FALSE
      OBVIOUS
    <3> QED
      BY <2>2, <3>1
  <2> QED
    BY <1>4, <2>3 DEF AddressSpace!Unmap, AddressSpace!Unmapped, Unmapped
<1> QED
  BY <1>2, <1>3, <1>4, RebuildSteps DEF Unmap

LEMMA ProtectIs ==
    ASSUME SpaceInv, SpaceInv', NEW a \in Pages, NEW end \in Pages \cup {LastPage + 1}, a < end,
           NEW prot \in Protections, Protect(a, end, prot)
    PROVE  AddressSpace!Protect(a .. end - 1, prot) /\ reply'[1] = "protect"
<1> DEFINE P == a .. end - 1
           new == [p \in P |-> Mapped(prot, PermOf(p).max)]
           allowed == \A i \in Meeting(a, end) : prot \subseteq regions[i].max
           perm == [q \in Pages |-> PermOf(q)]
<1>1. a \in Nat /\ end \in Nat /\ FirstPage <= a /\ end <= LastPage + 1 /\ RegionInv
  BY RangeIs DEF SpaceInv, TableInv
<1>2. P \subseteq Pages
  BY <1>1, MeetingIs
<1>3. /\ Covered(a, end) <=> \A p \in P : PermOf(p).mapped
      /\ Covered(a, end) => \A p \in P : MappedPage(p)
      /\ Covered(a, end) => (allowed <=> \A p \in P : prot \subseteq PermOf(p).max)
  BY <1>1, MeetingPages
<1>4. \A p \in P : perm[p] = PermOf(p)
  BY <1>2, SpacePages
<1> HIDE DEF P, perm
<1>5. /\ Covered(a, end) <=> \A p \in P : perm[p].mapped
      /\ Covered(a, end) => (allowed <=> \A p \in P : prot \subseteq perm[p].max)
  BY <1>3, <1>4
<1> HIDE DEF allowed
<1>6. CASE Refuse("protect", "NOMEM")
  <2>1. AddressSpace!Refuses("protect", "NOMEM") /\ reply'[1] = "protect"
    BY <1>6, RefuseIs DEF Refuse
  <2> QED
    BY <2>1 DEF AddressSpace!Protect
<1>7. CASE ~Covered(a, end) /\ Refuse("protect", "UNMAPPED")
  <2>1. AddressSpace!Refuses("protect", "UNMAPPED") /\ reply'[1] = "protect"
    BY <1>7, RefuseIs DEF Refuse
  <2>2. ~(\A p \in P : perm[p].mapped)
    BY <1>5, <1>7
  <2> QED
    BY <2>1, <2>2 DEF AddressSpace!Protect, AddressSpace!Pages, Pages, P, perm
<1>8. CASE Covered(a, end) /\ ~allowed /\ Refuse("protect", "PROTECTION")
  <2>1. AddressSpace!Refuses("protect", "PROTECTION") /\ reply'[1] = "protect"
    BY <1>8, RefuseIs DEF Refuse
  <2>2. (\A p \in P : perm[p].mapped) /\ ~(\A p \in P : prot \subseteq perm[p].max)
    BY <1>5, <1>8
  <2> QED
    BY <2>1, <2>2 DEF AddressSpace!Protect, AddressSpace!Pages, Pages, P, perm
<1>9. CASE /\ Covered(a, end) /\ allowed
           /\ Carried("protect", a, end, prot, {}) /\ monitor' = monitor /\ reply' = <<"protect", "OK">>
  <2>1. \A p \in P : new[p] = NewPerm("protect", prot, {}, p)
    BY DEF NewPerm
  <2>2. AddressSpace!Remap("protect", P, new, "protect" = "protect")
    <3> HIDE DEF new
    <3> QED
      BY <1>3, <1>9, <2>1, RemapIs DEF P
  <2>3. AddressSpace!Remap("protect", P, new, TRUE)
    <3>1. ("protect" = "protect") = TRUE
      OBVIOUS
    <3> QED
      BY <2>2, <3>1
  <2>4. (\A p \in P : perm[p].mapped) /\ \A p \in P : prot \subseteq perm[p].max
    BY <1>5, <1>9
  <2>5. new = [p \in P |-> Mapped(prot, perm[p].max)]
    BY <1>4
  <2>6. AddressSpace!Remap("protect", P, [p \in P |-> Mapped(prot, perm[p].max)], TRUE)
    BY <2>3, <2>5
  <2> QED
    BY <1>9, <2>4, <2>6 DEF AddressSpace!Protect, AddressSpace!Mapped, Mapped, AddressSpace!Pages, Pages, P, perm
<1>10. CASE Covered(a, end) /\ allowed /\ Rebuild("protect", a, end, prot, {})
  <2>1. Asked("protect", a, end, prot, {})
    BY <1>1, <1>10 DEF Asked, Permissions, allowed
  <2> QED
    BY <1>6, <1>9, <1>10, <2>1, RebuildSteps
<1> QED
  BY <1>7, <1>8, <1>10 DEF Protect, allowed
-----------------------------------------------------------------------------
(* The lowest gap.                                                         *)

Gap(k) == IF k = 1 THEN FirstPage ELSE regions[k - 1].end

\* No page of a gap is mapped.
LEMMA GapIsFree ==
    ASSUME RegionInv, NEW k \in 1 .. Len(regions) + 1
    PROVE  /\ Gap(k) \in Nat /\ FirstPage <= Gap(k) /\ Gap(k) <= LastPage + 1
           /\ \A q \in Pages : Gap(k) <= q /\ (k <= Len(regions) => q < regions[k].start) => ~MappedPage(q)
<1>1. Canonical(regions) /\ Len(regions) \in Nat /\ DOMAIN regions = 1 .. Len(regions) /\ k \in Nat /\ FirstPage \in Nat /\ LastPage \in Nat
  BY ListFacts, NumbersAre DEF RegionInv, Canonical
<1>2. k # 1 => k - 1 \in DOMAIN regions
  BY <1>1
<1>3. \A i \in DOMAIN regions : /\ regions[i].start \in Nat /\ regions[i].end \in Nat /\ FirstPage <= regions[i].start
                                /\ regions[i].start < regions[i].end /\ regions[i].end <= LastPage + 1
  BY <1>1, RegionFacts DEF Sound
<1>4. Gap(k) \in Nat /\ FirstPage <= Gap(k) /\ Gap(k) <= LastPage + 1
  <2>1. CASE k = 1
    BY <1>1, <2>1, NumbersAre DEF Gap
  <2>2. CASE k # 1
    <3> DEFINE r == regions[k - 1]
    <3>1. /\ r.start \in Nat /\ r.end \in Nat /\ FirstPage <= r.start /\ r.start < r.end /\ r.end <= LastPage + 1
      BY <1>2, <1>3, <2>2
    <3>2. Gap(k) = r.end
      BY <2>2 DEF Gap
    <3> HIDE DEF r
    <3> QED
      BY <1>1, <3>1, <3>2
  <2> QED
    BY <2>1, <2>2
<1>5. ASSUME NEW q \in Pages, Gap(k) <= q, k <= Len(regions) => q < regions[k].start, NEW j \in DOMAIN regions,
             Inside(regions[j], q)
      PROVE  FALSE
  <2>1. q \in Nat /\ regions[j].start <= q /\ q < regions[j].end /\ j \in Nat /\ j <= Len(regions)
    BY <1>1, <1>5, NumbersAre DEF Inside
  <2>2. CASE j < k
    <3>1. k # 1 /\ k - 1 \in DOMAIN regions /\ j <= k - 1
      BY <1>1, <1>2, <2>1, <2>2
    <3>2. regions[j].end <= regions[k - 1].end
      BY <1>1, <3>1, EndsAscend
    <3>3. Gap(k) = regions[k - 1].end
      BY <3>1 DEF Gap
    <3> QED
      BY <1>3, <1>5, <2>1, <3>1, <3>2, <3>3
  <2>3. CASE j >= k
    <3>1. k \in DOMAIN regions /\ k <= Len(regions)
      BY <1>1, <2>1, <2>3
    <3>2. q < regions[k].start
      BY <1>5, <3>1
    <3>3. CASE j = k
      BY <1>3, <2>1, <3>2, <3>3
    <3>4. CASE j # k
      <4>1. k < j
        BY <1>1, <2>1, <2>3, <3>4
      <4>2. regions[k].end <= regions[j].start
        BY <1>1, <3>1, <4>1, EndsAscend
      <4> QED
        BY <1>3, <2>1, <3>1, <3>2, <4>2
    <3> QED
      BY <3>3, <3>4
  <2> QED
    BY <1>1, <2>1, <2>2, <2>3
<1> QED
  BY <1>4, <1>5 DEF MappedPage

\* A free run does not begin before a gap whose predecessors are too small.
LEMMA NoEarlierRun ==
    ASSUME RegionInv, NEW n \in Nat, n > 0, NEW p \in Pages, \A q \in p .. p + n - 1 : q \in Pages /\ ~MappedPage(q),
           NEW k \in 1 .. Len(regions) + 1, \A i \in DOMAIN regions : i < k => ~(n <= regions[i].start - Gap(i))
    PROVE  Gap(k) <= p
<1> DEFINE N == {m \in Nat : m + 1 <= k => Gap(m + 1) <= p}
<1>1. Canonical(regions) /\ Len(regions) \in Nat /\ DOMAIN regions = 1 .. Len(regions) /\ k \in Nat /\ p \in Nat /\ k <= Len(regions) + 1
  BY ListFacts, NumbersAre DEF RegionInv, Canonical
<1>2. 0 \in N
  BY NumbersAre, SpaceAssumption DEF Gap, Pages
<1>3. ASSUME NEW m \in Nat, m \in N PROVE m + 1 \in N
  <2> SUFFICES ASSUME (m + 1) + 1 <= k PROVE Gap((m + 1) + 1) <= p
    OBVIOUS
  <2> DEFINE j == m + 1
             r == regions[j]
  <2>1. j \in DOMAIN regions /\ j < k /\ j <= k /\ j + 1 # 1 /\ (j + 1) - 1 = j /\ j \in 1 .. Len(regions) + 1
    BY <1>1
  <2>2. Gap(j) <= p /\ ~(n <= r.start - Gap(j)) /\ Gap(j + 1) = r.end
    BY <1>3, <2>1 DEF Gap
  <2>3. r.start \in Nat /\ r.end \in Nat /\ r.start < r.end /\ Gap(j) \in Nat
    BY <1>1, <2>1, RegionFacts, GapIsFree
  <2> HIDE DEF r
  <2>4. \A q \in p .. p + n - 1 : ~(r.start <= q /\ q < r.end)
    BY <2>1 DEF MappedPage, Inside, r
  <2>5. p \in p .. p + n - 1
    BY <1>1
  <2>6. ~(r.start <= p /\ p < r.end)
    BY <2>4, <2>5
  <2>7. ~(p < r.start)
    <3> SUFFICES ASSUME p < r.start PROVE FALSE
      OBVIOUS
    <3>1. r.start <= p + n - 1
      BY <1>1, <2>2, <2>3
    <3>2. r.start \in p .. p + n - 1
      BY <1>1, <2>3, <3>1
    <3> QED
      BY <2>3, <2>4, <3>2
  <2> QED
    BY <1>1, <2>2, <2>3, <2>6, <2>7
<1>4. Nat \subseteq N
  <2> HIDE DEF N
  <2> QED
    BY <1>2, <1>3, SetInduction
<1>5. k - 1 \in Nat /\ (k - 1) + 1 = k
  BY <1>1
<1>6. k - 1 \in N
  BY <1>4, <1>5
<1> QED
  BY <1>1, <1>5, <1>6

LEMMA FindFreeIs ==
    ASSUME SpaceInv, NEW n \in Nat, n > 0, FindFree(n)
    PROVE  AddressSpace!FindFree(n) /\ reply'[1] = "free"
<1> DEFINE perm == [q \in Pages |-> PermOf(q)]
           free == {q \in Pages : ~perm[q].mapped}
           starts == {p \in free : p .. p + n - 1 \subseteq free}
           enough == {i \in DOMAIN regions : n <= regions[i].start - Gap(i)}
           k == IF enough = {} THEN Len(regions) + 1 ELSE Min(enough)
           c == Gap(k)
<1>1. RegionInv /\ Canonical(regions) /\ Len(regions) \in Nat /\ DOMAIN regions = 1 .. Len(regions)
  BY ListFacts DEF SpaceInv, TableInv, RegionInv, Canonical
<1>2. \A q : q \in free <=> q \in Pages /\ ~MappedPage(q)
  <2>1. \A q \in Pages : ~perm[q].mapped <=> ~MappedPage(q)
    BY <1>1, AllowedIs
  <2> HIDE DEF perm
  <2> QED
    BY <2>1
<1>3. IF n <= LastPage + 1 - c THEN Yield("free", <<c>>) ELSE Refuse("free", "NOMEM")
  BY Zenon DEF FindFree, Gap
<1>4. /\ enough # {} => k \in enough /\ \A i \in enough : k <= i
      /\ k \in 1 .. Len(regions) + 1
      /\ \A i \in DOMAIN regions : i < k => i \notin enough
  <2>1. enough \in SUBSET Nat /\ enough \subseteq 1 .. Len(regions)
    BY <1>1
  <2> HIDE DEF enough
  <2>2. CASE enough = {}
    BY <1>1, <2>1, <2>2
  <2>3. CASE enough # {}
    <3>1. k \in enough /\ \A i \in enough : k <= i
      BY <2>1, <2>3, MinOf
    <3>2. k \in 1 .. Len(regions)
      BY <2>1, <3>1
    <3> HIDE DEF k
    <3>3. ASSUME NEW i \in DOMAIN regions, i < k PROVE i \notin enough
      BY <1>1, <3>1, <3>2, <3>3
    <3> QED
      BY <1>1, <3>1, <3>2, <3>3
  <2> QED
    BY <2>2, <2>3
<1>5. (\A i \in DOMAIN regions : i < k => ~(n <= regions[i].start - Gap(i))) /\ (k \in enough => k \in DOMAIN regions /\ n <= regions[k].start - Gap(k))
  <2>1. \A i \in DOMAIN regions : i \notin enough => ~(n <= regions[i].start - Gap(i))
    OBVIOUS
  <2>2. \A i \in enough : i \in DOMAIN regions /\ n <= regions[i].start - Gap(i)
    OBVIOUS
  <2> HIDE DEF enough, k
  <2> QED
    BY <1>4, <2>1, <2>2
<1>6. /\ c \in Nat /\ FirstPage <= c /\ c <= LastPage + 1 /\ FirstPage \in Nat /\ LastPage \in Nat
      /\ \A q \in Pages : c <= q /\ (k <= Len(regions) => q < regions[k].start) => ~MappedPage(q)
  <2> HIDE DEF k
  <2> QED
    BY <1>1, <1>4, GapIsFree, NumbersAre
<1>7. k <= Len(regions) => k \in enough
  <2>1. enough = {} => k = Len(regions) + 1
    OBVIOUS
  <2> HIDE DEF k, enough
  <2> QED
    BY <1>1, <1>4, <2>1
<1>8. ASSUME NEW p \in starts PROVE p \in Pages /\ c <= p /\ p + n - 1 <= LastPage
  <2>1. p \in free /\ p .. p + n - 1 \subseteq free
    OBVIOUS
  <2> HIDE DEF free, k, enough
  <2>2. p \in Pages /\ \A q \in p .. p + n - 1 : q \in Pages /\ ~MappedPage(q)
    BY <1>2, <2>1
  <2>3. p \in Nat /\ p + n - 1 \in p .. p + n - 1
    BY <2>2, NumbersAre
  <2>4. p + n - 1 <= LastPage
    BY <1>6, <2>2, <2>3 DEF Pages
  <2>5. Gap(k) <= p
    BY <1>1, <1>4, <1>5, <2>2, NoEarlierRun
  <2> QED
    BY <2>2, <2>4, <2>5
<1> HIDE DEF c, k, enough, free
<1>9. ASSUME n <= LastPage + 1 - c PROVE c \in starts
  <2>1. ASSUME NEW q \in c .. c + n - 1 PROVE q \in free
    <3>1. q \in Nat /\ c <= q /\ q <= c + n - 1
      BY <1>6
    <3>2. q \in Pages
      BY <1>6, <1>9, <3>1 DEF Pages
    <3>3. k <= Len(regions) => q < regions[k].start
      <4> SUFFICES ASSUME k <= Len(regions) PROVE q < regions[k].start
        OBVIOUS
      <4>1. k \in DOMAIN regions /\ n <= regions[k].start - c
        BY <1>5, <1>7 DEF c
      <4>2. regions[k].start \in Nat
        BY <1>1, <4>1, RegionFacts
      <4> QED
        BY <1>6, <3>1, <4>1, <4>2
    <3> QED
      BY <1>2, <1>6, <3>1, <3>2, <3>3
  <2>2. c \in c .. c + n - 1
    BY <1>6
  <2> QED
    BY <2>1, <2>2
<1>10. CASE n <= LastPage + 1 - c
  <2>1. c \in starts
    BY <1>9, <1>10
  <2>2. starts \in SUBSET Nat
    BY <1>8, NumbersAre
  <2> HIDE DEF starts
  <2>3. Min(starts) = c
    <3>1. Min(starts) \in starts /\ Min(starts) <= c
      BY <2>1, <2>2, MinOf
    <3>2. Min(starts) \in Nat /\ c <= Min(starts)
      BY <1>8, <2>2, <3>1
    <3> QED
      BY <1>6, <3>1, <3>2
  <2>4. Yield("free", <<c>>)
    BY <1>3, <1>10
  <2>5. AddressSpace!Yields("free", <<Min(starts)>>) /\ reply'[1] = "free"
    BY <2>3, <2>4, YieldIs DEF Yield
  <2> QED
    BY <2>1, <2>5, Zenon DEF AddressSpace!FindFree, starts, free, perm, AddressSpace!Pages, Pages, AddressSpace!Min, Min
<1>11. CASE ~(n <= LastPage + 1 - c)
  <2>1. starts = {}
    <3> SUFFICES ASSUME NEW p \in starts PROVE FALSE
      OBVIOUS
    <3>1. p \in Pages /\ c <= p /\ p + n - 1 <= LastPage
      BY <1>8
    <3>2. p \in Nat
      BY <3>1, NumbersAre
    <3> QED
      BY <1>6, <1>11, <3>1, <3>2
  <2>2. Refuse("free", "NOMEM")
    BY <1>3, <1>11
  <2>3. AddressSpace!Refuses("free", "NOMEM") /\ reply'[1] = "free"
    BY <2>2, RefuseIs DEF Refuse
  <2> HIDE DEF starts
  <2> QED
    BY <2>1, <2>3, Zenon DEF AddressSpace!FindFree, starts, free, perm, AddressSpace!Pages, Pages
<1> QED
  BY <1>10, <1>11

LEMMA MappingSteps ==
    ASSUME SpaceInv, SpaceInv', Mapping
    PROVE  AddressSpace!SpaceNext
<1>1. PICK a \in Pages, end \in Pages \cup {LastPage + 1} :
        /\ a < end
        /\ \/ \E prot, max \in Protections, replace \in BOOLEAN :
                 prot \subseteq max /\ Map(a, end, prot, max, replace)
           \/ Unmap(a, end)
           \/ \E prot \in Protections : Protect(a, end, prot)
           \/ FindFree(end - a)
  BY DEF Mapping
<1>2. ASSUME NEW prot \in Protections, NEW max \in Protections, NEW replace \in BOOLEAN,
             prot \subseteq max, Map(a, end, prot, max, replace)
      PROVE  AddressSpace!SpaceNext
  <2>1. AddressSpace!Map(a .. end - 1, prot, max, replace) /\ reply'[1] = "map"
    BY <1>1, <1>2, MapIs
  <2> QED
    BY <1>1, <1>2, <2>1, MappingStep
<1>3. CASE Unmap(a, end)
  BY <1>1, <1>3, UnmapIs, MappingStep
<1>4. ASSUME NEW prot \in Protections, Protect(a, end, prot) PROVE AddressSpace!SpaceNext
  BY <1>1, <1>4, ProtectIs, MappingStep
<1>5. CASE FindFree(end - a)
  <2>1. end - a \in Nat /\ end - a > 0
    <3>1. a \in Nat /\ end \in Nat
      BY <1>1, RangeIs
    <3> QED
      BY <1>1, <3>1
  <2>2. AddressSpace!FindFree(end - a) /\ reply'[1] = "free"
    BY <1>5, <2>1, FindFreeIs
  <2> QED
    BY <1>1, <2>2, MappingStep
<1> QED
  BY <1>1, <1>2, <1>3, <1>4, <1>5
-----------------------------------------------------------------------------
(* Accesses.                                                               *)

LEMMA SpansAre ==
    /\ Spans = AddressSpace!Spans(Lengths) /\ Aligned \subseteq AddressSpace!Spans(Granules)
    /\ \A n : Bytes(n) = AddressSpace!Bytes(n)
BY DEF Spans, Aligned, AddressSpace!Spans, AddressSpace!Cells, FirstCell, EndCell, Bytes, AddressSpace!Bytes

LEMMA AccessingStep ==
    ASSUME NEW s \in Spans, reply'[1] \in {"read", "write", "prepare"},
           \/ AddressSpace!Read(s[1], s[2])
           \/ \E bytes \in Bytes(s[2]) : AddressSpace!Write(s[1], bytes)
           \/ \E need \in Protections : AddressSpace!Prepare(s[1], s[2], need)
    PROVE  AddressSpace!SpaceNext
<1>1. s \in AddressSpace!Spans(Lengths) /\ \A n : Bytes(n) = AddressSpace!Bytes(n)
  BY SpansAre
<1> QED
  BY <1>1, Zenon DEF AddressSpace!SpaceNext

LEMMA AtomicStep ==
    ASSUME NEW s \in Aligned, reply'[1] \in {"load", "store", "exchange", "atomic"},
           \/ \E new \in Bytes(s[2]) : AddressSpace!Atomic(s[1], new)
           \/ \E desired, expected \in Bytes(s[2]) : AddressSpace!CompareExchange(s[1], expected, desired)
           \/ \E t \in Threads : \/ AddressSpace!LoadExclusive(t, s[1], s[2])
                                 \/ \E bytes \in Bytes(s[2]) : AddressSpace!StoreExclusive(t, s[1], bytes)
    PROVE  AddressSpace!SpaceNext
<1>1. s \in AddressSpace!Spans(Granules) /\ \A n : Bytes(n) = AddressSpace!Bytes(n)
  BY SpansAre
<1> QED
  BY <1>1, Zenon DEF AddressSpace!SpaceNext

LEMMA WriteResultIs ==
    ASSUME NEW a, NEW n, WriteResult(a, n) # "OK"
    PROVE  \/ WriteResult(a, n) = "NOMEM"
           \/ CheckAccess(a, n, {"w"}) # "OK" /\ WriteResult(a, n) = CheckAccess(a, n, {"w"})
BY DEF WriteResult

LEMMA ReadIs ==
    ASSUME SpaceInv, NEW a \in Nat, NEW n \in Nat, FirstCell <= a, a + n <= EndCell, Read(a, n)
    PROVE  AddressSpace!Read(a, n) /\ reply'[1] = "read"
<1>1. AddressSpace!Access(a, n, {"r"}) = CheckAccess(a, n, {"r"}) /\ AddressSpace!Contents(a, n) = Contents(a, n)
  BY AccessIs, ContentsAre DEF SpaceInv, TableInv
<1>2. CASE CheckAccess(a, n, {"r"}) = "OK"
  <2>1. Yield("read", Contents(a, n))
    BY <1>2 DEF Read
  <2>2. AddressSpace!Yields("read", Contents(a, n)) /\ reply'[1] = "read"
    BY <2>1, YieldIs DEF Yield
  <2> QED
    BY <1>1, <1>2, <2>2, Zenon DEF AddressSpace!Read
<1>3. CASE CheckAccess(a, n, {"r"}) # "OK"
  <2>1. Refuse("read", CheckAccess(a, n, {"r"}))
    BY <1>3 DEF Read
  <2>2. AddressSpace!Refuses("read", CheckAccess(a, n, {"r"})) /\ reply'[1] = "read"
    BY <2>1, RefuseIs DEF Refuse
  <2> QED
    BY <1>1, <1>3, <2>2, Zenon DEF AddressSpace!Read, AddressSpace!Faults
<1> QED
  BY <1>2, <1>3

LEMMA WriteIs ==
    ASSUME SpaceInv, NEW a \in Nat, NEW bytes \in Seq(Byte), FirstCell <= a, a + Len(bytes) <= EndCell, Write(a, bytes)
    PROVE  AddressSpace!Write(a, bytes) /\ reply'[1] = "write"
<1> DEFINE n == Len(bytes)
           result == WriteResult(a, n)
<1>1. AddressSpace!Access(a, n, {"w"}) = CheckAccess(a, n, {"w"})
  BY AccessIs DEF SpaceInv, TableInv
<1>2. CASE result # "OK" /\ Refuse("write", result)
  <2>1. AddressSpace!Refuses("write", result) /\ reply'[1] = "write"
    BY <1>2, RefuseIs DEF Refuse
  <2>2. result = "NOMEM" \/ (CheckAccess(a, n, {"w"}) # "OK" /\ result = CheckAccess(a, n, {"w"}))
    BY <1>2, WriteResultIs
  <2> HIDE DEF result
  <2> QED
    BY <1>1, <2>1, <2>2, Zenon DEF AddressSpace!Write, AddressSpace!Faults
<1>3. CASE result = "OK" /\ Commit(a, bytes, <<"write", "OK">>) /\ UNCHANGED monitor
  <2>1. AddressSpace!Stores(a, bytes) /\ reply' = <<"write", "OK">>
    BY <1>3, CommitStores
  <2>2. CheckAccess(a, n, {"w"}) = "OK"
    BY <1>3, MayBeWritten
  <2>3. reply'[1] = "write"
    BY <2>1
  <2> QED
    BY <1>1, <2>1, <2>2, <2>3, Zenon DEF AddressSpace!Write
<1> QED
  BY <1>2, <1>3 DEF Write

LEMMA PrepareIs ==
    ASSUME SpaceInv, NEW a \in Nat, NEW n \in Nat, FirstCell <= a, a + n <= EndCell, NEW need, Prepare(a, n, need)
    PROVE  AddressSpace!Prepare(a, n, need) /\ reply'[1] = "prepare"
<1> DEFINE result == CheckAccess(a, n, need)
<1>1. AddressSpace!Access(a, n, need) = result
  BY AccessIs DEF SpaceInv, TableInv
<1>2. ASSUME NEW r, Refuse("prepare", r), r = result \/ r = "NOMEM"
      PROVE  AddressSpace!Prepare(a, n, need) /\ reply'[1] = "prepare"
  <2>1. AddressSpace!Refuses("prepare", r) /\ reply'[1] = "prepare"
    BY <1>2, RefuseIs DEF Refuse
  <2> HIDE DEF result
  <2> QED
    BY <1>1, <1>2, <2>1, Zenon DEF AddressSpace!Prepare
<1>3. CASE result # "OK" \/ n = 0 \/ "w" \notin need
  BY <1>2, <1>3 DEF Prepare
<1>4. CASE ~(result # "OK" \/ n = 0 \/ "w" \notin need) /\ ~Fits(a, n)
  BY <1>2, <1>4 DEF Prepare
<1>5. CASE ~(result # "OK" \/ n = 0 \/ "w" \notin need) /\ Fits(a, n)
  <2>1. /\ store' = Backed(a, n) /\ reply' = <<"prepare", "OK">>
        /\ UNCHANGED <<regions, generation, mappingGeneration, monitor>>
    BY <1>5 DEF Prepare
  <2>2. Accessible(a, n)
    BY <1>5 DEF Accessible
  <2>3. \A p \in Pages : Agree(store, store', p)
    BY <2>1, <2>2, BackedContents DEF SpaceInv, TableInv
  <2>4. \A t \in Threads : LinkOf(t)' = LinkOf(t)
    BY <2>1, <2>3, LinkKept DEF Agree
  <2>5. \A c \in Cells : ByteAt(store, c)' = ByteAt(store, c)
    <3> SUFFICES ASSUME NEW c \in Cells PROVE ByteAt(store', c) = ByteAt(store, c)
      OBVIOUS
    <3>1. PageOf(c) \in Pages
      BY CellIs
    <3> QED
      BY <2>3, <3>1, ByteIs DEF CellOf, Agree
  <2>6. SpaceLink' = SpaceLink /\ SpaceData' = SpaceData
    BY <2>4, <2>5 DEF SpaceLink, SpaceData
  <2>7. AddressSpace!Refuses("prepare", "OK")
    BY <2>1, <2>6, SpaceKept DEF AddressSpace!Refuses, SpaceLink, SpaceData, LinkOf, Cells
  <2>8. result = "OK" /\ reply'[1] = "prepare"
    BY <1>5, <2>1
  <2> HIDE DEF result
  <2> QED
    BY <1>1, <2>7, <2>8, Zenon DEF AddressSpace!Prepare
<1> QED
  BY <1>3, <1>4, <1>5

LEMMA AccessingSteps ==
    ASSUME SpaceInv, Accessing
    PROVE  AddressSpace!SpaceNext
<1>1. PICK s \in Spans : \/ Read(s[1], s[2])
                         \/ \E bytes \in Bytes(s[2]) : Write(s[1], bytes)
                         \/ \E need \in Protections : Prepare(s[1], s[2], need)
  BY DEF Accessing
<1>2. s[1] \in Nat /\ s[2] \in Nat /\ FirstCell <= s[1] /\ s[1] + s[2] <= EndCell
  BY SpanIs
<1>3. CASE Read(s[1], s[2])
  BY <1>2, <1>3, ReadIs, AccessingStep
<1>4. ASSUME NEW bytes \in Bytes(s[2]), Write(s[1], bytes) PROVE AddressSpace!SpaceNext
  <2>1. bytes \in Seq(Byte) /\ Len(bytes) = s[2]
    BY <1>2, BytesAre
  <2>2. AddressSpace!Write(s[1], bytes) /\ reply'[1] = "write"
    BY <1>2, <1>4, <2>1, WriteIs
  <2> QED
    BY <2>2, AccessingStep
<1>5. ASSUME NEW need \in Protections, Prepare(s[1], s[2], need) PROVE AddressSpace!SpaceNext
  <2>1. AddressSpace!Prepare(s[1], s[2], need) /\ reply'[1] = "prepare"
    BY <1>2, <1>5, PrepareIs
  <2> QED
    BY <2>1, AccessingStep
<1> QED
  BY <1>1, <1>3, <1>4, <1>5
-----------------------------------------------------------------------------
(* Atomic accesses.                                                        *)

\* A span of one page is judged by that page.
LEMMA PageAccess ==
    ASSUME RegionInv, NEW s \in Aligned, NEW need
    PROVE  LET p == PageOf(s[1])
           IN  CheckAccess(s[1], s[2], need)
                 = IF ~MappedPage(p) THEN "UNMAPPED" ELSE IF GoodPage(p, need) THEN "OK" ELSE "PROTECTION"
<1> DEFINE p == PageOf(s[1])
           result == CheckAccess(s[1], s[2], need)
           end == PageOf(s[1] + s[2] - 1) + 1
<1>1. /\ s[1] \in Nat /\ s[2] \in Nat /\ s[2] > 0 /\ FirstCell <= s[1] /\ s[1] + s[2] <= EndCell
      /\ PageOf(s[1] + s[2] - 1) = p
  BY AlignedIs
<1>2. s[2] # 0 /\ p \in Nat
  BY <1>1, PageOfIs
<1>3. Verdict(p, end, need, result)
  BY <1>1, <1>2, CheckAccessIs DEF RegionInv
<1>4. end = p + 1
  BY <1>1
<1> HIDE DEF end, p, result
<1>5. p .. end - 1 = {p} /\ p .. p - 1 = {}
  BY <1>2, <1>4
<1>6. \/ result = "OK" /\ GoodPage(p, need)
      \/ result = "UNMAPPED" /\ ~MappedPage(p)
      \/ result = "PROTECTION" /\ MappedPage(p) /\ ~GoodPage(p, need)
  BY <1>3, <1>5 DEF Verdict
<1>7. GoodPage(p, need) => MappedPage(p)
  BY DEF GoodPage, MappedPage
<1>8. result = IF ~MappedPage(p) THEN "UNMAPPED" ELSE IF GoodPage(p, need) THEN "OK" ELSE "PROTECTION"
  BY <1>6, <1>7
<1> QED
  BY <1>8 DEF p, result

LEMMA BothAccesses ==
    ASSUME RegionInv, NEW s \in Aligned
    PROVE  LET result(need) == CheckAccess(s[1], s[2], need)
           IN  /\ result({"r"}) # "OK" => result({"r", "w"}) = result({"r"})
               /\ result({"r"}) = "OK" => result({"r", "w"}) = result({"w"})
<1> DEFINE p == PageOf(s[1])
           result(need) == CheckAccess(s[1], s[2], need)
<1>1. \A need : result(need) = IF ~MappedPage(p) THEN "UNMAPPED" ELSE IF GoodPage(p, need) THEN "OK" ELSE "PROTECTION"
  BY PageAccess
<1>2. p \in Pages
  <2>1. /\ s[1] \in Nat /\ s[2] \in Nat /\ s[2] # 0 /\ FirstCell <= s[1] /\ s[1] + s[2] <= EndCell
    BY AlignedIs
  <2> QED
    BY <2>1, SpanPages, NumbersAre DEF Pages
<1> HIDE DEF p, result
<1>3. GoodPage(p, {"r", "w"}) <=> GoodPage(p, {"r"}) /\ GoodPage(p, {"w"})
  <2>1. \A need : GoodPage(p, need) <=> PermOf(p).mapped /\ need \subseteq PermOf(p).prot
    BY <1>2, AllowedIs
  <2>2. {"r", "w"} \subseteq PermOf(p).prot <=> {"r"} \subseteq PermOf(p).prot /\ {"w"} \subseteq PermOf(p).prot
    OBVIOUS
  <2> QED
    BY <2>1, <2>2
<1>4. /\ result({"r"}) # "OK" => result({"r", "w"}) = result({"r"})
      /\ result({"r"}) = "OK" => result({"r", "w"}) = result({"w"})
  BY <1>1, <1>3
<1> QED
  BY <1>4 DEF result

LEMMA AtomicFacts ==
    ASSUME SpaceInv, NEW s \in Aligned
    PROVE  /\ s[1] \in Nat /\ s[2] \in Nat /\ FirstCell <= s[1] /\ s[1] + s[2] <= EndCell
           /\ \A need : AddressSpace!Access(s[1], s[2], need) = CheckAccess(s[1], s[2], need)
           /\ AddressSpace!Contents(s[1], s[2]) = Contents(s[1], s[2])
           /\ AddressSpace!Span(s[1], s[2]) = s[1] .. s[1] + s[2] - 1
           /\ \A b \in Bytes(s[2]) : b \in Seq(Byte) /\ Len(b) = s[2]
<1>1. s[1] \in Nat /\ s[2] \in Nat /\ FirstCell <= s[1] /\ s[1] + s[2] <= EndCell
  BY SpanIs
<1>2. \A need : AddressSpace!Access(s[1], s[2], need) = CheckAccess(s[1], s[2], need)
  BY <1>1, AccessIs DEF SpaceInv, TableInv
<1>3. AddressSpace!Contents(s[1], s[2]) = Contents(s[1], s[2])
  BY <1>1, ContentsAre
<1>4. AddressSpace!Span(s[1], s[2]) = s[1] .. s[1] + s[2] - 1
  BY DEF AddressSpace!Span
<1>5. \A b \in Bytes(s[2]) : b \in Seq(Byte) /\ Len(b) = s[2]
  BY <1>1, BytesAre
<1> QED
  BY <1>1, <1>2, <1>3, <1>4, <1>5

LEMMA LoadIs ==
    ASSUME SpaceInv, NEW s \in Aligned, NEW t \in Threads, LoadExclusive(t, s[1], s[2])
    PROVE  AddressSpace!LoadExclusive(t, s[1], s[2]) /\ reply'[1] = "load"
<1> DEFINE a == s[1]
           n == s[2]
           result == CheckAccess(a, n, {"r"})
<1>1. AddressSpace!Access(a, n, {"r"}) = result /\ AddressSpace!Contents(a, n) = Contents(a, n) /\ AddressSpace!Span(a, n) = a .. a + n - 1
  BY AtomicFacts
<1>2. CASE result # "OK" /\ Refuse("load", result)
  <2>1. AddressSpace!Refuses("load", result) /\ reply'[1] = "load"
    BY <1>2, RefuseIs DEF Refuse
  <2> HIDE DEF result, a, n
  <2>2. AddressSpace!LoadExclusive(t, a, n)
    BY <1>1, <1>2, <2>1, Zenon DEF AddressSpace!LoadExclusive, AddressSpace!Faults
  <2> QED
    BY <2>1, <2>2 DEF a, n
<1>3. CASE /\ result = "OK" /\ reply' = <<"load", "OK", Contents(a, n)>>
           /\ monitor' = [monitor EXCEPT ![t] = Loaded(a, n)]
           /\ UNCHANGED <<regions, store, generation, mappingGeneration>>
  <2>1. monitor \in [Threads -> Monitors]
    BY DEF SpaceInv, MonitorInv
  <2>2. LinkOf(t)' = a .. a + n - 1
    <3>1. monitor'[t] = Loaded(a, n)
      BY <1>3, <2>1
    <3>2. PageGeneration(a) = GenerationOf(store, PageOf(a))
      BY PageGenerationIs
    <3>3. Loaded(a, n).address = a /\ Loaded(a, n).size = n /\ Loaded(a, n).valid = TRUE
          /\ Loaded(a, n).mapping = mappingGeneration /\ Loaded(a, n).generation = GenerationOf(store, PageOf(a))
      BY <3>2 DEF Loaded
    <3> HIDE DEF a, n
    <3>4. LinkBy(Loaded(a, n), store, mappingGeneration) = a .. a + n - 1
      BY <3>3 DEF LinkBy
    <3> QED
      BY <1>3, <3>1, <3>4, LinkIsNext
  <2>3. \A u \in Threads : u # t => LinkOf(u)' = LinkOf(u)
    <3> SUFFICES ASSUME NEW u \in Threads, u # t PROVE LinkOf(u)' = LinkOf(u)
      OBVIOUS
    <3>1. monitor'[u] = monitor[u]
      BY <1>3, <2>1
    <3> QED
      BY <1>3, <3>1, LinkKept
  <2>4. SpaceLink' = [SpaceLink EXCEPT ![t] = a .. a + n - 1]
    <3> HIDE DEF a, n
    <3> QED
      BY <2>2, <2>3 DEF SpaceLink
  <2>5. reply'[1] = "load"
    BY <1>3
  <2> HIDE DEF result, a, n
  <2>6. AddressSpace!LoadExclusive(t, a, n)
    BY <1>1, <1>3, <2>4, SpaceKept DEF AddressSpace!LoadExclusive, SpaceLink, LinkOf
  <2> QED
    BY <2>5, <2>6 DEF a, n
<1> QED
  BY <1>2, <1>3 DEF LoadExclusive, Loaded

LEMMA StoreIs ==
    ASSUME SpaceInv, NEW s \in Aligned, NEW t \in Threads, NEW bytes \in Bytes(s[2]), StoreExclusive(t, s[1], bytes)
    PROVE  AddressSpace!StoreExclusive(t, s[1], bytes) /\ reply'[1] = "store"
<1> DEFINE a == s[1]
           n == Len(bytes)
           result == WriteResult(a, n)
           valid == Holds(t) /\ monitor[t].address = a /\ monitor[t].size = n
           link == [u \in Threads |-> LinkOf(u)]
<1>1. /\ a \in Nat /\ bytes \in Seq(Byte) /\ n = s[2] /\ FirstCell <= a /\ a + n <= EndCell
      /\ AddressSpace!Access(a, n, {"w"}) = CheckAccess(a, n, {"w"}) /\ AddressSpace!Span(a, n) = a .. a + n - 1
  <2>1. bytes \in Seq(Byte) /\ n = s[2]
    BY AtomicFacts
  <2> HIDE DEF n
  <2> QED
    BY <2>1, AtomicFacts
<1>2. valid => link[t] = AddressSpace!Span(a, n)
  BY <1>1 DEF LinkOf
<1>3. monitor \in [Threads -> Monitors]
  BY DEF SpaceInv, MonitorInv
<1>4. CASE valid /\ result # "OK" /\ Refuse("store", result)
  <2>1. AddressSpace!Refuses("store", result) /\ reply'[1] = "store"
    BY <1>4, RefuseIs DEF Refuse
  <2>2. result = "NOMEM" \/ (CheckAccess(a, n, {"w"}) # "OK" /\ result = CheckAccess(a, n, {"w"}))
    BY <1>4, WriteResultIs
  <2>3. link[t] = AddressSpace!Span(a, n)
    BY <1>2, <1>4
  <2> HIDE DEF result, a, n, link
  <2>4. AddressSpace!Refuses("store", "NOMEM") \/ AddressSpace!Faults("store", a, n, {"w"})
    BY <1>1, <2>1, <2>2 DEF AddressSpace!Faults
  <2>5. AddressSpace!StoreExclusive(t, a, bytes)
    BY <2>3, <2>4 DEF AddressSpace!StoreExclusive, n, link, LinkOf
  <2> QED
    BY <2>1, <2>5 DEF a
<1>5. CASE valid /\ result = "OK" /\ Commit(a, bytes, <<"store", "STORED">>) /\ Spent(t)
  <2>1. \A u \in Threads : monitor'[u] \in {monitor[u], NoMonitor}
    BY <1>3, <1>5 DEF Spent
  <2>2. AddressSpace!Stores(a, bytes) /\ reply' = <<"store", "STORED">>
    BY <1>1, <1>5, <2>1, CommitStores
  <2>3. AddressSpace!Access(a, n, {"w"}) = "OK"
    BY <1>1, <1>5, MayBeWritten
  <2>4. reply'[1] = "store" /\ link[t] = AddressSpace!Span(a, n)
    BY <1>2, <1>5, <2>2
  <2> HIDE DEF result, a, n, link
  <2>5. AddressSpace!StoreExclusive(t, a, bytes)
    BY <2>2, <2>3, <2>4 DEF AddressSpace!StoreExclusive, n, link, LinkOf
  <2> QED
    BY <2>4, <2>5 DEF a
<1>6. CASE reply' = <<"store", "LOST">> /\ Spent(t) /\ UNCHANGED <<regions, store, generation, mappingGeneration>>
  <2>1. LinkOf(t)' = {}
    BY <1>3, <1>6, LinkSpent DEF Spent
  <2>2. \A u \in Threads : u # t => LinkOf(u)' = LinkOf(u)
    <3> SUFFICES ASSUME NEW u \in Threads, u # t PROVE LinkOf(u)' = LinkOf(u)
      OBVIOUS
    <3>1. monitor'[u] = monitor[u]
      BY <1>3, <1>6 DEF Spent
    <3> QED
      BY <1>6, <3>1, LinkKept
  <2>3. SpaceLink' = [SpaceLink EXCEPT ![t] = {}]
    BY <2>1, <2>2 DEF SpaceLink
  <2>4. reply'[1] = "store"
    BY <1>6
  <2> HIDE DEF result, a, n, link, valid
  <2>5. AddressSpace!StoreExclusive(t, a, bytes)
    BY <1>6, <2>3, SpaceKept DEF AddressSpace!StoreExclusive, SpaceLink, LinkOf
  <2> QED
    BY <2>4, <2>5 DEF a
<1> QED
  BY <1>4, <1>5, <1>6 DEF StoreExclusive

\* The second half of an atomic update.
LEMMA ReplaceSteps ==
    ASSUME SpaceInv, NEW s \in Aligned, NEW op, NEW old, NEW new \in Bytes(s[2]), Replace(op, s[1], old, new),
           CheckAccess(s[1], s[2], {"r"}) = "OK"
    PROVE  LET result == CheckAccess(s[1], s[2], {"r", "w"})
           IN  \/ AddressSpace!Refuses(op, "NOMEM")
               \/ result # "OK" /\ AddressSpace!Refuses(op, result)
               \/ result = "OK" /\ reply' = <<op, "OK", old>> /\ AddressSpace!Stores(s[1], new)
<1> DEFINE a == s[1]
           n == Len(new)
           result == WriteResult(a, n)
           both == CheckAccess(a, n, {"r", "w"})
<1>1. a \in Nat /\ new \in Seq(Byte) /\ n = s[2] /\ FirstCell <= a /\ a + n <= EndCell
  <2>1. new \in Seq(Byte) /\ n = s[2]
    BY AtomicFacts
  <2> HIDE DEF n
  <2> QED
    BY <2>1, AtomicFacts
<1>2. both = CheckAccess(a, n, {"w"})
  <2> HIDE DEF n
  <2> QED
    BY <1>1, BothAccesses DEF SpaceInv, TableInv
<1>3. CASE result # "OK" /\ Refuse(op, result)
  <2>1. AddressSpace!Refuses(op, result)
    BY <1>3, RefuseIs
  <2>2. result = "NOMEM" \/ (both # "OK" /\ result = both)
    BY <1>2, <1>3, WriteResultIs
  <2> HIDE DEF result, both, n, a
  <2>3. AddressSpace!Refuses(op, "NOMEM") \/ (both # "OK" /\ AddressSpace!Refuses(op, both))
    BY <2>1, <2>2
  <2> QED
    BY <1>1, <2>3 DEF both, a
<1>4. CASE result = "OK" /\ Commit(a, new, <<op, "OK", old>>) /\ UNCHANGED monitor
  <2>1. AddressSpace!Stores(a, new) /\ reply' = <<op, "OK", old>>
    BY <1>1, <1>4, CommitStores
  <2>2. both = "OK"
    BY <1>2, <1>4, MayBeWritten
  <2> HIDE DEF result, both, n, a
  <2> QED
    BY <1>1, <2>1, <2>2 DEF both, a
<1> QED
  BY <1>3, <1>4 DEF Replace

LEMMA AtomicIs ==
    ASSUME SpaceInv, NEW s \in Aligned, NEW new \in Bytes(s[2]), Atomic(s[1], new)
    PROVE  AddressSpace!Atomic(s[1], new) /\ reply'[1] = "atomic"
<1> DEFINE a == s[1]
           n == Len(new)
           both == CheckAccess(a, n, {"r", "w"})
           old == Contents(a, n)
<1>1. n = s[2] /\ AddressSpace!Access(a, n, {"r", "w"}) = both /\ AddressSpace!Contents(a, n) = old
  <2>1. n = s[2]
    BY AtomicFacts
  <2> HIDE DEF n
  <2> QED
    BY <2>1, AtomicFacts
<1>2. \/ AddressSpace!Refuses("atomic", "NOMEM")
      \/ both # "OK" /\ AddressSpace!Refuses("atomic", both)
      \/ both = "OK" /\ reply' = <<"atomic", "OK", old>> /\ AddressSpace!Stores(a, new)
  <2>1. CASE CheckAccess(a, n, {"r"}) # "OK" /\ Refuse("atomic", CheckAccess(a, n, {"r"}))
    <3>1. both = CheckAccess(a, n, {"r"})
      <4> HIDE DEF n
      <4> QED
        BY <1>1, <2>1, BothAccesses DEF SpaceInv, TableInv
    <3>2. AddressSpace!Refuses("atomic", CheckAccess(a, n, {"r"}))
      BY <2>1, RefuseIs
    <3> HIDE DEF both, n, a, old
    <3> QED
      BY <2>1, <3>1, <3>2
  <2>2. CASE CheckAccess(a, n, {"r"}) = "OK" /\ Replace("atomic", a, old, new)
    <3> HIDE DEF n, old
    <3> QED
      BY <1>1, <2>2, ReplaceSteps
  <2> QED
    BY <2>1, <2>2 DEF Atomic
<1> HIDE DEF both, old, n, a
<1>3. AddressSpace!Atomic(a, new)
  BY <1>1, <1>2 DEF AddressSpace!Atomic, AddressSpace!Update, AddressSpace!Faults, n
<1>4. reply'[1] = "atomic"
  BY <1>2 DEF AddressSpace!Refuses
<1> QED
  BY <1>3, <1>4 DEF a

LEMMA ExchangeIs ==
    ASSUME SpaceInv, NEW s \in Aligned, NEW expected \in Bytes(s[2]), NEW desired \in Bytes(s[2]),
           CompareExchange(s[1], expected, desired)
    PROVE  AddressSpace!CompareExchange(s[1], expected, desired) /\ reply'[1] = "exchange"
<1> DEFINE a == s[1]
           n == s[2]
           both == CheckAccess(a, n, {"r", "w"})
           old == Contents(a, n)
<1>1. /\ Len(expected) = n /\ Len(desired) = n
      /\ AddressSpace!Access(a, n, {"r", "w"}) = both /\ AddressSpace!Contents(a, n) = old
  BY AtomicFacts
<1> HIDE DEF n
<1>2. \/ AddressSpace!Refuses("exchange", "NOMEM")
      \/ both # "OK" /\ AddressSpace!Refuses("exchange", both)
      \/ both = "OK" /\ old # expected /\ AddressSpace!Yields("exchange", old)
      \/ both = "OK" /\ old = expected /\ reply' = <<"exchange", "OK", old>> /\ AddressSpace!Stores(a, desired)
  <2>1. CASE both # "OK" /\ Refuse("exchange", both)
    <3> HIDE DEF both
    <3> QED
      BY <2>1, RefuseIs
  <2>2. CASE both = "OK" /\ old # expected /\ Yield("exchange", old)
    <3> HIDE DEF old, both
    <3> QED
      BY <2>2, YieldIs
  <2>3. CASE both = "OK" /\ old = expected /\ Replace("exchange", a, old, desired)
    <3>1. CheckAccess(a, n, {"r"}) = "OK"
      BY <2>3, BothAccesses DEF SpaceInv, TableInv, n
    <3> HIDE DEF old
    <3> QED
      BY <2>3, <3>1, ReplaceSteps DEF n
  <2> QED
    BY <1>1, <2>1, <2>2, <2>3 DEF CompareExchange
<1> HIDE DEF both, old, a
<1>3. AddressSpace!CompareExchange(a, expected, desired)
  BY <1>1, <1>2 DEF AddressSpace!CompareExchange, AddressSpace!Update, AddressSpace!Faults, AddressSpace!Yields
<1>4. reply'[1] = "exchange"
  BY <1>2 DEF AddressSpace!Refuses, AddressSpace!Yields
<1> QED
  BY <1>3, <1>4 DEF a

LEMMA AtomicSteps ==
    ASSUME SpaceInv, AccessingAtomically
    PROVE  AddressSpace!SpaceNext
<1>1. PICK s \in Aligned :
        \/ \E new \in Bytes(s[2]) : Atomic(s[1], new)
        \/ \E expected, desired \in Bytes(s[2]) : CompareExchange(s[1], expected, desired)
        \/ \E t \in Threads : \/ LoadExclusive(t, s[1], s[2])
                              \/ \E bytes \in Bytes(s[2]) : StoreExclusive(t, s[1], bytes)
  BY DEF AccessingAtomically
<1>2. ASSUME NEW new \in Bytes(s[2]), Atomic(s[1], new) PROVE AddressSpace!SpaceNext
  BY <1>2, AtomicIs, AtomicStep
<1>3. ASSUME NEW expected \in Bytes(s[2]), NEW desired \in Bytes(s[2]), CompareExchange(s[1], expected, desired)
      PROVE  AddressSpace!SpaceNext
  BY <1>3, ExchangeIs, AtomicStep
<1>4. ASSUME NEW t \in Threads, LoadExclusive(t, s[1], s[2]) PROVE AddressSpace!SpaceNext
  BY <1>4, LoadIs, AtomicStep
<1>5. ASSUME NEW t \in Threads, NEW bytes \in Bytes(s[2]), StoreExclusive(t, s[1], bytes) PROVE AddressSpace!SpaceNext
  BY <1>5, StoreIs, AtomicStep
<1> QED
  BY <1>1, <1>2, <1>3, <1>4, <1>5

-----------------------------------------------------------------------------
(* The refinement.                                                         *)

LEMMA SpaceBegins == ASSUME Init PROVE AddressSpace!SpaceInit
<1>1. regions = <<>> /\ monitor = [t \in Threads |-> NoMonitor] /\ reply = <<"init", "OK">>
  BY DEF Init
<1>2. \A p \in Pages : PermOf(p) = Unmapped
  BY <1>1 DEF PermOf, Unmapped
<1>3. \A c \in Cells : ByteAt(store, c) = 0
  <2> SUFFICES ASSUME NEW c \in Cells PROVE ByteAt(store, c) = 0
    OBVIOUS
  <2>1. PageOf(c) \in Pages /\ c % PageCells \in 0 .. PageCells - 1
    BY CellIs
  <2>2. BlockOf(store, PageOf(c)) = Zero
    BY <2>1, InitPages
  <2> QED
    BY <2>1, <2>2, ByteIs DEF CellOf, Zero
<1>4. \A t \in Threads : LinkOf(t) = {}
  BY <1>1 DEF LinkOf, Holds, NoMonitor
<1> QED
  BY <1>1, <1>2, <1>3, <1>4 DEF AddressSpace!SpaceInit, AddressSpace!Pages, Pages, AddressSpace!Cells, Cells,
     FirstCell, EndCell, AddressSpace!Unmapped, Unmapped, LinkOf

LEMMA SpaceSteps == SpaceInv /\ SpaceInv' /\ [Next]_vars => [AddressSpace!SpaceNext]_AddressSpace!spaceVars
<1> SUFFICES ASSUME SpaceInv, SpaceInv', [Next]_vars PROVE [AddressSpace!SpaceNext]_AddressSpace!spaceVars
  OBVIOUS
<1>1. CASE Next
  <2>1. AddressSpace!SpaceNext
    BY <1>1, MappingSteps, AccessingSteps, AtomicSteps DEF Next
  <2> QED
    BY <2>1
<1>2. CASE UNCHANGED vars
  BY <1>2, SpaceKept DEF vars, AddressSpace!spaceVars
<1> QED
  BY <1>1, <1>2

\* The sorted regions, the hashed page table, the recycled backing and the
\* generations are invisible: whatever the calls and their order, the reads, failures,
\* discarded pages, atomic updates and exclusive stores of GuestSparseMemory.c are
\* those of an address space of pages and cells.
THEOREM SparseMemoryIsAddressSpace == Spec => ImplementsAddressSpace
<1>1. Spec => []SpaceInv
  BY InitSpace, NextSpace, PTL DEF Spec
<1>2. Init => AddressSpace!SpaceInit
  BY SpaceBegins
<1>3. Spec => [][AddressSpace!SpaceNext]_AddressSpace!spaceVars
  BY <1>1, SpaceSteps, PTL DEF Spec
<1> QED
  BY <1>2, <1>3, PTL DEF Spec, ImplementsAddressSpace, AddressSpace!SpaceSpec
=============================================================================
