----------------------------- MODULE DataLemmas -----------------------------
(***************************************************************************)
(* Induction over the natural numbers, stated with a set so that           *)
(* first-order provers can use it, and what it gives: the sum of a         *)
(* function over a finite set does not depend on the order in which it is  *)
(* taken, and what is kept of a stream of packets when some are taken from *)
(* its head, put at its end or moved between its parts.                    *)
(***************************************************************************)
EXTENDS Integers, Functions, FiniteSets, Sequences, FiniteSetTheorems, SequenceTheorems,
        WellFoundedInduction, TLAPS

\* A set that holds zero and the successor of each of its numbers holds them all.
LEMMA SetInduction ==
    ASSUME NEW S, 0 \in S, \A n \in Nat : n \in S => n + 1 \in S
    PROVE  Nat \subseteq S
<1> DEFINE R == {ss \in Nat \X Nat : ss[1] < ss[2]}
           T == Nat \ S
<1>1. IsWellFoundedOn(R, Nat)
  BY NatLessThanWellFounded, Zenon DEF OpToRel
<1>2. SUFFICES ASSUME T # {} PROVE FALSE
  OBVIOUS
<1>3. PICK x \in T : \A y \in T : <<y, x>> \notin R
  <2>1. T \subseteq Nat
    OBVIOUS
  <2> HIDE DEF R, T
  <2> QED
    BY <1>1, <1>2, <2>1, WFMin
<1>4. x \in Nat \ {0} /\ x - 1 \in Nat /\ x - 1 \notin S
  OBVIOUS
<1>5. <<x - 1, x>> \in R /\ x - 1 \in T
  BY <1>4
<1> QED
  BY <1>3, <1>5

-----------------------------------------------------------------------------
(* The function MapThenFoldSet defines by recursion over the subsets of S.     *)

Pick(s) == CHOOSE x \in s : TRUE
Sums(f, S, g) ==
    g = [s \in SUBSET S |-> IF s = {} THEN 0 ELSE f[Pick(s)] + g[s \ {Pick(s)}]]

LEMMA SumIsChosen ==
    ASSUME NEW f, NEW S
    PROVE  SumFunctionOnSet(f, S) = (CHOOSE g : Sums(f, S, g))[S]
BY DEF SumFunctionOnSet, FoldFunctionOnSet, MapThenFoldSet, Sums, Pick

LEMMA PickIsIn == ASSUME NEW s, s # {} PROVE Pick(s) \in s
BY DEF Pick

LEMMA WithoutPick ==
    ASSUME NEW s, IsFiniteSet(s), NEW x \in s
    PROVE  /\ IsFiniteSet(s \ {x}) /\ Cardinality(s) \in Nat \ {0}
           /\ Cardinality(s \ {x}) = Cardinality(s) - 1
<1>1. s # {} /\ Cardinality(s) \in Nat /\ Cardinality(s) # 0
  BY FS_CardinalityType, FS_EmptySet
<1> QED
  BY <1>1, FS_RemoveElement

\* Two such functions agree on every finite set both are defined on.
LEMMA SumsAgree ==
    ASSUME NEW f, NEW S1, NEW S2, NEW g1, NEW g2, Sums(f, S1, g1), Sums(f, S2, g2)
    PROVE  \A s \in SUBSET (S1 \cap S2) : IsFiniteSet(s) => g1[s] = g2[s]
<1> DEFINE N == {n \in Nat : \A s \in SUBSET (S1 \cap S2) :
                    IsFiniteSet(s) /\ Cardinality(s) = n => g1[s] = g2[s]}
<1>1. 0 \in N
  <2> SUFFICES ASSUME NEW s \in SUBSET (S1 \cap S2), IsFiniteSet(s), Cardinality(s) = 0
               PROVE  g1[s] = g2[s]
    OBVIOUS
  <2>1. s = {}
    BY FS_EmptySet
  <2> QED
    BY <2>1 DEF Sums
<1>2. ASSUME NEW n \in Nat, n \in N PROVE n + 1 \in N
  <2> SUFFICES ASSUME NEW s \in SUBSET (S1 \cap S2), IsFiniteSet(s), Cardinality(s) = n + 1
               PROVE  g1[s] = g2[s]
    OBVIOUS
  <2>1. s # {} /\ Pick(s) \in s
    BY FS_EmptySet, PickIsIn
  <2>2. IsFiniteSet(s \ {Pick(s)}) /\ Cardinality(s \ {Pick(s)}) = n
    BY <2>1, WithoutPick
  <2>3. g1[s \ {Pick(s)}] = g2[s \ {Pick(s)}]
    BY <1>2, <2>2
  <2>4. /\ g1[s] = f[Pick(s)] + g1[s \ {Pick(s)}]
        /\ g2[s] = f[Pick(s)] + g2[s \ {Pick(s)}]
    <3>1. s \in SUBSET S1 /\ s \in SUBSET S2
      OBVIOUS
    <3> QED
      BY <2>1, <3>1 DEF Sums
  <2> QED
    BY <2>3, <2>4
<1>3. Nat \subseteq N
  <2> HIDE DEF N
  <2> QED
    BY <1>1, <1>2, SetInduction
<1> QED
  BY <1>3, FS_CardinalityType

\* Such a function exists for every finite set.
LEMMA SumsExist ==
    ASSUME NEW f
    PROVE  \A S : IsFiniteSet(S) => \E g : Sums(f, S, g)
<1> DEFINE Value(s) == (CHOOSE g : Sums(f, s, g))[s]
           N == {n \in Nat : \A S : IsFiniteSet(S) /\ Cardinality(S) < n => \E g : Sums(f, S, g)}
<1>1. 0 \in N
  BY FS_CardinalityType
<1>2. ASSUME NEW n \in Nat, n \in N PROVE n + 1 \in N
  <2> SUFFICES ASSUME NEW S, IsFiniteSet(S), Cardinality(S) < n + 1
               PROVE  \E g : Sums(f, S, g)
    OBVIOUS
  <2> DEFINE g == [s \in SUBSET S |->
                      IF s = {} THEN 0 ELSE f[Pick(s)] + Value(s \ {Pick(s)})]
  <2>1. ASSUME NEW s \in SUBSET S, s # {}
        PROVE  g[s \ {Pick(s)}] = Value(s \ {Pick(s)})
    <3> DEFINE t == s \ {Pick(s)}
               h == CHOOSE h : Sums(f, t, h)
    <3>1. IsFiniteSet(s) /\ Cardinality(s) <= Cardinality(S)
      BY FS_Subset
    <3>2. IsFiniteSet(t) /\ Cardinality(t) < n
      <4>1. Pick(s) \in s
        BY <2>1, PickIsIn
      <4>2. /\ IsFiniteSet(t) /\ Cardinality(s) \in Nat \ {0}
            /\ Cardinality(t) = Cardinality(s) - 1
        BY <3>1, <4>1, WithoutPick
      <4>3. Cardinality(S) \in Nat
        BY FS_CardinalityType
      <4> QED
        BY <3>1, <4>2, <4>3
    <3>3. Sums(f, t, h)
      BY <1>2, <3>2
    <3> HIDE DEF h
    <3>4. Value(t) = h[t]
      BY DEF h
    <3>5. CASE t = {}
      BY <3>3, <3>4, <3>5 DEF Sums
    <3>6. CASE t # {}
      <4> DEFINE u == t \ {Pick(t)}
                 k == CHOOSE k : Sums(f, u, k)
      <4>1. Pick(t) \in t
        BY <3>6, PickIsIn
      <4>2. IsFiniteSet(u) /\ Cardinality(u) < n
        <5>1. /\ IsFiniteSet(u) /\ Cardinality(t) \in Nat \ {0}
              /\ Cardinality(u) = Cardinality(t) - 1
          BY <3>2, <4>1, WithoutPick
        <5> QED
          BY <3>2, <5>1
      <4>3. Sums(f, u, k)
        BY <1>2, <4>2
      <4> HIDE DEF k
      <4>4. Value(u) = k[u]
        BY DEF k
      <4>5. h[u] = k[u]
        BY <3>3, <4>2, <4>3, SumsAgree
      <4>6. h[t] = f[Pick(t)] + h[u]
        BY <3>3, <3>6 DEF Sums
      <4>7. t \in SUBSET S /\ g[t] = f[Pick(t)] + Value(u)
        BY <3>6
      <4> QED
        BY <3>4, <4>4, <4>5, <4>6, <4>7
    <3> QED
      BY <3>5, <3>6
  <2>2. Sums(f, S, g)
    <3> HIDE DEF Value
    <3>1. \A s \in SUBSET S : g[s] = IF s = {} THEN 0 ELSE f[Pick(s)] + g[s \ {Pick(s)}]
      BY <2>1
    <3>2. g = [s \in SUBSET S |-> g[s]]
      OBVIOUS
    <3> HIDE DEF g
    <3>3. [s \in SUBSET S |-> g[s]]
            = [s \in SUBSET S |-> IF s = {} THEN 0 ELSE f[Pick(s)] + g[s \ {Pick(s)}]]
      BY <3>1
    <3> QED
      BY <3>2, <3>3 DEF Sums
  <2> QED
    BY <2>2
<1>3. Nat \subseteq N
  <2> HIDE DEF N
  <2> QED
    BY <1>1, <1>2, SetInduction
<1> SUFFICES ASSUME NEW S, IsFiniteSet(S) PROVE \E g : Sums(f, S, g)
  OBVIOUS
<1>4. Cardinality(S) \in Nat /\ Cardinality(S) + 1 \in N
  BY <1>3, FS_CardinalityType
<1> QED
  BY <1>4

-----------------------------------------------------------------------------
(* The sum of no numbers, of one, and with one more or one less.               *)

LEMMA SumOfNone == ASSUME NEW f PROVE SumFunctionOnSet(f, {}) = 0
<1>1. Sums(f, {}, CHOOSE g : Sums(f, {}, g))
  BY SumsExist, FS_EmptySet
<1> QED
  BY <1>1, SumIsChosen DEF Sums

LEMMA SumPicks ==
    ASSUME NEW f, NEW s, IsFiniteSet(s), s # {}
    PROVE  SumFunctionOnSet(f, s) = f[Pick(s)] + SumFunctionOnSet(f, s \ {Pick(s)})
<1> DEFINE t == s \ {Pick(s)}
           g == CHOOSE g : Sums(f, s, g)
           h == CHOOSE h : Sums(f, t, h)
<1>1. Pick(s) \in s /\ IsFiniteSet(t)
  BY PickIsIn, WithoutPick
<1>2. Sums(f, s, g) /\ Sums(f, t, h)
  BY <1>1, SumsExist
<1>3. SumFunctionOnSet(f, s) = g[s] /\ SumFunctionOnSet(f, t) = h[t]
  BY SumIsChosen
<1> HIDE DEF g, h
<1>4. g[t] = h[t]
  BY <1>1, <1>2, SumsAgree
<1>5. g[s] = f[Pick(s)] + g[t]
  BY <1>2 DEF Sums
<1> QED
  BY <1>3, <1>4, <1>5

LEMMA SumType ==
    ASSUME NEW f, NEW S, \A x \in S : f[x] \in Nat
    PROVE  \A s \in SUBSET S : IsFiniteSet(s) => SumFunctionOnSet(f, s) \in Nat
<1> DEFINE N == {n \in Nat : \A s \in SUBSET S :
                    IsFiniteSet(s) /\ Cardinality(s) = n => SumFunctionOnSet(f, s) \in Nat}
<1>1. 0 \in N
  BY SumOfNone, FS_EmptySet
<1>2. ASSUME NEW n \in Nat, n \in N PROVE n + 1 \in N
  <2> SUFFICES ASSUME NEW s \in SUBSET S, IsFiniteSet(s), Cardinality(s) = n + 1
               PROVE  SumFunctionOnSet(f, s) \in Nat
    OBVIOUS
  <2>1. s # {} /\ Pick(s) \in s
    BY FS_EmptySet, PickIsIn
  <2>2. IsFiniteSet(s \ {Pick(s)}) /\ Cardinality(s \ {Pick(s)}) = n
    BY <2>1, WithoutPick
  <2>3. SumFunctionOnSet(f, s \ {Pick(s)}) \in Nat
    BY <1>2, <2>2
  <2> QED
    BY <2>1, <2>3, SumPicks
<1>3. Nat \subseteq N
  <2> HIDE DEF N
  <2> QED
    BY <1>1, <1>2, SetInduction
<1> QED
  BY <1>3, FS_CardinalityType

\* The sum may be taken from any element on.
LEMMA SumWithout ==
    ASSUME NEW f, NEW S, IsFiniteSet(S), \A x \in S : f[x] \in Nat, NEW e \in S
    PROVE  SumFunctionOnSet(f, S) = f[e] + SumFunctionOnSet(f, S \ {e})
<1> DEFINE V(s) == SumFunctionOnSet(f, s)
           N == {n \in Nat : \A s \in SUBSET S : IsFiniteSet(s) /\ Cardinality(s) = n =>
                    V(s) \in Nat /\ \A x \in s : V(s) = f[x] + V(s \ {x})}
<1> HIDE DEF V
<1>1. 0 \in N
  <2> SUFFICES ASSUME NEW s \in SUBSET S, IsFiniteSet(s), Cardinality(s) = 0
               PROVE  V(s) \in Nat /\ \A x \in s : V(s) = f[x] + V(s \ {x})
    OBVIOUS
  <2>1. s = {}
    BY FS_EmptySet
  <2> QED
    BY <2>1, SumOfNone DEF V
<1>2. ASSUME NEW n \in Nat, n \in N PROVE n + 1 \in N
  <2> SUFFICES ASSUME NEW s \in SUBSET S, IsFiniteSet(s), Cardinality(s) = n + 1
               PROVE  V(s) \in Nat /\ \A x \in s : V(s) = f[x] + V(s \ {x})
    OBVIOUS
  <2> DEFINE p == Pick(s)
  <2>1. s # {} /\ p \in s
    BY FS_EmptySet, PickIsIn
  <2>2. ASSUME NEW x \in s
        PROVE  IsFiniteSet(s \ {x}) /\ Cardinality(s \ {x}) = n /\ s \ {x} \in SUBSET S
    BY WithoutPick
  <2>3. V(s) = f[p] + V(s \ {p})
    BY <2>1, SumPicks DEF V
  <2> HIDE DEF p
  <2>4. V(s \ {p}) \in Nat /\ V(s) \in Nat
    BY <1>2, <2>1, <2>2, <2>3
  <2>5. ASSUME NEW x \in s, x # p PROVE V(s) = f[x] + V(s \ {x})
    <3> DEFINE w == (s \ {p}) \ {x}
    <3>1. V(s \ {p}) = f[x] + V(w)
      BY <1>2, <2>1, <2>2, <2>5
    <3>2. V(s \ {x}) = f[p] + V(w)
      <4>1. w = (s \ {x}) \ {p}
        OBVIOUS
      <4> HIDE DEF w
      <4> QED
        BY <1>2, <2>1, <2>2, <2>5, <4>1
    <3>3. V(w) \in Nat
      BY <2>1, <2>2, WithoutPick, SumType DEF V
    <3>4. f[p] \in Nat /\ f[x] \in Nat
      BY <2>1
    <3> HIDE DEF w
    <3> QED
      BY <2>3, <3>1, <3>2, <3>3, <3>4
  <2> QED
    BY <2>3, <2>4, <2>5
<1>3. Nat \subseteq N
  <2> HIDE DEF N
  <2> QED
    BY <1>1, <1>2, SetInduction
<1>4. S \in SUBSET S /\ Cardinality(S) \in N
  BY <1>3, FS_CardinalityType
<1> QED
  BY <1>4 DEF V

LEMMA SumOfOne ==
    ASSUME NEW f, NEW x, f[x] \in Nat
    PROVE  SumFunctionOnSet(f, {x}) = f[x]
<1>1. IsFiniteSet({x}) /\ {x} \ {x} = {}
  BY FS_Singleton
<1>2. SumFunctionOnSet(f, {x}) = f[x] + SumFunctionOnSet(f, {x} \ {x})
  BY <1>1, SumWithout
<1> QED
  BY <1>1, <1>2, SumOfNone

LEMMA SumAdds ==
    ASSUME NEW f, NEW S, IsFiniteSet(S), NEW x, x \notin S, \A y \in S \cup {x} : f[y] \in Nat
    PROVE  SumFunctionOnSet(f, S \cup {x}) = SumFunctionOnSet(f, S) + f[x]
<1> DEFINE T == S \cup {x}
<1>1. IsFiniteSet(T) /\ x \in T /\ T \ {x} = S
  BY FS_AddElement
<1> HIDE DEF T
<1>2. SumFunctionOnSet(f, T) = f[x] + SumFunctionOnSet(f, T \ {x})
  <2>1. \A y \in T : f[y] \in Nat
    BY DEF T
  <2> QED
    BY <1>1, <2>1, SumWithout, SMT
<1>3. SumFunctionOnSet(f, S) \in Nat /\ f[x] \in Nat
  BY SumType
<1> QED
  BY <1>1, <1>2, <1>3 DEF T

\* What is taken out of a set is taken out of its sum.
LEMMA SumSubtracts ==
    ASSUME NEW f, NEW S, IsFiniteSet(S), \A x \in S : f[x] \in Nat
    PROVE  \A P \in SUBSET S :
             SumFunctionOnSet(f, S \ P) = SumFunctionOnSet(f, S) - SumFunctionOnSet(f, P)
<1> DEFINE V(s) == SumFunctionOnSet(f, s)
           N == {n \in Nat : \A P \in SUBSET S : Cardinality(P) = n => V(S \ P) = V(S) - V(P)}
<1>0. \A s \in SUBSET S : IsFiniteSet(s) /\ V(s) \in Nat
  BY FS_Subset, SumType
<1>00. \A s \in SUBSET S : \A x \in s : V(s) = f[x] + V(s \ {x})
  <2> TAKE s \in SUBSET S
  <2> TAKE x \in s
  <2>1. IsFiniteSet(s) /\ \A y \in s : f[y] \in Nat
    BY <1>0
  <2> QED
    BY <2>1, SumWithout, SMTT(40)
<1>000. V({}) = 0
  BY SumOfNone
<1> HIDE DEF V
<1>1. 0 \in N
  <2> SUFFICES ASSUME NEW P \in SUBSET S, Cardinality(P) = 0 PROVE V(S \ P) = V(S) - V(P)
    OBVIOUS
  <2>1. P = {} /\ S \ P = S
    BY <1>0, FS_EmptySet
  <2> QED
    BY <1>0, <1>000, <2>1
<1>2. ASSUME NEW n \in Nat, n \in N PROVE n + 1 \in N
  <2> SUFFICES ASSUME NEW P \in SUBSET S, Cardinality(P) = n + 1 PROVE V(S \ P) = V(S) - V(P)
    OBVIOUS
  <2>1. P # {}
    BY FS_EmptySet
  <2>2. PICK x : x \in P
    BY <2>1
  <2> DEFINE Q == P \ {x}
             T == S \ Q
  <2>3. Q \in SUBSET S /\ T \in SUBSET S /\ Cardinality(Q) = n
    BY <1>0, <2>2, WithoutPick
  <2>4. V(T) = V(S) - V(Q)
    BY <1>2, <2>3
  <2>5. x \in T /\ S \ P = T \ {x}
    BY <2>2
  <2>6. V(P) = f[x] + V(Q)
    BY <1>00, <2>2
  <2> HIDE DEF Q, T
  <2>7. V(T) = f[x] + V(S \ P)
    BY <1>00, <2>3, <2>5
  <2>8. f[x] \in Nat /\ S \ P \in SUBSET S
    BY <2>2
  <2>9. V(S \ P) \in Nat /\ V(S) \in Nat /\ V(Q) \in Nat /\ V(T) \in Nat
    BY <1>0, <2>3, <2>8
  <2> QED
    BY <2>4, <2>6, <2>7, <2>8, <2>9
<1>3. Nat \subseteq N
  <2> HIDE DEF N
  <2> QED
    BY <1>1, <1>2, SetInduction
<1> QED
  BY <1>0, <1>3, FS_CardinalityType DEF V

\* Functions that agree on a set have the same sum there.
LEMMA SumSame ==
    ASSUME NEW f, NEW g, NEW S, IsFiniteSet(S), \A x \in S : f[x] = g[x]
    PROVE  SumFunctionOnSet(f, S) = SumFunctionOnSet(g, S)
<1> DEFINE u == CHOOSE u : Sums(f, S, u)
           v == CHOOSE v : Sums(g, S, v)
<1>1. Sums(f, S, u) /\ Sums(g, S, v)
  BY SumsExist
<1>2. Sums(g, S, u)
  <2> HIDE DEF u
  <2>1. u = [s \in SUBSET S |-> IF s = {} THEN 0 ELSE f[Pick(s)] + u[s \ {Pick(s)}]]
    BY <1>1 DEF Sums
  <2>2. \A s \in SUBSET S : s # {} => f[Pick(s)] = g[Pick(s)]
    BY PickIsIn
  <2>3. [s \in SUBSET S |-> IF s = {} THEN 0 ELSE f[Pick(s)] + u[s \ {Pick(s)}]]
        = [s \in SUBSET S |-> IF s = {} THEN 0 ELSE g[Pick(s)] + u[s \ {Pick(s)}]]
    BY <2>2
  <2> QED
    BY <2>1, <2>3 DEF Sums
<1>3. u[S] = v[S]
  <2> HIDE DEF u, v
  <2> QED
    BY <1>1, <1>2, SumsAgree
<1> QED
  BY <1>3, SumIsChosen

LEMMA SumOfZeros ==
    ASSUME NEW f, NEW S, IsFiniteSet(S), \A x \in S : f[x] = 0
    PROVE  SumFunctionOnSet(f, S) = 0
<1> DEFINE u == [s \in SUBSET S |-> 0]
           v == CHOOSE v : Sums(f, S, v)
<1>1. Sums(f, S, v)
  BY SumsExist
<1>2. Sums(f, S, u)
  <2>1. \A s \in SUBSET S : s # {} => f[Pick(s)] = 0 /\ s \ {Pick(s)} \in SUBSET S
    BY PickIsIn
  <2>2. \A s \in SUBSET S : u[s] = IF s = {} THEN 0 ELSE f[Pick(s)] + u[s \ {Pick(s)}]
    BY <2>1
  <2>3. u = [s \in SUBSET S |-> IF s = {} THEN 0 ELSE f[Pick(s)] + u[s \ {Pick(s)}]]
    BY <2>2
  <2> QED
    BY <2>3 DEF Sums
<1>3. u[S] = v[S]
  <2> HIDE DEF u, v
  <2> QED
    BY <1>1, <1>2, SumsAgree
<1> QED
  BY <1>3, SumIsChosen

\* Elements that are replaced one by one, each by one as large, leave the sum as it is.
LEMMA SumOfImage ==
    ASSUME NEW f, NEW g, NEW S, IsFiniteSet(S), \A x \in S : f[x] \in Nat /\ f[g[x]] = f[x],
           \A x, y \in S : g[x] = g[y] => x = y
    PROVE  IsFiniteSet({g[x] : x \in S}) /\ SumFunctionOnSet(f, {g[x] : x \in S}) = SumFunctionOnSet(f, S)
<1> DEFINE Image(s) == {g[x] : x \in s}
           N == {n \in Nat : \A s \in SUBSET S : IsFiniteSet(s) /\ Cardinality(s) = n =>
                    IsFiniteSet(Image(s)) /\ SumFunctionOnSet(f, Image(s)) = SumFunctionOnSet(f, s)}
<1>1. 0 \in N
  <2> SUFFICES ASSUME NEW s \in SUBSET S, IsFiniteSet(s), Cardinality(s) = 0
               PROVE  IsFiniteSet(Image(s)) /\ SumFunctionOnSet(f, Image(s)) = SumFunctionOnSet(f, s)
    OBVIOUS
  <2>1. s = {}
    BY FS_EmptySet
  <2>2. Image(s) = s
    BY <2>1
  <2> QED
    BY <2>2
<1>2. ASSUME NEW n \in Nat, n \in N PROVE n + 1 \in N
  <2> SUFFICES ASSUME NEW s \in SUBSET S, IsFiniteSet(s), Cardinality(s) = n + 1
               PROVE  IsFiniteSet(Image(s)) /\ SumFunctionOnSet(f, Image(s)) = SumFunctionOnSet(f, s)
    OBVIOUS
  <2>1. PICK x : x \in s
    BY FS_EmptySet
  <2> DEFINE t == s \ {x}
  <2>2. IsFiniteSet(t) /\ Cardinality(t) = n /\ t \in SUBSET S
    BY <2>1, WithoutPick
  <2>3. IsFiniteSet(Image(t)) /\ SumFunctionOnSet(f, Image(t)) = SumFunctionOnSet(f, t)
    BY <1>2, <2>2
  <2>4. Image(s) = Image(t) \cup {g[x]} /\ g[x] \notin Image(t)
    BY <2>1
  <2>5. \A y \in Image(t) \cup {g[x]} : f[y] \in Nat
    BY <2>1
  <2>6. SumFunctionOnSet(f, s) = f[x] + SumFunctionOnSet(f, t)
    BY <2>1, SumWithout
  <2>7. SumFunctionOnSet(f, t) \in Nat /\ f[x] \in Nat /\ f[g[x]] = f[x]
    BY <2>1, <2>2, SumType
  <2> HIDE DEF t, Image
  <2>8. IsFiniteSet(Image(t) \cup {g[x]})
    BY <2>3, FS_AddElement
  <2>9. SumFunctionOnSet(f, Image(t) \cup {g[x]}) = SumFunctionOnSet(f, Image(t)) + f[g[x]]
    BY <2>3, <2>4, <2>5, SumAdds
  <2> QED
    BY <2>3, <2>4, <2>6, <2>7, <2>8, <2>9
<1>3. Nat \subseteq N
  <2> HIDE DEF N
  <2> QED
    BY <1>1, <1>2, SetInduction
<1>4. Cardinality(S) \in N
  BY <1>3, FS_CardinalityType
<1> QED
  BY <1>4

-----------------------------------------------------------------------------
(* What is kept of a sequence.                                               *)

\* The elements of s that are in S, in their order.
Kept(s, S) ==
    LET kept[k \in 0 .. Len(s)] ==
            IF k = 0 THEN <<>>
            ELSE IF s[k] \in S THEN kept[k - 1] \o <<s[k]>> ELSE kept[k - 1]
    IN  kept[Len(s)]

Keeps(s, S, m, f) ==
    f = [k \in 0 .. m |->
            IF k = 0 THEN <<>>
            ELSE IF s[k] \in S THEN f[k - 1] \o <<s[k]>> ELSE f[k - 1]]

\* The recursion that defines Kept has a solution of every length.
LEMMA KeepsExists == ASSUME NEW s, NEW S PROVE \A m \in Nat : \E f : Keeps(s, S, m, f)
<1> DEFINE N == {m \in Nat : \E f : Keeps(s, S, m, f)}
<1>1. 0 \in N
  <2> DEFINE f == [k \in 0 .. 0 |-> <<>>]
  <2>1. Keeps(s, S, 0, f)
    BY DEF Keeps
  <2> QED
    BY <2>1
<1>2. ASSUME NEW m \in Nat, m \in N PROVE m + 1 \in N
  <2>1. PICK f : Keeps(s, S, m, f)
    BY <1>2
  <2> DEFINE More(k) == IF s[k] \in S THEN f[k - 1] \o <<s[k]>> ELSE f[k - 1]
             g == [k \in 0 .. m + 1 |-> IF k = m + 1 THEN More(k) ELSE f[k]]
  <2>2. \A k \in 0 .. m : g[k] = f[k]
    OBVIOUS
  <2>3. ASSUME NEW k \in 0 .. m + 1
        PROVE  g[k] = IF k = 0 THEN <<>>
                      ELSE IF s[k] \in S THEN g[k - 1] \o <<s[k]>> ELSE g[k - 1]
    <3>1. CASE k = m + 1
      <4>1. g[k] = More(k) /\ k # 0 /\ k - 1 \in 0 .. m
        BY <3>1
      <4>2. g[k - 1] = f[k - 1]
        BY <2>2, <4>1
      <4> HIDE DEF g
      <4> QED
        BY <4>1, <4>2
    <3>2. CASE k \in 0 .. m
      <4>1. g[k] = f[k] /\ (k # 0 => g[k - 1] = f[k - 1])
        BY <2>2, <3>2
      <4> HIDE DEF g
      <4> QED
        BY <2>1, <3>2, <4>1 DEF Keeps
    <3> QED
      BY <3>1, <3>2
  <2>4. Keeps(s, S, m + 1, g)
    <3>1. g = [k \in 0 .. m + 1 |-> g[k]]
      OBVIOUS
    <3> HIDE DEF g
    <3> QED
      BY <2>3, <3>1 DEF Keeps
  <2> QED
    BY <2>4
<1>3. Nat \subseteq N
  <2> HIDE DEF N
  <2> QED
    BY <1>1, <1>2, SetInduction
<1> QED
  BY <1>3

\* What f does, step by step.
Keeping(s, S, m, f) ==
    /\ f[0] = <<>>
    /\ \A k \in 1 .. m : f[k] = IF s[k] \in S THEN f[k - 1] \o <<s[k]>> ELSE f[k - 1]

LEMMA KeepsSteps ==
    ASSUME NEW s, NEW S, NEW m \in Nat, NEW f, Keeps(s, S, m, f)
    PROVE  Keeping(s, S, m, f)
<1>1. f[0] = <<>>
  BY DEF Keeps
<1>2. ASSUME NEW k \in 1 .. m
      PROVE  f[k] = IF s[k] \in S THEN f[k - 1] \o <<s[k]>> ELSE f[k - 1]
  <2>1. k \in 0 .. m /\ k # 0
    OBVIOUS
  <2> QED
    BY <2>1, Zenon DEF Keeps
<1> QED
  BY <1>1, <1>2 DEF Keeping

\* Kept returns the last value of that recursion.
LEMMA KeptIsKeeps ==
    ASSUME NEW U, NEW s \in Seq(U), NEW S
    PROVE  \E f : Keeping(s, S, Len(s), f) /\ Kept(s, S) = f[Len(s)]
<1> DEFINE f == CHOOSE f : Keeps(s, S, Len(s), f)
<1>1. Kept(s, S) = f[Len(s)]
  BY DEF Kept, Keeps
<1>2. Keeps(s, S, Len(s), f)
  BY KeepsExists
<1> HIDE DEF f
<1>3. Len(s) \in Nat
  OBVIOUS
<1> QED
  BY <1>1, <1>2, <1>3, KeepsSteps, Zenon

LEMMA KeptEmpty == ASSUME NEW S PROVE Kept(<<>>, S) = <<>>
<1> DEFINE s == <<>>
<1>1. s \in Seq({}) /\ Len(s) = 0
  OBVIOUS
<1> HIDE DEF s
<1>2. PICK f : Keeping(s, S, Len(s), f) /\ Kept(s, S) = f[Len(s)]
  BY <1>1, KeptIsKeeps, Zenon
<1> QED
  BY <1>1, <1>2 DEF s, Keeping

\* One more element at the end is kept or not.
LEMMA KeptAppend ==
    ASSUME NEW U, NEW s \in Seq(U), NEW x \in U, NEW S
    PROVE  Kept(s \o <<x>>, S) = IF x \in S THEN Kept(s, S) \o <<x>> ELSE Kept(s, S)
<1> DEFINE t == s \o <<x>>
           n == Len(s)
<1>1. /\ t \in Seq(U) /\ Len(t) = n + 1 /\ n \in Nat /\ t[n + 1] = x
      /\ \A k \in 1 .. n : t[k] = s[k]
  OBVIOUS
<1> HIDE DEF t
<1>a. PICK f : Keeping(s, S, Len(s), f) /\ Kept(s, S) = f[Len(s)]
  BY KeptIsKeeps, Zenon
<1>b. PICK g : Keeping(t, S, Len(t), g) /\ Kept(t, S) = g[Len(t)]
  BY <1>1, KeptIsKeeps, Zenon
<1>2. /\ f[0] = <<>>
      /\ \A k \in 1 .. Len(s) : f[k] = IF s[k] \in S THEN f[k - 1] \o <<s[k]>> ELSE f[k - 1]
      /\ Kept(s, S) = f[Len(s)]
  BY <1>a DEF Keeping
<1>3. /\ g[0] = <<>>
      /\ \A k \in 1 .. Len(t) : g[k] = IF t[k] \in S THEN g[k - 1] \o <<t[k]>> ELSE g[k - 1]
      /\ Kept(t, S) = g[Len(t)]
  BY <1>b DEF Keeping
<1> DEFINE N == {k \in Nat : k <= n => g[k] = f[k]}
<1>4. 0 \in N
  BY <1>2, <1>3
<1>5. ASSUME NEW k \in Nat, k \in N PROVE k + 1 \in N
  <2>1. SUFFICES ASSUME k + 1 <= n PROVE g[k + 1] = f[k + 1]
    OBVIOUS
  <2>2. /\ g[k] = f[k] /\ k + 1 \in 1 .. Len(s) /\ k + 1 \in 1 .. Len(t)
        /\ t[k + 1] = s[k + 1] /\ (k + 1) - 1 = k
    BY <1>1, <1>5, <2>1
  <2>3. g[k + 1] = IF t[k + 1] \in S THEN g[(k + 1) - 1] \o <<t[k + 1]>> ELSE g[(k + 1) - 1]
    BY <1>3, <2>2, Zenon
  <2>4. f[k + 1] = IF s[k + 1] \in S THEN f[(k + 1) - 1] \o <<s[k + 1]>> ELSE f[(k + 1) - 1]
    BY <1>2, <2>2, Zenon
  <2> QED
    BY <2>2, <2>3, <2>4
<1>6. Nat \subseteq N
  <2> HIDE DEF N
  <2> QED
    BY <1>4, <1>5, SetInduction
<1>7. g[n] = f[n]
  BY <1>1, <1>6
<1>8. g[n + 1] = IF t[n + 1] \in S THEN g[(n + 1) - 1] \o <<t[n + 1]>> ELSE g[(n + 1) - 1]
  <2>1. n + 1 \in 1 .. Len(t)
    BY <1>1
  <2> QED
    BY <1>3, <2>1, Zenon
<1>9. (n + 1) - 1 = n
  BY <1>1
<1> QED
  BY <1>1, <1>2, <1>3, <1>7, <1>8, <1>9 DEF t

\* A sequence that is not empty is its front and its last element.
Ends(s, t, x) == s = t \o <<x>> /\ Len(s) = Len(t) + 1 /\ x = s[Len(s)]

LEMMA FrontAndLast ==
    ASSUME NEW U, NEW s \in Seq(U), s # <<>>
    PROVE  \E t \in Seq(U) : \E x \in U : Ends(s, t, x)
<1> DEFINE n == Len(s) - 1
           t == SubSeq(s, 1, n)
<1>0. n \in Nat /\ Len(s) = n + 1
  OBVIOUS
<1> HIDE DEF n
<1>1. t \in Seq(U) /\ Len(t) = n /\ s[n + 1] \in U
  BY <1>0
<1>2. s = t \o <<s[n + 1]>>
  BY <1>0
<1> HIDE DEF t
<1>3. Ends(s, t, s[n + 1])
  BY <1>0, <1>1, <1>2 DEF Ends
<1> QED
  BY <1>1, <1>3

\* What is kept is of the sequence and of the set.
LEMMA KeptType ==
    ASSUME NEW U, NEW S
    PROVE  \A s \in Seq(U) : Kept(s, S) \in Seq(U) /\ Kept(s, S) \in Seq(S)
<1> DEFINE N == {n \in Nat : \A s \in Seq(U) : Len(s) = n => Kept(s, S) \in Seq(U) /\ Kept(s, S) \in Seq(S)}
<1>1. 0 \in N
  <2>1. ASSUME NEW s \in Seq(U), Len(s) = 0 PROVE Kept(s, S) \in Seq(U) /\ Kept(s, S) \in Seq(S)
    <3>1. s = <<>> /\ <<>> \in Seq(U) /\ <<>> \in Seq(S)
      BY <2>1
    <3>2. Kept(s, S) = <<>>
      BY <3>1, KeptEmpty, Zenon
    <3> QED
      BY <3>1, <3>2, Zenon
  <2> QED
    BY <2>1
<1>2. ASSUME NEW n \in Nat, n \in N PROVE n + 1 \in N
  <2>1. ASSUME NEW s \in Seq(U), Len(s) = n + 1 PROVE Kept(s, S) \in Seq(U) /\ Kept(s, S) \in Seq(S)
    <3>0. s # <<>> /\ Len(s) - 1 = n
      BY <2>1
    <3>1. PICK t \in Seq(U) : \E x \in U : Ends(s, t, x)
      BY <3>0, FrontAndLast, Zenon
    <3>x. PICK x \in U : Ends(s, t, x)
      BY <3>1
    <3>2. s = t \o <<x>> /\ Len(t) = n
      BY <2>1, <3>x DEF Ends
    <3>3. Kept(t, S) \in Seq(U) /\ Kept(t, S) \in Seq(S)
      BY <1>2, <3>2
    <3>4. Kept(s, S) = IF x \in S THEN Kept(t, S) \o <<x>> ELSE Kept(t, S)
      BY <3>2, KeptAppend
    <3> QED
      BY <3>3, <3>4
  <2> QED
    BY <2>1
<1>3. Nat \subseteq N
  <2> HIDE DEF N
  <2> QED
    BY <1>1, <1>2, SetInduction
<1> QED
  <2>1. ASSUME NEW s \in Seq(U) PROVE Len(s) \in N
    BY <1>3
  <2> QED
    BY <2>1

LEMMA Associative ==
    ASSUME NEW V, NEW a \in Seq(V), NEW b \in Seq(V), NEW c \in Seq(V), NEW ab, NEW bc, ab = a \o b, bc = b \o c
    PROVE  ab \o c = a \o bc
<1>1. (a \o b) \o c = a \o (b \o c)
  BY SMTT(40)
<1> QED
  BY <1>1

\* q is a followed by b.
Cat(q, a, b) == q = a \o b

LEMMA CatAssociates ==
    ASSUME NEW V, NEW a \in Seq(V), NEW b \in Seq(V), NEW c \in Seq(V), NEW ab, NEW bc, NEW r,
           Cat(ab, a, b), Cat(bc, b, c), Cat(r, a, bc)
    PROVE  Cat(r, ab, c)
<1>1. ab = a \o b /\ bc = b \o c /\ r = a \o bc
  BY DEF Cat
<1>2. (a \o b) \o c = a \o (b \o c)
  OBVIOUS
<1> QED
  BY <1>1, <1>2 DEF Cat

\* The elements of two sequences in a row, by their index.
LEMMA CatAt ==
    ASSUME NEW V, NEW a \in Seq(V), NEW b \in Seq(V), NEW q, Cat(q, a, b)
    PROVE  /\ q \in Seq(V) /\ Len(q) = Len(a) + Len(b)
           /\ \A i \in 1 .. Len(a) + Len(b) : q[i] = IF i <= Len(a) THEN a[i] ELSE b[i - Len(a)]
BY DEF Cat

\* What is kept of two sequences in a row.
LEMMA KeptConcat ==
    ASSUME NEW U, NEW s \in Seq(U), NEW S
    PROVE  \A t \in Seq(U) : Kept(s \o t, S) = Kept(s, S) \o Kept(t, S)
<1>0. Kept(s, S) \in Seq(U)
  BY KeptType
<1> DEFINE N == {n \in Nat : \A t \in Seq(U) : Len(t) = n => Kept(s \o t, S) = Kept(s, S) \o Kept(t, S)}
<1>1. 0 \in N
  <2>1. ASSUME NEW t \in Seq(U), Len(t) = 0 PROVE Kept(s \o t, S) = Kept(s, S) \o Kept(t, S)
    <3>1. t = <<>> /\ s \o t = s
      BY <2>1
    <3>2. Kept(t, S) = <<>>
      BY <3>1, KeptEmpty
    <3> QED
      BY <1>0, <3>1, <3>2
  <2> QED
    BY <2>1
<1>2. ASSUME NEW n \in Nat, n \in N PROVE n + 1 \in N
  <2>1. ASSUME NEW t \in Seq(U), Len(t) = n + 1 PROVE Kept(s \o t, S) = Kept(s, S) \o Kept(t, S)
    <3>0. t # <<>>
      BY <2>1
    <3>1. PICK v \in Seq(U) : \E x \in U : Ends(t, v, x)
      BY <3>0, FrontAndLast, Zenon
    <3>x. PICK x \in U : Ends(t, v, x)
      BY <3>1
    <3>2. t = v \o <<x>> /\ Len(v) = n
      BY <2>1, <3>x DEF Ends
    <3>3. Kept(s \o v, S) = Kept(s, S) \o Kept(v, S) /\ Kept(v, S) \in Seq(U)
      BY <1>2, <3>2, KeptType
    <3>4. Kept(t, S) = IF x \in S THEN Kept(v, S) \o <<x>> ELSE Kept(v, S)
      BY <3>2, KeptAppend
    <3>5. s \o t = (s \o v) \o <<x>> /\ s \o v \in Seq(U)
      BY <3>2
    <3>6. Kept(s \o t, S) = IF x \in S THEN Kept(s \o v, S) \o <<x>> ELSE Kept(s \o v, S)
      <4> DEFINE w == s \o v
      <4> HIDE DEF w
      <4>1. Kept(w \o <<x>>, S) = IF x \in S THEN Kept(w, S) \o <<x>> ELSE Kept(w, S)
        BY <3>5, KeptAppend DEF w
      <4> QED
        BY <3>5, <4>1 DEF w
    <3>7. (Kept(s, S) \o Kept(v, S)) \o <<x>> = Kept(s, S) \o (Kept(v, S) \o <<x>>)
      <4>2. Kept(s, S) \in Seq(U) /\ Kept(v, S) \in Seq(U) /\ <<x>> \in Seq(U)
        BY <1>0, <3>3
      <4> QED
        BY <4>2, Associative
    <3> QED
      BY <3>3, <3>4, <3>6, <3>7
  <2> QED
    BY <2>1
<1>3. Nat \subseteq N
  <2> HIDE DEF N
  <2> QED
    BY <1>1, <1>2, SetInduction
<1> QED
  <2>1. ASSUME NEW t \in Seq(U) PROVE Len(t) \in N
    BY <1>3
  <2> QED
    BY <2>1

LEMMA KeptOne ==
    ASSUME NEW x, NEW S
    PROVE  Kept(<<x>>, S) = IF x \in S THEN <<x>> ELSE <<>>
<1>1. <<>> \in Seq({x}) /\ x \in {x} /\ <<>> \o <<x>> = <<x>>
  OBVIOUS
<1>2. Kept(<<>> \o <<x>>, S) = IF x \in S THEN Kept(<<>>, S) \o <<x>> ELSE Kept(<<>>, S)
  BY <1>1, KeptAppend
<1> QED
  BY <1>1, <1>2, KeptEmpty

\* What is kept of the head and of the tail.
LEMMA KeptHead ==
    ASSUME NEW U, NEW s \in Seq(U), s # <<>>, NEW S
    PROVE  /\ Tail(s) \in Seq(U) /\ Head(s) \in U
           /\ Kept(s, S) = (IF Head(s) \in S THEN <<Head(s)>> ELSE <<>>) \o Kept(Tail(s), S)
<1> DEFINE h == <<Head(s)>>
           t == Tail(s)
<1>1. h \in Seq(U) /\ t \in Seq(U) /\ s = h \o t /\ Head(s) \in U
  OBVIOUS
<1>3. Kept(h, S) = IF Head(s) \in S THEN h ELSE <<>>
  BY KeptOne
<1> HIDE DEF h, t
<1>2. Kept(h \o t, S) = Kept(h, S) \o Kept(t, S)
  BY <1>1, KeptConcat
<1> QED
  BY <1>1, <1>2, <1>3 DEF h, t

\* What is kept of two parts is what is kept of the whole.
LEMMA KeptSplit ==
    ASSUME NEW U, NEW s \in Seq(U), NEW n \in 0 .. Len(s), NEW S
    PROVE  Kept(SubSeq(s, 1, n), S) \o Kept(SubSeq(s, n + 1, Len(s)), S) = Kept(s, S)
<1> DEFINE a == SubSeq(s, 1, n)
           b == SubSeq(s, n + 1, Len(s))
<1>1. a \in Seq(U) /\ b \in Seq(U) /\ Len(a) = n /\ Len(b) = Len(s) - n
  OBVIOUS
<1>2. a \o b = s
  <2>1. \A i \in 1 .. n : a[i] = s[i]
    OBVIOUS
  <2>2. \A i \in 1 .. Len(s) - n : b[i] = s[n + i]
    OBVIOUS
  <2> HIDE DEF a, b
  <2>3. a \o b \in Seq(U) /\ Len(a \o b) = Len(s)
    BY <1>1
  <2>4. ASSUME NEW i \in 1 .. Len(s) PROVE (a \o b)[i] = s[i]
    <3>1. (a \o b)[i] = IF i <= n THEN a[i] ELSE b[i - n]
      BY <1>1
    <3>2. i > n => i - n \in 1 .. Len(s) - n /\ n + (i - n) = i
      OBVIOUS
    <3>3. i > n => b[i - n] = s[i]
      BY <2>2, <3>2
    <3>4. i <= n => a[i] = s[i]
      BY <2>1
    <3> QED
      BY <3>1, <3>3, <3>4
  <2> QED
    BY <2>3, <2>4, SeqEqual
<1> HIDE DEF a, b
<1>3. Kept(a \o b, S) = Kept(a, S) \o Kept(b, S)
  BY <1>1, KeptConcat
<1> QED
  BY <1>2, <1>3 DEF a, b

\* Whatever s holds of S, Kept(s, S) holds.
LEMMA KeptHolds ==
    ASSUME NEW U, NEW S
    PROVE  \A s \in Seq(U) : \A i \in 1 .. Len(s) :
              s[i] \in S => \E j \in 1 .. Len(Kept(s, S)) : Kept(s, S)[j] = s[i]
<1> DEFINE Holds(s) == \A i \in 1 .. Len(s) : s[i] \in S => \E j \in 1 .. Len(Kept(s, S)) : Kept(s, S)[j] = s[i]
           N == {n \in Nat : \A s \in Seq(U) : Len(s) = n => Holds(s)}
<1>1. 0 \in N
  <2>1. ASSUME NEW s \in Seq(U), Len(s) = 0 PROVE Holds(s)
    BY <2>1
  <2> HIDE DEF Holds
  <2> QED
    BY <2>1
<1>2. ASSUME NEW n \in Nat, n \in N PROVE n + 1 \in N
  <2>1. ASSUME NEW s \in Seq(U), Len(s) = n + 1 PROVE Holds(s)
    <3>0. s # <<>>
      BY <2>1
    <3>1. PICK t \in Seq(U) : \E x \in U : Ends(s, t, x)
      BY <3>0, FrontAndLast, Zenon
    <3>x. PICK x \in U : Ends(s, t, x)
      BY <3>1
    <3>2. /\ s = t \o <<x>> /\ Len(t) = n /\ s[n + 1] = x
          /\ \A i \in 1 .. n : s[i] = t[i]
      BY <2>1, <3>x DEF Ends
    <3> DEFINE a == Kept(t, S)
               b == Kept(s, S)
    <3>3. b = IF x \in S THEN a \o <<x>> ELSE a
      BY <3>2, KeptAppend
    <3>4. a \in Seq(U)
      BY KeptType
    <3>5. \A i \in 1 .. n : t[i] \in S => \E j \in 1 .. Len(a) : a[j] = t[i]
      BY <1>2, <3>2
    <3> HIDE DEF a, b
    <3>6. \A j \in 1 .. Len(a) : j \in 1 .. Len(b) /\ b[j] = a[j]
      BY <3>3, <3>4
    <3>7. x \in S => Len(b) \in 1 .. Len(b) /\ b[Len(b)] = x
      BY <3>3, <3>4
    <3>8. ASSUME NEW i \in 1 .. Len(s), s[i] \in S PROVE \E j \in 1 .. Len(b) : b[j] = s[i]
      <4>1. CASE i = n + 1
        BY <3>2, <3>7, <3>8, <4>1
      <4>2. CASE i \in 1 .. n
        <5>1. PICK j \in 1 .. Len(a) : a[j] = s[i]
          BY <3>2, <3>5, <3>8, <4>2
        <5> QED
          BY <3>6, <5>1
      <4> QED
        BY <2>1, <4>1, <4>2
    <3> QED
      BY <3>8 DEF b
  <2> HIDE DEF Holds
  <2> QED
    BY <2>1
<1>3. Nat \subseteq N
  <2> HIDE DEF N
  <2> QED
    BY <1>1, <1>2, SetInduction
<1> QED
  <2>1. ASSUME NEW s \in Seq(U) PROVE Len(s) \in N
    BY <1>3
  <2> QED
    BY <2>1

\* As many are kept as there are elements in the set.
LEMMA KeptLength ==
    ASSUME NEW U, NEW S
    PROVE  \A s \in Seq(U) : Len(Kept(s, S)) = Cardinality({i \in 1 .. Len(s) : s[i] \in S})
<1> DEFINE At(s) == {i \in 1 .. Len(s) : s[i] \in S}
           Agrees(s) == IsFiniteSet(At(s)) /\ Len(Kept(s, S)) = Cardinality(At(s))
           N == {n \in Nat : \A s \in Seq(U) : Len(s) = n => Agrees(s)}
<1>1. 0 \in N
  <2>1. ASSUME NEW s \in Seq(U), Len(s) = 0 PROVE Agrees(s)
    <3>1. s = <<>> /\ At(s) = {}
      BY <2>1
    <3>2. Kept(s, S) = <<>>
      BY <3>1, KeptEmpty
    <3>3. IsFiniteSet({}) /\ Cardinality({}) = 0
      BY FS_EmptySet, Zenon
    <3> QED
      BY <3>1, <3>2, <3>3
  <2> HIDE DEF Agrees
  <2> QED
    BY <2>1
<1>2. ASSUME NEW n \in Nat, n \in N PROVE n + 1 \in N
  <2>1. ASSUME NEW s \in Seq(U), Len(s) = n + 1 PROVE Agrees(s)
    <3>0. s # <<>>
      BY <2>1
    <3>1. PICK t \in Seq(U) : \E x \in U : Ends(s, t, x)
      BY <3>0, FrontAndLast, Zenon
    <3>x. PICK x \in U : Ends(s, t, x)
      BY <3>1
    <3>2. /\ s = t \o <<x>> /\ Len(t) = n /\ s[n + 1] = x
          /\ \A i \in 1 .. n : s[i] = t[i]
      BY <2>1, <3>x DEF Ends
    <3>3. Kept(s, S) = IF x \in S THEN Kept(t, S) \o <<x>> ELSE Kept(t, S)
      BY <3>2, KeptAppend
    <3>4. Kept(t, S) \in Seq(U)
      BY KeptType
    <3>5. IsFiniteSet(At(t)) /\ Len(Kept(t, S)) = Cardinality(At(t))
      BY <1>2, <3>2
    <3>6. At(s) = IF x \in S THEN At(t) \cup {n + 1} ELSE At(t)
      BY <2>1, <3>2
    <3>7. n + 1 \notin At(t)
      BY <3>2
    <3> HIDE DEF At
    <3>8. IsFiniteSet(At(t) \cup {n + 1}) /\ Cardinality(At(t) \cup {n + 1}) = Cardinality(At(t)) + 1
      BY <3>5, <3>7, FS_AddElement
    <3>9. Len(Kept(t, S) \o <<x>>) = Len(Kept(t, S)) + 1
      BY <3>4
    <3> QED
      BY <3>3, <3>5, <3>6, <3>8, <3>9
  <2> HIDE DEF Agrees
  <2> QED
    BY <2>1
<1>3. Nat \subseteq N
  <2> HIDE DEF N
  <2> QED
    BY <1>1, <1>2, SetInduction
<1> QED
  <2>1. ASSUME NEW s \in Seq(U) PROVE Len(s) \in N
    BY <1>3
  <2> QED
    BY <2>1

\* All are kept if all are in the set, none if none is.
LEMMA KeptAll ==
    ASSUME NEW U, NEW S
    PROVE  \A s \in Seq(U) : (\A i \in 1 .. Len(s) : s[i] \in S) => Kept(s, S) = s
<1> DEFINE N == {n \in Nat : \A s \in Seq(U) : Len(s) = n /\ (\A i \in 1 .. Len(s) : s[i] \in S) => Kept(s, S) = s}
<1>1. 0 \in N
  <2>1. ASSUME NEW s \in Seq(U), Len(s) = 0 PROVE Kept(s, S) = s
    <3>1. s = <<>>
      BY <2>1
    <3> QED
      BY <3>1, KeptEmpty
  <2> QED
    BY <2>1
<1>2. ASSUME NEW n \in Nat, n \in N PROVE n + 1 \in N
  <2>1. ASSUME NEW s \in Seq(U), Len(s) = n + 1, \A i \in 1 .. Len(s) : s[i] \in S PROVE Kept(s, S) = s
    <3>0. s # <<>>
      BY <2>1
    <3>1. PICK t \in Seq(U) : \E x \in U : Ends(s, t, x)
      BY <3>0, FrontAndLast, Zenon
    <3>x. PICK x \in U : Ends(s, t, x)
      BY <3>1
    <3>2. /\ s = t \o <<x>> /\ Len(t) = n /\ x \in S
          /\ \A i \in 1 .. Len(t) : t[i] \in S
      <4>1. s = t \o <<x>> /\ Len(t) = n /\ x = s[n + 1]
        BY <2>1, <3>x DEF Ends
      <4>2. x \in S
        BY <2>1, <4>1
      <4>3. \A i \in 1 .. n : t[i] = s[i] /\ i \in 1 .. Len(s)
        BY <2>1, <4>1
      <4> QED
        BY <2>1, <4>1, <4>2, <4>3
    <3>3. Kept(t, S) = t
      BY <1>2, <3>2
    <3>4. Kept(s, S) = Kept(t, S) \o <<x>>
      <4>1. s = t \o <<x>> /\ x \in S
        BY <3>2
      <4>2. Kept(t \o <<x>>, S) = IF x \in S THEN Kept(t, S) \o <<x>> ELSE Kept(t, S)
        BY KeptAppend
      <4> QED
        BY <4>1, <4>2
    <3> QED
      BY <3>2, <3>3, <3>4
  <2> QED
    BY <2>1
<1>3. Nat \subseteq N
  <2> HIDE DEF N
  <2> QED
    BY <1>1, <1>2, SetInduction
<1> QED
  <2>1. ASSUME NEW s \in Seq(U) PROVE Len(s) \in N
    BY <1>3
  <2> QED
    BY <2>1

LEMMA KeptNone ==
    ASSUME NEW U, NEW S
    PROVE  \A s \in Seq(U) : (\A i \in 1 .. Len(s) : s[i] \notin S) => Kept(s, S) = <<>>
<1>1. ASSUME NEW s \in Seq(U), \A i \in 1 .. Len(s) : s[i] \notin S PROVE Kept(s, S) = <<>>
  <2>1. {i \in 1 .. Len(s) : s[i] \in S} = {}
    BY <1>1
  <2>2. Len(Kept(s, S)) = 0
    <3>1. Cardinality({}) = 0
      BY FS_EmptySet, Zenon
    <3> QED
      BY <2>1, <3>1, KeptLength
  <2>3. Kept(s, S) \in Seq(U)
    BY KeptType
  <2> QED
    BY <2>2, <2>3
<1> QED
  BY <1>1

LEMMA CatNone == ASSUME NEW U, NEW a \in Seq(U), NEW q, Cat(q, a, <<>>) PROVE q = a
BY DEF Cat

LEMMA CatFirst == ASSUME NEW U, NEW a \in Seq(U), NEW q, NEW e, e = <<>>, Cat(q, e, a) PROVE q = a
BY DEF Cat

\* What keeps nothing keeps nothing for a smaller set.
LEMMA NoneKept ==
    ASSUME NEW U, NEW s \in Seq(U), NEW S, NEW T, T \subseteq S, Kept(s, S) = <<>>
    PROVE  Kept(s, T) = <<>>
<1>1. \A i \in 1 .. Len(s) : s[i] \notin S
  <2>1. ASSUME NEW i \in 1 .. Len(s), s[i] \in S PROVE FALSE
    <3>1. \E j \in 1 .. Len(Kept(s, S)) : Kept(s, S)[j] = s[i]
      BY <2>1, KeptHolds
    <3>2. Len(Kept(s, S)) = 0
      OBVIOUS
    <3> QED
      BY <3>1, <3>2
  <2> QED
    BY <2>1
<1>2. \A i \in 1 .. Len(s) : s[i] \notin T
  BY <1>1
<1> QED
  BY <1>2, KeptNone

LEMMA CatEmpty ==
    ASSUME NEW U, NEW a \in Seq(U), NEW b \in Seq(U), NEW q, Cat(q, a, b), Len(q) = 0
    PROVE  a = <<>> /\ b = <<>> /\ q = <<>>
BY DEF Cat

-----------------------------------------------------------------------------
(* A stream in two parts, a before b: what is kept of it.                      *)

\* q is x followed by r.
Follows(q, x, r) == Len(r) \in Nat /\ Len(q) = Len(r) + 1 /\ q[1] = x /\ \A i \in 1 .. Len(r) : r[i] = q[i + 1]
Taken(q, x, r, S) == IF x \in S THEN Follows(q, x, r) ELSE r = q

LEMMA FollowsCat ==
    ASSUME NEW U, NEW c \in Seq(U), NEW d \in Seq(U), NEW x \in U, NEW e, NEW q, NEW r,
           Cat(e, <<x>>, c), Cat(q, e, d), Cat(r, c, d)
    PROVE  Follows(q, x, r)
<1>2. e \in Seq(U) /\ Len(e) = Len(c) + 1 /\ e[1] = x /\ \A i \in 1 .. Len(c) : e[i + 1] = c[i]
  BY DEF Cat
<1>3. Len(q) = Len(e) + Len(d) /\ \A i \in 1 .. Len(e) + Len(d) : q[i] = IF i <= Len(e) THEN e[i] ELSE d[i - Len(e)]
  <2>1. e \in Seq(U)
    BY <1>2
  <2> QED
    BY <2>1, CatAt
<1>4. Len(r) = Len(c) + Len(d) /\ \A i \in 1 .. Len(c) + Len(d) : r[i] = IF i <= Len(c) THEN c[i] ELSE d[i - Len(c)]
  BY CatAt
<1>5. Len(c) \in Nat /\ Len(d) \in Nat
  OBVIOUS
<1>6. Len(q) = Len(r) + 1 /\ q[1] = x
  BY <1>2, <1>3, <1>4, <1>5
<1>7. ASSUME NEW i \in 1 .. Len(r) PROVE r[i] = q[i + 1]
  <2>1. i \in 1 .. Len(c) + Len(d) /\ i + 1 \in 1 .. Len(e) + Len(d)
    BY <1>2, <1>4, <1>5
  <2>2. CASE i <= Len(c)
    <3>1. q[i + 1] = e[i + 1] /\ r[i] = c[i] /\ i \in 1 .. Len(c)
      BY <1>2, <1>3, <1>4, <1>5, <2>1, <2>2
    <3> QED
      BY <1>2, <3>1
  <2>3. CASE i > Len(c)
    <3>1. q[i + 1] = d[(i + 1) - Len(e)] /\ r[i] = d[i - Len(c)] /\ (i + 1) - Len(e) = i - Len(c)
      BY <1>2, <1>3, <1>4, <1>5, <2>1, <2>3
    <3> QED
      BY <3>1
  <2>4. i <= Len(c) \/ i > Len(c)
    BY <1>5, <2>1
  <2> QED
    BY <2>2, <2>3, <2>4
<1> QED
  BY <1>4, <1>5, <1>6, <1>7 DEF Follows

LEMMA StreamType ==
    ASSUME NEW U, NEW a \in Seq(U), NEW b \in Seq(U), NEW S, NEW q, Cat(q, Kept(a, S), Kept(b, S))
    PROVE  q \in Seq(U) /\ Len(q) \in Nat /\ \A i \in 1 .. Len(q) : q[i] \in U
<1>1. Kept(a, S) \in Seq(U) /\ Kept(b, S) \in Seq(U)
  BY KeptType
<1>2. q \in Seq(U)
  BY <1>1, CatAt
<1> QED
  BY <1>2

\* The first element is taken.
LEMMA StreamTakes ==
    ASSUME NEW U, NEW a \in Seq(U), a # <<>>, NEW b \in Seq(U), NEW S, NEW q, NEW r,
           Cat(q, Kept(a, S), Kept(b, S)), Cat(r, Kept(Tail(a), S), Kept(b, S))
    PROVE  Taken(q, Head(a), r, S)
<1> DEFINE x == Head(a)
           c == Kept(Tail(a), S)
           d == Kept(b, S)
           e == Kept(a, S)
<1>1. Tail(a) \in Seq(U) /\ x \in U /\ e = (IF x \in S THEN <<x>> ELSE <<>>) \o c
  BY KeptHead
<1>2. c \in Seq(U) /\ d \in Seq(U)
  BY <1>1, KeptType
<1>3. Cat(q, e, d) /\ Cat(r, c, d)
  OBVIOUS
<1> HIDE DEF x, c, d, e
<1>4. CASE x \in S
  <2>1. Cat(e, <<x>>, c)
    BY <1>1, <1>4 DEF Cat
  <2>2. Follows(q, x, r)
    BY <1>1, <1>2, <1>3, <2>1, FollowsCat
  <2> QED
    BY <1>4, <2>2 DEF Taken, x
<1>5. CASE x \notin S
  <2>1. e = c
    BY <1>1, <1>2, <1>5
  <2>2. q = r
    BY <1>3, <2>1 DEF Cat
  <2> QED
    BY <1>5, <2>2 DEF Taken, x
<1> QED
  BY <1>4, <1>5

\* More is added at the end.
LEMMA StreamGrows ==
    ASSUME NEW U, NEW a \in Seq(U), NEW b \in Seq(U), NEW d \in Seq(U), NEW S, NEW q, NEW r,
           Cat(q, Kept(a, S), Kept(b, S)), Cat(r, Kept(a, S), Kept(b \o d, S))
    PROVE  b \o d \in Seq(U) /\ Cat(r, q, Kept(d, S))
<1> DEFINE ka == Kept(a, S)
           kb == Kept(b, S)
           kd == Kept(d, S)
           kn == Kept(b \o d, S)
<1>1. kn = kb \o kd
  BY KeptConcat
<1>2. ka \in Seq(U) /\ kb \in Seq(U) /\ kd \in Seq(U) /\ b \o d \in Seq(U)
  BY KeptType
<1>3. Cat(kn, kb, kd) /\ Cat(q, ka, kb) /\ Cat(r, ka, kn)
  BY <1>1 DEF Cat
<1> HIDE DEF ka, kb, kd, kn
<1>4. Cat(r, q, kd)
  BY <1>2, <1>3, CatAssociates
<1> QED
  BY <1>2, <1>4 DEF kd

\* The border between the parts moves.
LEMMA StreamMoves ==
    ASSUME NEW U, NEW a \in Seq(U), NEW n \in 0 .. Len(a), NEW S
    PROVE  Kept(SubSeq(a, 1, n), S) \o Kept(SubSeq(a, n + 1, Len(a)), S) = Kept(<<>>, S) \o Kept(a, S)
<1>1. Kept(SubSeq(a, 1, n), S) \o Kept(SubSeq(a, n + 1, Len(a)), S) = Kept(a, S)
  BY KeptSplit
<1>2. Kept(a, S) \in Seq(U) /\ Kept(<<>>, S) = <<>>
  BY KeptType, KeptEmpty
<1>3. <<>> \o Kept(a, S) = Kept(a, S)
  BY <1>2
<1> QED
  BY <1>1, <1>2, <1>3

\* The second part is put behind the first.
LEMMA StreamJoins ==
    ASSUME NEW U, NEW a \in Seq(U), NEW b \in Seq(U), NEW S
    PROVE  Kept(a \o b, S) \o Kept(<<>>, S) = Kept(a, S) \o Kept(b, S)
<1>1. Kept(a \o b, S) = Kept(a, S) \o Kept(b, S)
  BY KeptConcat
<1>2. Kept(a, S) \o Kept(b, S) \in Seq(U) /\ Kept(<<>>, S) = <<>>
  <2>1. Kept(a, S) \in Seq(U) /\ Kept(b, S) \in Seq(U)
    BY KeptType
  <2> QED
    BY <2>1, KeptEmpty
<1> DEFINE c == Kept(a, S) \o Kept(b, S)
<1>3. c \o <<>> = c
  BY <1>2
<1> QED
  BY <1>1, <1>2, <1>3
-----------------------------------------------------------------------------
(* Least and greatest numbers, and functions defined by recursion.             *)

LEMMA LeastExists ==
    ASSUME NEW S \in SUBSET Nat, S # {}
    PROVE  \E n \in S : \A m \in S : n <= m
<1> DEFINE N == {n \in Nat : \A m \in 0 .. n : m \notin S}
<1>1. SUFFICES ASSUME \A n \in S : \E m \in S : m < n PROVE FALSE
  OBVIOUS
<1>2. 0 \in N
  BY <1>1
<1>3. ASSUME NEW n \in Nat, n \in N PROVE n + 1 \in N
  BY <1>1, <1>3
<1>4. Nat \subseteq N
  <2> HIDE DEF N
  <2> QED
    BY <1>2, <1>3, SetInduction
<1>5. PICK n \in S : TRUE
  OBVIOUS
<1>6. n \in Nat /\ n \in N
  BY <1>4
<1> QED
  BY <1>5, <1>6

LEMMA GreatestExists ==
    ASSUME NEW n \in Nat, NEW S \in SUBSET (0 .. n), S # {}
    PROVE  \E m \in S : \A k \in S : k <= m
<1> DEFINE T == {n - k : k \in S}
<1>1. T \in SUBSET Nat /\ T # {}
  <2>1. \A k \in S : n - k \in Nat
    OBVIOUS
  <2>2. PICK k \in S : TRUE
    OBVIOUS
  <2>3. n - k \in T
    BY <2>2
  <2> QED
    BY <2>1, <2>3
<1>2. PICK d \in T : \A e \in T : d <= e
  <2> HIDE DEF T
  <2> QED
    BY <1>1, LeastExists
<1>3. PICK m \in S : d = n - m
  BY <1>2
<1>4. ASSUME NEW k \in S PROVE k <= m
  <2>1. d <= n - k
    BY <1>2
  <2> QED
    BY <1>3, <2>1
<1> QED
  BY <1>4

\* What steps lead to, one after the other, from a first value.
Leads(base, n, step, f) == f[0] = base /\ \A i \in 1 .. n : f[i] = step[i][f[i - 1]]

LEMMA StepsLead ==
    ASSUME NEW X, NEW base \in X, NEW n \in Nat, NEW step \in [1 .. n -> [X -> X]]
    PROVE  \E f \in [0 .. n -> X] : Leads(base, n, step, f)
<1> DEFINE N == {k \in Nat : k <= n => \E f \in [0 .. k -> X] : Leads(base, k, step, f)}
<1>1. 0 \in N
  <2>1. [i \in 0 .. 0 |-> base] \in [0 .. 0 -> X] /\ Leads(base, 0, step, [i \in 0 .. 0 |-> base])
    BY DEF Leads
  <2> QED
    BY <2>1
<1>2. ASSUME NEW k \in Nat, k \in N PROVE k + 1 \in N
  <2> SUFFICES ASSUME k + 1 <= n PROVE \E f \in [0 .. k + 1 -> X] : Leads(base, k + 1, step, f)
    OBVIOUS
  <2>1. PICK f \in [0 .. k -> X] : Leads(base, k, step, f)
    BY <1>2
  <2> DEFINE g == [i \in 0 .. k + 1 |-> IF i = k + 1 THEN step[k + 1][f[k]] ELSE f[i]]
  <2>2. step[k + 1] \in [X -> X] /\ f[k] \in X
    OBVIOUS
  <2>3. g \in [0 .. k + 1 -> X]
    BY <2>2
  <2>4. g[0] = base /\ g[k + 1] = step[k + 1][g[k]]
    BY <2>1 DEF Leads
  <2>5. ASSUME NEW i \in 1 .. k PROVE g[i] = step[i][g[i - 1]]
    BY <2>1 DEF Leads
  <2>6. Leads(base, k + 1, step, g)
    <3> HIDE DEF g
    <3> QED
      BY <2>4, <2>5 DEF Leads
  <2> QED
    BY <2>3, <2>6
<1>3. Nat \subseteq N
  <2> HIDE DEF N
  <2> QED
    BY <1>1, <1>2, SetInduction
<1> QED
  BY <1>3
=============================================================================
