----------------------------- MODULE SliceProofs ------------------------------
(***************************************************************************)
(* Sorting and selection, for every slice and every value of the cutoff,   *)
(* the skew limit and the depth budget.                                    *)
(*                                                                         *)
(* Sort and SortInto give the caller back its elements in ascending order, *)
(* NaNs last, and at every turn on the way each element is where it        *)
(* belongs or in one window that holds its place.                          *)
(*                                                                         *)
(* Median, Quantile, TopK and BottomK give what a sorted slice would, with *)
(* either quickselect.                                                     *)
(***************************************************************************)
EXTENDS QuickSort, SelectedStatistics, NaturalFacts, SequenceTheorems, TLAPS

-----------------------------------------------------------------------------
(* The order.                                                              *)

LEMMA AtMostMeans ==
    ASSUME NEW x \in Values, NEW y \in Values
    PROVE  /\ AtMost(x, y) <=> IsNaN(y) \/ (~IsNaN(x) /\ Number[x] <= Number[y])
           /\ ~IsNaN(x) => x \in DOMAIN Number /\ Number[x] \in Int
BY NumberAssumption, NaNAssumption DEF AtMost, LessNaNLast, Lt, IsNaN, Values

LEMMA AtMostOrders ==
    /\ \A x \in Values : AtMost(x, x)
    /\ \A x, y \in Values : AtMost(x, y) \/ AtMost(y, x)
    /\ \A x, y, z \in Values : AtMost(x, y) /\ AtMost(y, z) => AtMost(x, z)
BY AtMostMeans

LEMMA SameIsEquivalence ==
    /\ \A x \in Values : Same(x, x)
    /\ \A x, y \in Values : Same(x, y) => Same(y, x)
    /\ \A x, y, z \in Values : Same(x, y) /\ Same(y, z) => Same(x, z)
BY AtMostOrders DEF Same

\* What the partition tells apart: below the pivot, equal to it, and the others.
LEMMA AroundPivot ==
    ASSUME NEW pivot \in Values, NEW x \in Values
    PROVE  /\ x \in Below(pivot) => AtMost(x, pivot)
           /\ x \notin Below(pivot) => AtMost(pivot, x) \/ IsNaN(pivot)
           /\ x \in EqualTo(pivot) => Same(x, pivot) /\ ~IsNaN(pivot)
           /\ x \in EqualTo(pivot) => x \notin Below(pivot)
           /\ \A y \in Values : x \in Below(pivot) /\ y \notin Below(pivot) => AtMost(x, y)
BY AtMostMeans, NumberAssumption, NaNAssumption DEF Below, EqualTo, Lt, Eq, IsNaN, Same, Values

-----------------------------------------------------------------------------
(* Counting equal elements.                                                *)

LEMMA UpTo ==
    ASSUME NEW n \in Nat
    PROVE  IsFiniteSet(1 .. n) /\ Cardinality(1 .. n) = n
<1>1. 1 \in Int /\ n \in Int /\ (1 > n => n = 0) /\ n - 1 + 1 = n
  OBVIOUS
<1>2. IsFiniteSet(1 .. n) /\ Cardinality(1 .. n) = IF 1 > n THEN 0 ELSE n - 1 + 1
  BY <1>1, FS_Interval, Zenon
<1>. QED BY <1>1, <1>2

\* Sets that a function pairs off have one size.
PairsOff(f, S, T) ==
    /\ f \in [S -> T]
    /\ \A x, y \in S : f[x] = f[y] => x = y
    /\ \A t \in T : \E x \in S : f[x] = t

LEMMA PairedSize ==
    ASSUME NEW S, NEW T, NEW f, IsFiniteSet(S), PairsOff(f, S, T)
    PROVE  IsFiniteSet(T) /\ Cardinality(T) = Cardinality(S)
<1>1. f \in Bijection(S, T)
  BY DEF PairsOff, Bijection, Injection, Surjection, IsInjective
<1>. QED BY <1>1, FS_Bijection DEF ExistsBijection

\* Where s has an element equal to x.
Spots(s, x) == {e \in DOMAIN s : Same(s[e], x)}

LEMMA SpotsOf ==
    ASSUME NEW s \in Seq(Values), NEW x
    PROVE  /\ Spots(s, x) \subseteq 1 .. Len(s) /\ Spots(s, x) \subseteq Int /\ IsFiniteSet(Spots(s, x))
           /\ CountOf(s, x) = Cardinality(Spots(s, x)) /\ CountOf(s, x) \in Nat
<1>1. Len(s) \in Nat /\ DOMAIN s = 1 .. Len(s)
  OBVIOUS
<1>2. Spots(s, x) \subseteq 1 .. Len(s)
  BY <1>1 DEF Spots
<1>3. IsFiniteSet(1 .. Len(s))
  BY <1>1, UpTo
<1>4. IsFiniteSet(Spots(s, x))
  BY <1>2, <1>3, FS_Subset
<1>5. CountOf(s, x) = Cardinality(Spots(s, x))
  BY DEF CountOf, Spots
<1>6. Spots(s, x) \subseteq Int
  BY <1>1, <1>2
<1>. QED BY <1>2, <1>4, <1>5, <1>6, FS_CardinalityType

LEMMA CountOfConcat ==
    ASSUME NEW u \in Seq(Values), NEW v \in Seq(Values), NEW x
    PROVE  CountOf(u \o v, x) = CountOf(u, x) + CountOf(v, x)
<1>. DEFINE w == u \o v
            M == {Len(u) + e : e \in Spots(v, x)}
<1>1. /\ w \in Seq(Values) /\ Len(w) = Len(u) + Len(v) /\ Len(u) \in Nat /\ Len(v) \in Nat
      /\ DOMAIN u = 1 .. Len(u) /\ DOMAIN v = 1 .. Len(v) /\ DOMAIN w = 1 .. Len(w)
      /\ \A e \in 1 .. Len(u) + Len(v) : w[e] = IF e <= Len(u) THEN u[e] ELSE v[e - Len(u)]
  BY ConcatProperties
<1>2. IsFiniteSet(M) /\ Cardinality(M) = CountOf(v, x)
  <2>1. Spots(v, x) \in SUBSET Int /\ IsFiniteSet(Spots(v, x)) /\ Len(u) \in Int
    BY <1>1, SpotsOf
  <2>2. CountOf(v, x) = Cardinality(Spots(v, x))
    BY SpotsOf
  <2>. QED BY <2>1, <2>2, MovedSize
<1>3. Spots(w, x) = Spots(u, x) \cup M
  <2>. HIDE DEF w
  <2>1. ASSUME NEW e \in Spots(w, x) PROVE e \in Spots(u, x) \cup M
    <3>1. e \in 1 .. Len(u) + Len(v) /\ Same(w[e], x)
      BY <1>1 DEF Spots
    <3>2. CASE e <= Len(u)
      BY <1>1, <3>1, <3>2 DEF Spots
    <3>3. CASE ~(e <= Len(u))
      <4>1. e - Len(u) \in 1 .. Len(v) /\ w[e] = v[e - Len(u)]
        BY <1>1, <3>1, <3>3
      <4>2. e - Len(u) \in Spots(v, x)
        BY <1>1, <3>1, <4>1 DEF Spots
      <4>3. e = Len(u) + (e - Len(u))
        BY <1>1, <3>1
      <4>. QED BY <4>2, <4>3
    <3>. QED BY <3>2, <3>3
  <2>2. ASSUME NEW e \in Spots(u, x) PROVE e \in Spots(w, x)
    BY <1>1 DEF Spots
  <2>3. ASSUME NEW e \in M PROVE e \in Spots(w, x)
    <3>1. PICK d \in Spots(v, x) : e = Len(u) + d
      OBVIOUS
    <3>2. d \in 1 .. Len(v) /\ Same(v[d], x)
      BY <1>1 DEF Spots
    <3>3. e \in 1 .. Len(u) + Len(v) /\ ~(e <= Len(u)) /\ e - Len(u) = d
      BY <1>1, <3>1, <3>2
    <3>. QED BY <1>1, <3>2, <3>3 DEF Spots
  <2>. QED BY <2>1, <2>2, <2>3
<1>4. Spots(u, x) \cap M = {}
  <2>1. \A e \in Spots(u, x) : e <= Len(u)
    BY <1>1 DEF Spots
  <2>2. \A e \in M : e > Len(u)
    BY <1>1 DEF Spots
  <2>. QED BY <1>1, <2>1, <2>2, SpotsOf
<1>5. IsFiniteSet(Spots(u, x)) /\ Cardinality(Spots(u, x)) = CountOf(u, x)
  BY SpotsOf
<1>6. Cardinality(Spots(w, x)) = CountOf(u, x) + CountOf(v, x)
  BY <1>2, <1>3, <1>4, <1>5, DisjointSize
<1>. QED BY <1>1, <1>6, SpotsOf

\* What is kept of a list, counted where the list has it.
LEMMA KeptType ==
    ASSUME NEW s \in Seq(Values), NEW P
    PROVE  /\ Kept(s, P) \in Seq(Values) /\ Len(Kept(s, P)) = Cardinality(Keeping(s, P))
           /\ Cardinality(Keeping(s, P)) \in 0 .. Len(s)
           /\ \A e \in 1 .. Cardinality(Keeping(s, P)) :
                /\ Kept(s, P)[e] = s[Nth(Keeping(s, P), e)]
                /\ Nth(Keeping(s, P), e) \in Keeping(s, P)
                /\ Kept(s, P)[e] \in P /\ Kept(s, P)[e] \in Values
<1>. DEFINE keep == Keeping(s, P)
<1>1. Len(s) \in Nat /\ DOMAIN s = 1 .. Len(s) /\ \A e \in 1 .. Len(s) : s[e] \in Values
  OBVIOUS
<1>2. /\ IsFiniteSet(keep) /\ Cardinality(keep) \in Nat
      /\ \A e \in 1 .. Cardinality(keep) : Nth(keep, e) \in keep
  BY <1>1, KeptOf
<1>3. Cardinality(keep) <= Len(s)
  <2>1. IsFiniteSet(1 .. Len(s)) /\ Cardinality(1 .. Len(s)) = Len(s)
    BY <1>1, UpTo
  <2>2. keep \in SUBSET (1 .. Len(s))
    BY <1>1 DEF Keeping
  <2>. QED BY <2>1, <2>2, FS_Subset
<1>4. \A e0 \in keep : s[e0] \in P /\ s[e0] \in Values
  BY <1>1 DEF Keeping
<1>. HIDE DEF keep
<1>5. Kept(s, P) = [e \in 1 .. Cardinality(keep) |-> s[Nth(keep, e)]]
  BY DEF Kept, keep
<1>6. Kept(s, P) \in [1 .. Cardinality(keep) -> Values]
  BY <1>2, <1>4, <1>5
<1>7. Kept(s, P) \in Seq(Values) /\ Len(Kept(s, P)) = Cardinality(keep)
  BY <1>2, <1>6, SeqDef, <1>5
<1>. QED BY <1>1, <1>2, <1>3, <1>4, <1>5, <1>7 DEF keep

LEMMA CountOfKept ==
    ASSUME NEW s \in Seq(Values), NEW P, NEW x
    PROVE  /\ CountOf(Kept(s, P), x) = Cardinality(Keeping(s, P) \cap Spots(s, x))
           /\ IsFiniteSet(Keeping(s, P) \cap Spots(s, x))
<1>. DEFINE keep == Keeping(s, P)
            r == Kept(s, P)
            S == Spots(r, x)
            T == keep \cap Spots(s, x)
            f == [e \in S |-> Nth(keep, e)]
<1>1. /\ r \in Seq(Values) /\ Len(r) = Cardinality(keep) /\ Cardinality(keep) \in Nat
      /\ \A e \in 1 .. Cardinality(keep) : r[e] = s[Nth(keep, e)] /\ Nth(keep, e) \in keep
  BY KeptType
<1>2. /\ IsFiniteSet(keep) /\ keep \subseteq Int
      /\ \A e0 \in keep : Place(keep, e0) \in 1 .. Cardinality(keep) /\ Nth(keep, Place(keep, e0)) = e0
  <2>1. Len(s) \in Nat /\ DOMAIN s = 1 .. Len(s)
    OBVIOUS
  <2>. QED BY <2>1, KeptOf
<1>3. DOMAIN r = 1 .. Cardinality(keep)
  BY <1>1
<1>4. S = {e \in 1 .. Cardinality(keep) : Same(r[e], x)}
  BY <1>3 DEF Spots
<1>5. T = {e0 \in keep : Same(s[e0], x)}
  BY DEF Spots, Keeping
<1>6. IsFiniteSet(S) /\ CountOf(r, x) = Cardinality(S)
  BY <1>1, SpotsOf
<1>. HIDE DEF keep, r
<1>. HIDE DEF S, T
<1>7. f \in [S -> T]
  BY <1>1, <1>4, <1>5
<1>8. ASSUME NEW e \in S, NEW d \in S, f[e] = f[d] PROVE e = d
  <2>1. e \in 1 .. Cardinality(keep) /\ d \in 1 .. Cardinality(keep) /\ Nth(keep, e) = Nth(keep, d)
    BY <1>4, <1>8
  <2>. QED BY <1>2, <2>1, NthOf
<1>9. ASSUME NEW e0 \in T PROVE \E e \in S : f[e] = e0
  <2>1. e0 \in keep /\ Same(s[e0], x)
    BY <1>5
  <2>2. Place(keep, e0) \in 1 .. Cardinality(keep) /\ Nth(keep, Place(keep, e0)) = e0
    BY <1>2, <2>1
  <2>3. Place(keep, e0) \in S
    BY <1>1, <1>4, <2>1, <2>2
  <2>. QED BY <2>2, <2>3
<1>. HIDE DEF f
<1>10. PairsOff(f, S, T)
  BY <1>7, <1>8, <1>9 DEF PairsOff
<1>11. IsFiniteSet(T) /\ Cardinality(T) = Cardinality(S)
  BY <1>6, <1>10, PairedSize
<1>. QED BY <1>6, <1>11 DEF T, keep, r

LEMMA SameElementsIs ==
    /\ \A s \in Seq(Values) : SameElements(s, s)
    /\ \A s, t \in Seq(Values) : SameElements(s, t) => SameElements(t, s)
    /\ \A s, t, u \in Seq(Values) : SameElements(s, t) /\ SameElements(t, u) => SameElements(s, u)
BY DEF SameElements

\* Keeping some elements, and then the others, keeps them all.
LEMMA KeptTwice ==
    ASSUME NEW s \in Seq(Values), NEW P
    PROVE  SameElements(Kept(s, P) \o Kept(s, Values \ P), s)
<1>. DEFINE u == Kept(s, P)
            v == Kept(s, Values \ P)
<1>1. u \in Seq(Values) /\ v \in Seq(Values)
  BY KeptType
<1>2. Len(s) \in Nat /\ DOMAIN s = 1 .. Len(s) /\ \A e \in 1 .. Len(s) : s[e] \in Values
  OBVIOUS
<1>3. Keeping(s, P) \cap Keeping(s, Values \ P) = {} /\ Keeping(s, P) \cup Keeping(s, Values \ P) = 1 .. Len(s)
  BY <1>2 DEF Keeping
<1>4. Len(u \o v) = Len(s)
  <2>1. IsFiniteSet(Keeping(s, P)) /\ IsFiniteSet(Keeping(s, Values \ P))
    BY <1>2, KeptOf
  <2>2. Len(u) = Cardinality(Keeping(s, P)) /\ Len(v) = Cardinality(Keeping(s, Values \ P))
    BY KeptType
  <2>3. Cardinality(1 .. Len(s)) = Len(s)
    BY <1>2, UpTo
  <2>4. Cardinality(1 .. Len(s)) = Cardinality(Keeping(s, P)) + Cardinality(Keeping(s, Values \ P))
    BY <1>3, <2>1, DisjointSize
  <2>5. Len(u \o v) = Len(u) + Len(v)
    BY <1>1, ConcatProperties
  <2>. QED BY <2>2, <2>3, <2>4, <2>5
<1>5. ASSUME NEW x \in Values PROVE CountOf(u \o v, x) = CountOf(s, x)
  <2>. DEFINE S == Keeping(s, P) \cap Spots(s, x)
              T == Keeping(s, Values \ P) \cap Spots(s, x)
  <2>1. /\ CountOf(u, x) = Cardinality(S) /\ IsFiniteSet(S)
        /\ CountOf(v, x) = Cardinality(T) /\ IsFiniteSet(T)
    BY CountOfKept
  <2>2. Spots(s, x) \subseteq 1 .. Len(s) /\ CountOf(s, x) = Cardinality(Spots(s, x))
    BY SpotsOf
  <2>3. S \cap T = {} /\ S \cup T = Spots(s, x)
    BY <1>3, <2>2
  <2>4. Cardinality(Spots(s, x)) = Cardinality(S) + Cardinality(T)
    <3>. HIDE DEF S, T
    <3>. QED BY <2>1, <2>3, DisjointSize
  <2>5. CountOf(u \o v, x) = CountOf(u, x) + CountOf(v, x)
    BY <1>1, CountOfConcat
  <2>. QED BY <2>1, <2>2, <2>4, <2>5
<1>. QED BY <1>4, <1>5 DEF SameElements

-----------------------------------------------------------------------------
(* The fallback: the library's sort, and the NaNs moved to the end.        *)

LEMMA NaNFirstMeans ==
    ASSUME NEW x \in Values, NEW y \in Values
    PROVE  /\ LessNaNFirst(x, y) <=> ~IsNaN(y) /\ (IsNaN(x) \/ Number[x] < Number[y])
           /\ ~IsNaN(x) => Number[x] \in Int
BY NumberAssumption, NaNAssumption DEF LessNaNFirst, Lt, IsNaN, Values

\* The element at y goes before the one at x: it is less, or no greater and earlier.
Before(s, y, x) == IF y <= x THEN ~LessNaNFirst(s[x], s[y]) ELSE LessNaNFirst(s[y], s[x])
Ahead(s, x) == {y \in 1 .. Len(s) : Before(s, y, x)}

LEMMA BeforeOrders ==
    ASSUME NEW s \in Seq(Values), NEW x \in 1 .. Len(s), NEW y \in 1 .. Len(s)
    PROVE  /\ Before(s, x, x)
           /\ Before(s, x, y) \/ Before(s, y, x)
           /\ Before(s, x, y) /\ Before(s, y, x) => x = y
           /\ Before(s, x, y) => ~LessNaNFirst(s[y], s[x])
           /\ \A z \in 1 .. Len(s) : Before(s, z, x) /\ Before(s, x, y) => Before(s, z, y)
<1>1. s[x] \in Values /\ s[y] \in Values /\ x \in Int /\ y \in Int
  OBVIOUS
<1>2. ASSUME NEW z \in 1 .. Len(s) PROVE s[z] \in Values /\ z \in Int
  OBVIOUS
<1>3. /\ Before(s, x, x) /\ (Before(s, x, y) \/ Before(s, y, x))
      /\ (Before(s, x, y) /\ Before(s, y, x) => x = y)
      /\ (Before(s, x, y) => ~LessNaNFirst(s[y], s[x]))
  BY <1>1, NaNFirstMeans DEF Before
<1>4. ASSUME NEW z \in 1 .. Len(s), Before(s, z, x), Before(s, x, y) PROVE Before(s, z, y)
  BY <1>1, <1>2, <1>4, NaNFirstMeans DEF Before
<1>. QED BY <1>3, <1>4

LEMMA SortedPlaces ==
    ASSUME NEW s \in Seq(Values)
    PROVE  /\ \A x \in 1 .. Len(s) : SortedPlace(s, x) \in 1 .. Len(s)
           /\ \A x, y \in 1 .. Len(s) : SortedPlace(s, x) < SortedPlace(s, y) => Before(s, x, y)
           /\ \A x, y \in 1 .. Len(s) : SortedPlace(s, x) = SortedPlace(s, y) => x = y
<1>. DEFINE D == 1 .. Len(s)
<1>1. Len(s) \in Nat /\ DOMAIN s = D /\ IsFiniteSet(D) /\ Cardinality(D) = Len(s)
  BY UpTo
<1>2. ASSUME NEW x \in D
      PROVE  /\ SortedPlace(s, x) = Cardinality(Ahead(s, x)) /\ IsFiniteSet(Ahead(s, x))
             /\ SortedPlace(s, x) \in D
  <2>1. SortedPlace(s, x) = Cardinality(Ahead(s, x))
    BY <1>1 DEF SortedPlace, Ahead, Before
  <2>2. Ahead(s, x) \in SUBSET D
    BY DEF Ahead
  <2>3. IsFiniteSet(Ahead(s, x)) /\ Cardinality(Ahead(s, x)) <= Len(s)
    BY <1>1, <2>2, FS_Subset
  <2>4. x \in Ahead(s, x)
    BY BeforeOrders DEF Ahead
  <2>5. Cardinality(Ahead(s, x)) \in Nat \ {0}
    BY <2>3, <2>4, WithoutOne
  <2>. QED BY <1>1, <2>1, <2>3, <2>5
<1>3. ASSUME NEW x \in D, NEW y \in D, Before(s, x, y), x # y
      PROVE  SortedPlace(s, x) < SortedPlace(s, y)
  <2>1. \A z \in Ahead(s, x) : z \in Ahead(s, y)
    BY <1>3, BeforeOrders DEF Ahead
  <2>2. y \in Ahead(s, y) /\ y \notin Ahead(s, x)
    BY <1>3, BeforeOrders DEF Ahead
  <2>3. Ahead(s, x) \in SUBSET (Ahead(s, y) \ {y})
    BY <2>1, <2>2
  <2>4. IsFiniteSet(Ahead(s, y) \ {y}) /\ Cardinality(Ahead(s, y) \ {y}) = Cardinality(Ahead(s, y)) - 1
    BY <1>2, <2>2, WithoutOne
  <2>5. Cardinality(Ahead(s, x)) <= Cardinality(Ahead(s, y)) - 1
    BY <2>3, <2>4, FS_Subset
  <2>6. SortedPlace(s, x) \in Int /\ SortedPlace(s, y) \in Int
    BY <1>1, <1>2
  <2>. QED BY <1>2, <2>5, <2>6
<1>4. ASSUME NEW x \in D, NEW y \in D, SortedPlace(s, x) < SortedPlace(s, y) PROVE Before(s, x, y)
  <2>. SUFFICES ASSUME ~Before(s, x, y) PROVE FALSE
    OBVIOUS
  <2>1. Before(s, y, x) /\ x # y
    BY BeforeOrders
  <2>2. SortedPlace(s, y) < SortedPlace(s, x)
    BY <1>3, <2>1
  <2>3. SortedPlace(s, x) \in Int /\ SortedPlace(s, y) \in Int
    BY <1>1, <1>2
  <2>. QED BY <1>4, <2>2, <2>3
<1>5. ASSUME NEW x \in D, NEW y \in D, SortedPlace(s, x) = SortedPlace(s, y) PROVE x = y
  <2>. SUFFICES ASSUME x # y PROVE FALSE
    OBVIOUS
  <2>1. SortedPlace(s, y) < SortedPlace(s, x) \/ SortedPlace(s, x) < SortedPlace(s, y)
    BY <1>3, BeforeOrders
  <2>2. SortedPlace(s, x) \in Int /\ SortedPlace(s, y) \in Int
    BY <1>1, <1>2
  <2>. QED BY <1>5, <2>1, <2>2
<1>. QED BY <1>2, <1>4, <1>5

\* The library's sort rearranges, NaNs first.
LEMMA SlicesSortSorts ==
    ASSUME NEW s \in Seq(Values)
    PROVE  /\ SlicesSort(s) \in Seq(Values) /\ SameElements(SlicesSort(s), s)
           /\ \A p, q \in 1 .. Len(s) : p < q => ~LessNaNFirst(SlicesSort(s)[q], SlicesSort(s)[p])
<1>. DEFINE D == 1 .. Len(s)
            f == [x \in D |-> SortedPlace(s, x)]
            from(p) == CHOOSE x \in DOMAIN s : SortedPlace(s, x) = p
            r == SlicesSort(s)
<1>1. Len(s) \in Nat /\ DOMAIN s = D /\ IsFiniteSet(D) /\ \A x \in D : s[x] \in Values
  BY UpTo
<1>2. \A p \in D : \E x \in D : SortedPlace(s, x) = p
  <2>1. f \in [D -> D] /\ \A x \in D, y \in D : f[x] = f[y] => x = y
    BY SortedPlaces
  <2>2. f \in Injection(D, D)
    BY <2>1 DEF Injection, IsInjective
  <2>3. f \in Surjection(D, D)
    <3>. HIDE DEF f, D
    <3>. QED BY <1>1, <2>2, FS_Injection
  <2>4. \A p \in D : \E x \in D : f[x] = p
    BY <2>3 DEF Surjection
  <2>. QED BY <2>4
<1>3. ASSUME NEW p \in D PROVE from(p) \in D /\ SortedPlace(s, from(p)) = p
  BY <1>1, <1>2
<1>4. /\ r = [p \in D |-> s[from(p)]]
  BY DEF SlicesSort
<1>. HIDE DEF from, f
<1>5. r \in [D -> Values]
  BY <1>1, <1>3, <1>4
<1>6. r \in Seq(Values) /\ Len(r) = Len(s) /\ DOMAIN r = D
  BY <1>1, <1>5, <1>4, SeqDef
<1>. HIDE DEF r
<1>7. ASSUME NEW x \in Values PROVE CountOf(r, x) = CountOf(s, x)
  <2>. DEFINE S == Spots(r, x)
              T == Spots(s, x)
              g == [p \in S |-> from(p)]
  <2>1. S = {p \in D : Same(r[p], x)} /\ T = {e0 \in D : Same(s[e0], x)}
    BY <1>1, <1>6 DEF Spots
  <2>2. IsFiniteSet(S) /\ CountOf(r, x) = Cardinality(S) /\ CountOf(s, x) = Cardinality(T)
    BY <1>6, SpotsOf
  <2>. HIDE DEF S, T, D
  <2>3. g \in [S -> T]
    BY <1>3, <1>4, <2>1
  <2>4. ASSUME NEW p \in S, NEW q \in S, g[p] = g[q] PROVE p = q
    <3>1. p \in D /\ q \in D /\ from(p) = from(q)
      BY <2>1, <2>4
    <3>. QED BY <1>3, <3>1
  <2>5. ASSUME NEW e0 \in T PROVE \E p \in S : g[p] = e0
    <3>1. e0 \in D /\ Same(s[e0], x) /\ SortedPlace(s, e0) \in D
      BY <2>1, SortedPlaces DEF D
    <3>2. from(SortedPlace(s, e0)) = e0
      BY <1>3, <3>1, SortedPlaces DEF D
    <3>3. SortedPlace(s, e0) \in S
      BY <1>4, <2>1, <3>1, <3>2
    <3>. QED BY <3>2, <3>3
  <2>. HIDE DEF g
  <2>6. PairsOff(g, S, T)
    BY <2>3, <2>4, <2>5 DEF PairsOff
  <2>. QED BY <2>2, <2>6, PairedSize
<1>8. ASSUME NEW p \in D, NEW q \in D, p < q PROVE ~LessNaNFirst(r[q], r[p])
  <2>1. Before(s, from(p), from(q))
    BY <1>3, <1>8, SortedPlaces
  <2>. QED BY <1>3, <1>4, <2>1, BeforeOrders
<1>. QED BY <1>6, <1>7, <1>8 DEF SameElements, r

\* In ascending order, said of every two elements.
InOrder(s) == \A e, d \in 1 .. Len(s) : e < d => AtMost(s[e], s[d])

\* sortFallback sorts, NaNs last.
LEMMA FallbackSorts ==
    ASSUME NEW s \in Seq(Values)
    PROVE  /\ SortFallback(s) \in Seq(Values) /\ SameElements(SortFallback(s), s)
           /\ InOrder(SortFallback(s))
<1>. DEFINE r == SlicesSort(s)
            N == Keeping(r, NaNs)
            n == Cardinality(N)
            L == Len(s)
<1>1. /\ r \in Seq(Values) /\ SameElements(r, s) /\ Len(r) = L /\ L \in Nat /\ DOMAIN r = 1 .. L
      /\ \A p, q \in 1 .. L : p < q => ~LessNaNFirst(r[q], r[p])
      /\ \A p \in 1 .. L : r[p] \in Values
  <2>1. r \in Seq(Values) /\ SameElements(r, s)
    BY SlicesSortSorts
  <2>2. Len(r) = L /\ L \in Nat
    BY <2>1 DEF SameElements
  <2>3. DOMAIN r = 1 .. L /\ \A p \in 1 .. L : r[p] \in Values
    BY <2>1, <2>2
  <2>. QED BY <2>1, <2>2, <2>3, SlicesSortSorts
<1>2. SortFallback(s) = IF n \in {0, L} THEN r ELSE RotateLeft(r, n)
  BY DEF SortFallback
<1>. HIDE DEF r, L
<1>3. \A p \in 1 .. L : p \in N <=> IsNaN(r[p])
  BY <1>1 DEF Keeping, IsNaN
<1>4. N \subseteq 1 .. L
  BY <1>1 DEF Keeping
<1>. HIDE DEF N
<1>5. N = 1 .. n /\ n \in 0 .. L
  <2>1. IsFiniteSet(N)
    BY <1>1, <1>4, UpTo, FS_Subset
  <2>2. CASE N = {}
    <3>1. n = 0
      BY <2>2, FS_EmptySet
    <3>. QED BY <1>1, <2>2, <3>1
  <2>3. CASE N # {}
    <3>1. PICK m \in N : \A y \in N : y <= m
      <4>1. N \in SUBSET Int
        BY <1>1, <1>4
      <4>. QED BY <2>1, <2>3, <4>1, GreatestOfFinite
    <3>2. m \in 1 .. L /\ m \in Nat
      BY <1>1, <1>4
    <3>3. ASSUME NEW p \in 1 .. m PROVE p \in N
      <4>1. p \in 1 .. L /\ (p = m \/ p < m)
        BY <3>2, <1>1
      <4>2. CASE p < m
        BY <1>1, <1>3, <3>2, <4>1, <4>2, NaNFirstMeans
      <4>. QED BY <4>1, <4>2
    <3>4. N = 1 .. m
      <4>1. ASSUME NEW p \in N PROVE p \in 1 .. m
        <5>1. p \in 1 .. L /\ p <= m
          BY <1>4, <3>1
        <5>. QED BY <1>1, <3>2, <5>1
      <4>. QED BY <3>3, <4>1
    <3>5. n = m
      BY <3>2, <3>4, UpTo
    <3>. QED BY <1>1, <3>2, <3>4, <3>5
  <2>. QED BY <2>2, <2>3
<1>6. ASSUME NEW p \in 1 .. L, NEW q \in 1 .. L, p < q, IsNaN(r[p]) <=> IsNaN(r[q])
      PROVE  AtMost(r[p], r[q])
  BY <1>1, <1>6, NaNFirstMeans, AtMostMeans
<1>. HIDE DEF n
<1>7. \A p \in 1 .. L : IsNaN(r[p]) <=> p <= n
  BY <1>1, <1>3, <1>5
<1>8. CASE n \in {0, L}
  <2>1. SortFallback(s) = r
    BY <1>2, <1>8
  <2>2. InOrder(r)
    BY <1>1, <1>6, <1>7, <1>8 DEF InOrder
  <2>. QED BY <1>1, <2>1, <2>2
<1>9. CASE n \notin {0, L}
  <2>. DEFINE u == SubSeq(r, n + 1, L)
              v == SubSeq(r, 1, n)
              w == u \o v
  <2>1. n \in Nat /\ n >= 1 /\ n < L
    BY <1>1, <1>5, <1>9
  <2>2. SortFallback(s) = w
    BY <1>1, <1>2, <1>9 DEF RotateLeft
  <2>3. /\ u \in Seq(Values) /\ Len(u) = L - n /\ \A e \in 1 .. L - n : u[e] = r[n + e]
    <3>1. n + 1 \in Int /\ L \in Int /\ \A e \in n + 1 .. L : r[e] \in Values
      BY <1>1, <2>1
    <3>2. /\ u \in Seq(Values) /\ Len(u) = (IF n + 1 <= L THEN L - (n + 1) + 1 ELSE 0)
          /\ \A e \in 1 .. L - (n + 1) + 1 : u[e] = r[n + 1 + e - 1]
      BY <3>1, SubSeqProperties
    <3>. HIDE DEF u
    <3>. QED BY <1>1, <2>1, <3>2
  <2>4. /\ v \in Seq(Values) /\ Len(v) = n /\ \A e \in 1 .. n : v[e] = r[e]
    <3>1. 1 \in Int /\ n \in Int /\ \A e \in 1 .. n : r[e] \in Values
      BY <1>1, <2>1
    <3>2. /\ v \in Seq(Values) /\ Len(v) = (IF 1 <= n THEN n - 1 + 1 ELSE 0)
          /\ \A e \in 1 .. n - 1 + 1 : v[e] = r[1 + e - 1]
      BY <3>1, SubSeqProperties
    <3>. HIDE DEF v
    <3>. QED BY <1>1, <2>1, <3>2
  <2>5. v \o u = r
    <3>1. 1 \in 1 .. Len(r) + 1 /\ n \in 1 - 1 .. Len(r) /\ L \in n .. Len(r)
      BY <1>1, <2>1
    <3>2. v \o u = SubSeq(r, 1, L)
      BY <1>1, <3>1, ConcatAdjacentSubSeq
    <3>. QED BY <1>1, <3>2, SubSeqFull
  <2>. HIDE DEF u, v
  <2>6. /\ w \in Seq(Values) /\ Len(w) = L
        /\ \A e \in 1 .. L : w[e] = IF e <= L - n THEN r[n + e] ELSE r[e - (L - n)]
    <3>1. /\ w \in Seq(Values) /\ Len(w) = Len(u) + Len(v)
          /\ \A e \in 1 .. Len(u) + Len(v) : w[e] = IF e <= Len(u) THEN u[e] ELSE v[e - Len(u)]
      BY <2>3, <2>4, ConcatProperties
    <3>. HIDE DEF w
    <3>2. Len(u) + Len(v) = L
      BY <1>1, <2>1, <2>3, <2>4
    <3>3. ASSUME NEW e \in 1 .. L PROVE w[e] = IF e <= L - n THEN r[n + e] ELSE r[e - (L - n)]
      <4>1. CASE e <= L - n
        <5>1. e \in 1 .. L - n /\ e <= Len(u)
          BY <1>1, <2>1, <2>3, <4>1
        <5>2. w[e] = u[e]
          BY <3>1, <3>2, <5>1
        <5>. QED BY <2>3, <4>1, <5>1, <5>2
      <4>2. CASE ~(e <= L - n)
        <5>1. e - (L - n) \in 1 .. n
          BY <1>1, <2>1, <4>2
        <5>. QED BY <2>3, <2>4, <3>1, <3>2, <4>2, <5>1
      <4>. QED BY <4>1, <4>2
    <3>. QED BY <3>1, <3>2, <3>3
  <2>7. SameElements(w, s)
    <3>1. \A x \in Values : CountOf(w, x) = CountOf(r, x)
      <4>. TAKE x \in Values
      <4>1. CountOf(w, x) = CountOf(u, x) + CountOf(v, x) /\ CountOf(r, x) = CountOf(v, x) + CountOf(u, x)
        BY <2>3, <2>4, <2>5, CountOfConcat
      <4>2. CountOf(u, x) \in Nat /\ CountOf(v, x) \in Nat
        BY <2>3, <2>4, SpotsOf
      <4>. QED BY <4>1, <4>2
    <3>. QED BY <1>1, <2>6, <3>1 DEF SameElements
  <2>. HIDE DEF w
  <2>8. ASSUME NEW e \in 1 .. L, NEW d \in 1 .. L, e < d PROVE AtMost(w[e], w[d])
    <3>1. CASE d <= L - n
      <4>1. n + e \in 1 .. L /\ n + d \in 1 .. L /\ n + e < n + d /\ ~(n + e <= n) /\ ~(n + d <= n) /\ e <= L - n
        BY <1>1, <2>1, <2>8, <3>1
      <4>2. w[e] = r[n + e] /\ w[d] = r[n + d]
        BY <2>6, <3>1, <4>1
      <4>. QED BY <1>6, <1>7, <4>1, <4>2
    <3>2. CASE ~(d <= L - n)
      <4>1. d - (L - n) \in 1 .. L /\ d - (L - n) <= n
        BY <1>1, <2>1, <3>2
      <4>2. IsNaN(w[d]) /\ w[d] \in Values
        BY <1>1, <1>7, <2>6, <3>2, <4>1
      <4>3. w[e] \in Values
        BY <2>6
      <4>. QED BY <4>2, <4>3, AtMostMeans
    <3>. QED BY <3>1, <3>2
  <2>. QED BY <2>2, <2>6, <2>7, <2>8 DEF InOrder
<1>. QED BY <1>8, <1>9

-----------------------------------------------------------------------------
(* The partition, the run of pivots and the depth.                         *)

LEMMA MedianIsElement ==
    ASSUME NEW s \in Seq(Values), s # <<>>
    PROVE  MedianOfThree(s) \in Values
<1>1. Len(s) \in Nat /\ Len(s) >= 1 /\ \A e \in 1 .. Len(s) : s[e] \in Values
  OBVIOUS
<1>2. 1 \in 1 .. Len(s) /\ Len(s) \in 1 .. Len(s) /\ Len(s) \div 2 + 1 \in 1 .. Len(s)
  BY <1>1
<1>3. s[1] \in Values /\ s[Len(s) \div 2 + 1] \in Values /\ s[Len(s)] \in Values
  BY <1>1, <1>2
<1>. QED BY <1>3, Zenon DEF MedianOfThree

\* partitionOut: a rearrangement, with every element of the first part at most every
\* element of the second.
LEMMA Partitioned ==
    ASSUME NEW s \in Seq(Values), NEW pivot \in Values
    PROVE  /\ Partition(s, pivot).out \in Seq(Values) /\ SameElements(Partition(s, pivot).out, s)
           /\ Len(Partition(s, pivot).out) = Len(s)
           /\ Partition(s, pivot).n \in 0 .. Len(s)
           /\ \A e \in 1 .. Partition(s, pivot).n : Partition(s, pivot).out[e] \in Below(pivot)
           /\ \A e \in Partition(s, pivot).n + 1 .. Len(s) : Partition(s, pivot).out[e] \notin Below(pivot)
<1>. DEFINE n == Cardinality(Keeping(s, Below(pivot)))
            u == Kept(s, Below(pivot))
            v == Kept(s, Values \ Below(pivot))
            w == u \o v
<1>1. Partition(s, pivot).n = n /\ Partition(s, pivot).out = w
  BY DEF Partition
<1>2. /\ u \in Seq(Values) /\ Len(u) = n /\ n \in 0 .. Len(s) /\ \A e \in 1 .. n : u[e] \in Below(pivot)
  BY KeptType
<1>3. /\ v \in Seq(Values) /\ \A e \in 1 .. Len(v) : v[e] \notin Below(pivot)
  BY KeptType
<1>4. SameElements(w, s)
  BY KeptTwice
<1>. HIDE DEF n, u, v
<1>5. /\ w \in Seq(Values) /\ Len(w) = Len(u) + Len(v)
      /\ \A e \in 1 .. Len(u) + Len(v) : w[e] = IF e <= Len(u) THEN u[e] ELSE v[e - Len(u)]
  BY <1>2, <1>3, ConcatProperties
<1>. HIDE DEF w
<1>6. Len(w) = Len(s) /\ Len(s) \in Nat /\ Len(v) \in Nat
  BY <1>3, <1>4 DEF SameElements
<1>7. ASSUME NEW e \in 1 .. n PROVE w[e] \in Below(pivot)
  BY <1>2, <1>5, <1>6
<1>8. ASSUME NEW e \in n + 1 .. Len(s) PROVE w[e] \notin Below(pivot)
  <2>1. e \in 1 .. Len(u) + Len(v) /\ ~(e <= Len(u)) /\ e - Len(u) \in 1 .. Len(v)
    BY <1>2, <1>5, <1>6
  <2>. QED BY <1>3, <1>5, <2>1
<1>. QED BY <1>1, <1>2, <1>4, <1>5, <1>6, <1>7, <1>8

\* extractEqual: a rearrangement of a side without elements below the pivot; what it
\* takes out are the pivots, and no other element is less.
LEMMA Extracted ==
    ASSUME NEW s \in Seq(Values), NEW pivot \in Values,
           \A e \in 1 .. Len(s) : s[e] \notin Below(pivot)
    PROVE  /\ ExtractEqual(s, pivot).out \in Seq(Values) /\ SameElements(ExtractEqual(s, pivot).out, s)
           /\ Len(ExtractEqual(s, pivot).out) = Len(s)
           /\ ExtractEqual(s, pivot).eq \in 0 .. Len(s)
           /\ \A e \in 1 .. ExtractEqual(s, pivot).eq : Same(ExtractEqual(s, pivot).out[e], pivot)
           /\ ExtractEqual(s, pivot).eq > 0 =>
                /\ ~IsNaN(pivot)
                /\ \A e \in 1 .. Len(s) : ExtractEqual(s, pivot).out[e] \notin Below(pivot)
<1>. DEFINE E == EqualTo(pivot)
            n == Cardinality(Keeping(s, E))
            u == Kept(s, E)
            v == Kept(s, Values \ E)
            fill == [e \in 1 .. n |-> pivot]
            w == fill \o v
            x == ExtractEqual(s, pivot)
<1>1. /\ u \in Seq(Values) /\ Len(u) = n /\ n \in 0 .. Len(s)
      /\ \A e \in 1 .. n : u[e] \in E /\ u[e] \in Values /\ Nth(Keeping(s, E), e) \in Keeping(s, E)
  BY KeptType
<1>2. /\ v \in Seq(Values) /\ Len(v) = Cardinality(Keeping(s, Values \ E))
      /\ \A e \in 1 .. Len(v) : /\ v[e] = s[Nth(Keeping(s, Values \ E), e)]
                                /\ Nth(Keeping(s, Values \ E), e) \in Keeping(s, Values \ E)
  BY KeptType
<1>3. SameElements(u \o v, s)
  BY KeptTwice
<1>4. Len(s) \in Nat /\ DOMAIN s = 1 .. Len(s) /\ \A e \in 1 .. Len(s) : s[e] \in Values
  OBVIOUS
<1>5. /\ x = CASE n = 0 \/ n * 4 < Len(s) -> [eq |-> 0, out |-> s]
               [] n > 0 /\ n = Len(s) -> [eq |-> n, out |-> s]
               [] OTHER -> [eq |-> n, out |-> w]
  BY DEF ExtractEqual
<1>6. ASSUME NEW e \in 1 .. Len(v) PROVE v[e] \notin Below(pivot)
  BY <1>2, <1>4 DEF Keeping
<1>7. n > 0 => ~IsNaN(pivot)
  <2>. SUFFICES ASSUME n > 0 PROVE ~IsNaN(pivot)
    OBVIOUS
  <2>1. 1 \in 1 .. n
    BY <1>1
  <2>. QED BY <1>1, <2>1, AroundPivot
<1>8. SameElements(s, s)
  BY SameElementsIs
<1>. HIDE DEF n, u, v, x
<1>9. fill \in Seq(Values) /\ Len(fill) = n /\ \A e \in 1 .. n : fill[e] = pivot
  <2>1. fill \in [1 .. n -> Values]
    OBVIOUS
  <2>. QED BY <1>1, <2>1, SeqDef
<1>. HIDE DEF fill
<1>10. /\ w \in Seq(Values) /\ Len(w) = Len(fill) + Len(v)
       /\ \A e \in 1 .. Len(fill) + Len(v) : w[e] = IF e <= Len(fill) THEN fill[e] ELSE v[e - Len(fill)]
  BY <1>2, <1>9, ConcatProperties
<1>11. ASSUME NEW y \in Values PROVE CountOf(w, y) = CountOf(u \o v, y)
  <2>1. \A e \in 1 .. n : Same(fill[e], y) <=> Same(u[e], y)
    <3>. TAKE e \in 1 .. n
    <3>1. Same(u[e], pivot)
      BY <1>1, AroundPivot
    <3>. QED BY <1>1, <1>9, <3>1, SameIsEquivalence
  <2>2. Spots(fill, y) = Spots(u, y)
    BY <1>1, <1>9, <2>1 DEF Spots
  <2>3. CountOf(fill, y) = CountOf(u, y)
    BY <1>1, <1>9, <2>2, SpotsOf
  <2>. QED BY <1>1, <1>2, <1>9, <2>3, CountOfConcat
<1>12. Len(w) = Len(s)
  <2>1. Len(u \o v) = Len(u) + Len(v) /\ Len(u \o v) = Len(s)
    BY <1>1, <1>2, <1>3, ConcatProperties DEF SameElements
  <2>. QED BY <1>1, <1>9, <1>10, <2>1
<1>13. SameElements(w, s)
  BY <1>3, <1>11, <1>12 DEF SameElements
<1>. HIDE DEF w
<1>14. ASSUME NEW e \in 1 .. n PROVE w[e] = pivot
  <2>1. e \in 1 .. Len(fill) + Len(v) /\ e <= Len(fill)
    BY <1>1, <1>2, <1>9
  <2>. QED BY <1>9, <1>10, <2>1
<1>15. ASSUME n > 0, NEW e \in 1 .. Len(s) PROVE w[e] \notin Below(pivot)
  <2>1. CASE e <= n
    <3>1. w[e] = pivot
      BY <1>1, <1>14, <2>1
    <3>2. ~Lt(pivot, pivot)
      BY NumberAssumption, NaNAssumption DEF Lt, IsNaN, Values
    <3>. QED BY <3>1, <3>2 DEF Below
  <2>2. CASE ~(e <= n)
    <3>1. e \in 1 .. Len(fill) + Len(v) /\ ~(e <= Len(fill)) /\ e - Len(fill) \in 1 .. Len(v)
      BY <1>1, <1>2, <1>4, <1>9, <1>10, <1>12, <2>2
    <3>. QED BY <1>6, <1>10, <3>1
  <2>. QED BY <2>1, <2>2
<1>16. CASE n = 0 \/ n * 4 < Len(s)
  <2>0. ~(n > 0 /\ n = Len(s))
    <3>1. n \in Nat /\ Len(s) \in Nat
      BY <1>1, <1>4
    <3>. QED BY <1>16, <3>1
  <2>1. x = [eq |-> 0, out |-> s]
    BY <1>5, <1>16, <2>0, Zenon
  <2>. QED BY <1>4, <1>8, <2>1 DEF x
<1>17. CASE ~(n = 0 \/ n * 4 < Len(s)) /\ n > 0 /\ n = Len(s)
  <2>1. x = [eq |-> n, out |-> s]
    BY <1>5, <1>17, Zenon
  <2>2. ASSUME NEW e \in 1 .. n PROVE Same(s[e], pivot)
    <3>1. Keeping(s, E) = 1 .. Len(s)
      <4>1. Keeping(s, E) \in SUBSET (1 .. Len(s))
        BY <1>4 DEF Keeping
      <4>2. IsFiniteSet(1 .. Len(s)) /\ Cardinality(1 .. Len(s)) = Cardinality(Keeping(s, E))
        BY <1>4, <1>17, UpTo DEF n
      <4>. QED BY <4>1, <4>2, FS_Subset
    <3>2. s[e] \in E /\ s[e] \in Values
      BY <1>4, <1>17, <3>1 DEF Keeping
    <3>. QED BY <3>2, AroundPivot
  <2>. QED BY <1>1, <1>4, <1>7, <1>8, <1>17, <2>1, <2>2 DEF x
<1>18. CASE ~(n = 0 \/ n * 4 < Len(s)) /\ ~(n > 0 /\ n = Len(s))
  <2>1. x = [eq |-> n, out |-> w]
    BY <1>5, <1>18, Zenon
  <2>2. \A e \in 1 .. n : Same(w[e], pivot)
    BY <1>14, SameIsEquivalence
  <2>. QED BY <1>1, <1>7, <1>10, <1>12, <1>13, <1>15, <2>1, <2>2 DEF x
<1>. QED BY <1>16, <1>17, <1>18

\* bitsLen counts.
LEMMA BitsLenType ==
    ASSUME NEW n \in Nat
    PROVE  BitsLen(n) \in Nat
<1>. DEFINE Next1(f, e) == IF e = 0 THEN 0 ELSE 1 + f[e \div 2]
            Good(m) == \E f \in [0 .. m -> Nat] : \A e \in 0 .. m : f[e] = Next1(f, e)
            T == {m \in Nat : Good(m)}
<1>1. \A e \in Nat : e > 0 => e \div 2 \in 0 .. e - 1
  OBVIOUS
<1>2. 0 \in T
  <2>. DEFINE f == [e \in 0 .. 0 |-> 0]
  <2>1. f \in [0 .. 0 -> Nat] /\ \A e \in 0 .. 0 : f[e] = Next1(f, e)
    OBVIOUS
  <2>. HIDE DEF f
  <2>. QED BY <2>1
<1>3. ASSUME NEW m \in Nat, m \in T PROVE m + 1 \in T
  <2>1. PICK f \in [0 .. m -> Nat] : \A e \in 0 .. m : f[e] = Next1(f, e)
    BY <1>3
  <2>. DEFINE g == [e \in 0 .. m + 1 |-> IF e <= m THEN f[e] ELSE 1 + f[(m + 1) \div 2]]
  <2>2. (m + 1) \div 2 \in 0 .. m
    BY <1>1
  <2>3. g \in [0 .. m + 1 -> Nat]
    BY <2>2
  <2>4. \A e \in 0 .. m : g[e] = f[e]
    OBVIOUS
  <2>5. g[m + 1] = 1 + f[(m + 1) \div 2]
    OBVIOUS
  <2>. HIDE DEF g
  <2>6. ASSUME NEW e \in 0 .. m + 1 PROVE g[e] = Next1(g, e)
    <3>1. CASE e = m + 1
      BY <2>2, <2>4, <2>5, <3>1
    <3>2. CASE e = 0
      BY <2>1, <2>4, <3>2
    <3>3. CASE e \in 1 .. m
      <4>1. e \in 0 .. m /\ e # 0 /\ e \div 2 \in 0 .. m
        BY <1>1, <3>3
      <4>2. g[e] = f[e] /\ g[e \div 2] = f[e \div 2]
        BY <2>4, <4>1
      <4>. QED BY <2>1, <4>1, <4>2
    <3>. QED BY <3>1, <3>2, <3>3
  <2>7. g \in [0 .. m + 1 -> Nat] /\ \A e \in 0 .. m + 1 : g[e] = Next1(g, e)
    BY <2>3, <2>6
  <2>8. Good(m + 1)
    BY <2>7, Zenon
  <2>. HIDE DEF Good
  <2>. QED BY <2>8
<1>4. PICK f \in [0 .. n -> Nat] : \A e \in 0 .. n : f[e] = Next1(f, e)
  <2>. HIDE DEF T
  <2>1. n \in T
    BY <1>2, <1>3, SetInduction
  <2>. QED BY <2>1 DEF T
<1>. DEFINE Unfolded(b) == b = [e \in 0 .. n |-> IF e = 0 THEN 0 ELSE 1 + b[e \div 2]]
<1>5. Unfolded(f)
  BY <1>4
<1>. DEFINE bits == CHOOSE b : Unfolded(b)
<1>6. Unfolded(bits)
  BY <1>5
<1>7. BitsLen(n) = bits[n]
  BY DEF BitsLen
<1>. HIDE DEF bits
<1>. DEFINE C == {m \in Nat : \A e \in 0 .. m : e <= n => bits[e] \in Nat}
<1>8. 0 \in C
  BY <1>6
<1>9. ASSUME NEW m \in Nat, m \in C PROVE m + 1 \in C
  <2>1. ASSUME m + 1 <= n PROVE bits[m + 1] \in Nat
    <3>1. (m + 1) \div 2 \in 0 .. m
      BY <1>1
    <3>2. bits[(m + 1) \div 2] \in Nat
      BY <1>9, <2>1, <3>1
    <3>3. m + 1 \in 0 .. n /\ m + 1 # 0
      BY <2>1
    <3>4. bits[m + 1] = 1 + bits[(m + 1) \div 2]
      BY <1>6, <3>3
    <3>. QED BY <3>2, <3>4
  <2>. QED BY <1>9, <2>1
<1>. HIDE DEF C
<1>10. n \in C
  BY <1>8, <1>9, SetInduction
<1>. QED BY <1>7, <1>10 DEF C

LEMMA DepthType == ASSUME NEW s \in Seq(Values), s = input PROVE Depth \in Nat
<1>1. Len(input) \in Nat
  OBVIOUS
<1>. QED BY <1>1, BitsLenType, DepthAssumption DEF Depth

-----------------------------------------------------------------------------
(* Writing a window back.                                                  *)

\* Between low and high, t has elements of s from there; elsewhere it is s.
Rewrites(s, t, low, high) ==
    /\ t \in Seq(Values) /\ Len(t) = Len(s)
    /\ \A p \in 0 .. Len(s) - 1 : p < low \/ high <= p => t[p + 1] = s[p + 1]
    /\ \A p \in low .. high - 1 : \E q \in low .. high - 1 : Same(s[q + 1], t[p + 1])

LEMMA SliceOf ==
    ASSUME NEW s \in Seq(Values), NEW m \in Nat, NEW n \in 0 .. Len(s), m <= n
    PROVE  /\ SubSeq(s, m + 1, n) \in Seq(Values) /\ Len(SubSeq(s, m + 1, n)) = n - m
           /\ \A e \in 1 .. n - m : SubSeq(s, m + 1, n)[e] = s[m + e]
<1>1. Len(s) \in Nat /\ \A e \in 1 .. Len(s) : s[e] \in Values
  OBVIOUS
<1>2. m + 1 \in Int /\ n \in Int /\ \A e \in m + 1 .. n : s[e] \in Values
  BY <1>1
<1>3. /\ SubSeq(s, m + 1, n) \in Seq(Values)
      /\ Len(SubSeq(s, m + 1, n)) = (IF m + 1 <= n THEN n - (m + 1) + 1 ELSE 0)
      /\ \A e \in 1 .. n - (m + 1) + 1 : SubSeq(s, m + 1, n)[e] = s[m + 1 + e - 1]
  BY <1>2, SubSeqProperties
<1>4. n \in Nat
  BY <1>1
<1>. QED BY <1>3, <1>4

\* An element of a rearrangement is equal to one of the list.
LEMMA ElementFrom ==
    ASSUME NEW s \in Seq(Values), NEW t \in Seq(Values), SameElements(t, s), NEW e \in 1 .. Len(t)
    PROVE  \E d \in 1 .. Len(s) : Same(s[d], t[e])
<1>1. Len(t) \in Nat /\ DOMAIN t = 1 .. Len(t) /\ DOMAIN s = 1 .. Len(s)
  OBVIOUS
<1>2. t[e] \in Values /\ Same(t[e], t[e])
  BY <1>1, SameIsEquivalence
<1>3. e \in Spots(t, t[e])
  BY <1>1, <1>2 DEF Spots
<1>4. CountOf(t, t[e]) # 0
  <2>1. IsFiniteSet(Spots(t, t[e])) /\ CountOf(t, t[e]) = Cardinality(Spots(t, t[e]))
    BY SpotsOf
  <2>. QED BY <1>3, <2>1, FS_EmptySet
<1>5. CountOf(s, t[e]) # 0
  BY <1>2, <1>4 DEF SameElements
<1>6. Spots(s, t[e]) # {}
  BY <1>5, SpotsOf, FS_EmptySet
<1>. QED BY <1>1, <1>6 DEF Spots

LEMMA PutRewrites ==
    ASSUME NEW s \in Seq(Values), NEW low \in 0 .. Len(s), NEW high \in 0 .. Len(s), low <= high,
           NEW w \in Seq(Values), SameElements(w, Window(s, low, high))
    PROVE  /\ Rewrites(s, Put(s, low, high, w), low, high)
           /\ SameElements(Put(s, low, high, w), s)
           /\ \A p \in low .. high - 1 : Put(s, low, high, w)[p + 1] = w[p - low + 1]
<1>. DEFINE x == SubSeq(s, 1, low)
            y == SubSeq(s, high + 1, Len(s))
            z == Window(s, low, high)
            t == Put(s, low, high, w)
<1>1. Len(s) \in Nat /\ low \in Nat /\ high \in Nat
  OBVIOUS
<1>2. x \in Seq(Values) /\ Len(x) = low /\ \A e \in 1 .. low : x[e] = s[e]
  <2>1. 0 \in Nat /\ low \in 0 .. Len(s) /\ 0 <= low /\ 0 + 1 = 1 /\ low - 0 = low
    BY <1>1
  <2>2. /\ SubSeq(s, 0 + 1, low) \in Seq(Values) /\ Len(SubSeq(s, 0 + 1, low)) = low - 0
        /\ \A e \in 1 .. low - 0 : SubSeq(s, 0 + 1, low)[e] = s[0 + e]
    BY <2>1, SliceOf
  <2>. QED BY <1>1, <2>2
<1>3. y \in Seq(Values) /\ Len(y) = Len(s) - high /\ \A e \in 1 .. Len(s) - high : y[e] = s[high + e]
  <2>1. Len(s) \in 0 .. Len(s) /\ high <= Len(s)
    BY <1>1
  <2>. QED BY <1>1, <2>1, SliceOf
<1>4. z \in Seq(Values) /\ Len(z) = high - low /\ \A e \in 1 .. high - low : z[e] = s[low + e]
  BY <1>1, SliceOf DEF Window
<1>5. Len(w) = high - low
  BY <1>4 DEF SameElements
<1>6. t = x \o w \o y
  BY DEF Put
<1>. HIDE DEF x, y, z, t
<1>7. /\ x \o w \in Seq(Values) /\ Len(x \o w) = Len(x) + Len(w)
      /\ \A e \in 1 .. Len(x) + Len(w) : (x \o w)[e] = IF e <= Len(x) THEN x[e] ELSE w[e - Len(x)]
  BY <1>2, ConcatProperties
<1>. DEFINE v == x \o w
<1>8. v \in Seq(Values) /\ Len(v) = high
  BY <1>1, <1>2, <1>5, <1>7
<1>9. \A e \in 1 .. low : v[e] = s[e]
  BY <1>1, <1>2, <1>5, <1>7
<1>10. \A e \in low + 1 .. high : v[e] = w[e - low]
  BY <1>1, <1>2, <1>5, <1>7
<1>11. t = v \o y
  BY <1>6
<1>. HIDE DEF v
<1>12. /\ t \in Seq(Values) /\ Len(t) = Len(v) + Len(y)
       /\ \A e \in 1 .. Len(v) + Len(y) : t[e] = IF e <= Len(v) THEN v[e] ELSE y[e - Len(v)]
  BY <1>3, <1>8, <1>11, ConcatProperties
<1>13. Len(t) = Len(s)
  BY <1>1, <1>3, <1>8, <1>12
<1>14. ASSUME NEW p \in 0 .. Len(s) - 1, p < low PROVE t[p + 1] = s[p + 1]
  <2>1. p + 1 \in 1 .. Len(v) + Len(y) /\ p + 1 <= Len(v) /\ p + 1 \in 1 .. low
    BY <1>1, <1>3, <1>8, <1>14
  <2>. QED BY <1>9, <1>12, <2>1
<1>15. ASSUME NEW p \in 0 .. Len(s) - 1, high <= p PROVE t[p + 1] = s[p + 1]
  <2>1. /\ p + 1 \in 1 .. Len(v) + Len(y) /\ ~(p + 1 <= Len(v)) /\ p + 1 - Len(v) \in 1 .. Len(s) - high
        /\ high + (p + 1 - Len(v)) = p + 1
    BY <1>1, <1>3, <1>8, <1>15
  <2>2. t[p + 1] = y[p + 1 - Len(v)]
    BY <1>12, <2>1
  <2>3. y[p + 1 - Len(v)] = s[high + (p + 1 - Len(v))]
    BY <1>3, <2>1
  <2>. QED BY <2>1, <2>2, <2>3
<1>16. ASSUME NEW p \in low .. high - 1 PROVE t[p + 1] = w[p - low + 1]
  <2>1. /\ p + 1 \in 1 .. Len(v) + Len(y) /\ p + 1 <= Len(v) /\ p + 1 \in low + 1 .. high
        /\ p + 1 - low = p - low + 1
    BY <1>1, <1>3, <1>8, <1>16
  <2>2. t[p + 1] = v[p + 1]
    BY <1>12, <2>1
  <2>3. v[p + 1] = w[p + 1 - low]
    BY <1>10, <2>1
  <2>. QED BY <2>1, <2>2, <2>3
<1>17. ASSUME NEW p \in low .. high - 1 PROVE \E q \in low .. high - 1 : Same(s[q + 1], t[p + 1])
  <2>1. p - low + 1 \in 1 .. Len(w)
    BY <1>1, <1>5
  <2>2. PICK d \in 1 .. Len(z) : Same(z[d], w[p - low + 1])
    BY <1>4, <2>1, ElementFrom DEF z
  <2>3. low + d - 1 \in low .. high - 1 /\ low + d - 1 + 1 = low + d /\ d \in 1 .. high - low
    BY <1>1, <1>4
  <2>4. Same(s[low + d - 1 + 1], t[p + 1])
    BY <1>4, <1>16, <2>2, <2>3
  <2>. QED BY <2>3, <2>4
<1>18. Rewrites(s, t, low, high)
  BY <1>12, <1>13, <1>14, <1>15, <1>17 DEF Rewrites
<1>19. SameElements(t, s)
  <2>1. s = (x \o z) \o y
    <3>1. 1 \in 1 .. Len(s) + 1 /\ low \in 1 - 1 .. Len(s) /\ high \in low .. Len(s) /\ high \in 1 - 1 .. Len(s) /\ Len(s) \in high .. Len(s)
      BY <1>1
    <3>2. x \o z = SubSeq(s, 1, high)
      BY <3>1, ConcatAdjacentSubSeq DEF x, z, Window
    <3>3. SubSeq(s, 1, high) \o y = SubSeq(s, 1, Len(s))
      BY <3>1, ConcatAdjacentSubSeq DEF y
    <3>. QED BY <3>2, <3>3, SubSeqFull
  <2>2. ASSUME NEW c \in Values PROVE CountOf(t, c) = CountOf(s, c)
    <3>1. CountOf(w, c) = CountOf(z, c)
      BY DEF SameElements, z
    <3>2. x \o z \in Seq(Values)
      BY <1>2, <1>4, ConcatProperties
    <3>3. CountOf(v, c) = CountOf(x, c) + CountOf(w, c) /\ CountOf(x \o z, c) = CountOf(x, c) + CountOf(z, c)
      BY <1>2, <1>4, CountOfConcat DEF v
    <3>4. CountOf(t, c) = CountOf(v, c) + CountOf(y, c)
      BY <1>3, <1>8, <1>11, CountOfConcat
    <3>5. CountOf(s, c) = CountOf(x \o z, c) + CountOf(y, c)
      BY <1>3, <2>1, <3>2, CountOfConcat
    <3>. QED BY <3>1, <3>3, <3>4, <3>5
  <2>. QED BY <1>13, <2>2 DEF SameElements
<1>. QED BY <1>16, <1>18, <1>19 DEF t

-----------------------------------------------------------------------------
(* Fences.                                                                 *)

\* What Settled says of one place.
Final(s, p) ==
    \A q \in 0 .. Len(s) - 1 :
      /\ q < p => AtMost(s[q + 1], s[p + 1])
      /\ q > p => AtMost(s[p + 1], s[q + 1])

\* Two windows with no place in common, or the first around the second.
Compatible(l, h, low, high) == h <= low \/ high <= l \/ (l <= low /\ high <= h)

LEMMA SameMoves ==
    ASSUME NEW x \in Values, NEW y \in Values, Same(x, y), NEW z \in Values
    PROVE  (AtMost(x, z) <=> AtMost(y, z)) /\ (AtMost(z, x) <=> AtMost(z, y))
BY AtMostOrders DEF Same

LEMMA RewriteKeepsApart ==
    ASSUME NEW s \in Seq(Values), NEW low \in 0 .. Len(s), NEW high \in 0 .. Len(s), low <= high,
           NEW t, Rewrites(s, t, low, high),
           NEW l \in 0 .. Len(s), NEW h \in 0 .. Len(s), Compatible(l, h, low, high), Apart(s, l, h)
    PROVE  Apart(t, l, h)
<1>1. /\ Len(s) \in Nat /\ low \in Nat /\ high \in Nat /\ l \in Nat /\ h \in Nat
      /\ t \in Seq(Values) /\ Len(t) = Len(s)
  BY DEF Rewrites
<1>2. \A p \in 0 .. Len(s) - 1 : s[p + 1] \in Values /\ t[p + 1] \in Values
  <2>1. \A e \in 1 .. Len(s) : s[e] \in Values /\ t[e] \in Values
    BY <1>1
  <2>2. \A p \in 0 .. Len(s) - 1 : p + 1 \in 1 .. Len(s)
    BY <1>1
  <2>. QED BY <2>1, <2>2
\* Every element of t is equal to one of s, in the window with it or at its place.
<1>3. ASSUME NEW p \in 0 .. Len(s) - 1
      PROVE  \E q \in 0 .. Len(s) - 1 : /\ Same(s[q + 1], t[p + 1])
                                        /\ q = p \/ (q \in low .. high - 1 /\ p \in low .. high - 1)
  <2>1. CASE p < low \/ high <= p
    BY <1>2, <2>1, SameIsEquivalence DEF Rewrites
  <2>2. CASE ~(p < low \/ high <= p)
    <3>1. p \in low .. high - 1
      BY <1>1, <2>2
    <3>2. PICK q \in low .. high - 1 : Same(s[q + 1], t[p + 1])
      BY <3>1 DEF Rewrites
    <3>3. q \in 0 .. Len(s) - 1
      BY <1>1
    <3>. QED BY <3>1, <3>2, <3>3
  <2>. QED BY <2>1, <2>2
<1>4. ASSUME NEW p \in l .. h - 1, NEW q \in 0 .. Len(s) - 1
      PROVE  /\ q \in 0 .. l - 1 => AtMost(t[q + 1], t[p + 1])
             /\ q \in h .. Len(t) - 1 => AtMost(t[p + 1], t[q + 1])
  <2>1. p \in 0 .. Len(s) - 1
    BY <1>1
  <2>2. PICK x \in 0 .. Len(s) - 1 : Same(s[x + 1], t[p + 1]) /\ (x = p \/ (x \in low .. high - 1 /\ p \in low .. high - 1))
    BY <1>3, <2>1
  <2>3. PICK y \in 0 .. Len(s) - 1 : Same(s[y + 1], t[q + 1]) /\ (y = q \/ (y \in low .. high - 1 /\ q \in low .. high - 1))
    BY <1>3
  <2>4. x \in l .. h - 1
    BY <1>1, <2>2 DEF Compatible
  <2>5. (q \in 0 .. l - 1 => y \in 0 .. l - 1) /\ (q \in h .. Len(t) - 1 => y \in h .. Len(s) - 1)
    BY <1>1, <2>3 DEF Compatible
  <2>6. /\ y \in 0 .. l - 1 => AtMost(s[y + 1], s[x + 1])
        /\ y \in h .. Len(s) - 1 => AtMost(s[x + 1], s[y + 1])
    BY <2>4 DEF Apart
  <2>. QED BY <1>2, <2>1, <2>2, <2>3, <2>5, <2>6, SameMoves, SMTT(120)
<1>5. \A q \in 0 .. l - 1 : q \in 0 .. Len(s) - 1
  BY <1>1
<1>6. \A q \in h .. Len(t) - 1 : q \in 0 .. Len(s) - 1
  BY <1>1
<1>. QED BY <1>4, <1>5, <1>6 DEF Apart

LEMMA RewriteKeepsFinal ==
    ASSUME NEW s \in Seq(Values), NEW low \in 0 .. Len(s), NEW high \in 0 .. Len(s), low <= high,
           NEW t, Rewrites(s, t, low, high),
           NEW p \in 0 .. Len(s) - 1, p < low \/ high <= p, Final(s, p)
    PROVE  Final(t, p)
<1>1. /\ Len(s) \in Nat /\ low \in Nat /\ high \in Nat
      /\ t \in Seq(Values) /\ Len(t) = Len(s)
  BY DEF Rewrites
<1>2. \A q \in 0 .. Len(s) - 1 : s[q + 1] \in Values /\ t[q + 1] \in Values
  <2>1. \A e \in 1 .. Len(s) : s[e] \in Values /\ t[e] \in Values
    BY <1>1
  <2>2. \A q \in 0 .. Len(s) - 1 : q + 1 \in 1 .. Len(s)
    BY <1>1
  <2>. QED BY <2>1, <2>2
<1>3. t[p + 1] = s[p + 1]
  BY DEF Rewrites
<1>4. ASSUME NEW q \in 0 .. Len(s) - 1
      PROVE  /\ q < p => AtMost(t[q + 1], t[p + 1])
             /\ q > p => AtMost(t[p + 1], t[q + 1])
  <2>1. CASE q < low \/ high <= q
    BY <1>3, <2>1 DEF Rewrites, Final
  <2>2. CASE ~(q < low \/ high <= q)
    <3>1. q \in low .. high - 1
      BY <1>1, <2>2
    <3>2. PICK y \in low .. high - 1 : Same(s[y + 1], t[q + 1])
      BY <3>1 DEF Rewrites
    <3>3. y \in 0 .. Len(s) - 1 /\ (q < p <=> y < p) /\ (q > p <=> y > p)
      BY <1>1, <3>1
    <3>4. /\ y < p => AtMost(s[y + 1], s[p + 1])
          /\ y > p => AtMost(s[p + 1], s[y + 1])
      BY <3>3 DEF Final
    <3>. QED BY <1>2, <1>3, <3>2, <3>3, <3>4, SameMoves
  <2>. QED BY <2>1, <2>2
<1>. QED BY <1>1, <1>4 DEF Final

\* The elements of one window are at most those of another.
Under(s, l1, h1, l2, h2) == \A p \in l1 .. h1 - 1, q \in l2 .. h2 - 1 : AtMost(s[p + 1], s[q + 1])

\* A part of a fenced window that is fenced within it is fenced.
LEMMA ApartWithin ==
    ASSUME NEW s \in Seq(Values), NEW low \in 0 .. Len(s), NEW high \in 0 .. Len(s), Apart(s, low, high),
           NEW l \in low .. high, NEW h \in low .. high,
           Under(s, low, l, l, h), Under(s, l, h, h, high)
    PROVE  Apart(s, l, h)
<1>1. Len(s) \in Nat /\ low \in Nat /\ high \in Nat /\ l \in Nat /\ h \in Nat
  OBVIOUS
<1>2. ASSUME NEW p \in l .. h - 1, NEW q \in 0 .. l - 1 PROVE AtMost(s[q + 1], s[p + 1])
  <2>1. p \in low .. high - 1 /\ (q \in low .. l - 1 \/ q \in 0 .. low - 1)
    BY <1>1
  <2>. QED BY <2>1 DEF Apart, Under
<1>3. ASSUME NEW p \in l .. h - 1, NEW q \in h .. Len(s) - 1 PROVE AtMost(s[p + 1], s[q + 1])
  <2>1. p \in low .. high - 1 /\ (q \in h .. high - 1 \/ q \in high .. Len(s) - 1)
    BY <1>1
  <2>. QED BY <2>1 DEF Apart, Under
<1>. QED BY <1>2, <1>3 DEF Apart

\* A place that is final within a fenced window is final.
LEMMA FinalWithin ==
    ASSUME NEW s \in Seq(Values), NEW low \in 0 .. Len(s), NEW high \in 0 .. Len(s), Apart(s, low, high),
           NEW p \in low .. high - 1,
           \A q \in low .. high - 1 : (q < p => AtMost(s[q + 1], s[p + 1])) /\ (q > p => AtMost(s[p + 1], s[q + 1]))
    PROVE  Final(s, p)
<1>1. Len(s) \in Nat /\ low \in Nat /\ high \in Nat /\ p \in Nat
  OBVIOUS
<1>2. ASSUME NEW q \in 0 .. Len(s) - 1
      PROVE  /\ q < p => AtMost(s[q + 1], s[p + 1])
             /\ q > p => AtMost(s[p + 1], s[q + 1])
  <2>1. CASE q \in low .. high - 1
    BY <2>1
  <2>2. CASE q \in 0 .. low - 1
    <3>1. AtMost(s[q + 1], s[p + 1]) /\ ~(q > p)
      BY <1>1, <2>2 DEF Apart
    <3>. QED BY <3>1
  <2>3. CASE q \in high .. Len(s) - 1
    <3>1. AtMost(s[p + 1], s[q + 1]) /\ ~(q < p)
      BY <1>1, <2>3 DEF Apart
    <3>. QED BY <3>1
  <2>4. q \in low .. high - 1 \/ q \in 0 .. low - 1 \/ q \in high .. Len(s) - 1
    BY <1>1
  <2>. QED BY <2>1, <2>2, <2>3, <2>4
<1>. QED BY <1>2 DEF Final

-----------------------------------------------------------------------------
(* The calls.                                                              *)

LEMMA Popped ==
    ASSUME NEW F, NEW u \in Seq(F), u # <<>>
    PROVE  /\ Len(u) \in Nat /\ Len(u) >= 1 /\ DOMAIN u = 1 .. Len(u) /\ Last(u) = u[Len(u)] /\ Last(u) \in F
           /\ Front(u) \in Seq(F) /\ Len(Front(u)) = Len(u) - 1
           /\ \A e \in 1 .. Len(u) - 1 : Front(u)[e] = u[e]
<1>1. Len(u) \in Nat /\ Len(u) >= 1 /\ DOMAIN u = 1 .. Len(u) /\ \A e \in 1 .. Len(u) : u[e] \in F
  OBVIOUS
<1>2. 1 \in Int /\ Len(u) - 1 \in Int /\ \A e \in 1 .. Len(u) - 1 : u[e] \in F
  BY <1>1
<1>. DEFINE v == SubSeq(u, 1, Len(u) - 1)
<1>3. /\ v \in Seq(F) /\ Len(v) = (IF 1 <= Len(u) - 1 THEN Len(u) - 1 - 1 + 1 ELSE 0)
      /\ \A e \in 1 .. Len(u) - 1 - 1 + 1 : v[e] = u[1 + e - 1]
  BY <1>2, SubSeqProperties
<1>4. Front(u) = v
  BY DEF Front
<1>. HIDE DEF v
<1>5. Len(v) = Len(u) - 1
  <2>1. /\ 1 <= Len(u) - 1 => Len(u) - 1 - 1 + 1 = Len(u) - 1
        /\ ~(1 <= Len(u) - 1) => 0 = Len(u) - 1
    BY <1>1
  <2>. QED BY <1>3, <2>1, Zenon
<1>6. ASSUME NEW e \in 1 .. Len(u) - 1 PROVE v[e] = u[e]
  <2>1. e \in 1 .. Len(u) - 1 - 1 + 1 /\ 1 + e - 1 = e
    BY <1>1
  <2>2. v[e] = u[1 + e - 1]
    BY <1>3, <2>1
  <2>. QED BY <2>1, <2>2
<1>7. Last(u) = u[Len(u)] /\ u[Len(u)] \in F
  BY <1>1 DEF Last
<1>. QED BY <1>1, <1>3, <1>4, <1>5, <1>6, <1>7

LEMMA Called ==
    ASSUME NEW F, NEW u \in Seq(F), u # <<>>, NEW g \in F, NEW h \in F
    PROVE  /\ Append(Front(u), g) \o <<h>> \in Seq(F) /\ Len(Append(Front(u), g) \o <<h>>) = Len(u) + 1
           /\ \A e \in 1 .. Len(u) - 1 : (Append(Front(u), g) \o <<h>>)[e] = u[e]
           /\ (Append(Front(u), g) \o <<h>>)[Len(u)] = g
           /\ (Append(Front(u), g) \o <<h>>)[Len(u) + 1] = h
<1>. DEFINE v == Front(u)
            w == Append(v, g)
<1>1. /\ Len(u) \in Nat /\ Len(u) >= 1 /\ v \in Seq(F) /\ Len(v) = Len(u) - 1
      /\ \A e \in 1 .. Len(u) - 1 : v[e] = u[e]
  BY Popped
<1>. HIDE DEF v
<1>2. /\ w \in Seq(F) /\ Len(w) = Len(v) + 1 /\ w[Len(v) + 1] = g
      /\ \A e \in 1 .. Len(v) : w[e] = v[e]
  BY <1>1, AppendProperties
<1>3. Len(w) = Len(u) /\ w[Len(u)] = g /\ \A e \in 1 .. Len(u) - 1 : w[e] = u[e]
  BY <1>1, <1>2
<1>. HIDE DEF w
<1>4. <<h>> \in Seq(F) /\ Len(<<h>>) = 1 /\ <<h>>[1] = h
  OBVIOUS
<1>5. /\ w \o <<h>> \in Seq(F) /\ Len(w \o <<h>>) = Len(w) + Len(<<h>>)
      /\ \A e \in 1 .. Len(w) + Len(<<h>>) : (w \o <<h>>)[e] = IF e <= Len(w) THEN w[e] ELSE <<h>>[e - Len(w)]
  BY <1>2, <1>4, ConcatProperties
<1>6. Len(w \o <<h>>) = Len(u) + 1
  BY <1>1, <1>3, <1>4, <1>5
<1>7. \A e \in 1 .. Len(u) : (w \o <<h>>)[e] = w[e]
  BY <1>1, <1>3, <1>4, <1>5
<1>8. (w \o <<h>>)[Len(u) + 1] = h
  BY <1>1, <1>3, <1>4, <1>5
<1>9. \A e \in 1 .. Len(u) - 1 : e \in 1 .. Len(u)
  BY <1>1
<1>10. Len(u) \in 1 .. Len(u)
  BY <1>1
<1>. QED BY <1>3, <1>5, <1>6, <1>7, <1>8, <1>9, <1>10 DEF v, w

\* What a turn of the running call may leave: its window rearranged into t, and the call
\* replaced by calls whose windows are parts of it, apart and fenced; what is in none of
\* them is final.
Within(t, g, f, e) ==
    /\ f.lo <= g.lo /\ g.lo <= g.hi /\ g.hi <= f.hi
    /\ Apart(t, g.lo, g.hi)
    /\ g.depth + (e - 1) <= Depth
    /\ g.at = "second" => g.depth > 0
    /\ g.at = "return" => g.lo = g.hi
Turned(t, u, f) ==
    /\ Rewrites(a, t, f.lo, f.hi) /\ SameElements(t, a)
    /\ u \in Seq(Frames) /\ Len(u) >= Len(stack) - 1
    /\ \A e \in 1 .. Len(stack) - 1 : u[e] = stack[e]
    /\ \A e \in Len(stack) .. Len(u) : Within(t, u[e], f, e)
    /\ \A e, d \in Len(stack) .. Len(u) : e < d => u[e].hi <= u[d].lo \/ u[d].hi <= u[e].lo
    /\ \A p \in f.lo .. f.hi - 1 :
         Final(t, p) \/ \E e \in Len(stack) .. Len(u) : u[e].lo <= p /\ p < u[e].hi

LEMMA StackFacts ==
    ASSUME SortInv, stack # <<>>
    PROVE  /\ Len(stack) \in Nat /\ Len(stack) >= 1 /\ DOMAIN stack = 1 .. Len(stack)
           /\ a \in Seq(Values) /\ Len(a) \in Nat
           /\ \A e \in 1 .. Len(stack) :
                /\ stack[e] \in Frames /\ stack[e].lo \in 0 .. Len(a) /\ stack[e].hi \in 0 .. Len(a)
                /\ stack[e].lo <= stack[e].hi /\ stack[e].depth \in Nat
                /\ Apart(a, stack[e].lo, stack[e].hi)
                /\ stack[e].depth + (e - 1) <= Depth
                /\ stack[e].at = "second" => stack[e].depth > 0
                /\ stack[e].at = "return" => stack[e].lo = stack[e].hi
           /\ Running = stack[Len(stack)] /\ Len(stack) \in 1 .. Len(stack)
<1>1. stack \in Seq(Frames) /\ a \in Seq(Values)
  BY DEF SortInv, TypeOK
<1>2. Len(stack) \in Nat /\ Len(stack) >= 1 /\ DOMAIN stack = 1 .. Len(stack) /\ Running = stack[Len(stack)]
  BY <1>1, Popped DEF Running
<1>3. Len(stack) \in 1 .. Len(stack) /\ Len(a) \in Nat
  BY <1>1, <1>2
<1>4. ASSUME NEW e \in 1 .. Len(stack)
      PROVE  /\ stack[e] \in Frames /\ stack[e].lo \in 0 .. Len(a) /\ stack[e].hi \in 0 .. Len(a)
             /\ stack[e].depth \in Nat
  <2>1. stack[e] \in Frames
    BY <1>1
  <2>. QED BY <2>1 DEF Frames
<1>5. \A e \in 1 .. Len(stack) : Apart(a, stack[e].lo, stack[e].hi)
  BY <1>2 DEF SortInv, Fenced, Apart, At
<1>6. \A e \in 1 .. Len(stack) :
        /\ stack[e].lo <= stack[e].hi
        /\ stack[e].at = "return" => stack[e].lo = stack[e].hi
  BY <1>2 DEF SortInv, TypeOK
<1>7. \A e \in 1 .. Len(stack) :
        /\ stack[e].depth + (e - 1) <= Depth
        /\ stack[e].at = "second" => stack[e].depth > 0
  BY <1>2 DEF SortInv, DepthBoundsStack
<1>. QED BY <1>1, <1>2, <1>3, <1>4, <1>5, <1>6, <1>7

LEMMA TurnKeeps ==
    ASSUME SortInv, pc = "sorting", stack # <<>>, UNCHANGED <<pc, input>>, Turned(a', stack', Running)
    PROVE  SortInv'
<1>. DEFINE f == Running
            n == Len(stack)
            m == Len(stack')
<1>1. /\ n \in Nat /\ n >= 1 /\ DOMAIN stack = 1 .. n
      /\ a \in Seq(Values) /\ Len(a) \in Nat
      /\ f = stack[n] /\ n \in 1 .. n
  BY StackFacts
<1>2. /\ f.lo \in 0 .. Len(a) /\ f.hi \in 0 .. Len(a) /\ f.lo <= f.hi
  BY StackFacts
<1>3. /\ Rewrites(a, a', f.lo, f.hi) /\ SameElements(a', a)
      /\ stack' \in Seq(Frames) /\ m >= n - 1
      /\ \A e \in 1 .. n - 1 : stack'[e] = stack[e]
      /\ \A e \in n .. m : Within(a', stack'[e], f, e)
      /\ \A e, d \in n .. m : e < d => stack'[e].hi <= stack'[d].lo \/ stack'[d].hi <= stack'[e].lo
      /\ \A p \in f.lo .. f.hi - 1 :
           Final(a', p) \/ \E e \in n .. m : stack'[e].lo <= p /\ p < stack'[e].hi
  BY DEF Turned
<1>4. a' \in Seq(Values) /\ Len(a') = Len(a)
  BY <1>3 DEF Rewrites
<1>5. m \in Nat /\ DOMAIN stack' = 1 .. m
  BY <1>3
<1>6. \A e \in 1 .. m : (e \in 1 .. n - 1 /\ e \in 1 .. n) \/ e \in n .. m
  BY <1>1, <1>5
<1>. HIDE DEF f, n, m
<1>7. TypeOK'
  <2>1. stack' \in Seq(Frames')
    BY <1>3, <1>4 DEF Frames
  <2>2. ASSUME NEW e \in 1 .. m
        PROVE  stack'[e].lo <= stack'[e].hi /\ (stack'[e].at = "return" => stack'[e].lo = stack'[e].hi)
    <3>1. CASE e \in 1 .. n - 1 /\ e \in 1 .. n
      <4>1. stack'[e] = stack[e]
        BY <1>3, <3>1
      <4>. QED BY <3>1, <4>1, StackFacts DEF n
    <3>2. CASE e \in n .. m
      BY <1>3, <3>2 DEF Within
    <3>. QED BY <1>6, <3>1, <3>2
  <2>3. input \in Seq(Values) /\ pc = "sorting"
    BY DEF SortInv, TypeOK
  <2>. QED BY <1>4, <1>5, <2>1, <2>2, <2>3 DEF TypeOK
<1>8. KeepsElements'
  <2>1. input \in Seq(Values)
    BY DEF SortInv, TypeOK
  <2>2. SameElements(a, input)
    BY DEF SortInv, KeepsElements
  <2>. QED BY <1>1, <1>3, <1>4, <2>1, <2>2, SameElementsIs DEF KeepsElements
<1>9. ASSUME NEW e \in 1 .. n - 1
      PROVE  stack[e].hi <= f.lo \/ f.hi <= stack[e].lo
  <2>1. e \in DOMAIN stack /\ n \in DOMAIN stack /\ e < n
    BY <1>1
  <2>. QED BY <1>1, <2>1 DEF SortInv, WindowsDisjoint
<1>10. WindowsDisjoint'
  <2>. SUFFICES ASSUME NEW e \in 1 .. m, NEW d \in 1 .. m, e < d
                PROVE  stack'[e].hi <= stack'[d].lo \/ stack'[d].hi <= stack'[e].lo
    BY <1>5 DEF WindowsDisjoint
  <2>1. CASE e \in 1 .. n - 1 /\ d \in 1 .. n - 1
    <3>1. e \in DOMAIN stack /\ d \in DOMAIN stack
      BY <1>1, <2>1
    <3>. QED BY <1>3, <2>1, <3>1 DEF SortInv, WindowsDisjoint
  <2>2. CASE e \in 1 .. n - 1 /\ d \in n .. m
    <3>1. e \in 1 .. Len(stack)
      BY <1>1, <2>2 DEF n
    <3>2. stack'[e] = stack[e] /\ stack[e].lo \in 0 .. Len(a) /\ stack[e].hi \in 0 .. Len(a)
      BY <1>3, <2>2, <3>1, StackFacts
    <3>3. f.lo <= stack'[d].lo /\ stack'[d].hi <= f.hi
      BY <1>3, <2>2 DEF Within
    <3>4. stack'[d].lo \in Int /\ stack'[d].hi \in Int
      <4>1. stack'[d] \in Frames
        BY <1>3, <1>5
      <4>. QED BY <1>1, <4>1 DEF Frames
    <3>5. stack[e].hi <= f.lo \/ f.hi <= stack[e].lo
      BY <1>9, <2>2
    <3>. QED BY <1>1, <1>2, <3>2, <3>3, <3>4, <3>5
  <2>3. CASE e \in n .. m /\ d \in n .. m
    BY <1>3, <2>3
  <2>4. ~(e \in n .. m /\ d \in 1 .. n - 1)
    BY <1>1
  <2>. QED BY <1>6, <2>1, <2>2, <2>3, <2>4
<1>11. Fenced'
  <2>1. ASSUME NEW e \in 1 .. m PROVE Apart(a', stack'[e].lo, stack'[e].hi)
    <3>1. CASE e \in 1 .. n - 1 /\ e \in 1 .. n
      <4>1. stack'[e] = stack[e]
        BY <1>3, <3>1
      <4>2. /\ stack[e].lo \in 0 .. Len(a) /\ stack[e].hi \in 0 .. Len(a)
            /\ Apart(a, stack[e].lo, stack[e].hi)
        BY <3>1, StackFacts DEF n
      <4>3. Compatible(stack[e].lo, stack[e].hi, f.lo, f.hi)
        BY <1>9, <3>1 DEF Compatible
      <4>. QED BY <1>1, <1>2, <1>3, <4>1, <4>2, <4>3, RewriteKeepsApart
    <3>2. CASE e \in n .. m
      BY <1>3, <3>2 DEF Within
    <3>. QED BY <1>6, <3>1, <3>2
  <2>. QED BY <1>5, <2>1 DEF Fenced, Apart, At
<1>12. Settled'
  <2>. SUFFICES ASSUME NEW p \in 0 .. Len(a) - 1, ~Pending(p)' PROVE Final(a', p)
    BY <1>4 DEF Settled, Positions, Final, At
  <2>1. CASE p \in f.lo .. f.hi - 1
    <3>1. \A e \in n .. m : ~(stack'[e].lo <= p /\ p < stack'[e].hi)
      <4>1. \A e \in n .. m : e \in DOMAIN stack'
        BY <1>1, <1>5
      <4>. QED BY <4>1 DEF Pending
    <3>. QED BY <1>3, <2>1, <3>1
  <2>2. CASE ~(p \in f.lo .. f.hi - 1)
    <3>1. p < f.lo \/ f.hi <= p
      BY <1>1, <1>2, <2>2
    <3>2. ASSUME NEW e \in DOMAIN stack PROVE ~(stack[e].lo <= p /\ p < stack[e].hi)
      <4>1. CASE e = n
        BY <1>1, <1>2, <3>1, <4>1
      <4>2. CASE e # n
        <5>1. e \in 1 .. n - 1 /\ e \in DOMAIN stack'
          BY <1>1, <1>3, <1>5, <4>2
        <5>. QED BY <1>3, <5>1 DEF Pending
      <4>. QED BY <4>1, <4>2
    <3>3. ~Pending(p)
      BY <3>2 DEF Pending
    <3>4. Final(a, p)
      BY <3>3 DEF SortInv, Settled, Positions, Final, At
    <3>. QED BY <1>1, <1>2, <1>3, <3>1, <3>4, RewriteKeepsFinal
  <2>. QED BY <2>1, <2>2
<1>13. DepthBoundsStack'
  <2>1. Depth' = Depth
    BY DEF Depth
  <2>2. ASSUME NEW e \in 1 .. m
        PROVE  stack'[e].depth + (e - 1) <= Depth /\ (stack'[e].at = "second" => stack'[e].depth > 0)
    <3>1. CASE e \in 1 .. n - 1 /\ e \in 1 .. n
      <4>1. stack'[e] = stack[e]
        BY <1>3, <3>1
      <4>. QED BY <3>1, <4>1, StackFacts DEF n
    <3>2. CASE e \in n .. m
      BY <1>3, <3>2 DEF Within
    <3>. QED BY <1>6, <3>1, <3>2
  <2>. QED BY <1>5, <2>1, <2>2 DEF DepthBoundsStack
<1>. QED BY <1>7, <1>8, <1>10, <1>11, <1>12, <1>13 DEF SortInv

LEMMA PopTurned ==
    ASSUME SortInv, stack # <<>>, NEW t,
           Rewrites(a, t, Running.lo, Running.hi), SameElements(t, a),
           \A p \in Running.lo .. Running.hi - 1 : Final(t, p)
    PROVE  Turned(t, Front(stack), Running)
<1>1. stack \in Seq(Frames)
  BY DEF SortInv, TypeOK
<1>2. /\ Len(stack) \in Nat /\ Len(stack) >= 1 /\ Front(stack) \in Seq(Frames)
      /\ Len(Front(stack)) = Len(stack) - 1
      /\ \A e \in 1 .. Len(stack) - 1 : Front(stack)[e] = stack[e]
  BY <1>1, Popped
<1>3. ~(\E e \in Len(stack) .. Len(Front(stack)) : TRUE)
  BY <1>2
<1>. QED BY <1>2, <1>3 DEF Turned

LEMMA CallTurned ==
    ASSUME SortInv, stack # <<>>, NEW t,
           Rewrites(a, t, Running.lo, Running.hi), SameElements(t, a),
           NEW g \in Frames, NEW h \in Frames,
           Within(t, g, Running, Len(stack)), Within(t, h, Running, Len(stack) + 1),
           g.hi <= h.lo \/ h.hi <= g.lo,
           \A p \in Running.lo .. Running.hi - 1 :
             Final(t, p) \/ (g.lo <= p /\ p < g.hi) \/ (h.lo <= p /\ p < h.hi)
    PROVE  Turned(t, Append(Front(stack), g) \o <<h>>, Running)
<1>. DEFINE u == Append(Front(stack), g) \o <<h>>
            n == Len(stack)
<1>1. stack \in Seq(Frames)
  BY DEF SortInv, TypeOK
<1>2. n \in Nat /\ n >= 1
  BY <1>1, Popped
<1>3. /\ u \in Seq(Frames) /\ Len(u) = n + 1
      /\ \A e \in 1 .. n - 1 : u[e] = stack[e]
      /\ u[n] = g /\ u[n + 1] = h
  BY <1>1, Called
<1>. HIDE DEF u
<1>4. \A e \in n .. Len(u) : e = n \/ e = n + 1
  BY <1>2, <1>3
<1>5. n \in n .. Len(u) /\ n + 1 \in n .. Len(u) /\ Len(u) >= n - 1 /\ ~(n + 1 < n) /\ ~(n < n) /\ ~(n + 1 < n + 1)
  BY <1>2, <1>3
<1>6. \A e \in n .. Len(u) : Within(t, u[e], Running, e)
  BY <1>3, <1>4
<1>7. \A e, d \in n .. Len(u) : e < d => u[e].hi <= u[d].lo \/ u[d].hi <= u[e].lo
  BY <1>3, <1>4, <1>5
<1>8. \A p \in Running.lo .. Running.hi - 1 :
        Final(t, p) \/ \E e \in n .. Len(u) : u[e].lo <= p /\ p < u[e].hi
  BY <1>3, <1>5
<1>9. Turned(t, u, Running)
  BY <1>3, <1>5, <1>6, <1>7, <1>8 DEF Turned
<1>. QED BY <1>9 DEF u

LEMMA WindowOf ==
    ASSUME SortInv, stack # <<>>
    PROVE  /\ Window(a, Running.lo, Running.hi) \in Seq(Values)
           /\ Len(Window(a, Running.lo, Running.hi)) = Running.hi - Running.lo
           /\ Running.lo \in 0 .. Len(a) /\ Running.hi \in 0 .. Len(a) /\ Running.lo <= Running.hi
           /\ Running.lo \in Nat /\ Running.hi \in Nat /\ a \in Seq(Values) /\ Len(a) \in Nat
           /\ Running.depth \in Nat /\ Running.depth + (Len(stack) - 1) <= Depth
           /\ Running.at = "second" => Running.depth > 0
           /\ Running.at = "return" => Running.lo = Running.hi
           /\ Apart(a, Running.lo, Running.hi)
           /\ Len(stack) \in Nat
<1>1. /\ Running.lo \in 0 .. Len(a) /\ Running.hi \in 0 .. Len(a) /\ Running.lo <= Running.hi
      /\ a \in Seq(Values) /\ Len(a) \in Nat
      /\ Running.depth \in Nat /\ Running.depth + (Len(stack) - 1) <= Depth
      /\ Running.at = "second" => Running.depth > 0
      /\ Running.at = "return" => Running.lo = Running.hi
      /\ Apart(a, Running.lo, Running.hi)
      /\ Len(stack) \in Nat
  BY StackFacts
<1>2. Running.lo \in Nat /\ Running.hi \in Nat
  BY <1>1
<1>. QED BY <1>1, <1>2, SliceOf DEF Window

\* A fenced window written back in order: every place of it is final.
LEMMA SortedWindow ==
    ASSUME NEW s \in Seq(Values), NEW low \in 0 .. Len(s), NEW high \in 0 .. Len(s), low <= high, Apart(s, low, high),
           NEW v \in Seq(Values), SameElements(v, Window(s, low, high)), InOrder(v),
           NEW t, t = Put(s, low, high, v)
    PROVE  /\ Rewrites(s, t, low, high) /\ SameElements(t, s)
           /\ Apart(t, low, high) /\ \A p \in low .. high - 1 : Final(t, p)
<1>1. low \in Nat /\ high \in Nat /\ Len(s) \in Nat /\ Len(Window(s, low, high)) = high - low
  BY SliceOf DEF Window
<1>2. /\ Rewrites(s, t, low, high) /\ SameElements(t, s)
      /\ \A p \in low .. high - 1 : t[p + 1] = v[p - low + 1]
  BY <1>1, PutRewrites
<1>3. Len(v) = high - low
  BY <1>1 DEF SameElements
<1>4. t \in Seq(Values) /\ Len(t) = Len(s)
  BY <1>2 DEF Rewrites
<1>5. Apart(t, low, high)
  <2>1. Compatible(low, high, low, high)
    BY <1>1 DEF Compatible
  <2>. QED BY <1>1, <1>2, <2>1, RewriteKeepsApart
<1>6. ASSUME NEW p \in low .. high - 1, NEW q \in low .. high - 1, p < q PROVE AtMost(t[p + 1], t[q + 1])
  <2>1. p - low + 1 \in 1 .. Len(v) /\ q - low + 1 \in 1 .. Len(v) /\ p - low + 1 < q - low + 1
    BY <1>1, <1>3, <1>6
  <2>. QED BY <1>2, <2>1 DEF InOrder
<1>7. ASSUME NEW p \in low .. high - 1 PROVE Final(t, p)
  <2>1. \A q \in low .. high - 1 : (q < p => AtMost(t[q + 1], t[p + 1])) /\ (q > p => AtMost(t[p + 1], t[q + 1]))
    BY <1>1, <1>6
  <2>. QED BY <1>1, <1>4, <1>5, <2>1, FinalWithin
<1>. QED BY <1>2, <1>5, <1>7

\* The window's elements in order, and the call gone.
LEMMA SortedBack ==
    ASSUME SortInv, stack # <<>>, NEW v \in Seq(Values),
           SameElements(v, Window(a, Running.lo, Running.hi)), InOrder(v)
    PROVE  Turned(Put(a, Running.lo, Running.hi, v), Front(stack), Running)
<1>. DEFINE t == Put(a, Running.lo, Running.hi, v)
<1>1. /\ Rewrites(a, t, Running.lo, Running.hi) /\ SameElements(t, a)
      /\ \A p \in Running.lo .. Running.hi - 1 : Final(t, p)
  BY WindowOf, SortedWindow
<1>. QED BY <1>1, PopTurned

LEMMA LastTurnKeeps ==
    ASSUME SortInv, pc = "sorting", stack # <<>>, UNCHANGED <<pc, input>>, LastTurn(Running)
    PROVE  SortInv'
<1>. DEFINE w == Window(a, Running.lo, Running.hi)
<1>1. w \in Seq(Values)
  BY WindowOf
<1>2. a' = Put(a, Running.lo, Running.hi, SortFallback(w)) /\ stack' = Front(stack)
  BY DEF LastTurn, Pop
<1>. HIDE DEF w
<1>3. SortFallback(w) \in Seq(Values) /\ SameElements(SortFallback(w), w) /\ InOrder(SortFallback(w))
  BY <1>1, FallbackSorts
<1>4. Turned(a', stack', Running)
  BY <1>2, <1>3, SortedBack DEF w
<1>. QED BY <1>4, TurnKeeps

LEMMA ReturnKeeps ==
    ASSUME SortInv, pc = "sorting", stack # <<>>, UNCHANGED <<pc, input>>, Running.at = "return", Return
    PROVE  SortInv'
<1>1. a' = a /\ stack' = Front(stack) /\ a \in Seq(Values) /\ Len(a) \in Nat
  BY WindowOf DEF Return, Pop
<1>2. Running.lo = Running.hi /\ Running.lo \in Nat
  BY WindowOf
<1>3. \A p \in Running.lo .. Running.hi - 1 : FALSE
  BY <1>2
<1>4. Rewrites(a, a, Running.lo, Running.hi)
  BY <1>1, <1>3 DEF Rewrites
<1>5. Turned(a, Front(stack), Running)
  BY <1>1, <1>3, <1>4, SameElementsIs, PopTurned
<1>. QED BY <1>1, <1>5, TurnKeeps

LEMMA SecondCallKeeps ==
    ASSUME SortInv, pc = "sorting", stack # <<>>, UNCHANGED <<pc, input>>, Running.at = "second", SecondCall(Running)
    PROVE  SortInv'
<1>. DEFINE f == Running
            g == Frame("return", f.hi, f.hi, f.depth)
            h == Frame("loop", f.lo, f.hi, f.depth - 1)
<1>1. /\ f.lo \in 0 .. Len(a) /\ f.hi \in 0 .. Len(a) /\ f.lo <= f.hi /\ f.lo \in Nat /\ f.hi \in Nat
      /\ a \in Seq(Values) /\ Len(a) \in Nat
      /\ f.depth \in Nat /\ f.depth + (Len(stack) - 1) <= Depth /\ f.depth > 0
      /\ Apart(a, f.lo, f.hi) /\ Len(stack) \in Nat
  BY WindowOf
<1>2. Depth \in Nat
  BY DepthType DEF SortInv, TypeOK
<1>3. a' = a /\ stack' = Append(Front(stack), g) \o <<h>>
  BY DEF SecondCall, CallFrom
<1>. HIDE DEF f
<1>4. g \in Frames /\ h \in Frames
  BY <1>1 DEF Frame, Frames
<1>5. g.lo = f.hi /\ g.hi = f.hi /\ g.depth = f.depth /\ g.at = "return"
  BY DEF Frame
<1>6. h.lo = f.lo /\ h.hi = f.hi /\ h.depth = f.depth - 1 /\ h.at = "loop"
  BY DEF Frame
<1>. HIDE DEF g, h
<1>7. Rewrites(a, a, f.lo, f.hi)
  <2>1. ASSUME NEW p \in f.lo .. f.hi - 1 PROVE Same(a[p + 1], a[p + 1])
    <3>1. p + 1 \in 1 .. Len(a)
      BY <1>1
    <3>. QED BY <1>1, <3>1, SameIsEquivalence
  <2>. QED BY <1>1, <2>1 DEF Rewrites
<1>8. Apart(a, f.hi, f.hi)
  BY <1>1 DEF Apart
<1>9. Within(a, g, f, Len(stack))
  BY <1>1, <1>5, <1>8 DEF Within
<1>10. Within(a, h, f, Len(stack) + 1)
  <2>1. f.depth - 1 + (Len(stack) + 1 - 1) <= Depth
    BY <1>1, <1>2
  <2>. QED BY <1>1, <1>6, <2>1 DEF Within
<1>11. \A p \in f.lo .. f.hi - 1 : h.lo <= p /\ p < h.hi
  BY <1>1, <1>6
<1>12. h.hi <= g.lo
  BY <1>1, <1>5, <1>6
<1>13. Turned(a, Append(Front(stack), g) \o <<h>>, f)
  BY <1>1, <1>4, <1>7, <1>9, <1>10, <1>11, <1>12, SameElementsIs, CallTurned DEF f
<1>. QED BY <1>3, <1>13, TurnKeeps DEF f

\* A window of elements below the pivot, then elements equal to it, then others: the outer
\* two are fenced, and what is between them is final.
Divided(v, pivot, n, m) ==
    /\ \A e \in 1 .. n : v[e] \in Below(pivot)
    /\ \A e \in n + 1 .. Len(v) : v[e] \notin Below(pivot)
    /\ \A e \in n + 1 .. m : Same(v[e], pivot)
    /\ n < m => ~IsNaN(pivot)

LEMMA PartedWindow ==
    ASSUME NEW s \in Seq(Values), NEW low \in 0 .. Len(s), NEW high \in 0 .. Len(s), low <= high, Apart(s, low, high),
           NEW v \in Seq(Values), SameElements(v, Window(s, low, high)),
           NEW pivot \in Values, NEW n \in Nat, NEW m \in Nat, n <= m, m <= Len(v), Divided(v, pivot, n, m),
           NEW t, t = Put(s, low, high, v)
    PROVE  /\ Rewrites(s, t, low, high) /\ SameElements(t, s)
           /\ Len(v) = high - low
           /\ Apart(t, low, low + n) /\ Apart(t, low + m, high)
           /\ \A p \in low + n .. low + m - 1 : Final(t, p)
<1>1. low \in Nat /\ high \in Nat /\ Len(s) \in Nat /\ Len(Window(s, low, high)) = high - low /\ low <= high
  BY SliceOf DEF Window
<1>2. /\ Rewrites(s, t, low, high) /\ SameElements(t, s)
      /\ \A p \in low .. high - 1 : t[p + 1] = v[p - low + 1]
  BY <1>1, PutRewrites
<1>3. Len(v) = high - low
  BY <1>1 DEF SameElements
<1>4. t \in Seq(Values) /\ Len(t) = Len(s)
  BY <1>2 DEF Rewrites
<1>5. Apart(t, low, high)
  <2>1. Compatible(low, high, low, high)
    BY <1>1 DEF Compatible
  <2>. QED BY <1>1, <1>2, <2>1, RewriteKeepsApart
\* low + n and low + m, the ends of the three parts.
<1>6. /\ low + n \in low .. high /\ low + m \in low .. high /\ low \in low .. high /\ high \in low .. high /\ low + n <= low + m
      /\ low + n \in Nat /\ low + m \in Nat
  BY <1>1, <1>3
<1>7. ASSUME NEW p \in low .. high - 1
      PROVE  /\ t[p + 1] \in Values
             /\ p < low + n => t[p + 1] \in Below(pivot)
             /\ p >= low + n => t[p + 1] \notin Below(pivot)
             /\ p >= low + n /\ p < low + m => Same(t[p + 1], pivot)
  <2>1. /\ p - low + 1 \in 1 .. Len(v) /\ p + 1 \in 1 .. Len(t)
        /\ p < low + n => p - low + 1 \in 1 .. n
        /\ p >= low + n => p - low + 1 \in n + 1 .. Len(v)
        /\ p >= low + n /\ p < low + m => p - low + 1 \in n + 1 .. m
    BY <1>1, <1>3, <1>4
  <2>2. t[p + 1] = v[p - low + 1]
    BY <1>2
  <2>3. t[p + 1] \in Values
    BY <1>4, <2>1
  <2>. QED BY <2>1, <2>2, <2>3 DEF Divided
\* Two places of the window, in different parts or both in the middle.
<1>8. ASSUME NEW p \in low .. high - 1, NEW q \in low .. high - 1, p < q,
             (p < low + n /\ q >= low + n) \/ (p >= low + n /\ p < low + m) 
      PROVE  AtMost(t[p + 1], t[q + 1])
  <2>1. CASE p < low + n /\ q >= low + n
    BY <1>7, <2>1, AroundPivot
  <2>2. CASE p >= low + n /\ p < low + m
    <3>1. q >= low + n /\ n < m
      BY <1>1, <1>8, <2>2
    <3>2. Same(t[p + 1], pivot) /\ AtMost(pivot, t[q + 1])
      BY <1>7, <2>2, <3>1, AroundPivot DEF Divided
    <3>. QED BY <1>7, <3>2, SameMoves
  <2>. QED BY <1>8, <2>1, <2>2
<1>9. Apart(t, low, low + n)
  <2>1. Under(t, low, low, low, low + n)
    BY <1>1 DEF Under
  <2>2. ASSUME NEW p \in low .. low + n - 1, NEW q \in low + n .. high - 1 PROVE AtMost(t[p + 1], t[q + 1])
    <3>1. p \in low .. high - 1 /\ q \in low .. high - 1 /\ p < q /\ p < low + n /\ q >= low + n
      BY <1>1, <1>6
    <3>. QED BY <1>8, <3>1
  <2>3. Under(t, low, low + n, low + n, high)
    BY <1>1, <1>6, <2>2 DEF Under
  <2>. QED BY <1>1, <1>4, <1>5, <1>6, <2>1, <2>3, ApartWithin
<1>10. Apart(t, low + m, high)
  <2>1. Under(t, low + m, high, high, high)
    BY <1>1 DEF Under
  <2>2. ASSUME NEW q \in low .. low + m - 1, NEW p \in low + m .. high - 1 PROVE AtMost(t[q + 1], t[p + 1])
    <3>1. p \in low .. high - 1 /\ q \in low .. high - 1 /\ q < p /\ p >= low + n /\ (q < low + n \/ (q >= low + n /\ q < low + m))
      BY <1>1, <1>6
    <3>. QED BY <1>8, <3>1
  <2>3. Under(t, low, low + m, low + m, high)
    BY <1>1, <1>6, <2>2 DEF Under
  <2>. QED BY <1>1, <1>4, <1>5, <1>6, <2>1, <2>3, ApartWithin
<1>11. ASSUME NEW p \in low + n .. low + m - 1 PROVE Final(t, p)
  <2>1. p \in low .. high - 1 /\ p >= low + n /\ p < low + m
    BY <1>1, <1>6
  <2>2. ASSUME NEW q \in low .. high - 1
        PROVE  (q < p => AtMost(t[q + 1], t[p + 1])) /\ (q > p => AtMost(t[p + 1], t[q + 1]))
    <3>1. q < low + n \/ (q >= low + n /\ q < low + m) \/ q > p
      BY <1>1, <1>6, <2>1
    <3>. QED BY <1>8, <2>1, <3>1
  <2>. QED BY <1>1, <1>4, <1>5, <2>1, <2>2, FinalWithin
<1>. QED BY <1>2, <1>3, <1>9, <1>10, <1>11

LEMMA PartsApart ==
    ASSUME SortInv, stack # <<>>, NEW v \in Seq(Values),
           SameElements(v, Window(a, Running.lo, Running.hi)),
           NEW pivot \in Values, NEW n \in Nat, NEW m \in Nat, n <= m, m <= Len(v), Divided(v, pivot, n, m),
           NEW t, t = Put(a, Running.lo, Running.hi, v)
    PROVE  /\ Rewrites(a, t, Running.lo, Running.hi) /\ SameElements(t, a)
           /\ Len(v) = Running.hi - Running.lo
           /\ Apart(t, Running.lo, Running.lo + n) /\ Apart(t, Running.lo + m, Running.hi)
           /\ \A p \in Running.lo + n .. Running.lo + m - 1 : Final(t, p)
BY WindowOf, PartedWindow, SMTT(120)

\* While the loop goes on there is a pivot.
LEMMA PivotOf ==
    ASSUME SortInv, stack # <<>>, Continues(Running)
    PROVE  /\ MedianOfThree(Window(a, Running.lo, Running.hi)) \in Values
           /\ Running.depth - 1 \in Nat /\ Running.depth > 0
<1>1. /\ Window(a, Running.lo, Running.hi) \in Seq(Values)
      /\ Len(Window(a, Running.lo, Running.hi)) = Running.hi - Running.lo
      /\ Running.depth \in Nat /\ Running.lo \in Nat /\ Running.hi \in Nat
  BY WindowOf
<1>2. Running.hi - Running.lo >= 1 /\ Running.depth > 0
  BY <1>1, SortAssumption DEF Continues
<1>3. Window(a, Running.lo, Running.hi) # <<>>
  BY <1>1, <1>2
<1>4. Running.depth - 1 \in Nat
  BY <1>1, <1>2
<1>. QED BY <1>1, <1>2, <1>3, <1>4, MedianIsElement

LEMMA SplitTurnKeeps ==
    ASSUME SortInv, pc = "sorting", stack # <<>>, UNCHANGED <<pc, input>>, SplitTurn(Running)
    PROVE  SortInv'
<1>. DEFINE f == Running
            w == Window(a, f.lo, f.hi)
            pivot == MedianOfThree(w)
            v == Partition(w, pivot).out
            n == Partition(w, pivot).n
            low == Frame("loop", f.lo, f.lo + n, f.depth - 1)
            high == Frame("loop", f.lo + n, f.hi, f.depth - 1)
<1>1. /\ f.lo \in 0 .. Len(a) /\ f.hi \in 0 .. Len(a) /\ f.lo <= f.hi /\ f.lo \in Nat /\ f.hi \in Nat
      /\ a \in Seq(Values) /\ Len(a) \in Nat
      /\ f.depth \in Nat /\ f.depth + (Len(stack) - 1) <= Depth
      /\ Len(stack) \in Nat /\ w \in Seq(Values) /\ Len(w) = f.hi - f.lo
  BY WindowOf
<1>2. Depth \in Nat
  BY DepthType DEF SortInv, TypeOK
<1>3. pivot \in Values /\ f.depth - 1 \in Nat
  BY PivotOf DEF SplitTurn
<1>4. a' = Put(a, f.lo, f.hi, v) /\ Divide(f, n)
  BY DEF SplitTurn
<1>. HIDE DEF f
<1>. HIDE DEF w
<1>. HIDE DEF pivot
<1>5. /\ v \in Seq(Values) /\ SameElements(v, w) /\ Len(v) = Len(w) /\ n \in 0 .. Len(w)
      /\ \A e \in 1 .. n : v[e] \in Below(pivot)
      /\ \A e \in n + 1 .. Len(w) : v[e] \notin Below(pivot)
  BY <1>1, <1>3, Partitioned
<1>. HIDE DEF v, n
<1>6. n \in Nat /\ n <= Len(v) /\ f.lo + n \in 0 .. Len(a) /\ f.lo + n \in Nat /\ f.lo + n <= f.hi /\ f.lo <= f.lo + n
  BY <1>1, <1>5
<1>7. Divided(v, pivot, n, n)
  <2>1. \A e \in n + 1 .. n : FALSE
    BY <1>6
  <2>. QED BY <1>5, <1>6, <2>1 DEF Divided
<1>8. /\ Rewrites(a, a', f.lo, f.hi) /\ SameElements(a', a)
      /\ Apart(a', f.lo, f.lo + n) /\ Apart(a', f.lo + n, f.hi)
  BY <1>3, <1>4, <1>5, <1>6, <1>7, PartsApart DEF f, w
<1>9. low \in Frames /\ high \in Frames
  BY <1>1, <1>3, <1>6 DEF Frame, Frames
<1>10. low.lo = f.lo /\ low.hi = f.lo + n /\ low.depth = f.depth - 1 /\ low.at = "loop"
  BY DEF Frame
<1>11. high.lo = f.lo + n /\ high.hi = f.hi /\ high.depth = f.depth - 1 /\ high.at = "loop"
  BY DEF Frame
<1>12. \/ stack' = Append(Front(stack), high) \o <<low>>
       \/ stack' = Append(Front(stack), low) \o <<high>>
  BY <1>4 DEF Divide, CallFrom
<1>. HIDE DEF low, high
<1>13. \A e \in {Len(stack), Len(stack) + 1} : Within(a', low, f, e) /\ Within(a', high, f, e)
  <2>1. f.depth - 1 + (Len(stack) - 1) <= Depth /\ f.depth - 1 + (Len(stack) + 1 - 1) <= Depth
    BY <1>1, <1>2
  <2>. QED BY <1>1, <1>6, <1>8, <1>10, <1>11, <2>1, SMTT(120) DEF Within
<1>14. /\ low.hi <= high.lo
       /\ \A p \in f.lo .. f.hi - 1 : (low.lo <= p /\ p < low.hi) \/ (high.lo <= p /\ p < high.hi)
  BY <1>1, <1>6, <1>10, <1>11, SMTT(120)
<1>15. CASE stack' = Append(Front(stack), high) \o <<low>>
  <2>1. Turned(a', stack', f)
    BY <1>8, <1>9, <1>13, <1>14, <1>15, CallTurned DEF f
  <2>. QED BY <2>1, TurnKeeps DEF f
<1>16. CASE stack' = Append(Front(stack), low) \o <<high>>
  <2>1. Turned(a', stack', f)
    BY <1>8, <1>9, <1>13, <1>14, <1>16, CallTurned DEF f
  <2>. QED BY <2>1, TurnKeeps DEF f
<1>. QED BY <1>12, <1>15, <1>16

LEMMA SkewedTurnKeeps ==
    ASSUME SortInv, pc = "sorting", stack # <<>>, UNCHANGED <<pc, input>>, SkewedTurn(Running)
    PROVE  SortInv'
<1>. DEFINE f == Running
            w == Window(a, f.lo, f.hi)
            pivot == MedianOfThree(w)
            s == Partition(w, pivot).out
            n == Partition(w, pivot).n
            side == SubSeq(s, n + 1, Len(s))
            x == ExtractEqual(side, pivot)
<1>1. /\ f.lo \in 0 .. Len(a) /\ f.hi \in 0 .. Len(a) /\ f.lo <= f.hi /\ f.lo \in Nat /\ f.hi \in Nat
      /\ a \in Seq(Values) /\ Len(a) \in Nat
      /\ f.depth \in Nat /\ f.depth + (Len(stack) - 1) <= Depth
      /\ Len(stack) \in Nat /\ w \in Seq(Values) /\ Len(w) = f.hi - f.lo
  BY WindowOf
<1>2. Depth \in Nat
  BY DepthType DEF SortInv, TypeOK
<1>3. pivot \in Values /\ f.depth - 1 \in Nat /\ f.depth > 0
  BY PivotOf DEF SkewedTurn
<1>4. \/ /\ x.eq > 0
         /\ a' = Put(a, f.lo, f.hi, SubSeq(s, 1, n) \o x.out)
         /\ CallFrom(Frame("second", f.lo + n + x.eq, f.hi, f.depth), f.lo, f.lo + n, f.depth - 1)
      \/ /\ a' = Put(a, f.lo, f.hi, SortFallback(s))
         /\ Pop
  BY DEF SkewedTurn
<1>. HIDE DEF f
<1>. HIDE DEF w
<1>. HIDE DEF pivot
<1>5. /\ s \in Seq(Values) /\ SameElements(s, w) /\ Len(s) = Len(w) /\ n \in 0 .. Len(w)
      /\ \A e \in 1 .. n : s[e] \in Below(pivot)
      /\ \A e \in n + 1 .. Len(w) : s[e] \notin Below(pivot)
  BY <1>1, <1>3, Partitioned
<1>. HIDE DEF s, n
<1>6. CASE a' = Put(a, f.lo, f.hi, SortFallback(s)) /\ Pop
  <2>1. SortFallback(s) \in Seq(Values) /\ SameElements(SortFallback(s), s) /\ InOrder(SortFallback(s))
    BY <1>5, FallbackSorts
  <2>2. SameElements(SortFallback(s), w)
    BY <1>1, <1>5, <2>1, SameElementsIs
  <2>3. Turned(a', stack', f)
    BY <1>6, <2>1, <2>2, SortedBack DEF f, w, Pop
  <2>. QED BY <2>3, TurnKeeps DEF f
<1>7. CASE /\ x.eq > 0
           /\ a' = Put(a, f.lo, f.hi, SubSeq(s, 1, n) \o x.out)
           /\ CallFrom(Frame("second", f.lo + n + x.eq, f.hi, f.depth), f.lo, f.lo + n, f.depth - 1)
  <2>. DEFINE first == SubSeq(s, 1, n)
              v == first \o x.out
              m == n + x.eq
              g == Frame("second", f.lo + m, f.hi, f.depth)
              h == Frame("loop", f.lo, f.lo + n, f.depth - 1)
  <2>1. n \in Nat /\ Len(s) \in Nat /\ n <= Len(s) /\ Len(s) \in 0 .. Len(s) /\ n \in 0 .. Len(s)
    BY <1>1, <1>5
  <2>2. first \in Seq(Values) /\ Len(first) = n /\ \A e \in 1 .. n : first[e] = s[e]
    <3>1. 0 \in Nat /\ 0 <= n /\ 0 + 1 = 1 /\ n - 0 = n
      BY <2>1
    <3>2. /\ SubSeq(s, 0 + 1, n) \in Seq(Values) /\ Len(SubSeq(s, 0 + 1, n)) = n - 0
          /\ \A e \in 1 .. n - 0 : SubSeq(s, 0 + 1, n)[e] = s[0 + e]
      BY <1>5, <2>1, <3>1, SliceOf
    <3>3. \A e \in 1 .. n : 0 + e = e
      BY <2>1
    <3>. QED BY <3>1, <3>2, <3>3
  <2>3. side \in Seq(Values) /\ Len(side) = Len(s) - n /\ \A e \in 1 .. Len(s) - n : side[e] = s[n + e]
    BY <1>5, <2>1, SliceOf
  <2>4. ASSUME NEW e \in 1 .. Len(side) PROVE side[e] \notin Below(pivot)
    <3>1. n + e \in n + 1 .. Len(w) /\ e \in 1 .. Len(s) - n
      BY <1>5, <2>1, <2>3
    <3>. QED BY <1>5, <2>3, <3>1
  <2>5. s = first \o side
    <3>1. 1 \in 1 .. Len(s) + 1 /\ n \in 1 - 1 .. Len(s) /\ Len(s) \in n .. Len(s)
      BY <2>1
    <3>2. first \o side = SubSeq(s, 1, Len(s))
      BY <1>5, <3>1, ConcatAdjacentSubSeq
    <3>. QED BY <1>5, <3>2, SubSeqFull
  <2>. HIDE DEF first, side
  <2>6. /\ x.out \in Seq(Values) /\ SameElements(x.out, side) /\ Len(x.out) = Len(side)
        /\ x.eq \in 0 .. Len(side)
        /\ \A e \in 1 .. x.eq : Same(x.out[e], pivot)
        /\ ~IsNaN(pivot) /\ \A e \in 1 .. Len(side) : x.out[e] \notin Below(pivot)
    BY <1>3, <1>7, <2>3, <2>4, Extracted
  <2>. HIDE DEF x
  <2>7. /\ v \in Seq(Values) /\ Len(v) = Len(first) + Len(x.out)
        /\ \A e \in 1 .. Len(first) + Len(x.out) : v[e] = IF e <= Len(first) THEN first[e] ELSE x.out[e - Len(first)]
    BY <2>2, <2>6, ConcatProperties
  <2>8. SameElements(v, w)
    <3>1. ASSUME NEW c \in Values PROVE CountOf(v, c) = CountOf(s, c)
      <4>1. CountOf(v, c) = CountOf(first, c) + CountOf(x.out, c) /\ CountOf(s, c) = CountOf(first, c) + CountOf(side, c)
        BY <2>2, <2>3, <2>5, <2>6, CountOfConcat
      <4>2. CountOf(x.out, c) = CountOf(side, c)
        BY <2>6 DEF SameElements
      <4>. QED BY <4>1, <4>2
    <3>2. Len(v) = Len(s)
      BY <2>1, <2>2, <2>3, <2>6, <2>7
    <3>3. SameElements(v, s)
      BY <3>1, <3>2 DEF SameElements
    <3>. QED BY <1>1, <1>5, <2>7, <3>3, SameElementsIs
  <2>9. m \in Nat /\ n <= m /\ m <= Len(v) /\ n < m /\ Len(v) = Len(w)
    BY <1>5, <1>7, <2>1, <2>2, <2>3, <2>6, <2>7
  <2>. HIDE DEF v
  <2>10. Divided(v, pivot, n, m)
    <3>1. ASSUME NEW e \in 1 .. n PROVE v[e] \in Below(pivot)
      <4>1. e \in 1 .. Len(first) + Len(x.out) /\ e <= Len(first)
        BY <2>1, <2>2, <2>3, <2>6
      <4>. QED BY <1>5, <2>2, <2>7, <4>1
    <3>2. ASSUME NEW e \in n + 1 .. Len(v)
          PROVE  v[e] = x.out[e - n] /\ e - n \in 1 .. Len(side) /\ (e \in n + 1 .. m => e - n \in 1 .. x.eq)
      <4>1. /\ e \in 1 .. Len(first) + Len(x.out) /\ ~(e <= Len(first)) /\ Len(first) = n
            /\ e - n \in 1 .. Len(side)
        BY <2>1, <2>2, <2>3, <2>6, <2>7
      <4>2. e \in n + 1 .. m => e - n \in 1 .. x.eq
        BY <2>1, <2>3, <2>6
      <4>. QED BY <2>7, <4>1, <4>2
    <3>3. \A e \in n + 1 .. m : e \in n + 1 .. Len(v)
      BY <2>1, <2>9
    <3>. QED BY <2>6, <3>1, <3>2, <3>3 DEF Divided
  <2>. HIDE DEF m
  <2>11. /\ Rewrites(a, a', f.lo, f.hi) /\ SameElements(a', a)
         /\ Apart(a', f.lo, f.lo + n) /\ Apart(a', f.lo + m, f.hi)
         /\ \A p \in f.lo + n .. f.lo + m - 1 : Final(a', p)
    BY <1>3, <1>7, <2>1, <2>7, <2>8, <2>9, <2>10, PartsApart DEF f, w, v, first
  <2>12. /\ f.lo + n \in Nat /\ f.lo + m \in Nat /\ f.lo <= f.lo + n /\ f.lo + n <= f.lo + m /\ f.lo + m <= f.hi
         /\ f.lo + n \in 0 .. Len(a) /\ f.lo + m \in 0 .. Len(a)
    <3>1. m \in Nat /\ n \in Nat /\ n <= m /\ m <= f.hi - f.lo
      BY <1>1, <2>1, <2>9
    <3>2. f.lo \in Nat /\ f.hi \in Nat /\ f.hi <= Len(a) /\ Len(a) \in Nat
      BY <1>1
    <3>. QED BY <3>1, <3>2
  <2>13. g \in Frames /\ h \in Frames
    BY <1>1, <1>3, <2>12 DEF Frame, Frames
  <2>14. g.lo = f.lo + m /\ g.hi = f.hi /\ g.depth = f.depth /\ g.at = "second"
    BY DEF Frame
  <2>15. h.lo = f.lo /\ h.hi = f.lo + n /\ h.depth = f.depth - 1 /\ h.at = "loop"
    BY DEF Frame
  <2>16. stack' = Append(Front(stack), g) \o <<h>>
    <3>1. f.lo + n + x.eq = f.lo + m
      BY <1>1, <2>1, <2>6 DEF m
    <3>. QED BY <1>7, <3>1 DEF CallFrom
  <2>. HIDE DEF g, h
  <2>17. Within(a', g, f, Len(stack)) /\ Within(a', h, f, Len(stack) + 1)
    <3>1. f.depth + (Len(stack) - 1) <= Depth /\ f.depth - 1 + (Len(stack) + 1 - 1) <= Depth
      BY <1>1, <1>2
    <3>. QED BY <1>1, <1>3, <2>11, <2>12, <2>14, <2>15, <3>1 DEF Within
  <2>18. h.hi <= g.lo
    BY <2>12, <2>14, <2>15
  <2>19. ASSUME NEW p \in f.lo .. f.hi - 1
         PROVE  Final(a', p) \/ (g.lo <= p /\ p < g.hi) \/ (h.lo <= p /\ p < h.hi)
    <3>1. p \in f.lo + n .. f.lo + m - 1 \/ (f.lo + m <= p /\ p < f.hi) \/ (f.lo <= p /\ p < f.lo + n)
      <4>1. p \in Int /\ f.lo <= p /\ p < f.hi /\ f.lo + n \in Int /\ f.lo + m \in Int /\ f.lo \in Int /\ f.hi \in Int /\ n \in Int /\ m \in Int
        BY <1>1, <2>1, <2>9, <2>12, SMTT(120)
      <4>. QED BY <4>1
    <3>. QED BY <2>11, <2>14, <2>15, <3>1
  <2>20. Turned(a', stack', f)
    BY <2>11, <2>13, <2>16, <2>17, <2>18, <2>19, CallTurned DEF f
  <2>. QED BY <2>20, TurnKeeps DEF f
<1>. QED BY <1>4, <1>6, <1>7

LEMMA StepKeeps == SortInv /\ Step => SortInv'
<1>. SUFFICES ASSUME SortInv, Step PROVE SortInv'
  OBVIOUS
<1>1. pc = "sorting" /\ stack # <<>> /\ UNCHANGED <<pc, input>>
  BY DEF Step
<1>2. CASE Running.at = "loop" /\ SplitTurn(Running)
  BY <1>1, <1>2, SplitTurnKeeps
<1>3. CASE Running.at = "loop" /\ SkewedTurn(Running)
  BY <1>1, <1>3, SkewedTurnKeeps
<1>4. CASE Running.at = "loop" /\ LastTurn(Running)
  BY <1>1, <1>4, LastTurnKeeps
<1>5. CASE Running.at = "second" /\ SecondCall(Running)
  BY <1>1, <1>5, SecondCallKeeps
<1>6. CASE Running.at = "return" /\ Return
  BY <1>1, <1>6, ReturnKeeps
<1>. QED BY <1>2, <1>3, <1>4, <1>5, <1>6 DEF Step

-----------------------------------------------------------------------------
(* The sort.                                                               *)

\* Without calls there is nothing to say of windows.
LEMMA NoCalls ==
    ASSUME stack = <<>>
    PROVE  WindowsDisjoint /\ Fenced /\ DepthBoundsStack /\ \A p : ~Pending(p)
BY DEF WindowsDisjoint, Fenced, DepthBoundsStack, Pending

LEMMA InitSort == Init => SortInv
<1>. SUFFICES ASSUME Init PROVE SortInv
  OBVIOUS
<1>1. input \in Seq(Values) /\ a = input /\ stack = <<>> /\ pc = "call"
  BY InputsAssumption DEF Init
<1>2. TypeOK
  BY <1>1 DEF TypeOK
<1>3. KeepsElements
  BY <1>1, SameElementsIs DEF KeepsElements
<1>. QED BY <1>1, <1>2, <1>3, NoCalls DEF SortInv, Settled

LEMMA CallKeeps == SortInv /\ Call => SortInv'
<1>. SUFFICES ASSUME SortInv, Call PROVE SortInv'
  OBVIOUS
<1>1. a \in Seq(Values) /\ input \in Seq(Values) /\ pc = "call" /\ stack = <<>> /\ input' = input
  BY DEF SortInv, TypeOK, Call
<1>2. SameElements(a, input)
  BY DEF SortInv, KeepsElements
<1>3. Len(a) \in Nat /\ Depth \in Nat /\ Depth' = Depth
  BY <1>1, DepthType DEF Depth
<1>4. CASE a' = SortFallback(a) /\ pc' = "returned" /\ UNCHANGED stack
  <2>1. a' \in Seq(Values) /\ SameElements(a', a) /\ InOrder(a')
    BY <1>1, <1>4, FallbackSorts
  <2>2. TypeOK'
    BY <1>1, <1>4, <2>1 DEF TypeOK
  <2>3. KeepsElements'
    BY <1>1, <1>2, <2>1, SameElementsIs DEF KeepsElements
  <2>4. (WindowsDisjoint /\ Fenced /\ DepthBoundsStack)'
    BY <1>1, <1>4 DEF WindowsDisjoint, Fenced, DepthBoundsStack
  <2>5. Settled'
    <3>. SUFFICES ASSUME NEW p \in 0 .. Len(a') - 1, NEW q \in 0 .. Len(a') - 1
                  PROVE  /\ q < p => AtMost(a'[q + 1], a'[p + 1])
                         /\ q > p => AtMost(a'[p + 1], a'[q + 1])
      BY DEF Settled, Positions, At
    <3>1. Len(a') \in Nat
      BY <2>1
    <3>2. /\ p + 1 \in 1 .. Len(a') /\ q + 1 \in 1 .. Len(a')
          /\ (q < p => q + 1 < p + 1) /\ (q > p => p + 1 < q + 1)
      BY <3>1
    <3>. QED BY <2>1, <3>2 DEF InOrder
  <2>. QED BY <2>2, <2>3, <2>4, <2>5 DEF SortInv
<1>5. CASE stack' = <<Frame("loop", 0, Len(a), Depth)>> /\ pc' = "sorting" /\ UNCHANGED a
  <2>. DEFINE f == Frame("loop", 0, Len(a), Depth)
  <2>1. f \in Frames /\ f.lo = 0 /\ f.hi = Len(a) /\ f.depth = Depth /\ f.at = "loop"
    BY <1>3 DEF Frame, Frames
  <2>. HIDE DEF f
  <2>2. stack' \in Seq(Frames) /\ DOMAIN stack' = {1} /\ stack'[1] = f /\ Frames' = Frames
    <3>1. stack' = <<f>>
      BY <1>5 DEF f
    <3>2. Frames' = Frames
      BY <1>5 DEF Frames
    <3>. QED BY <2>1, <3>1, <3>2
  <2>3. TypeOK'
    BY <1>1, <1>3, <1>5, <2>1, <2>2 DEF TypeOK
  <2>4. KeepsElements'
    BY <1>1, <1>2, <1>5 DEF KeepsElements
  <2>5. WindowsDisjoint'
    BY <2>2 DEF WindowsDisjoint
  <2>6. Fenced'
    <3>1. \A q \in 0 .. 0 - 1 : FALSE
      OBVIOUS
    <3>2. \A q \in Len(a) .. Len(a) - 1 : FALSE
      BY <1>3
    <3>. QED BY <1>5, <2>1, <2>2, <3>1, <3>2 DEF Fenced
  <2>7. Settled'
    <3>1. ASSUME NEW p \in 0 .. Len(a) - 1 PROVE Pending(p)'
      <4>1. f.lo <= p /\ p < f.hi
        BY <1>3, <2>1
      <4>. QED BY <2>2, <4>1 DEF Pending
    <3>. QED BY <1>5, <3>1 DEF Settled, Positions
  <2>8. DepthBoundsStack'
    <3>1. Depth + (1 - 1) <= Depth
      BY <1>3
    <3>. QED BY <1>3, <2>1, <2>2, <3>1 DEF DepthBoundsStack
  <2>. QED BY <2>3, <2>4, <2>5, <2>6, <2>7, <2>8 DEF SortInv
<1>. QED BY <1>4, <1>5 DEF Call

LEMMA QuietKeeps == SortInv /\ (Finish \/ UNCHANGED vars) => SortInv'
<1>. SUFFICES ASSUME SortInv, Finish \/ UNCHANGED vars PROVE SortInv'
  OBVIOUS
<1>1. UNCHANGED <<a, stack, input>> /\ (pc' = pc \/ (pc = "sorting" /\ pc' = "returned" /\ stack = <<>>))
  BY DEF Finish, vars
<1>2. TypeOK'
  BY <1>1 DEF SortInv, TypeOK, Frames
<1>3. (KeepsElements /\ WindowsDisjoint /\ Fenced /\ DepthBoundsStack)'
  BY <1>1 DEF SortInv, KeepsElements, WindowsDisjoint, Fenced, At, DepthBoundsStack, Depth
<1>4. Settled'
  BY <1>1 DEF SortInv, Settled, Positions, Pending, At
<1>. QED BY <1>2, <1>3, <1>4 DEF SortInv

\* sort.go:150-215: at every turn of every call, the slice is a rearrangement of the
\* caller's, the windows that wait are apart and fenced, the depth is within its budget,
\* and an element that no window holds is where the sorted slice has it.
THEOREM Sorted == Spec => []SortInv
<1>1. SortInv /\ [Next]_vars => SortInv'
  BY CallKeeps, StepKeeps, QuietKeeps DEF Next, Returned
<1>. QED BY <1>1, InitSort, PTL DEF Spec

\* sort.go:99-103: whatever the slice, Sort and SortInto return it in ascending order,
\* NaNs last.
THEOREM AscendingAtReturn == Spec => []ReturnsSorted
<1>1. SortInv => ReturnsSorted
  <2>. SUFFICES ASSUME SortInv, pc = "returned", NEW e \in 1 .. Len(a) - 1
                PROVE  AtMost(a[e], a[e + 1])
    BY DEF ReturnsSorted, Ascending
  <2>1. stack = <<>> /\ Len(a) \in Nat
    BY DEF SortInv, TypeOK
  <2>2. ~Pending(e)
    BY <2>1, NoCalls
  <2>3. e - 1 \in Positions /\ e \in Positions /\ e - 1 < e /\ e - 1 + 1 = e
    BY <2>1 DEF Positions
  <2>4. AtMost(At(e - 1), At(e))
    BY <2>2, <2>3 DEF SortInv, Settled
  <2>. QED BY <2>3, <2>4 DEF At
<1>. QED BY <1>1, Sorted, PTL

\* The caller's elements, no more and no fewer, the zeros and the NaNs each counted
\* together.
THEOREM NothingLost == Spec => []KeepsElements
<1>1. SortInv => KeepsElements
  BY DEF SortInv
<1>. QED BY <1>1, Sorted, PTL

-----------------------------------------------------------------------------
(* Swaps.                                                                  *)

\* Between l and h, t is a rearrangement of s; elsewhere it is s.
Shuffles(s, t, l, h) == Rewrites(s, t, l, h) /\ SameElements(t, s)

LEMMA SwapElements ==
    ASSUME NEW s \in Seq(Values), NEW x \in 0 .. Len(s) - 1, NEW y \in 0 .. Len(s) - 1
    PROVE  /\ Swap(s, x, y) \in Seq(Values) /\ Len(Swap(s, x, y)) = Len(s)
           /\ Swap(s, x, y)[x + 1] = s[y + 1] /\ Swap(s, x, y)[y + 1] = s[x + 1]
           /\ \A p \in 0 .. Len(s) - 1 : p # x /\ p # y => Swap(s, x, y)[p + 1] = s[p + 1]
<1>1. Len(s) \in Nat /\ x + 1 \in 1 .. Len(s) /\ y + 1 \in 1 .. Len(s) /\ \A e \in 1 .. Len(s) : s[e] \in Values
  OBVIOUS
<1>. DEFINE r == [s EXCEPT ![x + 1] = s[y + 1]]
            t == [r EXCEPT ![y + 1] = s[x + 1]]
<1>2. Swap(s, x, y) = t
  BY DEF Swap
<1>3. r \in Seq(Values) /\ Len(r) = Len(s) /\ \A e \in 1 .. Len(s) : r[e] = IF e = x + 1 THEN s[y + 1] ELSE s[e]
  BY <1>1, ExceptSeq
<1>. HIDE DEF r
<1>4. t \in Seq(Values) /\ Len(t) = Len(s) /\ \A e \in 1 .. Len(s) : t[e] = IF e = y + 1 THEN s[x + 1] ELSE r[e]
  BY <1>1, <1>3, ExceptSeq
<1>. HIDE DEF t
<1>5. t[y + 1] = s[x + 1]
  BY <1>1, <1>4
<1>6. t[x + 1] = s[y + 1]
  BY <1>1, <1>3, <1>4
<1>7. ASSUME NEW p \in 0 .. Len(s) - 1, p # x, p # y PROVE t[p + 1] = s[p + 1]
  <2>1. p + 1 \in 1 .. Len(s) /\ p + 1 # x + 1 /\ p + 1 # y + 1
    BY <1>1, <1>7
  <2>. QED BY <1>3, <1>4, <2>1
<1>. QED BY <1>2, <1>4, <1>5, <1>6, <1>7

\* Where an element is after a swap of x and y, counted from 1.
Across(x, y, e) == IF e = x + 1 THEN y + 1 ELSE IF e = y + 1 THEN x + 1 ELSE e

LEMMA SwapKeepsElements ==
    ASSUME NEW s \in Seq(Values), NEW x \in 0 .. Len(s) - 1, NEW y \in 0 .. Len(s) - 1
    PROVE  SameElements(Swap(s, x, y), s)
<1>. DEFINE t == Swap(s, x, y)
<1>1. /\ t \in Seq(Values) /\ Len(t) = Len(s)
      /\ t[x + 1] = s[y + 1] /\ t[y + 1] = s[x + 1]
      /\ \A p \in 0 .. Len(s) - 1 : p # x /\ p # y => t[p + 1] = s[p + 1]
  BY SwapElements
<1>2. Len(s) \in Nat /\ x + 1 \in 1 .. Len(s) /\ y + 1 \in 1 .. Len(s) /\ DOMAIN s = 1 .. Len(s)
  OBVIOUS
<1>3. DOMAIN t = 1 .. Len(s)
  BY <1>1
<1>. HIDE DEF t
<1>4. ASSUME NEW e \in 1 .. Len(s) PROVE Across(x, y, e) \in 1 .. Len(s) /\ s[Across(x, y, e)] = t[e] /\ Across(x, y, Across(x, y, e)) = e
  <2>1. e - 1 \in 0 .. Len(s) - 1 /\ e - 1 + 1 = e /\ (e - 1 = x => e = x + 1) /\ (e - 1 = y => e = y + 1)
    BY <1>2
  <2>2. e # x + 1 /\ e # y + 1 => t[e] = s[e]
    BY <1>1, <2>1
  <2>. QED BY <1>1, <1>2, <2>2 DEF Across
<1>5. ASSUME NEW c \in Values PROVE CountOf(t, c) = CountOf(s, c)
  <2>. DEFINE f == [e \in Spots(t, c) |-> Across(x, y, e)]
  <2>1. Spots(t, c) \subseteq 1 .. Len(s) /\ Spots(s, c) \subseteq 1 .. Len(s)
    BY <1>2, <1>3 DEF Spots
  <2>2. ASSUME NEW e \in Spots(t, c) PROVE Across(x, y, e) \in Spots(s, c)
    BY <1>2, <1>4, <2>1 DEF Spots
  <2>3. ASSUME NEW e \in Spots(s, c) PROVE Across(x, y, e) \in Spots(t, c)
    <3>1. e \in 1 .. Len(s)
      BY <2>1
    <3>2. Across(x, y, e) \in 1 .. Len(s) /\ Across(x, y, Across(x, y, e)) = e
      BY <1>4, <3>1
    <3>3. s[Across(x, y, Across(x, y, e))] = t[Across(x, y, e)]
      BY <1>4, <3>2
    <3>. QED BY <1>3, <3>2, <3>3 DEF Spots
  <2>4. PairsOff(f, Spots(t, c), Spots(s, c))
    <3>1. f \in [Spots(t, c) -> Spots(s, c)]
      BY <2>2
    <3>2. ASSUME NEW d \in Spots(t, c), NEW e \in Spots(t, c), f[d] = f[e] PROVE d = e
      <4>1. Across(x, y, d) = Across(x, y, e)
        BY <3>2
      <4>2. Across(x, y, Across(x, y, d)) = d /\ Across(x, y, Across(x, y, e)) = e
        BY <1>4, <2>1
      <4>. QED BY <4>1, <4>2
    <3>3. ASSUME NEW e \in Spots(s, c) PROVE \E d \in Spots(t, c) : f[d] = e
      <4>1. Across(x, y, e) \in Spots(t, c) /\ Across(x, y, Across(x, y, e)) = e
        BY <1>4, <2>1, <2>3
      <4>. QED BY <4>1
    <3>. QED BY <3>1, <3>2, <3>3 DEF PairsOff
  <2>5. /\ IsFiniteSet(Spots(t, c)) /\ CountOf(t, c) = Cardinality(Spots(t, c))
        /\ CountOf(s, c) = Cardinality(Spots(s, c))
    BY <1>1, SpotsOf
  <2>. HIDE DEF f
  <2>. QED BY <2>4, <2>5, PairedSize
<1>. QED BY <1>1, <1>5 DEF SameElements, t

LEMMA SwapShuffles ==
    ASSUME NEW s \in Seq(Values), NEW l \in 0 .. Len(s), NEW h \in 0 .. Len(s),
           NEW x \in l .. h - 1, NEW y \in l .. h - 1
    PROVE  Shuffles(s, Swap(s, x, y), l, h)
<1>. DEFINE t == Swap(s, x, y)
<1>1. Len(s) \in Nat /\ x \in 0 .. Len(s) - 1 /\ y \in 0 .. Len(s) - 1
  OBVIOUS
<1>2. /\ t \in Seq(Values) /\ Len(t) = Len(s)
      /\ t[x + 1] = s[y + 1] /\ t[y + 1] = s[x + 1]
      /\ \A p \in 0 .. Len(s) - 1 : p # x /\ p # y => t[p + 1] = s[p + 1]
  BY <1>1, SwapElements
<1>3. SameElements(t, s)
  BY <1>1, SwapKeepsElements
<1>. HIDE DEF t
<1>4. ASSUME NEW p \in 0 .. Len(s) - 1, p < l \/ h <= p PROVE t[p + 1] = s[p + 1]
  BY <1>2, <1>4
<1>5. ASSUME NEW p \in l .. h - 1 PROVE \E q \in l .. h - 1 : Same(s[q + 1], t[p + 1])
  <2>1. \A q \in 0 .. Len(s) - 1 : s[q + 1] \in Values
    BY <1>1
  <2>2. p \in 0 .. Len(s) - 1
    BY <1>1
  <2>3. \A q \in 0 .. Len(s) - 1 : Same(s[q + 1], s[q + 1])
    BY <2>1, SameIsEquivalence
  <2>. QED BY <1>1, <1>2, <2>2, <2>3
<1>. QED BY <1>2, <1>3, <1>4, <1>5 DEF Shuffles, Rewrites, t

LEMMA ShufflesTwice ==
    ASSUME NEW s \in Seq(Values), NEW l \in 0 .. Len(s), NEW h \in 0 .. Len(s),
           NEW t, Shuffles(s, t, l, h), NEW u, Shuffles(t, u, l, h)
    PROVE  Shuffles(s, u, l, h)
<1>1. t \in Seq(Values) /\ Len(t) = Len(s) /\ u \in Seq(Values) /\ Len(u) = Len(s) /\ Len(s) \in Nat
  BY DEF Shuffles, Rewrites
<1>2. SameElements(u, s)
  BY <1>1, SameElementsIs DEF Shuffles
<1>3. ASSUME NEW p \in 0 .. Len(s) - 1, p < l \/ h <= p PROVE u[p + 1] = s[p + 1]
  BY <1>1, <1>3 DEF Shuffles, Rewrites
<1>4. ASSUME NEW p \in l .. h - 1 PROVE \E q \in l .. h - 1 : Same(s[q + 1], u[p + 1])
  <2>1. PICK q \in l .. h - 1 : Same(t[q + 1], u[p + 1])
    BY <1>1 DEF Shuffles, Rewrites
  <2>2. PICK r \in l .. h - 1 : Same(s[r + 1], t[q + 1])
    BY <1>1 DEF Shuffles, Rewrites
  <2>3. r + 1 \in 1 .. Len(s) /\ q + 1 \in 1 .. Len(s) /\ p + 1 \in 1 .. Len(s)
    BY <1>1
  <2>4. s[r + 1] \in Values /\ t[q + 1] \in Values /\ u[p + 1] \in Values
    BY <1>1, <2>3
  <2>5. Same(s[r + 1], u[p + 1])
    BY <2>1, <2>2, <2>4, SameIsEquivalence
  <2>. QED BY <2>5
<1>. QED BY <1>1, <1>2, <1>3, <1>4 DEF Shuffles, Rewrites

\* The swap that puts two elements in order.
LEMMA OrderedShuffles ==
    ASSUME NEW s \in Seq(Values), NEW l \in 0 .. Len(s), NEW h \in 0 .. Len(s),
           NEW x \in l .. h - 1, NEW y \in l .. h - 1
    PROVE  /\ Shuffles(s, Ordered(s, x, y), l, h)
           /\ AtMost(Ordered(s, x, y)[x + 1], Ordered(s, x, y)[y + 1])
           /\ \A p \in 0 .. Len(s) - 1 : p # x /\ p # y => Ordered(s, x, y)[p + 1] = s[p + 1]
           /\ \/ Ordered(s, x, y)[x + 1] = s[x + 1] /\ Ordered(s, x, y)[y + 1] = s[y + 1]
              \/ Ordered(s, x, y)[x + 1] = s[y + 1] /\ Ordered(s, x, y)[y + 1] = s[x + 1]
           /\ AtMost(Ordered(s, x, y)[x + 1], s[x + 1]) /\ AtMost(Ordered(s, x, y)[x + 1], s[y + 1])
           /\ AtMost(s[x + 1], Ordered(s, x, y)[y + 1]) /\ AtMost(s[y + 1], Ordered(s, x, y)[y + 1])
<1>1. Len(s) \in Nat /\ x \in 0 .. Len(s) - 1 /\ y \in 0 .. Len(s) - 1 /\ x + 1 \in 1 .. Len(s) /\ y + 1 \in 1 .. Len(s)
  OBVIOUS
<1>2. s[x + 1] \in Values /\ s[y + 1] \in Values
  BY <1>1
<1>3. CASE LessNaNLast(s[y + 1], s[x + 1])
  <2>1. Ordered(s, x, y) = Swap(s, x, y)
    BY <1>3 DEF Ordered
  <2>2. ~AtMost(s[x + 1], s[y + 1])
    BY <1>3 DEF AtMost
  <2>3. AtMost(s[y + 1], s[x + 1]) /\ AtMost(s[x + 1], s[x + 1]) /\ AtMost(s[y + 1], s[y + 1])
    BY <1>2, <2>2, AtMostOrders
  <2>4. /\ Swap(s, x, y)[x + 1] = s[y + 1] /\ Swap(s, x, y)[y + 1] = s[x + 1]
        /\ \A p \in 0 .. Len(s) - 1 : p # x /\ p # y => Swap(s, x, y)[p + 1] = s[p + 1]
    BY <1>1, SwapElements
  <2>5. Shuffles(s, Swap(s, x, y), l, h)
    BY SwapShuffles
  <2>. QED BY <2>1, <2>3, <2>4, <2>5
<1>4. CASE ~LessNaNLast(s[y + 1], s[x + 1])
  <2>1. Ordered(s, x, y) = s
    BY <1>4 DEF Ordered
  <2>2. AtMost(s[x + 1], s[y + 1]) /\ AtMost(s[x + 1], s[x + 1]) /\ AtMost(s[y + 1], s[y + 1])
    BY <1>2, <1>4, AtMostOrders DEF AtMost
  <2>3. Shuffles(s, s, l, h)
    <3>1. \A p \in l .. h - 1 : Same(s[p + 1], s[p + 1])
      <4>1. \A p \in l .. h - 1 : p + 1 \in 1 .. Len(s)
        BY <1>1
      <4>2. \A p \in l .. h - 1 : s[p + 1] \in Values
        BY <4>1
      <4>. QED BY <4>2, SameIsEquivalence
    <3>. QED BY <3>1, SameElementsIs DEF Shuffles, Rewrites
  <2>. QED BY <2>1, <2>2, <2>3
<1>. QED BY <1>3, <1>4

-----------------------------------------------------------------------------
(* The inductive invariant.                                                *)

ScanBounds ==
    at = "scan" => hi - lo >= 2 /\ i \in lo .. j - 1 /\ j \in i + 1 .. hi - 1

KernelInv == KernelTypeOK /\ KernelFenced
PortableInv == PortableTypeOK /\ PortableFenced /\ ScanBounds /\ ScannedSides

\* What the caller's slice is, and what a selection has left of it.
OrderIndInv ==
    /\ OrderTypeOK
    /\ passed \in Slices /\ data \in Seq(Values)
    /\ phase = "deliver" => Selects /\ PlacedAt(data, Target)

\* What a select has been asked for, and has kept.
Asked ==
    /\ at = "idle" => NotSelecting
    /\ at # "idle" => phase = "call" /\ Selects /\ k = Target /\ SameElements(slice, data)
    /\ at = "returned" => PlacedAt(slice, k)

SelectIndInv ==
    /\ OrderIndInv /\ accelerated \in BOOLEAN
    /\ Asked
    /\ UsesKernel => KernelInv
    /\ ~UsesKernel => PortableInv

LEMMA FinalIsPlaced ==
    ASSUME NEW s \in Seq(Values), NEW p \in 0 .. Len(s) - 1, Final(s, p)
    PROVE  PlacedAt(s, p)
<1>1. Len(s) \in Nat /\ p \in Nat
  OBVIOUS
<1>2. ASSUME NEW q \in 1 .. p PROVE AtMost(s[q], s[p + 1])
  <2>1. q - 1 \in 0 .. Len(s) - 1 /\ q - 1 < p /\ q - 1 + 1 = q
    BY <1>1
  <2>. QED BY <2>1 DEF Final
<1>3. ASSUME NEW q \in p + 2 .. Len(s) PROVE AtMost(s[p + 1], s[q])
  <2>1. q - 1 \in 0 .. Len(s) - 1 /\ q - 1 > p /\ q - 1 + 1 = q
    BY <1>1
  <2>. QED BY <2>1 DEF Final
<1>. QED BY <1>2, <1>3 DEF PlacedAt

LEMMA IdleInv == NotSelecting => KernelInv /\ PortableInv
<1>. SUFFICES ASSUME NotSelecting PROVE KernelInv /\ PortableInv
  OBVIOUS
<1>1. slice = <<>> /\ lo = 0 /\ hi = 0 /\ at = "idle" /\ slice \in Seq(Values) /\ Len(slice) = 0
  BY DEF NotSelecting
<1>2. KernelTypeOK /\ PortableTypeOK /\ ScanBounds /\ ScannedSides
  BY <1>1 DEF KernelTypeOK, PortableTypeOK, ScanBounds, ScannedSides
<1>3. KernelFenced /\ PortableFenced
  BY <1>1 DEF KernelFenced, PortableFenced, Apart
<1>. QED BY <1>2, <1>3 DEF KernelInv, PortableInv

-----------------------------------------------------------------------------
(* The select around the partition kernel.                                 *)

LEMMA KernelWindow ==
    ASSUME KernelInv, at = "loop"
    PROVE  /\ slice \in Seq(Values) /\ Len(slice) \in Nat
           /\ lo \in Nat /\ hi \in Nat /\ k \in Nat /\ lo <= k /\ k < hi /\ hi <= Len(slice)
           /\ lo \in 0 .. Len(slice) /\ hi \in 0 .. Len(slice) /\ lo <= hi
           /\ depth \in 0 .. DepthPerBit * BitsLen(Len(slice))
           /\ DepthPerBit * BitsLen(Len(slice)) \in Nat
           /\ Apart(slice, lo, hi)
           /\ Live \in Seq(Values) /\ Len(Live) = hi - lo /\ Live # <<>>
<1>1. /\ slice \in Seq(Values) /\ k \in Nat /\ lo \in 0 .. k /\ hi \in k + 1 .. Len(slice)
      /\ depth \in 0 .. DepthPerBit * BitsLen(Len(slice)) /\ Apart(slice, lo, hi)
  BY DEF KernelInv, KernelTypeOK, KernelFenced
<1>2. Len(slice) \in Nat
  BY <1>1
<1>3. /\ lo \in Nat /\ hi \in Nat /\ lo <= k /\ k < hi /\ hi <= Len(slice)
      /\ lo \in 0 .. Len(slice) /\ hi \in 0 .. Len(slice) /\ lo <= hi
  BY <1>1, <1>2
<1>4. Live \in Seq(Values) /\ Len(Live) = hi - lo
  BY <1>1, <1>3, SliceOf DEF Live, Window
<1>5. Live # <<>>
  <2>1. hi - lo # 0
    BY <1>1, <1>3
  <2>2. Len(<<>>) = 0
    OBVIOUS
  <2>. QED BY <1>4, <2>1, <2>2, Zenon
<1>6. DepthPerBit * BitsLen(Len(slice)) \in Nat
  <2>1. DepthPerBit \in Nat /\ BitsLen(Len(slice)) \in Nat
    BY <1>2, BitsLenType, DepthAssumption
  <2>. QED BY <2>1
<1>. QED BY <1>1, <1>2, <1>3, <1>4, <1>5, <1>6

\* One turn leaves the slice rearranged and fenced, and what it returns placed.
LEMMA KernelTurnKeeps ==
    ASSUME KernelInv, KernelTurn
    PROVE  /\ KernelInv' /\ k' = k /\ SameElements(slice', slice)
           /\ at' \in {"loop", "returned"}
           /\ at' = "returned" => PlacedAt(slice', k')
<1>1. at = "loop" /\ k' = k
  BY DEF KernelTurn
<1>2. /\ slice \in Seq(Values) /\ Len(slice) \in Nat
      /\ lo \in Nat /\ hi \in Nat /\ k \in Nat /\ lo <= k /\ k < hi /\ hi <= Len(slice)
      /\ lo \in 0 .. Len(slice) /\ hi \in 0 .. Len(slice) /\ lo <= hi
      /\ depth \in 0 .. DepthPerBit * BitsLen(Len(slice))
      /\ DepthPerBit * BitsLen(Len(slice)) \in Nat
      /\ Apart(slice, lo, hi)
      /\ Live \in Seq(Values) /\ Len(Live) = hi - lo /\ Live # <<>>
  BY <1>1, KernelWindow
<1>3. ASSUME NEW v \in Seq(Values), SameElements(v, Live), SortLive(v)
      PROVE  /\ KernelInv' /\ SameElements(slice', slice)
             /\ at' = "returned" /\ PlacedAt(slice', k')
  <2>1. /\ SortFallback(v) \in Seq(Values) /\ SameElements(SortFallback(v), v)
        /\ InOrder(SortFallback(v))
    BY FallbackSorts
  <2>2. SameElements(SortFallback(v), Window(slice, lo, hi))
    BY <1>2, <1>3, <2>1, SameElementsIs DEF Live
  <2>3. /\ slice' = Put(slice, lo, hi, SortFallback(v))
        /\ lo' = lo /\ hi' = hi /\ depth' = depth /\ at' = "returned"
    BY <1>3 DEF SortLive
  <2>4. /\ Rewrites(slice, slice', lo, hi) /\ SameElements(slice', slice) /\ Apart(slice', lo, hi)
        /\ \A p \in lo .. hi - 1 : Final(slice', p)
    BY <1>2, <2>1, <2>2, <2>3, SortedWindow
  <2>5. slice' \in Seq(Values) /\ Len(slice') = Len(slice)
    BY <2>4 DEF Rewrites
  <2>6. KernelInv'
    BY <1>1, <1>2, <2>3, <2>4, <2>5 DEF KernelInv, KernelTypeOK, KernelFenced
  <2>7. PlacedAt(slice', k')
    <3>1. k \in lo .. hi - 1 /\ k \in 0 .. Len(slice') - 1
      BY <1>2, <2>5
    <3>. QED BY <1>1, <2>4, <2>5, <3>1, FinalIsPlaced
  <2>. QED BY <2>3, <2>4, <2>6, <2>7
<1>4. CASE LoopDone
  <2>1. SortLive(Live)
    BY <1>4 DEF LoopDone
  <2>. QED BY <1>1, <1>2, <1>3, <2>1, SameElementsIs
<1>5. ASSUME NEW s \in Parts, Narrow(s) \/ GiveUp(s)
      PROVE  /\ KernelInv' /\ SameElements(slice', slice)
             /\ at' \in {"loop", "returned"}
             /\ at' = "returned" => PlacedAt(slice', k')
  <2>. DEFINE pivot == MedianOfThree(Live)
  <2>1. s = Partition(Live, pivot)
    BY DEF Parts
  <2>2. pivot \in Values
    BY <1>2, MedianIsElement
  <2>3. /\ s.out \in Seq(Values) /\ SameElements(s.out, Live) /\ Len(s.out) = Len(Live)
        /\ s.n \in 0 .. Len(Live)
        /\ \A e \in 1 .. s.n : s.out[e] \in Below(pivot)
        /\ \A e \in s.n + 1 .. Len(Live) : s.out[e] \notin Below(pivot)
    BY <1>2, <2>1, <2>2, Partitioned
  <2>. HIDE DEF pivot
  <2>4. CASE GiveUp(s)
    <3>1. SortLive(s.out)
      BY <2>4 DEF GiveUp
    <3>. QED BY <1>1, <1>3, <2>3, <3>1
  <2>5. CASE Narrow(s)
    <3>. DEFINE n == s.n
                v == s.out
    <3>1. /\ slice' = Put(slice, lo, hi, v) /\ n # 0 /\ n # hi - lo
          /\ depth > 0 /\ depth' = depth - 1 /\ at' = at
          /\ IF k - lo < n THEN hi' = lo + n /\ lo' = lo ELSE lo' = lo + n /\ hi' = hi
      BY <2>5 DEF Narrow, GoesOn
    <3>2. n \in Nat /\ n <= n /\ n <= Len(v) /\ n <= hi - lo /\ SameElements(v, Window(slice, lo, hi))
      BY <1>2, <2>3 DEF Live
    <3>3. Divided(v, pivot, n, n)
      <4>1. \A e \in n + 1 .. n : FALSE
        BY <3>2
      <4>. QED BY <2>3, <3>2, <4>1 DEF Divided
    <3>4. v \in Seq(Values)
      BY <2>3
    <3>. HIDE DEF n, v
    <3>5. /\ Rewrites(slice, slice', lo, hi) /\ SameElements(slice', slice)
          /\ Apart(slice', lo, lo + n) /\ Apart(slice', lo + n, hi)
      BY <1>2, <2>2, <3>1, <3>2, <3>3, <3>4, PartedWindow
    <3>6. slice' \in Seq(Values) /\ Len(slice') = Len(slice)
      BY <3>5 DEF Rewrites
    <3>7. depth' \in 0 .. DepthPerBit * BitsLen(Len(slice))
      BY <1>2, <3>1
    <3>8. lo' \in 0 .. k /\ hi' \in k + 1 .. Len(slice)
      BY <1>2, <3>1, <3>2
    <3>9. Apart(slice', lo', hi')
      BY <3>1, <3>5
    <3>10. KernelInv'
      BY <1>1, <1>2, <3>1, <3>6, <3>7, <3>8, <3>9 DEF KernelInv, KernelTypeOK, KernelFenced
    <3>. QED BY <1>1, <3>1, <3>5, <3>10
  <2>. QED BY <1>5, <2>4, <2>5
<1>. QED BY <1>1, <1>4, <1>5 DEF KernelTurn

-----------------------------------------------------------------------------
(* The portable select.                                                    *)

LEMMA PortableWindow ==
    ASSUME PortableInv, at # "idle"
    PROVE  /\ slice \in Seq(Values) /\ Len(slice) \in Nat
           /\ lo \in Nat /\ hi \in Nat /\ k \in Nat /\ lo <= k /\ k <= hi /\ hi <= Len(slice) - 1
           /\ lo \in 0 .. Len(slice) /\ hi + 1 \in 0 .. Len(slice) /\ lo <= hi + 1 /\ hi + 1 - 1 = hi
           /\ i \in 0 .. Len(slice) - 1 /\ j \in 0 .. Len(slice) - 1
           /\ Apart(slice, lo, hi + 1)
           /\ \A p \in 0 .. Len(slice) - 1 : slice[p + 1] \in Values
<1>1. /\ slice \in Seq(Values) /\ k \in Nat /\ lo \in 0 .. k /\ hi \in k .. Len(slice) - 1
      /\ i \in 0 .. Len(slice) - 1 /\ j \in 0 .. Len(slice) - 1
      /\ Apart(slice, lo, hi + 1)
  BY DEF PortableInv, PortableTypeOK, PortableFenced
<1>2. Len(slice) \in Nat
  BY <1>1
<1>3. /\ lo \in Nat /\ hi \in Nat /\ lo <= k /\ k <= hi /\ hi <= Len(slice) - 1
      /\ lo \in 0 .. Len(slice) /\ hi + 1 \in 0 .. Len(slice) /\ lo <= hi + 1 /\ hi + 1 - 1 = hi
  BY <1>1, <1>2
<1>4. ASSUME NEW p \in 0 .. Len(slice) - 1 PROVE slice[p + 1] \in Values
  <2>1. p + 1 \in 1 .. Len(slice)
    BY <1>2
  <2>. QED BY <1>1, <2>1
<1>. QED BY <1>1, <1>2, <1>3, <1>4

\* Rearranging the range keeps its fence.
LEMMA ShuffledRange ==
    ASSUME PortableInv, at # "idle", NEW t, Shuffles(slice, t, lo, hi + 1)
    PROVE  /\ t \in Seq(Values) /\ Len(t) = Len(slice) /\ SameElements(t, slice)
           /\ Apart(t, lo, hi + 1)
<1>1. /\ slice \in Seq(Values) /\ lo \in 0 .. Len(slice) /\ hi + 1 \in 0 .. Len(slice) /\ lo <= hi + 1
      /\ Apart(slice, lo, hi + 1) /\ lo \in Nat /\ hi \in Nat
  BY PortableWindow
<1>2. Rewrites(slice, t, lo, hi + 1) /\ SameElements(t, slice) /\ t \in Seq(Values) /\ Len(t) = Len(slice)
  BY DEF Shuffles, Rewrites
<1>3. Compatible(lo, hi + 1, lo, hi + 1)
  BY <1>1 DEF Compatible
<1>4. Apart(t, lo, hi + 1)
  BY <1>1, <1>2, <1>3, RewriteKeepsApart
<1>. QED BY <1>2, <1>4

\* Where both inner loops stop, and what they have passed.
LEMMA ScanFacts ==
    ASSUME PortableInv, at = "scan"
    PROVE  /\ j \in StopsUp /\ i \in StopsDown
           /\ hi - lo >= 2 /\ i \in lo .. j - 1 /\ j \in i + 1 .. hi - 1 /\ Pivot \in Values
           /\ Up \in i + 1 .. j /\ Down \in i .. j - 1
           /\ AtMost(Pivot, slice[Up + 1]) /\ AtMost(slice[Down + 1], Pivot)
           /\ \A p \in lo .. Up - 1 : AtMost(slice[p + 1], Pivot)
           /\ \A p \in Down + 1 .. hi : AtMost(Pivot, slice[p + 1])
<1>1. /\ slice \in Seq(Values) /\ Len(slice) \in Nat
      /\ lo \in Nat /\ hi \in Nat /\ hi <= Len(slice) - 1
      /\ i \in 0 .. Len(slice) - 1 /\ j \in 0 .. Len(slice) - 1
      /\ \A p \in 0 .. Len(slice) - 1 : slice[p + 1] \in Values
  BY PortableWindow
<1>2. /\ hi - lo >= 2 /\ i \in lo .. j - 1 /\ j \in i + 1 .. hi - 1
      /\ \A p \in lo .. i : AtMost(slice[p + 1], Pivot)
      /\ \A p \in j .. hi : AtMost(Pivot, slice[p + 1])
  BY DEF PortableInv, ScanBounds, ScannedSides
<1>3. Pivot \in Values
  <2>1. hi - 1 \in 0 .. Len(slice) - 1 /\ hi - 1 + 1 = hi
    BY <1>1, <1>2
  <2>. QED BY <1>1, <2>1 DEF Pivot
<1>. HIDE DEF Pivot
<1>4. i \in lo .. i /\ j \in j .. hi /\ j \in i + 1 .. Len(slice) - 1 /\ i \in 0 .. j - 1
  BY <1>1, <1>2
<1>5. j \in StopsUp
  <2>1. ~LessNaNLast(slice[j + 1], Pivot)
    BY <1>2, <1>4 DEF AtMost
  <2>. QED BY <1>4, <2>1 DEF StopsUp
<1>6. i \in StopsDown
  <2>1. ~LessNaNLast(Pivot, slice[i + 1])
    BY <1>2, <1>4 DEF AtMost
  <2>. QED BY <1>4, <2>1 DEF StopsDown
<1>7. /\ StopsUp \in SUBSET Int /\ StopsDown \in SUBSET Int
      /\ \A x \in StopsUp : i + 1 <= x
      /\ \A x \in StopsDown : x <= j - 1
  BY <1>1 DEF StopsUp, StopsDown
<1>8. Up \in StopsUp /\ \A x \in StopsUp : Up <= x
  <2>1. \E x \in StopsUp : \A y \in StopsUp : x <= y
    <3>1. i + 1 \in Int /\ StopsUp # {}
      BY <1>1, <1>5
    <3>. QED BY <1>7, <3>1, LeastInteger
  <2>. QED BY <2>1 DEF Up, Min
<1>9. Down \in StopsDown /\ \A x \in StopsDown : x <= Down
  <2>1. \E x \in StopsDown : \A y \in StopsDown : y <= x
    <3>1. j - 1 \in Int /\ StopsDown # {}
      BY <1>1, <1>6
    <3>. QED BY <1>7, <3>1, GreatestInteger
  <2>2. \E x \in StopsDown : \A y \in StopsDown : x >= y
    BY <1>7, <2>1
  <2>3. Down \in StopsDown /\ \A y \in StopsDown : Down >= y
    BY <2>2 DEF Down, Max
  <2>. QED BY <1>7, <2>3
<1>10. /\ Up \in i + 1 .. j /\ Down \in i .. j - 1
  BY <1>1, <1>2, <1>5, <1>6, <1>7, <1>8, <1>9
<1>11. AtMost(Pivot, slice[Up + 1]) /\ AtMost(slice[Down + 1], Pivot)
  BY <1>8, <1>9 DEF StopsUp, StopsDown, AtMost
<1>12. ASSUME NEW p \in lo .. Up - 1 PROVE AtMost(slice[p + 1], Pivot)
  <2>1. CASE p <= i
    BY <1>1, <1>2, <2>1
  <2>2. CASE p > i
    <3>1. p \in i + 1 .. Len(slice) - 1 /\ ~(Up <= p) /\ p \in 0 .. Len(slice) - 1
      BY <1>1, <1>2, <1>10, <2>2
    <3>2. p \notin StopsUp
      BY <1>8, <3>1
    <3>3. LessNaNLast(slice[p + 1], Pivot)
      BY <3>1, <3>2 DEF StopsUp
    <3>4. ~AtMost(Pivot, slice[p + 1]) /\ slice[p + 1] \in Values
      BY <1>1, <3>1, <3>3 DEF AtMost
    <3>. QED BY <1>3, <3>4, AtMostOrders
  <2>. QED BY <1>1, <1>10, <2>1, <2>2
<1>13. ASSUME NEW p \in Down + 1 .. hi PROVE AtMost(Pivot, slice[p + 1])
  <2>1. CASE p >= j
    BY <1>1, <1>2, <2>1
  <2>2. CASE p < j
    <3>1. p \in 0 .. j - 1 /\ ~(p <= Down) /\ p \in 0 .. Len(slice) - 1
      BY <1>1, <1>2, <1>10, <2>2
    <3>2. p \notin StopsDown
      BY <1>9, <3>1
    <3>3. LessNaNLast(Pivot, slice[p + 1])
      BY <3>1, <3>2 DEF StopsDown
    <3>4. ~AtMost(slice[p + 1], Pivot) /\ slice[p + 1] \in Values
      BY <1>1, <3>1, <3>3 DEF AtMost
    <3>. QED BY <1>3, <3>4, AtMostOrders
  <2>. QED BY <1>1, <1>10, <2>1, <2>2
<1>. QED BY <1>2, <1>3, <1>5, <1>6, <1>10, <1>11, <1>12, <1>13

LEMMA ExchangeKeeps ==
    ASSUME PortableInv, Exchange, UNCHANGED <<k, depth>>
    PROVE  PortableInv' /\ SameElements(slice', slice) /\ at' = "scan"
<1>1. at = "scan" /\ Up < Down /\ slice' = Swap(slice, Up, Down) /\ i' = Up /\ j' = Down /\ UNCHANGED <<lo, hi, at, k>>
  BY DEF Exchange
<1>2. /\ slice \in Seq(Values) /\ Len(slice) \in Nat
      /\ lo \in Nat /\ hi \in Nat /\ k \in Nat /\ lo <= k /\ k <= hi /\ hi <= Len(slice) - 1
      /\ lo \in 0 .. Len(slice) /\ hi + 1 \in 0 .. Len(slice) /\ hi + 1 - 1 = hi
      /\ \A p \in 0 .. Len(slice) - 1 : slice[p + 1] \in Values
  BY <1>1, PortableWindow
<1>3. /\ hi - lo >= 2 /\ i \in lo .. j - 1 /\ j \in i + 1 .. hi - 1 /\ Pivot \in Values
      /\ Up \in i + 1 .. j /\ Down \in i .. j - 1
      /\ AtMost(Pivot, slice[Up + 1]) /\ AtMost(slice[Down + 1], Pivot)
      /\ \A p \in lo .. Up - 1 : AtMost(slice[p + 1], Pivot)
      /\ \A p \in Down + 1 .. hi : AtMost(Pivot, slice[p + 1])
  BY <1>1, ScanFacts
<1>4. PICK x \in i + 1 .. j : x = Up
  BY <1>3
<1>5. PICK y \in i .. j - 1 : y = Down
  BY <1>3
<1>6. PICK t : t = Swap(slice, x, y)
  OBVIOUS
<1>7. slice' = t /\ i' = x /\ j' = y /\ x < y
  BY <1>1, <1>4, <1>5, <1>6
<1>8. x \in lo .. hi + 1 - 1 /\ y \in lo .. hi + 1 - 1 /\ x \in 0 .. Len(slice) - 1 /\ y \in 0 .. Len(slice) - 1
  BY <1>2, <1>3
<1>9. Shuffles(slice, t, lo, hi + 1)
  BY <1>2, <1>6, <1>8, SwapShuffles
<1>10. t \in Seq(Values) /\ Len(t) = Len(slice) /\ SameElements(t, slice) /\ Apart(t, lo, hi + 1)
  BY <1>1, <1>9, ShuffledRange
<1>11. /\ t[x + 1] = slice[y + 1] /\ t[y + 1] = slice[x + 1]
       /\ \A p \in 0 .. Len(slice) - 1 : p # x /\ p # y => t[p + 1] = slice[p + 1]
  BY <1>2, <1>6, <1>8, SwapElements
<1>12. t[hi] = slice[hi]
  <2>1. hi - 1 \in 0 .. Len(slice) - 1 /\ hi - 1 + 1 = hi /\ hi - 1 # x /\ hi - 1 # y
    BY <1>2, <1>3, <1>7
  <2>. QED BY <1>11, <2>1
<1>13. Pivot' = Pivot
  BY <1>1, <1>7, <1>12 DEF Pivot
<1>14. ASSUME NEW p \in lo .. x PROVE AtMost(t[p + 1], Pivot)
  <2>1. CASE p = x
    BY <1>3, <1>5, <1>11, <2>1
  <2>2. CASE p # x
    <3>1. p \in lo .. x - 1 /\ p \in 0 .. Len(slice) - 1 /\ p # y
      BY <1>2, <1>3, <1>7, <2>2
    <3>. QED BY <1>3, <1>4, <1>11, <2>2, <3>1
  <2>. QED BY <2>1, <2>2
<1>15. ASSUME NEW p \in y .. hi PROVE AtMost(Pivot, t[p + 1])
  <2>1. CASE p = y
    BY <1>3, <1>4, <1>11, <2>1
  <2>2. CASE p # y
    <3>1. p \in y + 1 .. hi /\ p \in 0 .. Len(slice) - 1 /\ p # x
      BY <1>2, <1>3, <1>7, <2>2
    <3>. QED BY <1>3, <1>5, <1>11, <2>2, <3>1
  <2>. QED BY <2>1, <2>2
<1>16. ScannedSides'
  BY <1>1, <1>7, <1>13, <1>14, <1>15 DEF ScannedSides
<1>17. ScanBounds'
  BY <1>1, <1>2, <1>3, <1>7 DEF ScanBounds
<1>18. PortableTypeOK'
  <2>1. lo \in 0 .. k /\ hi \in k .. Len(slice) - 1
    BY <1>2
  <2>. QED BY <1>1, <1>2, <1>7, <1>8, <1>10, <2>1 DEF PortableTypeOK
<1>19. PortableFenced'
  BY <1>1, <1>7, <1>10 DEF PortableFenced
<1>. QED BY <1>1, <1>7, <1>10, <1>16, <1>17, <1>18, <1>19 DEF PortableInv

\* An element with nothing greater before it in the range and nothing less after it is in
\* its place, and what is on either side of it is fenced.
LEMMA AroundPlace ==
    ASSUME NEW s \in Seq(Values), NEW l \in 0 .. Len(s), NEW h \in 0 .. Len(s), Apart(s, l, h),
           NEW x \in l .. h - 1,
           \A p \in l .. x - 1 : AtMost(s[p + 1], s[x + 1]),
           \A p \in x + 1 .. h - 1 : AtMost(s[x + 1], s[p + 1])
    PROVE  Final(s, x) /\ Apart(s, l, x) /\ Apart(s, x + 1, h)
<1>1. /\ Len(s) \in Nat /\ l \in Nat /\ h \in Nat /\ x \in Nat
      /\ l \in l .. h /\ x \in l .. h /\ x + 1 \in l .. h /\ h \in l .. h /\ x + 1 - 1 = x
  OBVIOUS
<1>2. \A p \in l .. h - 1 : s[p + 1] \in Values
  <2>1. \A p \in l .. h - 1 : p + 1 \in 1 .. Len(s)
    BY <1>1
  <2>. QED BY <2>1
<1>3. ASSUME NEW q \in l .. h - 1
      PROVE  /\ q <= x => AtMost(s[q + 1], s[x + 1])
             /\ q >= x => AtMost(s[x + 1], s[q + 1])
  <2>1. q = x \/ q \in l .. x - 1 \/ q \in x + 1 .. h - 1
    BY <1>1
  <2>2. AtMost(s[x + 1], s[x + 1])
    BY <1>2, AtMostOrders
  <2>3. (q \in l .. x - 1 => ~(q >= x)) /\ (q \in x + 1 .. h - 1 => ~(q <= x))
    BY <1>1
  <2>. QED BY <2>1, <2>2, <2>3
<1>4. Final(s, x)
  BY <1>1, <1>3, FinalWithin
<1>5. ASSUME NEW p \in l .. h - 1, NEW q \in l .. h - 1, p <= x, q >= x PROVE AtMost(s[p + 1], s[q + 1])
  BY <1>2, <1>3, <1>5, AtMostOrders
<1>6. Apart(s, l, x)
  <2>1. Under(s, l, l, l, x)
    BY <1>1 DEF Under
  <2>2. Under(s, l, x, x, h)
    BY <1>1, <1>5 DEF Under
  <2>. QED BY <1>1, <2>1, <2>2, ApartWithin
<1>7. Apart(s, x + 1, h)
  <2>1. Under(s, x + 1, h, h, h)
    BY <1>1 DEF Under
  <2>2. Under(s, l, x + 1, x + 1, h)
    BY <1>1, <1>5 DEF Under
  <2>. QED BY <1>1, <2>1, <2>2, ApartWithin
<1>. QED BY <1>4, <1>6, <1>7

LEMMA DescendKeeps ==
    ASSUME PortableInv, Descend, UNCHANGED <<k, depth>>
    PROVE  /\ PortableInv' /\ SameElements(slice', slice) /\ at' \in {"loop", "returned"}
           /\ at' = "returned" => PlacedAt(slice', k)
<1>1. /\ at = "scan" /\ Up >= Down /\ slice' = Swap(slice, Up, hi - 1) /\ UNCHANGED <<i, j, k>>
      /\ IF k < Up THEN hi' = Up - 1 ELSE hi' = hi
      /\ IF k > Up THEN lo' = Up + 1 ELSE lo' = lo
      /\ at' = IF k = Up THEN "returned" ELSE "loop"
  BY DEF Descend
<1>2. /\ slice \in Seq(Values) /\ Len(slice) \in Nat
      /\ lo \in Nat /\ hi \in Nat /\ k \in Nat /\ lo <= k /\ k <= hi /\ hi <= Len(slice) - 1
      /\ lo \in 0 .. Len(slice) /\ hi + 1 \in 0 .. Len(slice) /\ hi + 1 - 1 = hi
      /\ i \in 0 .. Len(slice) - 1 /\ j \in 0 .. Len(slice) - 1
      /\ \A p \in 0 .. Len(slice) - 1 : slice[p + 1] \in Values
  BY <1>1, PortableWindow
<1>3. /\ hi - lo >= 2 /\ i \in lo .. j - 1 /\ j \in i + 1 .. hi - 1 /\ Pivot \in Values
      /\ Up \in i + 1 .. j /\ Down \in i .. j - 1
      /\ AtMost(Pivot, slice[Up + 1])
      /\ \A p \in lo .. Up - 1 : AtMost(slice[p + 1], Pivot)
      /\ \A p \in Down + 1 .. hi : AtMost(Pivot, slice[p + 1])
  BY <1>1, ScanFacts
<1>4. PICK x \in i + 1 .. j : x = Up
  BY <1>3
<1>5. PICK y \in i .. j - 1 : y = Down
  BY <1>3
<1>6. PICK t : t = Swap(slice, x, hi - 1)
  OBVIOUS
<1>7. slice' = t /\ x >= y
  BY <1>1, <1>4, <1>5, <1>6
<1>8. x \in lo .. hi + 1 - 1 /\ hi - 1 \in lo .. hi + 1 - 1 /\ x \in 0 .. Len(slice) - 1 /\ hi - 1 \in 0 .. Len(slice) - 1 /\ x \in Nat
  BY <1>2, <1>3
<1>9. Shuffles(slice, t, lo, hi + 1)
  BY <1>2, <1>6, <1>8, SwapShuffles
<1>10. t \in Seq(Values) /\ Len(t) = Len(slice) /\ SameElements(t, slice) /\ Apart(t, lo, hi + 1)
  BY <1>1, <1>9, ShuffledRange
<1>11. /\ t[x + 1] = slice[hi - 1 + 1] /\ t[hi - 1 + 1] = slice[x + 1]
       /\ \A p \in 0 .. Len(slice) - 1 : p # x /\ p # hi - 1 => t[p + 1] = slice[p + 1]
  BY <1>2, <1>6, <1>8, SwapElements
<1>12. t[x + 1] = Pivot
  <2>1. hi - 1 + 1 = hi
    BY <1>2
  <2>. QED BY <1>11, <2>1 DEF Pivot
<1>. HIDE DEF Pivot
<1>13. ASSUME NEW p \in lo .. x - 1 PROVE AtMost(t[p + 1], Pivot)
  <2>1. p \in 0 .. Len(slice) - 1 /\ p # x /\ p # hi - 1
    BY <1>2, <1>3, <1>8
  <2>. QED BY <1>3, <1>4, <1>11, <2>1
<1>14. ASSUME NEW p \in x + 1 .. hi PROVE AtMost(Pivot, t[p + 1])
  <2>1. p \in 0 .. Len(slice) - 1 /\ p # x /\ p \in y + 1 .. hi
    BY <1>2, <1>3, <1>7, <1>8
  <2>2. CASE p = hi - 1
    BY <1>3, <1>4, <1>11, <2>2
  <2>3. CASE p # hi - 1
    BY <1>3, <1>5, <1>11, <2>1, <2>3
  <2>. QED BY <2>2, <2>3
<1>15. Final(t, x) /\ Apart(t, lo, x) /\ Apart(t, x + 1, hi + 1)
  <2>1. lo \in 0 .. Len(t) /\ hi + 1 \in 0 .. Len(t)
    BY <1>2, <1>10
  <2>2. PICK h \in 0 .. Len(t) : h = hi + 1
    BY <2>1
  <2>3. x \in lo .. h - 1 /\ Apart(t, lo, h)
    <3>1. x \in lo .. h - 1
      BY <1>2, <1>8, <2>2
    <3>2. Apart(t, lo, h)
      BY <1>10, <2>2, Zenon
    <3>. QED BY <3>1, <3>2
  <2>4. \A p \in lo .. x - 1 : AtMost(t[p + 1], t[x + 1])
    BY <1>12, <1>13
  <2>5. \A p \in x + 1 .. h - 1 : AtMost(t[x + 1], t[p + 1])
    <3>1. h - 1 = hi
      BY <1>2, <2>2
    <3>. QED BY <1>12, <1>14, <3>1
  <2>6. Final(t, x) /\ Apart(t, lo, x) /\ Apart(t, x + 1, h)
    BY <1>10, <2>1, <2>3, <2>4, <2>5, AroundPlace
  <2>. QED BY <2>2, <2>6
<1>22. lo' \in 0 .. k /\ hi' \in k .. Len(slice) - 1 /\ Apart(t, lo', hi' + 1)
  <2>1. CASE k < x
    <3>1. hi' = x - 1 /\ lo' = lo
      BY <1>1, <1>2, <1>4, <1>8, <2>1
    <3>2. hi' + 1 = x /\ lo' \in 0 .. k /\ hi' \in k .. Len(slice) - 1
      BY <1>2, <1>8, <2>1, <3>1
    <3>. QED BY <1>15, <3>1, <3>2
  <2>2. CASE k > x
    <3>1. hi' = hi /\ lo' = x + 1
      BY <1>1, <1>2, <1>4, <1>8, <2>2
    <3>2. lo' \in 0 .. k /\ hi' \in k .. Len(slice) - 1
      BY <1>2, <1>8, <2>2, <3>1
    <3>. QED BY <1>15, <3>1, <3>2
  <2>3. CASE k = x
    <3>1. hi' = hi /\ lo' = lo
      BY <1>1, <1>2, <1>4, <1>8, <2>3
    <3>2. lo' \in 0 .. k /\ hi' \in k .. Len(slice) - 1
      BY <1>2, <3>1
    <3>. QED BY <1>10, <3>1, <3>2
  <2>. QED BY <1>2, <1>8, <2>1, <2>2, <2>3
<1>23. at' \in {"loop", "returned"} /\ at' # "scan"
  BY <1>1
<1>24. PortableInv'
  <2>1. PortableTypeOK'
    BY <1>1, <1>2, <1>7, <1>10, <1>22, <1>23 DEF PortableTypeOK
  <2>2. PortableFenced'
    BY <1>7, <1>22 DEF PortableFenced
  <2>. QED BY <1>23, <2>1, <2>2 DEF PortableInv, ScanBounds, ScannedSides
<1>25. ASSUME at' = "returned" PROVE PlacedAt(slice', k)
  <2>1. k = x
    BY <1>1, <1>4, <1>25
  <2>2. PlacedAt(t, x)
    BY <1>8, <1>10, <1>15, FinalIsPlaced
  <2>. QED BY <1>7, <2>1, <2>2
<1>. QED BY <1>7, <1>10, <1>23, <1>24, <1>25

LEMMA SettleKeeps ==
    ASSUME PortableInv, Settle, UNCHANGED <<k, depth>>
    PROVE  PortableInv' /\ SameElements(slice', slice) /\ at' = "returned" /\ PlacedAt(slice', k)
<1>1. /\ at = "loop" /\ hi - lo < 2 /\ UNCHANGED <<lo, hi, i, j, k>> /\ at' = "returned"
      /\ slice' = IF lo < hi THEN Ordered(slice, lo, hi) ELSE slice
  BY DEF Settle
<1>2. /\ slice \in Seq(Values) /\ Len(slice) \in Nat
      /\ lo \in Nat /\ hi \in Nat /\ k \in Nat /\ lo <= k /\ k <= hi /\ hi <= Len(slice) - 1
      /\ lo \in 0 .. Len(slice) /\ hi + 1 \in 0 .. Len(slice) /\ hi + 1 - 1 = hi
      /\ i \in 0 .. Len(slice) - 1 /\ j \in 0 .. Len(slice) - 1
      /\ Apart(slice, lo, hi + 1)
  BY <1>1, PortableWindow
<1>3. PICK t : t = slice'
  OBVIOUS
<1>4. /\ t \in Seq(Values) /\ Len(t) = Len(slice) /\ SameElements(t, slice) /\ Apart(t, lo, hi + 1)
      /\ lo < hi => AtMost(t[lo + 1], t[hi + 1])
  <2>1. CASE lo < hi
    <3>1. lo \in lo .. hi + 1 - 1 /\ hi \in lo .. hi + 1 - 1
      BY <1>2, <2>1
    <3>2. t = Ordered(slice, lo, hi)
      BY <1>1, <1>3, <2>1
    <3>3. Shuffles(slice, t, lo, hi + 1) /\ AtMost(t[lo + 1], t[hi + 1])
      BY <1>2, <3>1, <3>2, OrderedShuffles
    <3>. QED BY <1>1, <3>3, ShuffledRange
  <2>2. CASE ~(lo < hi)
    BY <1>1, <1>2, <1>3, <2>2, SameElementsIs
  <2>. QED BY <2>1, <2>2
<1>5. Final(t, k)
  <2>1. lo \in 0 .. Len(t) /\ hi + 1 \in 0 .. Len(t)
    BY <1>2, <1>4
  <2>2. PICK h \in 0 .. Len(t) : h = hi + 1
    BY <2>1
  <2>3. k \in lo .. h - 1 /\ Apart(t, lo, h) /\ h - 1 = hi
    BY <1>2, <1>4, <2>2
  <2>4. ASSUME NEW q \in lo .. k - 1 PROVE AtMost(t[q + 1], t[k + 1])
    <3>1. q = lo /\ k = hi /\ lo < hi
      BY <1>1, <1>2
    <3>. QED BY <1>4, <3>1
  <2>5. ASSUME NEW q \in k + 1 .. h - 1 PROVE AtMost(t[k + 1], t[q + 1])
    <3>1. q = hi /\ k = lo /\ lo < hi
      BY <1>1, <1>2, <2>3
    <3>. QED BY <1>4, <3>1
  <2>. QED BY <1>4, <2>1, <2>3, <2>4, <2>5, AroundPlace
<1>6. PlacedAt(t, k)
  <2>1. k \in 0 .. Len(t) - 1
    BY <1>2, <1>4
  <2>. QED BY <1>4, <1>5, <2>1, FinalIsPlaced
<1>7. PortableInv'
  <2>1. lo \in 0 .. k /\ hi \in k .. Len(slice) - 1
    BY <1>2
  <2>2. PortableTypeOK'
    BY <1>1, <1>2, <1>3, <1>4, <2>1 DEF PortableTypeOK
  <2>3. PortableFenced'
    BY <1>1, <1>3, <1>4 DEF PortableFenced
  <2>. QED BY <1>1, <2>2, <2>3 DEF PortableInv, ScanBounds, ScannedSides
<1>. QED BY <1>1, <1>3, <1>4, <1>6, <1>7

\* partition's three comparisons and the parking of the pivot.
LEMMA ParkKeeps ==
    ASSUME PortableInv, Park, UNCHANGED <<k, depth>>
    PROVE  PortableInv' /\ SameElements(slice', slice) /\ at' = "scan"
<1>1. /\ at = "loop" /\ hi - lo >= 2 /\ UNCHANGED <<lo, hi, k>> /\ at' = "scan" /\ i' = lo /\ j' = hi - 1
      /\ slice' = Swap(Ordered(Ordered(Ordered(slice, lo, Mid), lo, hi), Mid, hi), Mid, hi - 1)
  BY DEF Park
<1>2. /\ slice \in Seq(Values) /\ Len(slice) \in Nat
      /\ lo \in Nat /\ hi \in Nat /\ k \in Nat /\ lo <= k /\ k <= hi /\ hi <= Len(slice) - 1
      /\ lo \in 0 .. Len(slice) /\ hi + 1 \in 0 .. Len(slice) /\ hi + 1 - 1 = hi
  BY <1>1, PortableWindow
<1>3. Mid \in lo + 1 .. hi - 1
  BY <1>1, <1>2 DEF Mid
<1>4. PICK m \in lo + 1 .. hi - 1 : m = Mid
  BY <1>3
<1>5. PICK h \in 0 .. Len(slice) : h = hi + 1
  BY <1>2
<1>6. PICK r : r = Ordered(slice, lo, m)
  OBVIOUS
<1>7. PICK s : s = Ordered(r, lo, hi)
  OBVIOUS
<1>8. PICK t : t = Ordered(s, m, hi)
  OBVIOUS
<1>9. PICK u : u = Swap(t, m, hi - 1)
  OBVIOUS
<1>10. slice' = u
  BY <1>1, <1>4, <1>6, <1>7, <1>8, <1>9, Zenon
<1>11. /\ lo \in lo .. h - 1 /\ m \in lo .. h - 1 /\ hi \in lo .. h - 1 /\ hi - 1 \in lo .. h - 1
       /\ lo \in 0 .. Len(slice) - 1 /\ m \in 0 .. Len(slice) - 1 /\ hi \in 0 .. Len(slice) - 1 /\ hi - 1 \in 0 .. Len(slice) - 1
       /\ lo # m /\ lo # hi /\ m # hi /\ lo # hi - 1 /\ hi # hi - 1 /\ hi - 1 + 1 = hi
  BY <1>1, <1>2, <1>4, <1>5
<1>12. Shuffles(slice, r, lo, h) /\ AtMost(r[lo + 1], r[m + 1])
  BY <1>2, <1>6, <1>11, OrderedShuffles
<1>13. r \in Seq(Values) /\ Len(r) = Len(slice)
  BY <1>12 DEF Shuffles, Rewrites
<1>14. /\ Shuffles(r, s, lo, h) /\ AtMost(s[lo + 1], s[hi + 1]) /\ AtMost(s[lo + 1], r[lo + 1])
       /\ s[m + 1] = r[m + 1]
  BY <1>2, <1>7, <1>11, <1>13, OrderedShuffles
<1>15. s \in Seq(Values) /\ Len(s) = Len(slice)
  BY <1>13, <1>14 DEF Shuffles, Rewrites
<1>16. /\ Shuffles(s, t, lo, h) /\ AtMost(t[m + 1], t[hi + 1])
       /\ t[lo + 1] = s[lo + 1]
       /\ t[m + 1] = s[m + 1] \/ t[m + 1] = s[hi + 1]
  BY <1>2, <1>8, <1>11, <1>15, OrderedShuffles, SMTT(120)
<1>17. t \in Seq(Values) /\ Len(t) = Len(slice)
  BY <1>15, <1>16 DEF Shuffles, Rewrites
<1>18. Shuffles(t, u, lo, h)
  BY <1>2, <1>9, <1>11, <1>17, SwapShuffles
<1>19. u[hi] = t[m + 1] /\ u[lo + 1] = t[lo + 1] /\ u[hi + 1] = t[hi + 1]
  <2>1. /\ u[hi - 1 + 1] = t[m + 1]
        /\ \A p \in 0 .. Len(t) - 1 : p # m /\ p # hi - 1 => u[p + 1] = t[p + 1]
    BY <1>9, <1>11, <1>17, SwapElements
  <2>. QED BY <1>11, <1>17, <2>1
<1>20. AtMost(t[lo + 1], t[m + 1])
  <2>1. lo + 1 \in 1 .. Len(slice) /\ m + 1 \in 1 .. Len(slice) /\ hi + 1 \in 1 .. Len(slice)
    BY <1>2, <1>11
  <2>2. s[lo + 1] \in Values /\ r[lo + 1] \in Values /\ r[m + 1] \in Values
    BY <1>13, <1>15, <2>1
  <2>3. AtMost(s[lo + 1], r[m + 1])
    BY <1>12, <1>14, <2>2, AtMostOrders
  <2>. QED BY <1>14, <1>16, <2>3
<1>21. Shuffles(slice, u, lo, hi + 1)
  <2>1. Shuffles(slice, s, lo, h)
    BY <1>2, <1>12, <1>14, ShufflesTwice
  <2>2. Shuffles(slice, t, lo, h)
    BY <1>2, <1>16, <2>1, ShufflesTwice
  <2>3. Shuffles(slice, u, lo, h)
    BY <1>2, <1>18, <2>2, ShufflesTwice
  <2>. QED BY <1>5, <2>3, Zenon
<1>22. u \in Seq(Values) /\ Len(u) = Len(slice) /\ SameElements(u, slice) /\ Apart(u, lo, hi + 1)
  BY <1>1, <1>21, ShuffledRange
<1>23. Pivot' = u[hi]
  BY <1>1, <1>10 DEF Pivot
<1>24. ScannedSides'
  <2>1. u[hi] \in Values
    <3>1. hi \in 1 .. Len(u)
      BY <1>1, <1>2, <1>22
    <3>. QED BY <1>22, <3>1
  <2>2. AtMost(u[hi], u[hi])
    BY <2>1, AtMostOrders
  <2>3. ASSUME NEW p \in lo .. lo PROVE AtMost(u[p + 1], u[hi])
    <3>1. p = lo
      BY <1>2
    <3>. QED BY <1>19, <1>20, <3>1
  <2>4. ASSUME NEW p \in hi - 1 .. hi PROVE AtMost(u[hi], u[p + 1])
    <3>1. p = hi \/ p = hi - 1
      BY <1>2
    <3>2. CASE p = hi
      BY <1>16, <1>19, <3>2
    <3>3. CASE p = hi - 1
      BY <1>11, <2>2, <3>3
    <3>. QED BY <3>1, <3>2, <3>3
  <2>. QED BY <1>1, <1>10, <1>23, <2>3, <2>4 DEF ScannedSides
<1>25. ScanBounds'
  BY <1>1, <1>2 DEF ScanBounds
<1>26. PortableTypeOK'
  <2>1. lo \in 0 .. k /\ hi \in k .. Len(slice) - 1
    BY <1>2
  <2>. QED BY <1>1, <1>2, <1>10, <1>11, <1>22, <2>1 DEF PortableTypeOK
<1>27. PortableFenced'
  BY <1>1, <1>10, <1>22 DEF PortableFenced
<1>. QED BY <1>1, <1>10, <1>22, <1>24, <1>25, <1>26, <1>27 DEF PortableInv

LEMMA PortableTurnKeeps ==
    ASSUME PortableInv, PortableTurn
    PROVE  /\ PortableInv' /\ k' = k /\ SameElements(slice', slice)
           /\ at' \in {"loop", "scan", "returned"}
           /\ at' = "returned" => PlacedAt(slice', k')
<1>1. UNCHANGED <<k, depth>> /\ (Settle \/ Park \/ Exchange \/ Descend)
  BY DEF PortableTurn
<1>2. CASE Settle
  BY <1>1, <1>2, SettleKeeps
<1>3. CASE Park
  BY <1>1, <1>3, ParkKeeps
<1>4. CASE Exchange
  BY <1>1, <1>4, ExchangeKeeps
<1>5. CASE Descend
  BY <1>1, <1>5, DescendKeeps
<1>. QED BY <1>1, <1>2, <1>3, <1>4, <1>5

-----------------------------------------------------------------------------
(* What is sorted is settled: two rearrangements in order agree.           *)

LEMMA NotAhead ==
    ASSUME NEW s \in Seq(Values), NEW t \in Seq(Values), InOrder(s), InOrder(t), SameElements(s, t),
           NEW p \in 1 .. Len(s), \A q \in 1 .. p - 1 : Same(s[q], t[q])
    PROVE  AtMost(t[p], s[p])
<1>1. Len(s) \in Nat /\ Len(t) = Len(s) /\ p \in Nat /\ p >= 1 /\ p <= Len(s)
  BY DEF SameElements
<1>2. \A q \in 1 .. Len(s) : s[q] \in Values /\ t[q] \in Values
  BY <1>1
<1>. SUFFICES ASSUME ~AtMost(t[p], s[p]) PROVE FALSE
  OBVIOUS
<1>3. PICK x \in Values : x = s[p]
  BY <1>2
<1>4. /\ IsFiniteSet(Spots(s, x)) /\ CountOf(s, x) = Cardinality(Spots(s, x))
      /\ IsFiniteSet(Spots(t, x)) /\ CountOf(t, x) = Cardinality(Spots(t, x))
      /\ Spots(t, x) \subseteq 1 .. Len(t)
  BY SpotsOf
<1>5. p \in Spots(s, x)
  <2>1. Same(s[p], x) /\ p \in DOMAIN s
    BY <1>1, <1>3, SameIsEquivalence
  <2>. QED BY <2>1 DEF Spots
<1>6. ASSUME NEW q \in Spots(t, x) PROVE q \in Spots(s, x) \ {p}
  <2>1. q \in 1 .. Len(s) /\ Same(t[q], x)
    BY <1>1, <1>4 DEF Spots
  <2>2. CASE q < p
    <3>1. q \in 1 .. p - 1
      BY <1>1, <2>1, <2>2
    <3>2. Same(s[q], x)
      BY <1>2, <2>1, <3>1, SameIsEquivalence
    <3>3. q \in DOMAIN s /\ q # p
      BY <1>1, <2>1, <2>2
    <3>. QED BY <3>2, <3>3 DEF Spots
  <2>3. CASE ~(q < p)
    <3>1. q = p \/ p < q
      BY <1>1, <2>1, <2>3
    <3>2. p \in 1 .. Len(t) /\ q \in 1 .. Len(t)
      BY <1>1, <2>1
    <3>3. AtMost(t[p], t[q])
      BY <1>2, <3>1, <3>2, AtMostOrders DEF InOrder
    <3>4. AtMost(t[q], x)
      BY <2>1 DEF Same
    <3>5. AtMost(t[p], s[p])
      BY <1>1, <1>2, <1>3, <2>1, <3>3, <3>4, AtMostOrders
    <3>. QED BY <3>5
  <2>. QED BY <2>2, <2>3
<1>7. CountOf(s, x) = CountOf(t, x)
  BY DEF SameElements
<1>8. Cardinality(Spots(s, x) \ {p}) = Cardinality(Spots(s, x)) - 1 /\ IsFiniteSet(Spots(s, x) \ {p})
      /\ Cardinality(Spots(s, x)) \in Nat
  BY <1>4, <1>5, WithoutOne
<1>9. Cardinality(Spots(t, x)) <= Cardinality(Spots(s, x) \ {p})
  <2>1. Spots(t, x) \subseteq Spots(s, x) \ {p}
    BY <1>6
  <2>. QED BY <1>8, <2>1, FS_Subset
<1>. QED BY <1>4, <1>7, <1>8, <1>9

LEMMA SortedAgree ==
    ASSUME NEW s \in Seq(Values), NEW t \in Seq(Values), InOrder(s), InOrder(t), SameElements(s, t)
    PROVE  Agrees(s, t)
<1>1. Len(s) \in Nat /\ Len(t) = Len(s) /\ DOMAIN s = 1 .. Len(s) /\ SameElements(t, s)
  BY SameElementsIs DEF SameElements
<1>. DEFINE Off == {p \in 1 .. Len(s) : ~Same(s[p], t[p])}
<1>2. CASE Off = {}
  BY <1>1, <1>2 DEF Agrees
<1>3. CASE Off # {}
  <2>1. Off \in SUBSET Nat
    BY <1>1
  <2>. HIDE DEF Off
  <2>2. PICK p \in Off : \A q \in Off : p <= q
    BY <1>3, <2>1, LeastNatural
  <2>3. p \in 1 .. Len(s) /\ p \in 1 .. Len(t) /\ ~Same(s[p], t[p])
    BY <1>1, <2>2 DEF Off
  <2>4. ASSUME NEW q \in 1 .. p - 1 PROVE Same(s[q], t[q]) /\ Same(t[q], s[q])
    <3>1. q \in 1 .. Len(s) /\ ~(p <= q)
      BY <1>1, <2>3
    <3>2. Same(s[q], t[q])
      BY <2>2, <3>1 DEF Off
    <3>. QED BY <3>2 DEF Same
  <2>5. AtMost(t[p], s[p])
    BY <2>3, <2>4, NotAhead
  <2>6. AtMost(s[p], t[p])
    BY <1>1, <2>3, <2>4, NotAhead
  <2>. QED BY <2>3, <2>5, <2>6 DEF Same
<1>. QED BY <1>2, <1>3

\* An element of a rearrangement is in what was rearranged: the least and the greatest of a
\* slice are at the ends of it when it is sorted.
LEMMA EndsOfSortedSlice ==
    ASSUME NEW s \in Seq(Values), s # <<>>
    PROVE  /\ Least(s) \in Values /\ Greatest(s) \in Values
           /\ Len(SortFallback(s)) = Len(s) /\ Len(s) \in Nat \ {0}
           /\ \A p \in 1 .. Len(s) : AtMost(Least(s), s[p]) /\ AtMost(s[p], Greatest(s))
           /\ \E p \in 1 .. Len(s) : Least(s) = s[p]
           /\ Same(SortFallback(s)[1], Least(s)) /\ Same(SortFallback(s)[Len(s)], Greatest(s))
<1>1. PICK t \in Seq(Values) : t = SortFallback(s)
  BY FallbackSorts
<1>2. SameElements(t, s) /\ SameElements(s, t) /\ InOrder(t)
  BY <1>1, FallbackSorts, SameElementsIs
<1>3. Len(s) \in Nat /\ Len(s) # 0 /\ Len(t) = Len(s) /\ DOMAIN s = 1 .. Len(s)
  BY <1>2 DEF SameElements
<1>4. 1 \in 1 .. Len(t) /\ Len(s) \in 1 .. Len(t) /\ Len(s) >= 1
  BY <1>3
<1>5. \A p \in 1 .. Len(s) : s[p] \in Values /\ t[p] \in Values
  BY <1>3
<1>6. Range(s) = {s[p] : p \in 1 .. Len(s)}
  BY <1>3 DEF Range
<1>7. ASSUME NEW p \in 1 .. Len(s) PROVE AtMost(t[1], s[p]) /\ AtMost(s[p], t[Len(s)])
  <2>1. PICK q \in 1 .. Len(t) : Same(t[q], s[p])
    BY <1>2, ElementFrom
  <2>2. (1 = q \/ 1 < q) /\ (q = Len(s) \/ q < Len(s))
    BY <1>3
  <2>3. AtMost(t[1], t[q]) /\ AtMost(t[q], t[Len(s)])
    BY <1>2, <1>3, <1>4, <1>5, <2>2, AtMostOrders DEF InOrder
  <2>4. AtMost(t[q], s[p]) /\ AtMost(s[p], t[q])
    BY <2>1 DEF Same
  <2>. QED BY <1>3, <1>4, <1>5, <2>3, <2>4, AtMostOrders
<1>8. PICK f \in 1 .. Len(s) : Same(s[f], t[1])
  BY <1>2, <1>4, ElementFrom
<1>9. PICK l \in 1 .. Len(s) : Same(s[l], t[Len(s)])
  BY <1>2, <1>4, ElementFrom
<1>10. ASSUME NEW p \in 1 .. Len(s) PROVE AtMost(s[f], s[p]) /\ AtMost(s[p], s[l])
  BY <1>3, <1>4, <1>5, <1>7, <1>8, <1>9, AtMostOrders DEF Same
<1>11. Least(s) \in Range(s) /\ \A y \in Range(s) : AtMost(Least(s), y)
  <2>1. \E x \in Range(s) : \A y \in Range(s) : AtMost(x, y)
    BY <1>6, <1>10
  <2>. QED BY <2>1 DEF Least
<1>12. Greatest(s) \in Range(s) /\ \A y \in Range(s) : AtMost(y, Greatest(s))
  <2>1. \E x \in Range(s) : \A y \in Range(s) : AtMost(y, x)
    BY <1>6, <1>10
  <2>. QED BY <2>1 DEF Greatest
<1>13. PICK m \in 1 .. Len(s) : Least(s) = s[m]
  BY <1>6, <1>11
<1>14. PICK g \in 1 .. Len(s) : Greatest(s) = s[g]
  BY <1>6, <1>12
<1>15. \A p \in 1 .. Len(s) : AtMost(Least(s), s[p]) /\ AtMost(s[p], Greatest(s))
  BY <1>6, <1>11, <1>12
<1>16. Same(t[1], Least(s))
  <2>1. AtMost(t[1], s[m]) /\ AtMost(s[m], s[f]) /\ AtMost(s[f], t[1])
    BY <1>7, <1>8, <1>13, <1>15 DEF Same
  <2>2. AtMost(s[m], t[1])
    BY <1>4, <1>5, <1>3, <2>1, AtMostOrders
  <2>. QED BY <1>13, <2>1, <2>2 DEF Same
<1>17. Same(t[Len(s)], Greatest(s))
  <2>1. AtMost(s[g], t[Len(s)]) /\ AtMost(s[l], s[g]) /\ AtMost(t[Len(s)], s[l])
    BY <1>7, <1>9, <1>14, <1>15 DEF Same
  <2>2. AtMost(t[Len(s)], s[g])
    BY <1>4, <1>5, <1>3, <2>1, AtMostOrders
  <2>. QED BY <1>14, <2>1, <2>2 DEF Same
<1>. QED BY <1>1, <1>3, <1>5, <1>13, <1>14, <1>15, <1>16, <1>17

-----------------------------------------------------------------------------
(* What is on the two sides of a selected element.                         *)

Cut(s, n) == \A p \in 1 .. n, q \in n + 1 .. Len(s) : AtMost(s[p], s[q])

LEMMA PlacedCuts ==
    ASSUME NEW s \in Seq(Values), NEW n \in 0 .. Len(s) - 1, PlacedAt(s, n)
    PROVE  Cut(s, n) /\ Cut(s, n + 1)
<1>1. Len(s) \in Nat /\ n \in Nat /\ n + 1 \in 1 .. Len(s) /\ n + 1 + 1 = n + 2
  OBVIOUS
<1>2. /\ \A p \in 1 .. n : AtMost(s[p], s[n + 1])
      /\ \A p \in n + 2 .. Len(s) : AtMost(s[n + 1], s[p])
  BY DEF PlacedAt
<1>3. \A p \in 1 .. Len(s) : s[p] \in Values
  OBVIOUS
<1>4. ASSUME NEW p \in 1 .. n + 1, NEW q \in n + 1 .. Len(s) PROVE AtMost(s[p], s[q])
  <2>1. p \in 1 .. Len(s) /\ q \in 1 .. Len(s) /\ (p = n + 1 \/ p \in 1 .. n) /\ (q = n + 1 \/ q \in n + 2 .. Len(s))
    BY <1>1
  <2>2. AtMost(s[p], s[n + 1])
    BY <1>1, <1>2, <1>3, <2>1, AtMostOrders
  <2>3. AtMost(s[n + 1], s[q])
    BY <1>1, <1>2, <1>3, <2>1, AtMostOrders
  <2>. QED BY <1>1, <1>3, <2>1, <2>2, <2>3, AtMostOrders
<1>. QED BY <1>1, <1>4 DEF Cut

LEMMA SidesOf ==
    ASSUME NEW s \in Seq(Values), NEW n \in 0 .. Len(s)
    PROVE  /\ SubSeq(s, 1, n) \in Seq(Values) /\ Len(SubSeq(s, 1, n)) = n
           /\ \A p \in 1 .. n : SubSeq(s, 1, n)[p] = s[p]
           /\ SubSeq(s, n + 1, Len(s)) \in Seq(Values) /\ Len(SubSeq(s, n + 1, Len(s))) = Len(s) - n
           /\ \A p \in 1 .. Len(s) - n : SubSeq(s, n + 1, Len(s))[p] = s[n + p]
<1>1. /\ Len(s) \in Nat /\ n \in Nat /\ n <= Len(s) /\ Len(s) \in 0 .. Len(s)
      /\ 0 \in Nat /\ 0 <= n /\ 0 + 1 = 1 /\ n - 0 = n
  OBVIOUS
<1>2. /\ SubSeq(s, 0 + 1, n) \in Seq(Values) /\ Len(SubSeq(s, 0 + 1, n)) = n - 0
      /\ \A p \in 1 .. n - 0 : SubSeq(s, 0 + 1, n)[p] = s[0 + p]
  BY <1>1, SliceOf
<1>3. \A p \in 1 .. n : 0 + p = p
  BY <1>1
<1>4. /\ SubSeq(s, n + 1, Len(s)) \in Seq(Values) /\ Len(SubSeq(s, n + 1, Len(s))) = Len(s) - n
      /\ \A p \in 1 .. Len(s) - n : SubSeq(s, n + 1, Len(s))[p] = s[n + p]
  BY <1>1, SliceOf
<1>. QED BY <1>1, <1>2, <1>3, <1>4

\* The two sides of a cut sorted each on its own are the whole slice sorted.
LEMMA HalvesSorted ==
    ASSUME NEW s \in Seq(Values), NEW n \in 0 .. Len(s), Cut(s, n),
           NEW e \in Seq(Values), SameElements(e, s)
    PROVE  /\ SortFallback(SubSeq(s, 1, n)) \in Seq(Values) /\ Len(SortFallback(SubSeq(s, 1, n))) = n
           /\ SortFallback(SubSeq(s, n + 1, Len(s))) \in Seq(Values)
           /\ Len(SortFallback(SubSeq(s, n + 1, Len(s)))) = Len(s) - n
           /\ \A p \in 1 .. n : Same(SortFallback(SubSeq(s, 1, n))[p], SortFallback(e)[p])
           /\ \A p \in 1 .. Len(s) - n :
                Same(SortFallback(SubSeq(s, n + 1, Len(s)))[p], SortFallback(e)[n + p])
           /\ SameElements(SortFallback(SubSeq(s, 1, n)) \o SubSeq(s, n + 1, Len(s)), s)
           /\ SameElements(SubSeq(s, 1, n) \o SortFallback(SubSeq(s, n + 1, Len(s))), s)
<1>1. Len(s) \in Nat /\ n \in Nat /\ n <= Len(s) /\ 0 <= n
  OBVIOUS
<1>2. PICK f \in Seq(Values) : f = SubSeq(s, 1, n)
  BY SidesOf
<1>3. PICK l \in Seq(Values) : l = SubSeq(s, n + 1, Len(s))
  BY SidesOf
<1>4. /\ Len(f) = n /\ \A p \in 1 .. n : f[p] = s[p]
      /\ Len(l) = Len(s) - n /\ \A p \in 1 .. Len(s) - n : l[p] = s[n + p]
  BY <1>2, <1>3, SidesOf
<1>5. s = f \o l
  <2>1. 1 \in 1 .. Len(s) + 1 /\ n \in 1 - 1 .. Len(s) /\ Len(s) \in n .. Len(s)
    BY <1>1
  <2>2. SubSeq(s, 1, n) \o SubSeq(s, n + 1, Len(s)) = SubSeq(s, 1, Len(s))
    BY <2>1, ConcatAdjacentSubSeq
  <2>. QED BY <1>2, <1>3, <2>2, SubSeqFull
<1>6. PICK u \in Seq(Values) : u = SortFallback(f)
  BY FallbackSorts
<1>7. PICK v \in Seq(Values) : v = SortFallback(l)
  BY FallbackSorts
<1>8. SameElements(u, f) /\ InOrder(u) /\ SameElements(v, l) /\ InOrder(v)
  BY <1>6, <1>7, FallbackSorts
<1>9. Len(u) = n /\ Len(v) = Len(s) - n
  BY <1>4, <1>8 DEF SameElements
<1>10. PICK w : w = u \o v
  OBVIOUS
<1>11. /\ w \in Seq(Values) /\ Len(w) = Len(u) + Len(v)
       /\ \A p \in 1 .. Len(u) + Len(v) : w[p] = IF p <= Len(u) THEN u[p] ELSE v[p - Len(u)]
  BY <1>10, ConcatProperties
<1>12. Len(w) = Len(s) /\ (\A p \in 1 .. n : w[p] = u[p]) /\ \A p \in n + 1 .. Len(s) : w[p] = v[p - n]
  <2>1. Len(w) = Len(s)
    BY <1>1, <1>9, <1>11
  <2>2. ASSUME NEW p \in 1 .. n PROVE w[p] = u[p]
    <3>1. p \in 1 .. Len(u) + Len(v) /\ p <= Len(u)
      BY <1>1, <1>9
    <3>. QED BY <1>11, <3>1
  <2>3. ASSUME NEW p \in n + 1 .. Len(s) PROVE w[p] = v[p - n]
    <3>1. p \in 1 .. Len(u) + Len(v) /\ ~(p <= Len(u))
      BY <1>1, <1>9
    <3>. QED BY <1>9, <1>11, <3>1
  <2>. QED BY <2>1, <2>2, <2>3
<1>13. /\ \A c \in Values : CountOf(u, c) = CountOf(f, c)
       /\ \A c \in Values : CountOf(v, c) = CountOf(l, c)
  BY <1>8 DEF SameElements
<1>14. \A c \in Values : CountOf(s, c) = CountOf(f, c) + CountOf(l, c)
  BY <1>5, CountOfConcat
<1>15. SameElements(w, s)
  <2>1. \A c \in Values : CountOf(w, c) = CountOf(u, c) + CountOf(v, c)
    BY <1>10, CountOfConcat
  <2>. QED BY <1>12, <1>13, <1>14, <2>1 DEF SameElements
<1>16. SameElements(u \o l, s)
  <2>1. \A c \in Values : CountOf(u \o l, c) = CountOf(u, c) + CountOf(l, c)
    BY CountOfConcat
  <2>2. Len(u \o l) = Len(s)
    <3>1. Len(u \o l) = Len(u) + Len(l)
      BY ConcatProperties
    <3>. QED BY <1>1, <1>4, <1>9, <3>1
  <2>. QED BY <1>13, <1>14, <2>1, <2>2 DEF SameElements
<1>17. SameElements(f \o v, s)
  <2>1. \A c \in Values : CountOf(f \o v, c) = CountOf(f, c) + CountOf(v, c)
    BY CountOfConcat
  <2>2. Len(f \o v) = Len(s)
    <3>1. Len(f \o v) = Len(f) + Len(v)
      BY ConcatProperties
    <3>. QED BY <1>1, <1>4, <1>9, <3>1
  <2>. QED BY <1>13, <1>14, <2>1, <2>2 DEF SameElements
<1>18. InOrder(w)
  <2>. SUFFICES ASSUME NEW p \in 1 .. Len(w), NEW q \in 1 .. Len(w), p < q
                PROVE  AtMost(w[p], w[q])
    BY DEF InOrder
  <2>1. CASE q <= n
    <3>1. p \in 1 .. n /\ q \in 1 .. n
      BY <1>1, <1>12, <2>1
    <3>. QED BY <1>8, <1>9, <1>12, <3>1 DEF InOrder
  <2>2. CASE n < p
    <3>1. p \in n + 1 .. Len(s) /\ q \in n + 1 .. Len(s) /\ p - n \in 1 .. Len(v) /\ q - n \in 1 .. Len(v) /\ p - n < q - n
      BY <1>1, <1>9, <1>12, <2>2
    <3>. QED BY <1>8, <1>12, <3>1 DEF InOrder
  <2>3. CASE p <= n /\ n < q
    <3>1. p \in 1 .. n /\ q \in n + 1 .. Len(s) /\ p \in 1 .. Len(u) /\ q - n \in 1 .. Len(v)
      BY <1>1, <1>9, <1>12, <2>3
    <3>2. PICK x \in 1 .. Len(f) : Same(f[x], u[p])
      BY <1>8, <3>1, ElementFrom
    <3>3. PICK y \in 1 .. Len(l) : Same(l[y], v[q - n])
      BY <1>8, <3>1, ElementFrom
    <3>4. x \in 1 .. n /\ n + y \in n + 1 .. Len(s) /\ y \in 1 .. Len(s) - n
      BY <1>1, <1>4, <3>2, <3>3
    <3>5. AtMost(f[x], l[y])
      BY <1>4, <3>4 DEF Cut
    <3>6. AtMost(u[p], f[x]) /\ AtMost(l[y], v[q - n])
      BY <3>2, <3>3 DEF Same
    <3>7. u[p] \in Values /\ f[x] \in Values /\ l[y] \in Values /\ v[q - n] \in Values
      BY <3>1, SMTT(120)
    <3>8. AtMost(u[p], v[q - n])
      BY <3>5, <3>6, <3>7, AtMostOrders
    <3>. QED BY <1>12, <3>1, <3>8
  <2>. QED BY <1>1, <1>12, <2>1, <2>2, <2>3
<1>19. Agrees(w, SortFallback(e))
  <2>1. SortFallback(e) \in Seq(Values) /\ SameElements(SortFallback(e), e) /\ InOrder(SortFallback(e))
    BY FallbackSorts
  <2>2. SameElements(w, SortFallback(e))
    BY <1>11, <1>15, <2>1, SameElementsIs
  <2>. QED BY <1>11, <1>18, <2>1, <2>2, SortedAgree
<1>20. \A p \in 1 .. Len(s) : Same(w[p], SortFallback(e)[p])
  <2>1. DOMAIN w = 1 .. Len(s)
    BY <1>11, <1>12
  <2>. QED BY <1>19, <2>1 DEF Agrees
<1>21. ASSUME NEW p \in 1 .. n PROVE Same(u[p], SortFallback(e)[p])
  <2>1. p \in 1 .. Len(s)
    BY <1>1
  <2>. QED BY <1>12, <1>20, <2>1
<1>22. ASSUME NEW p \in 1 .. Len(s) - n PROVE Same(v[p], SortFallback(e)[n + p])
  <2>1. n + p \in 1 .. Len(s) /\ n + p \in n + 1 .. Len(s) /\ n + p - n = p
    BY <1>1
  <2>. QED BY <1>12, <1>20, <2>1
<1>. QED BY <1>2, <1>3, <1>6, <1>7, <1>9, <1>16, <1>17, <1>21, <1>22

\* What a selection leaves, against the sorted slice: the selected element, and the nearest
\* to it on each side.
LEMMA PlacedAgrees ==
    ASSUME NEW s \in Seq(Values), NEW n \in 0 .. Len(s) - 1, PlacedAt(s, n),
           NEW e \in Seq(Values), SameElements(e, s)
    PROVE  /\ Same(s[n + 1], SortFallback(e)[n + 1])
           /\ n >= 1 => /\ SubSeq(s, 1, n) # <<>>
                        /\ Greatest(SubSeq(s, 1, n)) \in Values
                        /\ Same(Greatest(SubSeq(s, 1, n)), SortFallback(e)[n])
           /\ n + 1 < Len(s) => /\ SubSeq(s, n + 2, Len(s)) # <<>>
                                /\ Least(SubSeq(s, n + 2, Len(s))) \in Values
                                /\ Same(Least(SubSeq(s, n + 2, Len(s))), SortFallback(e)[n + 2])
<1>1. /\ Len(s) \in Nat /\ n \in Nat /\ n \in 0 .. Len(s) /\ n + 1 \in 0 .. Len(s) /\ n + 1 <= Len(s)
      /\ n + 1 + 1 = n + 2 /\ n <= Len(s) /\ Len(<<>>) = 0
  OBVIOUS
<1>2. Cut(s, n) /\ Cut(s, n + 1)
  BY PlacedCuts
<1>3. SortFallback(e) \in Seq(Values) /\ Len(SortFallback(e)) = Len(s)
  BY FallbackSorts DEF SameElements
<1>4. \A p \in 1 .. Len(s) : s[p] \in Values /\ SortFallback(e)[p] \in Values
  BY <1>3
<1>5. Same(s[n + 1], SortFallback(e)[n + 1])
  <2>1. PICK l \in Seq(Values) : l = SubSeq(s, n + 1, Len(s))
    BY <1>1, SidesOf
  <2>2. Len(l) = Len(s) - n /\ \A p \in 1 .. Len(s) - n : l[p] = s[n + p]
    BY <1>1, <2>1, SidesOf
  <2>3. l # <<>> /\ 1 \in 1 .. Len(s) - n /\ 1 \in 1 .. Len(l)
    BY <1>1, <2>2
  <2>4. Same(SortFallback(l)[1], SortFallback(e)[n + 1])
    BY <1>1, <1>2, <2>1, <2>3, HalvesSorted
  <2>5. Same(SortFallback(l)[1], Least(l)) /\ Least(l) \in Values
    BY <2>3, EndsOfSortedSlice
  <2>6. AtMost(Least(l), l[1]) /\ l[1] = s[n + 1]
    BY <2>2, <2>3, EndsOfSortedSlice
  <2>7. PICK m \in 1 .. Len(l) : Least(l) = l[m]
    BY <2>3, EndsOfSortedSlice
  <2>8. AtMost(s[n + 1], Least(l))
    <3>1. m = 1 \/ n + m \in n + 2 .. Len(s)
      BY <1>1, <2>2
    <3>2. m \in 1 .. Len(s) - n /\ n + 1 \in 1 .. Len(s)
      BY <1>1, <2>2
    <3>3. n + m \in n + 2 .. Len(s) => AtMost(s[n + 1], s[n + m])
      BY DEF PlacedAt
    <3>. QED BY <1>4, <2>2, <2>6, <2>7, <3>1, <3>2, <3>3, AtMostOrders
  <2>9. Same(s[n + 1], Least(l)) /\ Same(Least(l), SortFallback(l)[1])
    BY <2>5, <2>6, <2>8 DEF Same
  <2>10. SortFallback(l)[1] \in Values /\ n + 1 \in 1 .. Len(s)
    <3>1. SortFallback(l) \in Seq(Values) /\ Len(SortFallback(l)) = Len(l)
      BY <2>3, FallbackSorts, EndsOfSortedSlice
    <3>. QED BY <1>1, <2>3, <3>1
  <2>. QED BY <1>4, <2>4, <2>5, <2>9, <2>10, SameIsEquivalence
<1>6. ASSUME n >= 1
      PROVE  /\ SubSeq(s, 1, n) # <<>>
             /\ Greatest(SubSeq(s, 1, n)) \in Values
             /\ Same(Greatest(SubSeq(s, 1, n)), SortFallback(e)[n])
  <2>1. PICK f \in Seq(Values) : f = SubSeq(s, 1, n)
    BY <1>1, SidesOf
  <2>2. Len(f) = n
    BY <1>1, <2>1, SidesOf
  <2>3. f # <<>> /\ n \in 1 .. n /\ n \in 1 .. Len(s)
    BY <1>1, <1>6, <2>2
  <2>4. Same(SortFallback(f)[n], SortFallback(e)[n])
    BY <1>1, <1>2, <2>1, <2>3, HalvesSorted
  <2>5. Same(SortFallback(f)[n], Greatest(f)) /\ Greatest(f) \in Values
    BY <2>2, <2>3, EndsOfSortedSlice
  <2>6. SortFallback(f)[n] \in Values
    <3>1. SortFallback(f) \in Seq(Values) /\ Len(SortFallback(f)) = n
      BY <2>2, <2>3, FallbackSorts, EndsOfSortedSlice
    <3>. QED BY <2>3, <3>1
  <2>7. Same(Greatest(f), SortFallback(e)[n])
    BY <1>4, <2>3, <2>4, <2>5, <2>6, SameIsEquivalence
  <2>. QED BY <2>1, <2>3, <2>5, <2>7
<1>7. ASSUME n + 1 < Len(s)
      PROVE  /\ SubSeq(s, n + 2, Len(s)) # <<>>
             /\ Least(SubSeq(s, n + 2, Len(s))) \in Values
             /\ Same(Least(SubSeq(s, n + 2, Len(s))), SortFallback(e)[n + 2])
  <2>1. SubSeq(s, n + 2, Len(s)) \in Seq(Values) /\ Len(SubSeq(s, n + 2, Len(s))) = Len(s) - (n + 1)
    <3>1. PICK m \in 0 .. Len(s) : m = n + 1
      BY <1>1
    <3>2. SubSeq(s, m + 1, Len(s)) \in Seq(Values) /\ Len(SubSeq(s, m + 1, Len(s))) = Len(s) - m
      BY SidesOf
    <3>3. m + 1 = n + 2
      BY <1>1, <3>1
    <3>. QED BY <3>1, <3>2, <3>3
  <2>2. PICK l \in Seq(Values) : l = SubSeq(s, n + 2, Len(s))
    BY <2>1
  <2>3. Len(l) = Len(s) - (n + 1)
    BY <2>1, <2>2
  <2>4. l # <<>> /\ 1 \in 1 .. Len(s) - (n + 1) /\ n + 2 \in 1 .. Len(s) /\ 1 \in 1 .. Len(l)
    BY <1>1, <1>7, <2>3
  <2>5. Same(SortFallback(l)[1], SortFallback(e)[n + 2])
    <3>1. PICK m \in 0 .. Len(s) : m = n + 1
      BY <1>1
    <3>2. l = SubSeq(s, m + 1, Len(s)) /\ 1 \in 1 .. Len(s) - m /\ m + 1 = n + 2 /\ Cut(s, m)
      BY <1>1, <1>2, <2>2, <2>4, <3>1
    <3>3. Same(SortFallback(l)[1], SortFallback(e)[m + 1])
      BY <3>1, <3>2, HalvesSorted
    <3>. QED BY <3>2, <3>3
  <2>6. Same(SortFallback(l)[1], Least(l)) /\ Least(l) \in Values
    BY <2>4, EndsOfSortedSlice
  <2>7. SortFallback(l)[1] \in Values
    <3>1. SortFallback(l) \in Seq(Values) /\ Len(SortFallback(l)) = Len(l)
      BY <2>4, FallbackSorts, EndsOfSortedSlice
    <3>. QED BY <2>4, <3>1
  <2>8. Same(Least(l), SortFallback(e)[n + 2])
    BY <1>4, <2>4, <2>5, <2>6, <2>7, SameIsEquivalence
  <2>. QED BY <2>2, <2>4, <2>6, <2>8
<1>. QED BY <1>5, <1>6, <1>7

-----------------------------------------------------------------------------
(* The operations.                                                         *)

LEMMA CallFacts ==
    ASSUME OrderIndInv
    PROVE  /\ data \in Seq(Values) /\ passed \in Seq(Values) /\ SameElements(passed, data) /\ SameElements(data, passed)
           /\ Len(data) \in Nat \ {0} /\ Len(passed) = Len(data)
           /\ Expected \in Seq(Values) /\ Len(Expected) = Len(data) /\ SameElements(Expected, data)
           /\ InOrder(Expected)
           /\ call.op \in {"Median", "Quantile", "TopK", "BottomK"} /\ call.k \in Int /\ call.between \in BOOLEAN
           /\ call.op = "Median" => call.k = Len(data) \div 2 /\ call.between = (Len(data) % 2 = 0)
           /\ call.op = "Quantile" => call.k \in 0 .. Len(data) - 1
           /\ Length \in Int /\ Length <= Len(data)
<1>1. data \in Seq(Values) /\ passed \in Seq(Values) \ {<<>>} /\ SameElements(data, passed) /\ call \in Calls
  BY SlicesAssumption DEF OrderIndInv, OrderTypeOK
<1>2. Len(data) = Len(passed) /\ SameElements(passed, data)
  BY <1>1, SameElementsIs DEF SameElements
<1>3. Len(passed) \in Nat \ {0}
  BY <1>1, EmptySeq
<1>4. /\ Expected \in Seq(Values) /\ Len(Expected) = Len(data) /\ SameElements(Expected, data) /\ InOrder(Expected)
  <2>1. SortFallback(passed) \in Seq(Values) /\ SameElements(SortFallback(passed), passed) /\ InOrder(SortFallback(passed))
    BY <1>1, FallbackSorts
  <2>2. SameElements(SortFallback(passed), data)
    BY <1>1, <1>2, <2>1, SameElementsIs
  <2>. QED BY <2>1, <2>2 DEF Expected, SameElements
<1>5. /\ call.op \in {"Median", "Quantile", "TopK", "BottomK"} /\ call.k \in Int /\ call.between \in BOOLEAN
      /\ call.op = "Median" => call.k = Len(passed) \div 2 /\ call.between = (Len(passed) % 2 = 0)
      /\ call.op = "Quantile" => call.k \in 0 .. Len(passed) - 1
  <2>1. CASE call \in [op : {"Median"}, k : {Len(passed) \div 2}, between : {Len(passed) % 2 = 0}]
    <3>1. call.op = "Median" /\ call.k = Len(passed) \div 2 /\ call.between = (Len(passed) % 2 = 0)
      BY <2>1
    <3>2. Len(passed) \div 2 \in Int /\ (Len(passed) % 2 = 0) \in BOOLEAN
      BY <1>3
    <3>3. call.k \in Int /\ call.between \in BOOLEAN /\ call.op # "Quantile"
      BY <3>1, <3>2, Zenon
    <3>. QED BY <3>1, <3>3, Zenon
  <2>2. CASE call \in [op : {"Quantile"}, k : 0 .. Len(passed) - 1, between : BOOLEAN]
    <3>1. call.op = "Quantile" /\ call.k \in 0 .. Len(passed) - 1 /\ call.between \in BOOLEAN
      BY <2>2
    <3>. QED BY <1>3, <3>1
  <2>3. CASE call \in [op : {"TopK", "BottomK"}, k : -1 .. Len(passed) + 1, between : {FALSE}]
    <3>1. call.op \in {"TopK", "BottomK"} /\ call.k \in -1 .. Len(passed) + 1 /\ call.between = FALSE
      BY <2>3
    <3>2. -1 .. Len(passed) + 1 \subseteq Int /\ FALSE \in BOOLEAN
      BY <1>3
    <3>3. call.k \in Int /\ call.between \in BOOLEAN
      BY <3>1, <3>2, Zenon
    <3>4. call.op \in {"TopK", "BottomK"}
      BY <3>1
    <3>. QED BY <3>3, <3>4
  <2>. QED BY <1>1, <2>1, <2>2, <2>3 DEF Calls
<1>6. Length \in Int /\ Length <= Len(data)
  BY <1>2, <1>3, <1>5 DEF Length
<1>. QED BY <1>1, <1>2, <1>3, <1>4, <1>5, <1>6

LEMMA TargetOf ==
    ASSUME OrderIndInv, Selects
    PROVE  /\ Target \in 0 .. Len(data) - 1
           /\ call.op = "TopK" => Target = Len(data) - Length /\ Length \in 1 .. Len(data) - 1
           /\ call.op = "BottomK" => Target = Length - 1 /\ Length \in 1 .. Len(data) - 1
           /\ call.op \in {"Median", "Quantile"} => Target = call.k
           /\ call.op = "Median" => Len(data) >= 3 /\ call.k >= 1
<1>1. /\ Len(data) \in Nat \ {0}
      /\ call.op \in {"Median", "Quantile", "TopK", "BottomK"}
      /\ call.op = "Median" => call.k = Len(data) \div 2
      /\ call.op = "Quantile" => call.k \in 0 .. Len(data) - 1
      /\ Length \in Int
  BY CallFacts
<1>2. /\ call.op \in {"TopK", "BottomK"} => Length \in 1 .. Len(data) - 1
      /\ call.op = "Median" => Len(data) >= 3
  BY DEF Selects
<1>3. CASE call.op = "TopK"
  <2>1. Target = Len(data) - Length
    BY <1>3, Zenon DEF Target
  <2>. QED BY <1>1, <1>2, <1>3, <2>1
<1>4. CASE call.op = "BottomK"
  <2>1. Target = Length - 1
    <3>1. call.op # "TopK"
      BY <1>4
    <3>. QED BY <1>4, <3>1, Zenon DEF Target
  <2>. QED BY <1>1, <1>2, <1>4, <2>1
<1>5. CASE call.op = "Median" \/ call.op = "Quantile"
  <2>1. Target = call.k
    <3>1. call.op # "TopK" /\ call.op # "BottomK"
      BY <1>5
    <3>. QED BY <3>1, Zenon DEF Target
  <2>2. call.k \in 0 .. Len(data) - 1 /\ (call.op = "Median" => call.k >= 1)
    BY <1>1, <1>2, <1>5
  <2>. QED BY <1>1, <1>2, <1>5, <2>1, <2>2
<1>. QED BY <1>1, <1>3, <1>4, <1>5

LEMMA SameCall ==
    ASSUME call' = call, Len(data') = Len(data)
    PROVE  Length' = Length /\ Target' = Target /\ Selects' = Selects
<1>1. Length' = Length
  BY DEF Length
<1>2. Target' = Target
  BY <1>1 DEF Target
<1>3. Selects' = Selects
  BY <1>1 DEF Selects
<1>. QED BY <1>1, <1>2, <1>3

\* What StatisticsOfSorted and EndsOfSorted ask of a result.
Low == IF call.op = "Median" /\ call.between THEN call.k ELSE call.k + 1
High == IF call.between /\ Low < Len(passed) THEN Low + 1 ELSE Low
RightStatistic(r) ==
    \/ Agrees(r, SubSeq(Expected, Low, High))
    \/ Len(passed) = 2 /\ IsNaN(Expected[2]) /\ Agrees(r, <<Expected[2], Expected[2]>>)
RightEnds(r) ==
    /\ call.op = "TopK" /\ Length > 0 => Agrees(r, Reverse(SubSeq(Expected, Len(data) - Length + 1, Len(data))))
    /\ call.op = "BottomK" /\ Length > 0 => Agrees(r, SubSeq(Expected, 1, Length))

\* What a way to return does: it rearranges the slice and gets the result right.
Delivers(d, r) ==
    /\ d \in Seq(Values) /\ SameElements(d, data)
    /\ r \in Seq(Values)
    /\ call.op \in {"Median", "Quantile"} => RightStatistic(r)
    /\ RightEnds(r)

LEMMA OneAgrees ==
    ASSUME NEW e \in Seq(Values), NEW n \in 1 .. Len(e), NEW x, Same(x, e[n])
    PROVE  Agrees(<<x>>, SubSeq(e, n, n))
<1>1. Len(e) \in Nat /\ n \in Nat
  OBVIOUS
<1>2. Len(SubSeq(e, n, n)) = 1 /\ SubSeq(e, n, n)[1] = e[n]
  BY <1>1
<1>3. Len(<<x>>) = 1 /\ DOMAIN <<x>> = {1} /\ <<x>>[1] = x
  OBVIOUS
<1>. QED BY <1>2, <1>3 DEF Agrees

LEMMA TwoAgree ==
    ASSUME NEW e \in Seq(Values), NEW n \in 1 .. Len(e) - 1, NEW x, NEW y, Same(x, e[n]), Same(y, e[n + 1])
    PROVE  Agrees(<<x, y>>, SubSeq(e, n, n + 1))
<1>1. Len(e) \in Nat /\ n \in Nat /\ n + 1 <= Len(e)
  OBVIOUS
<1>2. Len(SubSeq(e, n, n + 1)) = 2 /\ SubSeq(e, n, n + 1)[1] = e[n] /\ SubSeq(e, n, n + 1)[2] = e[n + 1]
  BY <1>1
<1>3. Len(<<x, y>>) = 2 /\ DOMAIN <<x, y>> = {1, 2} /\ <<x, y>>[1] = x /\ <<x, y>>[2] = y
  OBVIOUS
<1>. QED BY <1>2, <1>3 DEF Agrees

LEMMA ReversedAgree ==
    ASSUME NEW s \in Seq(Values), NEW t \in Seq(Values), Agrees(s, t)
    PROVE  Reverse(s) \in Seq(Values) /\ Agrees(Reverse(s), Reverse(t))
<1>1. Len(s) \in Nat /\ Len(t) = Len(s) /\ DOMAIN s = 1 .. Len(s) /\ \A p \in 1 .. Len(s) : Same(s[p], t[p]) /\ s[p] \in Values
  BY DEF Agrees
<1>2. \A p \in 1 .. Len(s) : Len(s) - p + 1 \in 1 .. Len(s)
  BY <1>1
<1>3. Reverse(s) = [p \in 1 .. Len(s) |-> s[Len(s) - p + 1]] /\ Reverse(t) = [p \in 1 .. Len(s) |-> t[Len(s) - p + 1]]
  BY <1>1 DEF Reverse
<1>4. Reverse(s) \in Seq(Values)
  BY <1>1, <1>2, <1>3
<1>5. Len(Reverse(s)) = Len(s) /\ Len(Reverse(t)) = Len(s) /\ DOMAIN Reverse(s) = 1 .. Len(s)
  BY <1>1, <1>3
<1>6. \A p \in 1 .. Len(s) : Reverse(s)[p] = s[Len(s) - p + 1] /\ Reverse(t)[p] = t[Len(s) - p + 1]
  BY <1>3
<1>. QED BY <1>1, <1>2, <1>4, <1>5, <1>6 DEF Agrees

LEMMA StatisticDelivered ==
    ASSUME OrderIndInv, DeliverStatistic
    PROVE  Delivers(data', result')
<1>. DEFINE n == Len(data)
            x == call.k
<1>1. /\ data \in Seq(Values) /\ passed \in Seq(Values) /\ SameElements(passed, data)
      /\ n \in Nat \ {0} /\ Len(passed) = n
      /\ Expected \in Seq(Values) /\ Len(Expected) = n
      /\ call.op \in {"Median", "Quantile"} /\ call.between \in BOOLEAN
      /\ call.op # "TopK" /\ call.op # "BottomK"
  BY CallFacts DEF DeliverStatistic
<1>2. /\ data' = data /\ phase = "deliver"
      /\ result' = CASE ~call.between \/ (call.op = "Quantile" /\ x = n - 1) -> <<data[x + 1]>>
                   [] call.between /\ call.op = "Median" -> <<Greatest(First(x)), data[x + 1]>>
                   [] OTHER -> <<data[x + 1], Least(LastOnes(n - x - 1))>>
  BY DEF DeliverStatistic
<1>3. Selects /\ PlacedAt(data, Target)
  BY <1>2 DEF OrderIndInv
<1>4. x \in 0 .. n - 1 /\ PlacedAt(data, x) /\ (call.op = "Median" => x >= 1)
  BY <1>1, <1>3, TargetOf
<1>5. /\ Same(data[x + 1], Expected[x + 1])
      /\ x >= 1 => /\ Greatest(SubSeq(data, 1, x)) \in Values
                   /\ Same(Greatest(SubSeq(data, 1, x)), Expected[x])
      /\ x + 1 < n => /\ Least(SubSeq(data, x + 2, n)) \in Values
                      /\ Same(Least(SubSeq(data, x + 2, n)), Expected[x + 2])
  BY <1>1, <1>4, PlacedAgrees DEF Expected
<1>6. data[x + 1] \in Values /\ x + 1 \in 1 .. Len(Expected)
  <2>1. x + 1 \in 1 .. n
    BY <1>1, <1>4
  <2>. QED BY <1>1, <2>1
<1>7. RightEnds(result') /\ SameElements(data', data) /\ data' \in Seq(Values)
  BY <1>1, <1>2, SameElementsIs DEF RightEnds
<1>8. CASE ~call.between \/ (call.op = "Quantile" /\ x = n - 1)
  <2>1. result' = <<data[x + 1]>>
    BY <1>2, <1>8, Zenon
  <2>2. result' \in Seq(Values)
    BY <1>6, <2>1
  <2>3. Low = x + 1 /\ High = x + 1
    <3>1. call.between => x + 1 = Len(passed)
      BY <1>1, <1>8
    <3>2. call.between => call.op # "Median"
      BY <1>8
    <3>3. Low = x + 1
      BY <3>2 DEF Low
    <3>. QED BY <1>1, <3>1, <3>3 DEF High
  <2>4. Agrees(result', SubSeq(Expected, Low, High))
    <3>1. Agrees(<<data[x + 1]>>, SubSeq(Expected, x + 1, x + 1))
      BY <1>1, <1>5, <1>6, OneAgrees
    <3>. QED BY <2>1, <2>3, <3>1
  <2>. QED BY <1>7, <2>2, <2>4 DEF Delivers, RightStatistic
<1>9. CASE call.between /\ call.op = "Median"
  <2>1. result' = <<Greatest(First(x)), data[x + 1]>>
    BY <1>2, <1>9, Zenon
  <2>2. First(x) = SubSeq(data, 1, x)
    BY DEF First
  <2>3. Greatest(First(x)) \in Values /\ Same(Greatest(First(x)), Expected[x])
    BY <1>4, <1>5, <1>9, <2>2
  <2>4. result' \in Seq(Values)
    BY <1>6, <2>1, <2>3
  <2>5. Low = x /\ High = x + 1
    <3>1. Low = x
      BY <1>9 DEF Low
    <3>2. x < Len(passed)
      BY <1>1, <1>4
    <3>. QED BY <1>9, <3>1, <3>2 DEF High
  <2>6. Agrees(result', SubSeq(Expected, Low, High))
    <3>1. x \in 1 .. Len(Expected) - 1
      BY <1>1, <1>4, <1>9
    <3>2. Agrees(<<Greatest(First(x)), data[x + 1]>>, SubSeq(Expected, x, x + 1))
      BY <1>1, <1>5, <2>3, <3>1, TwoAgree
    <3>. QED BY <2>1, <2>5, <3>2
  <2>. QED BY <1>7, <2>4, <2>6 DEF Delivers, RightStatistic
<1>10. CASE call.between /\ call.op = "Quantile" /\ x # n - 1
  <2>1. result' = <<data[x + 1], Least(LastOnes(n - x - 1))>>
    <3>1. ~(~call.between \/ (call.op = "Quantile" /\ x = n - 1)) /\ ~(call.between /\ call.op = "Median")
      BY <1>10
    <3>. QED BY <1>2, <3>1, Zenon
  <2>2. LastOnes(n - x - 1) = SubSeq(data, x + 2, n)
    <3>1. n - (n - x - 1) + 1 = x + 2
      BY <1>1, <1>4
    <3>. QED BY <3>1 DEF LastOnes
  <2>3. x + 1 < n
    BY <1>1, <1>4, <1>10
  <2>4. Least(LastOnes(n - x - 1)) \in Values /\ Same(Least(LastOnes(n - x - 1)), Expected[x + 2])
    BY <1>5, <2>2, <2>3
  <2>5. result' \in Seq(Values)
    BY <1>6, <2>1, <2>4
  <2>6. Low = x + 1 /\ High = x + 2
    <3>1. Low = x + 1
      BY <1>10 DEF Low
    <3>2. High = x + 1 + 1
      BY <1>1, <1>10, <2>3, <3>1 DEF High
    <3>. QED BY <1>1, <1>4, <3>1, <3>2
  <2>7. Agrees(result', SubSeq(Expected, Low, High))
    <3>1. PICK m \in 1 .. Len(Expected) - 1 : m = x + 1
      BY <1>1, <1>4, <2>3
    <3>2. m + 1 = x + 2
      BY <1>1, <1>4, <3>1
    <3>3. Agrees(<<data[x + 1], Least(LastOnes(n - x - 1))>>, SubSeq(Expected, m, m + 1))
      BY <1>1, <1>5, <2>4, <3>1, <3>2, TwoAgree
    <3>. QED BY <2>1, <2>6, <3>1, <3>2, <3>3, Zenon
  <2>. QED BY <1>7, <2>5, <2>7 DEF Delivers, RightStatistic
<1>. QED BY <1>1, <1>8, <1>9, <1>10

LEMMA TopKDelivered ==
    ASSUME OrderIndInv, DeliverTopK
    PROVE  Delivers(data', result')
<1>. DEFINE n == Len(data)
<1>1. /\ data \in Seq(Values) /\ passed \in Seq(Values) /\ SameElements(passed, data)
      /\ n \in Nat \ {0}
      /\ Expected \in Seq(Values) /\ Len(Expected) = n
  BY CallFacts
<1>2. PICK w \in {LastOnes(Length)} : /\ data' = First(n - Length) \o SortFallback(w)
                                      /\ result' = Reverse(SortFallback(w))
  BY DEF DeliverTopK
<1>3. phase = "deliver" /\ call.op = "TopK"
  BY DEF DeliverTopK
<1>4. Selects /\ PlacedAt(data, Target)
  BY <1>3 DEF OrderIndInv
<1>5. Target \in 0 .. n - 1 /\ Target = n - Length /\ Length \in 1 .. n - 1
  BY <1>3, <1>4, TargetOf
<1>6. PICK m \in 0 .. n - 1 : m = n - Length
  BY <1>5
<1>7. Length = n - m /\ Length \in Nat /\ m \in 0 .. n /\ m + 1 = n - Length + 1 /\ m \in Nat
  BY <1>1, <1>5, <1>6
<1>8. Cut(data, m)
  BY <1>1, <1>4, <1>5, <1>6, PlacedCuts
<1>9. w = SubSeq(data, m + 1, n) /\ First(n - Length) = SubSeq(data, 1, m)
  BY <1>6, <1>7 DEF LastOnes, First
<1>10. PICK v : v = SortFallback(w)
  OBVIOUS
<1>11. /\ v \in Seq(Values) /\ Len(v) = n - m
       /\ \A p \in 1 .. n - m : Same(v[p], Expected[m + p])
       /\ SameElements(SubSeq(data, 1, m) \o v, data)
  BY <1>1, <1>7, <1>8, <1>9, <1>10, HalvesSorted DEF Expected
<1>12. SubSeq(data, 1, m) \in Seq(Values)
  BY <1>1, <1>7, SidesOf
<1>13. data' \in Seq(Values) /\ SameElements(data', data)
  <2>1. data' = SubSeq(data, 1, m) \o v
    BY <1>2, <1>9, <1>10
  <2>2. SubSeq(data, 1, m) \o v \in Seq(Values)
    BY <1>11, <1>12, ConcatProperties
  <2>. QED BY <1>11, <2>1, <2>2
<1>14. Agrees(v, SubSeq(Expected, m + 1, n))
  <2>1. /\ Len(SubSeq(Expected, m + 1, n)) = n - m
        /\ \A p \in 1 .. n - m : SubSeq(Expected, m + 1, n)[p] = Expected[m + p]
    BY <1>1, <1>7, SidesOf
  <2>2. DOMAIN v = 1 .. n - m
    BY <1>1, <1>7, <1>11
  <2>. QED BY <1>11, <2>1, <2>2 DEF Agrees
<1>15. SubSeq(Expected, m + 1, n) \in Seq(Values)
  BY <1>1, <1>7, SidesOf
<1>16. Reverse(v) \in Seq(Values) /\ Agrees(Reverse(v), Reverse(SubSeq(Expected, m + 1, n)))
  BY <1>11, <1>14, <1>15, ReversedAgree
<1>17. RightEnds(result')
  <2>1. Agrees(result', Reverse(SubSeq(Expected, n - Length + 1, n)))
    BY <1>2, <1>7, <1>10, <1>16
  <2>2. call.op # "BottomK"
    BY <1>3
  <2>. QED BY <2>1, <2>2 DEF RightEnds
<1>18. call.op \notin {"Median", "Quantile"}
  BY <1>3
<1>. QED BY <1>2, <1>10, <1>13, <1>16, <1>17, <1>18 DEF Delivers

LEMMA BottomKDelivered ==
    ASSUME OrderIndInv, DeliverBottomK
    PROVE  Delivers(data', result')
<1>. DEFINE n == Len(data)
<1>1. /\ data \in Seq(Values) /\ passed \in Seq(Values) /\ SameElements(passed, data)
      /\ n \in Nat \ {0}
      /\ Expected \in Seq(Values) /\ Len(Expected) = n
  BY CallFacts
<1>2. result' = SortFallback(First(Length)) /\ data' = result' \o LastOnes(n - Length)
  BY DEF DeliverBottomK
<1>3. phase = "deliver" /\ call.op = "BottomK"
  BY DEF DeliverBottomK
<1>4. Selects /\ PlacedAt(data, Target)
  BY <1>3 DEF OrderIndInv
<1>5. Target \in 0 .. n - 1 /\ Target = Length - 1 /\ Length \in 1 .. n - 1
  BY <1>3, <1>4, TargetOf
<1>6. PICK m \in 1 .. n - 1 : m = Length
  BY <1>5
<1>7. m \in 0 .. n /\ m \in Nat /\ n - (n - m) + 1 = m + 1 /\ m - 1 \in 0 .. n - 1 /\ m - 1 + 1 = m
  BY <1>1, <1>6
<1>8. Cut(data, m)
  <2>1. PlacedAt(data, m - 1)
    BY <1>4, <1>5, <1>6
  <2>2. Cut(data, m - 1 + 1)
    BY <1>1, <1>7, <2>1, PlacedCuts
  <2>. QED BY <1>7, <2>2
<1>9. First(Length) = SubSeq(data, 1, m) /\ LastOnes(n - Length) = SubSeq(data, m + 1, n)
  BY <1>6, <1>7 DEF LastOnes, First
<1>10. PICK u : u = SortFallback(SubSeq(data, 1, m))
  OBVIOUS
<1>11. /\ u \in Seq(Values) /\ Len(u) = m
       /\ \A p \in 1 .. m : Same(u[p], Expected[p])
       /\ SameElements(u \o SubSeq(data, m + 1, n), data)
  BY <1>1, <1>7, <1>8, <1>10, HalvesSorted DEF Expected
<1>12. SubSeq(data, m + 1, n) \in Seq(Values)
  BY <1>1, <1>7, SidesOf
<1>13. result' = u /\ data' = u \o SubSeq(data, m + 1, n)
  BY <1>2, <1>9, <1>10
<1>14. data' \in Seq(Values) /\ SameElements(data', data)
  <2>1. u \o SubSeq(data, m + 1, n) \in Seq(Values)
    BY <1>11, <1>12, ConcatProperties
  <2>. QED BY <1>11, <1>13, <2>1
<1>15. Agrees(u, SubSeq(Expected, 1, m))
  <2>1. /\ Len(SubSeq(Expected, 1, m)) = m
        /\ \A p \in 1 .. m : SubSeq(Expected, 1, m)[p] = Expected[p]
    BY <1>1, <1>7, SidesOf
  <2>2. DOMAIN u = 1 .. m
    BY <1>7, <1>11
  <2>. QED BY <1>11, <2>1, <2>2 DEF Agrees
<1>16. RightEnds(result')
  <2>1. call.op # "TopK"
    BY <1>3
  <2>. QED BY <1>6, <1>13, <1>15, <2>1 DEF RightEnds
<1>17. call.op \notin {"Median", "Quantile"}
  BY <1>3
<1>. QED BY <1>11, <1>13, <1>14, <1>16, <1>17 DEF Delivers

LEMMA AllSorted ==
    ASSUME OrderIndInv, SortAll
    PROVE  Delivers(data', result')
<1>. DEFINE n == Len(data)
<1>1. /\ data \in Seq(Values) /\ passed \in Seq(Values) /\ SameElements(data, passed)
      /\ n \in Nat \ {0} /\ SameElements(Expected, data)
      /\ Expected \in Seq(Values) /\ Len(Expected) = n /\ InOrder(Expected)
      /\ Length \in Int /\ Length <= n
  BY CallFacts
<1>2. /\ call.op \in {"TopK", "BottomK"} /\ Length > 0 /\ data' = SortFallback(data)
      /\ result' = IF call.op = "TopK" THEN Reverse(SubSeq(data', n - Length + 1, n)) ELSE SubSeq(data', 1, Length)
  BY DEF SortAll
<1>3. PICK d : d = SortFallback(data)
  OBVIOUS
<1>4. d \in Seq(Values) /\ SameElements(d, data) /\ InOrder(d)
  BY <1>1, <1>3, FallbackSorts
<1>5. Agrees(d, Expected)
  <2>1. SameElements(d, Expected)
    BY <1>1, <1>4, SameElementsIs
  <2>. QED BY <1>1, <1>4, <2>1, SortedAgree
<1>6. Len(d) = n /\ DOMAIN d = 1 .. n /\ \A p \in 1 .. n : Same(d[p], Expected[p])
  <2>1. Len(d) = n
    BY <1>1, <1>5 DEF Agrees
  <2>2. DOMAIN d = 1 .. n
    BY <1>1, <1>4, <2>1
  <2>. QED BY <1>5, <2>1, <2>2 DEF Agrees
<1>7. d = data'
  BY <1>2, <1>3
<1>8. call.op \notin {"Median", "Quantile"}
  BY <1>2
<1>9. CASE call.op = "TopK"
  <2>1. PICK m \in 0 .. n : m = n - Length
    <3>1. PICK l \in Int : l = Length
      BY <1>1
    <3>2. n - l \in 0 .. n
      BY <1>1, <1>2, <3>1
    <3>. QED BY <3>1, <3>2
  <2>2. m \in Nat /\ m + 1 = n - Length + 1
    BY <1>1, <2>1
  <2>3. /\ SubSeq(d, m + 1, n) \in Seq(Values) /\ Len(SubSeq(d, m + 1, n)) = n - m
        /\ \A p \in 1 .. n - m : SubSeq(d, m + 1, n)[p] = d[m + p]
    <3>1. m \in 0 .. Len(d) /\ Len(d) = n
      BY <1>6
    <3>2. /\ SubSeq(d, m + 1, Len(d)) \in Seq(Values) /\ Len(SubSeq(d, m + 1, Len(d))) = Len(d) - m
          /\ \A p \in 1 .. Len(d) - m : SubSeq(d, m + 1, Len(d))[p] = d[m + p]
      BY <1>4, <3>1, SidesOf
    <3>. QED BY <3>1, <3>2
  <2>4. /\ SubSeq(Expected, m + 1, n) \in Seq(Values) /\ Len(SubSeq(Expected, m + 1, n)) = n - m
        /\ \A p \in 1 .. n - m : SubSeq(Expected, m + 1, n)[p] = Expected[m + p]
    BY <1>1, <2>1, SidesOf
  <2>5. \A p \in 1 .. n - m : m + p \in 1 .. n
    BY <1>1, <2>2
  <2>6. DOMAIN SubSeq(d, m + 1, n) = 1 .. n - m
    BY <1>1, <2>2, <2>3
  <2>7. Agrees(SubSeq(d, m + 1, n), SubSeq(Expected, m + 1, n))
    BY <1>6, <2>3, <2>4, <2>5, <2>6 DEF Agrees
  <2>8. result' = Reverse(SubSeq(d, m + 1, n))
    BY <1>2, <1>7, <1>9, <2>2
  <2>9. result' \in Seq(Values) /\ Agrees(result', Reverse(SubSeq(Expected, m + 1, n)))
    BY <2>3, <2>4, <2>7, <2>8, ReversedAgree
  <2>10. RightEnds(result')
    <3>1. call.op # "BottomK"
      BY <1>9
    <3>. QED BY <2>2, <2>9, <3>1 DEF RightEnds
  <2>. QED BY <1>4, <1>7, <1>8, <2>9, <2>10 DEF Delivers
<1>10. CASE call.op = "BottomK"
  <2>1. PICK m \in 0 .. n : m = Length
    BY <1>1, <1>2
  <2>2. /\ SubSeq(d, 1, m) \in Seq(Values) /\ Len(SubSeq(d, 1, m)) = m
        /\ \A p \in 1 .. m : SubSeq(d, 1, m)[p] = d[p]
    BY <1>4, <1>6, <2>1, SidesOf
  <2>3. /\ Len(SubSeq(Expected, 1, m)) = m
        /\ \A p \in 1 .. m : SubSeq(Expected, 1, m)[p] = Expected[p]
    BY <1>1, <2>1, SidesOf
  <2>4. \A p \in 1 .. m : p \in 1 .. n
    BY <1>1, <2>1
  <2>5. DOMAIN SubSeq(d, 1, m) = 1 .. m
    BY <1>1, <2>1, <2>2
  <2>6. Agrees(SubSeq(d, 1, m), SubSeq(Expected, 1, m))
    BY <1>6, <2>2, <2>3, <2>4, <2>5 DEF Agrees
  <2>7. call.op # "TopK"
    BY <1>10
  <2>8. result' = SubSeq(d, 1, m)
    BY <1>2, <1>7, <2>1, <2>7
  <2>9. RightEnds(result')
    BY <2>1, <2>6, <2>7, <2>8 DEF RightEnds
  <2>. QED BY <1>4, <1>7, <1>8, <2>2, <2>8, <2>9 DEF Delivers
<1>. QED BY <1>2, <1>9, <1>10

\* Without a NaN the standard library's order and the package's are the same.
LEMMA NoNaNsSorted ==
    ASSUME NEW s \in Seq(Values), \A p \in 1 .. Len(s) : ~IsNaN(s[p])
    PROVE  InOrder(SlicesSort(s))
<1>. DEFINE t == SlicesSort(s)
<1>1. t \in Seq(Values) /\ SameElements(t, s) /\ \A p, q \in 1 .. Len(s) : p < q => ~LessNaNFirst(t[q], t[p])
  BY SlicesSortSorts
<1>. HIDE DEF t
<1>2. Len(t) = Len(s)
  BY <1>1 DEF SameElements
<1>3. ASSUME NEW p \in 1 .. Len(t) PROVE ~IsNaN(t[p]) /\ t[p] \in Values
  <2>1. t[p] \in Values
    BY <1>1
  <2>2. PICK q \in 1 .. Len(s) : Same(s[q], t[p])
    BY <1>1, ElementFrom
  <2>3. s[q] \in Values /\ ~IsNaN(s[q])
    OBVIOUS
  <2>4. AtMost(t[p], s[q])
    BY <2>2 DEF Same
  <2>5. ~IsNaN(t[p])
    BY <2>3, <2>4 DEF AtMost, LessNaNLast
  <2>. QED BY <2>1, <2>5
<1>4. ASSUME NEW p \in 1 .. Len(t), NEW q \in 1 .. Len(t), p < q PROVE AtMost(t[p], t[q])
  <2>1. ~LessNaNFirst(t[q], t[p])
    BY <1>1, <1>2, <1>4
  <2>. QED BY <1>3, <2>1 DEF AtMost, LessNaNLast, LessNaNFirst
<1>. QED BY <1>4 DEF InOrder, t

LEMMA ShortDelivered ==
    ASSUME OrderIndInv, MedianShort
    PROVE  Delivers(data', result')
<1>. DEFINE n == Len(data)
<1>1. /\ data \in Seq(Values) /\ passed \in Seq(Values) /\ SameElements(passed, data) /\ SameElements(data, passed)
      /\ n \in Nat \ {0} /\ Len(passed) = n /\ SameElements(Expected, data)
      /\ Expected \in Seq(Values) /\ Len(Expected) = n /\ InOrder(Expected)
      /\ call.op = "Median" => call.k = n \div 2 /\ call.between = (n % 2 = 0)
  BY CallFacts
<1>2. /\ call.op = "Median" /\ n < 3 /\ data' = data
      /\ result' = CASE n = 1 -> data
                   [] n = 2 /\ (\E x \in Range(data) : IsNaN(x)) ->
                        (LET nan == CHOOSE x \in Range(data) : IsNaN(x) IN <<nan, nan>>)
                   [] OTHER -> SlicesSort(data)
  BY DEF MedianShort
<1>3. RightEnds(result') /\ SameElements(data', data) /\ data' \in Seq(Values)
  <2>1. call.op # "TopK" /\ call.op # "BottomK"
    BY <1>2
  <2>. QED BY <1>1, <1>2, <2>1, SameElementsIs DEF RightEnds
<1>4. SubSeq(Expected, 1, n) = Expected /\ SameElements(data, Expected)
  BY <1>1, SubSeqFull, SameElementsIs
<1>5. Low = 1 /\ High = n
  <2>1. CASE n = 1
    <3>1. call.k = 0 /\ ~call.between
      <4>1. 1 \div 2 = 0 /\ 1 % 2 # 0
        OBVIOUS
      <4>. QED BY <1>1, <1>2, <2>1, <4>1, Zenon
    <3>2. Low = 1
      BY <3>1 DEF Low
    <3>. QED BY <2>1, <3>1, <3>2 DEF High
  <2>2. CASE n = 2
    <3>1. call.k = 1 /\ call.between
      <4>1. 2 \div 2 = 1 /\ 2 % 2 = 0
        OBVIOUS
      <4>. QED BY <1>1, <1>2, <2>2, <4>1, Zenon
    <3>2. Low = 1
      BY <1>2, <3>1 DEF Low
    <3>. QED BY <1>1, <2>2, <3>1, <3>2 DEF High
  <2>. QED BY <1>1, <1>2, <2>1, <2>2
<1>6. ASSUME NEW r \in Seq(Values), InOrder(r), SameElements(r, data) PROVE RightStatistic(r)
  <2>1. SameElements(r, Expected)
    BY <1>1, <1>4, <1>6, SameElementsIs
  <2>2. Agrees(r, Expected)
    BY <1>1, <1>6, <2>1, SortedAgree
  <2>. QED BY <1>4, <1>5, <2>2 DEF RightStatistic
<1>7. CASE n = 1
  <2>1. result' = data
    <3>1. n # 2
      BY <1>7
    <3>. QED BY <1>2, <1>7, <3>1, Zenon
  <2>2. InOrder(data)
    <3>1. \A p, q \in 1 .. Len(data) : ~(p < q)
      BY <1>7
    <3>. QED BY <3>1 DEF InOrder
  <2>3. RightStatistic(data)
    BY <1>1, <1>6, <2>2, SameElementsIs
  <2>. QED BY <1>1, <1>3, <2>1, <2>3 DEF Delivers
<1>8. CASE n = 2 /\ \E x \in Range(data) : IsNaN(x)
  <2>. DEFINE nan == CHOOSE x \in Range(data) : IsNaN(x)
  <2>1. result' = <<nan, nan>>
    <3>1. n # 1
      BY <1>8
    <3>. QED BY <1>2, <1>8, <3>1, Zenon
  <2>2. nan \in Range(data) /\ IsNaN(nan)
    BY <1>8
  <2>. HIDE DEF nan
  <2>3. PICK p \in 1 .. n : data[p] = nan
    <3>1. DOMAIN data = 1 .. n
      BY <1>1
    <3>. QED BY <2>2, <3>1 DEF Range
  <2>4. nan \in Values
    BY <1>1, <2>3
  <2>5. PICK q \in 1 .. Len(Expected) : Same(Expected[q], data[p])
    BY <1>1, <1>4, <2>3, ElementFrom
  <2>6. Expected[1] \in Values /\ Expected[2] \in Values /\ AtMost(Expected[1], Expected[2]) /\ (q = 1 \/ q = 2)
    <3>1. 1 \in 1 .. Len(Expected) /\ 2 \in 1 .. Len(Expected) /\ 1 < 2 /\ (q = 1 \/ q = 2)
      BY <1>1, <1>8
    <3>. QED BY <1>1, <3>1 DEF InOrder
  <2>7. AtMost(nan, Expected[2])
    <3>1. AtMost(nan, Expected[q])
      BY <2>3, <2>5 DEF Same
    <3>. QED BY <2>4, <2>6, <3>1, AtMostOrders
  <2>8. IsNaN(Expected[2])
    BY <2>2, <2>7 DEF AtMost, LessNaNLast
  <2>9. Same(nan, Expected[2])
    BY <2>2, <2>7, <2>8 DEF Same, AtMost, LessNaNLast, Lt
  <2>10. Agrees(<<nan, nan>>, <<Expected[2], Expected[2]>>)
    BY <2>9 DEF Agrees
  <2>11. RightStatistic(result')
    BY <1>1, <1>8, <2>1, <2>8, <2>10 DEF RightStatistic
  <2>12. result' \in Seq(Values)
    BY <2>1, <2>4
  <2>. QED BY <1>3, <2>11, <2>12 DEF Delivers
<1>9. CASE n = 2 /\ ~\E x \in Range(data) : IsNaN(x)
  <2>1. result' = SlicesSort(data)
    <3>1. n # 1 /\ ~(n = 2 /\ \E x \in Range(data) : IsNaN(x))
      BY <1>9
    <3>. QED BY <1>2, <3>1, Zenon
  <2>2. \A p \in 1 .. Len(data) : ~IsNaN(data[p])
    <3>1. DOMAIN data = 1 .. n
      BY <1>1
    <3>. QED BY <1>9, <3>1 DEF Range
  <2>3. InOrder(SlicesSort(data))
    BY <1>1, <2>2, NoNaNsSorted
  <2>4. SlicesSort(data) \in Seq(Values) /\ SameElements(SlicesSort(data), data)
    BY <1>1, SlicesSortSorts
  <2>5. RightStatistic(SlicesSort(data))
    BY <1>6, <2>3, <2>4
  <2>. QED BY <1>3, <2>1, <2>4, <2>5 DEF Delivers
<1>10. n = 1 \/ n = 2
  BY <1>1, <1>2
<1>. QED BY <1>7, <1>8, <1>9, <1>10

LEMMA ReturnsDeliver ==
    ASSUME OrderIndInv,
           ReturnNothing \/ SortAll \/ MedianShort \/ DeliverStatistic \/ DeliverTopK \/ DeliverBottomK
    PROVE  phase' = "returned" /\ (Delivers(data', result') \/ ReturnNothing)
<1>1. phase' = "returned"
  BY DEF ReturnNothing, SortAll, MedianShort, DeliverStatistic, DeliverTopK, DeliverBottomK
<1>2. Delivers(data', result') \/ ReturnNothing
  BY AllSorted, ShortDelivered, StatisticDelivered, TopKDelivered, BottomKDelivered
<1>. QED BY <1>1, <1>2

LEMMA OrderStarts == OrderInit => OrderIndInv /\ ResultsOfSorted
<1>. SUFFICES ASSUME OrderInit PROVE OrderIndInv /\ ResultsOfSorted
  OBVIOUS
<1>1. passed \in Slices /\ data = passed /\ call \in Calls /\ phase = "call" /\ result = <<>>
  BY DEF OrderInit
<1>2. data \in Seq(Values)
  BY <1>1, SlicesAssumption
<1>3. OrderTypeOK
  BY <1>1, <1>2, SameElementsIs DEF OrderTypeOK
<1>. QED BY <1>1, <1>2, <1>3 DEF OrderIndInv, ResultsOfSorted, StatisticsOfSorted, EndsOfSorted

LEMMA OrderStepKeeps == OrderIndInv /\ [OrderNext]_orderVars => OrderIndInv'
<1>. SUFFICES ASSUME OrderIndInv, [OrderNext]_orderVars PROVE OrderIndInv'
  OBVIOUS
<1>1. CASE UNCHANGED orderVars
  BY <1>1 DEF OrderIndInv, OrderTypeOK, Selects, Target, Length, Calls, orderVars
<1>2. ASSUME UNCHANGED <<call, passed>>, data' \in Seq(Values), SameElements(data', data), result' \in Seq(Values),
             phase' \in {"deliver", "returned"},
             phase' = "deliver" => Selects' /\ PlacedAt(data', Target')
      PROVE  OrderIndInv'
  <2>1. passed \in Slices /\ data \in Seq(Values) /\ passed \in Seq(Values) /\ SameElements(data, passed) /\ call \in Calls
    BY SlicesAssumption DEF OrderIndInv, OrderTypeOK
  <2>2. SameElements(data', passed)
    BY <1>2, <2>1, SameElementsIs
  <2>3. Calls' = Calls
    BY <1>2 DEF Calls
  <2>. QED BY <1>2, <2>1, <2>2, <2>3 DEF OrderIndInv, OrderTypeOK
<1>3. CASE Select /\ UNCHANGED <<call, passed>>
  <2>1. /\ Selects /\ data' \in Seq(Values) /\ PlacedAt(data', Target) /\ SameElements(data', data)
        /\ phase' = "deliver" /\ result' = result
    BY <1>3 DEF Select
  <2>2. Len(data') = Len(data) /\ result \in Seq(Values)
    BY <2>1 DEF SameElements, OrderIndInv, OrderTypeOK
  <2>3. Selects' = Selects /\ Target' = Target
    BY <1>3, <2>2, SameCall
  <2>. QED BY <1>2, <1>3, <2>1, <2>2, <2>3
<1>4. CASE /\ ReturnNothing \/ SortAll \/ MedianShort \/ DeliverStatistic \/ DeliverTopK \/ DeliverBottomK
           /\ UNCHANGED <<call, passed>>
  <2>1. phase' = "returned" /\ (Delivers(data', result') \/ ReturnNothing)
    BY <1>4, ReturnsDeliver
  <2>2. data' \in Seq(Values) /\ SameElements(data', data) /\ result' \in Seq(Values)
    <3>1. CASE Delivers(data', result')
      BY <3>1 DEF Delivers
    <3>2. CASE ReturnNothing
      <4>1. data' = data /\ result' = result
        BY <3>2 DEF ReturnNothing
      <4>. QED BY <4>1, SameElementsIs DEF OrderIndInv, OrderTypeOK
    <3>. QED BY <2>1, <3>1, <3>2
  <2>. QED BY <1>2, <1>4, <2>1, <2>2
<1>. QED BY <1>1, <1>3, <1>4 DEF OrderNext

LEMMA ResultsKept ==
    OrderIndInv /\ ResultsOfSorted /\ [OrderNext]_orderVars => ResultsOfSorted'
<1>. SUFFICES ASSUME OrderIndInv, ResultsOfSorted, [OrderNext]_orderVars PROVE ResultsOfSorted'
  OBVIOUS
<1>1. CASE UNCHANGED orderVars
  BY <1>1 DEF ResultsOfSorted, StatisticsOfSorted, EndsOfSorted, Expected, Length, orderVars
<1>2. CASE Select
  BY <1>2 DEF Select, ResultsOfSorted, StatisticsOfSorted, EndsOfSorted
<1>3. ASSUME UNCHANGED <<call, passed>>, phase' = "returned", Delivers(data', result') PROVE ResultsOfSorted'
  <2>1. Len(data') = Len(data)
    BY <1>3 DEF Delivers, SameElements
  <2>2. Length' = Length /\ Expected' = Expected
    BY <1>3, <2>1, SameCall DEF Expected
  <2>3. StatisticsOfSorted'
    <3>. SUFFICES ASSUME call.op \in {"Median", "Quantile"} PROVE StatisticsOfSorted'
      BY <1>3 DEF StatisticsOfSorted
    <3>1. RightStatistic(result')
      BY <1>3 DEF Delivers
    <3>. QED BY <1>3, <2>2, <3>1 DEF StatisticsOfSorted, RightStatistic, Low, High
  <2>4. EndsOfSorted'
    <3>1. RightEnds(result')
      BY <1>3 DEF Delivers
    <3>. QED BY <1>3, <2>1, <2>2, <3>1 DEF EndsOfSorted, RightEnds
  <2>. QED BY <2>3, <2>4 DEF ResultsOfSorted
<1>4. ASSUME UNCHANGED <<call, passed>>, ReturnNothing PROVE ResultsOfSorted'
  <2>1. call.op \in {"TopK", "BottomK"} /\ Length <= 0 /\ phase' = "returned" /\ data' = data
    BY <1>4 DEF ReturnNothing
  <2>2. Length \in Int
    BY CallFacts
  <2>3. Length' = Length
    BY <1>4, <2>1, SameCall
  <2>4. ~(Length > 0) /\ call.op \notin {"Median", "Quantile"}
    BY <2>1, <2>2
  <2>. QED BY <1>4, <2>3, <2>4 DEF ResultsOfSorted, StatisticsOfSorted, EndsOfSorted
<1>5. CASE /\ ReturnNothing \/ SortAll \/ MedianShort \/ DeliverStatistic \/ DeliverTopK \/ DeliverBottomK
           /\ UNCHANGED <<call, passed>>
  <2>1. phase' = "returned" /\ (Delivers(data', result') \/ ReturnNothing)
    BY <1>5, ReturnsDeliver
  <2>. QED BY <1>3, <1>4, <1>5, <2>1
<1>. QED BY <1>1, <1>2, <1>5 DEF OrderNext

\* compare.go:185-300, wrangle.go:7-8, 57: for every slice and every selection that puts the
\* k-th smallest at k with its fence, whichever arrangement it leaves, what is returned is
\* what the sorted slice holds in that place and next to it, or at its end.
THEOREM AnySelectionWillDo == OrderInit /\ [][OrderNext]_orderVars => []ResultsOfSorted
BY OrderStarts, OrderStepKeeps, ResultsKept, PTL

-----------------------------------------------------------------------------
(* The operations with their quickselects.                                 *)

LEMMA StatisticsStarts == StatisticsInit => SelectIndInv
<1>. SUFFICES ASSUME StatisticsInit PROVE SelectIndInv
  OBVIOUS
<1>1. OrderInit /\ accelerated \in BOOLEAN /\ NotSelecting
  BY DEF StatisticsInit
<1>2. OrderIndInv
  BY <1>1, OrderStarts
<1>3. KernelInv /\ PortableInv
  BY <1>1, IdleInv
<1>4. Asked
  BY <1>1 DEF Asked, NotSelecting
<1>. QED BY <1>1, <1>2, <1>3, <1>4 DEF SelectIndInv

LEMMA IdleNext == NotSelecting' => KernelInv' /\ PortableInv'
BY IdleInv, PTL

\* Every step is one of the abstract operation or leaves all of it alone.
LEMMA StatisticsRefines ==
    SelectIndInv /\ [StatisticsNext]_statisticsVars => [OrderNext]_orderVars
<1>. SUFFICES ASSUME SelectIndInv, [StatisticsNext]_statisticsVars PROVE [OrderNext]_orderVars
  OBVIOUS
<1>1. CASE AtOnce
  <2>1. (ReturnNothing \/ SortAll \/ MedianShort) /\ UNCHANGED <<call, passed>>
    BY <1>1 DEF AtOnce
  <2>. QED BY <2>1 DEF OrderNext
<1>2. CASE StartSelect \/ SelectTurn
  BY <1>2 DEF StartSelect, SelectTurn
<1>3. CASE EndSelect
  <2>1. at = "returned" /\ data' = slice /\ phase' = "deliver" /\ UNCHANGED <<call, result, passed>>
    BY <1>3 DEF EndSelect, SelectReturns
  <2>2. phase = "call" /\ Selects /\ k = Target /\ SameElements(slice, data) /\ PlacedAt(slice, k)
    BY <2>1 DEF SelectIndInv, Asked
  <2>3. slice \in Seq(Values)
    BY DEF SelectIndInv, KernelInv, PortableInv, KernelTypeOK, PortableTypeOK
  <2>4. Select
    BY <2>1, <2>2, <2>3 DEF Select
  <2>. QED BY <2>1, <2>4 DEF OrderNext
<1>4. CASE Deliver
  <2>1. (DeliverStatistic \/ DeliverTopK \/ DeliverBottomK) /\ UNCHANGED <<call, passed>>
    BY <1>4 DEF Deliver
  <2>. QED BY <2>1 DEF OrderNext
<1>5. CASE UNCHANGED statisticsVars
  BY <1>5 DEF statisticsVars
<1>. QED BY <1>1, <1>2, <1>3, <1>4, <1>5 DEF StatisticsNext

\* With no selection running, what is left to keep is the operation's.
LEMMA IdleKeeps ==
    ASSUME OrderIndInv', NotSelecting', accelerated' \in BOOLEAN
    PROVE  SelectIndInv'
<1>1. KernelInv' /\ PortableInv'
  BY IdleNext
<1>2. Asked'
  BY DEF Asked, NotSelecting
<1>. QED BY <1>1, <1>2 DEF SelectIndInv

LEMMA StartKeeps ==
    ASSUME SelectIndInv, OrderIndInv', StartSelect
    PROVE  SelectIndInv'
<1>1. /\ phase = "call" /\ at = "idle" /\ Selects
      /\ IF UsesKernel THEN KernelCall(data, Target) ELSE PortableCall(data, Target)
      /\ UNCHANGED <<data, call, phase, result, passed, accelerated>>
  BY DEF StartSelect, orderVars
<1>2. OrderIndInv /\ accelerated \in BOOLEAN /\ NotSelecting
  BY <1>1 DEF SelectIndInv, Asked
<1>3. data \in Seq(Values) /\ Len(data) \in Nat /\ Target \in 0 .. Len(data) - 1
  BY <1>1, <1>2, CallFacts, TargetOf
<1>4. slice' = data /\ k' = Target /\ at' = "loop" /\ lo' = 0
  BY <1>1 DEF KernelCall, PortableCall
<1>5. Target' = Target /\ Selects' = Selects /\ UsesKernel' = UsesKernel
  BY <1>1, SameCall DEF UsesKernel
<1>6. Asked'
  BY <1>1, <1>3, <1>4, <1>5, SameElementsIs DEF Asked
<1>7. CASE UsesKernel
  <2>1. hi' = Len(data) /\ depth' = DepthPerBit * BitsLen(Len(data))
    BY <1>1, <1>7 DEF KernelCall
  <2>2. DepthPerBit * BitsLen(Len(data)) \in Nat
    <3>1. DepthPerBit \in Nat /\ BitsLen(Len(data)) \in Nat
      BY <1>3, BitsLenType, DepthAssumption
    <3>. QED BY <3>1
  <2>3. depth' \in 0 .. DepthPerBit * BitsLen(Len(slice'))
    BY <1>4, <2>1, <2>2
  <2>4. k' \in Nat /\ lo' \in 0 .. k' /\ hi' \in k' + 1 .. Len(slice')
    BY <1>3, <1>4, <2>1
  <2>5. KernelTypeOK'
    BY <1>3, <1>4, <2>3, <2>4 DEF KernelTypeOK
  <2>6. KernelFenced'
    <3>1. Apart(data, 0, Len(data))
      BY <1>3 DEF Apart
    <3>. QED BY <1>4, <2>1, <3>1 DEF KernelFenced
  <2>. QED BY <1>1, <1>2, <1>5, <1>6, <1>7, <2>5, <2>6 DEF SelectIndInv, KernelInv
<1>8. CASE ~UsesKernel
  <2>1. hi' = Len(data) - 1 /\ i' = 0 /\ j' = 0
    BY <1>1, <1>8 DEF PortableCall
  <2>2. k' \in Nat /\ lo' \in 0 .. k' /\ hi' \in k' .. Len(slice') - 1 /\ i' \in 0 .. Len(slice') - 1 /\ j' \in 0 .. Len(slice') - 1
    BY <1>3, <1>4, <2>1
  <2>3. PortableTypeOK'
    BY <1>3, <1>4, <2>2 DEF PortableTypeOK
  <2>4. PortableFenced'
    <3>1. Len(data) - 1 + 1 = Len(data) /\ Apart(data, 0, Len(data))
      BY <1>3 DEF Apart
    <3>. QED BY <1>4, <2>1, <3>1 DEF PortableFenced
  <2>5. ScanBounds' /\ ScannedSides'
    BY <1>4 DEF ScanBounds, ScannedSides
  <2>. QED BY <1>1, <1>2, <1>5, <1>6, <1>8, <2>3, <2>4, <2>5 DEF SelectIndInv, PortableInv
<1>. QED BY <1>7, <1>8

LEMMA SelectTurnKeeps ==
    ASSUME SelectIndInv, OrderIndInv', SelectTurn
    PROVE  SelectIndInv'
<1>1. /\ IF UsesKernel THEN KernelTurn ELSE PortableTurn
      /\ UNCHANGED <<data, call, phase, result, passed, accelerated>>
  BY DEF SelectTurn, orderVars
<1>2. at # "idle"
  BY <1>1 DEF KernelTurn, PortableTurn, Settle, Park, Exchange, Descend
<1>3. /\ accelerated \in BOOLEAN /\ phase = "call" /\ Selects /\ k = Target /\ SameElements(slice, data)
      /\ data \in Seq(Values) /\ slice \in Seq(Values)
      /\ UsesKernel => KernelInv
      /\ ~UsesKernel => PortableInv
  BY <1>2 DEF SelectIndInv, OrderIndInv, Asked, KernelInv, PortableInv, KernelTypeOK, PortableTypeOK
<1>4. Target' = Target /\ Selects' = Selects /\ UsesKernel' = UsesKernel
  BY <1>1, SameCall DEF UsesKernel
<1>5. /\ UsesKernel => KernelInv'
      /\ ~UsesKernel => PortableInv'
      /\ k' = k /\ SameElements(slice', slice) /\ at' \in {"loop", "scan", "returned"}
      /\ at' = "returned" => PlacedAt(slice', k')
  BY <1>1, <1>3, KernelTurnKeeps, PortableTurnKeeps
<1>6. slice' \in Seq(Values)
  BY <1>5 DEF KernelInv, PortableInv, KernelTypeOK, PortableTypeOK
<1>7. SameElements(slice', data)
  BY <1>3, <1>5, <1>6, SameElementsIs
<1>8. Asked'
  BY <1>1, <1>3, <1>4, <1>5, <1>7 DEF Asked
<1>. QED BY <1>1, <1>3, <1>4, <1>5, <1>8 DEF SelectIndInv

LEMMA StatisticsKeeps == SelectIndInv /\ [StatisticsNext]_statisticsVars => SelectIndInv'
<1>. SUFFICES ASSUME SelectIndInv, [StatisticsNext]_statisticsVars PROVE SelectIndInv'
  OBVIOUS
<1>1. OrderIndInv /\ accelerated \in BOOLEAN /\ Asked
  BY DEF SelectIndInv
<1>2. OrderIndInv'
  <2>1. [OrderNext]_orderVars
    BY StatisticsRefines
  <2>. QED BY <1>1, <2>1, OrderStepKeeps
<1>3. CASE AtOnce \/ Deliver
  <2>1. UNCHANGED <<accelerated, selectVars>> /\ (at = "idle" \/ phase = "deliver")
    BY <1>3 DEF AtOnce, Deliver, DeliverStatistic, DeliverTopK, DeliverBottomK
  <2>2. NotSelecting
    BY <1>1, <2>1 DEF Asked
  <2>3. NotSelecting'
    BY <2>1, <2>2 DEF NotSelecting, selectVars
  <2>. QED BY <1>1, <1>2, <2>1, <2>3, IdleKeeps
<1>4. CASE StartSelect
  BY <1>2, <1>4, StartKeeps
<1>5. CASE SelectTurn
  BY <1>2, <1>5, SelectTurnKeeps
<1>6. CASE EndSelect
  <2>1. NotSelecting' /\ accelerated' = accelerated
    BY <1>6 DEF EndSelect, SelectReturns, NotSelecting
  <2>. QED BY <1>1, <1>2, <2>1, IdleKeeps
<1>7. CASE UNCHANGED statisticsVars
  <2>1. /\ UNCHANGED <<data, call, phase, result, passed, accelerated>>
        /\ UNCHANGED <<slice, k, lo, hi, depth, i, j, at>>
    BY <1>7 DEF statisticsVars, orderVars, selectVars
  <2>2. Target' = Target /\ Selects' = Selects /\ UsesKernel' = UsesKernel
    BY <2>1, SameCall DEF UsesKernel
  <2>3. Asked'
    BY <1>1, <2>1, <2>2 DEF Asked, NotSelecting
  <2>4. KernelInv' = KernelInv
    BY <2>1 DEF KernelInv, KernelTypeOK, KernelFenced
  <2>5. PortableInv' = PortableInv
    BY <2>1 DEF PortableInv, PortableTypeOK, PortableFenced, ScanBounds, ScannedSides, Pivot
  <2>. QED BY <1>1, <1>2, <2>1, <2>2, <2>3, <2>4, <2>5 DEF SelectIndInv
<1>. QED BY <1>3, <1>4, <1>5, <1>6, <1>7 DEF StatisticsNext

LEMMA SelectIndInvIs == SelectIndInv => SelectInv
<1>. SUFFICES ASSUME SelectIndInv PROVE SelectInv
  OBVIOUS
<1>1. OrderTypeOK /\ accelerated \in BOOLEAN /\ (UsesKernel => KernelInv) /\ (~UsesKernel => PortableInv)
  BY DEF SelectIndInv, OrderIndInv
<1>2. ~UsesKernel => ScanStaysInRange
  <2>. SUFFICES ASSUME PortableInv, at = "scan"
                PROVE  (\E x \in StopsUp : x <= hi - 1) /\ (\E y \in StopsDown : y >= lo)
    BY <1>1 DEF ScanStaysInRange
  <2>1. j \in StopsUp /\ i \in StopsDown /\ i \in lo .. j - 1 /\ j \in i + 1 .. hi - 1
    BY ScanFacts
  <2>2. j <= hi - 1 /\ i >= lo
    BY <2>1
  <2>. QED BY <2>1, <2>2
<1>3. StatisticsTypeOK
  BY <1>1 DEF StatisticsTypeOK, KernelInv, PortableInv
<1>. QED BY <1>1, <1>2, <1>3 DEF SelectInv, KernelInv, PortableInv

\* sort.go:335-341, compare.go:154-170: for every slice, cutoff and depth budget, either
\* select keeps its window fenced and its position in it, and the inner loops of the
\* portable one, which have no bound of their own, stop inside the range.
THEOREM SelectsInRange == StatisticsSpec => []SelectInv
<1>. QED BY StatisticsStarts, StatisticsKeeps, SelectIndInvIs, PTL DEF StatisticsSpec

\* Both quickselects do what OrderStatistics takes a selection to do, in one step of it: the
\* safety half of ImplementsOrderStatistics.
THEOREM EitherSelectServes == StatisticsSpec => OrderInit /\ [][OrderNext]_orderVars
<1>1. StatisticsInit => OrderInit
  BY DEF StatisticsInit
<1>. QED BY <1>1, StatisticsStarts, StatisticsKeeps, StatisticsRefines, PTL DEF StatisticsSpec

\* So a median, a quantile and the ends of a slice are those of the sorted slice whichever
\* select the machine has, or none.
THEOREM ResultsAreOfSorted == StatisticsSpec => []ResultsOfSorted
BY EitherSelectServes, AnySelectionWillDo, PTL
=============================================================================
