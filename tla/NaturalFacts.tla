---------------------------- MODULE NaturalFacts ----------------------------
(***************************************************************************)
(* What the proofs need of the natural numbers: that they are well         *)
(* ordered, in the two forms that name a set where induction would name a  *)
(* predicate; the members of a finite set of numbers in order; and \div    *)
(* and % for a divisor that is not a literal.                              *)
(***************************************************************************)
EXTENDS Ordered, FiniteSetTheorems, WellFoundedInduction, TLAPS

\* A set of natural numbers that is not empty has a least element.
LEMMA LeastNatural ==
    ASSUME NEW S \in SUBSET Nat, S # {}
    PROVE  \E x \in S : \A y \in S : x <= y
<1>. DEFINE R == OpToRel(<, Nat)
<1>1. IsWellFoundedOn(R, Nat)
  BY NatLessThanWellFounded DEF OpToRel
<1>. HIDE DEF R
<1>2. PICK x \in S : \A y \in S : ~ (<<y, x>> \in R)
  BY <1>1, WFMin
<1>3. \A y \in S : ~(y < x)
  BY <1>2 DEF R, OpToRel
<1>. QED BY <1>3

\* Induction: a set that has 0, and with a number the next, has all natural numbers.
LEMMA SetInduction ==
    ASSUME NEW S, 0 \in S, \A n \in Nat : n \in S => n + 1 \in S
    PROVE  \A n \in Nat : n \in S
<1>. SUFFICES ASSUME NEW m \in Nat, m \notin S PROVE FALSE
  OBVIOUS
<1>1. PICK x \in Nat \ S : \A y \in Nat \ S : x <= y
  BY LeastNatural
<1>2. x # 0 /\ x - 1 \in Nat /\ x = (x - 1) + 1
  BY <1>1
<1>3. x - 1 \in S
  BY <1>1, <1>2
<1>. QED BY <1>2, <1>3, <1>1

\* A set of integers that is not empty and has a lower bound has a least element.
LEMMA LeastInteger ==
    ASSUME NEW S \in SUBSET Int, S # {}, NEW b \in Int, \A x \in S : b <= x
    PROVE  \E x \in S : \A y \in S : x <= y
<1>. DEFINE T == {t \in Nat : b + t \in S}
<1>1. \A y \in S : y - b \in T
  <2>. TAKE y \in S
  <2>1. y - b \in Nat /\ b + (y - b) = y
    OBVIOUS
  <2>. QED BY <2>1
<1>2. T \subseteq Nat /\ T # {}
  BY <1>1
<1>3. PICK t \in T : \A u \in T : t <= u
  BY <1>2, LeastNatural
<1>4. t \in Nat /\ b + t \in S
  OBVIOUS
<1>. HIDE DEF T
<1>5. \A y \in S : b + t <= y
  BY <1>1, <1>3, <1>4
<1>. QED BY <1>4, <1>5

\* ... and one with an upper bound, a greatest.
LEMMA GreatestInteger ==
    ASSUME NEW S \in SUBSET Int, S # {}, NEW b \in Int, \A x \in S : x <= b
    PROVE  \E x \in S : \A y \in S : y <= x
<1>. DEFINE T == {t \in Nat : b - t \in S}
<1>1. \A y \in S : b - y \in T
  <2>. TAKE y \in S
  <2>1. b - y \in Nat /\ b - (b - y) = y
    OBVIOUS
  <2>. QED BY <2>1
<1>2. T \subseteq Nat /\ T # {}
  BY <1>1
<1>3. PICK t \in T : \A u \in T : t <= u
  BY <1>2, LeastNatural
<1>4. t \in Nat /\ b - t \in S
  OBVIOUS
<1>. HIDE DEF T
<1>5. \A y \in S : y <= b - t
  BY <1>1, <1>3, <1>4
<1>. QED BY <1>4, <1>5

\* A function from 1 .. n to the integers has an upper bound, and a lower one.
LEMMA BoundedFunction ==
    ASSUME NEW f, NEW n \in Nat, \A k \in 1 .. n : f[k] \in Int
    PROVE  \E b \in Int : \A k \in 1 .. n : f[k] <= b
<1>. DEFINE S == {m \in Nat : \E b \in Int : \A k \in 1 .. m : k <= n => f[k] <= b}
<1>1. 0 \in S
  OBVIOUS
<1>2. ASSUME NEW m \in Nat, m \in S PROVE m + 1 \in S
  <2>1. PICK b \in Int : \A k \in 1 .. m : k <= n => f[k] <= b
    BY <1>2
  <2>2. PICK c \in Int : b <= c /\ (m + 1 <= n => f[m + 1] <= c)
    <3>1. CASE m + 1 <= n
      <4>1. f[m + 1] \in Int
        BY <3>1
      <4>. QED BY <4>1
    <3>2. CASE ~(m + 1 <= n)
      BY <3>2
    <3>. QED BY <3>1, <3>2
  <2>3. \A k \in 1 .. m + 1 : k <= n => f[k] <= c
    <3>. TAKE k \in 1 .. m + 1
    <3>. HAVE k <= n
    <3>1. CASE k = m + 1
      BY <3>1, <2>2
    <3>2. CASE k \in 1 .. m
      <4>1. f[k] \in Int /\ f[k] <= b
        BY <3>2, <2>1
      <4>. QED BY <4>1, <2>2
    <3>. QED BY <3>1, <3>2
  <2>. QED BY <2>3
<1>. HIDE DEF S
<1>3. n \in S
  BY <1>1, <1>2, SetInduction
<1>. QED BY <1>3 DEF S

-----------------------------------------------------------------------------
(* Finite sets of numbers, in order.                                       *)

\* A set with one element more than n: the set without that element has n.
LEMMA WithoutOne ==
    ASSUME NEW S, NEW x \in S, IsFiniteSet(S)
    PROVE  /\ IsFiniteSet(S \ {x}) /\ Cardinality(S \ {x}) = Cardinality(S) - 1
           /\ Cardinality(S) \in Nat \ {0} /\ Cardinality(S \ {x}) \in Nat
BY FS_RemoveElement, FS_CardinalityType, FS_EmptySet

\* A finite set of integers that is not empty has a greatest element.
LEMMA GreatestOfFinite ==
    ASSUME NEW S \in SUBSET Int, IsFiniteSet(S), S # {}
    PROVE  \E x \in S : \A y \in S : y <= x
<1>. DEFINE Good(n) == \A U \in SUBSET Int : IsFiniteSet(U) /\ Cardinality(U) = n /\ U # {} =>
                          \E x \in U : \A y \in U : y <= x
            T == {n \in Nat : Good(n)}
<1>1. 0 \in T
  BY FS_EmptySet
<1>2. ASSUME NEW n \in Nat, n \in T PROVE n + 1 \in T
  <2>. SUFFICES ASSUME NEW U \in SUBSET Int, IsFiniteSet(U), Cardinality(U) = n + 1, U # {}
                PROVE  \E x \in U : \A y \in U : y <= x
    OBVIOUS
  <2>1. PICK x \in U : TRUE
    OBVIOUS
  <2>2. IsFiniteSet(U \ {x}) /\ Cardinality(U \ {x}) = n
    BY WithoutOne
  <2>3. CASE U \ {x} = {}
    <3>1. \A y \in U : y = x
      BY <2>3
    <3>. QED BY <3>1
  <2>4. CASE U \ {x} # {}
    <3>1. PICK z \in U \ {x} : \A y \in U \ {x} : y <= z
      BY <1>2, <2>2, <2>4
    <3>2. CASE x <= z
      BY <3>1, <3>2
    <3>3. CASE z <= x
      <4>1. ASSUME NEW y \in U PROVE y <= x
        <5>1. y = x \/ y <= z
          BY <3>1
        <5>. QED BY <5>1, <3>3
      <4>. QED BY <4>1
    <3>. QED BY <3>2, <3>3
  <2>. QED BY <2>3, <2>4
<1>. HIDE DEF T
<1>3. Cardinality(S) \in T
  BY <1>1, <1>2, SetInduction, FS_CardinalityType
<1>. QED BY <1>3 DEF T

\* A place is one of the numbers up to the size, and grows with the element.
LEMMA PlaceOf ==
    ASSUME NEW S \in SUBSET Int, IsFiniteSet(S), NEW p \in S
    PROVE  Place(S, p) \in 1 .. Cardinality(S)
<1>. DEFINE L == {q \in S : q <= p}
<1>1. L \subseteq S /\ p \in L /\ L # {}
  OBVIOUS
<1>. HIDE DEF L
<1>2. IsFiniteSet(L) /\ Cardinality(L) <= Cardinality(S)
  BY <1>1, FS_Subset
<1>3. Cardinality(L) \in Nat \ {0} /\ Cardinality(S) \in Nat
  BY <1>1, <1>2, FS_CardinalityType, FS_EmptySet
<1>. QED BY <1>2, <1>3 DEF L, Place

LEMMA PlaceGrows ==
    ASSUME NEW S \in SUBSET Int, IsFiniteSet(S), NEW p \in Int, NEW q \in S, p < q
    PROVE  Place(S, p) < Place(S, q)
<1>. DEFINE L == {x \in S : x <= p}
            M == {x \in S : x <= q}
<1>1. L \subseteq M \ {q} /\ M \subseteq S /\ q \in M
  <2>1. \A x \in L : x \in Int /\ x <= p /\ x <= q /\ x # q
    OBVIOUS
  <2>2. q \in M /\ M \subseteq S
    OBVIOUS
  <2>. QED BY <2>1, <2>2
<1>. HIDE DEF L, M
<1>2. IsFiniteSet(M) /\ IsFiniteSet(M \ {q}) /\ Cardinality(M \ {q}) = Cardinality(M) - 1
      /\ Cardinality(M) \in Nat
  BY <1>1, FS_Subset, WithoutOne
<1>3. Cardinality(L) <= Cardinality(M \ {q}) /\ Cardinality(L) \in Nat
  BY <1>1, <1>2, FS_Subset, FS_CardinalityType
<1>. QED BY <1>2, <1>3 DEF L, M, Place

\* Every place up to the size is some element's.
LEMMA PlaceTaken ==
    ASSUME NEW S \in SUBSET Int, IsFiniteSet(S), NEW x \in 1 .. Cardinality(S)
    PROVE  \E p \in S : Place(S, p) = x
<1>. DEFINE Good(n) == \A U \in SUBSET Int : IsFiniteSet(U) /\ Cardinality(U) = n =>
                          \A k \in 1 .. n : \E p \in U : Place(U, p) = k
            T == {n \in Nat : Good(n)}
<1>1. 0 \in T
  OBVIOUS
<1>2. ASSUME NEW n \in Nat, n \in T PROVE n + 1 \in T
  <2>. SUFFICES ASSUME NEW U \in SUBSET Int, IsFiniteSet(U), Cardinality(U) = n + 1,
                       NEW k \in 1 .. n + 1
                PROVE  \E p \in U : Place(U, p) = k
    OBVIOUS
  <2>1. U # {}
    BY FS_EmptySet
  <2>2. PICK m \in U : \A y \in U : y <= m
    BY <2>1, GreatestOfFinite
  <2>3. IsFiniteSet(U \ {m}) /\ Cardinality(U \ {m}) = n
    BY WithoutOne
  <2>4. CASE k = n + 1
    <3>1. {q \in U : q <= m} = U
      BY <2>2
    <3>. QED BY <2>4, <3>1 DEF Place
  <2>5. CASE k \in 1 .. n
    <3>1. PICK p \in U \ {m} : Place(U \ {m}, p) = k
      BY <1>2, <2>3, <2>5
    <3>2. {q \in U \ {m} : q <= p} = {q \in U : q <= p}
      BY <2>2
    <3>. QED BY <3>1, <3>2 DEF Place
  <2>. QED BY <2>4, <2>5
<1>. HIDE DEF T
<1>3. Cardinality(S) \in T
  BY <1>1, <1>2, SetInduction, FS_CardinalityType
<1>. QED BY <1>3 DEF T

\* The x-th is an element, and its place is x.
LEMMA NthOf ==
    ASSUME NEW S \in SUBSET Int, IsFiniteSet(S), NEW x \in 1 .. Cardinality(S)
    PROVE  Nth(S, x) \in S /\ Place(S, Nth(S, x)) = x
BY PlaceTaken DEF Nth

\* An element is the one at its place.
LEMMA NthAtPlace ==
    ASSUME NEW S \in SUBSET Int, IsFiniteSet(S), NEW p \in S
    PROVE  Nth(S, Place(S, p)) = p
<1>. DEFINE q == Nth(S, Place(S, p))
<1>1. q \in S /\ Place(S, q) = Place(S, p) /\ Place(S, p) \in Int
  BY PlaceOf, NthOf
<1>. HIDE DEF q
<1>2. ~(p < q) /\ ~(q < p)
  BY <1>1, PlaceGrows
<1>3. p = q
  BY <1>1, <1>2
<1>. QED BY <1>3 DEF q

LEMMA NthGrows ==
    ASSUME NEW S \in SUBSET Int, IsFiniteSet(S),
           NEW x \in 1 .. Cardinality(S), NEW y \in 1 .. Cardinality(S), x < y
    PROVE  Nth(S, x) < Nth(S, y)
<1>1. PICK p \in S, q \in S : p = Nth(S, x) /\ q = Nth(S, y) /\ Place(S, p) = x /\ Place(S, q) = y
  BY NthOf
<1>2. ~(q < p) /\ p # q
  <2>1. Cardinality(S) \in Nat
    BY FS_CardinalityType
  <2>. QED BY <1>1, <2>1, PlaceGrows
<1>. QED BY <1>1, <1>2

\* A finite part of a list's places, in order.
LEMMA KeptOf ==
    ASSUME NEW s, NEW P, NEW n \in Nat, DOMAIN s = 1 .. n
    PROVE  /\ IsFiniteSet(Keeping(s, P)) /\ Keeping(s, P) \subseteq Int
           /\ Cardinality(Keeping(s, P)) \in Nat
           /\ \A x \in 1 .. Cardinality(Keeping(s, P)) : Nth(Keeping(s, P), x) \in Keeping(s, P)
           /\ \A k \in Keeping(s, P) :
                /\ Place(Keeping(s, P), k) \in 1 .. Cardinality(Keeping(s, P))
                /\ Nth(Keeping(s, P), Place(Keeping(s, P), k)) = k
<1>. DEFINE keep == Keeping(s, P)
<1>1. IsFiniteSet(keep) /\ keep \subseteq Int
  <2>1. IsFiniteSet(1 .. n) /\ keep \subseteq 1 .. n
    BY FS_Interval DEF Keeping
  <2>. QED BY <2>1, FS_Subset
<1>. HIDE DEF keep
<1>2. Cardinality(keep) \in Nat
  BY <1>1, FS_CardinalityType
<1>3. \A x \in 1 .. Cardinality(keep) : Nth(keep, x) \in keep
  BY <1>1, NthOf
<1>4. \A k \in keep : Place(keep, k) \in 1 .. Cardinality(keep) /\ Nth(keep, Place(keep, k)) = k
  BY <1>1, PlaceOf, NthAtPlace
<1>. QED BY <1>1, <1>2, <1>3, <1>4 DEF keep

-----------------------------------------------------------------------------
(* Quotients and remainders.                                               *)

\* The quotient and the remainder of a natural number.
LEMMA DivMod ==
    ASSUME NEW m \in Nat, NEW d \in Nat, d >= 1
    PROVE  /\ m \div d \in Nat /\ m % d \in Nat /\ m % d < d
           /\ m = (m \div d) * d + (m % d)
<1>1. m \div d \in Int /\ m % d \in Nat /\ m % d < d
  <2>1. m \div d \in Int
    OBVIOUS
  <2>2. m % d \in Int /\ 0 <= m % d /\ m % d < d
    OBVIOUS
  <2>. QED BY <2>1, <2>2
<1>2. m = d * (m \div d) + (m % d)
  OBVIOUS
<1>3. m \div d >= 0
  <2>. DEFINE q == m \div d
  <2>1. SUFFICES ASSUME q + 1 <= 0 PROVE FALSE
    BY <1>1
  <2>2. q \in Int /\ m < d * (q + 1)
    <3>1. d * (q + 1) = d * q + d
      BY <1>1
    <3>. QED BY <1>1, <1>2, <3>1
  <2>. HIDE DEF q
  <2>3. d * (q + 1) <= 0
    BY <2>1, <2>2
  <2>. QED BY <2>2, <2>3
<1>. QED BY <1>1, <1>2, <1>3

\* A number is determined by its quotient and its remainder.
LEMMA DivModOf ==
    ASSUME NEW m \in Nat, NEW q \in Nat, NEW r \in Nat, NEW d \in Nat, m = q * d + r, r < d
    PROVE  m \div d = q /\ m % d = r
<1>1. PICK x \in Nat, y \in Nat : x = m \div d /\ y = m % d
  BY DivMod
<1>2. m = (m \div d) * d + (m % d) /\ m % d < d
  BY DivMod
<1>3. m = x * d + y /\ y < d
  BY <1>1, <1>2, Zenon
<1>4. ~(x < q)
  <2>. SUFFICES ASSUME x < q PROVE FALSE
    OBVIOUS
  <2>1. (x + 1) * d <= q * d
    BY x + 1 <= q
  <2>2. (x + 1) * d = x * d + d
    OBVIOUS
  <2>. QED BY <1>3, <2>1, <2>2
<1>5. ~(q < x)
  <2>. SUFFICES ASSUME q < x PROVE FALSE
    OBVIOUS
  <2>1. (q + 1) * d <= x * d
    BY q + 1 <= x
  <2>2. (q + 1) * d = q * d + d
    OBVIOUS
  <2>. QED BY <1>3, <2>1, <2>2
<1>6. x = q
  BY <1>4, <1>5
<1>7. y = r
  BY <1>3, <1>6
<1>. QED BY <1>1, <1>6, <1>7

\* A recursive function exists: f[0] is s, and f[k] is what h makes of k and f[k - 1].
StaysIn(h, V, n) == \A k \in 1 .. n, x \in V : h[<<k, x>>] \in V
Unfolds(f, V, n, s, h) ==
    f \in [0 .. n -> V] /\ f[0] = s /\ \A k \in 1 .. n : f[k] = h[<<k, f[k - 1]>>]

\* There is such a function.
LEMMA RecursionExists ==
    ASSUME NEW V, NEW n \in Nat, NEW s \in V, NEW h, StaysIn(h, V, n)
    PROVE  \E f : Unfolds(f, V, n, s, h)
<1>. USE DEF StaysIn
<1>. DEFINE Good(m) == \E f \in [0 .. m -> V] : f[0] = s /\ \A k \in 1 .. m : f[k] = h[<<k, f[k - 1]>>]
            T == {m \in Nat : m <= n => Good(m)}
<1>1. 0 \in T
  <2>. DEFINE f == [k \in 0 .. 0 |-> s]
  <2>1. f \in [0 .. 0 -> V] /\ f[0] = s /\ \A k \in 1 .. 0 : f[k] = h[<<k, f[k - 1]>>]
    OBVIOUS
  <2>. HIDE DEF f
  <2>. QED BY <2>1
<1>2. ASSUME NEW m \in Nat, m \in T PROVE m + 1 \in T
  <2>. SUFFICES ASSUME m + 1 <= n PROVE Good(m + 1)
    OBVIOUS
  <2>1. PICK f \in [0 .. m -> V] : f[0] = s /\ \A k \in 1 .. m : f[k] = h[<<k, f[k - 1]>>]
    BY <1>2
  <2>. DEFINE g == [k \in 0 .. m + 1 |-> IF k <= m THEN f[k] ELSE h[<<m + 1, f[m]>>]]
  <2>2. f[m] \in V /\ m + 1 \in 1 .. n
    OBVIOUS
  <2>3. h[<<m + 1, f[m]>>] \in V
    BY <2>2
  <2>4. g \in [0 .. m + 1 -> V]
    BY <2>3
  <2>5. g[0] = s
    BY <2>1
  <2>6. ASSUME NEW k \in 1 .. m + 1 PROVE g[k] = h[<<k, g[k - 1]>>]
    <3>1. CASE k = m + 1
      <4>1. g[k] = h[<<m + 1, f[m]>>] /\ g[k - 1] = f[m]
        BY <3>1
      <4>. QED BY <3>1, <4>1
    <3>2. CASE k \in 1 .. m
      <4>1. g[k] = f[k] /\ g[k - 1] = f[k - 1]
        BY <3>2
      <4>. QED BY <2>1, <3>2, <4>1
    <3>. QED BY <3>1, <3>2
  <2>. HIDE DEF g
  <2>. QED BY <2>4, <2>5, <2>6
<1>. HIDE DEF T
<1>3. n \in T
  BY <1>1, <1>2, SetInduction
<1>. QED BY <1>3 DEF T, Unfolds

\* A finite set of integers has as many elements moved by c.
LEMMA MovedSize ==
    ASSUME NEW B \in SUBSET Int, IsFiniteSet(B), NEW c \in Int
    PROVE  IsFiniteSet({c + b : b \in B}) /\ Cardinality({c + b : b \in B}) = Cardinality(B)
<1>. DEFINE M == {c + b : b \in B}
            f == [b \in B |-> c + b]
<1>1. f \in [B -> M] /\ \A x \in B, y \in B : f[x] = f[y] => x = y
  OBVIOUS
<1>2. \A t \in M : \E b \in B : f[b] = t
  OBVIOUS
<1>. HIDE DEF M, f
<1>3. f \in Bijection(B, M)
  BY <1>1, <1>2 DEF Bijection, Injection, Surjection, IsInjective
<1>4. IsFiniteSet(M) /\ Cardinality(M) = Cardinality(B)
  BY <1>3, FS_Bijection DEF ExistsBijection
<1>. QED BY <1>4 DEF M

\* The sizes of disjoint finite sets add up.
LEMMA DisjointSize ==
    ASSUME NEW S, NEW T, IsFiniteSet(S), IsFiniteSet(T), S \cap T = {}
    PROVE  /\ IsFiniteSet(S \cup T) /\ Cardinality(S \cup T) = Cardinality(S) + Cardinality(T)
           /\ Cardinality(S) \in Nat /\ Cardinality(T) \in Nat
BY FS_Union, FS_EmptySet, FS_CardinalityType
=============================================================================
