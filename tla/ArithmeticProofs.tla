--------------------------- MODULE ArithmeticProofs ---------------------------
(***************************************************************************)
(* Median and Quantile of integers, for every integer type, every sorted   *)
(* slice, every quantile and every precision of the floats: a result stays *)
(* between the order statistics around its position and rises with q, and  *)
(* the quantile at a half is the median as nearly as the floats allow.     *)
(***************************************************************************)
EXTENDS IntMidpoint, NaturalFacts, TLAPS

-----------------------------------------------------------------------------
(* Floats: rounding to the nearest.                                        *)

\* What Ulps, Top and Unit are.
LEMMA FloatFacts ==
    /\ Top \in Nat /\ Top >= 2 /\ \E h \in Nat : Top = 2 * h /\ h >= 1
    /\ 1 \in Ulps /\ \A u \in Ulps : u \in Nat /\ u >= 1
    /\ \A u \in Ulps : u # 1 => \E v \in Ulps : u = 2 * v
    /\ \A u, v \in Ulps : u < v => \E c \in Nat : c >= 1 /\ v = c * (2 * u)
    /\ Unit \in Nat /\ Unit >= 1 /\ Unit \in Ulps /\ \E u \in Ulps : Unit = Top * u
<1>1. Top \in Nat /\ Top >= 2 /\ \E h \in Nat : Top = 2 * h /\ h >= 1
  <2>1. Top \in Nat /\ Top >= 2 /\ Top % 2 = 0
    BY FloatsAssumption
  <2>2. Top \div 2 \in Nat /\ Top = 2 * (Top \div 2) /\ Top \div 2 >= 1
    BY <2>1
  <2>. QED BY <2>1, <2>2
<1>2. 1 \in Ulps /\ \A u \in Ulps : u \in Nat /\ u >= 1
  BY FloatsAssumption
<1>3. ASSUME NEW u \in Ulps, u # 1 PROVE \E v \in Ulps : u = 2 * v
  <2>1. u % 2 = 0 /\ u \div 2 \in Ulps
    BY <1>3, FloatsAssumption
  <2>2. u = 2 * (u \div 2)
    BY <1>2, <2>1
  <2>. QED BY <2>1, <2>2
<1>4. ASSUME NEW u \in Ulps, NEW v \in Ulps, u < v PROVE \E c \in Nat : c >= 1 /\ v = c * (2 * u)
  <2>1. v % (2 * u) = 0
    BY <1>4, FloatsAssumption
  <2>2. PICK d \in Nat : d = 2 * u /\ d >= 1
    BY <1>2
  <2>3. v \div d \in Nat /\ v = (v \div d) * d + (v % d) /\ v % d = 0
    BY <1>2, <2>1, <2>2, DivMod
  <2>4. PICK c \in Nat : c = v \div d
    BY <2>3
  <2>5. v = c * d
    <3>1. PICK e \in Nat : e = c * d
      OBVIOUS
    <3>2. v = e + 0
      BY <2>3, <2>4, <3>1
    <3>. QED BY <3>1, <3>2
  <2>6. c # 0
    <3>1. 0 * d = 0
      BY <2>2
    <3>. QED BY <1>2, <2>5, <3>1
  <2>. QED BY <2>2, <2>5, <2>6
<1>5. Unit \in Ulps /\ \E u \in Ulps : Unit = Top * u
  BY FloatsAssumption
<1>. QED BY <1>1, <1>2, <1>3, <1>4, <1>5

\* Of two ulps the smaller divides the larger.
LEMMA UlpDivides ==
    ASSUME NEW u \in Ulps, NEW v \in Ulps, u <= v
    PROVE  \E c \in Nat : c >= 1 /\ v = c * u
<1>1. u \in Nat /\ v \in Nat
  BY FloatFacts
<1>2. CASE u = v
  BY <1>1, <1>2, v = 1 * u
<1>3. CASE u < v
  <2>1. PICK c \in Nat : c >= 1 /\ v = c * (2 * u)
    BY <1>3, FloatFacts
  <2>2. c * (2 * u) = (2 * c) * u /\ 2 * c \in Nat /\ 2 * c >= 1
    BY <1>1, <2>1
  <2>. QED BY <2>1, <2>2
<1>. QED BY <1>1, <1>2, <1>3

\* Quotient and remainder of an integer.
LEMMA DivModInt ==
    ASSUME NEW z \in Int, NEW d \in Nat, d >= 1
    PROVE  \E k \in Int, r \in Nat : k = z \div d /\ r = z % d /\ z = k * d + r /\ r < d
<1>1. z \div d \in Int /\ z % d \in Nat /\ z % d < d
  BY SMTT(60)
<1>2. z = (z \div d) * d + (z % d)
  BY SMTT(60)
<1>. QED BY <1>1, <1>2, Zenon

\* They are the only ones.
LEMMA DivModIntOf ==
    ASSUME NEW z \in Int, NEW d \in Nat, d >= 1, NEW k \in Int, NEW r \in Nat, z = k * d + r, r < d
    PROVE  z \div d = k /\ z % d = r
<1>1. PICK j \in Int, s \in Nat : j = z \div d /\ s = z % d /\ z = j * d + s /\ s < d
  BY DivModInt
<1>2. PICK x \in Int, y \in Int : x = k * d /\ y = j * d /\ x + r = y + s
  BY <1>1
<1>3. ~(k < j)
  <2>. SUFFICES ASSUME k < j PROVE FALSE
    OBVIOUS
  <2>1. PICK e \in Nat : j = k + 1 + e
    <3>1. j - k - 1 \in Nat /\ j = k + 1 + (j - k - 1)
      OBVIOUS
    <3>. QED BY <3>1
  <2>2. (k + 1 + e) * d = k * d + d + e * d /\ e * d \in Nat
    OBVIOUS
  <2>. QED BY <1>1, <1>2, <2>1, <2>2
<1>4. ~(j < k)
  <2>. SUFFICES ASSUME j < k PROVE FALSE
    OBVIOUS
  <2>1. PICK e \in Nat : k = j + 1 + e
    <3>1. k - j - 1 \in Nat /\ k = j + 1 + (k - j - 1)
      OBVIOUS
    <3>. QED BY <3>1
  <2>2. (j + 1 + e) * d = j * d + d + e * d /\ e * d \in Nat
    OBVIOUS
  <2>. QED BY <1>1, <1>2, <2>1, <2>2
<1>5. j = k
  BY <1>3, <1>4
<1>. QED BY <1>1, <1>2, <1>5

\* To the nearest multiple of u.
RoundAt(z, u) ==
    LET k == z \div u
        above == 2 * (z % u)
    IN  IF above > u \/ (above = u /\ k % 2 = 1) THEN (k + 1) * u ELSE k * u

\* The result is one of the two multiples around z; a multiple stays.
LEMMA RoundAtNear ==
    ASSUME NEW z \in Int, NEW u \in Nat, u >= 1
    PROVE  \E k \in Int, r \in Nat, up \in {0, 1} :
             /\ z = k * u + r /\ r < u /\ RoundAt(z, u) = (k + up) * u
             /\ up = 1 <=> 2 * r > u \/ (2 * r = u /\ k % 2 = 1)
<1>1. PICK k \in Int, r \in Nat : k = z \div u /\ r = z % u /\ z = k * u + r /\ r < u
  BY DivModInt
<1>2. RoundAt(z, u) = IF 2 * r > u \/ (2 * r = u /\ k % 2 = 1) THEN (k + 1) * u ELSE k * u
  BY <1>1 DEF RoundAt
<1>. DEFINE U == 2 * r > u \/ (2 * r = u /\ k % 2 = 1)
<1>. HIDE DEF U
<1>3. RoundAt(z, u) = IF U THEN (k + 1) * u ELSE k * u
  BY <1>2 DEF U
<1>4. PICK up \in {0, 1} : (up = 1 <=> U) /\ RoundAt(z, u) = (k + up) * u
  <2>1. CASE U
    BY <1>3, <2>1
  <2>2. CASE ~U
    <3>1. k * u = (k + 0) * u
      OBVIOUS
    <3>. QED BY <1>3, <2>2, <3>1
  <2>. QED BY <2>1, <2>2
<1>5. up = 1 <=> 2 * r > u \/ (2 * r = u /\ k % 2 = 1)
  BY <1>4 DEF U
<1>. QED BY <1>1, <1>4, <1>5

LEMMA RoundAtKeeps ==
    ASSUME NEW k \in Int, NEW u \in Nat, u >= 1
    PROVE  RoundAt(k * u, u) = k * u
<1>1. PICK z \in Int : z = k * u
  OBVIOUS
<1>2. z \div u = k /\ z % u = 0
  BY <1>1, DivModIntOf, z = k * u + 0
<1>. QED BY <1>1, <1>2 DEF RoundAt

LEMMA RoundAtRises ==
    ASSUME NEW z \in Int, NEW y \in Int, z <= y, NEW u \in Nat, u >= 1
    PROVE  RoundAt(z, u) <= RoundAt(y, u) /\ RoundAt(z, u) \in Int /\ RoundAt(y, u) \in Int
<1>1. PICK k \in Int, r \in Nat, up \in {0, 1} :
         /\ z = k * u + r /\ r < u /\ RoundAt(z, u) = (k + up) * u
         /\ up = 1 <=> 2 * r > u \/ (2 * r = u /\ k % 2 = 1)
  BY RoundAtNear
<1>2. PICK j \in Int, s \in Nat, on \in {0, 1} :
         /\ y = j * u + s /\ s < u /\ RoundAt(y, u) = (j + on) * u
         /\ on = 1 <=> 2 * s > u \/ (2 * s = u /\ j % 2 = 1)
  BY RoundAtNear
<1>3. PICK A \in Int, B \in Int : A = k * u /\ B = j * u /\ z = A + r /\ y = B + s
  BY <1>1, <1>2
<1>4. RoundAt(z, u) = (IF up = 1 THEN A + u ELSE A) /\ RoundAt(y, u) = (IF on = 1 THEN B + u ELSE B)
  <2>1. (k + 1) * u = k * u + u /\ (j + 1) * u = j * u + u /\ (k + 0) * u = k * u /\ (j + 0) * u = j * u
    OBVIOUS
  <2>. QED BY <1>1, <1>2, <1>3, <2>1
<1>5. CASE k < j
  <2>1. A + u <= B
    <3>1. PICK e \in Nat : j = k + 1 + e
      <4>1. j - k - 1 \in Nat /\ j = k + 1 + (j - k - 1)
        BY <1>5
      <4>. QED BY <4>1
    <3>2. (k + 1 + e) * u = k * u + u + e * u /\ e * u \in Nat
      OBVIOUS
    <3>. QED BY <1>3, <3>1, <3>2
  <2>. QED BY <1>3, <1>4, <2>1
<1>6. CASE k = j
  <2>1. A = B /\ r <= s
    BY <1>3, <1>6
  <2>2. up = 1 => on = 1
    BY <1>1, <1>2, <1>6, <2>1
  <2>. QED BY <1>3, <1>4, <2>1, <2>2
<1>7. CASE k > j
  <2>1. PICK e \in Nat : k = j + 1 + e
    <3>1. k - j - 1 \in Nat /\ k = j + 1 + (k - j - 1)
      BY <1>7
    <3>. QED BY <3>1
  <2>2. (j + 1 + e) * u = j * u + u + e * u /\ e * u \in Nat
    OBVIOUS
  <2>. QED BY <1>1, <1>2, <1>3, <2>1, <2>2
<1>. QED BY <1>5, <1>6, <1>7

\* z is smaller than the largest float.
Within(z, u) == -(Top * u) < z /\ z < Top * u
InRange(z) == \E w \in Ulps : Within(z, w)

LEMMA UlpOf ==
    ASSUME NEW z \in Int, InRange(z)
    PROVE  /\ Ulp(z) \in Ulps /\ Within(z, Ulp(z))
           /\ \A v \in Ulps : Within(z, v) => Ulp(z) <= v
           /\ Round(z) = RoundAt(z, Ulp(z))
<1>. DEFINE S == {w \in Ulps : Within(z, w)}
<1>1. S \in SUBSET Nat /\ S # {}
  BY FloatFacts DEF InRange
<1>2. PICK u \in S : \A v \in S : u <= v
  <2>. HIDE DEF S
  <2>. QED BY <1>1, LeastNatural
<1>3. u \in Ulps /\ Within(z, u) /\ \A v \in Ulps : Within(z, v) => u <= v
  BY <1>2
<1>4. Ulp(z) = CHOOSE w \in Ulps : Within(z, w) /\ \A v \in Ulps : Within(z, v) => w <= v
  BY DEF Ulp, Within
<1>5. Round(z) = RoundAt(z, Ulp(z))
  BY DEF Round, RoundAt
<1>. QED BY <1>3, <1>4, <1>5

\* A multiple of an ulp with few enough bits is a float.
LEMMA RoundKeeps ==
    ASSUME NEW k \in Int, NEW u \in Ulps, -Top <= k, k <= Top, InRange(k * u)
    PROVE  Round(k * u) = k * u
<1>1. PICK z \in Int, w \in Nat : z = k * u /\ w = u /\ w >= 1
  BY FloatFacts
<1>2. PICK v \in Nat : v = Ulp(z) /\ v \in Ulps /\ v >= 1 /\ Within(z, v)
                       /\ (\A x \in Ulps : Within(z, x) => v <= x) /\ Round(z) = RoundAt(z, v)
  BY <1>1, UlpOf, FloatFacts
<1>3. \E j \in Int : z = j * v
  <2>1. CASE -Top < k /\ k < Top
    <3>1. Within(z, u)
      <4>1. PICK b \in Nat, c \in Nat : b >= 1 /\ c >= 1 /\ Top = k + b /\ k + Top = c
        <5>1. Top - k \in Nat /\ k + Top \in Nat /\ Top = k + (Top - k) /\ Top - k >= 1 /\ k + Top >= 1
          BY <2>1, FloatFacts
        <5>. QED BY <5>1
      <4>2. (k + b) * w = k * w + b * w /\ c * w >= 1 /\ b * w >= 1
        BY <1>1, <4>1
      <4>3. (k + Top) * w = k * w + Top * w /\ Top * w \in Nat /\ k * w \in Int
        BY FloatFacts
      <4>. QED BY <1>1, <4>1, <4>2, <4>3 DEF Within
    <3>2. PICK c \in Nat : u = c * v
      BY <1>2, <3>1, UlpDivides
    <3>3. k * (c * v) = (k * c) * v
      OBVIOUS
    <3>. QED BY <1>1, <3>2, <3>3
  <2>2. CASE k = Top \/ k = -Top
    <3>1. PICK h \in Nat : Top = 2 * h
      BY FloatFacts
    <3>2. ~Within(z, u) /\ ~(v <= w)
      <4>1. Top * w \in Nat /\ (-Top) * w = -(Top * w) /\ Top \in Nat
        BY FloatFacts
      <4>2. ~Within(z, u)
        BY <1>1, <2>2, <4>1 DEF Within
      <4>3. ASSUME v <= w PROVE FALSE
        <5>1. Top * v <= Top * w /\ Top * v \in Nat
          BY <4>3, FloatFacts
        <5>2. Within(z, v)
          BY <1>2
        <5>. QED BY <1>1, <4>1, <4>2, <5>1, <5>2 DEF Within
      <4>. QED BY <4>2, <4>3
    <3>3. PICK c \in Nat : c >= 1 /\ v = c * (2 * w)
      <4>1. u \in Ulps /\ v \in Ulps /\ u < v
        BY <1>1, <1>2, <3>2
      <4>2. PICK d \in Nat : d >= 1 /\ v = d * (2 * u)
        BY <4>1, FloatFacts
      <4>. QED BY <1>1, <4>2
    <3>4. PICK x \in Ulps : v = 2 * x
      <4>1. v # 1
        BY <1>1, <3>2
      <4>. QED BY <1>2, <4>1, FloatFacts
    <3>5. x \in Nat /\ x >= 1 /\ x < v
      BY <3>4, FloatFacts
    <3>6. ~Within(z, x)
      BY <1>2, <3>5
    <3>7. ~(w < x)
      <4>. SUFFICES ASSUME w < x PROVE FALSE
        OBVIOUS
      <4>1. PICK e \in Nat : x = w + e /\ e >= 1
        <5>1. x - w \in Nat /\ x = w + (x - w) /\ x - w >= 1
          BY <3>5
        <5>. QED BY <5>1
      <4>2. Top * (w + e) = Top * w + Top * e /\ Top * e >= 1 /\ Top * w \in Nat /\ Top * e \in Nat
        BY <4>1, FloatFacts
      <4>3. (-Top) * w = -(Top * w)
        BY FloatFacts
      <4>. QED BY <1>1, <2>2, <3>6, <4>1, <4>2, <4>3 DEF Within
    <3>8. w = x
      <4>1. c * w \in Nat /\ c * (2 * w) = 2 * (c * w)
        OBVIOUS
      <4>2. x = c * w
        BY <3>3, <3>4, <3>5, <4>1
      <4>3. c * w >= w
        BY <3>3
      <4>. QED BY <3>5, <3>7, <4>2, <4>3
    <3>9. h * v = Top * w /\ (-h) * v = (-Top) * w
      <4>1. h * (2 * w) = (2 * h) * w /\ (-h) * (2 * w) = (-(2 * h)) * w
        OBVIOUS
      <4>. QED BY <3>1, <3>4, <3>8, <4>1
    <3>10. z = Top * w \/ z = (-Top) * w
      BY <1>1, <2>2
    <3>11. -h \in Int /\ h \in Int
      OBVIOUS
    <3>. QED BY <3>9, <3>10, <3>11
  <2>3. k \in Int /\ Top \in Nat
    BY FloatFacts
  <2>. QED BY <2>1, <2>2, <2>3
<1>. QED BY <1>1, <1>2, <1>3, RoundAtKeeps


LEMMA UlpIs ==
    ASSUME NEW z \in Int, InRange(z)
    PROVE  \E u \in Nat : /\ u = Ulp(z) /\ u \in Ulps /\ u >= 1 /\ Within(z, u)
                          /\ Round(z) = RoundAt(z, u) /\ \A v \in Ulps : Within(z, v) => u <= v
<1>1. PICK u \in Ulps : u = Ulp(z)
  BY UlpOf
<1>2. u \in Nat /\ u >= 1
  BY FloatFacts
<1>3. Within(z, u) /\ Round(z) = RoundAt(z, u) /\ \A v \in Ulps : Within(z, v) => u <= v
  BY <1>1, UlpOf
<1>. QED BY <1>1, <1>2, <1>3

LEMMA Naturals ==
    /\ Top \in Nat /\ Top >= 2 /\ Unit \in Nat /\ Unit >= 1
    /\ \A u \in Ulps : u \in Nat /\ u >= 1 /\ Top * u \in Nat
BY FloatFacts

\* An integer and its multiple, without a product of two variables under a comparison.
LEMMA TimesRises ==
    ASSUME NEW i \in Int, NEW j \in Int, i <= j, NEW d \in Nat
    PROVE  i * d <= j * d /\ i * d \in Int /\ j * d \in Int
<1>1. PICK e \in Nat : j = i + e
  <2>1. j - i \in Nat /\ j = i + (j - i)
    OBVIOUS
  <2>. QED BY <2>1
<1>2. (i + e) * d = i * d + e * d /\ e * d \in Nat /\ i * d \in Int
  OBVIOUS
<1>. QED BY <1>1, <1>2

LEMMA TimesLess ==
    ASSUME NEW i \in Int, NEW j \in Int, NEW d \in Nat, d >= 1, i * d < j * d
    PROVE  i < j
<1>. SUFFICES ASSUME j <= i PROVE FALSE
  OBVIOUS
<1>1. j * d <= i * d /\ i * d \in Int /\ j * d \in Int
  BY TimesRises
<1>. QED BY <1>1

\* The result of rounding is at most half a multiple away, and not negative if z is not.
LEMMA RoundAtClose ==
    ASSUME NEW z \in Int, NEW u \in Nat, u >= 1
    PROVE  /\ RoundAt(z, u) \in Int
           /\ 2 * (RoundAt(z, u) - z) <= u /\ 2 * (z - RoundAt(z, u)) <= u
           /\ z >= 0 => RoundAt(z, u) >= 0
<1>1. PICK k \in Int, r \in Nat, up \in {0, 1} :
         /\ z = k * u + r /\ r < u /\ RoundAt(z, u) = (k + up) * u
         /\ up = 1 <=> 2 * r > u \/ (2 * r = u /\ k % 2 = 1)
  BY RoundAtNear
<1>2. PICK A \in Int : A = k * u /\ z = A + r
  BY <1>1
<1>3. RoundAt(z, u) = IF up = 1 THEN A + u ELSE A
  <2>1. (k + 1) * u = k * u + u /\ (k + 0) * u = k * u
    OBVIOUS
  <2>. QED BY <1>1, <1>2, <2>1
<1>4. ASSUME z >= 0 PROVE RoundAt(z, u) >= 0
  <2>1. RoundAt(0 * u, u) = 0 * u /\ 0 * u = 0
    BY RoundAtKeeps
  <2>. QED BY <1>4, <2>1, RoundAtRises
<1>5. CASE up = 1
  BY <1>1, <1>2, <1>3, <1>4, <1>5
<1>6. CASE up # 1
  BY <1>1, <1>2, <1>3, <1>4, <1>6
<1>. QED BY <1>5, <1>6

\* With an ulp of more than 1, z is too large for half of it.
LEMMA UlpHalf ==
    ASSUME NEW z \in Nat, InRange(z), Ulp(z) # 1
    PROVE  \E x \in Ulps : Ulp(z) = 2 * x /\ Top * x <= z /\ x \in Nat /\ Top * x \in Nat
<1>1. Ulp(z) \in Ulps /\ \A v \in Ulps : Within(z, v) => Ulp(z) <= v
  BY UlpOf
<1>2. PICK x \in Ulps : Ulp(z) = 2 * x
  BY <1>1, FloatFacts
<1>3. x \in Nat /\ x >= 1 /\ Top * x \in Nat
  BY FloatFacts
<1>4. ~(Ulp(z) <= x)
  BY <1>2, <1>3
<1>5. ~Within(z, x)
  BY <1>1, <1>4
<1>. QED BY <1>2, <1>3, <1>5 DEF Within

\* Rounding keeps the order, also where the ulp changes.
LEMMA RoundRises ==
    ASSUME NEW z \in Nat, NEW y \in Nat, z <= y, InRange(y)
    PROVE  Round(z) <= Round(y) /\ Round(z) \in Nat /\ Round(y) \in Nat
<1>1. PICK v \in Nat : v = Ulp(y) /\ v \in Ulps /\ v >= 1 /\ Within(y, v) /\ Round(y) = RoundAt(y, v)
                       /\ (\A x \in Ulps : Within(y, x) => v <= x)
  BY UlpIs
<1>2. Top * v \in Nat
  BY FloatFacts
<1>3. Within(z, v)
  BY <1>1, <1>2 DEF Within
<1>4. InRange(z)
  BY <1>1, <1>3 DEF InRange
<1>5. PICK u \in Nat : u = Ulp(z) /\ u \in Ulps /\ u >= 1 /\ Within(z, u) /\ Round(z) = RoundAt(z, u)
                       /\ u <= v
  BY <1>1, <1>3, <1>4, UlpIs
<1>6. /\ RoundAt(z, u) \in Int /\ RoundAt(z, u) >= 0
      /\ RoundAt(y, v) \in Int /\ RoundAt(y, v) >= 0
  BY <1>1, <1>5, RoundAtClose
<1>7. CASE u = v
  BY <1>1, <1>5, <1>6, <1>7, RoundAtRises
<1>8. CASE u < v
  <2>1. PICK x \in Ulps : v = 2 * x /\ Top * x <= y /\ x \in Nat /\ Top * x \in Nat
    <3>1. Ulp(y) # 1
      BY <1>1, <1>5, <1>8
    <3>. QED BY <1>1, <3>1, UlpHalf
  <2>2. PICK h \in Nat : Top = 2 * h
    BY FloatFacts
  <2>3. h * v = Top * x
    <3>1. h * (2 * x) = (2 * h) * x
      BY <2>1
    <3>. QED BY <2>1, <2>2, <3>1
  <2>4. Top * x <= RoundAt(y, v)
    <3>1. RoundAt(h * v, v) = h * v
      <4>1. h \in Int /\ v \in Nat /\ v >= 1
        BY <1>1
      <4>. QED BY <4>1, RoundAtKeeps
    <3>2. h * v <= y /\ h * v \in Int
      BY <2>1, <2>3
    <3>3. RoundAt(h * v, v) <= RoundAt(y, v)
      BY <1>1, <3>2, RoundAtRises
    <3>. QED BY <2>3, <3>1, <3>3
  <2>5. RoundAt(z, u) <= Top * u /\ Top * u \in Nat
    <3>1. RoundAt(Top * u, u) = Top * u /\ Top * u \in Nat
      <4>1. Top \in Int /\ u \in Nat /\ u >= 1 /\ Top * u \in Nat
        BY <1>5, Naturals
      <4>. QED BY <4>1, RoundAtKeeps
    <3>2. z <= Top * u
      BY <1>5, <3>1 DEF Within
    <3>. QED BY <1>5, <3>1, <3>2, RoundAtRises
  <2>6. Top * u <= Top * x
    <3>1. PICK c \in Nat : c >= 1 /\ v = c * (2 * u)
      BY <1>1, <1>5, <1>8, FloatFacts
    <3>2. c * (2 * u) = 2 * (c * u) /\ c * u \in Nat
      OBVIOUS
    <3>3. x = c * u
      BY <2>1, <3>1, <3>2
    <3>4. 1 * u <= c * u
      BY <3>1, TimesRises
    <3>5. u <= x
      BY <3>3, <3>4
    <3>6. u * Top <= x * Top /\ u * Top = Top * u /\ x * Top = Top * x
      BY <2>1, <3>5, TimesRises, FloatFacts
    <3>. QED BY <3>6
  <2>. QED BY <1>1, <1>5, <1>6, <2>1, <2>4, <2>5, <2>6
<1>. QED BY <1>5, <1>7, <1>8

\* What is no more than half of the largest float rounds to a float.
LEMMA RangeRound ==
    ASSUME NEW z \in Int, NEW w \in Ulps, 2 * z <= Top * w, -(Top * w) <= 2 * z
    PROVE  InRange(z) /\ Round(z) \in Int /\ Within(Round(z), w) /\ InRange(Round(z))
<1>1. w \in Nat /\ w >= 1 /\ Top \in Nat /\ Top >= 2
  BY FloatFacts
<1>2. PICK W \in Nat : W = Top * w /\ 2 * w <= W
  <2>1. 2 * w <= Top * w /\ Top * w \in Nat
    BY <1>1, TimesRises
  <2>. QED BY <2>1
<1>3. Within(z, w)
  BY <1>1, <1>2 DEF Within
<1>4. InRange(z)
  BY <1>3 DEF InRange
<1>5. PICK u \in Nat : u >= 1 /\ u <= w /\ Round(z) = RoundAt(z, u)
  BY <1>3, <1>4, UlpOf, FloatFacts
<1>6. PICK R \in Int : R = Round(z) /\ 2 * (R - z) <= u /\ 2 * (z - R) <= u
  BY <1>5, RoundAtClose
<1>7. Within(R, w)
  <2>1. -W < R /\ R < W
    BY <1>1, <1>2, <1>5, <1>6
  <2>. QED BY <1>2, <2>1 DEF Within
<1>. QED BY <1>4, <1>6, <1>7 DEF InRange

\* The result of a rounding has few enough bits.
LEMMA FewBits ==
    ASSUME NEW z \in Int, InRange(z)
    PROVE  \E k \in Int : Round(z) = k * Ulp(z) /\ -Top <= k /\ k <= Top
<1>1. PICK u \in Nat : u = Ulp(z) /\ u >= 1 /\ Within(z, u) /\ Round(z) = RoundAt(z, u)
  BY UlpIs
<1>2. PICK k \in Int, r \in Nat, up \in {0, 1} :
         z = k * u + r /\ r < u /\ RoundAt(z, u) = (k + up) * u
  BY <1>1, RoundAtNear, ZenonT(120)
<1>3. Top \in Nat
  BY FloatFacts
<1>4. PICK A \in Int : A = k * u /\ z = A + r
  BY <1>2
<1>5. k < Top
  <2>1. k * u < Top * u
    <3>1. Top * u \in Nat /\ A < Top * u
      BY <1>1, <1>3, <1>4 DEF Within
    <3>. QED BY <1>4, <3>1
  <2>. QED BY <1>1, <1>3, <2>1, TimesLess
<1>6. -Top <= k
  <2>1. (-Top) * u < (k + 1) * u
    <3>1. (-Top) * u = -(Top * u) /\ (k + 1) * u = k * u + u /\ Top * u \in Nat
      BY <1>3
    <3>2. -(Top * u) < A + u
      BY <1>1, <1>2, <1>4, <3>1 DEF Within
    <3>. QED BY <1>4, <3>1, <3>2
  <2>2. -Top < k + 1
    <3>1. -Top \in Int /\ k + 1 \in Int
      BY <1>3
    <3>. QED BY <1>1, <2>1, <3>1, TimesLess
  <2>. QED BY <1>3, <2>2
<1>7. k + up \in Int /\ -Top <= k + up /\ k + up <= Top
  BY <1>3, <1>5, <1>6
<1>. QED BY <1>1, <1>2, <1>7

\* A float stays what it is.
LEMMA RoundTwice ==
    ASSUME NEW z \in Int, InRange(z), InRange(Round(z))
    PROVE  Round(Round(z)) = Round(z)
<1>1. PICK k \in Int : Round(z) = k * Ulp(z) /\ -Top <= k /\ k <= Top
  BY FewBits
<1>2. Ulp(z) \in Ulps
  BY UlpOf
<1>. QED BY <1>1, <1>2, RoundKeeps

\* The greatest float below 1.
LEMMA BelowUnit ==
    ASSUME NEW f \in Nat, f < Unit, Round(f) = f
    PROVE  Top * (Unit - f) >= Unit
<1>1. PICK u \in Ulps : Unit = Top * u
  BY FloatFacts
<1>2. u \in Nat /\ u >= 1 /\ Top \in Nat /\ Top >= 2 /\ Unit \in Nat
  BY FloatFacts
<1>3. Within(f, u)
  BY <1>1, <1>2 DEF Within
<1>4. InRange(f)
  BY <1>3 DEF InRange
<1>5. PICK v \in Nat : v = Ulp(f) /\ v \in Ulps /\ v >= 1 /\ Within(f, v) /\ v <= u
  BY <1>3, <1>4, UlpIs
<1>6. u <= Unit - f
  <2>1. CASE v = u
    <3>1. PICK k \in Int : f = k * u
      <4>1. \E k \in Int : Round(f) = k * Ulp(f)
        BY <1>4, FewBits
      <4>. QED BY <1>5, <2>1, <4>1
    <3>2. k < Top
      BY <1>1, <1>2, <3>1, TimesLess
    <3>3. (k + 1) * u <= Top * u /\ (k + 1) * u = k * u + u
      BY <1>2, <3>2, TimesRises
    <3>. QED BY <1>1, <1>2, <3>1, <3>3
  <2>2. CASE v < u
    <3>1. PICK c \in Nat : c >= 1 /\ u = c * (2 * v)
      BY <1>5, <2>2, FloatFacts
    <3>2. 2 * v <= u
      <4>1. 1 * (2 * v) <= c * (2 * v)
        BY <3>1, TimesRises
      <4>. QED BY <3>1, <4>1
    <3>3. (2 * v) * Top <= u * Top /\ (2 * v) * Top = 2 * (Top * v) /\ u * Top = Top * u /\ Top * v \in Nat
      BY <1>2, <3>2, TimesRises
    <3>4. 2 * f < Unit
      BY <1>1, <1>2, <1>5, <3>3 DEF Within
    <3>5. 2 * u <= Unit
      <4>1. 2 * u <= Top * u
        BY <1>2, TimesRises
      <4>. QED BY <1>1, <4>1
    <3>. QED BY <1>2, <3>4, <3>5
  <2>. QED BY <1>5, <2>1, <2>2
<1>7. Unit - f \in Nat /\ u * Top <= (Unit - f) * Top
  <2>1. Unit - f \in Nat
    BY <1>2
  <2>. QED BY <1>2, <1>6, <2>1, TimesRises
<1>8. (Unit - f) * Top = Top * (Unit - f) /\ u * Top = Top * u
  BY <1>2, <1>7
<1>. QED BY <1>1, <1>2, <1>7, <1>8

-----------------------------------------------------------------------------
(* Median and Quantile: the operators.                                     *)

\* What an input is.
LEMMA InputFacts ==
    ASSUME input \in Inputs
    PROVE  /\ Least \in Int /\ Greatest \in Int /\ Least <= 0 /\ 0 < Greatest
           /\ a \in Seq(Least .. Greatest) /\ n \in Nat /\ n >= 1 /\ n <= Top
           /\ \A i \in 1 .. n : a[i] \in Int /\ Least <= a[i] /\ a[i] <= Greatest
           /\ \A i, j \in 1 .. n : i <= j => a[i] <= a[j]
<1>1. /\ Least \in Int /\ Greatest \in Int /\ Least <= 0 /\ 0 < Greatest
      /\ a \in Seq(Least .. Greatest) /\ a # <<>> /\ Len(a) <= Top
      /\ \A i, j \in DOMAIN a : i <= j => a[i] <= a[j]
  BY InputsAssumption DEF Least, Greatest, a
<1>2. n \in Nat /\ DOMAIN a = 1 .. n /\ n # 0 /\ n <= Top
  BY <1>1 DEF n
<1>3. \A i \in 1 .. n : a[i] \in Least .. Greatest
  BY <1>1, <1>2
<1>. QED BY <1>1, <1>2, <1>3, SMTT(120)

\* The floats of the gaps have room.
LEMMA GapRange ==
    ASSUME input \in Inputs, NEW g \in Int, Least <= g, g <= Greatest
    PROVE  \E w \in Ulps : 2 * (g * Unit) <= Top * w /\ -(Top * w) <= 2 * (g * Unit)
<1>1. PICK w \in Ulps : 2 * (Greatest - Least) * Unit <= Top * w
  BY InputsAssumption DEF Greatest, Least
<1>2. PICK G \in Nat : G = Greatest - Least /\ g <= G /\ -G <= g
  <2>1. Greatest - Least \in Nat /\ g <= Greatest - Least /\ -(Greatest - Least) <= g
    BY InputFacts
  <2>. QED BY <2>1
<1>3. Top * w \in Nat /\ Unit \in Nat
  BY Naturals
<1>4. 2 * G * Unit = 2 * (G * Unit) /\ G * Unit \in Nat /\ (-G) * Unit = -(G * Unit)
  BY <1>3
<1>5. 2 * (G * Unit) <= Top * w
  BY <1>1, <1>2, <1>4
<1>6. g * Unit <= G * Unit /\ (-G) * Unit <= g * Unit /\ g * Unit \in Int
  BY <1>2, <1>3, TimesRises
<1>. QED BY <1>3, <1>4, <1>5, <1>6

\* An integer of more bits than Top is rounded to an integer, one of fewer is kept.
LEMMA FloatIs ==
    ASSUME input \in Inputs, NEW g \in Int, Least <= g, g <= Greatest
    PROVE  /\ InRange(g * Unit) /\ InRange(Float(g))
           /\ \E c \in Int : Float(g) = c * Unit
           /\ \/ Float(g) = g * Unit
              \/ \E u \in Ulps : u = Ulp(g * Unit) /\ Unit < u
<1>1. PICK z \in Int, U \in Nat : z = g * Unit /\ U = Unit /\ U >= 1
  <2>1. g * Unit \in Int
    BY Naturals
  <2>. QED BY <2>1, Naturals
<1>2. InRange(z) /\ InRange(Round(z))
  <2>1. PICK w \in Ulps : 2 * (g * Unit) <= Top * w /\ -(Top * w) <= 2 * (g * Unit)
    BY GapRange
  <2>2. 2 * z <= Top * w /\ -(Top * w) <= 2 * z
    BY <1>1, <2>1
  <2>. QED BY <2>2, RangeRound
<1>3. PICK u \in Nat : u = Ulp(z) /\ u \in Ulps /\ u >= 1 /\ Round(z) = RoundAt(z, u)
  BY <1>2, UlpIs
<1>4. CASE u <= Unit
  <2>1. PICK c \in Nat : Unit = c * u
    <3>1. u \in Ulps /\ Unit \in Ulps
      BY <1>3, FloatFacts
    <3>. QED BY <1>4, <3>1, UlpDivides
  <2>2. g * (c * u) = (g * c) * u /\ g * c \in Int
    BY <1>3
  <2>3. RoundAt((g * c) * u, u) = (g * c) * u
    BY <1>3, <2>2, RoundAtKeeps
  <2>. QED BY <1>1, <1>2, <1>3, <2>1, <2>2, <2>3 DEF Float
<1>5. CASE Unit < u
  <2>1. PICK c \in Nat : u = c * Unit
    <3>1. u \in Ulps /\ Unit \in Ulps
      BY <1>3, FloatFacts
    <3>. QED BY <1>1, <1>5, <3>1, UlpDivides
  <2>2. PICK k \in Int : Round(z) = k * u
    BY <1>2, <1>3, FewBits
  <2>3. k * (c * Unit) = (k * c) * Unit /\ k * c \in Int
    BY Naturals
  <2>. QED BY <1>1, <1>2, <1>3, <1>5, <2>1, <2>2, <2>3 DEF Float
<1>. QED BY <1>1, <1>3, <1>4, <1>5

\* A part of a float is no more than the float.
LEMMA PartOf ==
    ASSUME NEW f \in Nat, NEW R \in Nat, f < Unit
    PROVE  (f * R) \div Unit \in Nat /\ (f * R) \div Unit <= R
           /\ \E r \in Nat : f * R = ((f * R) \div Unit) * Unit + r /\ r < Unit
<1>1. PICK U \in Nat : U = Unit /\ U >= 1
  BY Naturals
<1>2. PICK p \in Nat : p = f * R
  OBVIOUS
<1>3. PICK e \in Nat, r \in Nat : e = p \div U /\ p = e * U + r /\ r < U
  <2>1. p \div U \in Nat /\ p % U \in Nat /\ p % U < U /\ p = (p \div U) * U + (p % U)
    BY <1>1, DivMod
  <2>. QED BY <2>1, Zenon
<1>4. e <= R
  <2>. SUFFICES ASSUME R + 1 <= e PROVE FALSE
    OBVIOUS
  <2>1. (R + 1) * U <= e * U /\ (R + 1) * U = R * U + U /\ e * U \in Nat
    BY TimesRises
  <2>2. f * R <= U * R /\ U * R = R * U /\ R * U \in Nat
    BY <1>1, TimesRises
  <2>. QED BY <1>1, <1>2, <1>3, <2>1, <2>2
<1>. QED BY <1>1, <1>2, <1>3, <1>4

\* A fraction of a gap is no more than the gap, although the gap may be rounded up.
LEMMA ProductBound ==
    ASSUME input \in Inputs, NEW f \in Nat, f < Unit, Round(f) = f,
           NEW g \in Nat, g <= Greatest
    PROVE  Product(f, Float(g)) \in Nat /\ Product(f, Float(g)) <= g * Unit
<1>1. PICK m \in Nat : m = g * Unit
  <2>1. g * Unit \in Nat
    BY Naturals
  <2>. QED BY <2>1
<1>2. InRange(m) /\ InRange(Float(g)) /\ Float(g) = Round(m)
  <2>1. Least <= g /\ g \in Int
    BY InputFacts
  <2>. QED BY <1>1, <2>1, FloatIs DEF Float
<1>3. PICK R \in Nat : R = Float(g) /\ InRange(R) /\ Round(R) = R
  <2>1. Round(m) \in Nat
    BY <1>2, RoundRises
  <2>2. Round(Round(m)) = Round(m)
    BY <1>2, RoundTwice
  <2>. QED BY <1>2, <2>1, <2>2
<1>4. PICK e \in Nat, r \in Nat : e = (f * R) \div Unit /\ e <= R /\ f * R = e * Unit + r
  <2>1. PICK e \in Nat : e = (f * R) \div Unit /\ e <= R
    BY PartOf
  <2>2. PICK r \in Nat : f * R = e * Unit + r
    BY <2>1, PartOf
  <2>. QED BY <2>1, <2>2
<1>5. Product(f, Float(g)) = Round(e)
  BY <1>3, <1>4 DEF Product
<1>6. Round(e) \in Nat /\ Round(e) <= R
  BY <1>3, <1>4, RoundRises
<1>7. CASE R <= m
  BY <1>1, <1>5, <1>6, <1>7
<1>8. CASE m < R
  <2>1. PICK u \in Nat : /\ u = Ulp(m) /\ u \in Ulps /\ u >= 1 /\ Unit < u
                         /\ Within(m, u) /\ R = RoundAt(m, u)
    <3>1. PICK v \in Ulps : v = Ulp(m) /\ Unit < v
      <4>1. Float(g) # g * Unit /\ Least <= g /\ g \in Int
        BY <1>1, <1>3, <1>8, InputFacts
      <4>. QED BY <1>1, <4>1, FloatIs
    <3>2. PICK u \in Nat : u = Ulp(m) /\ u \in Ulps /\ u >= 1 /\ Within(m, u) /\ Round(m) = RoundAt(m, u)
      BY <1>2, UlpIs
    <3>. QED BY <1>2, <1>3, <3>1, <3>2
  <2>2. PICK x \in Ulps : u = 2 * x /\ Top * x <= m /\ x \in Nat /\ Top * x \in Nat
    <3>1. Ulp(m) # 1
      BY <2>1, Naturals
    <3>. QED BY <1>2, <2>1, <3>1, UlpHalf
  <2>3. PICK h \in Nat : Top = 2 * h /\ h >= 1
    BY FloatFacts
  <2>4. Top * x = h * u /\ Top * u = 2 * (h * u) /\ h * u \in Nat
    <3>1. h * (2 * x) = (2 * h) * x /\ (2 * h) * u = 2 * (h * u) /\ h * u \in Nat
      BY <2>2
    <3>. QED BY <2>2, <2>3, <3>1
  <2>5. PICK k \in Int, K \in Int : K = k * u /\ R = K + u /\ K <= m /\ m < K + u
    <3>1. PICK k \in Int, s \in Nat, up \in {0, 1} :
             m = k * u + s /\ s < u /\ RoundAt(m, u) = (k + up) * u
      <4>1. m \in Int /\ u \in Nat /\ u >= 1
        BY <2>1
      <4>2. \E k \in Int, s \in Nat, up \in {0, 1} :
              /\ m = k * u + s /\ s < u /\ RoundAt(m, u) = (k + up) * u
              /\ up = 1 <=> 2 * s > u \/ (2 * s = u /\ k % 2 = 1)
        BY <4>1, RoundAtNear
      <4>. QED BY <4>2, Zenon
    <3>2. PICK K \in Int : K = k * u /\ m = K + s
      BY <3>1
    <3>3. (k + 1) * u = k * u + u /\ (k + 0) * u = k * u
      BY <2>1
    <3>4. RoundAt(m, u) = IF up = 1 THEN K + u ELSE K
      BY <3>1, <3>2, <3>3
    <3>. QED BY <1>8, <2>1, <3>1, <3>2, <3>4
  <2>6. h * u <= K /\ K >= 0
    <3>1. h <= k
      <4>1. (k + 1) * u = k * u + u
        BY <2>1
      <4>2. h * u < (k + 1) * u
        BY <2>2, <2>4, <2>5, <4>1
      <4>3. h < k + 1
        BY <2>1, <4>2, TimesLess
      <4>. QED BY <4>3
    <3>2. h * u <= k * u
      BY <2>1, <3>1, TimesRises
    <3>. QED BY <2>4, <2>5, <3>2
\* What is left out of R is more than half an ulp.
  <2>7. 2 * (R - e) > u
    <3>1. PICK d \in Nat, U \in Nat : U = Unit /\ d = Unit - f /\ Top * d >= U /\ U >= 1 /\ U = f + d
      <4>1. Unit - f \in Nat /\ Unit \in Nat /\ Unit >= 1 /\ Unit = f + (Unit - f)
        BY Naturals
      <4>. QED BY <4>1, BelowUnit
    <3>2. PICK c \in Nat : c = R - e /\ R = e + c
      <4>1. R - e \in Nat /\ R = e + (R - e)
        BY <1>4
      <4>. QED BY <4>1
    <3>3. d * R <= c * U
      <4>1. (f + d) * R = f * R + d * R /\ (e + c) * U = e * U + c * U
        OBVIOUS
      <4>2. U * R = R * U
        OBVIOUS
      <4>3. f * R = e * U + r
        BY <1>4, <3>1
      <4>4. f * R \in Nat /\ d * R \in Nat /\ e * U \in Nat /\ c * U \in Nat
        OBVIOUS
      <4>. QED BY <3>1, <3>2, <4>1, <4>2, <4>3, <4>4
    <3>4. U * R <= (Top * c) * U
      <4>1. U * R <= (Top * d) * R /\ Top * d \in Nat
        BY <3>1, TimesRises, Naturals
      <4>2. (Top * d) * R = (d * R) * Top /\ (c * U) * Top = (Top * c) * U
        BY Naturals
      <4>3. (d * R) * Top <= (c * U) * Top /\ (d * R) * Top \in Int /\ (c * U) * Top \in Int
        <5>1. d * R \in Int /\ c * U \in Int
          OBVIOUS
        <5>. QED BY <3>3, <5>1, TimesRises, Naturals
      <4>4. U * R \in Int
        OBVIOUS
      <4>. QED BY <4>1, <4>2, <4>3, <4>4
    <3>5. R <= Top * c /\ Top * c \in Nat
      <4>1. Top * c \in Nat
        BY Naturals
      <4>. SUFFICES ASSUME Top * c < R PROVE FALSE
        BY <4>1
      <4>2. (Top * c + 1) * U <= R * U /\ (Top * c + 1) * U = (Top * c) * U + U
        BY <4>1, TimesRises
      <4>3. R * U = U * R /\ R * U \in Nat /\ (Top * c) * U \in Nat
        BY <4>1
      <4>. QED BY <3>1, <3>4, <4>2, <4>3
    <3>6. ~(2 * c <= u)
      <4>. SUFFICES ASSUME 2 * c <= u PROVE FALSE
        OBVIOUS
      <4>1. (2 * c) * h <= u * h /\ (2 * c) * h = (2 * h) * c /\ u * h = h * u
        BY TimesRises
      <4>. QED BY <2>1, <2>3, <2>4, <2>5, <2>6, <3>5, <4>1
    <3>. QED BY <3>2, <3>6
  <2>8. CASE e <= K
    <3>1. Round(K) = K
      <4>1. -Top <= k /\ k <= Top
        <5>1. k * u < Top * u
          <6>1. Top * u \in Nat /\ K < Top * u
            <7>1. Top * u \in Nat /\ m < Top * u
              BY <2>1, Naturals DEF Within
            <7>. QED BY <2>5, <7>1
          <6>. QED BY <2>5, <6>1
        <5>2. k < Top
          BY <2>1, <5>1, TimesLess, Naturals
        <5>3. h <= k
          <6>1. h * u < (k + 1) * u
            <7>1. (k + 1) * u = k * u + u
              BY <2>1
            <7>. QED BY <2>1, <2>4, <2>5, <2>6, <7>1
          <6>2. h < k + 1
            BY <2>1, <6>1, TimesLess
          <6>. QED BY <6>2
        <5>. QED BY <2>3, <5>2, <5>3
      <4>2. InRange(K)
        <5>1. Within(K, u)
          <6>1. Top * u \in Nat /\ m < Top * u
            BY <2>1, Naturals DEF Within
          <6>2. -(Top * u) < K /\ K < Top * u
            BY <2>1, <2>4, <2>5, <2>6, <6>1
          <6>. QED BY <6>2 DEF Within
        <5>. QED BY <2>1, <5>1 DEF InRange
      <4>. QED BY <2>1, <2>5, <4>1, <4>2, RoundKeeps
    <3>2. InRange(K) /\ K \in Nat
      <4>1. Within(K, u)
        <5>1. Top * u \in Nat /\ m < Top * u
          BY <2>1, Naturals DEF Within
        <5>2. -(Top * u) < K /\ K < Top * u
          BY <2>1, <2>4, <2>5, <2>6, <5>1
        <5>. QED BY <5>2 DEF Within
      <4>. QED BY <2>1, <2>5, <2>6, <4>1 DEF InRange
    <3>3. Round(e) <= Round(K)
      BY <2>8, <3>2, RoundRises
    <3>. QED BY <1>1, <1>5, <1>6, <2>5, <3>1, <3>3
  <2>9. CASE K < e
    <3>1. Ulp(e) = u /\ Round(e) = RoundAt(e, u)
      <4>1. Top * u \in Nat /\ m < Top * u /\ R <= Top * u
        <5>1. Top * u \in Nat /\ m < Top * u
          BY <2>1, Naturals DEF Within
        <5>2. R <= Top * u
          <6>1. k * u < Top * u /\ Top \in Int
            BY <2>5, <5>1, Naturals
          <6>2. k < Top
            BY <2>1, <6>1, TimesLess
          <6>3. (k + 1) * u <= Top * u /\ (k + 1) * u = k * u + u
            BY <2>1, <6>1, <6>2, TimesRises
          <6>. QED BY <2>5, <6>3
        <5>. QED BY <5>1, <5>2
      <4>2. Within(e, u)
        <5>1. -(Top * u) < e /\ e < Top * u
          BY <2>1, <2>7, <4>1
        <5>. QED BY <5>1 DEF Within
      <4>3. InRange(e)
        BY <2>1, <4>2 DEF InRange
      <4>4. PICK v \in Nat : v = Ulp(e) /\ v \in Ulps /\ Within(e, v) /\ Round(e) = RoundAt(e, v) /\ v <= u
        BY <2>1, <4>2, <4>3, UlpIs
      <4>5. ~(v < u)
        <5>. SUFFICES ASSUME v < u PROVE FALSE
          OBVIOUS
        <5>1. PICK c \in Nat : c >= 1 /\ u = c * (2 * v)
          BY <2>1, <4>4, FloatFacts
        <5>2. 1 * (2 * v) <= c * (2 * v)
          BY <5>1, TimesRises
        <5>3. v <= x
          BY <2>2, <5>1, <5>2
        <5>4. v * Top <= x * Top /\ v * Top = Top * v /\ x * Top = Top * x /\ Top * v \in Nat
          BY <2>2, <5>3, TimesRises, Naturals
        <5>5. e < Top * v
          BY <4>4 DEF Within
        <5>. QED BY <2>2, <2>4, <2>5, <2>6, <2>9, <5>4, <5>5
      <4>. QED BY <4>4, <4>5
    <3>2. RoundAt(e, u) = K
      <4>1. PICK s \in Nat : e = k * u + s /\ s < u /\ 2 * s < u
        <5>1. e - K \in Nat /\ e = K + (e - K) /\ e - K < u /\ 2 * (e - K) < u
          BY <2>5, <2>7, <2>9
        <5>. QED BY <2>5, <5>1
      <4>2. e \div u = k /\ e % u = s
        BY <2>1, <4>1, DivModIntOf, SMTT(120)
      <4>. QED BY <2>5, <4>1, <4>2 DEF RoundAt
    <3>. QED BY <1>1, <1>5, <1>6, <2>5, <3>1, <3>2
  <2>. QED BY <2>5, <2>8, <2>9
<1>. QED BY <1>1, <1>3, <1>7, <1>8

\* A value of the type is not changed by the wrap.
LEMMA WrapKeeps ==
    ASSUME input \in Inputs, NEW z \in Int, Least <= z, z <= Greatest
    PROVE  Wrap(z) = z
<1>1. PICK d \in Nat : d = Greatest - Least + 1 /\ d >= 1
  BY InputFacts
<1>0. Least \in Int /\ Greatest \in Int
  BY InputFacts
<1>2. PICK r \in Nat : r = z - Least /\ r < d
  <2>1. z - Least \in Nat /\ z - Least < d
    BY <1>0, <1>1
  <2>. QED BY <2>1
<1>3. r % d = r
  BY <1>1, <1>2, DivModOf, r = 0 * d + r
<1>. QED BY <1>0, <1>1, <1>2, <1>3 DEF Wrap

\* The wrap gives a value of the type, an integer.
LEMMA WrapInType ==
    ASSUME input \in Inputs, NEW z \in Int
    PROVE  Wrap(z) \in Least .. Greatest /\ Wrap(z) \in Int
<1>1. PICK d \in Nat : d = Greatest - Least + 1 /\ d >= 1
  BY InputFacts
<1>0. Least \in Int /\ Greatest \in Int
  BY InputFacts
<1>2. PICK y \in Int : y = z - Least
  BY <1>0
<1>3. y % d \in Int /\ 0 <= y % d /\ y % d < d
  BY <1>1
<1>4. Least + (y % d) \in Least .. Greatest
  BY <1>0, <1>1, <1>3
<1>. QED BY <1>1, <1>2, <1>4 DEF Wrap

\* The exact position, and the rounded one with its whole part and its fraction.
LEMMA ExactPosition ==
    ASSUME input \in Inputs, NEW q \in Int
    PROVE  \E E \in Nat, L \in Nat :
             /\ E = Clamp(q) * (n - 1) /\ L = E \div Unit /\ L <= n - 1
             /\ L * Unit <= E /\ E < (L + 1) * Unit /\ E <= (n - 1) * Unit
<1>1. PICK m \in Nat, U \in Nat : m = n - 1 /\ U = Unit /\ U >= 1
  <2>1. n - 1 \in Nat
    BY InputFacts
  <2>. QED BY <2>1, Naturals
<1>2. PICK c \in Nat : c = Clamp(q) /\ c <= U
  BY <1>1 DEF Clamp
<1>3. PICK E \in Nat : E = c * m /\ E <= m * U
  <2>1. c * m <= U * m /\ U * m = m * U /\ c * m \in Nat
    BY <1>2, TimesRises
  <2>. QED BY <2>1
<1>4. PICK L \in Nat, r \in Nat : L = E \div U /\ E = L * U + r /\ r < U
  <2>1. E \div U \in Nat /\ E % U \in Nat /\ E % U < U /\ E = (E \div U) * U + (E % U)
    BY <1>1, DivMod
  <2>. QED BY <2>1, Zenon
<1>5. (L + 1) * U = L * U + U /\ L * U \in Nat /\ (m + 1) * U = m * U + U /\ m * U \in Nat
  OBVIOUS
<1>6. L <= m
  <2>1. L * U < (m + 1) * U
    BY <1>1, <1>3, <1>4, <1>5
  <2>2. L < m + 1
    BY <1>1, <2>1, TimesLess
  <2>. QED BY <2>2
<1>7. L * U <= E /\ E < (L + 1) * U
  BY <1>4, <1>5
<1>8. E = Clamp(q) * (n - 1) /\ L = E \div Unit
  BY <1>1, <1>2, <1>3, <1>4
<1>. QED BY <1>1, <1>3, <1>6, <1>7, <1>8

\* A whole index is a float.
LEMMA WholeIsFloat ==
    ASSUME NEW k \in Nat, k < Top
    PROVE  InRange(k * Unit) /\ Round(k * Unit) = k * Unit /\ k * Unit \in Nat
<1>1. Unit \in Ulps /\ Unit \in Nat /\ Unit >= 1 /\ Top \in Nat
  BY FloatFacts
<1>2. Within(k * Unit, Unit)
  <2>1. k * Unit <= Top * Unit /\ (k + 1) * Unit = k * Unit + Unit /\ (k + 1) * Unit <= Top * Unit
    BY <1>1, TimesRises
  <2>2. k * Unit \in Nat /\ Top * Unit \in Nat
    BY <1>1
  <2>. QED BY <1>1, <2>1, <2>2 DEF Within
<1>3. InRange(k * Unit)
  BY <1>1, <1>2 DEF InRange
<1>4. -Top <= k /\ k <= Top
  BY <1>1
<1>5. Round(k * Unit) = k * Unit
  <2>1. k \in Int /\ Unit \in Ulps
    BY <1>1
  <2>. QED BY <1>3, <1>4, <2>1, RoundKeeps
<1>. QED BY <1>1, <1>3, <1>5

\* The rounded position is at the exact index, or exactly at the next one.
LEMMA Position ==
    ASSUME input \in Inputs, NEW q \in Int,
           NEW E \in Nat, NEW L \in Nat, E = Clamp(q) * (n - 1), L <= n - 1,
           L * Unit <= E, E < (L + 1) * Unit, E <= (n - 1) * Unit
    PROVE  /\ InRange(E) /\ Pos(q) = Round(E)
           /\ \E W \in Nat, f \in Nat :
                /\ W = Whole(q) /\ f = Fraction(q) /\ Round(E) = W * Unit + f
                /\ f < Unit /\ Round(f) = f
                /\ W = L \/ (W = L + 1 /\ f = 0 /\ L < n - 1)
<1>1. PICK m \in Nat, U \in Nat : m = n - 1 /\ m < Top /\ U = Unit /\ U >= 1
  <2>1. n - 1 \in Nat /\ n - 1 < Top
    BY InputFacts, Naturals
  <2>. QED BY <2>1, Naturals
<1>2. InRange(E)
  <2>1. m * U \in Nat /\ E <= m * U
    BY <1>1
  <2>2. Within(m * U, U)
    <3>1. (m + 1) * U <= Top * U /\ (m + 1) * U = m * U + U /\ Top * U \in Nat
      BY <1>1, TimesRises, Naturals
    <3>. QED BY <1>1, <2>1, <3>1 DEF Within
  <2>3. Within(E, U)
    BY <2>1, <2>2, Naturals DEF Within
  <2>. QED BY <1>1, <2>3, FloatFacts DEF InRange
<1>3. Pos(q) = Round(E)
  BY DEF Pos
<1>4. PICK p \in Nat : p = Round(E)
  BY <1>2, RoundRises
<1>5. L * U \in Nat /\ L * U <= p
  <2>1. L < Top
    <3>1. L <= m /\ m < Top /\ Top \in Nat
      BY <1>1, Naturals
    <3>. QED BY <3>1
  <2>2. Round(L * U) = L * U /\ L * U \in Nat
    BY <1>1, <2>1, WholeIsFloat
  <2>3. Round(L * U) <= Round(E)
    BY <1>1, <1>2, <2>2, RoundRises
  <2>. QED BY <1>4, <2>2, <2>3
<1>6. (L + 1) * U = L * U + U
  OBVIOUS
<1>7. L < m => p <= L * U + U
  <2>. HAVE L < m
  <2>1. L + 1 < Top /\ L + 1 \in Nat
    <3>1. L + 1 <= m /\ m < Top /\ Top \in Nat
      BY <1>1, Naturals
    <3>. QED BY <3>1
  <2>2. Round((L + 1) * U) = (L + 1) * U /\ (L + 1) * U \in Nat /\ InRange((L + 1) * U)
    BY <1>1, <2>1, WholeIsFloat
  <2>3. Round(E) <= Round((L + 1) * U)
    BY <1>1, <2>2, RoundRises
  <2>. QED BY <1>4, <1>6, <2>2, <2>3
<1>8. ~(L < m) => p = L * U
  <2>. HAVE ~(L < m)
  <2>1. L = m
    BY <1>1
  <2>2. E = L * U
    BY <1>1, <1>5, <2>1
  <2>3. Round(L * U) = L * U
    BY <1>1, <2>1, WholeIsFloat
  <2>. QED BY <1>4, <2>2, <2>3
<1>9. PICK W \in Nat, f \in Nat : p = W * U + f /\ f < U /\ (W = L \/ (W = L + 1 /\ f = 0 /\ L < m))
  <2>1. CASE p < L * U + U
    <3>1. p - L * U \in Nat /\ p = L * U + (p - L * U) /\ p - L * U < U
      BY <1>5, <2>1
    <3>. QED BY <3>1
  <2>2. CASE ~(p < L * U + U)
    <3>1. L < m /\ p = (L + 1) * U + 0
      BY <1>1, <1>5, <1>6, <1>7, <1>8, <2>2
    <3>2. L + 1 \in Nat /\ 0 < U
      BY <1>1
    <3>. QED BY <3>1, <3>2
  <2>. QED BY <2>1, <2>2
<1>10. W = p \div U
  <2>1. p = W * U + f /\ f < U
    BY <1>9
  <2>. QED BY <1>1, <2>1, DivModOf, ZenonT(120)
<1>11. W = Whole(q)
  BY <1>1, <1>3, <1>4, <1>10 DEF Whole
<1>12. f = Pos(q) - Whole(q) * Unit
  <2>1. W * U \in Nat /\ f = p - W * U
    BY <1>9
  <2>. QED BY <1>1, <1>3, <1>4, <1>11, <2>1
<1>13. Round(f) = f
  <2>1. PICK u \in Nat : u = Ulp(E) /\ u \in Ulps /\ u >= 1
    BY <1>2, UlpIs
  <2>2. PICK k \in Int : p = k * u /\ -Top <= k /\ k <= Top
    BY <1>2, <1>4, <2>1, FewBits
  <2>3. InRange(f)
    <3>1. Within(f, U)
      <4>1. Top * U \in Nat /\ 2 * U <= Top * U
        BY TimesRises, Naturals
      <4>. QED BY <1>1, <1>9, <4>1 DEF Within
    <3>. QED BY <1>1, <3>1, FloatFacts DEF InRange
  <2>4. CASE f = 0
    <3>1. 0 < Top /\ 0 * U = 0
      BY Naturals
    <3>. QED BY <1>1, <2>4, <3>1, WholeIsFloat
  <2>5. CASE f # 0
    <3>1. \E i \in Int : f = i * u
      <4>1. CASE u <= U
        <5>1. PICK c \in Nat : U = c * u
          <6>1. U \in Ulps
            BY <1>1, FloatFacts
          <6>. QED BY <2>1, <4>1, <6>1, UlpDivides
        <5>2. PICK wc \in Int : wc = W * c
          OBVIOUS
        <5>3. W * (c * u) = wc * u
          <6>1. W * (c * u) = (W * c) * u
            OBVIOUS
          <6>. QED BY <5>2, <6>1
        <5>4. (k - wc) * u = k * u - wc * u /\ k * u \in Int /\ wc * u \in Int
          BY <2>1
        <5>5. f = (k - wc) * u
          BY <1>9, <2>2, <5>1, <5>3, <5>4
        <5>6. k - wc \in Int
          OBVIOUS
        <5>. QED BY <5>5, <5>6
      <4>2. CASE U < u
        <5>1. PICK c \in Nat : u = c * U
          <6>1. U \in Ulps
            BY <1>1, FloatFacts
          <6>. QED BY <1>1, <2>1, <4>2, <6>1, UlpDivides
        <5>2. PICK kc \in Int : kc = k * c
          OBVIOUS
        <5>3. k * (c * U) = kc * U
          <6>1. k * (c * U) = (k * c) * U
            OBVIOUS
          <6>. QED BY <5>2, <6>1
        <5>4. p = kc * U + 0
          <6>1. kc * U \in Int
            OBVIOUS
          <6>. QED BY <2>2, <5>1, <5>3, <6>1
        <5>5. p % U = 0 /\ p % U = f
          <6>1. /\ p \in Int /\ W \in Int /\ 0 \in Nat
                /\ U >= 1 /\ 0 < U /\ f < U /\ p = kc * U + 0 /\ p = W * U + f
            BY <1>1, <1>9, <5>4
          <6>2. p % U = 0
            BY <6>1, DivModIntOf, Zenon
          <6>3. p % U = f
            BY <6>1, DivModIntOf, Zenon
          <6>. QED BY <6>2, <6>3
        <5>. QED BY <2>5, <5>5
      <4>. QED BY <1>1, <2>1, <4>1, <4>2
    <3>2. PICK i \in Int : f = i * u
      BY <3>1
    <3>3. i <= k
      <4>1. i * u <= k * u
        <5>1. f <= p
          <6>1. W * U \in Nat
            OBVIOUS
          <6>. QED BY <1>9, <6>1
        <5>. QED BY <2>2, <3>2, <5>1
      <4>. SUFFICES ASSUME k < i PROVE FALSE
        OBVIOUS
      <4>2. (k + 1) * u <= i * u /\ (k + 1) * u = k * u + u /\ k * u \in Int /\ i * u \in Int
        BY <2>1, TimesRises
      <4>. QED BY <2>1, <4>1, <4>2
    <3>4. -1 < i
      <4>1. (-1) * u < i * u
        <5>1. (-1) * u = -u
          OBVIOUS
        <5>. QED BY <2>1, <3>2, <5>1
      <4>. QED BY <2>1, <4>1, TimesLess
    <3>5. -Top <= i /\ i <= Top
      BY <2>2, <3>3, <3>4, Naturals
    <3>. QED BY <2>1, <2>3, <3>2, <3>5, RoundKeeps
  <2>. QED BY <2>4, <2>5
<1>14. f = Fraction(q)
  BY <1>12, <1>13 DEF Fraction
<1>15. Round(E) = W * Unit + f /\ f < Unit /\ (W = L \/ (W = L + 1 /\ f = 0 /\ L < n - 1))
  BY <1>1, <1>4, <1>9
<1>. QED BY <1>2, <1>3, <1>11, <1>13, <1>14, <1>15

LEMMA PositionOf ==
    ASSUME input \in Inputs, NEW z \in Int
    PROVE  \E E \in Nat, W \in Nat, f \in Nat :
             /\ E = Clamp(z) * (n - 1) /\ InRange(E) /\ Round(E) = W * Unit + f
             /\ W = Whole(z) /\ f = Fraction(z) /\ f < Unit /\ Round(f) = f
<1>1. PICK E \in Nat, L \in Nat :
        /\ E = Clamp(z) * (n - 1) /\ L = E \div Unit /\ L <= n - 1
        /\ L * Unit <= E /\ E < (L + 1) * Unit /\ E <= (n - 1) * Unit
  BY ExactPosition
<1>2. InRange(E)
  BY <1>1, Position
<1>3. \E W \in Nat, f \in Nat :
        /\ W = Whole(z) /\ f = Fraction(z) /\ Round(E) = W * Unit + f
        /\ f < Unit /\ Round(f) = f
        /\ W = L \/ (W = L + 1 /\ f = 0 /\ L < n - 1)
  BY <1>1, Position
<1>. QED BY <1>1, <1>2, <1>3, Zenon

\* Toward zero, and down, for what is not negative.
LEMMA TowardZeroDown ==
    ASSUME NEW z \in Nat, NEW d \in Nat, d >= 1
    PROVE  /\ TowardZero(z, d) = z \div d
           /\ \E t \in Nat, r \in Nat : t = TowardZero(z, d) /\ z = t * d + r /\ r < d
<1>1. TowardZero(z, d) = z \div d
  BY DEF TowardZero
<1>2. z \div d \in Nat /\ z % d \in Nat /\ z % d < d /\ z = (z \div d) * d + (z % d)
  BY DivMod
<1>. QED BY <1>1, <1>2, Zenon

\* The interpolation between two values whose gap is a value of the type.
LEMMA InterpolateBetween ==
    ASSUME input \in Inputs,
           NEW x \in Int, NEW y \in Int, Least <= x, y <= Greatest, x <= y, y - x <= Greatest,
           NEW f \in Nat, f < Unit, Round(f) = f
    PROVE  \E t \in Nat : /\ t = TowardZero(Product(f, Float(y - x)), Unit)
                          /\ t <= y - x /\ Interpolate(x, y, f) = x + t
<1>1. PICK g \in Nat, U \in Nat : g = y - x /\ g <= Greatest /\ y = x + g /\ U = Unit /\ U >= 1
  <2>1. y - x \in Nat /\ y = x + (y - x)
    OBVIOUS
  <2>. QED BY <2>1, Naturals
<1>2. Wrap(y - x) = g
  <2>1. Least <= g /\ g \in Int
    BY InputFacts
  <2>. QED BY <1>1, <2>1, WrapKeeps
<1>3. PICK p \in Nat : p = Product(f, Float(g)) /\ p <= g * U
  BY <1>1, ProductBound
<1>4. PICK t \in Nat, r \in Nat : t = TowardZero(p, U) /\ p = t * U + r /\ r < U
  BY <1>1, TowardZeroDown
<1>5. t <= g
  <2>. SUFFICES ASSUME g + 1 <= t PROVE FALSE
    OBVIOUS
  <2>1. (g + 1) * U <= t * U /\ (g + 1) * U = g * U + U /\ t * U \in Nat /\ g * U \in Nat
    BY TimesRises
  <2>. QED BY <1>1, <1>3, <1>4, <2>1
<1>6. Wrap(x + t) = x + t
  <2>1. x + t \in Int /\ Least <= x + t /\ x + t <= Greatest
    BY <1>1, <1>5, InputFacts
  <2>. QED BY <2>1, WrapKeeps
<1>7. Interpolate(x, y, f) = x + t
  BY <1>1, <1>2, <1>3, <1>4, <1>6 DEF Interpolate
<1>. QED BY <1>1, <1>3, <1>4, <1>5, <1>7

\* What Quantile takes from the slice.
LEMMA Neighbours ==
    ASSUME input \in Inputs, NEW W \in Nat, W < n - 1
    PROVE  /\ W + 1 \in 1 .. n /\ W + 2 \in 1 .. n
           /\ a[W + 1] \in Int /\ a[W + 2] \in Int /\ a[W + 1] <= a[W + 2]
           /\ Least <= a[W + 1] /\ a[W + 2] <= Greatest
           /\ Least <= a[W + 2] /\ a[W + 1] <= Greatest
           /\ a[W + 2] <= a[n]
           /\ GapsFit => a[W + 2] - a[W + 1] <= Greatest
<1>1. n \in Nat /\ n >= 1
  BY InputFacts
<1>2. W + 1 \in 1 .. n /\ W + 2 \in 1 .. n /\ W + 1 <= W + 2 /\ n \in 1 .. n /\ W + 2 <= n
  BY <1>1
<1>3. a[W + 1] <= a[W + 2] /\ a[W + 2] <= a[n]
  BY <1>2, InputFacts
<1>4. GapsFit => a[W + 2] - a[W + 1] <= Greatest
  <2>1. W + 1 \in 1 .. n - 1 /\ W + 1 + 1 = W + 2
    BY <1>1
  <2>. QED BY <2>1 DEF GapsFit
<1>. QED BY <1>2, <1>3, <1>4, InputFacts

\* A part of a float is no further from 0 than the float.
LEMMA PartBetween ==
    ASSUME NEW f \in Nat, NEW R \in Int, NEW B \in Nat, f <= Unit, -B <= R, R <= B
    PROVE  (f * R) \div Unit \in Int /\ -B <= (f * R) \div Unit /\ (f * R) \div Unit <= B
<1>1. PICK U \in Nat : U = Unit /\ U >= 1
  BY Naturals
<1>2. PICK e \in Int, r \in Nat : e = (f * R) \div U /\ f * R = e * U + r /\ r < U
  <2>1. f * R \in Int
    OBVIOUS
  <2>2. \E e \in Int, r \in Nat : e = (f * R) \div U /\ r = (f * R) % U /\ f * R = e * U + r /\ r < U
    BY <1>1, <2>1, DivModInt
  <2>. QED BY <2>2, Zenon
<1>3. PICK C \in Nat : C = B * U
  OBVIOUS
<1>4. -C <= f * R /\ f * R <= C
  <2>1. f * B <= U * B /\ f * B = B * f /\ U * B = B * U /\ f * B \in Nat
    BY <1>1, TimesRises
  <2>2. (-B) * f <= R * f /\ R * f <= B * f /\ (-B) * f = -(B * f) /\ R * f = f * R /\ f * R \in Int
    BY TimesRises
  <2>. QED BY <1>3, <2>1, <2>2
<1>5. e < B + 1
  <2>1. e * U < (B + 1) * U
    <3>1. (B + 1) * U = B * U + U /\ e * U \in Int /\ f * R \in Int
      OBVIOUS
    <3>. QED BY <1>1, <1>2, <1>3, <1>4, <3>1
  <2>. QED BY <1>1, <2>1, TimesLess
<1>6. -B < e + 1
  <2>1. (-B) * U < (e + 1) * U
    <3>1. (e + 1) * U = e * U + U /\ (-B) * U = -(B * U) /\ e * U \in Int /\ f * R \in Int
      OBVIOUS
    <3>. QED BY <1>1, <1>2, <1>3, <1>4, <3>1
  <2>2. -B \in Int /\ e + 1 \in Int
    OBVIOUS
  <2>. QED BY <1>1, <2>1, <2>2, TimesLess
<1>. QED BY <1>1, <1>2, <1>5, <1>6

\* A quantile is a value of its type, whatever wraps.
LEMMA QuantileInType ==
    ASSUME input \in Inputs, NEW q \in Int
    PROVE  Quantile(q) \in Least .. Greatest /\ Quantile(q) \in Int
<1>1. PICK W \in Nat, f \in Nat : W = Whole(q) /\ f = Fraction(q) /\ f < Unit
  <2>1. PICK E \in Nat, L \in Nat :
          /\ E = Clamp(q) * (n - 1) /\ L <= n - 1
          /\ L * Unit <= E /\ E < (L + 1) * Unit /\ E <= (n - 1) * Unit
    BY ExactPosition
  <2>2. \E W \in Nat, f \in Nat : W = Whole(q) /\ f = Fraction(q) /\ f < Unit
    BY <2>1, Position
  <2>. QED BY <2>2
<1>2. CASE W >= n - 1
  <2>1. Quantile(q) = a[n] /\ n \in 1 .. n
    BY <1>1, <1>2, InputFacts DEF Quantile
  <2>. QED BY <2>1, InputFacts
<1>3. CASE W < n - 1 /\ f = 0
  <2>1. ~(W >= n - 1) /\ W + 1 \in 1 .. n
    BY <1>3, InputFacts, Neighbours
  <2>2. Quantile(q) = a[W + 1]
    BY <1>1, <1>3, <2>1 DEF Quantile
  <2>. QED BY <2>1, <2>2, InputFacts
<1>4. CASE W < n - 1 /\ f # 0
  <2>1. ~(W >= n - 1)
    BY <1>4, InputFacts
  <2>2. Quantile(q) = Interpolate(a[W + 1], a[W + 2], f)
    BY <1>1, <1>4, <2>1 DEF Quantile, Upper
  <2>3. PICK x \in Int, y \in Int : x = a[W + 1] /\ y = a[W + 2]
    BY <1>4, Neighbours
  <2>4. PICK w \in Int : w = Wrap(y - x) /\ Least <= w /\ w <= Greatest
    <3>1. y - x \in Int
      OBVIOUS
    <3>2. Wrap(y - x) \in Int /\ Wrap(y - x) \in Least .. Greatest
      BY <3>1, WrapInType
    <3>. QED BY <3>2, InputFacts
  <2>5. PICK P \in Int : P = Product(f, Float(w))
    <3>1. PICK v \in Ulps : 2 * (w * Unit) <= Top * v /\ -(Top * v) <= 2 * (w * Unit)
      BY <2>4, GapRange
    <3>2. w * Unit \in Int /\ Top * v \in Nat
      BY Naturals
    <3>3. PICK R \in Int : R = Float(w) /\ Within(R, v)
      BY <3>1, <3>2, RangeRound DEF Float
    <3>4. PICK B \in Nat : Top * v = B + 1 /\ -B <= R /\ R <= B
      <4>1. -(Top * v) < R /\ R < Top * v
        BY <3>3 DEF Within
      <4>2. Top * v - 1 \in Nat /\ Top * v = (Top * v - 1) + 1
        BY <3>2, <4>1
      <4>. QED BY <3>2, <4>1, <4>2
    <3>5. PICK e \in Int : e = (f * R) \div Unit /\ -B <= e /\ e <= B
      <4>1. f <= Unit
        BY <1>1, Naturals
      <4>. QED BY <3>4, <4>1, PartBetween
    <3>6. InRange(e)
      <4>1. Within(e, v)
        BY <3>4, <3>5 DEF Within
      <4>. QED BY <4>1 DEF InRange
    <3>7. PICK u \in Nat : u >= 1 /\ Round(e) = RoundAt(e, u)
      BY <3>6, UlpIs
    <3>8. Round(e) \in Int
      BY <3>7, RoundAtClose
    <3>. QED BY <3>3, <3>5, <3>8 DEF Product
  <2>6. TowardZero(P, Unit) \in Int
    <3>1. PICK U \in Nat : U = Unit /\ U >= 1
      BY Naturals
    <3>2. P \div U \in Int /\ (-P) \div U \in Int
      BY <3>1, SMTT(60)
    <3>. QED BY <3>1, <3>2 DEF TowardZero
  <2>7. Quantile(q) = Wrap(x + TowardZero(P, Unit))
    BY <2>2, <2>3, <2>4, <2>5 DEF Interpolate
  <2>8. x + TowardZero(P, Unit) \in Int
    BY <2>6
  <2>. QED BY <2>7, <2>8, WrapInType
<1>5. W < n - 1 \/ W >= n - 1
  BY InputFacts
<1>. QED BY <1>2, <1>3, <1>4, <1>5

\* A quantile where the gap it lies in is a value of the type.
LEMMA QuantileCases ==
    ASSUME input \in Inputs, GapsFit, NEW q \in Int, NEW W \in Nat, NEW f \in Nat,
           W = Whole(q), f = Fraction(q), f < Unit, Round(f) = f
    PROVE  /\ W >= n - 1 => Quantile(q) = a[n]
           /\ W < n - 1 => /\ a[W + 1] <= Quantile(q) /\ Quantile(q) <= a[W + 2]
                           /\ f = 0 => Quantile(q) = a[W + 1]
                           /\ f # 0 => Quantile(q) =
                                a[W + 1] + TowardZero(Product(f, Float(a[W + 2] - a[W + 1])), Unit)
<1>1. CASE W >= n - 1
  <2>1. ~(W < n - 1) /\ Quantile(q) = a[n]
    BY <1>1, InputFacts DEF Quantile
  <2>. QED BY <1>1, <2>1
<1>2. CASE W < n - 1
  <2>1. ~(W >= n - 1)
    BY <1>2, InputFacts
  <2>2. PICK x \in Int, y \in Int : /\ x = a[W + 1] /\ y = a[W + 2] /\ x <= y
                                    /\ Least <= x /\ y <= Greatest /\ y - x <= Greatest
    BY <1>2, Neighbours
  <2>3. CASE f = 0
    <3>1. Quantile(q) = x
      BY <2>1, <2>2, <2>3 DEF Quantile
    <3>. QED BY <2>1, <2>2, <2>3, <3>1
  <2>4. CASE f # 0
    <3>1. Quantile(q) = Interpolate(x, y, f)
      BY <2>1, <2>2, <2>4 DEF Quantile, Upper
    <3>2. PICK t \in Nat : /\ t = TowardZero(Product(f, Float(y - x)), Unit)
                           /\ t <= y - x /\ Interpolate(x, y, f) = x + t
      BY <2>2, InterpolateBetween, ZenonT(120)
    <3>. QED BY <2>1, <2>2, <2>4, <3>1, <3>2
  <2>. QED BY <2>3, <2>4
<1>3. W < n - 1 \/ W >= n - 1
  BY InputFacts
<1>. QED BY <1>1, <1>2, <1>3

\* A quantile is between the order statistics around the exact position.
LEMMA QuantileBetween ==
    ASSUME input \in Inputs, GapsFit, NEW q \in Int
    PROVE  Below(q) <= Quantile(q) /\ Quantile(q) <= Above(q)
<1>1. PICK E \in Nat, L \in Nat :
        /\ E = Clamp(q) * (n - 1) /\ L = E \div Unit /\ L <= n - 1
        /\ L * Unit <= E /\ E < (L + 1) * Unit /\ E <= (n - 1) * Unit
  BY ExactPosition
<1>2. PICK W \in Nat, f \in Nat :
        /\ W = Whole(q) /\ f = Fraction(q) /\ f < Unit /\ Round(f) = f
        /\ W = L \/ (W = L + 1 /\ f = 0 /\ L < n - 1)
  <2>1. \E W \in Nat, f \in Nat :
          /\ W = Whole(q) /\ f = Fraction(q) /\ Round(E) = W * Unit + f
          /\ f < Unit /\ Round(f) = f
          /\ W = L \/ (W = L + 1 /\ f = 0 /\ L < n - 1)
    BY <1>1, Position
  <2>. QED BY <2>1, Zenon
<1>3. Below(q) = a[L + 1] /\ Above(q) = IF L < n - 1 THEN a[L + 2] ELSE a[n]
  BY <1>1 DEF Below, Above
<1>4. n \in Nat /\ n >= 1
  BY InputFacts
<1>5. /\ W >= n - 1 => Quantile(q) = a[n]
      /\ W < n - 1 => /\ a[W + 1] <= Quantile(q) /\ Quantile(q) <= a[W + 2]
                      /\ f = 0 => Quantile(q) = a[W + 1]
  BY <1>2, QuantileCases
<1>6. CASE L = n - 1
  <2>1. L + 1 = n /\ ~(L < n - 1) /\ W >= n - 1
    BY <1>2, <1>4, <1>6
  <2>2. Quantile(q) = a[n]
    BY <1>5, <2>1
  <2>3. a[n] \in Int
    BY <1>4, InputFacts
  <2>. QED BY <1>3, <2>1, <2>2, <2>3
<1>7. CASE L < n - 1 /\ W = L
  <2>1. a[W + 1] <= Quantile(q) /\ Quantile(q) <= a[W + 2]
    BY <1>7, <1>5
  <2>. QED BY <1>3, <1>7, <2>1
<1>8. CASE L < n - 1 /\ W = L + 1 /\ f = 0
  <2>1. Quantile(q) = a[L + 2]
    <3>1. CASE W < n - 1
      <4>1. Quantile(q) = a[W + 1]
        BY <1>5, <1>8, <3>1
      <4>2. W + 1 = L + 2
        BY <1>8
      <4>. QED BY <4>1, <4>2
    <3>2. CASE W >= n - 1
      <4>1. Quantile(q) = a[n]
        BY <1>5, <3>2
      <4>2. n = L + 2
        BY <1>4, <1>8, <3>2
      <4>. QED BY <4>1, <4>2
    <3>. QED BY <1>4, <3>1, <3>2
  <2>2. a[L + 1] <= a[L + 2] /\ a[L + 2] \in Int
    BY <1>8, Neighbours
  <2>. QED BY <1>3, <1>8, <2>1, <2>2
<1>. QED BY <1>1, <1>2, <1>4, <1>6, <1>7, <1>8

\* A larger q gives no smaller quantile.
LEMMA QuantileRises ==
    ASSUME input \in Inputs, GapsFit, NEW p \in Int, NEW q \in Int, p <= q
    PROVE  Quantile(p) <= Quantile(q)
<1>1. PICK U \in Nat : U = Unit /\ U >= 1
  BY Naturals
<1>2. PICK E \in Nat, W \in Nat, f \in Nat :
        /\ E = Clamp(p) * (n - 1) /\ InRange(E) /\ Round(E) = W * Unit + f
        /\ W = Whole(p) /\ f = Fraction(p) /\ f < Unit /\ Round(f) = f
  BY PositionOf
<1>3. PICK D \in Nat, V \in Nat, g \in Nat :
        /\ D = Clamp(q) * (n - 1) /\ InRange(D) /\ Round(D) = V * Unit + g
        /\ V = Whole(q) /\ g = Fraction(q) /\ g < Unit /\ Round(g) = g
  BY PositionOf
<1>4. E <= D
  <2>1. PICK m \in Nat : m = n - 1
    <3>1. n - 1 \in Nat
      BY InputFacts
    <3>. QED BY <3>1
  <2>2. PICK b \in Nat, c \in Nat : b = Clamp(p) /\ c = Clamp(q) /\ b <= c
    BY <1>1 DEF Clamp
  <2>3. b * m <= c * m
    BY <2>2, TimesRises
  <2>. QED BY <1>2, <1>3, <2>1, <2>2, <2>3
<1>5. W * U + f <= V * U + g
  BY <1>1, <1>2, <1>3, <1>4, RoundRises
<1>6. W < V \/ (W = V /\ f <= g)
  <2>1. W * U \in Nat /\ V * U \in Nat
    OBVIOUS
  <2>2. CASE W = V
    BY <1>5, <2>1, <2>2
  <2>3. CASE V < W
    <3>1. (V + 1) * U <= W * U /\ (V + 1) * U = V * U + U
      BY <2>3, TimesRises
    <3>. QED BY <1>1, <1>3, <1>5, <2>1, <3>1
  <2>. QED BY <2>2, <2>3
<1>7. n \in Nat /\ n >= 1 /\ n \in 1 .. n
  BY InputFacts
<1>8. /\ W >= n - 1 => Quantile(p) = a[n]
      /\ W < n - 1 => /\ a[W + 1] <= Quantile(p) /\ Quantile(p) <= a[W + 2]
                      /\ f = 0 => Quantile(p) = a[W + 1]
                      /\ f # 0 => Quantile(p) =
                           a[W + 1] + TowardZero(Product(f, Float(a[W + 2] - a[W + 1])), Unit)
  BY <1>2, QuantileCases
<1>9. /\ V >= n - 1 => Quantile(q) = a[n]
      /\ V < n - 1 => /\ a[V + 1] <= Quantile(q) /\ Quantile(q) <= a[V + 2]
                      /\ g = 0 => Quantile(q) = a[V + 1]
                      /\ g # 0 => Quantile(q) =
                           a[V + 1] + TowardZero(Product(g, Float(a[V + 2] - a[V + 1])), Unit)
  BY <1>3, QuantileCases
<1>10. Quantile(p) \in Int /\ Quantile(q) \in Int /\ a[n] \in Int
  BY <1>7, QuantileInType, InputFacts
<1>11. CASE W >= n - 1
  <2>1. V >= n - 1
    BY <1>6, <1>7, <1>11
  <2>. QED BY <1>8, <1>9, <1>10, <1>11, <2>1
<1>12. CASE W < n - 1 /\ V >= n - 1
  <2>1. a[W + 2] <= a[n] /\ a[W + 2] \in Int
    BY <1>12, Neighbours
  <2>. QED BY <1>8, <1>9, <1>10, <1>12, <2>1
<1>13. CASE W < V /\ V < n - 1
  <2>1. W < n - 1
    BY <1>7, <1>13
  <2>2. a[W + 2] \in Int /\ a[V + 1] \in Int /\ W + 2 \in 1 .. n /\ V + 1 \in 1 .. n
    BY <1>13, <2>1, Neighbours
  <2>3. W + 2 <= V + 1
    BY <1>13
  <2>4. a[W + 2] <= a[V + 1]
    BY <2>2, <2>3, InputFacts
  <2>. QED BY <1>8, <1>9, <1>10, <1>13, <2>1, <2>2, <2>4
<1>14. CASE W = V /\ W < n - 1 /\ f <= g
  <2>1. CASE f = 0
    BY <1>8, <1>9, <1>14, <2>1
  <2>2. CASE f # 0
    <3>1. PICK x \in Int, d \in Nat : /\ x = a[W + 1] /\ d = a[W + 2] - a[W + 1] /\ d <= Greatest
      <4>1. a[W + 1] \in Int /\ a[W + 2] \in Int /\ a[W + 1] <= a[W + 2] /\ a[W + 2] - a[W + 1] <= Greatest
        BY <1>14, Neighbours
      <4>2. a[W + 2] - a[W + 1] \in Nat
        BY <4>1
      <4>. QED BY <4>1, <4>2
    <3>2. Product(f, Float(d)) \in Nat /\ Product(g, Float(d)) \in Nat
      BY <1>2, <1>3, <3>1, ProductBound
    <3>3. Product(f, Float(d)) <= Product(g, Float(d))
      <4>1. Least <= d /\ d \in Int
        BY InputFacts
      <4>2. InRange(d * Unit) /\ InRange(Float(d))
        BY <3>1, <4>1, FloatIs
      <4>3. PICK R \in Nat : R = Float(d)
        <5>1. d * Unit \in Nat
          BY Naturals
        <5>2. Round(d * Unit) \in Nat
          BY <4>2, <5>1, RoundRises
        <5>. QED BY <5>2 DEF Float
      <4>4. PICK i \in Nat, r \in Nat : i = (f * R) \div Unit /\ f * R = i * U + r /\ r < U
        <5>1. PICK i \in Nat : i = (f * R) \div Unit
          BY <1>2, PartOf
        <5>2. PICK r \in Nat : f * R = i * Unit + r /\ r < Unit
          BY <1>2, <5>1, PartOf
        <5>. QED BY <1>1, <5>1, <5>2
      <4>5. PICK j \in Nat, s \in Nat : j = (g * R) \div Unit /\ g * R = j * U + s /\ s < U /\ j <= R
        <5>1. PICK j \in Nat : j = (g * R) \div Unit /\ j <= R
          BY <1>3, PartOf
        <5>2. PICK s \in Nat : g * R = j * Unit + s /\ s < Unit
          BY <1>3, <5>1, PartOf
        <5>. QED BY <1>1, <5>1, <5>2
      <4>6. i <= j
        <5>. SUFFICES ASSUME j + 1 <= i PROVE FALSE
          OBVIOUS
        <5>1. (j + 1) * U <= i * U /\ (j + 1) * U = j * U + U /\ i * U \in Nat /\ j * U \in Nat
          BY TimesRises
        <5>2. f * R <= g * R /\ f * R \in Int /\ g * R \in Int
          BY <1>14, TimesRises
        <5>. QED BY <4>4, <4>5, <5>1, <5>2
      <4>7. InRange(j)
        <5>1. PICK v \in Ulps : Within(R, v)
          BY <4>2, <4>3 DEF InRange
        <5>2. Within(j, v)
          <6>1. Top * v \in Nat
            BY Naturals
          <6>. QED BY <4>5, <5>1, <6>1 DEF Within
        <5>. QED BY <5>2 DEF InRange
      <4>8. Round(i) <= Round(j)
        BY <4>6, <4>7, RoundRises
      <4>. QED BY <4>3, <4>4, <4>5, <4>8 DEF Product
    <3>4. PICK P \in Nat, Q \in Nat : P = Product(f, Float(d)) /\ Q = Product(g, Float(d)) /\ P <= Q
      BY <3>2, <3>3
    <3>5. TowardZero(P, U) <= TowardZero(Q, U) /\ TowardZero(P, U) \in Nat /\ TowardZero(Q, U) \in Nat
      <4>1. PICK t \in Nat, r \in Nat : t = TowardZero(P, U) /\ P = t * U + r /\ r < U
        BY <1>1, TowardZeroDown
      <4>2. PICK w \in Nat, s \in Nat : w = TowardZero(Q, U) /\ Q = w * U + s /\ s < U
        BY <1>1, TowardZeroDown
      <4>3. t <= w
        <5>. SUFFICES ASSUME w + 1 <= t PROVE FALSE
          OBVIOUS
        <5>1. (w + 1) * U <= t * U /\ (w + 1) * U = w * U + U /\ t * U \in Nat /\ w * U \in Nat
          BY TimesRises
        <5>. QED BY <3>4, <4>1, <4>2, <5>1
      <4>. QED BY <4>1, <4>2, <4>3
    <3>6. g # 0
      BY <1>14, <2>2
    <3>7. Quantile(p) = x + TowardZero(P, U) /\ Quantile(q) = x + TowardZero(Q, U)
      BY <1>1, <1>8, <1>9, <1>14, <2>2, <3>1, <3>4, <3>6
    <3>. QED BY <3>5, <3>7
  <2>. QED BY <2>1, <2>2
<1>. QED BY <1>6, <1>7, <1>11, <1>12, <1>13, <1>14

\* The two middle values of a slice of even length are averaged.
LEMMA AverageRoundsDown ==
    ASSUME input \in Inputs,
           NEW x \in Int, NEW y \in Int, Least <= x, y <= Greatest, x <= y, y - x <= Greatest
    PROVE  2 * Average(x, y) <= x + y /\ x + y < 2 * (Average(x, y) + 1) /\ Average(x, y) \in Int
<1>1. PICK g \in Nat : g = y - x /\ g <= Greatest /\ y = x + g
  <2>1. y - x \in Nat /\ y = x + (y - x)
    OBVIOUS
  <2>. QED BY <2>1
<1>2. Wrap(y - x) = g
  <2>1. Least <= g /\ g \in Int
    BY InputFacts
  <2>. QED BY <1>1, <2>1, WrapKeeps
<1>3. PICK t \in Nat : t = TowardZero(g, 2) /\ 2 * t <= g /\ g < 2 * (t + 1) /\ t <= g
  <2>1. PICK t \in Nat, r \in Nat : t = TowardZero(g, 2) /\ g = t * 2 + r /\ r < 2
    BY TowardZeroDown
  <2>. QED BY <2>1
<1>4. Wrap(x + t) = x + t
  <2>1. x + t \in Int /\ Least <= x + t /\ x + t <= Greatest
    BY <1>1, <1>3, InputFacts
  <2>. QED BY <2>1, WrapKeeps
<1>5. Average(x, y) = x + t
  BY <1>1, <1>2, <1>3, <1>4 DEF Average
<1>. QED BY <1>1, <1>3, <1>5

LEMMA MedianRoundsDown ==
    ASSUME input \in Inputs
    PROVE  /\ Median \in Least .. Greatest /\ Median \in Int
           /\ (GapsFit /\ n % 2 = 0) =>
                LET e == a[n \div 2] + a[n \div 2 + 1] IN 2 * Median <= e /\ e < 2 * (Median + 1)
<1>1. n \in Nat /\ n >= 1
  BY InputFacts
<1>2. CASE n % 2 = 1
  <2>1. (n \div 2) + 1 \in 1 .. n
    BY <1>1, <1>2
  <2>. QED BY <1>2, <2>1, InputFacts DEF Median
<1>3. CASE n % 2 # 1
  <2>1. PICK k \in Nat : n \div 2 = k + 1 /\ n \div 2 + 1 = k + 2 /\ k < n - 1
    <3>1. n \div 2 - 1 \in Nat /\ n \div 2 = (n \div 2 - 1) + 1 /\ n \div 2 - 1 < n - 1
      BY <1>1, <1>3
    <3>. QED BY <3>1
  <2>2. PICK x \in Int, y \in Int :
           /\ x = a[k + 1] /\ y = a[k + 2] /\ x <= y /\ Least <= x /\ y <= Greatest
           /\ GapsFit => y - x <= Greatest
    BY <2>1, Neighbours
  <2>3. Median = Average(x, y)
    BY <1>3, <2>1, <2>2 DEF Median
  <2>4. Median \in Least .. Greatest /\ Median \in Int
    <3>1. PICK g \in Int : g = Wrap(y - x)
      <4>1. y - x \in Int
        BY <2>2
      <4>. QED BY <4>1, WrapInType
    <3>2. TowardZero(g, 2) \in Int
      BY DEF TowardZero
    <3>. QED BY <2>2, <2>3, <3>1, <3>2, WrapInType DEF Average
  <2>5. ASSUME GapsFit PROVE 2 * Median <= x + y /\ x + y < 2 * (Median + 1)
    BY <2>2, <2>3, <2>5, AverageRoundsDown
  <2>. QED BY <2>1, <2>2, <2>4, <2>5
<1>. QED BY <1>2, <1>3

\* Half of a gap is what the quantile at a half adds.
LEMMA HalfOfGap ==
    ASSUME NEW h \in Nat, h >= 1, NEW g \in Int
    PROVE  TowardZero(h * g, 2 * h) = TowardZero(g, 2)
<1>1. ASSUME NEW z \in Nat PROVE (h * z) \div (2 * h) = z \div 2
  <2>1. PICK k \in Nat, r \in Nat : k = z \div 2 /\ z = k * 2 + r /\ r < 2
    OBVIOUS
  <2>2. PICK d \in Nat, s \in Nat : d = 2 * h /\ s = h * r
    OBVIOUS
  <2>3. h * z = k * d + s
    <3>1. h * (k * 2 + r) = (h * k) * 2 + h * r /\ k * (2 * h) = (h * k) * 2
      OBVIOUS
    <3>. QED BY <2>1, <2>2, <3>1
  <2>4. s < d
    <3>1. r = 0 \/ r = 1
      BY <2>1
    <3>. QED BY <2>2, <3>1
  <2>5. PICK y \in Nat : y = h * z /\ y = k * d + s
    BY <2>3
  <2>6. y \div d = k
    BY <2>4, <2>5, DivModOf
  <2>. QED BY <2>1, <2>2, <2>5, <2>6
<1>2. CASE g >= 0
  <2>1. h * g >= 0
    BY <1>2
  <2>. QED BY <1>1, <1>2, <2>1 DEF TowardZero
<1>3. CASE g < 0
  <2>1. PICK z \in Nat : z = -g /\ z >= 1
    BY <1>3
  <2>2. -(h * g) = h * z /\ h * z >= 1
    BY <2>1
  <2>3. ~(h * g >= 0)
    <3>1. PICK e \in Int : e = h * g
      OBVIOUS
    <3>2. -e >= 1
      BY <2>2, <3>1
    <3>. QED BY <3>1, <3>2
  <2>. QED BY <1>1, <1>3, <2>1, <2>2, <2>3 DEF TowardZero
<1>. QED BY <1>2, <1>3

\* Half of a float is a float.
LEMMA HalfProduct ==
    ASSUME input \in Inputs, NEW w \in Int, Least <= w, w <= Greatest, NEW q \in Int, 2 * q = Unit
    PROVE  \E c \in Int : /\ Float(w) = c * Unit
                          /\ TowardZero(Product(q, Float(w)), Unit) = TowardZero(c, 2)
<1>1. PICK h \in Nat : h = q /\ h >= 1 /\ Unit = 2 * h /\ h \in Ulps
  <2>1. Unit # 1 /\ q \in Nat /\ q >= 1
    BY Naturals
  <2>2. PICK v \in Ulps : Unit = 2 * v
    BY <2>1, FloatFacts
  <2>3. v \in Nat
    BY Naturals
  <2>4. v = q
    BY <2>2, <2>3
  <2>. QED BY <2>1, <2>2, <2>4
<1>2. PICK c \in Int : Float(w) = c * Unit
  BY FloatIs
<1>3. (h * (c * Unit)) \div Unit = h * c
  <2>1. PICK z \in Int, d \in Int : z = h * (c * Unit) /\ d = h * c /\ z = d * Unit + 0
    <3>1. h * (c * Unit) = (h * c) * Unit + 0 /\ h * (c * Unit) \in Int /\ h * c \in Int
      BY Naturals
    <3>. QED BY <3>1
  <2>2. z \div Unit = d
    <3>1. Unit \in Nat /\ Unit >= 1 /\ 0 < Unit /\ 0 \in Nat
      BY Naturals
    <3>. QED BY <2>1, <3>1, DivModIntOf, Zenon
  <2>. QED BY <2>1, <2>2
<1>4. PICK u \in Nat : u = Ulp(w * Unit) /\ u \in Ulps /\ u >= 1
  <2>1. InRange(w * Unit) /\ w * Unit \in Int
    BY FloatIs, Naturals
  <2>. QED BY <2>1, UlpIs
<1>5. PICK k \in Int : c * Unit = k * u /\ -Top <= k /\ k <= Top
  <2>1. InRange(w * Unit) /\ w * Unit \in Int
    BY FloatIs, Naturals
  <2>2. PICK k \in Int : Round(w * Unit) = k * Ulp(w * Unit) /\ -Top <= k /\ k <= Top
    BY <2>1, FewBits
  <2>. QED BY <1>2, <1>4, <2>2 DEF Float
<1>6. h * c \in Int /\ c * Unit = 2 * (h * c)
  <2>1. c * (2 * h) = 2 * (h * c) /\ h * c \in Int
    OBVIOUS
  <2>. QED BY <1>1, <2>1
<1>7. InRange(h * c)
  <2>1. PICK v \in Ulps : Within(c * Unit, v)
    BY <1>2, FloatIs DEF InRange
  <2>2. Within(h * c, v)
    <3>1. Top * v \in Nat
      BY Naturals
    <3>. QED BY <1>6, <2>1, <3>1 DEF Within
  <2>. QED BY <2>2 DEF InRange
<1>8. Round(h * c) = h * c
  <2>1. CASE u # 1
    <3>1. PICK v \in Ulps : u = 2 * v
      BY <1>4, <2>1, FloatFacts
    <3>2. v \in Nat
      BY Naturals
    <3>3. k * (2 * v) = 2 * (k * v) /\ k * v \in Int
      BY <3>2
    <3>4. h * c = k * v
      BY <1>5, <1>6, <3>1, <3>3
    <3>. QED BY <1>5, <1>7, <3>4, RoundKeeps
  <2>2. CASE u = 1
    <3>1. c * Unit = k
      BY <1>5, <2>2
    <3>2. -Top <= c /\ c <= Top
      <4>1. Unit \in Nat /\ Unit >= 1 /\ Top \in Nat
        BY Naturals
      <4>2. CASE c >= 0
        <5>1. 1 * c <= Unit * c /\ Unit * c = c * Unit
          BY <4>1, <4>2, TimesRises
        <5>. QED BY <1>5, <3>1, <4>1, <4>2, <5>1
      <4>3. CASE c < 0
        <5>1. PICK b \in Nat : b = -c
          BY <4>3
        <5>2. 1 * b <= Unit * b /\ Unit * (-c) = -(c * Unit) /\ c * Unit \in Int
          BY <4>1, TimesRises
        <5>. QED BY <1>5, <3>1, <4>1, <4>3, <5>1, <5>2
      <4>. QED BY <4>2, <4>3
    <3>3. h * c = c * h /\ InRange(c * h)
      <4>1. h * c = c * h
        OBVIOUS
      <4>. QED BY <1>7, <4>1
    <3>4. Round(c * h) = c * h
      BY <1>1, <3>2, <3>3, RoundKeeps
    <3>. QED BY <3>3, <3>4
  <2>. QED BY <2>1, <2>2
<1>9. Product(q, Float(w)) = h * c
  BY <1>1, <1>2, <1>3, <1>8 DEF Product
<1>10. TowardZero(h * c, 2 * h) = TowardZero(c, 2)
  BY <1>1, HalfOfGap
<1>. QED BY <1>1, <1>2, <1>9, <1>10

\* Half of a position is exact: the index is whole, or half way to the next.
LEMMA HalfPosition ==
    ASSUME input \in Inputs, NEW q \in Int, 2 * q = Unit
    PROVE  \E k \in Nat, f \in Nat : /\ k = Whole(q) /\ f = Fraction(q) /\ Round(f) = f /\ f < Unit
                                    /\ \/ n = 2 * k + 1 /\ f = 0
                                       \/ n = 2 * k + 2 /\ f = q
<1>1. PICK U \in Nat, m \in Nat : U = Unit /\ U >= 1 /\ U = 2 * q /\ n = m + 1 /\ m = n - 1 /\ m < Top
  <2>1. n - 1 \in Nat /\ n = (n - 1) + 1 /\ n - 1 < Top
    BY InputFacts, Naturals
  <2>. QED BY <2>1, Naturals
<1>2. q \in Nat /\ q >= 1 /\ q < U /\ Clamp(q) = q
  <2>1. q \in Nat /\ q >= 1 /\ q < U
    BY <1>1
  <2>. QED BY <1>1, <2>1 DEF Clamp
<1>3. PICK E \in Nat, W \in Nat, f \in Nat :
        /\ E = Clamp(q) * (n - 1) /\ InRange(E) /\ Round(E) = W * Unit + f
        /\ W = Whole(q) /\ f = Fraction(q) /\ f < Unit /\ Round(f) = f
  BY PositionOf
<1>4. E = q * m
  BY <1>1, <1>2, <1>3
<1>5. Round(E) = E
  <2>1. q \in Ulps
    <3>1. Unit # 1
      BY <1>1, <1>2
    <3>2. PICK v \in Ulps : Unit = 2 * v
      BY <3>1, FloatFacts
    <3>3. v \in Nat
      BY Naturals
    <3>4. v = q
      BY <3>2, <3>3
    <3>. QED BY <3>4
  <2>2. m * q = q * m /\ -Top <= m /\ m <= Top
    BY <1>1, <1>2, Naturals
  <2>3. InRange(m * q) /\ m \in Int
    BY <1>4, <1>3, <2>2
  <2>. QED BY <1>4, <2>1, <2>2, <2>3, RoundKeeps
<1>6. ASSUME NEW k \in Nat, NEW g \in Nat, E = k * U + g, g < U PROVE W = k /\ f = g
  <2>1. E = W * U + f /\ f < U
    BY <1>1, <1>3, <1>5
  <2>2. E \div U = W /\ E % U = f
    BY <2>1, DivModOf, Zenon
  <2>3. E \div U = k /\ E % U = g
    BY <1>6, DivModOf, Zenon
  <2>. QED BY <2>2, <2>3
<1>7. CASE m % 2 = 0
  <2>1. PICK k \in Nat : m = 2 * k
    <3>1. m \div 2 \in Nat /\ m = 2 * (m \div 2)
      BY <1>7
    <3>. QED BY <3>1
  <2>2. E = k * U + 0 /\ 0 < U /\ 0 \in Nat
    <3>1. q * (2 * k) = k * (2 * q) + 0
      OBVIOUS
    <3>. QED BY <1>1, <1>4, <2>1, <3>1
  <2>3. W = k /\ f = 0
    BY <1>6, <2>2, Zenon
  <2>4. n = 2 * W + 1
    BY <1>1, <2>1, <2>3
  <2>. QED BY <1>3, <2>3, <2>4
<1>8. CASE m % 2 = 1
  <2>1. PICK k \in Nat : m = 2 * k + 1
    <3>1. m \div 2 \in Nat /\ m = 2 * (m \div 2) + 1
      BY <1>8
    <3>. QED BY <3>1
  <2>2. E = k * U + q /\ q < U /\ q \in Nat
    <3>1. q * (2 * k + 1) = k * (2 * q) + q
      OBVIOUS
    <3>. QED BY <1>1, <1>2, <1>4, <2>1, <3>1
  <2>3. W = k /\ f = q
    BY <1>6, <2>2, Zenon
  <2>4. n = 2 * W + 2
    BY <1>1, <2>1, <2>3
  <2>. QED BY <1>3, <2>3, <2>4
<1>9. m % 2 = 0 \/ m % 2 = 1
  BY <1>1
<1>. QED BY <1>7, <1>8, <1>9

\* The quantile at a half and the median differ by what the gap is rounded by.
LEMMA MedianAtHalf ==
    ASSUME input \in Inputs, NEW q \in Int, 2 * q = Unit
    PROVE  LET x == a[(n + 1) \div 2]
               y == a[n \div 2 + 1]
               gap == Wrap(y - x) * Unit
               off == IF Round(gap) >= gap THEN Round(gap) - gap ELSE gap - Round(gap)
           IN  /\ off = 0 => Quantile(q) = Median
               /\ y - x <= Greatest => /\ 2 * Unit * (Quantile(q) - Median) < off + 2 * Unit
                                       /\ 2 * Unit * (Median - Quantile(q)) < off + 2 * Unit
<1>. DEFINE x == a[(n + 1) \div 2]
            y == a[n \div 2 + 1]
            gap == Wrap(y - x) * Unit
            off == IF Round(gap) >= gap THEN Round(gap) - gap ELSE gap - Round(gap)
<1>1. PICK U \in Nat : U = Unit /\ U >= 1 /\ U = 2 * q /\ q \in Nat /\ q >= 1 /\ q < U
  BY Naturals
<1>2. PICK k \in Nat, f \in Nat : /\ k = Whole(q) /\ f = Fraction(q) /\ Round(f) = f
                                /\ \/ n = 2 * k + 1 /\ f = 0
                                   \/ n = 2 * k + 2 /\ f = q
  BY HalfPosition
<1>3. CASE n = 2 * k + 1 /\ f = 0
  <2>3. n % 2 = 1 /\ n \div 2 = k /\ (n + 1) \div 2 = k + 1 /\ k + 1 \in 1 .. n
    BY <1>3
  <2>4. PICK b \in Int : b = a[k + 1]
    BY <2>3, InputFacts
  <2>5. x = b /\ y = b
    BY <2>3, <2>4
  <2>6. Quantile(q) = b /\ Median = b
    <3>1. CASE k >= n - 1
      <4>1. n = k + 1
        BY <1>3, <3>1
      <4>. QED BY <1>2, <1>3, <2>3, <2>4, <3>1, <4>1 DEF Quantile, Median
    <3>2. CASE ~(k >= n - 1)
      BY <1>2, <1>3, <2>3, <2>4, <3>2 DEF Quantile, Median
    <3>. QED BY <3>1, <3>2
  <2>7. gap = 0 /\ Round(0) = 0
    <3>1. Wrap(0) = 0
      BY WrapKeeps, InputFacts
    <3>2. 0 * Unit = 0 /\ Round(0 * Unit) = 0 * Unit
      BY WholeIsFloat, Naturals
    <3>3. y - x = 0
      BY <2>5
    <3>. QED BY <3>1, <3>2, <3>3
  <2>8. off = 0
    BY <2>7
  <2>9. 2 * Unit * (Quantile(q) - Median) < off + 2 * Unit /\ 2 * Unit * (Median - Quantile(q)) < off + 2 * Unit
    <3>1. Quantile(q) - Median = 0 /\ Median - Quantile(q) = 0
      BY <2>6
    <3>2. 2 * Unit * 0 = 0
      BY <1>1
    <3>. QED BY <1>1, <2>8, <3>1, <3>2
  <2>. QED BY <2>6, <2>9
<1>4. CASE n = 2 * k + 2 /\ f = q
  <2>3. /\ n % 2 # 1 /\ n \div 2 = k + 1 /\ n \div 2 + 1 = k + 2 /\ (n + 1) \div 2 = k + 1
        /\ k < n - 1 /\ ~(k >= n - 1)
    BY <1>4
  <2>4. PICK b \in Int, d \in Int : b = a[k + 1] /\ d = a[k + 2] /\ b <= d /\ Least <= b /\ d <= Greatest
    BY <2>3, Neighbours
  <2>5. x = b /\ y = d
    BY <2>3, <2>4
  <2>6. PICK w \in Int : w = Wrap(d - b) /\ Least <= w /\ w <= Greatest
    <3>1. d - b \in Int
      OBVIOUS
    <3>2. Wrap(d - b) \in Int /\ Wrap(d - b) \in Least .. Greatest
      BY <3>1, WrapInType
    <3>. QED BY <3>2, InputFacts
  <2>7. PICK c \in Int : Float(w) = c * Unit /\ TowardZero(Product(q, Float(w)), Unit) = TowardZero(c, 2)
    BY <2>6, HalfProduct
  <2>8. Quantile(q) = Wrap(b + TowardZero(c, 2))
    <3>1. f # 0
      BY <1>1, <1>4
    <3>2. Quantile(q) = Interpolate(b, d, q)
      BY <1>2, <1>4, <2>3, <2>4, <3>1 DEF Quantile, Upper
    <3>. QED BY <2>6, <2>7, <3>2 DEF Interpolate
  <2>9. Median = Wrap(b + TowardZero(w, 2))
    BY <2>3, <2>4, <2>6 DEF Median, Average
  <2>10. gap = w * Unit /\ Round(gap) = c * Unit
    BY <2>5, <2>6, <2>7 DEF Float
  <2>11. PICK C \in Int, G \in Int, o \in Nat :
            /\ C = c * U /\ G = w * U /\ o = off
            /\ C - G <= o /\ G - C <= o
            /\ o = 0 => C = G
    <3>1. PICK C \in Int, G \in Int : C = c * U /\ G = w * U
      OBVIOUS
    <3>2. off = IF C >= G THEN C - G ELSE G - C
      BY <1>1, <2>10, <3>1
    <3>3. off \in Nat /\ C - G <= off /\ G - C <= off /\ (off = 0 => C = G)
      <4>. HIDE DEF off
      <4>. QED BY <3>2
    <3>. QED BY <3>1, <3>3
  <2>12. ASSUME off = 0 PROVE Quantile(q) = Median
    <3>1. c * U = w * U
      <4>. HIDE DEF off
      <4>. QED BY <2>11, <2>12
    <3>2. c = w
      <4>1. ~(c < w)
        <5>. SUFFICES ASSUME c < w PROVE FALSE
          OBVIOUS
        <5>1. (c + 1) * U <= w * U /\ (c + 1) * U = c * U + U /\ c * U \in Int
          BY TimesRises
        <5>. QED BY <1>1, <3>1, <5>1
      <4>2. ~(w < c)
        <5>. SUFFICES ASSUME w < c PROVE FALSE
          OBVIOUS
        <5>1. (w + 1) * U <= c * U /\ (w + 1) * U = w * U + U /\ w * U \in Int
          BY TimesRises
        <5>. QED BY <1>1, <3>1, <5>1
      <4>. QED BY <4>1, <4>2
    <3>. QED BY <2>8, <2>9, <3>2
  <2>13. ASSUME y - x <= Greatest
         PROVE  /\ 2 * Unit * (Quantile(q) - Median) < off + 2 * Unit
                /\ 2 * Unit * (Median - Quantile(q)) < off + 2 * Unit
    <3>1. PICK g \in Nat : g = d - b /\ d = b + g /\ g <= Greatest
      <4>1. d - b \in Nat /\ d = b + (d - b) /\ d - b <= Greatest
        BY <2>4, <2>5, <2>13
      <4>. QED BY <4>1
    <3>2. w = g
      <4>1. Least <= g /\ g \in Int
        BY InputFacts
      <4>. QED BY <2>6, <3>1, <4>1, WrapKeeps
    <3>3. PICK t \in Nat : t = TowardZero(c, 2) /\ t <= g /\ Wrap(b + t) = b + t
      <4>1. PICK t \in Nat : /\ t = TowardZero(Product(q, Float(d - b)), Unit)
                             /\ t <= d - b /\ Interpolate(b, d, q) = b + t
        <5>1. Round(q) = q
          BY <1>2, <1>4
        <5>. QED BY <1>1, <2>4, <3>1, <5>1, InterpolateBetween
      <4>2. t = TowardZero(c, 2) /\ t <= g
        BY <2>7, <3>1, <3>2, <4>1
      <4>3. b + t \in Int /\ Least <= b + t /\ b + t <= Greatest
        <5>1. Least \in Int /\ Greatest \in Int
          BY InputFacts
        <5>. QED BY <2>4, <3>1, <4>2, <5>1
      <4>. QED BY <4>2, <4>3, WrapKeeps
    <3>4. PICK s \in Nat : s = TowardZero(g, 2) /\ 2 * s <= g /\ g <= 2 * s + 1 /\ Wrap(b + s) = b + s
      <4>1. PICK s \in Nat, r \in Nat : s = TowardZero(g, 2) /\ g = s * 2 + r /\ r < 2
        <5>1. 2 \in Nat /\ 2 >= 1
          OBVIOUS
        <5>. QED BY <5>1, TowardZeroDown, Zenon
      <4>2. b + s \in Int /\ Least <= b + s /\ b + s <= Greatest
        <5>1. Least \in Int /\ Greatest \in Int
          BY InputFacts
        <5>. QED BY <2>4, <3>1, <4>1, <5>1
      <4>. QED BY <4>1, <4>2, WrapKeeps
    <3>5. 2 * t <= c /\ c <= 2 * t + 1
      <4>1. c >= 0
        <5>1. c * Unit >= 0
          <6>1. w * Unit \in Nat /\ InRange(w * Unit)
            BY <2>6, <3>2, FloatIs, Naturals
          <6>2. Round(w * Unit) \in Nat
            BY <6>1, RoundRises
          <6>. QED BY <2>7, <6>2 DEF Float
        <5>. SUFFICES ASSUME c < 0 PROVE FALSE
          OBVIOUS
        <5>2. (c + 1) * U <= 0 * U /\ (c + 1) * U = c * U + U /\ 0 * U = 0 /\ c * U \in Int
          BY TimesRises
        <5>. QED BY <1>1, <5>1, <5>2
      <4>2. PICK v \in Nat, r \in Nat : v = TowardZero(c, 2) /\ c = v * 2 + r /\ r < 2
        <5>1. c \in Nat /\ 2 \in Nat /\ 2 >= 1
          BY <4>1
        <5>. QED BY <5>1, TowardZeroDown, Zenon
      <4>. QED BY <3>3, <4>2
    <3>6. Quantile(q) - Median = t - s /\ Median - Quantile(q) = s - t
      BY <2>8, <2>9, <3>2, <3>3, <3>4
    <3>7. 2 * (t - s) <= c - g + 1 /\ 2 * (s - t) <= g - c + 1
      BY <3>4, <3>5
    <3>8. 2 * U * (t - s) <= C - G + U
      <4>1. (2 * (t - s)) * U <= (c - g + 1) * U
        <5>1. 2 * (t - s) \in Int /\ c - g + 1 \in Int
          OBVIOUS
        <5>. QED BY <3>7, <5>1, TimesRises
      <4>2. (c - g + 1) * U = c * U - g * U + U /\ (2 * (t - s)) * U = 2 * U * (t - s)
        OBVIOUS
      <4>. QED BY <2>11, <3>2, <4>1, <4>2
    <3>9. 2 * U * (s - t) <= G - C + U
      <4>1. (2 * (s - t)) * U <= (g - c + 1) * U
        <5>1. 2 * (s - t) \in Int /\ g - c + 1 \in Int
          OBVIOUS
        <5>. QED BY <3>7, <5>1, TimesRises
      <4>2. (g - c + 1) * U = g * U - c * U + U /\ (2 * (s - t)) * U = 2 * U * (s - t)
        OBVIOUS
      <4>. QED BY <2>11, <3>2, <4>1, <4>2
    <3>10. 2 * U * (t - s) \in Int /\ 2 * U * (s - t) \in Int
      OBVIOUS
    <3>11. 2 * U * (t - s) < o + 2 * U /\ 2 * U * (s - t) < o + 2 * U
      <4>1. C - G <= o /\ G - C <= o
        BY <2>11
      <4>2. PICK i \in Int, j \in Int : i = 2 * U * (t - s) /\ j = 2 * U * (s - t)
        BY <3>10
      <4>. HIDE DEF off, gap, x, y
      <4>3. i < o + 2 * U /\ j < o + 2 * U
        BY <1>1, <3>8, <3>9, <4>1, <4>2
      <4>. QED BY <4>2, <4>3
    <3>. QED BY <1>1, <2>11, <3>6, <3>11
  <2>. QED BY <2>12, <2>13
<1>. QED BY <1>2, <1>3, <1>4

-----------------------------------------------------------------------------
(* Median and Quantile: the specification.                                 *)

\* Every entry of the table is the quantile that was asked for, and the median the slice's.
IndInv ==
    /\ input \in Inputs
    /\ table \in Seq(Least .. Greatest) /\ Len(table) <= Len(Qs)
    /\ \A i \in DOMAIN table : table[i] = Quantile(Qs[i])
    /\ median \in {<<>>, <<Median>>}

\* The quantiles asked for.
LEMMA QsFacts ==
    /\ Len(Qs) \in Nat /\ \A i \in 1 .. Len(Qs) : Qs[i] \in Int
    /\ \A i, j \in 1 .. Len(Qs) : i <= j => Qs[i] <= Qs[j]
<1>1. Qs \in Seq(Int) /\ DOMAIN Qs = 1 .. Len(Qs) /\ Len(Qs) \in Nat
  BY QsAssumption
<1>2. \A i \in 1 .. Len(Qs) : Qs[i] \in Int
  BY <1>1
<1>. QED BY <1>1, <1>2, QsAssumption

\* The operators see the input and nothing else of the state.
LEMMA SameInput ==
    ASSUME input' = input
    PROVE  Least' = Least /\ Greatest' = Greatest /\ Median' = Median /\ \A q : Quantile(q)' = Quantile(q)
BY DEF Least, Greatest, a, n, Median, Average, Wrap, Quantile, Whole, Fraction, Pos, Upper, Interpolate

LEMMA InitInv == Init => IndInv
<1>. SUFFICES ASSUME Init PROVE IndInv
  OBVIOUS
<1>1. table = <<>> /\ median = <<>> /\ input \in Inputs
  BY DEF Init
<1>2. Len(table) <= Len(Qs) /\ table \in Seq(Least .. Greatest) /\ DOMAIN table = {}
  BY <1>1, QsFacts
<1>. QED BY <1>1, <1>2 DEF IndInv

LEMMA StepInv == IndInv /\ [Next]_vars => IndInv'
<1>. SUFFICES ASSUME IndInv, [Next]_vars PROVE IndInv'
  OBVIOUS
<1>. USE DEF IndInv
<1>1. CASE AskQuantile
  <2>1. PICK k \in Nat : k = Len(table) /\ k + 1 \in 1 .. Len(Qs)
    BY <1>1, QsFacts DEF AskQuantile
  <2>2. /\ table' = Append(table, Quantile(Qs[k + 1]))
        /\ input' = input /\ median' = median
    BY <1>1, <2>1 DEF AskQuantile
  <2>3. Quantile(Qs[k + 1]) \in Least .. Greatest
    BY <2>1, QsFacts, QuantileInType
  <2>4. /\ Least' = Least /\ Greatest' = Greatest /\ Median' = Median
        /\ \A p : Quantile(p)' = Quantile(p)
    BY <2>2, SameInput
  <2>5. table' \in Seq(Least .. Greatest) /\ Len(table') = k + 1
    BY <2>1, <2>2, <2>3
  <2>6. \A i \in DOMAIN table' : table'[i] = Quantile(Qs[i])
    <3>. SUFFICES ASSUME NEW i \in DOMAIN table' PROVE table'[i] = Quantile(Qs[i])
      OBVIOUS
    <3>1. CASE i = k + 1
      BY <2>1, <2>2, <2>5, <3>1
    <3>2. CASE i # k + 1
      <4>1. i \in DOMAIN table /\ table'[i] = table[i]
        BY <2>1, <2>2, <2>3, <2>5, <3>2
      <4>. QED BY <4>1
    <3>. QED BY <3>1, <3>2
  <2>7. Len(table') <= Len(Qs)
    BY <2>1, <2>5
  <2>. QED BY <2>2, <2>4, <2>5, <2>6, <2>7
<1>2. CASE AskMedian
  <2>1. median' = <<Median>> /\ input' = input /\ table' = table
    BY <1>2 DEF AskMedian
  <2>2. /\ Least' = Least /\ Greatest' = Greatest /\ Median' = Median
        /\ \A p : Quantile(p)' = Quantile(p)
    BY <2>1, SameInput
  <2>. QED BY <2>1, <2>2
<1>3. CASE UNCHANGED vars
  <2>1. median' = median /\ input' = input /\ table' = table
    BY <1>3 DEF vars
  <2>2. /\ Least' = Least /\ Greatest' = Greatest /\ Median' = Median
        /\ \A p : Quantile(p)' = Quantile(p)
    BY <2>1, SameInput
  <2>. QED BY <2>1, <2>2
<1>. QED BY <1>1, <1>2, <1>3 DEF Next

LEMMA Invariance == Spec => []IndInv
  BY InitInv, StepInv, PTL DEF Spec

\* For every type, slice, list of quantiles and precision, the variables have their types: what
\* is returned is a value of T even where the computation wraps.
THEOREM TypeCorrect == Spec => []TypeOK
<1>1. IndInv => TypeOK
  <2>. SUFFICES ASSUME IndInv PROVE TypeOK
    OBVIOUS
  <2>1. Median \in Least .. Greatest
    BY MedianRoundsDown DEF IndInv
  <2>2. ASSUME NEW S, NEW x \in S PROVE <<x>> \in Seq(S) /\ Len(<<x>>) <= 1
    OBVIOUS
  <2>3. CASE median = <<Median>>
    BY <2>1, <2>2, <2>3 DEF IndInv, TypeOK
  <2>4. CASE median = <<>>
    BY <2>4 DEF IndInv, TypeOK
  <2>. QED BY <2>3, <2>4 DEF IndInv
<1>. QED BY <1>1, Invariance, PTL

\* For every type, every sorted slice whose neighbours' gaps are values of the type, every list
\* of quantiles and every precision of the floats, a quantile is between the order statistics
\* around its exact position, whatever is rounded on the way (compare.go:278-296), and the
\* median is the exact mean rounded down (sort.go:403-408).
THEOREM AlwaysBetween == Spec => []StaysBetween
<1>1. IndInv => StaysBetween
  <2>. SUFFICES ASSUME IndInv, GapsFit PROVE StaysBetween
    BY DEF StaysBetween
  <2>1. ASSUME NEW i \in DOMAIN table
        PROVE  Below(Qs[i]) <= table[i] /\ table[i] <= Above(Qs[i])
    <3>1. i \in 1 .. Len(Qs) /\ table[i] = Quantile(Qs[i])
      BY QsFacts DEF IndInv
    <3>2. Qs[i] \in Int
      BY <3>1, QsFacts
    <3>. QED BY <3>1, <3>2, QuantileBetween DEF IndInv
  <2>2. ASSUME median # <<>>, n % 2 = 0
        PROVE  LET e == a[n \div 2] + a[n \div 2 + 1] IN 2 * median[1] <= e /\ e < 2 * (median[1] + 1)
    <3>1. median[1] = Median
      BY <2>2 DEF IndInv
    <3>. QED BY <2>2, <3>1, MedianRoundsDown DEF IndInv
  <2>. QED BY <2>1, <2>2 DEF StaysBetween
<1>. QED BY <1>1, Invariance, PTL

\* For every type, sorted slice, list of quantiles and precision, a larger q never gives a
\* smaller quantile, as long as the neighbours' gaps are values of the type (compare.go:265-297).
THEOREM QuantilesRise == Spec => []RisesWithQ
<1>1. IndInv => RisesWithQ
  <2>. SUFFICES ASSUME IndInv, GapsFit, NEW i \in DOMAIN table, NEW j \in DOMAIN table, i <= j
                PROVE  table[i] <= table[j]
    BY DEF RisesWithQ
  <2>1. i \in 1 .. Len(Qs) /\ j \in 1 .. Len(Qs)
    BY QsFacts DEF IndInv
  <2>2. Qs[i] \in Int /\ Qs[j] \in Int /\ Qs[i] <= Qs[j]
    BY <2>1, QsFacts
  <2>. QED BY <2>2, QuantileRises DEF IndInv
<1>. QED BY <1>1, Invariance, PTL

\* For every type, sorted slice, list of quantiles and precision, the quantile at a half is the
\* median where the middle gap is a float, also where it wraps, and differs by no more than
\* half of the rounding, and one, where it is not (sort.go:403-408, compare.go:296).
THEOREM HalfIsMedian == Spec => []MedianIsHalfQuantile
<1>1. IndInv => MedianIsHalfQuantile
  <2>. SUFFICES ASSUME IndInv, NEW i \in DOMAIN table, median # <<>>, 2 * Qs[i] = Unit
                PROVE  LET x == a[(n + 1) \div 2]
                           y == a[n \div 2 + 1]
                           gap == Wrap(y - x) * Unit
                           off == IF Round(gap) >= gap THEN Round(gap) - gap ELSE gap - Round(gap)
                       IN  /\ off = 0 => table[i] = median[1]
                           /\ y - x <= Greatest => /\ 2 * Unit * (table[i] - median[1]) < off + 2 * Unit
                                                  /\ 2 * Unit * (median[1] - table[i]) < off + 2 * Unit
    BY DEF MedianIsHalfQuantile
  <2>1. median[1] = Median
    BY DEF IndInv
  <2>2. i \in 1 .. Len(Qs) /\ table[i] = Quantile(Qs[i])
    BY QsFacts DEF IndInv
  <2>3. Qs[i] \in Int
    BY <2>2, QsFacts
  <2>. QED BY <2>1, <2>2, <2>3, MedianAtHalf DEF IndInv
<1>. QED BY <1>1, Invariance, PTL
=============================================================================
