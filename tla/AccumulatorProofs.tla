-------------------------- MODULE AccumulatorProofs --------------------------
(***************************************************************************)
(* The two accumulators, for every number of lanes, of the accumulator and *)
(* of the kernels, and for every chunking.  And AddAll and MulAll, for     *)
(* every number of sources, of every length: as far as the shortest slice  *)
(* goes, the groups of naryFold combine them from left to right.           *)
(***************************************************************************)
EXTENDS StreamAccumulators, NaryFold, NaturalFacts, SequenceTheorems, TLAPS

-----------------------------------------------------------------------------
(* Division by the number of lanes.                                        *)

\* Element m of the stream is the one lane r gets in turn q.
At(m, q, r) == m = q * SumLanes + r /\ r < SumLanes

LEMMA AtUnique ==
    ASSUME NEW m \in Nat, NEW q \in Nat, NEW r \in Nat, At(m, q, r)
    PROVE  m \div SumLanes = q /\ m % SumLanes = r
<1>1. SumLanes \in Nat /\ SumLanes >= 1
  BY LanesAssumption
<1>2. m = q * SumLanes + r /\ r < SumLanes
  BY DEF At
<1>3. PICK d \in Nat : d = SumLanes
  BY <1>1
<1>4. m = q * d + r /\ r < d
  BY <1>2, <1>3, Zenon
<1>5. m \div d = q /\ m % d = r
  BY <1>4, DivModOf
<1>. QED BY <1>3, <1>5, Zenon

LEMMA AtExists ==
    ASSUME NEW m \in Nat
    PROVE  \E q, r \in Nat : At(m, q, r) /\ m \div SumLanes = q /\ m % SumLanes = r
<1>1. SumLanes \in Nat /\ SumLanes >= 1
  BY LanesAssumption
<1>2. /\ m \div SumLanes \in Nat /\ m % SumLanes \in Nat /\ m % SumLanes < SumLanes
      /\ m = (m \div SumLanes) * SumLanes + (m % SumLanes)
  BY <1>1, DivMod, Zenon
<1>3. At(m, m \div SumLanes, m % SumLanes)
  BY <1>2, Zenon DEF At
<1>. QED BY <1>2, <1>3, Zenon

LEMMA Multiple ==
    ASSUME NEW m \in Nat, NEW q \in Nat, m = q * SumLanes
    PROVE  m \div SumLanes = q /\ m % SumLanes = 0
<1>1. m = q * SumLanes + 0 /\ 0 < SumLanes
  BY LanesAssumption
<1>2. At(m, q, 0)
  BY <1>1 DEF At
<1>. QED BY <1>2, AtUnique

\* One more turn extends a lane's list.
LEMMA OneMoreTurn ==
    ASSUME NEW q \in Nat, NEW j \in Nat
    PROVE  LaneList(q + 1, j) = Append(LaneList(q, j), q * SumLanes + j)
<1>. PICK d \in Nat : d = SumLanes
  BY LanesAssumption
<1>. DEFINE new == [t \in 1 .. q + 1 |-> (t - 1) * d + j]
            old == [t \in 1 .. q |-> (t - 1) * d + j]
            app == Append(old, q * d + j)
<1>1. \A t \in Nat : t >= 1 => (t - 1) * d + j \in Nat
  <2>. TAKE t \in Nat
  <2>. HAVE t >= 1
  <2>1. PICK u \in Nat : u = t - 1
    OBVIOUS
  <2>. QED BY <2>1
<1>2. old \in Seq(Nat) /\ Len(old) = q /\ \A t \in 1 .. q : old[t] = (t - 1) * d + j
  <2>1. \A t \in 1 .. q : (t - 1) * d + j \in Nat
    BY <1>1
  <2>2. old \in [1 .. q -> Nat]
    BY <2>1
  <2>. QED BY <2>2
<1>3. /\ DOMAIN app = 1 .. q + 1 /\ app = [t \in 1 .. q + 1 |-> app[t]]
      /\ \A t \in 1 .. q : app[t] = old[t]
      /\ app[q + 1] = q * d + j
  <2>. HIDE DEF old
  <2>1. q * d + j \in Nat
    OBVIOUS
  <2>2. app \in Seq(Nat) /\ Len(app) = q + 1
    BY <1>2, <2>1
  <2>3. DOMAIN app = 1 .. q + 1 /\ app = [t \in 1 .. q + 1 |-> app[t]]
    <3>1. app \in [1 .. q + 1 -> Nat]
      <4>. HIDE DEF app
      <4>. QED BY <2>2
    <3>. QED BY <3>1
  <2>4. app[q + 1] = q * d + j
    BY <1>2, <2>1
  <2>5. \A t \in 1 .. q : app[t] = old[t]
    BY <1>2, <2>1
  <2>. QED BY <2>3, <2>4, <2>5
<1>4. \A t \in 1 .. q + 1 : app[t] = new[t]
  <2>. TAKE t \in 1 .. q + 1
  <2>1. new[t] = (t - 1) * d + j
    OBVIOUS
  <2>. HIDE DEF new, old, app
  <2>2. CASE t = q + 1
    <3>1. t - 1 = q
      BY <2>2
    <3>. QED BY <1>3, <2>1, <2>2, <3>1
  <2>3. CASE t # q + 1
    <3>1. t \in 1 .. q
      BY <2>3
    <3>. QED BY <1>2, <1>3, <2>1, <3>1, Zenon
  <2>. QED BY <2>2, <2>3
<1>5. new = [t \in 1 .. q + 1 |-> new[t]]
  OBVIOUS
<1>. HIDE DEF new, app
<1>6. app = new
  BY <1>3, <1>4, <1>5
<1>. QED BY <1>6 DEF new, app, LaneList

-----------------------------------------------------------------------------
(* How the whole-slice lanes grow with the slice.                          *)

\* One more element goes to the end of its lane.
LEMMA OneMoreElement ==
    ASSUME NEW m \in Nat
    PROVE  WholeLanes(m + 1) =
             [WholeLanes(m) EXCEPT ![m % SumLanes] = Append(WholeLanes(m)[m % SumLanes], m)]
<1>. PICK q \in Nat, r \in Nat : /\ q = m \div SumLanes /\ r = m % SumLanes
                                 /\ m = q * SumLanes + r /\ r < SumLanes
  BY DivMod, LanesAssumption
<1>1. SumLanes \in Nat /\ SumLanes >= 1 /\ r \in Lanes
  BY LanesAssumption DEF Lanes
<1>2. \A j \in Lanes : Turns(m, j) = (IF j < r THEN q + 1 ELSE q)
  BY DEF Turns
<1>3. \A j \in Lanes : Turns(m + 1, j) = (IF j <= r THEN q + 1 ELSE q)
  <2>1. CASE r + 1 < SumLanes
    <3>1. m + 1 = q * SumLanes + (r + 1)
      BY <1>1
    <3>2. (m + 1) \div SumLanes = q /\ (m + 1) % SumLanes = r + 1
      <4>1. PICK s \in Nat : s = r + 1
        OBVIOUS
      <4>2. s < SumLanes
        BY <2>1, <4>1
      <4>3. PICK p \in Nat : p = m + 1
        OBVIOUS
      <4>4. At(p, q, s)
        BY <3>1, <4>1, <4>2, <4>3, Zenon DEF At
      <4>5. p \div SumLanes = q /\ p % SumLanes = s
        BY <4>4, AtUnique
      <4>. QED BY <4>1, <4>3, <4>5, Zenon
    <3>. QED BY <1>1, <3>2 DEF Turns, Lanes
  <2>2. CASE r + 1 = SumLanes
    <3>1. m + 1 = (q + 1) * SumLanes
      BY <1>1, <2>2
    <3>2. (m + 1) \div SumLanes = q + 1 /\ (m + 1) % SumLanes = 0
      BY <3>1, Multiple
    <3>. QED BY <1>1, <2>2, <3>2 DEF Turns, Lanes
  <2>. QED BY <1>1, <2>1, <2>2
<1>4. ASSUME NEW j \in Lanes
      PROVE  WholeLanes(m + 1)[j] = IF j = r THEN Append(WholeLanes(m)[r], m) ELSE WholeLanes(m)[j]
  <2>1. CASE j = r
    <3>1. Turns(m, r) = q /\ Turns(m + 1, r) = q + 1
      BY <1>1, <1>2, <1>3
    <3>2. WholeLanes(m)[r] = LaneList(q, r) /\ WholeLanes(m + 1)[r] = LaneList(q + 1, r)
      BY <1>1, <3>1 DEF WholeLanes
    <3>3. LaneList(q + 1, r) = Append(LaneList(q, r), q * SumLanes + r)
      BY OneMoreTurn
    <3>4. WholeLanes(m + 1)[r] = Append(WholeLanes(m)[r], q * SumLanes + r)
      BY <3>2, <3>3, Zenon
    <3>. QED BY <2>1, <3>4, Zenon
  <2>2. CASE j # r
    <3>1. Turns(m, j) = Turns(m + 1, j)
      BY <1>1, <1>2, <1>3, <2>2 DEF Lanes
    <3>. QED BY <2>2, <3>1 DEF WholeLanes
  <2>. QED BY <2>1, <2>2
<1>. QED BY <1>1, <1>4 DEF WholeLanes

\* A whole block gives every lane one element more.
LEMMA OneMoreBlock ==
    ASSUME NEW m \in Nat, m % SumLanes = 0
    PROVE  /\ WholeLanes(m + SumLanes) = [j \in Lanes |-> Append(WholeLanes(m)[j], m + j)]
           /\ (m + SumLanes) % SumLanes = 0
<1>. PICK q \in Nat : q = m \div SumLanes /\ m = q * SumLanes
  BY DivMod, LanesAssumption
<1>1. SumLanes \in Nat /\ SumLanes >= 1
  BY LanesAssumption
<1>2. (m + SumLanes) \div SumLanes = q + 1 /\ (m + SumLanes) % SumLanes = 0
  <2>1. m + SumLanes = (q + 1) * SumLanes /\ m + SumLanes \in Nat
    BY <1>1
  <2>. QED BY <2>1, Multiple
<1>3. \A j \in Lanes : Turns(m, j) = q /\ Turns(m + SumLanes, j) = q + 1
  BY <1>2 DEF Turns, Lanes
<1>4. ASSUME NEW j \in Lanes
      PROVE  WholeLanes(m + SumLanes)[j] = Append(WholeLanes(m)[j], m + j)
  <2>1. WholeLanes(m)[j] = LaneList(q, j) /\ WholeLanes(m + SumLanes)[j] = LaneList(q + 1, j)
    BY <1>3 DEF WholeLanes
  <2>2. j \in Nat
    BY <1>1 DEF Lanes
  <2>3. LaneList(q + 1, j) = Append(LaneList(q, j), q * SumLanes + j)
    BY <2>2, OneMoreTurn
  <2>4. WholeLanes(m + SumLanes)[j] = Append(WholeLanes(m)[j], q * SumLanes + j)
    BY <2>1, <2>3, Zenon
  <2>. QED BY <2>4, Zenon
<1>. QED BY <1>2, <1>4 DEF WholeLanes

-----------------------------------------------------------------------------
(* The inductive invariant.                                                *)

\* Nothing seen, nothing in the lanes.
LEMMA NothingFolded ==
    /\ WholeLanes(0) = Empty
    /\ 0 % SumLanes = 0
<1>1. SumLanes \in Nat /\ SumLanes >= 1
  BY LanesAssumption
<1>2. 0 \div SumLanes = 0 /\ 0 % SumLanes = 0
  <2>1. 0 = 0 * SumLanes
    BY <1>1
  <2>. QED BY <2>1, Multiple
<1>3. \A j \in Lanes : Turns(0, j) = 0
  BY <1>2 DEF Turns, Lanes
<1>4. \A j \in Lanes : LaneList(0, j) = <<>>
  BY DEF LaneList
<1>. QED BY <1>2, <1>3, <1>4 DEF WholeLanes, Empty

LEMMA InitIndInv ==
    Init => IndInv
<1>. SUFFICES ASSUME Init PROVE IndInv
  OBVIOUS
<1>1. TypeOK
  BY DEF Init, Empty, TypeOK
<1>2. acc = WholeLanes(Folded)
  BY NothingFolded DEF Init, Folded
<1>. QED BY <1>1, <1>2 DEF Init, IndInv

\* The chunk's whole blocks are a multiple of the lanes, and less than one block
\* is left after them.
LEMMA BlocksFit ==
    ASSUME IndInv
    PROVE  /\ Blocks \in Nat /\ Blocks <= len - i /\ len - i - Blocks < SumLanes
           /\ Blocks % SumLanes = 0
           /\ \E b \in Nat : Blocks = b * SumLanes
<1>1. SumLanes \in Nat /\ SumLanes >= 1
  BY LanesAssumption
<1>2. PICK left \in Nat : left = len - i
  BY DEF IndInv, TypeOK
<1>3. PICK b \in Nat, r \in Nat : /\ b = left \div SumLanes
                                  /\ left = b * SumLanes + r /\ r < SumLanes
  BY <1>1, DivMod
<1>4. Blocks = b * SumLanes
  BY <1>2, <1>3, Zenon DEF Blocks
<1>5. PICK w \in Nat : w = b * SumLanes
  BY <1>1
<1>6. w % SumLanes = 0
  BY <1>5, Multiple
<1>7. Blocks = w /\ left = w + r
  BY <1>3, <1>4, <1>5, Zenon
<1>. QED BY <1>2, <1>3, <1>4, <1>6, <1>7

\* Of two multiples of the lanes, the smaller is at least SumLanes smaller.
LEMMA NextBlockFits ==
    ASSUME NEW x \in Nat, NEW y \in Nat, x % SumLanes = 0, y % SumLanes = 0, x < y
    PROVE  x + SumLanes <= y
<1>1. SumLanes \in Nat /\ SumLanes >= 1
  BY LanesAssumption
<1>2. PICK a \in Nat, b \in Nat : x = a * SumLanes /\ y = b * SumLanes
  <2>1. x = (x \div SumLanes) * SumLanes + 0 /\ y = (y \div SumLanes) * SumLanes + 0
    BY <1>1, DivMod, Zenon
  <2>2. x \div SumLanes \in Nat /\ y \div SumLanes \in Nat
    BY <1>1, DivMod, Zenon
  <2>3. PICK a \in Nat, b \in Nat : a = x \div SumLanes /\ b = y \div SumLanes
    BY <2>2
  <2>4. x = a * SumLanes + 0 /\ y = b * SumLanes + 0
    BY <2>1, <2>3, Zenon
  <2>. QED BY <1>1, <2>4
<1>3. a < b
  <2>. SUFFICES ASSUME b <= a PROVE FALSE
    OBVIOUS
  <2>1. b * SumLanes <= a * SumLanes
    BY <1>1
  <2>. QED BY <1>1, <1>2, <2>1
<1>4. (a + 1) * SumLanes <= b * SumLanes
  BY <1>1, <1>3
<1>5. (a + 1) * SumLanes = a * SumLanes + SumLanes
  BY <1>1
<1>. QED BY <1>1, <1>2, <1>4, <1>5

\* A multiple of the lanes does not move the lane.
LEMMA SameLane ==
    ASSUME NEW x \in Nat, NEW y \in Nat, y % SumLanes = 0
    PROVE  (x + y) % SumLanes = x % SumLanes
<1>1. SumLanes \in Nat /\ SumLanes >= 1
  BY LanesAssumption
<1>2. PICK a \in Nat, r \in Nat : At(x, a, r) /\ x % SumLanes = r
  BY AtExists
<1>3. PICK b \in Nat : At(y, b, 0)
  BY AtExists
<1>4. PICK c \in Nat : c = a + b
  OBVIOUS
<1>5. x = a * SumLanes + r /\ r < SumLanes /\ y = b * SumLanes + 0
  BY <1>2, <1>3, Zenon DEF At
<1>6. c * SumLanes = a * SumLanes + b * SumLanes
  BY <1>1, <1>4
<1>7. x + y = c * SumLanes + r
  BY <1>1, <1>5, <1>6
<1>8. At(x + y, c, r) /\ x + y \in Nat
  BY <1>5, <1>7 DEF At
<1>. QED BY <1>2, <1>8, AtUnique

\* Adding one element in the head or the tail.
LEMMA AddOneFolds ==
    ASSUME TypeOK, acc = WholeLanes(n), n = fed + i, AddOne
    PROVE  /\ acc' = WholeLanes(n + 1)
           /\ acc' \in [Lanes -> Seq(Nat)]
           /\ n' = n + 1 /\ i' = i + 1
<1>1. SumLanes \in Nat /\ SumLanes >= 1 /\ n \in Nat
  BY LanesAssumption DEF TypeOK
<1>2. Lane \in Lanes
  BY <1>1, DivMod DEF Lane, Lanes
<1>3. acc' = [acc EXCEPT ![Lane] = Append(acc[Lane], n)]
  BY DEF AddOne, Element
<1>4. acc[Lane] \in Seq(Nat) /\ Append(acc[Lane], n) \in Seq(Nat)
  BY <1>1, <1>2 DEF TypeOK
<1>5. acc' \in [Lanes -> Seq(Nat)]
  BY <1>3, <1>4 DEF TypeOK
<1>6. acc' = WholeLanes(n + 1)
  BY <1>1, <1>3, OneMoreElement, Zenon DEF Lane
<1>. QED BY <1>5, <1>6 DEF AddOne

\* Adding one block in the body.
LEMMA BlockFolds ==
    ASSUME IndInv, pc = "body", BodyStep
    PROVE  /\ acc' = WholeLanes(n + done + SumLanes)
           /\ acc' \in [Lanes -> Seq(Nat)]
           /\ done + SumLanes <= Blocks /\ (done + SumLanes) % SumLanes = 0
           /\ n % SumLanes = 0
<1>1. SumLanes \in Nat /\ SumLanes >= 1 /\ n \in Nat /\ done \in Nat /\ fed \in Nat /\ i \in Nat /\ len \in Nat
  BY LanesAssumption DEF IndInv, TypeOK
<1>2. done < Blocks /\ Blocks \in Nat /\ Blocks <= len - i /\ Blocks % SumLanes = 0
  BY BlocksFit, Zenon DEF BodyStep
<1>3. done % SumLanes = 0 /\ (i = len \/ n % SumLanes = 0) /\ n = fed + i /\ acc = WholeLanes(n + done)
  BY DEF IndInv, Folded
<1>4. n % SumLanes = 0
  BY <1>1, <1>2, <1>3
<1>5. PICK m \in Nat : m = n + done
  BY <1>1
<1>6. m % SumLanes = 0 /\ acc = WholeLanes(m)
  BY <1>1, <1>3, <1>4, <1>5, SameLane, Zenon
<1>7. WholeLanes(m + SumLanes) = [j \in Lanes |-> Append(acc[j], m + j)]
  BY <1>6, OneMoreBlock, Zenon
<1>8. acc' = [j \in Lanes |-> Append(acc[j], m + j)]
  <2>1. \A j \in Lanes : Element(i + done + j) = m + j
    BY <1>1, <1>3, <1>5 DEF Element, Lanes
  <2>. QED BY <2>1 DEF BodyStep
<1>9. acc' \in [Lanes -> Seq(Nat)]
  <2>1. \A j \in Lanes : acc[j] \in Seq(Nat) /\ m + j \in Nat
    BY <1>1 DEF IndInv, TypeOK, Lanes
  <2>2. \A j \in Lanes : Append(acc[j], m + j) \in Seq(Nat)
    BY <2>1
  <2>. QED BY <1>8, <2>2
<1>10. done + SumLanes <= Blocks
  BY <1>1, <1>2, <1>3, NextBlockFits, Zenon
<1>11. (done + SumLanes) % SumLanes = 0
  BY <1>1, <1>3, OneMoreBlock, Zenon
<1>12. acc' = WholeLanes(n + done + SumLanes)
  BY <1>5, <1>7, <1>8, Zenon
<1>. QED BY <1>4, <1>9, <1>10, <1>11, <1>12

LEMMA StepIndInv ==
    IndInv /\ [Next]_vars => IndInv'
<1>. SUFFICES ASSUME IndInv, [Next]_vars PROVE IndInv'
  OBVIOUS
<1>1. /\ SumLanes \in Nat /\ SumLanes >= 1
      /\ acc \in [Lanes -> Seq(Nat)] /\ n \in Nat /\ len \in Nat /\ i \in Nat /\ done \in Nat /\ fed \in Nat
      /\ i <= len /\ acc = WholeLanes(Folded)
  BY LanesAssumption DEF IndInv, TypeOK
<1>2. ASSUME NEW k \in 0 .. MaxChunk, Call(k) PROVE IndInv'
  <2>1. k \in Nat
    BY BoundsAssumption
  <2>2. TypeOK'
    BY <1>1, <1>2, <2>1 DEF Call, TypeOK
  <2>3. acc' = WholeLanes(Folded)' /\ n' = fed' + i' /\ pc' = "head" /\ i' <= len'
    BY <1>1, <1>2, <2>1 DEF Call, Folded, IndInv, WholeLanes, Turns, Lanes
  <2>4. Blocks' \in Nat
    <3>1. len' = k /\ i' = 0
      BY <1>2 DEF Call
    <3>2. PICK q \in Nat : q = (k - 0) \div SumLanes
      BY <1>1, <2>1, DivMod
    <3>. QED BY <1>1, <3>1, <3>2 DEF Blocks
  <2>5. done' = 0 /\ done' % SumLanes = 0
    BY <1>2, NothingFolded DEF Call
  <2>. QED BY <1>2, <2>2, <2>3, <2>4, <2>5 DEF Call, IndInv
<1>3. CASE HeadStep
  <2>1. acc = WholeLanes(n) /\ n = fed + i /\ pc = "head" /\ done = 0
    BY <1>3 DEF HeadStep, IndInv, Folded
  <2>2. acc' = WholeLanes(n + 1) /\ acc' \in [Lanes -> Seq(Nat)] /\ n' = n + 1 /\ i' = i + 1
    BY <1>3, <2>1, AddOneFolds DEF HeadStep, IndInv
  <2>3. TypeOK'
    BY <1>1, <1>3, <2>2 DEF HeadStep, IndInv, TypeOK
  <2>4. acc' = WholeLanes(Folded)'
    BY <1>3, <2>1, <2>2 DEF HeadStep, Folded, WholeLanes, Turns, Lanes
  <2>5. fed % SumLanes # 0 /\ (fed % SumLanes) + i + 1 <= SumLanes
    <3>1. PICK r \in Nat : r = fed % SumLanes /\ r < SumLanes
      BY <1>1, DivMod
    <3>2. n % SumLanes # 0
      BY <1>3 DEF HeadStep
    <3>3. CASE i = 0
      <4>1. n = fed
        BY <1>1, <2>1, <3>3
      <4>. QED BY <1>1, <3>1, <3>2, <3>3, <4>1
    <3>4. CASE r # 0 /\ r + i <= SumLanes
      <4>1. r + i # SumLanes
        <5>. SUFFICES ASSUME r + i = SumLanes PROVE FALSE
          OBVIOUS
        <5>1. PICK a \in Nat : a = fed \div SumLanes
          BY <1>1, DivMod
        <5>2. fed = a * SumLanes + r
          <6>1. fed = (fed \div SumLanes) * SumLanes + (fed % SumLanes)
            BY <1>1, DivMod, Zenon
          <6>. QED BY <3>1, <5>1, <6>1, Zenon
        <5>3. PICK b \in Nat : b = a + 1
          OBVIOUS
        <5>4. n = b * SumLanes + 0
          <6>1. b * SumLanes = a * SumLanes + SumLanes
            BY <1>1, <5>3
          <6>. QED BY <1>1, <2>1, <5>2, <6>1
        <5>5. n = b * SumLanes
          BY <1>1, <5>4
        <5>. QED BY <1>1, <3>2, <5>5, Multiple
      <4>. QED BY <1>1, <3>1, <3>4, <4>1
    <3>. QED BY <2>1, <3>1, <3>3, <3>4 DEF IndInv
  <2>6. Blocks' \in Nat
    <3>1. i' <= len' /\ i' \in Nat /\ len' \in Nat
      BY <1>1, <1>3, <2>2 DEF HeadStep
    <3>2. PICK left \in Nat : left = len' - i'
      <4>1. PICK a \in Nat, b \in Nat : a = len' /\ b = i'
        BY <3>1
      <4>2. b <= a
        BY <3>1, <4>1
      <4>3. PICK c \in Nat : c = a - b
        BY <4>2
      <4>. QED BY <4>1, <4>3, Zenon
    <3>3. PICK q \in Nat : q = left \div SumLanes
      BY <1>1, DivMod
    <3>. QED BY <1>1, <3>2, <3>3 DEF Blocks
  <2>7. fed' = fed /\ pc' = "head" /\ done' = done /\ i' <= len'
    BY <1>1, <1>3, <2>2 DEF HeadStep
  <2>8. (fed % SumLanes # 0 /\ (fed % SumLanes) + i <= SumLanes)'
    <3>1. PICK r \in Nat : r = fed % SumLanes
      BY <1>1, DivMod
    <3>2. r + i + 1 <= SumLanes /\ r # 0
      BY <2>5, <3>1
    <3>. QED BY <1>1, <2>2, <2>7, <3>1, <3>2
  <2>9. n' = fed' + i'
    BY <1>1, <2>1, <2>2, <2>7
  <2>10. done' % SumLanes = 0 /\ done' <= Blocks' /\ done' = 0
    BY <2>1, <2>6, <2>7 DEF IndInv
  <2>. QED BY <2>3, <2>4, <2>7, <2>8, <2>9, <2>10 DEF IndInv
<1>4. CASE HeadDone
  <2>1. acc = WholeLanes(n) /\ n = fed + i /\ pc = "head" /\ done = 0
    BY <1>4 DEF HeadDone, IndInv, Folded
  <2>2. TypeOK'
    BY <1>1, <1>4 DEF HeadDone, IndInv, TypeOK
  <2>3. n' + done' = n
    BY <1>1, <1>4, <2>1 DEF HeadDone
  <2>4. acc' = WholeLanes(Folded)'
    BY <1>4, <2>1, <2>3 DEF HeadDone, Folded, WholeLanes, Turns, Lanes
  <2>5. i = len \/ n % SumLanes = 0
    BY <1>1, <1>4 DEF HeadDone
  <2>6. Blocks' = Blocks
    BY <1>4 DEF HeadDone, Blocks
  <2>. QED BY <1>1, <1>4, <2>1, <2>2, <2>4, <2>5, <2>6 DEF HeadDone, IndInv
<1>5. CASE BodyStep
  <2>1. pc = "body" /\ n = fed + i /\ (i = len \/ n % SumLanes = 0)
    BY <1>5 DEF BodyStep, IndInv
  <2>2. /\ acc' = WholeLanes(n + done + SumLanes) /\ acc' \in [Lanes -> Seq(Nat)]
        /\ done + SumLanes <= Blocks /\ (done + SumLanes) % SumLanes = 0
    BY <1>5, <2>1, BlockFolds
  <2>3. TypeOK'
    BY <1>1, <1>5, <2>2 DEF BodyStep, IndInv, TypeOK
  <2>4. acc' = WholeLanes(Folded)'
    <3>1. n' + done' = n + done + SumLanes /\ pc' = "body"
      BY <1>1, <1>5 DEF BodyStep
    <3>. QED BY <2>2, <3>1 DEF Folded, WholeLanes, Turns, Lanes
  <2>5. Blocks' = Blocks
    BY <1>5 DEF BodyStep, Blocks
  <2>. QED BY <1>1, <1>5, <2>1, <2>2, <2>3, <2>4, <2>5 DEF BodyStep, IndInv
<1>6. CASE BodyDone
  <2>1. pc = "body" /\ n = fed + i /\ done <= Blocks /\ acc = WholeLanes(n + done)
    BY <1>6 DEF BodyDone, IndInv, Folded
  <2>2. Blocks \in Nat /\ Blocks <= len - i /\ len - i - Blocks < SumLanes
    BY BlocksFit
  <2>3. PICK b \in Nat : b = Blocks
    BY <2>2
  <2>4. done = b /\ b <= len - i /\ len - i - b < SumLanes /\ i' = i + b /\ n' = n + b
    BY <1>1, <1>6, <2>1, <2>2, <2>3 DEF BodyDone
  <2>5. TypeOK'
    BY <1>1, <1>6, <2>4 DEF BodyDone, IndInv, TypeOK
  <2>6. acc' = WholeLanes(Folded)'
    <3>1. n' = n + done /\ pc' = "tail" /\ acc' = acc
      BY <1>6, <2>4 DEF BodyDone
    <3>. QED BY <2>1, <3>1 DEF Folded, WholeLanes, Turns, Lanes
  <2>7. pc' = "tail" /\ fed' = fed /\ len' = len
    BY <1>6 DEF BodyDone
  <2>8. n' = fed' + i' /\ i' <= len' /\ len' - i' < SumLanes
    BY <1>1, <2>1, <2>4, <2>7
  <2>. QED BY <2>5, <2>6, <2>7, <2>8 DEF IndInv
<1>7. CASE TailStep
  <2>1. acc = WholeLanes(n) /\ n = fed + i /\ pc = "tail" /\ len - i < SumLanes
    BY <1>7 DEF TailStep, IndInv, Folded
  <2>2. acc' = WholeLanes(n + 1) /\ acc' \in [Lanes -> Seq(Nat)] /\ n' = n + 1 /\ i' = i + 1
    BY <1>7, <2>1, AddOneFolds DEF TailStep, IndInv
  <2>3. TypeOK'
    BY <1>1, <1>7, <2>2 DEF TailStep, IndInv, TypeOK
  <2>4. acc' = WholeLanes(Folded)'
    BY <1>7, <2>1, <2>2 DEF TailStep, Folded, WholeLanes, Turns, Lanes
  <2>. QED BY <1>1, <1>7, <2>1, <2>2, <2>3, <2>4 DEF TailStep, IndInv
<1>8. CASE Return
  <2>1. acc = WholeLanes(n) /\ n = fed + i /\ pc = "tail" /\ i = len
    BY <1>1, <1>8 DEF Return, IndInv, Folded
  <2>2. TypeOK'
    BY <1>1, <1>8 DEF Return, IndInv, TypeOK
  <2>3. acc' = WholeLanes(Folded)'
    BY <1>8, <2>1 DEF Return, Folded, WholeLanes, Turns, Lanes
  <2>. QED BY <1>1, <1>8, <2>1, <2>2, <2>3 DEF Return, IndInv
<1>9. CASE Reset
  <2>1. acc' = WholeLanes(0)
    BY <1>9, NothingFolded DEF Reset
  <2>2. TypeOK'
    BY <1>1, <1>9 DEF Reset, IndInv, TypeOK, Empty
  <2>3. acc' = WholeLanes(Folded)'
    BY <1>9, <2>1 DEF Reset, Folded, WholeLanes, Turns, Lanes
  <2>. QED BY <1>1, <1>9, <2>2, <2>3 DEF Reset, IndInv
<1>10. CASE UNCHANGED vars
  BY <1>10 DEF vars, IndInv, TypeOK, Folded, Blocks, WholeLanes, Turns, Lanes
<1>. QED BY <1>2, <1>3, <1>4, <1>5, <1>6, <1>7, <1>8, <1>9, <1>10 DEF Next

-----------------------------------------------------------------------------
(* The theorems.                                                           *)

\* Whatever the chunks, at every step the lanes hold exactly the prefix folded so
\* far, laid out as the whole-slice reduction lays it out.
THEOREM Invariance == Spec => []IndInv
<1>. QED BY InitIndInv, StepIndInv, PTL DEF Spec

\* Every variable has its type.
THEOREM TypeCorrect == Spec => []TypeOK
<1>1. IndInv => TypeOK
  BY DEF IndInv
<1>. QED BY Invariance, <1>1, PTL

\* stream.go's promise: between calls the lanes are those Sum would have filled
\* from the concatenation of the chunks, so the two sums have the same bits.
THEOREM ChunkedEqualsWhole == Spec => []ChunkingInvisible
<1>1. IndInv => ChunkingInvisible
  BY DEF IndInv, ChunkingInvisible, Folded
<1>. QED BY Invariance, <1>1, PTL

\* The scalar head and tail take fewer than SumLanes elements each, and the
\* kernel starts on lane zero.
THEOREM ShortEnds == Spec => []OnlyTheBodyIsLong
<1>1. IndInv => OnlyTheBodyIsLong
  <2>. SUFFICES ASSUME IndInv PROVE OnlyTheBodyIsLong
    OBVIOUS
  <2>1. SumLanes \in Nat /\ SumLanes >= 1 /\ fed \in Nat /\ i \in Nat
    BY LanesAssumption DEF IndInv, TypeOK
  <2>2. PICK r \in Nat : r = fed % SumLanes
    BY <2>1, DivMod
  <2>3. pc = "head" => i = 0 \/ (r # 0 /\ r + i <= SumLanes)
    BY <2>2 DEF IndInv
  <2>4. pc = "head" => i < SumLanes
    BY <2>1, <2>2, <2>3
  <2>. QED BY <2>4 DEF IndInv, OnlyTheBodyIsLong
<1>. QED BY Invariance, <1>1, PTL


\* The turns a lane has had tell which element comes next.
LEMMA NextOfLane ==
    ASSUME NEW m \in Nat, NEW j \in Lanes, m % SumLanes <= j
    PROVE  Len(WholeLanes(m)[j]) * SumLanes + j = m - (m % SumLanes) + j
<1>1. SumLanes \in Nat /\ SumLanes >= 1 /\ j \in Nat
  BY LanesAssumption DEF Lanes
<1>2. PICK q \in Nat, r \in Nat : At(m, q, r) /\ q = m \div SumLanes /\ r = m % SumLanes
  BY AtExists
<1>3. m = q * SumLanes + r
  BY <1>2, Zenon DEF At
<1>4. Turns(m, j) = q
  BY <1>1, <1>2 DEF Turns
<1>5. WholeLanes(m)[j] = LaneList(q, j)
  BY <1>4 DEF WholeLanes
<1>6. PICK k \in Nat : k = Len(WholeLanes(m)[j]) /\ k = q
  BY <1>5 DEF LaneList
<1>7. q * SumLanes + j = m - r + j
  BY <1>1, <1>3
<1>. QED BY <1>2, <1>6, <1>7, Zenon

\* No step of an Add regroups what a lane has already added up: it leaves the
\* lane's list alone or appends the lane's next element.
THEOREM LanesGrow == Spec => LanesOnlyGrow
<1>. DEFINE Grows(j) == acc'[j] \in {acc[j], Append(acc[j], Len(acc[j]) * SumLanes + j)}
<1>1. ASSUME IndInv, [Next]_vars, pc # "idle", NEW j \in Lanes
      PROVE  Grows(j)
  <2>1. /\ SumLanes \in Nat /\ SumLanes >= 1 /\ j \in Nat /\ n \in Nat /\ done \in Nat
        /\ acc = WholeLanes(Folded) /\ acc \in [Lanes -> Seq(Nat)] /\ n = fed + i
        /\ fed \in Nat /\ i \in Nat
    BY <1>1, LanesAssumption DEF IndInv, TypeOK, Lanes
  <2>2. CASE AddOne /\ pc # "body"
    <3>1. acc' = [acc EXCEPT ![n % SumLanes] = Append(acc[n % SumLanes], n)] /\ acc = WholeLanes(n)
      BY <2>1, <2>2 DEF AddOne, Lane, Element, Folded
    <3>2. CASE j = n % SumLanes
      <4>1. Len(acc[j]) * SumLanes + j = n
        <5>1. Len(WholeLanes(n)[j]) * SumLanes + j = n - (n % SumLanes) + j
          <6>1. n % SumLanes <= j
            BY <2>1, <3>2
          <6>. QED BY <2>1, <6>1, NextOfLane, Zenon
        <5>2. PICK r \in Nat : r = n % SumLanes
          BY <2>1, DivMod
        <5>. QED BY <2>1, <3>1, <3>2, <5>1, <5>2
      <4>2. acc'[j] = Append(acc[j], n)
        BY <2>1, <3>1, <3>2
      <4>. QED BY <4>1, <4>2
    <3>3. CASE j # n % SumLanes
      BY <2>1, <3>1, <3>3
    <3>. QED BY <3>2, <3>3
  <2>3. CASE BodyStep
    <3>1. n % SumLanes = 0 /\ done % SumLanes = 0 /\ acc = WholeLanes(n + done)
      BY <1>1, <2>3, BlockFolds DEF BodyStep, IndInv, Folded
    <3>2. PICK m \in Nat : m = n + done
      BY <2>1
    <3>3. m % SumLanes = 0
      BY <2>1, <3>1, <3>2, SameLane, Zenon
    <3>4. Len(WholeLanes(m)[j]) * SumLanes + j = m - (m % SumLanes) + j
      BY <2>1, <3>3, NextOfLane
    <3>5. Len(acc[j]) * SumLanes + j = m + j
      BY <2>1, <3>1, <3>2, <3>3, <3>4
    <3>6. acc'[j] = Append(acc[j], i + fed + done + j)
      BY <2>1, <2>3 DEF BodyStep, Element
    <3>7. i + fed + done + j = m + j
      BY <2>1, <3>2
    <3>. QED BY <3>5, <3>6, <3>7
  <2>4. CASE UNCHANGED acc
    BY <2>4
  <2>. QED
    BY <1>1, <2>2, <2>3, <2>4
    DEF Next, vars, Call, HeadStep, HeadDone, BodyDone, TailStep, Return, Reset
<1>2. IndInv /\ [Next]_vars => [pc # "idle" => \A j \in Lanes : Grows(j)]_vars
  BY <1>1
<1>. QED BY Invariance, <1>2, PTL DEF Spec, LanesOnlyGrow

-----------------------------------------------------------------------------
(* The minimum and the maximum as the first of two orders of the values.   *)

MinRank == [NaN |-> 0, negInf |-> 1, negZero |-> 2, posZero |-> 3, one |-> 4, posInf |-> 5]
MaxRank == [NaN |-> 0, posInf |-> 1, one |-> 2, posZero |-> 3, negZero |-> 4, negInf |-> 5]

MinTable == [p \in Values \X Values |-> Min2(p[1], p[2])]
MaxTable == [p \in Values \X Values |-> Max2(p[1], p[2])]

\* x comes first in S.
First(rank, S, x) == x \in S /\ \A y \in S : rank[x] <= rank[y]

\* The table takes the one of two that comes first.
Picks(t, rank) ==
    /\ rank \in [Values -> Nat]
    /\ \A x, y \in Values : t[<<x, y>>] = IF rank[x] <= rank[y] THEN x ELSE y

LEMMA ValuesAre ==
    /\ Numbers = {"negInf", "negZero", "posZero", "one", "posInf"}
    /\ Values = {"NaN", "negInf", "negZero", "posZero", "one", "posInf"}
BY DEF Values, Numbers, Number

LEMMA LessIs ==
    ASSUME NEW x \in Values, NEW y \in Values
    PROVE  Less(x, y) <=> \/ x = "negInf" /\ y \in {"negZero", "posZero", "one", "posInf"}
                          \/ x \in {"negZero", "posZero"} /\ y \in {"one", "posInf"}
                          \/ x = "one" /\ y = "posInf"
BY ValuesAre DEF Less, Number

LEMMA RanksAre ==
    /\ MinRank \in [Values -> Nat] /\ MaxRank \in [Values -> Nat]
    /\ \A x, y \in Values : MinRank[x] = MinRank[y] => x = y
    /\ \A x, y \in Values : MaxRank[x] = MaxRank[y] => x = y
<1>1. MinRank \in [Values -> Nat] /\ MaxRank \in [Values -> Nat]
  BY ValuesAre DEF MinRank, MaxRank
<1>. QED BY <1>1, ValuesAre DEF MinRank, MaxRank

LEMMA MinPicks == Picks(MinTable, MinRank)
<1>1. ASSUME NEW x \in Values, NEW y \in Values
      PROVE  Min2(x, y) = IF MinRank[x] <= MinRank[y] THEN x ELSE y
  BY LessIs, ValuesAre DEF Min2, MinRank, SignBit
<1>2. \A x, y \in Values : MinTable[<<x, y>>] = Min2(x, y)
  BY DEF MinTable
<1>. QED BY <1>1, <1>2, RanksAre DEF Picks

LEMMA MaxPicks == Picks(MaxTable, MaxRank)
<1>1. ASSUME NEW x \in Values, NEW y \in Values
      PROVE  Max2(x, y) = IF MaxRank[x] <= MaxRank[y] THEN x ELSE y
  BY LessIs, ValuesAre DEF Max2, MaxRank, SignBit
<1>2. \A x, y \in Values : MaxTable[<<x, y>>] = Max2(x, y)
  BY DEF MaxTable
<1>. QED BY <1>1, <1>2, RanksAre DEF Picks

-----------------------------------------------------------------------------
(* Folds.                                                                  *)

\* f[k] is what the table makes of the first k elements of s, from the left.
Folds(f, t, s) ==
    /\ f \in [1 .. Len(s) -> Values] /\ f[1] = s[1]
    /\ \A k \in 2 .. Len(s) : f[k] = t[<<f[k - 1], s[k]>>]

LEMMA FoldExists ==
    ASSUME NEW s \in Seq(Values), Len(s) >= 1, NEW t, \A x, y \in Values : t[<<x, y>>] \in Values
    PROVE  \E f : Folds(f, t, s)
<1>1. Len(s) - 1 \in Nat /\ \A k \in 1 .. Len(s) : s[k] \in Values
  OBVIOUS
<1>. DEFINE h == [q \in (1 .. Len(s) - 1) \X Values |-> t[<<q[2], s[q[1] + 1]>>]]
<1>2. \A k \in 1 .. Len(s) - 1, x \in Values : h[<<k, x>>] = t[<<x, s[k + 1]>>]
  OBVIOUS
<1>. HIDE DEF h
<1>3. StaysIn(h, Values, Len(s) - 1)
  <2>1. \A k \in 1 .. Len(s) - 1 : s[k + 1] \in Values
    BY <1>1
  <2>. QED BY <1>2, <2>1 DEF StaysIn
<1>4. PICK g : Unfolds(g, Values, Len(s) - 1, s[1], h)
  BY <1>1, <1>3, RecursionExists
<1>. DEFINE f == [k \in 1 .. Len(s) |-> g[k - 1]]
<1>5. \A k \in 1 .. Len(s) : k - 1 \in 0 .. Len(s) - 1 /\ g[k - 1] \in Values
  <2>. TAKE k \in 1 .. Len(s)
  <2>1. k - 1 \in 0 .. Len(s) - 1
    BY <1>1
  <2>. QED BY <1>4, <2>1 DEF Unfolds
<1>6. f \in [1 .. Len(s) -> Values]
  BY <1>5
<1>7. f[1] = s[1]
  BY <1>4 DEF Unfolds
<1>8. ASSUME NEW k \in 2 .. Len(s) PROVE f[k] = t[<<f[k - 1], s[k]>>]
  <2>1. f[k] = g[k - 1] /\ f[k - 1] = g[(k - 1) - 1] /\ k - 1 \in 1 .. Len(s) - 1 /\ (k - 1) + 1 = k
    OBVIOUS
  <2>2. g[k - 1] = h[<<k - 1, g[(k - 1) - 1]>>]
    BY <1>4, <2>1 DEF Unfolds
  <2>3. g[(k - 1) - 1] \in Values
    BY <1>5, k - 1 \in 1 .. Len(s)
  <2>. QED BY <1>2, <2>1, <2>2, <2>3
<1>. HIDE DEF f
<1>. QED BY <1>6, <1>7, <1>8 DEF Folds

LEMMA PicksValue ==
    ASSUME NEW t, NEW rank, Picks(t, rank)
    PROVE  \A x, y \in Values : t[<<x, y>>] \in Values
BY DEF Picks

\* A fold from the left ends with the first of the elements.
Members(s) == {s[k] : k \in DOMAIN s}
Front(s, m) == {s[k] : k \in 1 .. m}

LEMMA FoldIsFirst ==
    ASSUME NEW t, NEW rank, Picks(t, rank), NEW s \in Seq(Values), Len(s) >= 1, NEW u, u[1] = s[1],
           \A k \in 2 .. Len(s) : u[k - 1] \in Values => u[k] = t[<<u[k - 1], s[k]>>]
    PROVE  First(rank, Members(s), u[Len(s)])
<1>. DEFINE S == {m \in Nat : m + 1 <= Len(s) => First(rank, Front(s, m + 1), u[m + 1])}
<1>1. Len(s) \in Nat /\ DOMAIN s = 1 .. Len(s) /\ \A k \in 1 .. Len(s) : s[k] \in Values
  OBVIOUS
<1>2. rank \in [Values -> Nat]
  BY DEF Picks
<1>3. 0 \in S
  <2>1. Front(s, 0 + 1) = {s[1]}
    BY DEF Front
  <2>2. s[1] \in Values /\ rank[s[1]] \in Nat
    BY <1>1, <1>2
  <2>. QED BY <2>1, <2>2 DEF First
<1>4. \A m \in Nat : m \in S => m + 1 \in S
  <2>. SUFFICES ASSUME NEW m \in Nat, m \in S, (m + 1) + 1 <= Len(s)
                PROVE  First(rank, Front(s, (m + 1) + 1), u[(m + 1) + 1])
    OBVIOUS
  <2>. DEFINE A == Front(s, m + 1)
              x == u[m + 1]
              y == s[(m + 1) + 1]
  <2>1. First(rank, A, x)
    BY <1>1
  <2>2. Front(s, (m + 1) + 1) = A \cup {y}
    BY DEF Front
  <2>3. A \subseteq Values /\ y \in Values
    BY <1>1 DEF Front
  <2>4. x \in Values
    BY <2>1, <2>3 DEF First
  <2>5. u[(m + 1) + 1] = t[<<x, y>>]
    <3>1. (m + 1) + 1 \in 2 .. Len(s) /\ ((m + 1) + 1) - 1 = m + 1
      BY <1>1
    <3>. QED BY <2>4, <3>1
  <2>. HIDE DEF A, x, y
  <2>6. t[<<x, y>>] = IF rank[x] <= rank[y] THEN x ELSE y
    BY <2>3, <2>4 DEF Picks
  <2>7. \A z \in A : rank[z] \in Nat /\ rank[x] <= rank[z]
    BY <2>1, <2>3, <1>2 DEF First
  <2>8. rank[x] \in Nat /\ rank[y] \in Nat /\ x \in A
    BY <2>1, <2>3, <2>4, <1>2 DEF First
  <2>9. First(rank, A \cup {y}, t[<<x, y>>])
    BY <2>6, <2>7, <2>8 DEF First
  <2>. QED BY <2>2, <2>5, <2>9
<1>. HIDE DEF S
<1>5. Len(s) - 1 \in S /\ (Len(s) - 1) + 1 = Len(s)
  BY <1>1, <1>3, <1>4, SetInduction
<1>6. First(rank, Front(s, Len(s)), u[Len(s)])
  BY <1>1, <1>5 DEF S
<1>. QED BY <1>1, <1>6 DEF Front, Members

\* The folds of the definition.
LEMMA MinUnfolds ==
    ASSUME NEW s \in Seq(Values), Len(s) >= 1
    PROVE  First(MinRank, Members(s), LeftFold(Min2, s))
<1>. DEFINE Is(f) == f = [k \in 1 .. Len(s) |-> IF k = 1 THEN s[1] ELSE Min2(f[k - 1], s[k])]
<1>1. Len(s) \in Nat /\ \A k \in 1 .. Len(s) : s[k] \in Values
  OBVIOUS
<1>2. \A x, y \in Values : MinTable[<<x, y>>] = Min2(x, y)
  BY DEF MinTable
<1>3. PICK g : Folds(g, MinTable, s)
  BY MinPicks, PicksValue, FoldExists
<1>4. Is(g)
  <2>. DEFINE e == [k \in 1 .. Len(s) |-> IF k = 1 THEN s[1] ELSE Min2(g[k - 1], s[k])]
  <2>1. \A k \in 1 .. Len(s) : g[k] = e[k]
    <3>. TAKE k \in 1 .. Len(s)
    <3>1. CASE k = 1
      BY <3>1, <1>3 DEF Folds
    <3>2. CASE k \in 2 .. Len(s)
      <4>1. g[k - 1] \in Values /\ g[k] = MinTable[<<g[k - 1], s[k]>>]
        BY <3>2, <1>3, SMTT(120) DEF Folds
      <4>. QED BY <4>1, <1>1, <1>2, <3>2
    <3>. QED BY <3>1, <3>2
  <2>2. g = e
    BY <1>3, <2>1 DEF Folds
  <2>. QED BY <2>2
<1>. DEFINE u == CHOOSE f : Is(f)
<1>5. LeftFold(Min2, s) = u[Len(s)]
  BY DEF LeftFold
<1>. HIDE DEF Is
<1>6. Is(u)
  BY <1>4
<1>. HIDE DEF u
<1>7. u = [k \in 1 .. Len(s) |-> IF k = 1 THEN s[1] ELSE Min2(u[k - 1], s[k])]
  BY <1>6 DEF Is
<1>8. u[1] = s[1] /\ \A k \in 2 .. Len(s) : u[k] = Min2(u[k - 1], s[k])
  BY <1>7
<1>9. \A k \in 2 .. Len(s) : u[k - 1] \in Values => u[k] = MinTable[<<u[k - 1], s[k]>>]
  <2>. TAKE k \in 2 .. Len(s)
  <2>. HAVE u[k - 1] \in Values
  <2>1. s[k] \in Values
    BY <1>1
  <2>. QED BY <1>2, <1>8, <2>1
<1>. QED BY <1>5, <1>8, <1>9, MinPicks, FoldIsFirst

LEMMA MaxUnfolds ==
    ASSUME NEW s \in Seq(Values), Len(s) >= 1
    PROVE  First(MaxRank, Members(s), LeftFold(Max2, s))
<1>. DEFINE Is(f) == f = [k \in 1 .. Len(s) |-> IF k = 1 THEN s[1] ELSE Max2(f[k - 1], s[k])]
<1>1. Len(s) \in Nat /\ \A k \in 1 .. Len(s) : s[k] \in Values
  OBVIOUS
<1>2. \A x, y \in Values : MaxTable[<<x, y>>] = Max2(x, y)
  BY DEF MaxTable
<1>3. PICK g : Folds(g, MaxTable, s)
  BY MaxPicks, PicksValue, FoldExists
<1>4. Is(g)
  <2>. DEFINE e == [k \in 1 .. Len(s) |-> IF k = 1 THEN s[1] ELSE Max2(g[k - 1], s[k])]
  <2>1. \A k \in 1 .. Len(s) : g[k] = e[k]
    <3>. TAKE k \in 1 .. Len(s)
    <3>1. CASE k = 1
      BY <3>1, <1>3 DEF Folds
    <3>2. CASE k \in 2 .. Len(s)
      <4>1. g[k - 1] \in Values /\ g[k] = MaxTable[<<g[k - 1], s[k]>>]
        BY <3>2, <1>3, SMTT(120) DEF Folds
      <4>. QED BY <4>1, <1>1, <1>2, <3>2
    <3>. QED BY <3>1, <3>2
  <2>2. g = e
    BY <1>3, <2>1 DEF Folds
  <2>. QED BY <2>2
<1>. DEFINE u == CHOOSE f : Is(f)
<1>5. LeftFold(Max2, s) = u[Len(s)]
  BY DEF LeftFold
<1>. HIDE DEF Is
<1>6. Is(u)
  BY <1>4
<1>. HIDE DEF u
<1>7. u = [k \in 1 .. Len(s) |-> IF k = 1 THEN s[1] ELSE Max2(u[k - 1], s[k])]
  BY <1>6 DEF Is
<1>8. u[1] = s[1] /\ \A k \in 2 .. Len(s) : u[k] = Max2(u[k - 1], s[k])
  BY <1>7
<1>9. \A k \in 2 .. Len(s) : u[k - 1] \in Values => u[k] = MaxTable[<<u[k - 1], s[k]>>]
  <2>. TAKE k \in 2 .. Len(s)
  <2>. HAVE u[k - 1] \in Values
  <2>1. s[k] \in Values
    BY <1>1
  <2>. QED BY <1>2, <1>8, <2>1
<1>. QED BY <1>5, <1>8, <1>9, MaxPicks, FoldIsFirst

\* A lane's elements, and what is left after the blocks.
LaneOf(a, j) ==
    <<a[1]>> \o [b \in 1 .. Len(a) \div ArgLanes |-> a[(b - 1) * ArgLanes + j]]
RestOf(a) == SubSeq(a, (Len(a) \div ArgLanes) * ArgLanes + 1, Len(a))

\* Place j of block b, and the block and the place of an element.
LEMMA InBlock ==
    ASSUME NEW d \in Nat, NEW q \in Nat, NEW b \in 1 .. q, NEW j \in 1 .. d
    PROVE  (b - 1) * d + j \in 1 .. q * d
<1>1. PICK c \in Nat : b = c + 1
  <2>1. b - 1 \in Nat /\ b = (b - 1) + 1
    OBVIOUS
  <2>. QED BY <2>1
<1>2. PICK e \in Nat : q = b + e
  <2>1. q - b \in Nat /\ q = b + (q - b)
    OBVIOUS
  <2>. QED BY <2>1
<1>3. q * d = c * d + d + e * d
  <2>1. q = c + 1 + e
    BY <1>1, <1>2
  <2>. QED BY <2>1
<1>4. c * d \in Nat /\ e * d \in Nat /\ b - 1 = c
  BY <1>1
<1>. QED BY <1>3, <1>4

LEMMA BlockOf ==
    ASSUME NEW d \in Nat, d >= 1, NEW q \in Nat, NEW m \in 1 .. q * d
    PROVE  \E b \in 1 .. q, j \in 1 .. d : m = (b - 1) * d + j
<1>1. PICK k \in Nat : m = k + 1
  <2>1. m \in Nat /\ m >= 1 /\ m - 1 \in Nat /\ m = (m - 1) + 1
    OBVIOUS
  <2>. QED BY <2>1
<1>2. PICK c \in Nat, r \in Nat : c = k \div d /\ r = k % d
  BY DivMod
<1>3. k = c * d + r /\ r < d
  BY <1>2, DivMod, Zenon
<1>4. c + 1 <= q
  <2>. SUFFICES ASSUME q <= c PROVE FALSE
    OBVIOUS
  <2>1. PICK e \in Nat : c = q + e
    <3>1. c - q \in Nat /\ c = q + (c - q)
      OBVIOUS
    <3>. QED BY <3>1
  <2>2. c * d = q * d + e * d /\ e * d \in Nat /\ q * d \in Nat
    BY <2>1
  <2>3. m <= q * d
    BY <2>2
  <2>. QED BY <1>1, <1>3, <2>2, <2>3
<1>5. c + 1 \in 1 .. q /\ r + 1 \in 1 .. d /\ (c + 1) - 1 = c
  BY <1>3, <1>4
<1>6. c * d \in Nat
  OBVIOUS
<1>7. m = ((c + 1) - 1) * d + (r + 1)
  BY <1>1, <1>3, <1>5, <1>6
<1>. QED BY <1>5, <1>7

\* The whole blocks of a list.
LEMMA BlocksOf ==
    ASSUME NEW a \in Seq(Values)
    PROVE  \E d, q \in Nat : /\ d = ArgLanes /\ d >= 1 /\ q = Len(a) \div ArgLanes
                             /\ q * d \in Nat /\ q * d <= Len(a)
<1>1. ArgLanes \in Nat /\ ArgLanes >= 1 /\ Len(a) \in Nat
  BY ArgLanesAssumption
<1>2. PICK d \in Nat, n1 \in Nat : d = ArgLanes /\ n1 = Len(a)
  BY <1>1
<1>3. PICK q \in Nat, r \in Nat : q = n1 \div d /\ r = n1 % d
  BY <1>1, <1>2, DivMod
<1>4. n1 = q * d + r
  BY <1>1, <1>2, <1>3, DivMod, Zenon
<1>5. q * d \in Nat
  OBVIOUS
<1>6. q * d <= n1
  BY <1>4, <1>5
<1>. QED BY <1>1, <1>2, <1>3, <1>5, <1>6

LEMMA LaneElements ==
    ASSUME NEW a \in Seq(Values), Len(a) >= 1, NEW j \in 1 .. ArgLanes
    PROVE  /\ LaneOf(a, j) \in Seq(Values) /\ Len(LaneOf(a, j)) >= 1
           /\ Members(LaneOf(a, j)) \subseteq Members(a)
           /\ \A b \in 1 .. Len(a) \div ArgLanes : a[(b - 1) * ArgLanes + j] \in Members(LaneOf(a, j))
<1>1. PICK d, q \in Nat : /\ d = ArgLanes /\ d >= 1 /\ q = Len(a) \div ArgLanes
                          /\ q * d \in Nat /\ q * d <= Len(a)
  BY BlocksOf
<1>. DEFINE blocks == [b \in 1 .. q |-> a[(b - 1) * d + j]]
<1>2. Len(a) \in Nat /\ DOMAIN a = 1 .. Len(a) /\ \A k \in DOMAIN a : a[k] \in Values
  OBVIOUS
<1>3. \A b \in 1 .. q : (b - 1) * d + j \in DOMAIN a
  <2>. TAKE b \in 1 .. q
  <2>1. (b - 1) * d + j \in 1 .. q * d
    BY <1>1, InBlock
  <2>. QED BY <1>1, <1>2, <2>1
<1>4. \A b \in 1 .. q : blocks[b] = a[(b - 1) * d + j] /\ blocks[b] \in Values
  BY <1>2, <1>3
<1>5. blocks \in Seq(Values) /\ Len(blocks) = q
  <2>1. blocks = [b \in 1 .. q |-> blocks[b]]
    OBVIOUS
  <2>. HIDE DEF blocks
  <2>2. blocks \in [1 .. q -> Values]
    BY <1>4, <2>1
  <2>. QED BY <2>2
<1>6. LaneOf(a, j) = <<a[1]>> \o blocks
  BY <1>1 DEF LaneOf
<1>. HIDE DEF blocks
<1>. DEFINE l == <<a[1]>> \o blocks
<1>7. 1 \in DOMAIN a /\ a[1] \in Values
  BY <1>2
<1>8. l \in Seq(Values) /\ Len(l) = q + 1
  <2>1. <<a[1]>> \in Seq(Values) /\ Len(<<a[1]>>) = 1
    BY <1>7
  <2>. QED BY <1>5, <2>1
<1>9. l[1] = a[1] /\ \A b \in 1 .. q : l[b + 1] = blocks[b]
  BY <1>5, <1>7
<1>. HIDE DEF l
<1>10. DOMAIN l = 1 .. q + 1
  BY <1>8
<1>11. ASSUME NEW k \in 1 .. q + 1 PROVE l[k] \in Members(a)
  <2>1. CASE k = 1
    <3>1. l[k] = a[1]
      BY <1>9, <2>1
    <3>. QED BY <1>7, <3>1 DEF Members
  <2>2. CASE k # 1
    <3>1. PICK b \in 1 .. q : k = b + 1
      <4>1. k - 1 \in 1 .. q /\ k = (k - 1) + 1
        BY <2>2
      <4>. QED BY <4>1
    <3>2. l[k] = a[(b - 1) * d + j] /\ (b - 1) * d + j \in DOMAIN a
      BY <1>3, <1>4, <1>9, <3>1, Zenon
    <3>. QED BY <3>2, Zenon DEF Members
  <2>. QED BY <2>1, <2>2
<1>12. Members(l) \subseteq Members(a)
  BY <1>10, <1>11 DEF Members
<1>13. \A b \in 1 .. q : a[(b - 1) * d + j] \in Members(l)
  <2>. TAKE b \in 1 .. q
  <2>1. l[b + 1] = a[(b - 1) * d + j]
    BY <1>4, <1>9, Zenon
  <2>2. b + 1 \in DOMAIN l
    BY <1>10
  <2>. QED BY <2>1, <2>2, Zenon DEF Members
<1>14. Len(l) >= 1
  BY <1>8
<1>15. LaneOf(a, j) = l
  BY <1>6 DEF l
<1>. QED BY <1>1, <1>8, <1>12, <1>13, <1>14, <1>15, Zenon

\* What is left, and every element is in a lane or left.
LEMMA RestElements ==
    ASSUME NEW a \in Seq(Values)
    PROVE  /\ RestOf(a) \in Seq(Values) /\ Members(RestOf(a)) \subseteq Members(a)
           /\ \A k \in DOMAIN a :
                \/ a[k] \in Members(RestOf(a))
                \/ \E b \in 1 .. Len(a) \div ArgLanes, j \in 1 .. ArgLanes : k = (b - 1) * ArgLanes + j
<1>1. PICK d, q \in Nat : /\ d = ArgLanes /\ d >= 1 /\ q = Len(a) \div ArgLanes
                          /\ q * d \in Nat /\ q * d <= Len(a)
  BY BlocksOf
<1>2. PICK w \in Nat : w = q * d
  BY <1>1
<1>3. PICK n1 \in Nat : n1 = Len(a) /\ DOMAIN a = 1 .. n1
  OBVIOUS
<1>. DEFINE rest == SubSeq(a, w + 1, n1)
<1>4. w <= n1 /\ RestOf(a) = rest
  BY <1>1, <1>2, <1>3 DEF RestOf
<1>5. rest \in Seq(Values) /\ Len(rest) = n1 - w
  <2>1. w + 1 \in Int /\ n1 \in Int /\ \A k \in w + 1 .. n1 : k \in DOMAIN a
    BY <1>3
  <2>2. \A k \in w + 1 .. n1 : a[k] \in Values
    BY <2>1
  <2>3. Len(rest) = n1 - w /\ rest \in Seq(Values)
    BY <1>3, <1>4, <2>1, <2>2, SubSeqProperties
  <2>. QED BY <2>3
<1>6. \A k \in 1 .. n1 - w : rest[k] = a[w + k]
  BY <1>3, <1>4
<1>. HIDE DEF rest
<1>7. DOMAIN rest = 1 .. n1 - w
  BY <1>5
<1>8. Members(rest) \subseteq Members(a)
  <2>1. \A k \in 1 .. n1 - w : rest[k] = a[w + k] /\ w + k \in DOMAIN a
    BY <1>3, <1>4, <1>6
  <2>. QED BY <1>7, <2>1 DEF Members
<1>9. ASSUME NEW k \in DOMAIN a
      PROVE  \/ a[k] \in Members(rest)
             \/ \E b \in 1 .. Len(a) \div ArgLanes, j \in 1 .. ArgLanes : k = (b - 1) * ArgLanes + j
  <2>1. CASE k > w
    <3>1. PICK x \in 1 .. n1 - w : k = w + x
      <4>1. k - w \in 1 .. n1 - w /\ k = w + (k - w)
        BY <1>3, <1>4, <2>1
      <4>. QED BY <4>1
    <3>2. rest[x] = a[k]
      BY <1>6, <3>1
    <3>. QED BY <1>7, <3>2 DEF Members
  <2>2. CASE k <= w
    <3>1. k \in 1 .. q * d
      BY <1>2, <1>3, <2>2
    <3>2. \E b \in 1 .. q, j \in 1 .. d : k = (b - 1) * d + j
      BY <1>1, <3>1, BlockOf, ZenonT(120)
    <3>. QED BY <1>1, <3>2, Zenon
  <2>3. k \in Int
    BY <1>3
  <2>. QED BY <2>1, <2>2, <2>3
<1>. QED BY <1>4, <1>5, <1>8, <1>9, Zenon

LEMMA LanesAndRest ==
    ASSUME NEW a \in Seq(Values), Len(a) >= 1, NEW x \in Members(a)
    PROVE  x \in Members(RestOf(a)) \/ \E j \in 1 .. ArgLanes : x \in Members(LaneOf(a, j))
<1>1. PICK k \in DOMAIN a : x = a[k]
  BY DEF Members
<1>2. CASE a[k] \in Members(RestOf(a))
  BY <1>1, <1>2
<1>3. ASSUME NEW b \in 1 .. Len(a) \div ArgLanes, NEW j \in 1 .. ArgLanes,
             k = (b - 1) * ArgLanes + j
      PROVE  x \in Members(LaneOf(a, j))
  <2>1. a[(b - 1) * ArgLanes + j] \in Members(LaneOf(a, j))
    BY LaneElements, Zenon
  <2>. QED BY <1>1, <1>3, <2>1, Zenon
<1>. QED BY <1>2, <1>3, RestElements

\* The first of what the lanes found and of the rest is the first of all.
LEMMA GatheredFirst ==
    ASSUME NEW rank \in [Values -> Nat], NEW a \in Seq(Values), Len(a) >= 1,
           NEW w \in [1 .. ArgLanes -> Values],
           \A j \in 1 .. ArgLanes : First(rank, Members(LaneOf(a, j)), w[j]),
           NEW x, First(rank, Members(w \o RestOf(a)), x)
    PROVE  First(rank, Members(a), x)
<1>. PICK d \in Nat : d = ArgLanes /\ d >= 1
  BY ArgLanesAssumption
<1>1. w \in Seq(Values) /\ Len(w) = d
  OBVIOUS
<1>. PICK rest : rest = RestOf(a)
  OBVIOUS
<1>. PICK all : all = w \o rest
  OBVIOUS
<1>2. rest \in Seq(Values) /\ Members(rest) \subseteq Members(a)
  BY RestElements
<1>3. /\ Len(rest) \in Nat /\ DOMAIN all = 1 .. d + Len(rest) /\ DOMAIN rest = 1 .. Len(rest)
      /\ \A j \in 1 .. d : all[j] = w[j]
      /\ \A k \in 1 .. Len(rest) : all[d + k] = rest[k]
  <2>1. all \in Seq(Values) /\ Len(all) = Len(w) + Len(rest) /\ Len(rest) \in Nat
    <3>1. w \o rest \in Seq(Values) /\ Len(w \o rest) = Len(w) + Len(rest)
      BY <1>1, <1>2, ConcatProperties
    <3>2. all = w \o rest
      OBVIOUS
    <3>. QED BY <1>2, <3>1, <3>2
  <2>2. DOMAIN all = 1 .. d + Len(rest) /\ DOMAIN rest = 1 .. Len(rest)
    BY <1>1, <1>2, <2>1
  <2>3. \A j \in 1 .. d : all[j] = w[j]
    BY <1>1, <1>2
  <2>4. \A k \in 1 .. Len(rest) : all[d + k] = rest[k]
    BY <1>1, <1>2, SMTT(120)
  <2>. QED BY <2>1, <2>2, <2>3, <2>4
<1>4. \A j \in 1 .. d : w[j] \in Members(all)
  <2>. TAKE j \in 1 .. d
  <2>1. all[j] = w[j] /\ j \in DOMAIN all
    BY <1>3
  <2>. QED BY <2>1, Zenon DEF Members
<1>5. \A z \in Members(rest) : z \in Members(all)
  <2>. TAKE z \in Members(rest)
  <2>1. PICK k \in 1 .. Len(rest) : z = rest[k]
    BY <1>3 DEF Members
  <2>2. all[d + k] = z /\ d + k \in DOMAIN all
    BY <1>3, <2>1
  <2>. QED BY <2>2 DEF Members
<1>6. \A j \in 1 .. d : w[j] \in Members(a)
  <2>. TAKE j \in 1 .. d
  <2>1. w[j] \in Members(LaneOf(a, j))
    BY DEF First
  <2>. QED BY <2>1, LaneElements
<1>7. \A z \in Members(all) : z \in Members(a)
  <2>. TAKE z \in Members(all)
  <2>1. PICK k \in 1 .. d + Len(rest) : z = all[k]
    BY <1>3 DEF Members
  <2>2. CASE k \in 1 .. d
    BY <1>3, <1>6, <2>1, <2>2
  <2>3. CASE k - d \in 1 .. Len(rest)
    <3>1. z = rest[k - d]
      BY <1>3, <2>1, <2>3, d + (k - d) = k
    <3>2. z \in Members(rest)
      BY <1>3, <2>3, <3>1 DEF Members
    <3>. QED BY <1>2, <3>2
  <2>. QED BY <2>2, <2>3, <1>3
<1>8. x \in Members(a) /\ x \in Members(all) /\ \A y \in Members(all) : rank[x] <= rank[y]
  BY <1>7 DEF First
<1>9. \A z \in Members(a) : z \in Values /\ rank[z] \in Nat
  <2>1. \A k \in DOMAIN a : a[k] \in Values
    OBVIOUS
  <2>. QED BY <2>1 DEF Members
<1>10. ASSUME NEW z \in Members(a) PROVE rank[x] <= rank[z]
  <2>1. CASE z \in Members(rest)
    BY <2>1, <1>5, <1>8
  <2>2. ASSUME NEW j \in 1 .. ArgLanes, z \in Members(LaneOf(a, j)) PROVE rank[x] <= rank[z]
    <3>1. rank[w[j]] <= rank[z]
      BY <2>2 DEF First
    <3>2. rank[x] <= rank[w[j]]
      BY <1>4, <1>8
    <3>3. rank[x] \in Nat /\ rank[w[j]] \in Nat /\ rank[z] \in Nat
      BY <1>6, <1>8, <1>9
    <3>. QED BY <3>1, <3>2, <3>3
  <2>. QED BY <2>1, <2>2, LanesAndRest
<1>. QED BY <1>8, <1>10 DEF First

\* Both reductions give the first of the chunk.
LEMMA KernelMin ==
    ASSUME NEW a \in Seq(Values), Len(a) >= 1
    PROVE  First(MinRank, Members(a), KernelFold(Min2, a))
<1>. DEFINE w == [j \in 1 .. ArgLanes |-> LeftFold(Min2, LaneOf(a, j))]
<1>1. KernelFold(Min2, a) = LeftFold(Min2, w \o RestOf(a))
  BY DEF KernelFold, LaneOf, RestOf
<1>2. ArgLanes \in Nat /\ ArgLanes >= 1 /\ MinRank \in [Values -> Nat]
  BY ArgLanesAssumption, RanksAre
<1>3. \A j \in 1 .. ArgLanes : First(MinRank, Members(LaneOf(a, j)), LeftFold(Min2, LaneOf(a, j)))
  BY LaneElements, MinUnfolds
<1>4. \A j \in 1 .. ArgLanes : First(MinRank, Members(LaneOf(a, j)), w[j])
  BY <1>3
<1>5. DOMAIN w = 1 .. ArgLanes /\ w = [j \in 1 .. ArgLanes |-> w[j]]
  OBVIOUS
<1>. HIDE DEF w
<1>6. \A j \in 1 .. ArgLanes : w[j] \in Values
  <2>. TAKE j \in 1 .. ArgLanes
  <2>1. w[j] \in Members(LaneOf(a, j)) /\ LaneOf(a, j) \in Seq(Values)
    BY <1>4, LaneElements DEF First
  <2>. QED BY <2>1 DEF Members
<1>7. w \in [1 .. ArgLanes -> Values]
  BY <1>5, <1>6
<1>8. w \o RestOf(a) \in Seq(Values) /\ Len(w \o RestOf(a)) >= 1
  <2>1. w \in Seq(Values) /\ Len(w) = ArgLanes /\ RestOf(a) \in Seq(Values)
    BY <1>2, <1>7, RestElements
  <2>. QED BY <1>2, <2>1
<1>9. First(MinRank, Members(w \o RestOf(a)), LeftFold(Min2, w \o RestOf(a)))
  BY <1>8, MinUnfolds
<1>. QED BY <1>1, <1>2, <1>4, <1>7, <1>9, GatheredFirst

LEMMA KernelMax ==
    ASSUME NEW a \in Seq(Values), Len(a) >= 1
    PROVE  First(MaxRank, Members(a), KernelFold(Max2, a))
<1>. DEFINE w == [j \in 1 .. ArgLanes |-> LeftFold(Max2, LaneOf(a, j))]
<1>1. KernelFold(Max2, a) = LeftFold(Max2, w \o RestOf(a))
  BY DEF KernelFold, LaneOf, RestOf
<1>2. ArgLanes \in Nat /\ ArgLanes >= 1 /\ MaxRank \in [Values -> Nat]
  BY ArgLanesAssumption, RanksAre
<1>3. \A j \in 1 .. ArgLanes : First(MaxRank, Members(LaneOf(a, j)), LeftFold(Max2, LaneOf(a, j)))
  BY LaneElements, MaxUnfolds
<1>4. \A j \in 1 .. ArgLanes : First(MaxRank, Members(LaneOf(a, j)), w[j])
  BY <1>3
<1>5. DOMAIN w = 1 .. ArgLanes /\ w = [j \in 1 .. ArgLanes |-> w[j]]
  OBVIOUS
<1>. HIDE DEF w
<1>6. \A j \in 1 .. ArgLanes : w[j] \in Values
  <2>. TAKE j \in 1 .. ArgLanes
  <2>1. w[j] \in Members(LaneOf(a, j)) /\ LaneOf(a, j) \in Seq(Values)
    BY <1>4, LaneElements DEF First
  <2>. QED BY <2>1 DEF Members
<1>7. w \in [1 .. ArgLanes -> Values]
  BY <1>5, <1>6
<1>8. w \o RestOf(a) \in Seq(Values) /\ Len(w \o RestOf(a)) >= 1
  <2>1. w \in Seq(Values) /\ Len(w) = ArgLanes /\ RestOf(a) \in Seq(Values)
    BY <1>2, <1>7, RestElements
  <2>. QED BY <1>2, <2>1
<1>9. First(MaxRank, Members(w \o RestOf(a)), LeftFold(Max2, w \o RestOf(a)))
  BY <1>8, MaxUnfolds
<1>. QED BY <1>1, <1>2, <1>4, <1>7, <1>9, GatheredFirst

-----------------------------------------------------------------------------
(* The accumulator of minimum and maximum.                                 *)

\* The module of the accumulator has the values and the functions of this one.
LEMMA SameFunctions ==
    /\ M!Values = Values
    /\ \A x, y \in Values : M!MathMin(x, y) = MathMin(x, y) /\ M!MathMax(x, y) = MathMax(x, y)
    /\ \A x, y \in Values : M!Less(x, y) <=> Less(x, y)
<1>1. M!Values = Values /\ \A x, y : M!Less(x, y) <=> Less(x, y)
  BY DEF M!Values, Values, M!Numbers, Numbers, M!Number, Number, M!Less, Less
<1>2. \A x, y : M!Min2(x, y) = Min2(x, y) /\ M!Max2(x, y) = Max2(x, y)
  BY <1>1 DEF M!Min2, Min2, M!Max2, Max2, M!SignBit, SignBit
<1>3. \A x, y : M!MathMin(x, y) = MathMin(x, y) /\ M!MathMax(x, y) = MathMax(x, y)
  BY <1>2 DEF M!MathMin, MathMin, M!MathMax, MathMax
<1>. QED BY <1>1, <1>3

LEMMA BelowIsRank ==
    ASSUME NEW x \in Values, NEW y \in Values, x # "NaN", y # "NaN"
    PROVE  /\ M!Below(x, y) <=> MinRank[x] < MinRank[y]
           /\ M!Below(x, y) <=> MaxRank[y] < MaxRank[x]
BY SameFunctions, LessIs, ValuesAre DEF M!Below, MinRank, MaxRank

\* The first in either order is the minimum, or the maximum.
LEMMA FirstIsExtreme ==
    ASSUME NEW S \in SUBSET Values, NEW x
    PROVE  /\ First(MinRank, S, x) => x = M!Least(S)
           /\ First(MaxRank, S, x) => x = M!Greatest(S)
<1>1. /\ MinRank \in [Values -> Nat] /\ MaxRank \in [Values -> Nat]
      /\ \A y, z \in Values : MinRank[y] = MinRank[z] => y = z
      /\ \A y, z \in Values : MaxRank[y] = MaxRank[z] => y = z
  BY RanksAre
<1>2. MinRank["NaN"] = 0 /\ MaxRank["NaN"] = 0 /\ "NaN" \in Values
  BY ValuesAre DEF MinRank, MaxRank
<1>3. ASSUME First(MinRank, S, x) PROVE x = M!Least(S)
  <2>1. x \in S /\ x \in Values /\ \A y \in S : MinRank[x] <= MinRank[y]
    BY <1>3 DEF First
  <2>2. CASE "NaN" \in S
    <3>1. MinRank[x] <= 0
      BY <1>2, <2>1, <2>2
    <3>2. MinRank[x] = 0
      BY <1>1, <2>1, <3>1
    <3>. QED BY <1>1, <1>2, <2>1, <2>2, <3>2 DEF M!Least
  <2>3. CASE "NaN" \notin S
    <3>1. \A y \in S \ {x} : M!Below(x, y)
      <4>. TAKE y \in S \ {x}
      <4>1. y \in Values /\ y # "NaN" /\ x # "NaN" /\ MinRank[x] # MinRank[y]
        BY <1>1, <2>1, <2>3
      <4>2. MinRank[x] < MinRank[y]
        BY <1>1, <2>1, <4>1
      <4>. QED BY <2>1, <4>1, <4>2, BelowIsRank
    <3>2. ASSUME NEW z \in S, \A y \in S \ {z} : M!Below(z, y) PROVE z = x
      <4>. SUFFICES ASSUME z # x PROVE FALSE
        OBVIOUS
      <4>1. M!Below(z, x) /\ z \in Values /\ z # "NaN" /\ x # "NaN"
        BY <2>1, <2>3, <3>2
      <4>2. MinRank[z] < MinRank[x]
        BY <2>1, <4>1, BelowIsRank
      <4>. QED BY <1>1, <2>1, <4>1, <4>2
    <3>. HIDE DEF M!Below
    <3>. QED BY <2>1, <2>3, <3>1, <3>2 DEF M!Least
  <2>. QED BY <2>2, <2>3
<1>4. ASSUME First(MaxRank, S, x) PROVE x = M!Greatest(S)
  <2>1. x \in S /\ x \in Values /\ \A y \in S : MaxRank[x] <= MaxRank[y]
    BY <1>4 DEF First
  <2>2. CASE "NaN" \in S
    <3>1. MaxRank[x] <= 0
      BY <1>2, <2>1, <2>2
    <3>2. MaxRank[x] = 0
      BY <1>1, <2>1, <3>1
    <3>. QED BY <1>1, <1>2, <2>1, <2>2, <3>2 DEF M!Greatest
  <2>3. CASE "NaN" \notin S
    <3>1. \A y \in S \ {x} : M!Below(y, x)
      <4>. TAKE y \in S \ {x}
      <4>1. y \in Values /\ y # "NaN" /\ x # "NaN" /\ MaxRank[x] # MaxRank[y]
        BY <1>1, <2>1, <2>3
      <4>2. MaxRank[x] < MaxRank[y]
        BY <1>1, <2>1, <4>1
      <4>. QED BY <2>1, <4>1, <4>2, BelowIsRank
    <3>2. ASSUME NEW z \in S, \A y \in S \ {z} : M!Below(y, z) PROVE z = x
      <4>. SUFFICES ASSUME z # x PROVE FALSE
        OBVIOUS
      <4>1. M!Below(x, z) /\ z \in Values /\ z # "NaN" /\ x # "NaN"
        BY <2>1, <2>3, <3>2
      <4>2. MaxRank[z] < MaxRank[x]
        BY <2>1, <4>1, BelowIsRank
      <4>. QED BY <1>1, <2>1, <4>1, <4>2
    <3>. QED BY <2>1, <2>3, <3>1, <3>2 DEF M!Greatest
  <2>. QED BY <2>2, <2>3
<1>. QED BY <1>3, <1>4

\* What an accumulated result is: the first, or an infinity that met a NaN.
MinFound(S, x) == First(MinRank, S, x) \/ ({"NaN", "negInf"} \subseteq S /\ x = "negInf")
MaxFound(S, x) == First(MaxRank, S, x) \/ ({"NaN", "posInf"} \subseteq S /\ x = "posInf")

MinMaxInv ==
    /\ min \in Values /\ max \in Values /\ seen \in BOOLEAN /\ elems \subseteq Values
    /\ ~seen => min = "posZero" /\ max = "posZero"
    /\ seen <=> elems # {}
    /\ seen => MinFound(elems, min) /\ MaxFound(elems, max)

\* Of two streams, one after the other.
LEMMA FirstOfBoth ==
    ASSUME NEW rank \in [Values -> Nat], NEW S \in SUBSET Values, NEW T \in SUBSET Values,
           NEW x, NEW y, First(rank, S, x), First(rank, T, y)
    PROVE  First(rank, S \cup T, IF rank[x] <= rank[y] THEN x ELSE y)
<1>1. x \in S /\ y \in T /\ rank[x] \in Nat /\ rank[y] \in Nat
  BY DEF First
<1>2. \A z \in S : rank[z] \in Nat /\ rank[x] <= rank[z]
  BY DEF First
<1>3. \A z \in T : rank[z] \in Nat /\ rank[y] <= rank[z]
  BY DEF First
<1>. QED BY <1>1, <1>2, <1>3 DEF First

LEMMA MathMinIs ==
    ASSUME NEW x \in Values, NEW y \in Values
    PROVE  /\ MathMin(x, y) \in Values
           /\ \/ MathMin(x, y) = IF MinRank[x] <= MinRank[y] THEN x ELSE y
              \/ {x, y} = {"NaN", "negInf"} /\ MathMin(x, y) = "negInf"
           /\ x = "negInf" \/ y = "negInf" => MathMin(x, y) = "negInf"
BY LessIs, ValuesAre DEF MathMin, Min2, MinRank, SignBit

LEMMA MathMaxIs ==
    ASSUME NEW x \in Values, NEW y \in Values
    PROVE  /\ MathMax(x, y) \in Values
           /\ \/ MathMax(x, y) = IF MaxRank[x] <= MaxRank[y] THEN x ELSE y
              \/ {x, y} = {"NaN", "posInf"} /\ MathMax(x, y) = "posInf"
           /\ x = "posInf" \/ y = "posInf" => MathMax(x, y) = "posInf"
BY LessIs, ValuesAre DEF MathMax, Max2, MaxRank, SignBit

LEMMA FoundOfBoth ==
    ASSUME NEW S \in SUBSET Values, NEW T \in SUBSET Values, NEW x \in Values, NEW y \in Values
    PROVE  /\ MinFound(S, x) /\ First(MinRank, T, y) => MinFound(S \cup T, MathMin(x, y))
           /\ MaxFound(S, x) /\ First(MaxRank, T, y) => MaxFound(S \cup T, MathMax(x, y))
<1>1. ASSUME MinFound(S, x), First(MinRank, T, y) PROVE MinFound(S \cup T, MathMin(x, y))
  <2>1. CASE {"NaN", "negInf"} \subseteq S /\ x = "negInf"
    BY <2>1, MathMinIs DEF MinFound
  <2>2. CASE First(MinRank, S, x)
    <3>1. First(MinRank, S \cup T, IF MinRank[x] <= MinRank[y] THEN x ELSE y)
      BY <1>1, <2>2, FirstOfBoth, RanksAre
    <3>2. x \in S /\ y \in T
      BY <1>1, <2>2 DEF First
    <3>3. CASE MathMin(x, y) = IF MinRank[x] <= MinRank[y] THEN x ELSE y
      BY <3>1, <3>3 DEF MinFound
    <3>4. CASE {x, y} = {"NaN", "negInf"} /\ MathMin(x, y) = "negInf"
      BY <3>2, <3>4 DEF MinFound
    <3>. QED BY <3>3, <3>4, MathMinIs
  <2>. QED BY <1>1, <2>1, <2>2 DEF MinFound
<1>2. ASSUME MaxFound(S, x), First(MaxRank, T, y) PROVE MaxFound(S \cup T, MathMax(x, y))
  <2>1. CASE {"NaN", "posInf"} \subseteq S /\ x = "posInf"
    BY <2>1, MathMaxIs DEF MaxFound
  <2>2. CASE First(MaxRank, S, x)
    <3>1. First(MaxRank, S \cup T, IF MaxRank[x] <= MaxRank[y] THEN x ELSE y)
      BY <1>2, <2>2, FirstOfBoth, RanksAre
    <3>2. x \in S /\ y \in T
      BY <1>2, <2>2 DEF First
    <3>3. CASE MathMax(x, y) = IF MaxRank[x] <= MaxRank[y] THEN x ELSE y
      BY <3>1, <3>3 DEF MaxFound
    <3>4. CASE {x, y} = {"NaN", "posInf"} /\ MathMax(x, y) = "posInf"
      BY <3>2, <3>4 DEF MaxFound
    <3>. QED BY <3>3, <3>4, MathMaxIs
  <2>. QED BY <1>2, <2>1, <2>2 DEF MaxFound
<1>. QED BY <1>1, <1>2

\* A chunk that is not empty, and what either reduction makes of it.
LEMMA ChunkReduced ==
    ASSUME NEW a \in M!Chunks \ {<<>>}, NEW r \in {RefMinMax(a), KernelMinMax(a)}
    PROVE  /\ Members(a) \subseteq Values /\ Members(a) # {}
           /\ First(MinRank, Members(a), r[1]) /\ First(MaxRank, Members(a), r[2])
           /\ r[1] \in Values /\ r[2] \in Values
<1>1. PICK k \in 0 .. MinMaxChunk : a \in [1 .. k -> Values]
  BY SameFunctions DEF M!Chunks
<1>2. k \in Nat
  BY MinMaxChunkAssumption
<1>3. a \in Seq(Values) /\ Len(a) = k
  BY <1>1, <1>2
<1>4. Len(a) >= 1
  BY <1>2, <1>3, EmptySeq
<1>5. Members(a) \subseteq Values
  BY <1>3 DEF Members
<1>6. /\ First(MinRank, Members(a), LeftFold(Min2, a)) /\ First(MaxRank, Members(a), LeftFold(Max2, a))
      /\ First(MinRank, Members(a), KernelFold(Min2, a)) /\ First(MaxRank, Members(a), KernelFold(Max2, a))
  BY <1>3, <1>4, MinUnfolds, MaxUnfolds, KernelMin, KernelMax
<1>7. /\ RefMinMax(a) = <<LeftFold(Min2, a), LeftFold(Max2, a)>>
      /\ KernelMinMax(a) = <<KernelFold(Min2, a), KernelFold(Max2, a)>>
  BY DEF RefMinMax, KernelMinMax
<1>. HIDE DEF RefMinMax, KernelMinMax
<1>8. First(MinRank, Members(a), r[1]) /\ First(MaxRank, Members(a), r[2])
  <2>1. CASE r = RefMinMax(a)
    <3>1. r[1] = LeftFold(Min2, a) /\ r[2] = LeftFold(Max2, a)
      BY <1>7, <2>1
    <3>. QED BY <1>6, <3>1
  <2>2. CASE r = KernelMinMax(a)
    <3>1. r[1] = KernelFold(Min2, a) /\ r[2] = KernelFold(Max2, a)
      BY <1>7, <2>2
    <3>. QED BY <1>6, <3>1
  <2>. QED BY <2>1, <2>2
<1>9. r[1] \in Members(a) /\ r[2] \in Members(a)
  BY <1>8 DEF First
<1>. QED BY <1>5, <1>8, <1>9

-----------------------------------------------------------------------------
(* A life of either accumulator.                                           *)

StreamInv == IndInv /\ MinMaxInv

LEMMA StreamStarts ==
    StreamInit => StreamInv
<1>. SUFFICES ASSUME StreamInit PROVE StreamInv
  OBVIOUS
<1>1. IndInv
  BY InitIndInv DEF StreamInit
<1>2. MinMaxInv
  BY ValuesAre DEF StreamInit, M!Init, MinMaxInv
<1>. QED BY <1>1, <1>2 DEF StreamInv

LEMMA StreamMoves ==
    StreamInv /\ [StreamNext]_streamVars => StreamInv'
<1>. SUFFICES ASSUME StreamInv, [StreamNext]_streamVars PROVE StreamInv'
  OBVIOUS
<1>. USE DEF StreamInv
<1>1. ASSUME [Next]_vars, UNCHANGED minMaxVars PROVE StreamInv'
  <2>1. IndInv'
    BY <1>1, StepIndInv
  <2>2. MinMaxInv'
    BY <1>1 DEF minMaxVars, MinMaxInv
  <2>. QED BY <2>1, <2>2
<1>2. ASSUME UNCHANGED sumVars, MinMaxInv' PROVE StreamInv'
  <2>1. UNCHANGED vars
    BY <1>2 DEF sumVars, vars
  <2>2. IndInv'
    BY <2>1, StepIndInv
  <2>. QED BY <1>2, <2>2
<1>3. CASE UNCHANGED streamVars
  <2>1. UNCHANGED vars /\ UNCHANGED minMaxVars
    BY <1>3 DEF streamVars, sumVars, vars
  <2>. QED BY <1>1, <2>1
<1>4. ASSUME NEW k \in 0 .. MaxChunk, OfSum(Call(k)) PROVE StreamInv'
  BY <1>1, <1>4 DEF OfSum, Next
<1>5. CASE \/ OfSum(HeadStep) \/ OfSum(HeadDone) \/ OfSum(BodyStep) \/ OfSum(BodyDone)
           \/ OfSum(TailStep) \/ OfSum(Return) \/ OfSum(Reset)
  BY <1>1, <1>5 DEF OfSum, Next
<1>6. ASSUME NEW a \in M!Chunks, OfMinMax(M!AddNothing(a)) PROVE StreamInv'
  <2>1. MinMaxInv'
    BY <1>6 DEF OfMinMax, M!AddNothing, M!vars, MinMaxInv
  <2>. QED BY <1>2, <1>6, <2>1 DEF OfMinMax
<1>7. ASSUME NEW a \in M!Chunks \ {<<>>}, NEW r \in {RefMinMax(a), KernelMinMax(a)},
             OfMinMax(M!AddFirst(a, r))
      PROVE  StreamInv'
  <2>1. min' = r[1] /\ max' = r[2] /\ seen' = TRUE /\ elems' = Members(a)
    BY <1>7 DEF OfMinMax, M!AddFirst, Members
  <2>2. MinMaxInv'
    BY <2>1, ChunkReduced DEF MinMaxInv, MinFound, MaxFound
  <2>. QED BY <1>2, <1>7, <2>2 DEF OfMinMax
<1>8. ASSUME NEW a \in M!Chunks \ {<<>>}, NEW r \in {RefMinMax(a), KernelMinMax(a)},
             OfMinMax(M!AddMore(a, r))
      PROVE  StreamInv'
  <2>1. /\ Members(a) \subseteq Values /\ First(MinRank, Members(a), r[1]) /\ First(MaxRank, Members(a), r[2])
        /\ r[1] \in Values /\ r[2] \in Values
    BY ChunkReduced
  <2>2. /\ min' = MathMin(min, r[1]) /\ max' = MathMax(max, r[2])
        /\ seen /\ seen' = seen /\ elems' = elems \cup Members(a)
    BY <1>8, <2>1, SameFunctions DEF OfMinMax, M!AddMore, Members, MinMaxInv
  <2>3. MinFound(elems', min') /\ MaxFound(elems', max')
    BY <2>1, <2>2, FoundOfBoth DEF MinMaxInv
  <2>4. min' \in Values /\ max' \in Values
    BY <2>1, <2>2, MathMinIs, MathMaxIs DEF MinMaxInv
  <2>5. MinMaxInv'
    BY <2>1, <2>2, <2>3, <2>4 DEF MinMaxInv
  <2>. QED BY <1>2, <1>8, <2>5 DEF OfMinMax
<1>9. CASE OfMinMax(M!Reset)
  <2>1. MinMaxInv'
    BY <1>9, ValuesAre DEF OfMinMax, M!Reset, MinMaxInv
  <2>. QED BY <1>2, <1>9, <2>1 DEF OfMinMax
<1>. QED BY <1>3, <1>4, <1>5, <1>6, <1>7, <1>8, <1>9 DEF StreamNext

\* The invariant of both accumulators holds in every state.
THEOREM StreamInvariance == StreamSpec => []StreamInv
BY StreamStarts, StreamMoves, PTL DEF StreamSpec

\* stream.go:56-60: between calls the lanes are those of the whole stream, however it was cut.
THEOREM StreamCutsInvisible == StreamSpec => []ChunkingInvisible
<1>1. StreamInv => ChunkingInvisible
  BY DEF StreamInv, IndInv, ChunkingInvisible, Folded
<1>. QED BY <1>1, StreamInvariance, PTL

\* stream.go:108-153: the minimum and the maximum are those of the whole stream, whichever
\* way each chunk was reduced, or the infinity that met a NaN.
THEOREM StreamExtremes == StreamSpec => []WholeMinMax
<1>1. StreamInv => WholeMinMax
  <2>. SUFFICES ASSUME StreamInv PROVE WholeMinMax
    OBVIOUS
  <2>1. MinMaxInv
    BY DEF StreamInv
  <2>2. seen => min = M!Least(elems) \/ ({"NaN", "negInf"} \subseteq elems /\ min = "negInf")
    BY <2>1, FirstIsExtreme DEF MinMaxInv, MinFound
  <2>3. seen => max = M!Greatest(elems) \/ ({"NaN", "posInf"} \subseteq elems /\ max = "posInf")
    BY <2>1, FirstIsExtreme DEF MinMaxInv, MaxFound
  <2>. QED BY <2>1, <2>2, <2>3 DEF MinMaxInv, WholeMinMax, M!WholeMinMax
<1>. QED BY <1>1, StreamInvariance, PTL

\* One operand and the result.
LEMMA MinOutwards ==
    ASSUME NEW x \in Values, NEW y \in Values, NEW z, z = MathMin(x, y)
    PROVE  z \in {x, "NaN"} \/ M!Below(z, x) \/ (x = "NaN" /\ z = "negInf")
<1>1. MinRank["NaN"] = 0 /\ MinRank[x] \in Nat /\ MinRank[y] \in Nat
  BY RanksAre, ValuesAre DEF MinRank
<1>2. CASE {x, y} = {"NaN", "negInf"} /\ z = "negInf"
  BY <1>2
<1>3. CASE z = x
  BY <1>3
<1>4. CASE z = y /\ ~(MinRank[x] <= MinRank[y]) /\ y # "NaN"
  <2>1. x # "NaN" /\ MinRank[y] < MinRank[x]
    BY <1>1, <1>4
  <2>. QED BY <1>4, <2>1, BelowIsRank
<1>. QED BY <1>2, <1>3, <1>4, MathMinIs

LEMMA MaxOutwards ==
    ASSUME NEW x \in Values, NEW y \in Values, NEW z, z = MathMax(x, y)
    PROVE  z \in {x, "NaN"} \/ M!Below(x, z) \/ (x = "NaN" /\ z = "posInf")
<1>1. MaxRank["NaN"] = 0 /\ MaxRank[x] \in Nat /\ MaxRank[y] \in Nat
  BY RanksAre, ValuesAre DEF MaxRank
<1>2. CASE {x, y} = {"NaN", "posInf"} /\ z = "posInf"
  BY <1>2
<1>3. CASE z = x
  BY <1>3
<1>4. CASE z = y /\ ~(MaxRank[x] <= MaxRank[y]) /\ y # "NaN"
  <2>1. x # "NaN" /\ MaxRank[y] < MaxRank[x]
    BY <1>1, <1>4
  <2>. QED BY <1>4, <2>1, BelowIsRank
<1>. QED BY <1>2, <1>3, <1>4, MathMaxIs

\* What a step may do to the results of an accumulator that has seen something.
Outwards ==
    seen /\ seen' =>
      /\ min' \in {min, "NaN"} \/ M!Below(min', min) \/ (min = "NaN" /\ min' = "negInf")
      /\ max' \in {max, "NaN"} \/ M!Below(max, max') \/ (max = "NaN" /\ max' = "posInf")
      /\ min = "negInf" => min' = "negInf"
      /\ max = "posInf" => max' = "posInf"

\* stream.go:139-146: until a Reset a result only moves outwards, and an infinity stays.
THEOREM ResultsMoveOutwards == StreamSpec => NeverNarrows
<1>1. ASSUME StreamInv, [StreamNext]_streamVars PROVE [Outwards]_(M!vars)
  <2>. SUFFICES ASSUME ~UNCHANGED M!vars, seen, seen' PROVE Outwards
    BY DEF Outwards
  <2>1. MinMaxInv
    BY <1>1 DEF StreamInv
  <2>2. ~UNCHANGED minMaxVars
    BY DEF minMaxVars, M!vars
  <2>10. PICK a \in M!Chunks \ {<<>>} : \E r \in {RefMinMax(a), KernelMinMax(a)} : OfMinMax(M!AddMore(a, r))
    BY <1>1, <2>2 DEF StreamNext, streamVars, OfSum, OfMinMax, minMaxVars, M!AddNothing, M!vars, M!AddFirst, M!Reset
  <2>3. PICK r \in {RefMinMax(a), KernelMinMax(a)} : OfMinMax(M!AddMore(a, r))
    BY <2>10
  <2>4. r[1] \in Values /\ r[2] \in Values
    BY ChunkReduced
  <2>5. min' = MathMin(min, r[1]) /\ max' = MathMax(max, r[2]) /\ min \in Values /\ max \in Values
    BY <2>1, <2>3, <2>4, SameFunctions DEF OfMinMax, M!AddMore, MinMaxInv
  <2>6. MathMin(min, r[1]) \in {min, "NaN"} \/ M!Below(MathMin(min, r[1]), min) \/ (min = "NaN" /\ MathMin(min, r[1]) = "negInf")
    BY <2>4, <2>5, MinOutwards
  <2>7. MathMax(max, r[2]) \in {max, "NaN"} \/ M!Below(max, MathMax(max, r[2])) \/ (max = "NaN" /\ MathMax(max, r[2]) = "posInf")
    BY <2>4, <2>5, MaxOutwards
  <2>8. (min = "negInf" => min' = "negInf") /\ (max = "posInf" => max' = "posInf")
    BY <2>4, <2>5, MathMinIs, MathMaxIs
  <2>. QED BY <2>5, <2>6, <2>7, <2>8 DEF Outwards
<1>2. [][Outwards]_(M!vars) => NeverNarrows
  BY DEF Outwards, NeverNarrows, M!NeverNarrows
<1>. QED BY <1>1, <1>2, StreamInvariance, PTL DEF StreamSpec

-----------------------------------------------------------------------------
(* Several sources: a call.                                                *)

\* What a call is.
LEMMA CallFacts ==
    ASSUME call \in Calls
    PROVE  /\ call.dlen \in Nat /\ Len(srcs) \in Nat
           /\ \A j \in 1 .. Len(srcs) : srcs[j].len \in Nat /\ srcs[j].dst \in BOOLEAN
<1>1. call.dlen \in Nat /\ srcs \in Seq([len : Nat, dst : BOOLEAN])
  BY CallsAssumption DEF srcs
<1>2. ASSUME NEW s \in Seq([len : Nat, dst : BOOLEAN]), NEW j \in 1 .. Len(s)
      PROVE  s[j].len \in Nat /\ s[j].dst \in BOOLEAN
  <2>1. s[j] \in [len : Nat, dst : BOOLEAN]
    BY ElementOfSeq
  <2>. QED BY <2>1
<1>. QED BY <1>1, <1>2

-----------------------------------------------------------------------------
(* Terms.                                                                  *)

\* The term of an operation on two terms, element by element.
LEMMA ApplyElements ==
    ASSUME NEW S, Op \in S, NEW x \in Seq(S), NEW y \in Seq(S)
    PROVE  /\ Apply(x, y) \in Seq(S)
           /\ Len(Apply(x, y)) = 1 + Len(x) + Len(y)
           /\ \A z \in 1 .. 1 + Len(x) + Len(y) :
                Apply(x, y)[z] = IF z = 1 THEN Op
                                 ELSE IF z <= 1 + Len(x) THEN x[z - 1] ELSE y[z - 1 - Len(x)]
<1>. DEFINE o == <<Op>>
            ox == o \o x
<1>1. o \in Seq(S) /\ Len(o) = 1 /\ o[1] = Op
  OBVIOUS
<1>2. /\ ox \in Seq(S) /\ Len(ox) = 1 + Len(x)
      /\ \A z \in 1 .. 1 + Len(x) : ox[z] = IF z <= 1 THEN o[z] ELSE x[z - 1]
  <2>. HIDE DEF o
  <2>1. /\ ox \in Seq(S) /\ Len(ox) = Len(o) + Len(x)
        /\ \A z \in 1 .. Len(o) + Len(x) :
             ox[z] = IF z <= Len(o) THEN o[z] ELSE x[z - Len(o)]
    BY <1>1, ConcatProperties
  <2>. HIDE DEF ox
  <2>. QED BY <1>1, <2>1
<1>. HIDE DEF o, ox
<1>3. /\ ox \o y \in Seq(S) /\ Len(ox \o y) = 1 + Len(x) + Len(y)
      /\ \A z \in 1 .. 1 + Len(x) + Len(y) :
           (ox \o y)[z] = IF z <= 1 + Len(x) THEN ox[z] ELSE y[z - (1 + Len(x))]
  <2>1. /\ ox \o y \in Seq(S) /\ Len(ox \o y) = Len(ox) + Len(y)
        /\ \A z \in 1 .. Len(ox) + Len(y) :
             (ox \o y)[z] = IF z <= Len(ox) THEN ox[z] ELSE y[z - Len(ox)]
    BY <1>2, ConcatProperties
  <2>. QED BY <1>2, <2>1
<1>4. Apply(x, y) = ox \o y
  BY DEF Apply, o, ox
<1>5. Len(x) \in Nat /\ Len(y) \in Nat
  OBVIOUS
<1>6. ASSUME NEW z \in 1 .. 1 + Len(x) + Len(y)
      PROVE  (ox \o y)[z] = IF z = 1 THEN Op
                            ELSE IF z <= 1 + Len(x) THEN x[z - 1] ELSE y[z - 1 - Len(x)]
  <2>1. CASE z = 1
    BY <1>1, <1>2, <1>3, <1>5, <2>1
  <2>2. CASE z # 1 /\ z <= 1 + Len(x)
    BY <1>2, <1>3, <1>5, <2>2
  <2>3. CASE z > 1 + Len(x)
    <3>1. z - (1 + Len(x)) = z - 1 - Len(x)
      BY <1>5
    <3>. QED BY <1>3, <1>5, <2>3, <3>1
  <2>4. z = 1 \/ (z # 1 /\ z <= 1 + Len(x)) \/ z > 1 + Len(x)
    BY <1>5
  <2>. QED BY <2>1, <2>2, <2>3, <2>4
<1>. QED BY <1>3, <1>4, <1>6

\* A function on 1 .. m is a sequence.
LEMMA FunctionIsSeq ==
    ASSUME NEW S, NEW m \in Nat, NEW f \in [1 .. m -> S]
    PROVE  f \in Seq(S) /\ Len(f) = m
  OBVIOUS

Bounds == -2 .. Len(srcs)

LEMMA GivenType ==
    ASSUME call \in Calls, NEW j \in 1 .. Len(srcs)
    PROVE  Given(j) \in Bounds
BY CallFacts DEF Given, Old, Bounds

\* A left-to-right term is a term.
LEMMA LeftType ==
    ASSUME call \in Calls, NEW h \in 1 .. Len(srcs)
    PROVE  Left(h) \in Seq(Bounds) /\ Len(Left(h)) = 2 * h - 1
<1>1. ASSUME NEW z \in 1 .. 2 * h - 1
      PROVE  (IF z < h THEN Op ELSE Given(z - h + 1)) \in Bounds
  <2>1. CASE z < h
    BY CallFacts, <2>1 DEF Op, Bounds
  <2>2. CASE ~(z < h)
    <3>1. z - h + 1 \in 1 .. Len(srcs)
      BY CallFacts, <2>2
    <3>. QED BY <2>2, <3>1, GivenType
  <2>. QED BY <2>1, <2>2
<1>2. 2 * h - 1 \in Nat
  BY CallFacts
<1>3. /\ Left(h) = [z \in 1 .. 2 * h - 1 |-> IF z < h THEN Op ELSE Given(z - h + 1)]
      /\ Left(h) \in [1 .. 2 * h - 1 -> Bounds]
  BY <1>1, Zenon DEF Left
<1>4. PICK m \in Nat : m = 2 * h - 1
  BY <1>2, Zenon
<1>5. PICK f \in [1 .. m -> Bounds] : f = Left(h)
  BY <1>3, <1>4, Zenon
<1>6. f \in Seq(Bounds) /\ Len(f) = m
  BY FunctionIsSeq
<1>. QED BY <1>4, <1>5, <1>6, Zenon

\* One more source on the right.
LEMMA LeftNext ==
    ASSUME call \in Calls, NEW h \in 1 .. Len(srcs), h < Len(srcs)
    PROVE  Apply(Left(h), <<Given(h + 1)>>) = Left(h + 1)
<1>. DEFINE l == Left(h)
            r == Left(h + 1)
            y == <<Given(h + 1)>>
            p == Apply(l, y)
<1>1. Len(srcs) \in Nat /\ h \in Nat /\ h >= 1 /\ h + 1 \in 1 .. Len(srcs)
  BY CallFacts
<1>2. /\ l \in Seq(Bounds) /\ Len(l) = 2 * h - 1
      /\ r \in Seq(Bounds) /\ Len(r) = 2 * h + 1
  BY <1>1, LeftType
<1>3. y \in Seq(Bounds) /\ Len(y) = 1 /\ y[1] = Given(h + 1)
  BY <1>1, GivenType
<1>4. Op \in Bounds
  BY <1>1 DEF Op, Bounds
<1>5. /\ p \in Seq(Bounds) /\ Len(p) = 1 + Len(l) + Len(y)
      /\ \A z \in 1 .. 1 + Len(l) + Len(y) :
           p[z] = IF z = 1 THEN Op ELSE IF z <= 1 + Len(l) THEN l[z - 1] ELSE y[z - 1 - Len(l)]
  <2>. HIDE DEF l, y
  <2>. QED BY <1>2, <1>3, <1>4, ApplyElements
<1>6. \A z \in 1 .. 2 * h - 1 : l[z] = IF z < h THEN Op ELSE Given(z - h + 1)
  BY DEF Left
<1>7. \A z \in 1 .. 2 * h + 1 : r[z] = IF z < h + 1 THEN Op ELSE Given(z - h)
  <2>1. \A z \in 1 .. 2 * (h + 1) - 1 : r[z] = IF z < h + 1 THEN Op ELSE Given(z - (h + 1) + 1)
    BY DEF Left
  <2>2. \A z \in 1 .. 2 * h + 1 : z \in 1 .. 2 * (h + 1) - 1 /\ z - (h + 1) + 1 = z - h
    BY <1>1
  <2>. HIDE DEF r
  <2>. QED BY <2>1, <2>2
<1>. HIDE DEF l, r, y, p
<1>8. Len(p) = 2 * h + 1
  BY <1>1, <1>2, <1>3, <1>5
<1>9. ASSUME NEW z \in 1 .. 2 * h + 1
      PROVE  p[z] = r[z]
  <2>1. z \in Int /\ 1 <= z /\ z <= 2 * h + 1 /\ z \in 1 .. 1 + Len(l) + Len(y)
    BY <1>1, <1>2, <1>3
  <2>2. CASE z = 1
    BY <1>1, <1>5, <1>7, <2>1, <2>2
  <2>3. CASE z # 1 /\ z <= 2 * h
    <3>1. p[z] = l[z - 1]
      BY <1>1, <1>2, <1>5, <2>1, <2>3
    <3>2. z - 1 \in 1 .. 2 * h - 1 /\ (z - 1) - h + 1 = z - h /\ (z - 1 < h <=> z < h + 1)
      BY <1>1, <2>1, <2>3
    <3>3. l[z - 1] = IF z < h + 1 THEN Op ELSE Given(z - h)
      <4>1. l[z - 1] = IF z - 1 < h THEN Op ELSE Given((z - 1) - h + 1)
        BY <1>6, <3>2
      <4>. QED BY <3>2, <4>1
    <3>. QED BY <1>7, <3>1, <3>3
  <2>4. CASE z = 2 * h + 1
    <3>1. z - 1 - Len(l) = 1 /\ z # 1 /\ ~(z <= 1 + Len(l))
      <4>1. PICK m \in Nat : m = Len(l)
        BY <1>2
      <4>2. m = 2 * h - 1 /\ h \in Nat /\ h >= 1 /\ z = 2 * h + 1
        BY <1>1, <1>2, <2>4, <4>1
      <4>3. z - 1 - m = 1 /\ z # 1 /\ ~(z <= 1 + m)
        BY <4>2
      <4>. QED BY <4>1, <4>3, Zenon
    <3>2. p[z] = Given(h + 1)
      BY <1>3, <1>5, <2>1, <3>1
    <3>3. z - h = h + 1 /\ ~(z < h + 1)
      BY <1>1, <2>4
    <3>. QED BY <1>7, <3>2, <3>3
  <2>. QED BY <1>1, <2>1, <2>2, <2>3, <2>4
<1>10. p = r
  BY <1>2, <1>5, <1>8, <1>9, SeqEqual
<1>. QED BY <1>10 DEF p, l, r, y

-----------------------------------------------------------------------------
(* The kernels: each adds its sources to a left-to-right term.             *)

\* The first term is the first source itself.
LEMMA LeftOne == Left(1) = <<Given(1)>>
<1>1. \A z \in 1 .. 1 : Left(1)[z] = Given(1)
  BY DEF Left
<1>2. DOMAIN Left(1) = 1 .. 1
  BY DEF Left
<1>3. Left(1) = [z \in 1 .. 1 |-> IF z < 1 THEN Op ELSE Given(z - 1 + 1)]
  BY DEF Left
<1>. QED BY <1>3

\* A source that is not written yet adds itself.
LEMMA StepLeft ==
    ASSUME call \in Calls, NEW h \in 1 .. Len(srcs), h < Len(srcs),
           NEW x, x = Left(h), NEW e, Elem(h + 1, e) = <<Given(h + 1)>>
    PROVE  Apply(x, Elem(h + 1, e)) = Left(h + 1)
BY LeftNext

\* What Elem gives when the source is not one that dst has overwritten.
LEMMA ElemGiven ==
    ASSUME NEW e, NEW j, ~srcs[j].dst \/ dst[e] = <<Old>>
    PROVE  Elem(j, e) = <<Given(j)>>
BY DEF Elem, Given

\* The sources h + 1, ... added to the term of the first h.
LEMMA AddTwo ==
    ASSUME call \in Calls, NEW h \in 1 .. Len(srcs), h + 1 <= Len(srcs), NEW e,
           dst[e] = Left(h), \A j \in h + 1 .. h + 1 : ~srcs[j].dst
    PROVE  Two(e, h + 1) = Left(h + 1)
<1>1. h \in Nat /\ h < Len(srcs) /\ h + 1 \in h + 1 .. h + 1
  BY CallFacts
<1>2. Elem(h + 1, e) = <<Given(h + 1)>>
  BY <1>1, ElemGiven
<1>. QED BY <1>1, <1>2, StepLeft DEF Two

LEMMA AddThree ==
    ASSUME call \in Calls, NEW h \in 1 .. Len(srcs), h + 2 <= Len(srcs), NEW e,
           dst[e] = Left(h), \A j \in h + 1 .. h + 2 : ~srcs[j].dst
    PROVE  Three(e, h + 1) = Left(h + 2)
<1>1. /\ h \in Nat /\ h + 1 \in 1 .. Len(srcs) /\ h + 1 < Len(srcs)
      /\ h + 2 \in h + 1 .. h + 2 /\ (h + 1) + 1 = h + 2 /\ h + 1 <= Len(srcs)
      /\ \A j \in h + 1 .. h + 1 : j \in h + 1 .. h + 2
  BY CallFacts
<1>2. Elem(h + 2, e) = <<Given(h + 2)>>
  BY <1>1, ElemGiven
<1>3. Two(e, h + 1) = Left(h + 1)
  BY <1>1, AddTwo
<1>4. Apply(Two(e, h + 1), Elem(h + 2, e)) = Left(h + 2)
  BY <1>1, <1>2, <1>3, LeftNext
<1>. QED BY <1>1, <1>4 DEF Three

LEMMA AddFour ==
    ASSUME call \in Calls, NEW h \in 1 .. Len(srcs), h + 3 <= Len(srcs), NEW e,
           dst[e] = Left(h), \A j \in h + 1 .. h + 3 : ~srcs[j].dst
    PROVE  Four(e, h + 1) = Left(h + 3)
<1>1. /\ h \in Nat /\ h + 2 \in 1 .. Len(srcs) /\ h + 2 < Len(srcs)
      /\ h + 3 \in h + 1 .. h + 3 /\ (h + 1) + 2 = h + 3 /\ (h + 2) + 1 = h + 3
      /\ h + 2 <= Len(srcs)
      /\ \A j \in h + 1 .. h + 2 : j \in h + 1 .. h + 3
  BY CallFacts
<1>2. Elem(h + 3, e) = <<Given(h + 3)>>
  BY <1>1, ElemGiven
<1>3. Three(e, h + 1) = Left(h + 2)
  BY <1>1, AddThree
<1>4. Apply(Three(e, h + 1), Elem(h + 3, e)) = Left(h + 3)
  BY <1>1, <1>2, <1>3, LeftNext
<1>. QED BY <1>1, <1>4 DEF Four

\* The first group, which dst is still untouched for.
LEMMA FirstTerms ==
    ASSUME call \in Calls, NEW e, dst[e] = <<Old>>
    PROVE  /\ Elem(1, e) = Left(1)
           /\ Len(srcs) >= 2 => FirstTwo(e) = Left(2)
           /\ Len(srcs) >= 3 => FirstThree(e) = Left(3)
           /\ Len(srcs) >= 4 => FirstFour(e) = Left(4)
<1>1. Len(srcs) \in Nat /\ \A j : Elem(j, e) = <<Given(j)>>
  BY CallFacts, ElemGiven
<1>2. Elem(1, e) = Left(1)
  BY <1>1, LeftOne
<1>3. ASSUME Len(srcs) >= 2 PROVE FirstTwo(e) = Left(2)
  <2>1. 1 \in 1 .. Len(srcs) /\ 1 < Len(srcs) /\ 1 + 1 = 2
    BY <1>1, <1>3
  <2>. QED BY <1>1, <1>2, <2>1, LeftNext DEF FirstTwo
<1>4. ASSUME Len(srcs) >= 3 PROVE FirstThree(e) = Left(3)
  <2>1. 2 \in 1 .. Len(srcs) /\ 2 < Len(srcs) /\ 2 + 1 = 3 /\ Len(srcs) >= 2
    BY <1>1, <1>4
  <2>. QED BY <1>1, <1>3, <2>1, LeftNext DEF FirstThree
<1>5. ASSUME Len(srcs) >= 4 PROVE FirstFour(e) = Left(4)
  <2>1. 3 \in 1 .. Len(srcs) /\ 3 < Len(srcs) /\ 3 + 1 = 4 /\ Len(srcs) >= 3
    BY <1>1, <1>5
  <2>. QED BY <1>1, <1>4, <2>1, LeftNext DEF FirstFour
<1>. QED BY <1>2, <1>3, <1>4, <1>5

\* Every kernel writes terms.
LEMMA KernelTypes ==
    ASSUME call \in Calls, NEW e \in Indices, dst[e] \in Terms
    PROVE  /\ \A j \in 1 .. Len(srcs) : Elem(j, e) \in Terms
           /\ Len(srcs) >= 2 => FirstTwo(e) \in Terms
           /\ Len(srcs) >= 3 => FirstThree(e) \in Terms
           /\ Len(srcs) >= 4 => FirstFour(e) \in Terms
           /\ \A j \in 1 .. Len(srcs) :
                /\ Two(e, j) \in Terms
                /\ j + 1 <= Len(srcs) => Three(e, j) \in Terms
                /\ j + 2 <= Len(srcs) => Four(e, j) \in Terms
<1>1. Len(srcs) \in Nat /\ Op \in Bounds /\ Terms = Seq(Bounds)
  BY CallFacts DEF Op, Bounds, Terms
<1>2. \A x, y \in Terms : Apply(x, y) \in Terms
  BY <1>1, ApplyElements
<1>3. \A j \in 1 .. Len(srcs) : Elem(j, e) \in Terms
  <2>1. ASSUME NEW j \in 1 .. Len(srcs) PROVE <<j>> \in Seq(Bounds)
    <3>1. j \in Bounds
      BY <1>1 DEF Bounds
    <3>. QED BY <3>1
  <2>. QED BY <1>1, <2>1 DEF Elem
<1>4. /\ Len(srcs) >= 2 => 1 \in 1 .. Len(srcs) /\ 2 \in 1 .. Len(srcs)
      /\ Len(srcs) >= 3 => 3 \in 1 .. Len(srcs)
      /\ Len(srcs) >= 4 => 4 \in 1 .. Len(srcs)
  BY <1>1
<1>5. /\ Len(srcs) >= 2 => FirstTwo(e) \in Terms
      /\ Len(srcs) >= 3 => FirstThree(e) \in Terms
      /\ Len(srcs) >= 4 => FirstFour(e) \in Terms
  <2>1. Len(srcs) >= 2 => FirstTwo(e) \in Terms
    BY <1>2, <1>3, <1>4 DEF FirstTwo
  <2>2. Len(srcs) >= 3 => FirstThree(e) \in Terms
    BY <1>1, <1>2, <1>3, <1>4, <2>1 DEF FirstThree
  <2>3. Len(srcs) >= 4 => FirstFour(e) \in Terms
    BY <1>1, <1>2, <1>3, <1>4, <2>2 DEF FirstFour
  <2>. QED BY <2>1, <2>2, <2>3
<1>6. ASSUME NEW j \in 1 .. Len(srcs)
      PROVE  /\ Two(e, j) \in Terms
             /\ j + 1 <= Len(srcs) => Three(e, j) \in Terms
             /\ j + 2 <= Len(srcs) => Four(e, j) \in Terms
  <2>1. Two(e, j) \in Terms
    BY <1>2, <1>3 DEF Two
  <2>2. ASSUME j + 1 <= Len(srcs) PROVE Three(e, j) \in Terms
    <3>1. j + 1 \in 1 .. Len(srcs)
      BY <1>1, <2>2
    <3>. QED BY <1>2, <1>3, <2>1, <3>1 DEF Three
  <2>3. ASSUME j + 2 <= Len(srcs) PROVE Four(e, j) \in Terms
    <3>1. j + 2 \in 1 .. Len(srcs) /\ j + 1 <= Len(srcs)
      BY <1>1, <2>3
    <3>. QED BY <1>2, <1>3, <2>2, <3>1 DEF Four
  <2>. QED BY <2>1, <2>2, <2>3
<1>. QED BY <1>3, <1>5, <1>6

-----------------------------------------------------------------------------
(* Several sources: the inductive invariant.                               *)

PassesSoFar ==
    /\ group = "first" => used = 0 /\ passes = 0 /\ \A e \in Indices : dst[e] = <<Old>>
    /\ group = "rest" => Len(srcs) > 4 /\ passes >= 1 /\ used = 3 * passes + 1

FoldInv == FoldTypeOK /\ PassesSoFar /\ LeftToRight /\ FourBoundedByShortest /\ PassesAreThirds

LEMMA FoldStarts == FoldInit => FoldInv
<1>. SUFFICES ASSUME FoldInit PROVE FoldInv
  OBVIOUS
<1>1. call \in Calls /\ dst = [e \in Indices |-> <<Old>>] /\ used = 0 /\ passes = 0 /\ group = "first"
  BY DEF FoldInit, Indices
<1>2. Len(srcs) \in Nat /\ Old \in -2 .. Len(srcs)
  BY <1>1, CallFacts DEF Old
<1>3. \A e \in Indices : dst[e] = <<Old>> /\ <<Old>> \in Terms
  BY <1>1, <1>2 DEF Terms
<1>4. FoldTypeOK
  BY <1>1, <1>2, <1>3 DEF FoldTypeOK
<1>5. PassesSoFar
  BY <1>1, <1>3 DEF PassesSoFar
<1>6. LeftToRight
  BY <1>1 DEF LeftToRight
<1>7. FourBoundedByShortest
  BY <1>3 DEF FourBoundedByShortest, BoundedByShortest
<1>8. PassesAreThirds
  BY <1>1 DEF PassesAreThirds
<1>. QED BY <1>4, <1>5, <1>6, <1>7, <1>8 DEF FoldInv

\* A call of a kernel on the sources J, whose values are terms, keeps the type of
\* dst, and writes exactly the elements that all of J reach.
LEMMA WriteFacts ==
    ASSUME FoldTypeOK, NEW J, NEW V, \A e \in Indices : Reaches(J, e) => V[e] \in Terms,
           dst' = [e \in Indices |-> IF Reaches(J, e) THEN V[e] ELSE dst[e]]
    PROVE  /\ dst' \in [Indices -> Terms]
           /\ \A e \in Indices : dst'[e] = IF Reaches(J, e) THEN V[e] ELSE dst[e]
BY DEF FoldTypeOK

\* Nothing that the properties are stated with depends on anything but call.
LEMMA CallStays ==
    ASSUME call' = call
    PROVE  /\ srcs' = srcs /\ Indices' = Indices /\ Terms' = Terms
           /\ ReadsWhatItWrote' = ReadsWhatItWrote
           /\ \A h : Left(h)' = Left(h)
           /\ \A J, e : Reaches(J, e)' = Reaches(J, e)
BY DEF srcs, Indices, Terms, ReadsWhatItWrote, Left, Given, Reaches

\* A kernel that takes the term of the sources before it to the term of used'.
LEMMA GroupStep ==
    ASSUME FoldInv, call' = call, NEW J, J \subseteq 1 .. Len(srcs), NEW V,
           \A e \in Indices : Reaches(J, e) => V[e] \in Terms,
           dst' = [e \in Indices |-> IF Reaches(J, e) THEN V[e] ELSE dst[e]],
           used' \in 0 .. Len(srcs), passes' \in Nat, group' \in {"rest", "returned"},
           \A e \in Indices : ~ReadsWhatItWrote /\ Reaches(1 .. Len(srcs), e)
                             => V[e] = Left(used')
    PROVE  FoldTypeOK' /\ LeftToRight'
<1>1. FoldTypeOK
  BY DEF FoldInv
<1>2. /\ dst' \in [Indices -> Terms]
      /\ \A e \in Indices : dst'[e] = IF Reaches(J, e) THEN V[e] ELSE dst[e]
  BY <1>1, WriteFacts
<1>3. call' \in Calls
  BY <1>1 DEF FoldTypeOK
<1>4. FoldTypeOK'
  BY <1>2, <1>3, CallStays DEF FoldTypeOK, srcs
<1>5. ASSUME NEW e \in Indices, Reaches(1 .. Len(srcs), e) PROVE Reaches(J, e)
  BY <1>5 DEF Reaches
<1>6. LeftToRight'
  <2>1. SUFFICES ASSUME ~ReadsWhatItWrote, NEW e \in Indices, Reaches(1 .. Len(srcs), e)
                 PROVE  dst'[e] = Left(used')
    <3>1. ASSUME ReadsWhatItWrote' = ReadsWhatItWrote, Indices' = Indices,
                 \A e \in Indices : Reaches(1 .. Len(srcs), e)' = Reaches(1 .. Len(srcs), e)
          PROVE  LeftToRight' <=>
                   (~ReadsWhatItWrote =>
                      \A e \in Indices : used' > 0 /\ Reaches(1 .. Len(srcs), e)
                        => dst'[e] = Left(used)')
      BY <3>1 DEF LeftToRight
    <3>2. Left(used)' = Left(used')
      BY DEF Left, Given, srcs
    <3>3. \A e \in Indices : Reaches(1 .. Len(srcs), e)' = Reaches(1 .. Len(srcs), e)
      BY DEF Reaches, srcs
    <3>. QED BY <2>1, <3>1, <3>2, <3>3, CallStays
  <2>. QED BY <1>2, <1>5, <2>1
<1>. QED BY <1>4, <1>6

\* The same for the properties that are about the end of a call and about short calls.
LEMMA EndOfCall ==
    ASSUME FoldInv, call' = call, FoldTypeOK', LeftToRight',
           group' = "rest" => Len(srcs) > 4 /\ passes' >= 1 /\ used' = 3 * passes' + 1,
           group' = "returned" /\ Len(srcs) >= 2 => passes' = (Len(srcs) + 1) \div 3,
           group' # "first",
           \A e \in Indices : Len(srcs) \in 1 .. 4 /\ ~Reaches(1 .. Len(srcs), e)
                             => dst'[e] = <<Old>>
    PROVE  FoldInv'
<1>1. /\ srcs' = srcs /\ Indices' = Indices /\ Len(srcs) \in Nat
      /\ \A e \in Indices : Reaches(1 .. Len(srcs), e)' = Reaches(1 .. Len(srcs), e)
  BY CallFacts DEF FoldInv, FoldTypeOK, srcs, Indices, Reaches
<1>2. PassesSoFar'
  BY <1>1 DEF PassesSoFar
<1>3. PassesAreThirds'
  BY <1>1 DEF PassesAreThirds
<1>4. FourBoundedByShortest'
  <2>1. SUFFICES ASSUME Len(srcs) <= 4, NEW e \in Indices, Len(srcs) > 0,
                        ~Reaches(1 .. Len(srcs), e)
                 PROVE  dst'[e] = <<Old>>
    BY <1>1 DEF FourBoundedByShortest, BoundedByShortest
  <2>2. Len(srcs) \in 1 .. 4
    <3>1. PICK m \in Nat : m = Len(srcs)
      BY <1>1
    <3>2. m \in 1 .. 4
      BY <2>1, <3>1
    <3>. QED BY <3>1, <3>2
  <2>. QED BY <2>1, <2>2
<1>. QED BY <1>2, <1>3, <1>4 DEF FoldInv

LEMMA FirstGroupInv == FoldInv /\ FirstGroup => FoldInv'
<1>. SUFFICES ASSUME FoldInv, FirstGroup PROVE FoldInv'
  OBVIOUS
<1>0. /\ call' = call /\ call \in Calls /\ Len(srcs) \in Nat /\ group = "first"
      /\ passes = 0 /\ \A e \in Indices : dst[e] = <<Old>> /\ dst[e] \in Terms
  BY CallFacts DEF FoldInv, FoldTypeOK, PassesSoFar, FirstGroup
<1>1. ASSUME NEW h \in 2 .. 4, NEW J, NEW V, J = 1 .. h, h <= Len(srcs), h < 4 => h = Len(srcs),
             \A e \in Indices : V[e] = Left(h) /\ V[e] \in Terms,
             dst' = [e \in Indices |-> IF Reaches(J, e) THEN V[e] ELSE dst[e]],
             used' = h, passes' = passes + 1,
             group' = IF Len(srcs) <= 4 THEN "returned" ELSE "rest"
      PROVE  FoldInv'
  <2>1. J \subseteq 1 .. Len(srcs) /\ used' \in 0 .. Len(srcs) /\ passes' \in Nat
    BY <1>0, <1>1
  <2>2. FoldTypeOK' /\ LeftToRight'
    BY <1>0, <1>1, <2>1, GroupStep
  <2>3. ASSUME NEW e \in Indices, Len(srcs) \in 1 .. 4, ~Reaches(1 .. Len(srcs), e)
        PROVE  dst'[e] = <<Old>>
    <3>1. J = 1 .. Len(srcs)
      <4>1. h = Len(srcs)
        <5>1. PICK m \in Nat : m = Len(srcs)
          BY <1>0
        <5>2. h \in 2 .. 4 /\ h <= m /\ (h < 4 => h = m)
          BY <1>1, <5>1, Zenon
        <5>3. m \in 1 .. 4
          BY <2>3, <5>1, Zenon
        <5>4. h = m
          BY <5>2, <5>3
        <5>. QED BY <5>1, <5>4
      <4>. QED BY <1>1, <4>1, Zenon
    <3>. QED BY <1>0, <1>1, <2>3, <3>1
  <2>4. group' = "rest" => Len(srcs) > 4 /\ passes' >= 1 /\ used' = 3 * passes' + 1
    BY <1>0, <1>1
  <2>5. group' = "returned" /\ Len(srcs) >= 2 => passes' = (Len(srcs) + 1) \div 3
    BY <1>0, <1>1
  <2>. QED BY <1>0, <1>1, <2>2, <2>3, <2>4, <2>5, EndOfCall
<1>2. CASE Len(srcs) = 2
  <2>. DEFINE V == [e \in Indices |-> FirstTwo(e)]
  <2>1. dst' = [e \in Indices |-> IF Reaches(1 .. 2, e) THEN V[e] ELSE dst[e]]
    BY <1>2 DEF FirstGroup, Write
  <2>2. \A e \in Indices : V[e] = Left(2) /\ V[e] \in Terms
    BY <1>0, <1>2, FirstTerms, KernelTypes
  <2>3. used' = 2 /\ passes' = passes + 1 /\ group' = IF Len(srcs) <= 4 THEN "returned" ELSE "rest"
    BY <1>2 DEF FirstGroup, Write
  <2>. HIDE DEF V
  <2>. QED BY <1>1, <1>2, <2>1, <2>2, <2>3
<1>3. CASE Len(srcs) = 3
  <2>. DEFINE V == [e \in Indices |-> FirstThree(e)]
  <2>1. dst' = [e \in Indices |-> IF Reaches(1 .. 3, e) THEN V[e] ELSE dst[e]]
    BY <1>3 DEF FirstGroup, Write
  <2>2. \A e \in Indices : V[e] = Left(3) /\ V[e] \in Terms
    BY <1>0, <1>3, FirstTerms, KernelTypes
  <2>3. used' = 3 /\ passes' = passes + 1 /\ group' = IF Len(srcs) <= 4 THEN "returned" ELSE "rest"
    BY <1>3 DEF FirstGroup, Write
  <2>. HIDE DEF V
  <2>. QED BY <1>1, <1>3, <2>1, <2>2, <2>3
<1>4. CASE Len(srcs) >= 4
  <2>. DEFINE V == [e \in Indices |-> FirstFour(e)]
  <2>1. /\ Write(1 .. 4, FirstFour) /\ used' = 4
        /\ group' = IF Len(srcs) <= 4 THEN "returned" ELSE "rest"
    <3>1. Len(srcs) # 2 /\ Len(srcs) # 3
      <4>1. PICK m \in Nat : m = Len(srcs)
        BY <1>0
      <4>2. m # 2 /\ m # 3
        BY <1>4, <4>1
      <4>. QED BY <4>1, <4>2
    <3>. QED BY <3>1, Zenon DEF FirstGroup
  <2>2. dst' = [e \in Indices |-> IF Reaches(1 .. 4, e) THEN V[e] ELSE dst[e]] /\ passes' = passes + 1
    BY <2>1 DEF Write
  <2>3. \A e \in Indices : V[e] = Left(4) /\ V[e] \in Terms
    BY <1>0, <1>4, FirstTerms, KernelTypes
  <2>4. 4 \in 2 .. 4 /\ 4 <= Len(srcs) /\ ~(4 < 4)
    BY <1>0, <1>4
  <2>. HIDE DEF V
  <2>. QED BY <1>1, <2>1, <2>2, <2>3, <2>4
<1>. QED BY <1>2, <1>3, <1>4 DEF FirstGroup

\* A later group: its sources are none that dst has overwritten.
LEMMA LaterGroup ==
    ASSUME FoldInv, group = "rest", ~ReadsWhatItWrote, NEW e \in Indices, Reaches(1 .. Len(srcs), e)
    PROVE  /\ dst[e] = Left(used)
           /\ \A j \in used + 1 .. Len(srcs) : ~srcs[j].dst
<1>1. /\ used \in 0 .. Len(srcs) /\ call \in Calls /\ passes \in Nat /\ used = 3 * passes + 1 /\ passes >= 1
  BY DEF FoldInv, FoldTypeOK, PassesSoFar
<1>2. Len(srcs) \in Nat
  BY <1>1, CallFacts
<1>3. dst[e] = Left(used)
  BY <1>1 DEF FoldInv, LeftToRight
<1>4. \A j \in used + 1 .. Len(srcs) : j \in 5 .. Len(srcs)
  BY <1>1, <1>2
<1>5. \A j \in used + 1 .. Len(srcs) : ~srcs[j].dst
  BY <1>4 DEF ReadsWhatItWrote
<1>. QED BY <1>3, <1>5

LEMMA ThreeMoreInv == FoldInv /\ ThreeMore => FoldInv'
<1>. SUFFICES ASSUME FoldInv, ThreeMore PROVE FoldInv'
  OBVIOUS
<1>. DEFINE V == [e \in Indices |-> Four(e, used + 1)]
            J == used + 1 .. used + 3
<1>1. /\ call' = call /\ call \in Calls /\ Len(srcs) \in Nat /\ group = "rest" /\ group' = "rest"
      /\ passes \in Nat /\ passes >= 1 /\ used = 3 * passes + 1
      /\ Len(srcs) - used >= 3 /\ used' = used + 3 /\ passes' = passes + 1
      /\ \A e \in Indices : dst[e] \in Terms
  BY CallFacts DEF FoldInv, FoldTypeOK, PassesSoFar, ThreeMore, Rest, Write
<1>2. dst' = [e \in Indices |-> IF Reaches(J, e) THEN V[e] ELSE dst[e]]
  BY DEF ThreeMore, Write
<1>3. /\ used \in Nat /\ used >= 4 /\ used + 3 <= Len(srcs)
      /\ used \in 1 .. Len(srcs) /\ used + 1 \in 1 .. Len(srcs) /\ used + 1 + 2 <= Len(srcs)
      /\ J \subseteq 1 .. Len(srcs) /\ used' \in 0 .. Len(srcs) /\ passes' \in Nat
      /\ J \subseteq used + 1 .. Len(srcs)
  <2>1. PICK m \in Nat : m = Len(srcs)
    BY <1>1
  <2>. QED BY <1>1, <2>1
<1>4. \A e \in Indices : V[e] \in Terms
  BY <1>1, <1>3, KernelTypes
<1>5. ASSUME NEW e \in Indices, ~ReadsWhatItWrote, Reaches(1 .. Len(srcs), e)
      PROVE  V[e] = Left(used')
  <2>1. dst[e] = Left(used) /\ \A j \in J : ~srcs[j].dst
    BY <1>1, <1>3, <1>5, LaterGroup
  <2>2. Four(e, used + 1) = Left(used + 3)
    BY <1>1, <1>3, <2>1, AddFour
  <2>. QED BY <1>1, <2>2
<1>. HIDE DEF V, J
<1>6. FoldTypeOK' /\ LeftToRight'
  BY <1>1, <1>2, <1>3, <1>4, <1>5, GroupStep
<1>7. Len(srcs) > 4 /\ ~(Len(srcs) \in 1 .. 4)
  <2>1. PICK m \in Nat : m = Len(srcs)
    BY <1>1
  <2>. QED BY <1>1, <1>3, <2>1
<1>8. passes' >= 1 /\ used' = 3 * passes' + 1
  BY <1>1
<1>. QED BY <1>1, <1>6, <1>7, <1>8, EndOfCall

LEMMA LastGroupInv == FoldInv /\ LastGroup => FoldInv'
<1>. SUFFICES ASSUME FoldInv, LastGroup PROVE FoldInv'
  OBVIOUS
<1>1. /\ call' = call /\ call \in Calls /\ Len(srcs) \in Nat /\ group = "rest" /\ group' = "returned"
      /\ passes \in Nat /\ passes >= 1 /\ used = 3 * passes + 1 /\ used \in 0 .. Len(srcs)
      /\ Len(srcs) > 4 /\ Len(srcs) - used < 3 /\ used' = Len(srcs)
      /\ \A e \in Indices : dst[e] \in Terms
  BY CallFacts DEF FoldInv, FoldTypeOK, PassesSoFar, LastGroup, Rest
<1>2. ASSUME NEW J, NEW V, J \subseteq 1 .. Len(srcs),
             \A e \in Indices : V[e] \in Terms,
             \A e \in Indices : ~ReadsWhatItWrote /\ Reaches(1 .. Len(srcs), e) => V[e] = Left(Len(srcs)),
             dst' = [e \in Indices |-> IF Reaches(J, e) THEN V[e] ELSE dst[e]],
             passes' \in Nat, passes' = (Len(srcs) + 1) \div 3
      PROVE  FoldInv'
  <2>1. used' \in 0 .. Len(srcs) /\ ~(Len(srcs) \in 1 .. 4)
    <3>1. PICK m \in Nat : m = Len(srcs)
      BY <1>1
    <3>. QED BY <1>1, <3>1
  <2>2. FoldTypeOK' /\ LeftToRight'
    BY <1>1, <1>2, <2>1, GroupStep
  <2>. QED BY <1>1, <1>2, <2>1, <2>2, EndOfCall
<1>3. CASE Rest = 2
  <2>. DEFINE V == [e \in Indices |-> Three(e, used + 1)]
              J == used + 1 .. used + 2
  <2>1. Write(J, LAMBDA e : Three(e, used + 1))
    BY <1>3 DEF LastGroup
  <2>2. dst' = [e \in Indices |-> IF Reaches(J, e) THEN V[e] ELSE dst[e]] /\ passes' = passes + 1
    BY <2>1 DEF Write
  <2>3. /\ used \in 1 .. Len(srcs) /\ used + 1 \in 1 .. Len(srcs) /\ used + 1 + 1 <= Len(srcs)
        /\ used + 2 = Len(srcs) /\ used + 2 <= Len(srcs)
        /\ J \subseteq 1 .. Len(srcs) /\ J \subseteq used + 1 .. Len(srcs)
        /\ passes' \in Nat /\ passes' = (Len(srcs) + 1) \div 3
    <3>1. PICK m \in Nat : m = Len(srcs)
      BY <1>1
    <3>. QED BY <1>1, <1>3, <2>2, <3>1 DEF Rest
  <2>4. \A e \in Indices : V[e] \in Terms
    BY <1>1, <2>3, KernelTypes
  <2>5. ASSUME NEW e \in Indices, ~ReadsWhatItWrote, Reaches(1 .. Len(srcs), e)
        PROVE  V[e] = Left(Len(srcs))
    <3>1. dst[e] = Left(used) /\ \A j \in J : ~srcs[j].dst
      BY <1>1, <2>3, <2>5, LaterGroup
    <3>. QED BY <1>1, <2>3, <3>1, AddThree
  <2>. HIDE DEF V, J
  <2>. QED BY <1>2, <2>2, <2>3, <2>4, <2>5
<1>4. CASE Rest = 1
  <2>. DEFINE V == [e \in Indices |-> Two(e, used + 1)]
              J == {used + 1}
  <2>1. Write(J, LAMBDA e : Two(e, used + 1))
    BY <1>4 DEF LastGroup
  <2>2. dst' = [e \in Indices |-> IF Reaches(J, e) THEN V[e] ELSE dst[e]] /\ passes' = passes + 1
    BY <2>1 DEF Write
  <2>3. /\ used \in 1 .. Len(srcs) /\ used + 1 \in 1 .. Len(srcs)
        /\ used + 1 = Len(srcs) /\ used + 1 <= Len(srcs)
        /\ J \subseteq 1 .. Len(srcs) /\ \A j \in used + 1 .. used + 1 : j \in used + 1 .. Len(srcs)
        /\ passes' \in Nat /\ passes' = (Len(srcs) + 1) \div 3
    <3>1. PICK m \in Nat : m = Len(srcs)
      BY <1>1
    <3>. QED BY <1>1, <1>4, <2>2, <3>1 DEF Rest
  <2>4. \A e \in Indices : V[e] \in Terms
    BY <1>1, <2>3, KernelTypes
  <2>5. ASSUME NEW e \in Indices, ~ReadsWhatItWrote, Reaches(1 .. Len(srcs), e)
        PROVE  V[e] = Left(Len(srcs))
    <3>1. dst[e] = Left(used) /\ \A j \in used + 1 .. used + 1 : ~srcs[j].dst
      BY <1>1, <2>3, <2>5, LaterGroup
    <3>. QED BY <1>1, <2>3, <3>1, AddTwo
  <2>. HIDE DEF V, J
  <2>. QED BY <1>2, <2>2, <2>3, <2>4, <2>5
<1>5. CASE Rest = 0
  <2>1. /\ used = Len(srcs) /\ passes' = passes /\ dst' = dst
        /\ passes' = (Len(srcs) + 1) \div 3
    <3>1. PICK m \in Nat : m = Len(srcs)
      BY <1>1
    <3>. QED BY <1>1, <1>5, <3>1 DEF Rest, LastGroup
  <2>2. dst' = [e \in Indices |-> IF Reaches({}, e) THEN dst[e] ELSE dst[e]]
    BY <2>1 DEF FoldInv, FoldTypeOK
  <2>3. ASSUME NEW e \in Indices, ~ReadsWhatItWrote, Reaches(1 .. Len(srcs), e)
        PROVE  dst[e] = Left(Len(srcs))
    BY <1>1, <2>1, <2>3, LaterGroup
  <2>4. passes' \in Nat /\ {} \subseteq 1 .. Len(srcs)
    BY <1>1, <2>1
  <2>5. /\ \A e \in Indices : dst[e] \in Terms
        /\ \A e \in Indices : ~ReadsWhatItWrote /\ Reaches(1 .. Len(srcs), e) => dst[e] = Left(Len(srcs))
    BY <1>1, <2>3
  <2>. QED BY <1>2, <2>1, <2>2, <2>4, <2>5
<1>6. Rest = 0 \/ Rest = 1 \/ Rest = 2
  BY DEF LastGroup
<1>. QED BY <1>3, <1>4, <1>5, <1>6

LEMMA NoSourcesInv == FoldInv /\ NoSources => FoldInv'
<1>. SUFFICES ASSUME FoldInv, NoSources PROVE FoldInv'
  OBVIOUS
<1>1. /\ call' = call /\ call \in Calls /\ Len(srcs) = 0 /\ group' = "returned" /\ used' = used
      /\ passes' = passes /\ used = 0 /\ passes \in Nat
      /\ dst' = [e \in Indices |-> <<Identity>>]
  BY DEF FoldInv, FoldTypeOK, PassesSoFar, NoSources
<1>2. /\ srcs' = srcs /\ Indices' = Indices /\ Terms' = Terms /\ <<Identity>> \in Terms
  <2>1. Identity \in -2 .. Len(srcs)
    BY <1>1 DEF Identity
  <2>. QED BY <1>1, <2>1, CallStays DEF Terms
<1>3. FoldTypeOK'
  BY <1>1, <1>2 DEF FoldTypeOK
<1>4. LeftToRight'
  BY <1>1 DEF LeftToRight
<1>5. ~(Len(srcs) \in 1 .. 4) /\ ~(Len(srcs) >= 2)
  BY <1>1
<1>. QED BY <1>1, <1>3, <1>4, <1>5, EndOfCall

LEMMA CopyInv == FoldInv /\ Copy => FoldInv'
<1>. SUFFICES ASSUME FoldInv, Copy PROVE FoldInv'
  OBVIOUS
<1>. DEFINE V == [e \in Indices |-> Elem(1, e)]
<1>1. /\ call' = call /\ call \in Calls /\ Len(srcs) = 1 /\ group' = "returned" /\ used' = 1
      /\ passes' = passes /\ passes \in Nat
      /\ \A e \in Indices : dst[e] = <<Old>> /\ dst[e] \in Terms
  BY DEF FoldInv, FoldTypeOK, PassesSoFar, Copy
<1>2. dst' = [e \in Indices |-> IF Reaches({1}, e) THEN V[e] ELSE dst[e]]
  BY DEF Copy
<1>3. \A e \in Indices : V[e] \in Terms /\ V[e] = Left(1)
  BY <1>1, KernelTypes, FirstTerms
<1>. HIDE DEF V
<1>4. {1} \subseteq 1 .. Len(srcs) /\ used' \in 0 .. Len(srcs) /\ {1} = 1 .. Len(srcs)
  BY <1>1
<1>5. FoldTypeOK' /\ LeftToRight'
  BY <1>1, <1>2, <1>3, <1>4, GroupStep
<1>6. \A e \in Indices : ~Reaches(1 .. Len(srcs), e) => dst'[e] = <<Old>>
  BY <1>1, <1>2, <1>4
<1>7. ~(Len(srcs) >= 2)
  BY <1>1
<1>. QED BY <1>1, <1>5, <1>6, <1>7, EndOfCall

LEMMA FoldSteps == FoldInv /\ [FoldNext]_foldVars => FoldInv'
<1>1. FoldInv /\ UNCHANGED foldVars => FoldInv'
  BY DEF FoldInv, FoldTypeOK, PassesSoFar, LeftToRight, FourBoundedByShortest, BoundedByShortest,
         PassesAreThirds, foldVars, srcs, Indices, Terms, ReadsWhatItWrote, Left, Given, Reaches
<1>. QED BY <1>1, NoSourcesInv, CopyInv, FirstGroupInv, ThreeMoreInv, LastGroupInv DEF FoldNext

-----------------------------------------------------------------------------
(* Several sources: the theorems.                                          *)

\* Between two kernel calls dst holds the left-to-right term of the sources folded so
\* far, and their number says how many calls it took.
THEOREM FoldInvariance == FoldSpec => []FoldInv
BY FoldStarts, FoldSteps, PTL DEF FoldSpec

\* naryFold never takes a source it has not got, and dst holds terms.
THEOREM FoldTypeCorrect == FoldSpec => []FoldTypeOK
<1>1. FoldInv => FoldTypeOK
  BY DEF FoldInv
<1>. QED BY <1>1, FoldInvariance, PTL

\* nary.go:57-60: AddAll and MulAll are the binary calls from left to right, for every
\* number of sources; dst may be one of the first four.
THEOREM BinaryCalls == FoldSpec => []LeftToRight
<1>1. FoldInv => LeftToRight
  BY DEF FoldInv
<1>. QED BY <1>1, FoldInvariance, PTL

\* nary.go:62, of up to four sources.
THEOREM ShortestOfFour == FoldSpec => []FourBoundedByShortest
<1>1. FoldInv => FourBoundedByShortest
  BY DEF FoldInv
<1>. QED BY <1>1, FoldInvariance, PTL

\* Every call after the first takes three sources.
THEOREM PassCount == FoldSpec => []PassesAreThirds
<1>1. FoldInv => PassesAreThirds
  BY DEF FoldInv
<1>. QED BY <1>1, FoldInvariance, PTL
=============================================================================
