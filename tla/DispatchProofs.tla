---------------------------- MODULE DispatchProofs ----------------------------
(***************************************************************************)
(* For every architecture, feature set, build, pin and mask: the tier in   *)
(* use is one the CPU has, a pin is followed or gives way to the portable  *)
(* code, and without a pin nothing stronger was to be had.                 *)
(*                                                                         *)
(* For any number of goroutines, fields and tiers: the kernel groups are   *)
(* merged once, nobody sees it half done and everybody gets the same one.  *)
(* A process that initializes and then serves its goroutines does both.    *)
(***************************************************************************)
EXTENDS Dispatch, NaturalFacts, SequenceTheorems, TLAPS

\* A list of tiers, weakest first.
Ascending(s) == \A i, j \in DOMAIN s : i < j => Strength(s[i]) < Strength(s[j])

LEMMA Strengths ==
    /\ Tiers = {"scalar", "sse2", "avx2", "avx512", "neon", "sve2", "rvv", "vx", "vxe", "lsx", "lasx", "vsx"}
    /\ Strength("scalar") = 1 /\ Strength("sse2") = 2 /\ Strength("avx2") = 3 /\ Strength("avx512") = 4
    /\ Strength("neon") = 5 /\ Strength("sve2") = 6 /\ Strength("rvv") = 7 /\ Strength("vx") = 8
    /\ Strength("vxe") = 9 /\ Strength("lsx") = 10 /\ Strength("lasx") = 11 /\ Strength("vsx") = 12
<1>. DEFINE Numbering == {1, 2, 3, 4, 5, 6, 7, 8, 9, 10, 11, 12}
<1>1. DOMAIN TierOrder = Numbering
  BY DEF TierOrder
<1>2. /\ TierOrder[1] = "scalar" /\ TierOrder[2] = "sse2" /\ TierOrder[3] = "avx2" /\ TierOrder[4] = "avx512"
      /\ TierOrder[5] = "neon" /\ TierOrder[6] = "sve2" /\ TierOrder[7] = "rvv" /\ TierOrder[8] = "vx"
      /\ TierOrder[9] = "vxe" /\ TierOrder[10] = "lsx" /\ TierOrder[11] = "lasx" /\ TierOrder[12] = "vsx"
  BY DEF TierOrder
<1>3. Tiers = {TierOrder[i] : i \in Numbering}
  BY <1>1 DEF Tiers, Range
<1>4. Tiers = {"scalar", "sse2", "avx2", "avx512", "neon", "sve2", "rvv", "vx", "vxe", "lsx", "lasx", "vsx"}
  BY <1>2, <1>3
<1>5. ASSUME NEW i \in Numbering PROVE Strength(TierOrder[i]) = i
  <2>1. \A j \in Numbering : TierOrder[j] = TierOrder[i] => j = i
    BY <1>2
  <2>. QED BY <1>1, <2>1 DEF Strength
<1>6. /\ Strength(TierOrder[1]) = 1 /\ Strength(TierOrder[2]) = 2 /\ Strength(TierOrder[3]) = 3
      /\ Strength(TierOrder[4]) = 4 /\ Strength(TierOrder[5]) = 5 /\ Strength(TierOrder[6]) = 6
      /\ Strength(TierOrder[7]) = 7 /\ Strength(TierOrder[8]) = 8 /\ Strength(TierOrder[9]) = 9
      /\ Strength(TierOrder[10]) = 10 /\ Strength(TierOrder[11]) = 11 /\ Strength(TierOrder[12]) = 12
  BY <1>5
<1>. QED BY <1>2, <1>4, <1>6

LEMMA StrengthOrder ==
    /\ \A t \in Tiers : Strength(t) \in 1 .. 12
    /\ \A t, u \in Tiers : Strength(t) = Strength(u) => t = u
BY Strengths

\* What each architecture has: the tiers it always has begin with the portable one, and are
\* weaker than the others.
LEMMA ArchLists ==
    ASSUME NEW m \in Archs
    PROVE  /\ Baseline[m] \in Seq(Tiers) /\ Optional[m] \in Seq(Tiers)
           /\ Len(Baseline[m]) >= 1 /\ Baseline[m][1] = "scalar"
           /\ Ascending(Baseline[m]) /\ Ascending(Optional[m])
           /\ \A i \in DOMAIN Baseline[m], j \in DOMAIN Optional[m] :
                Strength(Baseline[m][i]) < Strength(Optional[m][j])
<1>1. m \in {"amd64", "arm64", "riscv64", "s390x", "loong64", "ppc64le", "ppc64", "other"}
  BY DEF Archs, Baseline
<1>. DEFINE S(x) == Strength(x)
<1>2. /\ S("scalar") = 1 /\ S("sse2") = 2 /\ S("avx2") = 3 /\ S("avx512") = 4 /\ S("neon") = 5 /\ S("sve2") = 6
      /\ S("rvv") = 7 /\ S("vx") = 8 /\ S("vxe") = 9 /\ S("lsx") = 10 /\ S("lasx") = 11 /\ S("vsx") = 12
  BY Strengths
<1>3. \A t \in {"scalar", "sse2", "avx2", "avx512", "neon", "sve2", "rvv", "vx", "vxe", "lsx", "lasx", "vsx"} : t \in Tiers
  BY Strengths
<1>. HIDE DEF S
<1>4. \/ Baseline[m] = <<"scalar">>
      \/ Baseline[m] = <<"scalar", "sse2">> /\ Optional[m] = <<"avx2", "avx512">>
      \/ Baseline[m] = <<"scalar", "neon">> /\ Optional[m] = <<"sve2">>
  BY <1>1 DEF Baseline, Optional
<1>5. \/ Optional[m] = <<"avx2", "avx512">>
      \/ Optional[m] = <<"sve2">> \/ Optional[m] = <<"rvv">> \/ Optional[m] = <<"vsx">> \/ Optional[m] = <<>>
      \/ Optional[m] = <<"vx", "vxe">> \/ Optional[m] = <<"lsx", "lasx">>
  BY <1>1 DEF Baseline, Optional
<1>6. Baseline[m] \in Seq(Tiers) /\ Len(Baseline[m]) >= 1 /\ Baseline[m][1] = "scalar"
  <2>1. /\ "scalar" \in Tiers /\ "sse2" \in Tiers /\ "neon" \in Tiers
    BY <1>3
  <2>2. <<"scalar">> \in Seq(Tiers) /\ <<"scalar", "sse2">> \in Seq(Tiers) /\ <<"scalar", "neon">> \in Seq(Tiers)
    BY <2>1
  <2>3. CASE Baseline[m] = <<"scalar">>
    BY <2>2, <2>3
  <2>4. CASE Baseline[m] = <<"scalar", "sse2">>
    BY <2>2, <2>4
  <2>5. CASE Baseline[m] = <<"scalar", "neon">>
    BY <2>2, <2>5
  <2>. QED BY <1>4, <2>3, <2>4, <2>5
<1>7. Optional[m] \in Seq(Tiers)
  <2>1. /\ "avx2" \in Tiers /\ "avx512" \in Tiers /\ "sve2" \in Tiers /\ "rvv" \in Tiers /\ "vsx" \in Tiers
        /\ "vx" \in Tiers /\ "vxe" \in Tiers /\ "lsx" \in Tiers /\ "lasx" \in Tiers
    BY <1>3
  <2>2. /\ <<"avx2", "avx512">> \in Seq(Tiers) /\ <<"sve2">> \in Seq(Tiers) /\ <<"rvv">> \in Seq(Tiers)
        /\ <<"vsx">> \in Seq(Tiers) /\ <<>> \in Seq(Tiers) /\ <<"vx", "vxe">> \in Seq(Tiers)
        /\ <<"lsx", "lasx">> \in Seq(Tiers)
    BY <2>1
  <2>. QED BY <1>5, <2>2, Zenon
<1>8. \A i, j \in DOMAIN Baseline[m] : i < j => S(Baseline[m][i]) < S(Baseline[m][j])
  BY <1>2, <1>4
<1>9. \A i, j \in DOMAIN Optional[m] : i < j => S(Optional[m][i]) < S(Optional[m][j])
  BY <1>2, <1>5
<1>10. \A i \in DOMAIN Baseline[m], j \in DOMAIN Optional[m] : S(Baseline[m][i]) < S(Optional[m][j])
  <2>1. CASE Baseline[m] = <<"scalar">>
    <3>1. \A j \in DOMAIN Optional[m] : S(Optional[m][j]) > 1
      BY <1>2, <1>5
    <3>. QED BY <2>1, <3>1, <1>2
  <2>2. CASE Baseline[m] = <<"scalar", "sse2">> /\ Optional[m] = <<"avx2", "avx512">>
    BY <2>2, <1>2
  <2>3. CASE Baseline[m] = <<"scalar", "neon">> /\ Optional[m] = <<"sve2">>
    BY <2>3, <1>2
  <2>. QED BY <1>4, <2>1, <2>2, <2>3
<1>. QED BY <1>6, <1>7, <1>8, <1>9, <1>10 DEF Ascending, S

\* What is kept of an ascending list is ascending, and has the members that are kept.
LEMMA KeptAscending ==
    ASSUME NEW s \in Seq(Tiers), NEW P, Ascending(s)
    PROVE  /\ Kept(s, P) \in Seq(Tiers) /\ Ascending(Kept(s, P))
           /\ \A t : Contains(Kept(s, P), t) <=> (Contains(s, t) /\ t \in P)
<1>. DEFINE keep == Keeping(s, P)
            r == Kept(s, P)
<1>1. /\ IsFiniteSet(keep) /\ keep \subseteq Int /\ Cardinality(keep) \in Nat
      /\ \A x \in 1 .. Cardinality(keep) : Nth(keep, x) \in keep
      /\ \A k \in keep : Place(keep, k) \in 1 .. Cardinality(keep) /\ Nth(keep, Place(keep, k)) = k
  <2>1. Len(s) \in Nat /\ DOMAIN s = 1 .. Len(s)
    OBVIOUS
  <2>. QED BY <2>1, KeptOf
<1>2. r = [x \in 1 .. Cardinality(keep) |-> s[Nth(keep, x)]]
  BY DEF Kept
<1>3. \A k \in keep : k \in DOMAIN s /\ s[k] \in P /\ s[k] \in Tiers
  BY DEF Keeping
<1>. HIDE DEF keep, r
<1>4. r \in Seq(Tiers) /\ Len(r) = Cardinality(keep)
  <2>1. \A x \in 1 .. Cardinality(keep) : s[Nth(keep, x)] \in Tiers
    BY <1>1, <1>3
  <2>2. r \in [1 .. Cardinality(keep) -> Tiers]
    BY <1>2, <2>1
  <2>. QED BY <1>1, <2>2
<1>5. Ascending(r)
  <2>. SUFFICES ASSUME NEW i \in 1 .. Cardinality(keep), NEW j \in 1 .. Cardinality(keep), i < j
                PROVE  Strength(r[i]) < Strength(r[j])
    BY <1>2 DEF Ascending
  <2>1. Nth(keep, i) < Nth(keep, j) /\ Nth(keep, i) \in keep /\ Nth(keep, j) \in keep
    BY <1>1, NthGrows
  <2>2. Nth(keep, i) \in DOMAIN s /\ Nth(keep, j) \in DOMAIN s
    BY <2>1, <1>3
  <2>3. Strength(s[Nth(keep, i)]) < Strength(s[Nth(keep, j)])
    BY <2>1, <2>2 DEF Ascending
  <2>. QED BY <2>3, <1>2
<1>6. ASSUME NEW t PROVE Contains(r, t) <=> (Contains(s, t) /\ t \in P)
  <2>1. ASSUME Contains(r, t) PROVE Contains(s, t) /\ t \in P
    <3>1. PICK x \in 1 .. Cardinality(keep) : r[x] = t
      BY <1>4, <2>1 DEF Contains
    <3>2. Nth(keep, x) \in keep /\ t = s[Nth(keep, x)]
      BY <1>1, <1>2, <3>1
    <3>. QED BY <3>2, <1>3 DEF Contains
  <2>2. ASSUME Contains(s, t), t \in P PROVE Contains(r, t)
    <3>1. PICK k \in 1 .. Len(s) : s[k] = t
      BY <2>2 DEF Contains
    <3>2. k \in keep
      BY <2>2, <3>1 DEF keep, Keeping
    <3>3. r[Place(keep, k)] = t /\ Place(keep, k) \in 1 .. Cardinality(keep)
      BY <1>1, <1>2, <3>1, <3>2
    <3>. QED BY <1>4, <3>3 DEF Contains
  <2>. QED BY <2>1, <2>2
<1>. QED BY <1>4, <1>5, <1>6 DEF r

\* A machine, a build and an environment.
MachineType ==
    /\ arch \in Archs
    /\ gosimd \in Tiers \union {"", "junk"}
    /\ purego \in BOOLEAN

\* The tiers the process found the CPU to have.
Found == Detected(arch, features)

\* The tiers that are available: the detected ones that are not masked, portable code always
\* among them, weakest first.
LEMMA AvailableTiers ==
    ASSUME MachineType
    PROVE  /\ Found \in Seq(Tiers) /\ Ascending(Found)
           /\ Available \in Seq(Tiers) /\ Ascending(Available)
           /\ Len(Available) >= 1 /\ Available[1] = "scalar"
           /\ \A t : Contains(Available, t) <=> Contains(Found, t) /\ (t = "scalar" \/ t \notin disable)
<1>. DEFINE b == Baseline[arch]
            o == Kept(Optional[arch], features)
<1>1. /\ b \in Seq(Tiers) /\ Optional[arch] \in Seq(Tiers) /\ Len(b) >= 1 /\ b[1] = "scalar"
      /\ Ascending(b) /\ Ascending(Optional[arch])
      /\ \A i \in DOMAIN b, j \in DOMAIN Optional[arch] : Strength(b[i]) < Strength(Optional[arch][j])
  BY ArchLists DEF MachineType
<1>2. o \in Seq(Tiers) /\ Ascending(o) /\ \A t : Contains(o, t) => Contains(Optional[arch], t)
  BY <1>1, KeptAscending
<1>. HIDE DEF b, o
<1>3. Found = b \o o
  BY DEF Found, Detected, b, o
<1>4. Found \in Seq(Tiers) /\ Len(Found) = Len(b) + Len(o) /\ Len(Found) \in Nat /\ Found[1] = "scalar" /\ Len(Found) >= 1
  BY <1>1, <1>2, <1>3
<1>5. Ascending(Found)
  <2>. SUFFICES ASSUME NEW i \in 1 .. Len(Found), NEW j \in 1 .. Len(Found), i < j
                PROVE  Strength(Found[i]) < Strength(Found[j])
    BY <1>4 DEF Ascending
  <2>1. CASE j <= Len(b)
    <3>1. i \in DOMAIN b /\ j \in DOMAIN b /\ Found[i] = b[i] /\ Found[j] = b[j]
      BY <1>1, <1>2, <1>3, <1>4, <2>1
    <3>. QED BY <3>1, <1>1 DEF Ascending
  <2>2. CASE Len(b) < i
    <3>1. /\ i - Len(b) \in DOMAIN o /\ j - Len(b) \in DOMAIN o /\ i - Len(b) < j - Len(b)
          /\ Found[i] = o[i - Len(b)] /\ Found[j] = o[j - Len(b)]
      BY <1>1, <1>2, <1>3, <1>4, <2>2
    <3>. QED BY <3>1, <1>2 DEF Ascending
  <2>3. CASE i <= Len(b) /\ Len(b) < j
    <3>1. i \in DOMAIN b /\ j - Len(b) \in DOMAIN o /\ Found[i] = b[i] /\ Found[j] = o[j - Len(b)]
      BY <1>1, <1>2, <1>3, <1>4, <2>3
    <3>2. Contains(o, Found[j])
      BY <3>1, <1>2 DEF Contains
    <3>3. PICK k \in 1 .. Len(Optional[arch]) : Optional[arch][k] = Found[j]
      BY <3>2, <1>2 DEF Contains
    <3>4. k \in DOMAIN Optional[arch]
      BY <1>1
    <3>. QED BY <3>1, <3>3, <3>4, <1>1
  <2>. QED BY <2>1, <2>2, <2>3, <1>1, <1>4
<1>. DEFINE P == (Tiers \ disable) \union {"scalar"}
<1>6. Available = Kept(Found, P)
  BY DEF Available, Found
<1>7. /\ Kept(Found, P) \in Seq(Tiers) /\ Ascending(Kept(Found, P))
      /\ \A t : Contains(Kept(Found, P), t) <=> (Contains(Found, t) /\ t \in P)
  BY <1>4, <1>5, KeptAscending
<1>8. \A t : Contains(Available, t) <=> Contains(Found, t) /\ (t = "scalar" \/ t \notin disable)
  <2>1. ASSUME NEW t, Contains(Found, t) PROVE t \in Tiers
    BY <2>1, <1>4 DEF Contains
  <2>. QED BY <2>1, <1>6, <1>7
<1>9. Available \in Seq(Tiers) /\ Ascending(Available)
  BY <1>6, <1>7
<1>10. Contains(Available, "scalar")
  BY <1>4, <1>8 DEF Contains
<1>11. Len(Available) >= 1 /\ Available[1] = "scalar"
  <2>1. PICK x \in 1 .. Len(Available) : Available[x] = "scalar"
    BY <1>10 DEF Contains
  <2>2. Len(Available) \in Nat /\ 1 \in DOMAIN Available /\ x \in DOMAIN Available /\ Available[1] \in Tiers
    BY <1>9, <2>1
  <2>3. 1 < x => Strength(Available[1]) < 1
    BY <2>1, <2>2, <1>9, Strengths DEF Ascending
  <2>4. x = 1
    BY <2>1, <2>2, <2>3, StrengthOrder
  <2>. QED BY <2>1, <2>2, <2>4
<1>. QED BY <1>4, <1>5, <1>8, <1>9, <1>11

\* The build's tables: the first is the portable one.
LEMMA TablesType ==
    /\ DispatchTiers \in Seq(Tiers) /\ Len(DispatchTiers) >= 1 /\ DispatchTiers[1] = "scalar"
    /\ purego => DispatchTiers = <<"scalar">>
<1>1. "scalar" \in Tiers /\ "sse2" \in Tiers /\ "avx2" \in Tiers /\ "avx512" \in Tiers /\ "neon" \in Tiers
      /\ "sve2" \in Tiers /\ "rvv" \in Tiers /\ "vx" \in Tiers /\ "lasx" \in Tiers /\ "vsx" \in Tiers
  BY Strengths
<1>2. /\ <<"scalar">> \in Seq(Tiers) /\ <<"scalar", "sse2", "avx2", "avx512">> \in Seq(Tiers)
      /\ <<"scalar", "neon", "sve2">> \in Seq(Tiers) /\ <<"scalar", "rvv">> \in Seq(Tiers)
      /\ <<"scalar", "vx">> \in Seq(Tiers) /\ <<"scalar", "lasx">> \in Seq(Tiers)
      /\ <<"scalar", "vsx">> \in Seq(Tiers)
  BY <1>1
<1>3. \/ DispatchTiers = <<"scalar">> \/ DispatchTiers = <<"scalar", "sse2", "avx2", "avx512">>
      \/ DispatchTiers = <<"scalar", "neon", "sve2">> \/ DispatchTiers = <<"scalar", "rvv">>
      \/ DispatchTiers = <<"scalar", "vx">> \/ DispatchTiers = <<"scalar", "lasx">>
      \/ DispatchTiers = <<"scalar", "vsx">>
  BY DEF DispatchTiers, GeneratedTiers
<1>4. DispatchTiers \in Seq(Tiers)
  BY <1>2, <1>3, Zenon
<1>5. Len(DispatchTiers) >= 1 /\ DispatchTiers[1] = "scalar"
  BY <1>3
<1>. QED BY <1>4, <1>5 DEF DispatchTiers

\* A tier's index is that of its table, and 0 when there is none.
LEMMA IndexOf ==
    ASSUME NEW t
    PROVE  /\ TierIndexOf(t) \in 0 .. Len(DispatchTiers) - 1
           /\ Contains(DispatchTiers, t) => DispatchTiers[TierIndexOf(t) + 1] = t
           /\ ~Contains(DispatchTiers, t) => TierIndexOf(t) = 0
<1>1. Len(DispatchTiers) \in Nat /\ Len(DispatchTiers) >= 1
  BY TablesType
<1>2. CASE Contains(DispatchTiers, t)
  <2>. DEFINE I == {i \in 1 .. Len(DispatchTiers) : DispatchTiers[i] = t}
  <2>1. I # {} /\ I \subseteq Nat
    BY <1>2 DEF Contains
  <2>2. I = {i \in DOMAIN DispatchTiers : DispatchTiers[i] = t}
    BY TablesType
  <2>3. I \subseteq 1 .. Len(DispatchTiers) /\ \A i \in I : DispatchTiers[i] = t
    OBVIOUS
  <2>. HIDE DEF I
  <2>4. PICK m \in I : \A y \in I : m <= y
    BY <2>1, LeastNatural
  <2>5. Min(I) \in I
    BY <2>4 DEF Min
  <2>6. TierIndexOf(t) = Min(I) - 1
    BY <1>2, <2>2, Zenon DEF TierIndexOf
  <2>7. Min(I) \in 1 .. Len(DispatchTiers) /\ DispatchTiers[Min(I)] = t
    BY <2>3, <2>5
  <2>8. TierIndexOf(t) \in 0 .. Len(DispatchTiers) - 1 /\ TierIndexOf(t) + 1 = Min(I)
    BY <1>1, <2>6, <2>7
  <2>. QED BY <1>2, <2>7, <2>8
<1>3. CASE ~Contains(DispatchTiers, t)
  BY <1>1, <1>3 DEF TierIndexOf
<1>. QED BY <1>2, <1>3

\* What internal/cpu selects.
LEMMA SelectionOf ==
    ASSUME MachineType
    PROVE  LET s == SelectTier IN
           /\ s \in [tier : Tiers, available : Seq(Tiers), forced : BOOLEAN, disabled : SUBSET Tiers,
                     reason : {"", "not available", "unknown tier"}]
           /\ s.available = Available
           /\ gosimd = "" => ~s.forced /\ s.tier = Available[Len(Available)]
           /\ gosimd # "" => s.forced /\ \/ s.tier = gosimd /\ Contains(Available, gosimd)
                                         \/ s.tier = "scalar" /\ s.reason # ""
<1>1. Available \in Seq(Tiers) /\ Len(Available) >= 1 /\ Found \in Seq(Tiers)
  BY AvailableTiers
<1>2. Available[Len(Available)] \in Tiers /\ "scalar" \in Tiers /\ Range(Found) \in SUBSET Tiers
  <2>1. "scalar" \in Tiers /\ Len(Available) \in DOMAIN Available
    BY <1>1, Strengths
  <2>2. Range(Found) \in SUBSET Tiers
    BY <1>1 DEF Range
  <2>. QED BY <1>1, <2>1, <2>2
<1>. DEFINE Sel == [tier : Tiers, available : Seq(Tiers), forced : BOOLEAN, disabled : SUBSET Tiers,
                    reason : {"", "not available", "unknown tier"}]
<1>3. ASSUME NEW t \in Tiers, NEW f \in BOOLEAN, NEW r \in {"", "not available", "unknown tier"}
      PROVE  /\ Outcome(t, f, r) \in Sel /\ Outcome(t, f, r).tier = t /\ Outcome(t, f, r).forced = f
             /\ Outcome(t, f, r).reason = r /\ Outcome(t, f, r).available = Available
  BY <1>1, <1>2 DEF Outcome, Found
<1>. HIDE DEF Sel
<1>4. CASE gosimd = ""
  <2>1. gosimd \notin Tiers /\ ~Contains(Available, gosimd)
    <3>1. gosimd \notin Tiers
      BY <1>4, Strengths
    <3>. QED BY <1>1, <3>1 DEF Contains
  <2>2. SelectTier = Outcome(Available[Len(Available)], FALSE, "")
    BY <1>4, <2>1, Zenon DEF SelectTier, Detection, Last
  <2>. QED BY <1>2, <1>3, <1>4, <2>2 DEF Sel
<1>5. CASE gosimd # ""
  <2>1. CASE Contains(Available, gosimd)
    <3>1. SelectTier = Outcome(gosimd, TRUE, "") /\ gosimd \in Tiers
      <4>1. gosimd \in Tiers
        BY <1>1, <2>1 DEF Contains
      <4>2. gosimd \notin Tiers \ Range(Available)
        BY <1>1, <2>1 DEF Contains, Range
      <4>. QED BY <1>5, <2>1, <4>1, <4>2 DEF SelectTier
    <3>. QED BY <1>3, <1>5, <2>1, <3>1 DEF Sel
  <2>2. CASE ~Contains(Available, gosimd)
    <3>1. SelectTier = Outcome("scalar", TRUE, "not available") \/ SelectTier = Outcome("scalar", TRUE, "unknown tier")
      BY <1>5, <2>2, Zenon DEF SelectTier
    <3>2. PICK r \in {"not available", "unknown tier"} : SelectTier = Outcome("scalar", TRUE, r)
      BY <3>1
    <3>3. /\ SelectTier \in Sel /\ SelectTier.tier = "scalar" /\ SelectTier.forced = TRUE
          /\ SelectTier.reason = r /\ SelectTier.available = Available
      <4>1. r \in {"", "not available", "unknown tier"} /\ TRUE \in BOOLEAN
        OBVIOUS
      <4>2. "scalar" \in Tiers
        BY <1>2
      <4>3. PICK o : o = Outcome("scalar", TRUE, r)
        OBVIOUS
      <4>4. /\ o \in Sel /\ o.tier = "scalar" /\ o.forced = TRUE
            /\ o.reason = r /\ o.available = Available
        BY ONLY <1>3, <4>1, <4>2, <4>3, ZenonT(120)
      <4>5. SelectTier = o
        BY ONLY <3>2, <4>3
      <4>. QED BY ONLY <4>4, <4>5
    <3>. QED BY <1>5, <3>3 DEF Sel
  <2>. QED BY <2>1, <2>2
<1>. QED BY <1>4, <1>5

\* What the tier in use has to be: portable or available, the pinned one or the portable one,
\* and without a pin as strong as any that the CPU, the mask and the build allow.
Fits(T) ==
    /\ T \in Tiers
    /\ T = "scalar" \/ Contains(Available, T)
    /\ gosimd # "" => T \in {gosimd, "scalar"}
    /\ gosimd = "" => \A t \in Range(DispatchTiers) :
         Contains(Found, t) /\ t \notin disable => Strength(t) <= Strength(T)

\* The tables in use are the portable ones, or those of a tier that is available: the pinned
\* one, or the strongest that has tables.
LEMMA InUse ==
    ASSUME MachineType, selection = SelectTier
    PROVE  TierIndexFor \in 0 .. Len(DispatchTiers) - 1 /\ Fits(DispatchTiers[TierIndexFor + 1])
<1>. DEFINE T == DispatchTiers[TierIndexFor + 1]
<1>1. /\ DispatchTiers \in Seq(Tiers) /\ Len(DispatchTiers) \in Nat /\ Len(DispatchTiers) >= 1
      /\ DispatchTiers[1] = "scalar"
  BY TablesType
<1>2. /\ selection.available = Available
      /\ gosimd = "" => ~selection.forced /\ selection.tier = Available[Len(Available)]
      /\ gosimd # "" => selection.forced /\ \/ selection.tier = gosimd /\ Contains(Available, gosimd)
                                            \/ selection.tier = "scalar"
      /\ selection.forced \in BOOLEAN
  BY SelectionOf
<1>3. /\ Available \in Seq(Tiers) /\ Ascending(Available) /\ Len(Available) \in Nat /\ Len(Available) >= 1
      /\ \A t : Contains(Available, t) <=> Contains(Found, t) /\ (t = "scalar" \/ t \notin disable)
  BY AvailableTiers
<1>4. Strength("scalar") = 1 /\ "scalar" \in Tiers /\ \A t \in Tiers : Strength(t) \in 1 .. 12
  BY Strengths, StrengthOrder
<1>5. \A t \in Range(DispatchTiers) : t \in Tiers /\ Contains(DispatchTiers, t)
  BY <1>1 DEF Range, Contains
<1>6. TierIndexFor = 0 => T = "scalar"
  BY <1>1
<1>7. CASE purego
  <2>1. TierIndexFor = 0 /\ DispatchTiers = <<"scalar">>
    BY <1>7, TablesType, Zenon DEF TierIndexFor
  <2>2. \A t \in Range(DispatchTiers) : t = "scalar"
    BY <2>1 DEF Range
  <2>3. T = "scalar" /\ 0 \in 0 .. Len(DispatchTiers) - 1
    BY <1>1, <1>6, <2>1
  <2>. QED BY <1>1, <1>4, <2>1, <2>2, <2>3 DEF Fits
<1>8. CASE ~purego /\ selection.forced
  <2>1. TierIndexFor = TierIndexOf(selection.tier) /\ gosimd # ""
    BY <1>2, <1>8, Zenon DEF TierIndexFor
  <2>2. TierIndexFor \in 0 .. Len(DispatchTiers) - 1 /\ T \in {selection.tier, "scalar"}
    <3>1. CASE Contains(DispatchTiers, selection.tier)
      BY <2>1, <3>1, IndexOf
    <3>2. CASE ~Contains(DispatchTiers, selection.tier)
      <4>1. TierIndexFor = 0
        BY <2>1, <3>2, IndexOf
      <4>. QED BY <1>1, <1>6, <4>1
    <3>. QED BY <3>1, <3>2
  <2>3. T \in Tiers
    BY <1>1, <2>2
  <2>. QED BY <1>2, <2>1, <2>2, <2>3 DEF Fits
<1>9. CASE ~purego /\ ~selection.forced
  <2>1. TierIndexFor = (IF Usable = {} THEN 0 ELSE TierIndexOf(Strongest(Usable))) /\ gosimd = ""
    BY <1>2, <1>9, Zenon DEF TierIndexFor
  <2>2. \A t \in Usable : t \in Tiers /\ Contains(Available, t) /\ Contains(DispatchTiers, t)
    <3>. TAKE t \in Usable
    <3>1. t \in Range(Available) /\ TierIndexOf(t) > 0
      BY <1>2 DEF Usable
    <3>. QED BY <3>1, <1>3, IndexOf DEF Range, Contains
  <2>3. ASSUME NEW t \in Range(DispatchTiers), Contains(Found, t), t \notin disable
        PROVE  t = "scalar" \/ t \in Usable
    <3>1. Contains(Available, t) /\ t \in Tiers /\ Contains(DispatchTiers, t)
      BY <1>3, <1>5, <2>3
    <3>2. PICK x \in 1 .. Len(Available) : Available[x] = t
      BY <3>1 DEF Contains
    <3>3. Strength(t) <= Strength(Available[Len(Available)])
      <4>1. CASE x = Len(Available)
        BY <1>4, <3>1, <3>2, <4>1
      <4>2. CASE x < Len(Available)
        <5>1. x \in DOMAIN Available /\ Len(Available) \in DOMAIN Available
          BY <1>3
        <5>2. Strength(Available[x]) < Strength(Available[Len(Available)])
          BY <5>1, <4>2, <1>3 DEF Ascending
        <5>3. Available[Len(Available)] \in Tiers
          BY <1>3, <5>1
        <5>. QED BY <3>1, <3>2, <5>2, <5>3, <1>4
      <4>. QED BY <1>3, <4>1, <4>2
    <3>4. t \in Range(Available)
      BY <3>2, <1>3 DEF Range
    <3>5. t # "scalar" => TierIndexOf(t) > 0
      <4>1. TierIndexOf(t) \in 0 .. Len(DispatchTiers) - 1 /\ DispatchTiers[TierIndexOf(t) + 1] = t
        BY <3>1, IndexOf
      <4>. QED BY <1>1, <4>1
    <3>. QED BY <1>2, <2>1, <3>3, <3>4, <3>5 DEF Usable
  <2>4. CASE Usable = {}
    <3>1. TierIndexFor = 0 /\ T = "scalar" /\ 0 \in 0 .. Len(DispatchTiers) - 1
      <4>1. TierIndexFor = 0
        BY <2>1, <2>4
      <4>. QED BY <1>1, <1>6, <4>1
    <3>2. \A t \in Range(DispatchTiers) : Contains(Found, t) /\ t \notin disable => Strength(t) <= Strength(T)
      BY <1>4, <2>3, <2>4, <3>1
    <3>. QED BY <1>4, <2>1, <3>1, <3>2 DEF Fits
  <2>5. CASE Usable # {}
    <3>. DEFINE S == {Strength(u) : u \in Usable}
    <3>1. S # {} /\ S \subseteq Int /\ \A y \in S : y <= 12
      BY <1>4, <2>2, <2>5
    <3>. HIDE DEF S
    <3>2. PICK m \in S : \A y \in S : y <= m
      BY <3>1, GreatestInteger
    <3>3. PICK u \in Usable : m = Strength(u)
      BY DEF S
    <3>4. \A w \in Usable : Strength(w) <= Strength(u)
      BY <3>2, <3>3 DEF S
    <3>5. Strongest(Usable) \in Usable /\ \A w \in Usable : Strength(w) <= Strength(Strongest(Usable))
      BY <3>4 DEF Strongest
    <3>6. TierIndexFor \in 0 .. Len(DispatchTiers) - 1 /\ T = Strongest(Usable)
      BY <2>1, <2>2, <2>5, <3>5, IndexOf
    <3>7. \A t \in Range(DispatchTiers) : Contains(Found, t) /\ t \notin disable => Strength(t) <= Strength(T)
      BY <1>4, <2>2, <2>3, <3>5, <3>6
    <3>. QED BY <2>1, <2>2, <3>5, <3>6, <3>7 DEF Fits
  <2>. QED BY <2>4, <2>5
<1>. QED BY <1>2, <1>7, <1>8, <1>9

-----------------------------------------------------------------------------
\* Each initializer leaves what its code computes from the machine, the build and the
\* environment.
IndInv ==
    /\ MachineType
    /\ pc \in {"cpu", "simd", "running"}
    /\ IF pc = "cpu" THEN selection = [tier |-> "scalar", available |-> <<>>, forced |-> FALSE,
                                       reason |-> "", disabled |-> {}]
                     ELSE selection = SelectTier
    /\ IF pc = "running" THEN tierIdx = TierIndexFor /\ backendTier = DispatchTiers[TierIndexFor + 1]
                         ELSE tierIdx = 0 /\ backendTier = ""

LEMMA Inductive == Spec => []IndInv
<1>1. Init => IndInv
  BY DEF Init, IndInv, MachineType
<1>2. IndInv /\ [Next]_vars => IndInv'
  <2>. SUFFICES ASSUME IndInv, [Next]_vars PROVE IndInv'
    OBVIOUS
  <2>1. ASSUME UNCHANGED machine
        PROVE  MachineType' /\ DispatchTiers' = DispatchTiers /\ SelectTier' = SelectTier
    <3>1. /\ arch' = arch /\ features' = features /\ purego' = purego /\ gosimd' = gosimd /\ disable' = disable
      BY <2>1 DEF machine
    <3>2. Available' = Available
      BY <3>1 DEF Available
    <3>3. ASSUME NEW t, NEW f, NEW r PROVE Outcome(t, f, r)' = Outcome(t, f, r)
      BY <3>1, <3>2 DEF Outcome
    <3>4. Detection' = Detection
      BY <3>1, <3>2 DEF Detection, Outcome
    <3>5. SelectTier' = SelectTier
      BY <3>1, <3>2, <3>4, Zenon DEF SelectTier, Outcome
    <3>6. DispatchTiers' = DispatchTiers
      BY <3>1 DEF DispatchTiers
    <3>. QED BY <3>1, <3>5, <3>6 DEF MachineType, IndInv
  <2>2. ASSUME UNCHANGED <<machine, selection>>
        PROVE  TierIndexFor' = TierIndexFor
    <3>1. /\ arch' = arch /\ purego' = purego /\ selection' = selection /\ DispatchTiers' = DispatchTiers
      BY <2>1, <2>2 DEF machine
    <3>2. ASSUME NEW t PROVE TierIndexOf(t)' = TierIndexOf(t)
      BY <3>1 DEF TierIndexOf
    <3>3. Usable' = Usable
      BY <3>1 DEF Usable, TierIndexOf
    <3>. QED BY <3>1, <3>3, Zenon DEF TierIndexFor, TierIndexOf
  <2>3. CASE InitCpu
    BY <2>1, <2>3 DEF InitCpu, IndInv
  <2>4. CASE InitSimd
    <3>1. UNCHANGED machine /\ UNCHANGED <<machine, selection>>
      BY <2>4 DEF InitSimd, machine
    <3>. QED BY <2>1, <2>2, <2>4, <3>1 DEF InitSimd, IndInv
  <2>5. CASE UNCHANGED vars
    <3>1. /\ UNCHANGED machine /\ UNCHANGED <<machine, selection>>
          /\ pc' = pc /\ selection' = selection /\ tierIdx' = tierIdx /\ backendTier' = backendTier
      BY <2>5 DEF vars, machine
    <3>. QED BY <2>1, <2>2, <3>1 DEF IndInv
  <2>. QED BY <2>3, <2>4, <2>5 DEF Next, Running
<1>. QED BY <1>1, <1>2, PTL DEF Spec

\* internal/cpu/cpu.go:136-138: whatever the environment says, the tier in use is one the CPU
\* was found to have, and not one that SIMD_DISABLE names, the portable code apart.
THEOREM SupportedTier == Spec => []NeverUnsupported
<1>1. IndInv => NeverUnsupported
  <2>. SUFFICES ASSUME IndInv, Chosen PROVE Contains(Found, Tier) /\ (Tier \in disable => Tier = "scalar")
    BY DEF NeverUnsupported, Found
  <2>1. Fits(Tier)
    BY InUse DEF IndInv, Chosen, Tier
  <2>2. /\ \A t : Contains(Available, t) <=> Contains(Found, t) /\ (t = "scalar" \/ t \notin disable)
        /\ Len(Available) >= 1 /\ Available[1] = "scalar" /\ Available \in Seq(Tiers)
    BY AvailableTiers DEF IndInv
  <2>3. Contains(Available, "scalar")
    BY <2>2 DEF Contains
  <2>. QED BY <2>1, <2>2, <2>3 DEF Fits
<1>. QED BY <1>1, Inductive, PTL

\* dispatch.go:41-46: a pinned tier is used exactly or the reference is; without a pin no tier
\* that the CPU, the mask and the build allow is stronger than the one in use.
THEOREM PinOrStrongest == Spec => []PinnedOrStrongest
<1>1. IndInv => PinnedOrStrongest
  <2>. SUFFICES ASSUME IndInv, Chosen
                PROVE  IF gosimd # "" THEN Tier \in {gosimd, "scalar"}
                       ELSE \A t \in Range(DispatchTiers) :
                              Contains(Found, t) /\ t \notin disable => Strength(t) <= Strength(Tier)
    BY DEF PinnedOrStrongest, Found
  <2>1. Fits(Tier)
    BY InUse DEF IndInv, Chosen, Tier
  <2>. QED BY <2>1 DEF Fits
<1>. QED BY <1>1, Inductive, PTL

\* What internal/cpu leaves for Describe and AvailableTiers is well formed, lists the tiers
\* weakest first from the portable one, and says why a pin was not followed (cpu.go:119-170).
THEOREM SelectionExplained == Spec => []SelectionInv
<1>1. IndInv => SelectionInv
  <2>. SUFFICES ASSUME IndInv PROVE TypeOK /\ Explained /\ AvailableOrdered
    BY DEF SelectionInv
  <2>1. MachineType
    BY DEF IndInv
  <2>2. /\ DispatchTiers \in Seq(Tiers) /\ Len(DispatchTiers) \in Nat /\ Len(DispatchTiers) >= 1
    BY TablesType
  <2>3. "scalar" \in Tiers /\ \A t \in Tiers : t # ""
    BY Strengths
  <2>4. TypeOK
    <3>1. selection \in [tier : Tiers, available : Seq(Tiers), forced : BOOLEAN, disabled : SUBSET Tiers,
                         reason : {"", "not available", "unknown tier"}]
      <4>1. CASE pc = "cpu"
        <5>1. selection = [tier |-> "scalar", available |-> <<>>, forced |-> FALSE, reason |-> "", disabled |-> {}]
          BY <4>1, Zenon DEF IndInv
        <5>2. <<>> \in Seq(Tiers) /\ {} \in SUBSET Tiers /\ FALSE \in BOOLEAN
          OBVIOUS
        <5>. QED BY <5>1, <5>2, <2>3
      <4>2. CASE pc # "cpu"
        <5>1. selection = SelectTier
          BY <4>2 DEF IndInv
        <5>. QED BY <2>1, <5>1, SelectionOf
      <4>. QED BY <4>1, <4>2
    <3>2. tierIdx \in 0 .. Len(DispatchTiers) - 1 /\ backendTier \in Tiers \union {""}
      <4>1. CASE pc = "running"
        <5>1. selection = SelectTier /\ tierIdx = TierIndexFor /\ backendTier = DispatchTiers[TierIndexFor + 1]
          BY <4>1 DEF IndInv
        <5>. QED BY <2>1, <5>1, InUse DEF Fits
      <4>2. CASE pc # "running"
        <5>1. tierIdx = 0 /\ backendTier = ""
          BY <4>2 DEF IndInv
        <5>2. 0 \in 0 .. Len(DispatchTiers) - 1
          BY <2>2
        <5>. QED BY <5>1, <5>2
      <4>. QED BY <4>1, <4>2
    <3>. QED BY <3>1, <3>2 DEF TypeOK, IndInv
  <2>5. Explained
    <3>. SUFFICES ASSUME Chosen, gosimd # "", Tier # gosimd
                  PROVE  selection.reason # "" \/ (backendTier # "" /\ backendTier # selection.tier)
      BY DEF Explained
    <3>1. /\ selection = SelectTier /\ tierIdx = TierIndexFor /\ backendTier = Tier
      BY DEF IndInv, Chosen, Tier
    <3>2. Fits(Tier)
      BY <2>1, <3>1, InUse DEF Tier
    <3>3. \/ selection.tier = gosimd \/ selection.reason # ""
      BY <2>1, <3>1, SelectionOf
    <3>. QED BY <2>3, <3>1, <3>2, <3>3 DEF Fits
  <2>6. AvailableOrdered
    <3>. SUFFICES ASSUME Selected
                  PROVE  /\ Len(selection.available) > 0 /\ selection.available[1] = "scalar"
                         /\ \A i \in 2 .. Len(selection.available) :
                              Strength(selection.available[i - 1]) < Strength(selection.available[i])
      BY DEF AvailableOrdered
    <3>1. selection = SelectTier
      BY DEF IndInv, Selected
    <3>2. selection.available = Available
      BY <2>1, <3>1, SelectionOf
    <3>3. Available \in Seq(Tiers) /\ Ascending(Available) /\ Len(Available) >= 1 /\ Available[1] = "scalar"
      BY <2>1, AvailableTiers
    <3>4. Len(Available) \in Nat /\ DOMAIN Available = 1 .. Len(Available)
      BY <3>3
    <3>5. ASSUME NEW i \in 2 .. Len(Available) PROVE Strength(Available[i - 1]) < Strength(Available[i])
      <4>1. i - 1 \in DOMAIN Available /\ i \in DOMAIN Available /\ i - 1 < i
        BY <3>4
      <4>. QED BY <3>3, <4>1 DEF Ascending
    <3>. QED BY <3>3, <3>4, <3>5, <3>2
  <2>. QED BY <2>4, <2>5, <2>6
<1>. QED BY <1>1, Inductive, PTL

-----------------------------------------------------------------------------
(* The merged groups.                                                      *)

USE GroupAssumption, NobodyAssumption

\* A merged group has its type.
LEMMA OverlayType ==
    ASSUME NEW i \in Slots
    PROVE  Overlay(i) \in [Fields -> Kernels \union {"nil"}]
<1>1. CASE i \in DOMAIN Partial
    BY <1>1 DEF Overlay
<1>2. CASE i \notin DOMAIN Partial
    BY <1>2 DEF Overlay
<1> QED  BY <1>1, <1>2

\* A stored pointer is not the nil pointer.
LEMMA StoredNotEmpty ==
    ASSUME NEW g \in Goroutines, NEW i \in Slots
    PROVE  /\ [by |-> g, group |-> Overlay(i)] \in Pointers
           /\ [by |-> g, group |-> Overlay(i)] # Empty
           /\ [by |-> g, group |-> Overlay(i)].group = Overlay(i)
BY OverlayType DEF Pointers, Empty

LEMMA CacheStarts == CacheInit => CacheInv
<1> SUFFICES ASSUME CacheInit PROVE CacheInv
    OBVIOUS
<1> USE DEF CacheInit
<1>1. CacheTypeOK
  <2>1. Empty \in Pointers  BY DEF Pointers
  <2>2. 0 \in 0 .. NTiers  OBVIOUS
  <2> QED  BY <2>1, <2>2 DEF CacheTypeOK, PCs
<1>2. Holder /\ BuildsFirst /\ SeesDone
    BY DEF Holder, BuildsFirst, SeesDone
<1>3. Merged /\ AllStored /\ StoredSoFar /\ NoneStored /\ GotTheSlot
    BY DEF Merged, AllStored, StoredSoFar, NoneStored, GotTheSlot
<1> QED  BY <1>1, <1>2, <1>3 DEF CacheInv

\* No step of the callers outside the loop stores a slot or hands one out, so what
\* the slots hold stays as it is as long as nobody comes into the loop or leaves it.
LEMMA QuietSteps ==
    ASSUME CacheInv, NEW g \in Goroutines,
           Call(g) \/ FastPath(g) \/ Lock(g) \/ Unlock(g)
    PROVE  CacheInv'
<1> USE DEF CacheInv, Goto
<1>1. CacheTypeOK'
    BY DEF CacheTypeOK, PCs, Call, FastPath, Lock, Unlock
<1>2. Holder'
    BY DEF CacheTypeOK, PCs, Holder, Call, FastPath, Lock, Unlock
<1>3. BuildsFirst' /\ SeesDone'
    BY DEF CacheTypeOK, PCs, BuildsFirst, SeesDone, Call, FastPath, Lock, Unlock
<1>4. UNCHANGED <<tiers, done, slot, got>>
    BY DEF Call, FastPath, Lock, Unlock
<1>5. \A h \in Goroutines : at'[h] = "build" <=> at[h] = "build"
    BY DEF CacheTypeOK, Call, FastPath, Lock, Unlock
<1>6. Merged' /\ AllStored' /\ StoredSoFar' /\ NoneStored' /\ GotTheSlot'
    BY <1>4, <1>5 DEF Merged, AllStored, StoredSoFar, NoneStored, GotTheSlot
<1> QED  BY <1>1, <1>2, <1>3, <1>6

LEMMA RecheckStep ==
    ASSUME CacheInv, NEW g \in Goroutines, Recheck(g)
    PROVE  CacheInv'
<1> USE DEF CacheInv, Goto, Recheck
<1>1. CacheTypeOK'
    BY DEF CacheTypeOK, PCs
<1>2. Holder'
    BY DEF CacheTypeOK, Holder
<1>3. BuildsFirst' /\ SeesDone'
    BY DEF CacheTypeOK, BuildsFirst, SeesDone
<1>4. Merged' /\ AllStored' /\ GotTheSlot'
    BY DEF Merged, AllStored, GotTheSlot
<1>5. \A h \in Goroutines : h # g => at[h] # "build"
    BY DEF Holder
<1>6. StoredSoFar'
  <2> SUFFICES ASSUME NEW h \in Goroutines, at'[h] = "build", NEW i \in Slots
               PROVE  tiers[i] # Empty <=> i < slot'[h]
      BY DEF StoredSoFar
  <2>1. h = g /\ ~done
      BY <1>5 DEF CacheTypeOK
  <2>2. slot'[h] = 0
      BY <2>1 DEF CacheTypeOK
  <2>3. \A f \in Goroutines : at[f] # "build"
      BY <1>5
  <2>4. tiers[i] = Empty
      BY <2>1, <2>3 DEF NoneStored
  <2> QED  BY <2>2, <2>4 DEF Slots
<1>7. NoneStored'
    BY <1>5 DEF CacheTypeOK, NoneStored
<1> QED  BY <1>1, <1>2, <1>3, <1>4, <1>6, <1>7

LEMMA BuildStep ==
    ASSUME CacheInv, NEW g \in Goroutines, BuildSlot(g)
    PROVE  /\ CacheInv'
           /\ \A i \in Slots : tiers[i] # Empty => tiers'[i] = tiers[i]
<1> USE DEF CacheInv, Goto, BuildSlot
<1>1. slot[g] \in Slots /\ slot[g] \in Nat /\ slot'[g] = slot[g] + 1
    BY DEF CacheTypeOK, Slots
<1> DEFINE new == [by |-> g, group |-> Overlay(slot[g])]
<1>2. new \in Pointers /\ new # Empty /\ new.group = Overlay(slot[g])
    BY <1>1, StoredNotEmpty
<1> HIDE DEF new
<1>3. \A i \in Slots : tiers'[i] = IF i = slot[g] THEN new ELSE tiers[i]
    BY <1>1 DEF CacheTypeOK, new
<1>4. /\ at' = at /\ \A h \in Goroutines : h # g => slot'[h] = slot[h]
      /\ UNCHANGED <<done, mutex, got>>
    BY DEF CacheTypeOK
<1>5. at[g] = "build" /\ ~done /\ \A h \in Goroutines : h # g => at[h] # "build"
    BY DEF BuildsFirst, Holder
<1>6. CacheTypeOK'
    BY <1>1, <1>2 DEF CacheTypeOK, new
<1>7. Holder' /\ BuildsFirst' /\ SeesDone'
    BY <1>4 DEF Holder, BuildsFirst, SeesDone
<1>8. Merged'
    BY <1>2, <1>3 DEF Merged
<1>9. AllStored' /\ NoneStored'
    BY <1>4, <1>5 DEF AllStored, NoneStored
<1>10. StoredSoFar'
    BY <1>1, <1>2, <1>3, <1>4, <1>5 DEF StoredSoFar, Slots
<1>11. GotTheSlot'
    BY <1>4, <1>5 DEF GotTheSlot
<1>12. \A i \in Slots : tiers[i] # Empty => tiers'[i] = tiers[i]
    BY <1>1, <1>3, <1>5 DEF StoredSoFar
<1> QED  BY <1>6, <1>7, <1>8, <1>9, <1>10, <1>11, <1>12

LEMMA StoreStep ==
    ASSUME CacheInv, NEW g \in Goroutines, Store(g)
    PROVE  CacheInv'
<1> USE DEF CacheInv, Goto, Store
<1>1. CacheTypeOK'
    BY DEF CacheTypeOK, PCs
<1>2. Holder'
    BY DEF CacheTypeOK, Holder
<1>3. \A h \in Goroutines : at'[h] # "build"
    BY DEF CacheTypeOK, Holder
<1>4. BuildsFirst' /\ SeesDone' /\ StoredSoFar' /\ NoneStored'
    BY <1>3 DEF CacheTypeOK, BuildsFirst, SeesDone, StoredSoFar, NoneStored
<1>5. \A i \in Slots : tiers[i] # Empty
  <2>1. slot[g] = NTiers /\ at[g] = "build"
      BY DEF CacheTypeOK
  <2>2. \A i \in Slots : i < NTiers
      BY DEF Slots
  <2> QED  BY <2>1, <2>2 DEF StoredSoFar
<1>6. Merged' /\ AllStored' /\ GotTheSlot'
    BY <1>5 DEF Merged, AllStored, GotTheSlot
<1> QED  BY <1>1, <1>2, <1>4, <1>6

LEMMA ReadStep ==
    ASSUME CacheInv, NEW g \in Goroutines, Read(g)
    PROVE  CacheInv'
<1> USE DEF CacheInv, Goto, Read
<1>1. TierIdx \in Slots
    BY DEF Slots
<1>2. CacheTypeOK'
    BY <1>1 DEF CacheTypeOK, PCs
<1>3. Holder' /\ BuildsFirst' /\ SeesDone'
    BY DEF CacheTypeOK, Holder, BuildsFirst, SeesDone
<1>4. \A h \in Goroutines : at'[h] = "build" <=> at[h] = "build"
    BY DEF CacheTypeOK
<1>5. Merged' /\ AllStored' /\ StoredSoFar' /\ NoneStored'
    BY <1>4 DEF Merged, AllStored, StoredSoFar, NoneStored
<1>6. GotTheSlot'
    BY DEF CacheTypeOK, SeesDone, GotTheSlot
<1> QED  BY <1>2, <1>3, <1>5, <1>6

LEMMA CacheSteps == CacheInv /\ [CacheNext]_cacheVars => CacheInv'
<1> SUFFICES ASSUME CacheInv, [CacheNext]_cacheVars PROVE CacheInv'
    OBVIOUS
<1>1. CASE CacheNext
  <2>1. PICK g \in Goroutines : Call(g) \/ Get(g)
      BY <1>1 DEF CacheNext
  <2>2. CASE Call(g) \/ FastPath(g) \/ Lock(g) \/ Unlock(g)
      BY <2>2, QuietSteps
  <2>3. CASE Recheck(g)
      BY <2>3, RecheckStep
  <2>4. CASE BuildSlot(g)
      BY <2>4, BuildStep
  <2>5. CASE Store(g)
      BY <2>5, StoreStep
  <2>6. CASE Read(g)
      BY <2>6, ReadStep
  <2> QED  BY <2>1, <2>2, <2>3, <2>4, <2>5, <2>6 DEF Get
<1>2. CASE UNCHANGED cacheVars
    BY <1>2 DEF cacheVars, CacheInv, CacheTypeOK, Holder, BuildsFirst, SeesDone, Merged, AllStored,
                StoredSoFar, NoneStored, GotTheSlot
<1> QED  BY <1>1, <1>2

\* The inductive invariant of get.
THEOREM CacheInvariance == CacheSpec => []CacheInv
<1> QED  BY CacheStarts, CacheSteps, PTL DEF CacheSpec

\* Every variable of get has its type.
THEOREM CacheTypeCorrect == CacheSpec => []CacheTypeOK
<1>1. CacheInv => CacheTypeOK
    BY DEF CacheInv
<1> QED  BY <1>1, CacheInvariance, PTL

\* tierIdx's slot is stored before the flag is set, and stored whole, so no caller of
\* get is handed a nil pointer, nor a group without a kernel that its tier or the
\* reference has.
THEOREM MergedGroupReturned == CacheSpec => []ReturnsMergedGroup
<1>1. CacheInv => ReturnsMergedGroup
  <2> DEFINE own(f) == IF TierIdx \in DOMAIN Partial THEN Partial[TierIdx][f] ELSE "nil"
  <2> SUFFICES ASSUME CacheInv, NEW g \in Goroutines, NEW p \in got[g]
               PROVE  /\ p.by # Nobody
                      /\ \A f \in Fields : p.group[f] = IF own(f) # "nil" THEN own(f) ELSE Base[f]
      BY DEF ReturnsMergedGroup
  <2>1. TierIdx \in Slots
      BY DEF Slots
  <2>2. p = tiers[TierIdx] /\ p # Empty
      BY <2>1 DEF CacheInv, GotTheSlot, AllStored
  <2>3. p.group = Overlay(TierIdx)
      BY <2>1, <2>2 DEF CacheInv, Merged
  <2>4. p.by # Nobody
    <3>1. p \in Pointers
        BY <2>1, <2>2 DEF CacheInv, CacheTypeOK
    <3> QED  BY <2>2, <3>1 DEF Pointers
  <2>5. ASSUME NEW f \in Fields
        PROVE  Overlay(TierIdx)[f] = IF own(f) # "nil" THEN own(f) ELSE Base[f]
    <3>1. CASE TierIdx \in DOMAIN Partial
        BY <3>1 DEF Overlay
    <3>2. CASE TierIdx \notin DOMAIN Partial
        BY <3>2 DEF Overlay
    <3> QED  BY <3>1, <3>2
  <2> QED  BY <2>3, <2>4, <2>5
<1> QED  BY <1>1, CacheInvariance, PTL

\* No two goroutines touch the slots at once while one of them stores: the read
\* after the Once needs no lock.
THEOREM RaceFree == CacheSpec => []NoRace
<1>1. CacheInv => NoRace
    BY DEF CacheInv, NoRace, Holder, BuildsFirst, SeesDone
<1> QED  BY <1>1, CacheInvariance, PTL

\* Every caller is handed the same pointer.
THEOREM SamePointer == CacheSpec => []OnePointer
<1>1. CacheInv => OnePointer
    BY DEF CacheInv, OnePointer, GotTheSlot
<1> QED  BY <1>1, CacheInvariance, PTL

\* No step changes a slot once it is stored.
THEOREM StoredOnce == CacheSpec => SlotsStay
<1>1. CacheInv /\ [CacheNext]_cacheVars => [\A i \in Slots : tiers[i] # Empty => tiers'[i] = tiers[i]]_cacheVars
  <2> SUFFICES ASSUME CacheInv, CacheNext
               PROVE  \A i \in Slots : tiers[i] # Empty => tiers'[i] = tiers[i]
      OBVIOUS
  <2>1. PICK g \in Goroutines : Call(g) \/ Get(g)
      BY DEF CacheNext
  <2>2. CASE BuildSlot(g)
      BY <2>2, BuildStep
  <2>3. CASE ~BuildSlot(g)
      BY <2>1, <2>3 DEF Get, Call, FastPath, Lock, Recheck, Store, Unlock, Read
  <2> QED  BY <2>2, <2>3
<1> QED  BY <1>1, CacheInvariance, PTL DEF CacheSpec, SlotsStay

-----------------------------------------------------------------------------
(* Both in one process.                                                    *)

\* A process that is initialized and then called (dispatch.go:36-39, 165-199) selects its
\* tier as TierSelect does, and its goroutines get their groups as in OpsCache: what holds
\* of either holds of it.
THEOREM BothInOne == DispatchSpec => Spec /\ CacheSpec
<1>1. DispatchInit => Init /\ CacheInit
    BY DEF DispatchInit
<1>2. [DispatchNext]_dispatchVars => [Next]_vars
    BY DEF DispatchNext, dispatchVars
<1>3. [DispatchNext]_dispatchVars => [CacheNext]_cacheVars
  <2> SUFFICES ASSUME DispatchNext PROVE [CacheNext]_cacheVars
      BY DEF dispatchVars
  <2>1. CASE UNCHANGED cacheVars
      BY <2>1
  <2>2. CASE \E g \in Goroutines : (Operation(g) \/ Get(g)) /\ UNCHANGED vars
      BY <2>2 DEF Operation, CacheNext
  <2> QED  BY <2>1, <2>2 DEF DispatchNext
<1> QED  BY <1>1, <1>2, <1>3, PTL DEF DispatchSpec, Spec, CacheSpec
=============================================================================
