----------------------------- MODULE SearchProofs -----------------------------
(***************************************************************************)
(* The theorems about the calls that search, about those on what is in     *)
(* order, and about JSON, for every value of the constants: a search for   *)
(* several needles returns the earliest match, the tiled intersection and  *)
(* difference write exactly their answer, a merge, whose network of        *)
(* exchanges sorts two blocks, loses nothing and writes nothing too late,  *)
(* the carries and the levels of a JSON document are in every state what   *)
(* the bytes before make them, and the answer is 1 for a document alone.   *)
(***************************************************************************)
EXTENDS CodecProofs

-----------------------------------------------------------------------------
(* Search for several needles: what is known on the way.                   *)

\* The matches of which the scan has passed the anchor.
PassedBy(p) == {c \in Matches : c[1] + anchors[c[2]] < p}

\* What is known of a search before it ends: nothing is found before it begins, the loop has
\* the earliest match of the needles it has been through, and the scan, from its first turn
\* on, the earliest of those behind it.
Progress ==
    /\ pc \in {"index", "none"} => at = 0 /\ best = -1 /\ i = 0
    /\ pc = "none" => needles = <<>>
    /\ pc \in {"loop", "scan"} => Empties = {}
    /\ pc = "loop" => at = 0 /\ IsEarliest({c \in Matches : c[2] <= i})
    /\ pc = "scan" => IsEarliest(PassedBy(at))

SearchIndInv == TypeOK /\ Progress /\ SettledBehind /\ EarliestReturned

-----------------------------------------------------------------------------
(* Needles, matches and their order.                                       *)

\* The needles and the haystack are sequences.
LEMMA QueryType ==
    ASSUME TypeOK, Progress
    PROVE  /\ Len(needles) \in Nat /\ Which = 1 .. Len(needles)
           /\ pc # "none" => Len(h) \in Nat /\ \A w \in Which : needles[w] \in Seq(Bytes)
           /\ pc = "none" => Which = {} /\ Matches = {}
<1>1. CASE pc = "none"
  <2>1. Which = {} /\ needles = <<>>
    BY <1>1 DEF Progress, Which
  <2>. QED BY <1>1, <2>1 DEF Matches, Which
<1>2. CASE pc # "none"
  <2>1. query \in Queries
    BY <1>2 DEF TypeOK
  <2>2. needles \in Seq(Seq(Bytes)) /\ h \in Seq(Bytes)
    BY <2>1, QueriesAssumption DEF needles, h
  <2>. QED BY <1>2, <2>2 DEF Which
<1>. QED BY <1>1, <1>2

\* Positions first and needles second is an order.
LEMMA NotAfterOrder ==
    ASSUME NEW c \in Int \X Int, NEW d \in Int \X Int, NEW e \in Int \X Int
    PROVE  /\ NotAfter(c, c)
           /\ NotAfter(c, d) \/ NotAfter(d, c)
           /\ NotAfter(c, d) /\ NotAfter(d, e) => NotAfter(c, e)
BY DEF NotAfter

\* Keeping the best of what was found and what is found now keeps the earliest of both.
LEMMA KeepEarliest ==
    ASSUME NEW M \in SUBSET ((0 .. Len(h)) \X Which), NEW N \in SUBSET ((0 .. Len(h)) \X Which),
           TypeOK, Len(h) \in Nat, Len(needles) \in Nat, IsEarliest(M), Keep(N)
    PROVE  \/ /\ best' = -1 /\ bestWhich' = -1
              /\ M \union N = {}
           \/ /\ best' \in 0 .. Len(h) /\ bestWhich' \in Which
              /\ <<best', bestWhich'>> \in M \union N
              /\ \A d \in M \union N : NotAfter(<<best', bestWhich'>>, d)
<1>. DEFINE P == (0 .. Len(h)) \X Which
<1>1. P \subseteq Int \X Int
  BY DEF Which
<1>2. CASE best = -1
  <2>1. M = {} /\ Found = {} /\ bestWhich = -1
    BY <1>2 DEF IsEarliest, Found, TypeOK
  <2>2. CASE N = {}
    BY <1>2, <2>1, <2>2 DEF Keep
  <2>3. CASE N # {}
    <3>1. PICK c \in N : (\A d \in N : NotAfter(c, d)) /\ best' = c[1] /\ bestWhich' = c[2]
      BY <2>1, <2>3 DEF Keep
    <3>2. c = <<c[1], c[2]>> /\ c[1] \in 0 .. Len(h) /\ c[2] \in Which
      BY <3>1
    <3>. QED BY <2>1, <3>1, <3>2
  <2>. QED BY <2>2, <2>3
<1>3. CASE best # -1
  <2>. DEFINE f == <<best, bestWhich>>
  <2>1. f \in M /\ (\A d \in M : NotAfter(f, d)) /\ Found = {f}
    BY <1>3 DEF IsEarliest, Found, TypeOK
  <2>2. PICK c \in {f} \union N :
           (\A d \in {f} \union N : NotAfter(c, d)) /\ best' = c[1] /\ bestWhich' = c[2]
    BY <2>1 DEF Keep
  <2>. HIDE DEF f
  <2>3. c \in M \union N /\ c \in P
    BY <2>1, <2>2
  <2>4. c = <<c[1], c[2]>> /\ c[1] \in 0 .. Len(h) /\ c[2] \in Which
    BY <2>3
  <2>5. \A d \in M \union N : NotAfter(c, d)
    <3>. TAKE d \in M \union N
    <3>1. CASE d \in N
      BY <3>1, <2>2
    <3>2. CASE d \in M
      <4>1. NotAfter(c, f) /\ NotAfter(f, d)
        BY <2>1, <2>2, <3>2
      <4>2. c \in Int \X Int /\ f \in Int \X Int /\ d \in Int \X Int
        BY <1>1, <2>1, <2>3
      <4>. QED BY <4>1, <4>2, NotAfterOrder
    <3>. QED BY <3>1, <3>2
  <2>. QED BY <2>2, <2>3, <2>4, <2>5
<1>. QED BY <1>2, <1>3

-----------------------------------------------------------------------------
(* What NewMultiSearcher computes.                                         *)

\* The rarest byte exists: the ranks of a needle's bytes have a greatest, and the places
\* that have it a first.
LEMMA RarestOf ==
    ASSUME NEW rank \in Ranks, NEW s \in Seq(Bytes), s # <<>>
    PROVE  Rarest(rank, s) \in 0 .. Len(s) - 1
<1>. DEFINE Offsets == 0 .. Len(s) - 1
            R(x) == rank[s[x + 1]]
            r == [k \in 1 .. Len(s) |-> rank[s[k]]]
<1>1. Len(s) \in Nat /\ Len(s) >= 1 /\ Offsets # {} /\ Offsets \subseteq Nat
  <2>1. Len(s) \in Nat /\ Len(s) # 0
    BY EmptySeq
  <2>2. 0 \in Offsets
    BY <2>1
  <2>. QED BY <2>1, <2>2
<1>2. \A x \in Offsets : R(x) \in Nat /\ x + 1 \in 1 .. Len(s) /\ R(x) = r[x + 1]
  <2>. TAKE x \in Offsets
  <2>1. s[x + 1] \in Bytes
    BY <1>1
  <2>. QED BY <2>1, <1>1, RanksAssumption
<1>3. \A k \in 1 .. Len(s) : r[k] \in Int
  <2>. TAKE k \in 1 .. Len(s)
  <2>1. s[k] \in Bytes
    BY <1>1
  <2>. QED BY <2>1, RanksAssumption
<1>. HIDE DEF R, r
<1>4. PICK b \in Int : \A k \in 1 .. Len(s) : r[k] <= b
  BY <1>1, <1>3, BoundedFunction
<1>5. PICK m \in {R(x) : x \in Offsets} : \A y \in {R(x) : x \in Offsets} : y <= m
  <2>. DEFINE S == {R(x) : x \in Offsets}
  <2>1. S \subseteq Int /\ S # {} /\ \A y \in S : y <= b
    BY <1>1, <1>2, <1>4, SMTT(120)
  <2>. HIDE DEF S
  <2>2. \E m \in S : \A y \in S : y <= m
    BY <2>1, GreatestInteger
  <2>. QED BY <2>2 DEF S
<1>6. PICK j \in {x \in Offsets : R(x) = m} : \A y \in {x \in Offsets : R(x) = m} : j <= y
  BY <1>1, <1>5, LeastNatural
<1>7. \A x \in Offsets : R(x) < R(j) \/ (R(x) = R(j) /\ j <= x)
  <2>. TAKE x \in Offsets
  <2>1. R(x) <= R(j) /\ (R(x) = R(j) => j <= x)
    BY <1>5, <1>6
  <2>. QED BY <2>1, <1>2, <1>6
<1>. QED BY <1>6, <1>7 DEF R, Rarest

\* The farthest anchor exists, and is no less than any.
LEMMA GreatestOfAnchors ==
    ASSUME NEW a, Len(needles) \in Nat, \A w \in Which : a[w] \in Nat
    PROVE  GreatestOf(a) \in Nat /\ \A w \in Which : a[w] <= GreatestOf(a)
<1>. DEFINE S == {a[w] : w \in Which} \union {0}
<1>1. S \subseteq Int /\ S # {} /\ S \subseteq Nat
  OBVIOUS
<1>2. PICK b \in Int : \A w \in Which : a[w] <= b
  <2>1. \A k \in 1 .. Len(needles) : a[k] \in Int
    BY DEF Which
  <2>. QED BY <2>1, BoundedFunction, Zenon DEF Which
<1>3. PICK c \in Int : b <= c /\ 0 <= c
  <2>1. CASE b >= 0
    BY <2>1
  <2>2. CASE b < 0
    BY <2>2
  <2>. QED BY <2>1, <2>2
<1>4. \A x \in S : x <= c
  BY <1>2, <1>3
<1>. HIDE DEF S
<1>5. PICK m \in S : \A y \in S : y <= m
  BY <1>1, <1>4, GreatestInteger
<1>6. m \in S /\ \A w \in Which : a[w] <= m
  BY <1>5 DEF S
<1>7. GreatestOf(a) \in S /\ \A w \in Which : a[w] <= GreatestOf(a)
  BY <1>6 DEF GreatestOf, S
<1>. QED BY <1>1, <1>7

\* A search begins with its anchors in its needles.
LEMMA SearchInitType ==
    ASSUME SearchInit
    PROVE  SearchIndInv
<1>1. needles \in Seq(Seq(Bytes)) /\ h \in Seq(Bytes) /\ Len(needles) \in Nat /\ Len(h) \in Nat
  BY QueriesAssumption DEF SearchInit, needles, h
<1>2. \A w \in Which : needles[w] \in Seq(Bytes)
  BY <1>1 DEF Which
<1>3. PICK rank \in Ranks : anchors = Anchors(rank)
  BY DEF SearchInit
<1>4. \A w \in Which : anchors[w] \in Nat /\ (needles[w] # <<>> => anchors[w] < Len(needles[w]))
  <2>. TAKE w \in Which
  <2>1. CASE needles[w] = <<>>
    BY <2>1, <1>3 DEF Anchors, Empties
  <2>2. CASE needles[w] # <<>>
    <3>1. anchors[w] = Rarest(rank, needles[w])
      BY <2>2, <1>3 DEF Anchors, Empties
    <3>2. Rarest(rank, needles[w]) \in 0 .. Len(needles[w]) - 1
      BY <2>2, <1>2, RarestOf
    <3>3. Len(needles[w]) \in Nat
      BY <1>2
    <3>. QED BY <3>1, <3>2, <3>3
  <2>. QED BY <2>1, <2>2
<1>5. maxAnchor \in Nat /\ \A w \in Which : anchors[w] <= maxAnchor
  BY <1>1, <1>4, GreatestOfAnchors DEF SearchInit
<1>6. DOMAIN anchors = Which
  BY <1>3 DEF Anchors
<1>7. TypeOK
  BY <1>1, <1>4, <1>5, <1>6 DEF SearchInit, TypeOK
<1>8. Progress /\ SettledBehind /\ EarliestReturned
  BY DEF SearchInit, Progress, SettledBehind, EarliestReturned
<1>. QED BY <1>7, <1>8 DEF SearchIndInv

-----------------------------------------------------------------------------
(* The turns of Index.                                                     *)

\* What a step that leaves the query alone does not change.
LEMMA SameQuery ==
    ASSUME query' = query
    PROVE  /\ needles' = needles /\ h' = h /\ Which' = Which
           /\ Matches' = Matches /\ Empties' = Empties
BY DEF needles, h, Which, Matches, MatchAt, Empties

\* A match is a position and a needle, and the needle's rarest byte stands where the scan
\* finds it.
LEMMA MatchHit ==
    ASSUME TypeOK, Progress, NEW c \in Matches
    PROVE  /\ c = <<c[1], c[2]>> /\ c[1] \in 0 .. Len(h) /\ c[2] \in Which /\ MatchAt(c[2], c[1])
           /\ Len(h) \in Nat /\ anchors[c[2]] \in Nat /\ anchors[c[2]] <= maxAnchor
           /\ Empties = {} => LET p == c[1] + anchors[c[2]] IN
                                p \in 0 .. Len(h) - 1 /\ h[p + 1] = AnchorByte(c[2])
<1>1. pc # "none" /\ Len(h) \in Nat /\ \A w \in Which : needles[w] \in Seq(Bytes)
  BY QueryType
<1>2. c = <<c[1], c[2]>> /\ c[1] \in 0 .. Len(h) /\ c[2] \in Which /\ MatchAt(c[2], c[1])
  BY DEF Matches
<1>3. anchors[c[2]] \in Nat /\ anchors[c[2]] <= maxAnchor
  BY <1>2 DEF TypeOK
<1>4. ASSUME Empties = {}
      PROVE  LET p == c[1] + anchors[c[2]] IN p \in 0 .. Len(h) - 1 /\ h[p + 1] = AnchorByte(c[2])
  <2>. DEFINE w == c[2]
              x == anchors[w] + 1
  <2>1. needles[w] # <<>> /\ Len(needles[w]) \in Nat
    BY <1>1, <1>2, <1>4 DEF Empties
  <2>2. x \in 1 .. Len(needles[w])
    BY <1>2, <1>3, <2>1 DEF TypeOK
  <2>3. h[c[1] + x] = needles[w][x] /\ c[1] + x <= Len(h)
    BY <1>1, <1>2, <2>1, <2>2 DEF MatchAt
  <2>. QED BY <1>2, <1>3, <2>3 DEF AnchorByte
<1>. QED BY <1>1, <1>2, <1>3, <1>4

\* The pairs that lead a set.
LEMMA SpreadEarliest ==
    ASSUME NEW c \in Int \X Int, NEW M \in SUBSET (Int \X Int), NEW N \in SUBSET (Int \X Int),
           \A d \in M : NotAfter(c, d), \A e \in N : \E d \in M : NotAfter(d, e)
    PROVE  \A e \in N : NotAfter(c, e)
<1>. TAKE e \in N
<1>1. PICK d \in M : NotAfter(d, e)
  OBVIOUS
<1>2. NotAfter(c, d) /\ c \in Int \X Int /\ d \in Int \X Int /\ e \in Int \X Int
  OBVIOUS
<1>. QED BY <1>1, <1>2, NotAfterOrder

\* A turn of the loop adds the first match of one needle, which leads all of that needle.
LEMMA LoopTurnInv ==
    ASSUME SearchIndInv, LoopTurn
    PROVE  SearchIndInv'
<1>. DEFINE First == {p \in 0 .. Len(h) : MatchAt(i + 1, p) /\ \A q \in 0 .. Len(h) : MatchAt(i + 1, q) => p <= q}
            M == {c \in Matches : c[2] <= i}
            N == {<<s, i + 1>> : s \in First}
            L == {c \in Matches : c[2] <= i + 1}
<1>1. TypeOK /\ Progress /\ pc = "loop" /\ i < Len(needles) /\ i' = i + 1 /\ Keep(N)
  BY DEF SearchIndInv, LoopTurn
<1>2. UNCHANGED <<query, anchors, maxAnchor, at, pc>>
  BY DEF LoopTurn
<1>3. Len(h) \in Nat /\ Len(needles) \in Nat /\ Which = 1 .. Len(needles) /\ i \in Nat
  BY <1>1, QueryType DEF TypeOK
<1>4. IsEarliest(M) /\ at = 0 /\ Empties = {}
  BY <1>1 DEF Progress
<1>5. M \in SUBSET ((0 .. Len(h)) \X Which) /\ N \in SUBSET ((0 .. Len(h)) \X Which)
  <2>1. i + 1 \in Which
    BY <1>1, <1>3
  <2>. QED BY <2>1 DEF Matches
<1>6. N \subseteq L /\ M \subseteq L /\ L \subseteq (0 .. Len(h)) \X Which
  <2>1. i + 1 \in Which
    BY <1>1, <1>3
  <2>. QED BY <2>1, <1>3, <1>5 DEF Matches, Which
<1>7. \A c \in L : \E d \in M \union N : NotAfter(d, c)
  <2>. TAKE c \in L
  <2>1. c = <<c[1], c[2]>> /\ c[1] \in 0 .. Len(h) /\ c[2] \in Which /\ MatchAt(c[2], c[1])
    BY DEF Matches
  <2>2. CASE c[2] <= i
    <3>1. c \in M /\ c \in Int \X Int
      BY <2>1, <2>2, <1>3
    <3>2. NotAfter(c, c)
      BY <3>1, NotAfterOrder
    <3>. QED BY <3>1, <3>2
  <2>3. CASE c[2] = i + 1
    <3>. DEFINE T == {p \in 0 .. Len(h) : MatchAt(i + 1, p)}
    <3>1. T \subseteq Nat /\ T # {} /\ c[1] \in T
      BY <2>1, <2>3, <1>3
    <3>2. PICK p \in T : \A q \in T : p <= q
      BY <3>1, LeastNatural
    <3>3. <<p, i + 1>> \in N /\ p <= c[1]
      BY <3>1, <3>2
    <3>4. NotAfter(<<p, i + 1>>, c)
      BY <3>1, <3>3, <2>3, <1>3 DEF NotAfter
    <3>. QED BY <3>3, <3>4
  <2>. QED BY <2>1, <2>2, <2>3, <1>3
<1>. HIDE DEF M, N, L, First
<1>8. \/ best' = -1 /\ bestWhich' = -1 /\ M \union N = {}
      \/ /\ best' \in 0 .. Len(h) /\ bestWhich' \in Which
         /\ <<best', bestWhich'>> \in M \union N
         /\ \A d \in M \union N : NotAfter(<<best', bestWhich'>>, d)
  BY <1>1, <1>3, <1>4, <1>5, KeepEarliest
<1>9. \/ best' = -1 /\ bestWhich' = -1 /\ L = {}
      \/ /\ best' \in 0 .. Len(h) /\ bestWhich' \in Which
         /\ <<best', bestWhich'>> \in L
         /\ \A d \in L : NotAfter(<<best', bestWhich'>>, d)
  <2>1. CASE M \union N = {}
    BY <2>1, <1>7, <1>8
  <2>2. CASE M \union N # {}
    <3>. DEFINE f == <<best', bestWhich'>>
    <3>1. best' \in 0 .. Len(h) /\ bestWhich' \in Which /\ f \in M \union N
          /\ \A d \in M \union N : NotAfter(f, d)
      BY <2>2, <1>8
    <3>2. f \in Int \X Int /\ L \subseteq Int \X Int /\ M \union N \subseteq Int \X Int
      BY <3>1, <1>3, <1>6
    <3>. HIDE DEF f
    <3>3. \A d \in L : NotAfter(f, d)
      BY <3>1, <3>2, <1>7, SpreadEarliest
    <3>. QED BY <3>1, <3>3, <1>6 DEF f
  <2>. QED BY <2>1, <2>2
<1>10. IsEarliest({c \in Matches : c[2] <= i})'
  <2>1. {c \in Matches : c[2] <= i}' = L
    BY <1>1, <1>2, SameQuery DEF L
  <2>. QED BY <1>9, <2>1 DEF IsEarliest
<1>11. TypeOK'
  <2>1. Which' = Which /\ needles' = needles /\ h' = h
    BY <1>2, SameQuery
  <2>2. i' \in 0 .. Len(needles)
    BY <1>1, <1>3
  <2>. QED BY <1>1, <1>2, <1>9, <2>1, <2>2 DEF TypeOK
<1>12. Progress' /\ SettledBehind' /\ EarliestReturned'
  BY <1>1, <1>2, <1>4, <1>10, SameQuery DEF Progress, SettledBehind, EarliestReturned
<1>. QED BY <1>11, <1>12 DEF SearchIndInv

\* A turn of the scan adds the matches around one hit: before it no byte of the set is left,
\* so no match has its anchor there.
LEMMA ScanTurnInv ==
    ASSUME SearchIndInv, ScanTurn
    PROVE  SearchIndInv'
<1>1. PICK p \in Hits : (\A q \in Hits : p <= q) /\ Keep(Verified(p)) /\ at' = p + 1
  BY DEF ScanTurn
<1>2. /\ TypeOK /\ Progress /\ pc = "scan" /\ pc' = IF PastCutOff THEN "returned" ELSE "scan"
      /\ UNCHANGED <<query, anchors, maxAnchor, i>>
  BY DEF SearchIndInv, ScanTurn
<1>3. /\ Len(h) \in Nat /\ Len(needles) \in Nat /\ Which = 1 .. Len(needles) /\ at \in Nat
      /\ \A w \in Which : needles[w] \in Seq(Bytes)
  BY <1>2, QueryType DEF TypeOK
<1>4. IsEarliest(PassedBy(at)) /\ Empties = {}
  BY <1>2 DEF Progress
<1>5. p \in at .. Len(h) - 1
  BY DEF Hits
<1>. DEFINE M == PassedBy(at)
            N == Verified(p)
            L == PassedBy(p + 1)
<1>6. \A c \in Matches : c[1] + anchors[c[2]] <= Len(h) - 1 /\ c[1] + anchors[c[2]] \in Nat
  BY <1>2, <1>3, <1>4, MatchHit
<1>7. M \subseteq L /\ L \in SUBSET ((0 .. Len(h)) \X Which)
  BY <1>3, <1>5, <1>6, SMTT(120) DEF PassedBy, Matches
<1>8. N \subseteq L
  <2>. SUFFICES ASSUME NEW c \in N PROVE c \in L
    OBVIOUS
  <2>1. PICK w \in Which : c = <<p - anchors[w], w>>
    BY DEF Verified
  <2>2. h[p + 1] = AnchorByte(w) /\ MatchAt(w, p - anchors[w])
    BY <2>1 DEF Verified
  <2>3. anchors[w] \in Nat
    BY <1>2 DEF TypeOK
  <2>4. p - anchors[w] \in 0 .. Len(h)
    BY <1>3, <1>5, <2>2, <2>3 DEF MatchAt
  <2>5. c \in Matches /\ c[1] + anchors[c[2]] = p
    BY <1>5, <2>1, <2>2, <2>3, <2>4 DEF Matches
  <2>. QED BY <1>5, <2>5 DEF PassedBy
<1>9. L \subseteq M \union N
  <2>. SUFFICES ASSUME NEW c \in L PROVE c \in M \union N
    OBVIOUS
  <2>. DEFINE x == c[1] + anchors[c[2]]
              w == c[2]
  <2>1. c \in Matches /\ x < p + 1
    BY DEF PassedBy
  <2>2. x \in 0 .. Len(h) - 1 /\ h[x + 1] = AnchorByte(w)
    BY <1>2, <1>4, <2>1, MatchHit
  <2>3. c = <<c[1], c[2]>> /\ w \in Which /\ MatchAt(w, c[1]) /\ c[1] \in Nat /\ anchors[w] \in Nat
    BY <1>2, <2>1, MatchHit
  <2>4. CASE x < at
    BY <2>1, <2>4 DEF PassedBy
  <2>5. CASE x >= at
    <3>1. x \in Hits
      BY <1>3, <2>2, <2>3, <2>5, SMTT(120) DEF Hits
    <3>2. x = p
      BY <1>1, <1>5, <2>1, <2>2, <3>1
    <3>3. c = <<p - anchors[w], w>>
      BY <2>3, <3>2
    <3>. QED BY <2>2, <2>3, <3>2, <3>3 DEF Verified
  <2>. QED BY <1>3, <2>2, <2>4, <2>5
<1>. HIDE DEF M, N, L
<1>10. \/ best' = -1 /\ bestWhich' = -1 /\ L = {}
       \/ /\ best' \in 0 .. Len(h) /\ bestWhich' \in Which
          /\ <<best', bestWhich'>> \in L
          /\ \A d \in L : NotAfter(<<best', bestWhich'>>, d)
  <2>1. L = M \union N /\ M \in SUBSET ((0 .. Len(h)) \X Which) /\ N \in SUBSET ((0 .. Len(h)) \X Which)
    BY <1>7, <1>8, <1>9
  <2>2. IsEarliest(M) /\ Keep(N)
    BY <1>1, <1>4 DEF M, N
  <2>. QED BY <1>2, <1>3, <2>1, <2>2, KeepEarliest
<1>11. PassedBy(at)' = L
  BY <1>1, <1>2, SameQuery DEF PassedBy, L
<1>12. IsEarliest(PassedBy(at))'
  BY <1>10, <1>11 DEF IsEarliest
<1>13. TypeOK'
  <2>1. Which' = Which /\ needles' = needles /\ h' = h
    BY <1>2, SameQuery
  <2>2. at' \in 0 .. Len(h)
    BY <1>1, <1>3, <1>5
  <2>. QED BY <1>2, <1>10, <2>1, <2>2 DEF TypeOK
<1>14. ASSUME pc' = "returned" PROVE IsEarliest(Matches)'
  <2>1. best' >= 0 /\ at' > best' + maxAnchor
    BY <1>2, <1>14 DEF PastCutOff
  <2>2. /\ best' \in 0 .. Len(h) /\ bestWhich' \in Which /\ <<best', bestWhich'>> \in L
        /\ \A d \in L : NotAfter(<<best', bestWhich'>>, d)
    BY <1>10, <2>1
  <2>3. \A c \in Matches : NotAfter(<<best', bestWhich'>>, c)
    <3>. TAKE c \in Matches
    <3>1. c[1] \in Nat /\ anchors[c[2]] \in Nat /\ anchors[c[2]] <= maxAnchor
      BY <1>2, MatchHit
    <3>2. CASE c[1] + anchors[c[2]] < p + 1
      BY <2>2, <3>2 DEF L, PassedBy
    <3>3. CASE c[1] + anchors[c[2]] >= p + 1
      <4>0. maxAnchor \in Nat
        BY <1>2 DEF TypeOK
      <4>3. p \in Nat /\ at' = p + 1
        <5>1. p \in Nat
          BY <1>3, <1>5
        <5>. QED BY <1>1, <5>1
      <4>4. best' \in Nat
        BY <1>3, <2>2
      <4>1. best' \in Nat /\ at' \in Nat /\ maxAnchor \in Nat /\ at' > best' + maxAnchor
        <5>1. at' > best' + maxAnchor
          BY <2>1
        <5>2. at' \in Nat
          BY <4>3
        <5>. QED BY <4>0, <4>4, <5>1, <5>2
      <4>2. best' < c[1]
        BY <1>1, <3>1, <3>3, <4>1
      <4>. QED BY <4>2 DEF NotAfter
    <3>. QED BY <3>1, <3>2, <3>3, <1>5
  <2>4. <<best', bestWhich'>> \in Matches /\ best' # -1
    BY <2>1, <2>2 DEF L, PassedBy
  <2>. QED BY <1>2, <2>3, <2>4, SameQuery DEF IsEarliest
<1>15. Progress' /\ SettledBehind' /\ EarliestReturned'
  <2>1. pc' \in {"scan", "returned"} /\ Empties' = {}
    BY <1>2, <1>4, SameQuery
  <2>. QED BY <1>12, <1>14, <2>1 DEF Progress, SettledBehind, EarliestReturned, PassedBy
<1>. QED BY <1>13, <1>15 DEF SearchIndInv

\* When no byte of the set is left, every match is behind.
LEMMA ScanEndInv ==
    ASSUME SearchIndInv, ScanEnd
    PROVE  SearchIndInv'
<1>1. /\ TypeOK /\ Progress /\ pc = "scan" /\ pc' = "returned" /\ Hits = {}
      /\ UNCHANGED <<query, anchors, maxAnchor, at, i, best, bestWhich>>
  BY DEF SearchIndInv, ScanEnd
<1>2. IsEarliest(PassedBy(at)) /\ Empties = {}
  BY <1>1 DEF Progress
<1>3. PassedBy(at) = Matches
  <2>1. ASSUME NEW c \in Matches PROVE c[1] + anchors[c[2]] < at
    <3>. DEFINE x == c[1] + anchors[c[2]]
    <3>1. x \in 0 .. Len(h) - 1 /\ h[x + 1] = AnchorByte(c[2]) /\ c[2] \in Which /\ Len(h) \in Nat
      BY <1>1, <1>2, MatchHit
    <3>2. x \notin Hits /\ at \in Nat
      BY <1>1, <3>1 DEF TypeOK
    <3>. HIDE DEF x
    <3>3. x < at
      BY <3>1, <3>2 DEF Hits
    <3>. QED BY <3>3 DEF x
  <2>. QED BY <2>1 DEF PassedBy
<1>4. IsEarliest(Matches)' /\ IsEarliest(PassedBy(at))'
  BY <1>1, <1>2, <1>3, SameQuery DEF IsEarliest, PassedBy
<1>5. TypeOK'
  BY <1>1, SameQuery DEF TypeOK
<1>6. Progress' /\ SettledBehind' /\ EarliestReturned'
  BY <1>1, <1>4 DEF Progress, SettledBehind, EarliestReturned, PassedBy
<1>. QED BY <1>5, <1>6 DEF SearchIndInv

\* An empty needle is found at once.
LEMMA EmptyNeedleInv ==
    ASSUME SearchIndInv, EmptyNeedle
    PROVE  SearchIndInv'
<1>1. /\ TypeOK /\ Progress /\ pc = "index" /\ pc' = "returned" /\ Empties # {}
      /\ best' = 0 /\ bestWhich' \in Which
      /\ UNCHANGED <<query, anchors, maxAnchor, at, i>>
  BY DEF SearchIndInv, EmptyNeedle, Empties
<1>2. at = 0 /\ Len(h) \in Nat
  BY <1>1, QueryType DEF Progress
<1>3. TypeOK'
  BY <1>1, <1>2, SameQuery DEF TypeOK
<1>4. Progress' /\ SettledBehind' /\ EarliestReturned'
  BY <1>1, <1>2, SameQuery DEF Progress, SettledBehind, EarliestReturned
<1>. QED BY <1>3, <1>4 DEF SearchIndInv

\* Needles that are longer than the haystack have no match.
LEMMA NoMatchPossibleInv ==
    ASSUME SearchIndInv, NoMatchPossible
    PROVE  SearchIndInv'
<1>1. /\ TypeOK /\ Progress /\ pc = "index" /\ pc' = "returned" /\ Hopeless
      /\ UNCHANGED <<query, anchors, maxAnchor, at, i, best, bestWhich>>
  BY DEF SearchIndInv, NoMatchPossible
<1>2. at = 0 /\ best = -1 /\ Len(h) \in Nat /\ \A w \in Which : needles[w] \in Seq(Bytes)
  BY <1>1, QueryType DEF Progress
<1>3. Matches = {}
  <2>. SUFFICES ASSUME NEW c \in Matches PROVE FALSE
    OBVIOUS
  <2>1. c[1] \in 0 .. Len(h) /\ c[2] \in Which /\ c[1] + Len(needles[c[2]]) <= Len(h)
    BY DEF Matches, MatchAt
  <2>2. Len(needles[c[2]]) \in Nat /\ Len(h) < Len(needles[c[2]])
    BY <1>1, <1>2, <2>1 DEF Hopeless
  <2>. QED BY <1>2, <2>1, <2>2
<1>4. TypeOK'
  BY <1>1, SameQuery DEF TypeOK
<1>5. Progress' /\ SettledBehind' /\ EarliestReturned'
  BY <1>1, <1>2, <1>3, SameQuery DEF Progress, SettledBehind, EarliestReturned, IsEarliest
<1>. QED BY <1>4, <1>5 DEF SearchIndInv

\* Before the first turn nothing is found, and nothing is passed.
LEMMA StartInv ==
    ASSUME SearchIndInv, Start
    PROVE  SearchIndInv'
<1>1. /\ TypeOK /\ Progress /\ pc = "index" /\ pc' \in {"loop", "scan"} /\ Empties = {}
      /\ UNCHANGED <<query, anchors, maxAnchor, at, i, best, bestWhich>>
  BY DEF SearchIndInv, Start
<1>2. at = 0 /\ best = -1 /\ i = 0
  BY <1>1 DEF Progress
<1>3. {c \in Matches : c[2] <= i} = {} /\ PassedBy(at) = {}
  <2>1. ASSUME NEW c \in Matches PROVE c[2] >= 1 /\ c[2] \in Int /\ c[1] + anchors[c[2]] \in Nat
    BY <1>1, <1>2, MatchHit DEF Which
  <2>. QED BY <1>2, <2>1 DEF PassedBy
<1>4. TypeOK'
  BY <1>1, SameQuery DEF TypeOK
<1>5. {c \in Matches : c[2] <= i}' = {} /\ PassedBy(at)' = {}
  BY <1>1, <1>3, SameQuery DEF PassedBy
<1>6. Progress' /\ SettledBehind' /\ EarliestReturned'
  BY <1>1, <1>2, <1>5, SameQuery DEF Progress, SettledBehind, EarliestReturned, IsEarliest
<1>. QED BY <1>4, <1>6 DEF SearchIndInv

\* The loop has been through every needle.
LEMMA LoopEndInv ==
    ASSUME SearchIndInv, LoopEnd
    PROVE  SearchIndInv'
<1>1. /\ TypeOK /\ Progress /\ pc = "loop" /\ pc' = "returned" /\ i = Len(needles)
      /\ UNCHANGED <<query, anchors, maxAnchor, at, i, best, bestWhich>>
  BY DEF SearchIndInv, LoopEnd
<1>2. at = 0 /\ IsEarliest({c \in Matches : c[2] <= i})
  BY <1>1 DEF Progress
<1>3. {c \in Matches : c[2] <= i} = Matches
  BY <1>1, QueryType DEF Matches
<1>4. IsEarliest(Matches)'
  BY <1>1, <1>2, <1>3, SameQuery DEF IsEarliest
<1>5. TypeOK'
  BY <1>1, SameQuery DEF TypeOK
<1>6. Progress' /\ SettledBehind' /\ EarliestReturned'
  BY <1>1, <1>2, <1>4 DEF Progress, SettledBehind, EarliestReturned
<1>. QED BY <1>5, <1>6 DEF SearchIndInv

\* A call of another kind leaves the search alone.
LEMMA SearchUnchanged ==
    ASSUME SearchIndInv, UNCHANGED searchVars
    PROVE  SearchIndInv'
<1>1. UNCHANGED <<query, anchors, maxAnchor, at, i, best, bestWhich, pc>>
  BY DEF searchVars
<1>2. PassedBy(at)' = PassedBy(at) /\ {c \in Matches : c[2] <= i}' = {c \in Matches : c[2] <= i}
  BY <1>1, SameQuery DEF PassedBy
<1>. QED BY <1>1, <1>2, SameQuery
         DEF SearchIndInv, TypeOK, Progress, SettledBehind, EarliestReturned, IsEarliest, PassedBy

-----------------------------------------------------------------------------
(* The invariant, and what follows from it.                                *)

LEMMA SearchIndInvInit == Init => SearchIndInv
<1>. SUFFICES ASSUME Init PROVE SearchIndInv
  OBVIOUS
<1>1. CASE SearchInit
  BY <1>1, SearchInitType
<1>2. CASE /\ query = NoQuery /\ anchors = <<>> /\ maxAnchor = 0
           /\ at = 0 /\ i = 0 /\ best = -1 /\ bestWhich = -1 /\ pc = "none"
  <2>1. needles = <<>> /\ h = <<>> /\ Which = {}
    BY <1>2 DEF NoQuery, needles, h, Which
  <2>. QED BY <1>2, <2>1 DEF SearchIndInv, TypeOK, Progress, SettledBehind, EarliestReturned
<1>. QED BY <1>1, <1>2 DEF Init

LEMMA SearchIndInvNext == SearchIndInv /\ [Next]_textVars => SearchIndInv'
<1>. SUFFICES ASSUME SearchIndInv, [Next]_textVars PROVE SearchIndInv'
  OBVIOUS
<1>1. CASE EmptyNeedle
  BY <1>1, EmptyNeedleInv
<1>2. CASE NoMatchPossible
  BY <1>2, NoMatchPossibleInv
<1>3. CASE Start
  BY <1>3, StartInv
<1>4. CASE LoopTurn
  BY <1>4, LoopTurnInv
<1>5. CASE LoopEnd
  BY <1>5, LoopEndInv
<1>6. CASE ScanTurn
  BY <1>6, ScanTurnInv
<1>7. CASE ScanEnd
  BY <1>7, ScanEndInv
<1>8. CASE UNCHANGED searchVars
  BY <1>8, SearchUnchanged
<1>9. CASE UNCHANGED textVars
  BY <1>8, <1>9 DEF textVars
<1>. QED BY <1>1, <1>2, <1>3, <1>4, <1>5, <1>6, <1>7, <1>8, <1>9 DEF Next, Searching, Apart

THEOREM SearchInvariant == Spec => []SearchIndInv
<1>. QED BY SearchIndInvInit, SearchIndInvNext, PTL DEF Spec

\* However many needles there are, whichever of their bytes are thought rare, and whether the
\* needles are searched for one by one or by a scan: what is returned is the earliest match,
\* by position and then by needle (multi.go:174-175).
THEOREM EarliestMatch == Spec => []EarliestReturned
<1>1. SearchIndInv => EarliestReturned
  BY DEF SearchIndInv
<1>. QED BY SearchInvariant, <1>1, PTL

\* At every turn of the scan the best match is the earliest of those behind it
\* (multi.go:202-233).
THEOREM ScanSettles == Spec => []ScanInv
<1>1. SearchIndInv => ScanInv
  BY DEF SearchIndInv, ScanInv
<1>. QED BY SearchInvariant, <1>1, PTL

-----------------------------------------------------------------------------
(* Increasing sequences.                                                   *)

Climbs(s) == s \in Seq(Nat) /\ \A x, y \in DOMAIN s : x < y => s[x] < s[y]

\* An increasing sequence, its members and their order.
LEMMA ClimbsFacts ==
    ASSUME NEW s, Climbs(s)
    PROVE  /\ Len(s) \in Nat /\ DOMAIN s = 1 .. Len(s)
           /\ \A x \in 1 .. Len(s) : s[x] \in Nat
           /\ \A x, y \in 1 .. Len(s) : x < y => s[x] < s[y]
           /\ \A x, y \in 1 .. Len(s) : x <= y => s[x] <= s[y]
           /\ \A x, y \in 1 .. Len(s) : s[x] = s[y] => x = y
           /\ \A x, y \in 1 .. Len(s) : s[x] < s[y] => x < y
           /\ \A v : v \in Members(s) <=> \E x \in 1 .. Len(s) : v = s[x]
<1>1. s \in Seq(Nat) /\ Len(s) \in Nat /\ DOMAIN s = 1 .. Len(s)
  BY DEF Climbs
<1>2. \A x \in 1 .. Len(s) : s[x] \in Nat
  BY <1>1
<1>3. \A x, y \in 1 .. Len(s) : x < y => s[x] < s[y]
  BY <1>1 DEF Climbs
<1>4. \A x, y \in 1 .. Len(s) : x <= y => s[x] <= s[y]
  BY <1>1, <1>2, <1>3
<1>5. \A x, y \in 1 .. Len(s) : s[x] = s[y] => x = y
  BY <1>1, <1>2, <1>3
<1>6. \A x, y \in 1 .. Len(s) : s[x] < s[y] => x < y
  BY <1>1, <1>2, <1>4
<1>7. \A v : v \in Members(s) <=> \E x \in 1 .. Len(s) : v = s[x]
  BY <1>1 DEF Members
<1>. QED BY <1>1, <1>2, <1>3, <1>4, <1>5, <1>6, <1>7

\* An increasing sequence has as many members as elements.
LEMMA ClimbsSize ==
    ASSUME NEW s, Climbs(s)
    PROVE  IsFiniteSet(Members(s)) /\ Cardinality(Members(s)) = Len(s)
<1>. DEFINE f == [x \in 1 .. Len(s) |-> s[x]]
            D == 1 .. Len(s)
            M == Members(s)
<1>1. f \in [D -> M] /\ \A x \in D, y \in D : f[x] = f[y] => x = y
  BY ClimbsFacts
<1>2. \A v \in M : \E x \in D : f[x] = v
  BY ClimbsFacts
<1>3. IsFiniteSet(D) /\ Cardinality(D) = Len(s)
  <2>1. Len(s) \in Nat
    BY ClimbsFacts
  <2>. QED BY <2>1, FS_Interval, SMTT(120)
<1>. HIDE DEF f, D, M
<1>4. f \in Bijection(D, M)
  BY <1>1, <1>2 DEF Bijection, Injection, Surjection, IsInjective
<1>5. IsFiniteSet(M) /\ Cardinality(M) = Cardinality(D)
  BY <1>3, <1>4, FS_Bijection DEF ExistsBijection
<1>. QED BY <1>3, <1>5 DEF M

\* What has members of another is no longer than it, and as long only with all of them.
LEMMA ClimbsFit ==
    ASSUME NEW s, Climbs(s), NEW t, Climbs(t), Members(s) \subseteq Members(t)
    PROVE  Len(s) <= Len(t) /\ (Len(s) >= Len(t) => Members(s) = Members(t))
<1>1. Cardinality(Members(s)) <= Cardinality(Members(t))
      /\ (Cardinality(Members(t)) = Cardinality(Members(s)) => Members(t) = Members(s))
  BY ClimbsSize, FS_Subset
<1>2. Cardinality(Members(s)) = Len(s) /\ Cardinality(Members(t)) = Len(t)
  BY ClimbsSize
<1>3. Len(s) \in Nat /\ Len(t) \in Nat
  BY ClimbsFacts
<1>. QED BY <1>1, <1>2, <1>3

\* One goes on with another whose members are above its own.
LEMMA ClimbsOn ==
    ASSUME NEW s, Climbs(s), NEW t, Climbs(t), \A v \in Members(s), w \in Members(t) : v < w
    PROVE  Climbs(s \o t) /\ Members(s \o t) = Members(s) \union Members(t)
<1>1. s \in Seq(Nat) /\ t \in Seq(Nat) /\ s \o t \in Seq(Nat)
  BY DEF Climbs
<1>2. PICK m \in Nat, n \in Nat : m = Len(s) /\ n = Len(t)
  BY ClimbsFacts
<1>. DEFINE c == s \o t
<1>3. DOMAIN c = 1 .. m + n /\ Len(c) = m + n
  BY <1>1, <1>2
<1>4. \A x \in 1 .. m : c[x] = s[x] /\ s[x] \in Members(s)
  BY <1>1, <1>2, ClimbsFacts
<1>5. \A x \in 1 .. n : c[m + x] = t[x] /\ t[x] \in Members(t)
  BY <1>1, <1>2, ClimbsFacts
<1>6. \A x \in 1 .. m + n : x > m => c[x] = t[x - m] /\ x - m \in 1 .. n
  <2>. TAKE x \in 1 .. m + n
  <2>. HAVE x > m
  <2>1. x - m \in 1 .. n /\ m + (x - m) = x
    OBVIOUS
  <2>. QED BY <1>5, <2>1
<1>. HIDE DEF c
<1>7. ASSUME NEW x \in 1 .. m + n, NEW y \in 1 .. m + n, x < y PROVE c[x] < c[y]
  <2>1. CASE y <= m
    <3>1. x \in 1 .. m /\ y \in 1 .. m
      BY <1>7, <2>1
    <3>. QED BY <1>2, <1>4, <1>7, <3>1, ClimbsFacts, SMTT(120)
  <2>2. CASE x <= m /\ y > m
    <3>1. x \in 1 .. m
      BY <2>2
    <3>2. c[x] \in Members(s)
      BY <1>4, <3>1
    <3>3. c[y] \in Members(t)
      BY <1>5, <1>6, <2>2
    <3>. QED BY <3>2, <3>3
  <2>3. CASE x > m
    <3>1. y > m /\ x - m < y - m
      BY <1>7, <2>3
    <3>2. c[x] = t[x - m] /\ x - m \in 1 .. n /\ c[y] = t[y - m] /\ y - m \in 1 .. n
      BY <1>6, <2>3, <3>1
    <3>. QED BY <1>2, <3>1, <3>2, ClimbsFacts
  <2>. QED BY <2>1, <2>2, <2>3
<1>8. Members(c) = Members(s) \union Members(t)
  <2>1. ASSUME NEW v, v \in Members(c) PROVE v \in Members(s) \/ v \in Members(t)
    <3>1. PICK x \in 1 .. m + n : v = c[x]
      BY <1>3, <2>1 DEF Members
    <3>2. CASE x <= m
      <4>1. x \in 1 .. m
        BY <3>2
      <4>. QED BY <1>4, <3>1, <4>1
    <3>3. CASE x > m
      BY <1>5, <1>6, <3>1, <3>3
    <3>. QED BY <3>2, <3>3
  <2>2. ASSUME NEW v, v \in Members(s) PROVE v \in Members(c)
    <3>1. PICK x \in 1 .. m : v = s[x]
      BY <1>2, <2>2, ClimbsFacts
    <3>2. x \in 1 .. m + n
      OBVIOUS
    <3>. QED BY <1>3, <1>4, <3>1, <3>2 DEF Members
  <2>3. ASSUME NEW v, v \in Members(t) PROVE v \in Members(c)
    <3>1. PICK x \in 1 .. n : v = t[x]
      BY <1>2, <2>3, ClimbsFacts
    <3>2. m + x \in 1 .. m + n
      OBVIOUS
    <3>. QED BY <1>3, <1>5, <3>1, <3>2 DEF Members
  <2>. QED BY <2>1, <2>2, <2>3
<1>9. Climbs(c)
  BY <1>1, <1>3, <1>7 DEF c, Climbs
<1>. QED BY <1>8, <1>9 DEF c

\* One goes on with a number above its members.
LEMMA ClimbsAppend ==
    ASSUME NEW s, Climbs(s), NEW v \in Nat, \A w \in Members(s) : w < v
    PROVE  Climbs(Append(s, v)) /\ Members(Append(s, v)) = Members(s) \union {v}
<1>1. s \in Seq(Nat)
  BY DEF Climbs
<1>2. <<v>> \in Seq(Nat) /\ Len(<<v>>) = 1 /\ DOMAIN <<v>> = 1 .. 1 /\ <<v>>[1] = v
  OBVIOUS
<1>3. Climbs(<<v>>) /\ Members(<<v>>) = {v}
  BY <1>2 DEF Climbs, Members
<1>4. Append(s, v) = s \o <<v>>
  BY <1>1
<1>. QED BY <1>3, <1>4, ClimbsOn

-----------------------------------------------------------------------------
(* Intersection and difference.                                            *)

\* The pairs of equal elements, of which one side's has been passed.
Met(x, y) == {call.a[k] : k \in {k \in 1 .. Len(call.a) : \E m \in 1 .. Len(call.b) :
                                    call.a[k] = call.b[m] /\ (k <= x \/ m <= y)}}

\* What of a, up to x, b does not have.
Lone(x) == {call.a[k] : k \in {k \in 1 .. x : call.a[k] \notin Members(call.b)}}

\* No element of a behind x is one of b up to y.
Clear(x, y) == \A k \in 1 .. Len(call.a), m \in 1 .. Len(call.b) : k > x /\ m <= y => call.a[k] # call.b[m]

\* b up to y is below a from x on.
Under(x, y) == \A k \in 1 .. Len(call.a), m \in 1 .. Len(call.b) : k >= x /\ m <= y => call.b[m] < call.a[k]

TilesLone ==
    /\ Members(out) = Lone(st.i)
    /\ Under(st.i + SetBlock, st.j)
    /\ st.hit = {q \in 1 .. SetBlock : /\ st.i + q <= Len(call.a)
                                       /\ \E m \in 1 .. Len(call.b) : m <= st.j /\ call.b[m] = call.a[st.i + q]}
    /\ st.hit # {} => ATile

PendingLone ==
    /\ ATile /\ st.p \in 1 .. SetBlock + 1
    /\ Members(out) = Lone(st.i + st.p - 1)
    /\ Under(st.i + SetBlock + 1, st.j)
    /\ \A q \in st.p .. SetBlock :
         /\ q \in st.hit => call.a[st.i + q] \in Members(call.b)
         /\ \A m \in 1 .. Len(call.b) : m <= st.j /\ call.b[m] = call.a[st.i + q] => q \in st.hit

SetsStates == [pc : {"tiles", "pending", "cursors", "returned"}, i : Nat, j : Nat, p : Nat, hit : SUBSET Nat]

\* Where the walk is, and what has been written by then.
SetsPlace ==
    /\ st \in SetsStates /\ st.i <= Len(call.a) /\ st.j <= Len(call.b)
    /\ st.pc \in {"tiles", "pending"} => st.p \in 1 .. SetBlock + 1
    /\ call.op = "intersect" => st.pc # "pending"
    /\ call.op = "intersect" /\ st.pc \in {"tiles", "cursors"} => Members(out) = Met(st.i, st.j)
    /\ call.op = "difference" /\ st.pc = "tiles" => st.p = 1 /\ TilesLone
    /\ call.op = "difference" /\ st.pc = "pending" => PendingLone
    /\ call.op = "difference" /\ st.pc = "cursors" => Members(out) = Lone(st.i) /\ Clear(st.i, st.j)
    /\ Returned => Members(out) = Answer

SetsIndInv ==
    call.op \in {"intersect", "difference"} =>
    /\ Climbs(call.a) /\ Climbs(call.b) /\ Climbs(out)
    /\ SetsPlace

\* What the passed pairs are, and that those to come are above them.
LEMMA MetFacts ==
    ASSUME Climbs(call.a), Climbs(call.b), NEW x \in Nat, NEW y \in Nat
    PROVE  /\ \A v : v \in Met(x, y) <=> \E k \in 1 .. Len(call.a), m \in 1 .. Len(call.b) :
                                            v = call.a[k] /\ v = call.b[m] /\ (k <= x \/ m <= y)
           /\ \A k \in 1 .. Len(call.a), m \in 1 .. Len(call.b) : \A v \in Met(x, y) :
                 call.a[k] = call.b[m] /\ k > x /\ m > y => v < call.a[k]
<1>1. \A v : v \in Met(x, y) <=> \E k \in 1 .. Len(call.a), m \in 1 .. Len(call.b) :
                                    v = call.a[k] /\ v = call.b[m] /\ (k <= x \/ m <= y)
  BY DEF Met
<1>2. ASSUME NEW k \in 1 .. Len(call.a), NEW m \in 1 .. Len(call.b), NEW v \in Met(x, y),
             call.a[k] = call.b[m], k > x, m > y
      PROVE  v < call.a[k]
  <2>1. PICK k2 \in 1 .. Len(call.a), m2 \in 1 .. Len(call.b) :
               v = call.a[k2] /\ v = call.b[m2] /\ (k2 <= x \/ m2 <= y)
    BY <1>1
  <2>2. CASE k2 <= x
    <3>1. k2 < k
      BY <1>2, <2>2
    <3>2. call.a[k2] < call.a[k]
      BY <3>1, ClimbsFacts
    <3>. QED BY <2>1, <3>2
  <2>3. CASE m2 <= y
    <3>1. m2 < m
      BY <1>2, <2>3
    <3>2. call.b[m2] < call.b[m]
      BY <3>1, ClimbsFacts
    <3>. QED BY <1>2, <2>1, <3>2
  <2>. QED BY <2>1, <2>2, <2>3
<1>. QED BY <1>1, <1>2

\* What the passed elements of a that b lacks are, and that those to come are above them.
LEMMA LoneFacts ==
    ASSUME Climbs(call.a), Climbs(call.b), NEW x \in Nat, x <= Len(call.a)
    PROVE  /\ \A v : v \in Lone(x) <=> \E k \in 1 .. x : v = call.a[k] /\ call.a[k] \notin Members(call.b)
           /\ \A k \in 1 .. Len(call.a) : \A v \in Lone(x) : k > x => v < call.a[k]
           /\ Lone(x) \subseteq Members(call.a) \ Members(call.b)
<1>1. \A v : v \in Lone(x) <=> \E k \in 1 .. x : v = call.a[k] /\ call.a[k] \notin Members(call.b)
  BY DEF Lone
<1>2. \A k \in 1 .. x : k \in 1 .. Len(call.a)
  BY ClimbsFacts
<1>3. \A k \in 1 .. Len(call.a) : \A v \in Lone(x) : k > x => v < call.a[k]
  BY <1>1, <1>2, ClimbsFacts
<1>4. Lone(x) \subseteq Members(call.a) \ Members(call.b)
  BY <1>1, <1>2, ClimbsFacts
<1>. QED BY <1>1, <1>3, <1>4

\* The call's sequences climb: they are among the constant's.
LEMMA SetsCallType ==
    ASSUME SetsInit
    PROVE  call.op \in {"intersect", "difference"} /\ Climbs(call.a) /\ Climbs(call.b)
<1>1. call.op \in {"intersect", "difference"} /\ call.a \in Sets /\ call.b \in Sets
  BY DEF SetsInit
<1>. QED BY <1>1, SetsAssumption DEF Climbs

\* Nothing is passed or written when a call starts.
LEMMA SetsIndInvInit == ASSUME SetsInit PROVE SetsIndInv
<1>1. Climbs(call.a) /\ Climbs(call.b) /\ call.op \in {"intersect", "difference"}
  BY SetsCallType
<1>2. st.pc \in {"tiles", "cursors"} /\ st.i = 0 /\ st.j = 0 /\ st.p = 1 /\ st.hit = {} /\ st \in SetsStates
  <2>1. CASE call.impl = "kernel"
    <3>1. st = [pc |-> "tiles", i |-> 0, j |-> 0, p |-> 1, hit |-> {}]
      BY <2>1 DEF SetsInit
    <3>. QED BY <3>1 DEF SetsStates
  <2>2. CASE call.impl # "kernel"
    <3>1. st = [pc |-> "cursors", i |-> 0, j |-> 0, p |-> 1, hit |-> {}]
      BY <2>2 DEF SetsInit
    <3>. QED BY <3>1 DEF SetsStates
  <2>. QED BY <2>1, <2>2
<1>3. Climbs(out) /\ Members(out) = {}
  <2>1. out = <<>>
    BY DEF SetsInit
  <2>. QED BY <2>1 DEF Climbs, Members
<1>4. st.i <= Len(call.a) /\ st.j <= Len(call.b)
  BY <1>1, <1>2, ClimbsFacts
<1>5. Met(0, 0) = {}
  <2>1. \A k \in 1 .. Len(call.a), m \in 1 .. Len(call.b) : ~(k <= 0 \/ m <= 0)
    BY <1>1, ClimbsFacts
  <2>. QED BY <2>1 DEF Met
<1>6. Lone(0) = {} /\ Clear(0, 0)
  <2>1. \A m \in 1 .. Len(call.b) : ~(m <= 0)
    BY <1>1, ClimbsFacts
  <2>. QED BY <2>1 DEF Lone, Clear
<1>7. TilesLone
  <2>1. \A m \in 1 .. Len(call.b) : ~(m <= 0)
    BY <1>1, ClimbsFacts
  <2>2. Under(st.i + SetBlock, 0)
    BY <2>1 DEF Under
  <2>. QED BY <1>2, <1>3, <1>6, <2>1, <2>2 DEF TilesLone
<1>8. 1 \in 1 .. SetBlock + 1
  BY SetsAssumption
<1>. QED BY <1>1, <1>2, <1>3, <1>4, <1>5, <1>6, <1>7, <1>8 DEF SetsIndInv, SetsPlace, Returned

-----------------------------------------------------------------------------

\* What the lanes chosen of a whole block are.
LEMMA LanesFacts ==
    ASSUME Climbs(call.a), st.i \in Nat, ATile, NEW P \in SUBSET (1 .. SetBlock)
    PROVE  Climbs(LanesOf(P)) /\ Members(LanesOf(P)) = {call.a[st.i + q] : q \in P}
<1>. DEFINE L == LanesOf(P)
<1>1. PICK n \in Nat, d \in Nat : n = Len(call.a) /\ d = SetBlock
  BY ClimbsFacts, SetsAssumption
<1>2. IsFiniteSet(P) /\ P \in SUBSET Int /\ Cardinality(P) \in Nat
  <2>1. 1 \in Int /\ d \in Int
    BY <1>1
  <2>2. IsFiniteSet(1 .. d)
    BY <2>1, FS_Interval, Zenon
  <2>3. IsFiniteSet(P)
    BY <1>1, <2>2, FS_Subset
  <2>. QED BY <1>1, <2>3, FS_CardinalityType
<1>3. PICK c \in Nat : c = Cardinality(P)
  BY <1>2
<1>4. \A x \in 1 .. c : Nth(P, x) \in P
  BY <1>2, <1>3, NthOf
<1>5. \A q \in P : q \in Nat /\ q >= 1 /\ st.i + q \in 1 .. n
  <2>. TAKE q \in P
  <2>1. q \in 1 .. d /\ st.i + d <= n
    BY <1>1 DEF ATile
  <2>. QED BY <1>1, <2>1
<1>6. L = [x \in 1 .. c |-> call.a[st.i + Nth(P, x)]]
  BY <1>3 DEF LanesOf
<1>. HIDE DEF L
<1>7. \A x \in 1 .. c : L[x] = call.a[st.i + Nth(P, x)] /\ L[x] \in Nat
  <2>1. \A k \in 1 .. n : call.a[k] \in Nat
    BY <1>1, ClimbsFacts
  <2>. QED BY <1>4, <1>5, <1>6, <2>1
<1>8. L \in Seq(Nat) /\ DOMAIN L = 1 .. c
  BY <1>6, <1>7
<1>9. ASSUME NEW x \in 1 .. c, NEW y \in 1 .. c, x < y PROVE L[x] < L[y]
  <2>1. Nth(P, x) < Nth(P, y)
    BY <1>2, <1>3, <1>9, NthGrows
  <2>2. PICK q \in P, r \in P : q = Nth(P, x) /\ r = Nth(P, y) /\ q < r
    BY <1>4, <2>1
  <2>3. st.i + q \in 1 .. n /\ st.i + r \in 1 .. n /\ st.i + q < st.i + r
    BY <1>5, <2>2
  <2>4. call.a[st.i + q] < call.a[st.i + r]
    BY <1>1, <2>3, ClimbsFacts
  <2>. QED BY <1>7, <2>2, <2>4
<1>10. ASSUME NEW q \in P PROVE \E x \in 1 .. c : L[x] = call.a[st.i + q]
  <2>1. Place(P, q) \in 1 .. c /\ Nth(P, Place(P, q)) = q
    BY <1>2, <1>3, PlaceOf, NthAtPlace
  <2>. QED BY <1>7, <2>1
<1>11. Members(L) = {call.a[st.i + q] : q \in P}
  BY <1>4, <1>7, <1>8, <1>10, ZenonT(120) DEF Members
<1>12. Climbs(L)
  BY <1>8, <1>9 DEF Climbs
<1>. QED BY <1>11, <1>12 DEF L

\* A tile is inside both sides, and its last elements are the greatest of its blocks.
LEMMA TileFacts ==
    ASSUME Climbs(call.a), Climbs(call.b), st.i \in Nat, st.j \in Nat, Tile
    PROVE  /\ SetBlock \in Nat /\ SetBlock >= 1 /\ Len(call.a) \in Nat /\ Len(call.b) \in Nat
           /\ st.i + SetBlock <= Len(call.a) /\ st.j + SetBlock <= Len(call.b)
           /\ LastA = call.a[st.i + SetBlock] /\ LastB = call.b[st.j + SetBlock]
           /\ LastA \in Nat /\ LastB \in Nat
           /\ \A q \in 1 .. SetBlock : q \in TileHits <=>
                 \E m \in 1 .. Len(call.b) : st.j < m /\ m <= st.j + SetBlock /\ call.a[st.i + q] = call.b[m]
           /\ \A q \in 1 .. SetBlock : st.i + q \in 1 .. Len(call.a) /\ st.j + q \in 1 .. Len(call.b)
<1>1. PICK d \in Nat, na \in Nat, nb \in Nat : d = SetBlock /\ na = Len(call.a) /\ nb = Len(call.b) /\ d >= 1
  BY SetsAssumption, ClimbsFacts
<1>2. st.i + d <= na /\ st.j + d <= nb
  BY <1>1 DEF Tile, ATile
<1>3. (st.i + d - 1) + 1 = st.i + d /\ (st.j + d - 1) + 1 = st.j + d
  BY <1>1
<1>4. LastA = call.a[st.i + d] /\ LastB = call.b[st.j + d]
  BY <1>1, <1>3 DEF LastA, LastB, A, B
<1>5. st.i + d \in 1 .. na /\ st.j + d \in 1 .. nb
  BY <1>1, <1>2
<1>6. LastA \in Nat /\ LastB \in Nat
  BY <1>1, <1>4, <1>5, ClimbsFacts
<1>7. \A q \in 1 .. d : st.i + q \in 1 .. na /\ st.j + q \in 1 .. nb
  BY <1>1, <1>2, SMTT(120)
<1>8. ASSUME NEW q \in 1 .. d PROVE q \in TileHits <=>
                 \E m \in 1 .. nb : st.j < m /\ m <= st.j + d /\ call.a[st.i + q] = call.b[m]
  <2>1. ASSUME q \in TileHits PROVE \E m \in 1 .. nb : st.j < m /\ m <= st.j + d /\ call.a[st.i + q] = call.b[m]
    <3>1. PICK r \in 1 .. d : call.a[st.i + q] = call.b[st.j + r]
      BY <1>1, <2>1 DEF TileHits
    <3>2. st.j + r \in 1 .. nb /\ st.j < st.j + r /\ st.j + r <= st.j + d
      BY <1>7, <3>1
    <3>. QED BY <3>1, <3>2
  <2>2. ASSUME NEW m \in 1 .. nb, st.j < m, m <= st.j + d, call.a[st.i + q] = call.b[m] PROVE q \in TileHits
    <3>1. m - st.j \in 1 .. d /\ st.j + (m - st.j) = m
      BY <2>2
    <3>. QED BY <1>1, <2>2, <3>1 DEF TileHits
  <2>. QED BY <2>1, <2>2
<1>. QED BY <1>1, <1>2, <1>4, <1>6, <1>7, <1>8

\* After a tile is done: the blocks that are passed.
LEMMA AdvancedFacts ==
    ASSUME st \in SetsStates, SetBlock \in Nat, NEW t, t = Advanced
    PROVE  /\ t \in SetsStates /\ t.pc = st.pc /\ t.p = st.p /\ t.hit = st.hit
           /\ t.i = (IF LastA <= LastB THEN st.i + SetBlock ELSE st.i)
           /\ t.j = (IF LastB <= LastA THEN st.j + SetBlock ELSE st.j)
<1>. DEFINE x == IF LastA <= LastB THEN st.i + SetBlock ELSE st.i
            y == IF LastB <= LastA THEN st.j + SetBlock ELSE st.j
<1>1. x \in Nat /\ y \in Nat
  BY DEF SetsStates
<1>2. t = [st EXCEPT !.i = x, !.j = y]
  BY Zenon DEF Advanced
<1>. HIDE DEF x, y
<1>3. t \in SetsStates /\ t.pc = st.pc /\ t.p = st.p /\ t.hit = st.hit /\ t.i = x /\ t.j = y
  BY <1>1, <1>2 DEF SetsStates
<1>. QED BY <1>3 DEF x, y

\* What these depend on is the call and the cursors.
LEMMA SameSets ==
    ASSUME UNCHANGED call
    PROVE  /\ \A x, y : Met(x, y)' = Met(x, y) /\ Clear(x, y)' = Clear(x, y) /\ Under(x, y)' = Under(x, y)
           /\ \A x : Lone(x)' = Lone(x)
           /\ Answer' = Answer
           /\ Climbs(call.a)' = Climbs(call.a) /\ Climbs(call.b)' = Climbs(call.b)
BY DEF Met, Clear, Under, Lone, Answer, Climbs, Members

\* A tile of the intersection: all its common elements are written, and the block with the lesser end is passed, or both.
LEMMA IntersectTileInv == ASSUME SetsIndInv, IntersectTile PROVE SetsIndInv'
<1>1. /\ call.op = "intersect" /\ call' = call /\ st.pc = "tiles" /\ Tile
      /\ out' = out \o LanesOf(TileHits) /\ st' = Advanced
  BY DEF IntersectTile, SetsIn, In
<1>2. /\ Climbs(call.a) /\ Climbs(call.b) /\ Climbs(out) /\ st \in SetsStates /\ st.i \in Nat /\ st.j \in Nat
      /\ Members(out) = Met(st.i, st.j) /\ st.p \in 1 .. SetBlock + 1
  BY <1>1 DEF SetsIndInv, SetsPlace, SetsStates
<1>3. PICK d \in Nat, na \in Nat, nb \in Nat, i1 \in Nat, j1 \in Nat :
            /\ d = SetBlock /\ na = Len(call.a) /\ nb = Len(call.b) /\ d >= 1 /\ i1 = st.i /\ j1 = st.j
            /\ i1 + d <= na /\ j1 + d <= nb
  BY <1>1, <1>2, TileFacts
<1>4. PICK i2 \in Nat, j2 \in Nat :
            /\ i2 = st'.i /\ j2 = st'.j
            /\ i2 = IF LastA <= LastB THEN i1 + d ELSE i1
            /\ j2 = IF LastB <= LastA THEN j1 + d ELSE j1
  BY <1>1, <1>2, <1>3, AdvancedFacts, SMTT(120)
<1>5. st' \in SetsStates /\ st'.pc = "tiles" /\ st'.p = st.p
  BY <1>1, <1>2, <1>3, AdvancedFacts
<1>6. LastA = call.a[i1 + d] /\ LastB = call.b[j1 + d] /\ LastA \in Nat /\ LastB \in Nat
  BY <1>1, <1>2, <1>3, TileFacts
<1>7. /\ \A k \in 1 .. na : call.a[k] \in Nat /\ (k <= i1 + d <=> call.a[k] <= LastA)
      /\ \A m \in 1 .. nb : call.b[m] \in Nat /\ (m <= j1 + d <=> call.b[m] <= LastB)
  <2>1. ASSUME NEW k \in 1 .. na PROVE call.a[k] \in Nat /\ (k <= i1 + d <=> call.a[k] <= LastA)
    <3>1. i1 + d \in 1 .. na
      BY <1>3
    <3>2. call.a[k] \in Nat /\ (k <= i1 + d => call.a[k] <= call.a[i1 + d]) /\ (i1 + d < k => call.a[i1 + d] < call.a[k])
      BY <1>2, <1>3, <3>1, ClimbsFacts
    <3>. QED BY <1>6, <3>1, <3>2
  <2>2. ASSUME NEW m \in 1 .. nb PROVE call.b[m] \in Nat /\ (m <= j1 + d <=> call.b[m] <= LastB)
    <3>1. j1 + d \in 1 .. nb
      BY <1>3
    <3>2. call.b[m] \in Nat /\ (m <= j1 + d => call.b[m] <= call.b[j1 + d]) /\ (j1 + d < m => call.b[j1 + d] < call.b[m])
      BY <1>2, <1>3, <3>1, ClimbsFacts
    <3>. QED BY <1>6, <3>1, <3>2
  <2>. QED BY <2>1, <2>2
<1>14. /\ \A v : v \in Members(out) <=> \E k \in 1 .. na, m \in 1 .. nb :
                                            v = call.a[k] /\ v = call.b[m] /\ (k <= i1 \/ m <= j1)
       /\ \A k \in 1 .. na, m \in 1 .. nb : \A v \in Members(out) :
                 call.a[k] = call.b[m] /\ k > i1 /\ m > j1 => v < call.a[k]
  <2>1. Members(out) = Met(i1, j1)
    BY <1>2, <1>3
  <2>2. Climbs(call.a) /\ Climbs(call.b)
    BY <1>2
  <2>3. /\ \A v : v \in Met(i1, j1) <=> \E k \in 1 .. Len(call.a), m \in 1 .. Len(call.b) :
                                            v = call.a[k] /\ v = call.b[m] /\ (k <= i1 \/ m <= j1)
        /\ \A k \in 1 .. Len(call.a), m \in 1 .. Len(call.b) : \A v \in Met(i1, j1) :
                 call.a[k] = call.b[m] /\ k > i1 /\ m > j1 => v < call.a[k]
    BY <2>2, MetFacts
  <2>4. na = Len(call.a) /\ nb = Len(call.b)
    BY <1>3
  <2>. QED BY <2>1, <2>3, <2>4
<1>15. \A v : v \in Met(i2, j2) <=> \E k \in 1 .. na, m \in 1 .. nb :
                                        v = call.a[k] /\ v = call.b[m] /\ (k <= i2 \/ m <= j2)
  <2>1. Climbs(call.a) /\ Climbs(call.b)
    BY <1>2
  <2>2. \A v : v \in Met(i2, j2) <=> \E k \in 1 .. Len(call.a), m \in 1 .. Len(call.b) :
                                        v = call.a[k] /\ v = call.b[m] /\ (k <= i2 \/ m <= j2)
    <3>1. i2 \in Nat /\ j2 \in Nat
      BY <1>4
    <3>. QED BY ONLY <2>1, <3>1, MetFacts, SMTT(120)
  <2>3. na = Len(call.a) /\ nb = Len(call.b)
    BY <1>3
  <2>. QED BY <2>2, <2>3
<1>. DEFINE L == LanesOf(TileHits)
<1>8. Climbs(L) /\ Members(L) = {call.a[i1 + q] : q \in TileHits}
  <2>1. TileHits \in SUBSET (1 .. SetBlock)
    BY DEF TileHits
  <2>2. ATile
    BY <1>1 DEF Tile
  <2>. QED BY <1>2, <1>3, <2>1, <2>2, LanesFacts
<1>. HIDE DEF L
<1>9. \A v : v \in Members(L) <=> \E k \in 1 .. na, m \in 1 .. nb :
               /\ i1 < k /\ k <= i1 + d /\ j1 < m /\ m <= j1 + d /\ call.a[k] = v /\ call.b[m] = v
  <2>1. ASSUME NEW v, v \in Members(L)
        PROVE \E k \in 1 .. na, m \in 1 .. nb :
               /\ i1 < k /\ k <= i1 + d /\ j1 < m /\ m <= j1 + d /\ call.a[k] = v /\ call.b[m] = v
    <3>1. PICK q \in TileHits : v = call.a[i1 + q]
      BY <1>8, <2>1
    <3>2. q \in 1 .. d
      BY <1>3, <3>1 DEF TileHits
    <3>3. PICK m \in 1 .. nb : j1 < m /\ m <= j1 + d /\ call.a[i1 + q] = call.b[m]
      BY <1>1, <1>2, <1>3, <3>1, <3>2, TileFacts
    <3>4. i1 + q \in 1 .. na /\ i1 < i1 + q /\ i1 + q <= i1 + d
      BY <1>3, <3>2, SMTT(120)
    <3>. QED BY <3>1, <3>3, <3>4
  <2>2. ASSUME NEW k \in 1 .. na, NEW m \in 1 .. nb,
               i1 < k, k <= i1 + d, j1 < m, m <= j1 + d, call.a[k] = call.b[m]
        PROVE call.a[k] \in Members(L)
    <3>1. k - i1 \in 1 .. d /\ i1 + (k - i1) = k
      BY <2>2
    <3>2. k - i1 \in TileHits
      BY <1>1, <1>2, <1>3, <2>2, <3>1, TileFacts
    <3>. QED BY <1>8, <3>1, <3>2
  <2>. QED BY <2>1, <2>2
<1>10. Climbs(out') /\ Members(out') = Members(out) \union Members(L)
  <2>1. ASSUME NEW v \in Members(out), NEW w \in Members(L) PROVE v < w
    <3>1. PICK k \in 1 .. na, m \in 1 .. nb : i1 < k /\ j1 < m /\ call.a[k] = w /\ call.b[m] = w
      BY <1>9
    <3>. QED BY <1>14, <3>1
  <2>2. out' = out \o L
    BY <1>1 DEF L
  <2>. QED BY <1>2, <1>8, <2>1, <2>2, ClimbsOn
<1>11. Members(out') = Met(i2, j2)
  <2>1. ASSUME NEW v, v \in Met(i2, j2) PROVE v \in Members(out) \/ v \in Members(L)
    <3>1. PICK k \in 1 .. na, m \in 1 .. nb : v = call.a[k] /\ v = call.b[m] /\ (k <= i2 \/ m <= j2)
      BY <1>15, <2>1
    <3>2. CASE k <= i1 \/ m <= j1
      BY <1>14, <3>1, <3>2
    <3>3. CASE ~(k <= i1 \/ m <= j1)
      <4>1. k <= i1 + d /\ m <= j1 + d
        <5>1. CASE k <= i2
          <6>1. LastA <= LastB /\ k <= i1 + d
            BY <1>4, <3>3, <5>1
          <6>2. v \in Nat /\ v <= LastA
            BY <1>7, <3>1, <6>1
          <6>3. v <= LastB
            BY <1>6, <6>1, <6>2
          <6>. QED BY <1>7, <3>1, <6>1, <6>3
        <5>2. CASE m <= j2
          <6>1. LastB <= LastA /\ m <= j1 + d
            BY <1>4, <3>3, <5>2
          <6>2. v \in Nat /\ v <= LastB
            BY <1>7, <3>1, <6>1
          <6>3. v <= LastA
            BY <1>6, <6>1, <6>2
          <6>. QED BY <1>7, <3>1, <6>1, <6>3
        <5>. QED BY <3>1, <5>1, <5>2
      <4>2. i1 < k /\ j1 < m
        BY <3>3
      <4>. QED BY <1>9, <3>1, <4>1, <4>2
    <3>. QED BY <3>2, <3>3
  <2>2. ASSUME NEW v, v \in Members(out) PROVE v \in Met(i2, j2)
    <3>1. PICK k \in 1 .. na, m \in 1 .. nb : v = call.a[k] /\ v = call.b[m] /\ (k <= i1 \/ m <= j1)
      BY <1>14, <2>2
    <3>2. k <= i2 \/ m <= j2
      BY <1>3, <1>4, <3>1, SMTT(120)
    <3>. QED BY <1>15, <3>1, <3>2
  <2>3. ASSUME NEW v, v \in Members(L) PROVE v \in Met(i2, j2)
    <3>1. PICK k \in 1 .. na, m \in 1 .. nb :
               /\ i1 < k /\ k <= i1 + d /\ j1 < m /\ m <= j1 + d /\ call.a[k] = v /\ call.b[m] = v
      BY <1>9, <2>3
    <3>2. k <= i2 \/ m <= j2
      <4>1. LastA <= LastB \/ LastB <= LastA
        BY <1>6
      <4>. QED BY <1>4, <3>1, <4>1
    <3>. QED BY <1>15, <3>1, <3>2
  <2>. QED BY <1>10, <2>1, <2>2, <2>3
<1>12. i2 <= na /\ j2 <= nb
  <2>1. i1 <= i1 + d /\ j1 <= j1 + d
    BY ONLY d \in Nat, i1 \in Nat, j1 \in Nat
  <2>2. (i2 = i1 \/ i2 = i1 + d) /\ (j2 = j1 \/ j2 = j1 + d)
    BY <1>4, Zenon
  <2>3. i1 + d <= na /\ j1 + d <= nb
    BY <1>3
  <2>. QED BY ONLY <2>1, <2>2, <2>3
<1>13. SetsPlace'
  BY <1>1, <1>2, <1>3, <1>4, <1>5, <1>11, <1>12, SameSets DEF SetsPlace, Returned
<1>. QED BY <1>1, <1>2, <1>10, <1>13, SameSets DEF SetsIndInv

\* A tile of the difference: what b has of the block of a is remembered, and the block is written when it is passed.
LEMMA DifferenceTileInv == ASSUME SetsIndInv, DifferenceTile PROVE SetsIndInv'
<1>. DEFINE hits == st.hit \union TileHits
<1>1. /\ call.op = "difference" /\ call' = call /\ st.pc = "tiles" /\ Tile
      /\ IF LastA <= LastB
         THEN out' = out \o LanesOf(1 .. SetBlock \ hits) /\ st' = [Advanced EXCEPT !.hit = {}]
         ELSE out' = out /\ st' = [Advanced EXCEPT !.hit = hits]
  BY DEF DifferenceTile, SetsIn, In
<1>2. /\ Climbs(call.a) /\ Climbs(call.b) /\ Climbs(out) /\ st \in SetsStates /\ st.i \in Nat /\ st.j \in Nat
      /\ TilesLone /\ st.p = 1 /\ 1 \in 1 .. SetBlock + 1
  BY <1>1 DEF SetsIndInv, SetsPlace, SetsStates
<1>3. PICK d \in Nat, na \in Nat, nb \in Nat, i1 \in Nat, j1 \in Nat :
            /\ d = SetBlock /\ na = Len(call.a) /\ nb = Len(call.b) /\ d >= 1 /\ i1 = st.i /\ j1 = st.j
            /\ i1 + d <= na /\ j1 + d <= nb
  BY <1>1, <1>2, TileFacts
<1>4. LastA = call.a[i1 + d] /\ LastB = call.b[j1 + d] /\ LastA \in Nat /\ LastB \in Nat
  BY <1>1, <1>2, <1>3, TileFacts
<1>5. /\ \A k \in 1 .. na : call.a[k] \in Nat /\ (k <= i1 + d <=> call.a[k] <= LastA)
      /\ \A m \in 1 .. nb : call.b[m] \in Nat /\ (m <= j1 + d <=> call.b[m] <= LastB)
  <2>1. ASSUME NEW k \in 1 .. na PROVE call.a[k] \in Nat /\ (k <= i1 + d <=> call.a[k] <= LastA)
    <3>1. i1 + d \in 1 .. na
      BY <1>3
    <3>2. call.a[k] \in Nat /\ (k <= i1 + d => call.a[k] <= call.a[i1 + d]) /\ (i1 + d < k => call.a[i1 + d] < call.a[k])
      BY <1>2, <1>3, <3>1, ClimbsFacts
    <3>. QED BY <1>4, <3>1, <3>2
  <2>2. ASSUME NEW m \in 1 .. nb PROVE call.b[m] \in Nat /\ (m <= j1 + d <=> call.b[m] <= LastB)
    <3>1. j1 + d \in 1 .. nb
      BY <1>3
    <3>2. call.b[m] \in Nat /\ (m <= j1 + d => call.b[m] <= call.b[j1 + d]) /\ (j1 + d < m => call.b[j1 + d] < call.b[m])
      BY <1>2, <1>3, <3>1, ClimbsFacts
    <3>. QED BY <1>4, <3>1, <3>2
  <2>. QED BY <2>1, <2>2
<1>6. \A q \in 1 .. d : i1 + q \in 1 .. na /\ call.a[i1 + q] \in Nat /\ call.a[i1 + q] <= LastA
  <2>. TAKE q \in 1 .. d
  <2>1. i1 + q \in 1 .. na /\ i1 + q <= i1 + d
    BY <1>3, SMTT(120)
  <2>. QED BY <1>5, <2>1
<1>7. /\ \A k \in 1 .. na, m \in 1 .. nb : k >= i1 + d /\ m <= j1 => call.b[m] < call.a[k]
      /\ Members(out) = Lone(i1)
  BY <1>2, <1>3 DEF TilesLone, Under
<1>8. hits \subseteq 1 .. d
      /\ \A q \in 1 .. d : q \in hits <=> \E m \in 1 .. nb : m <= j1 + d /\ call.b[m] = call.a[i1 + q]
  <2>1. \A q \in 1 .. d : q \in st.hit <=> \E m \in 1 .. nb : m <= j1 /\ call.b[m] = call.a[i1 + q]
    <3>1. st.hit = {q \in 1 .. SetBlock : /\ st.i + q <= Len(call.a)
                                 /\ \E m \in 1 .. Len(call.b) : m <= st.j /\ call.b[m] = call.a[st.i + q]}
      BY <1>2 DEF TilesLone
    <3>2. \A q \in 1 .. d : i1 + q <= na
      BY <1>6
    <3>. QED BY <1>3, <3>1, <3>2
  <2>2. st.hit \subseteq 1 .. d /\ TileHits \subseteq 1 .. d
    BY <1>2, <1>3 DEF TilesLone, TileHits
  <2>3. \A q \in 1 .. d : q \in TileHits <=> \E m \in 1 .. nb : j1 < m /\ m <= j1 + d /\ call.a[i1 + q] = call.b[m]
    BY <1>1, <1>2, <1>3, TileFacts
  <2>4. ASSUME NEW q \in 1 .. d
        PROVE  q \in hits <=> \E m \in 1 .. nb : m <= j1 + d /\ call.b[m] = call.a[i1 + q]
    <3>1. \A m \in 1 .. nb : m <= j1 + d <=> (m <= j1 \/ (j1 < m /\ m <= j1 + d))
      BY <1>3
    <3>2. q \in hits <=> q \in st.hit \/ q \in TileHits
      OBVIOUS
    <3>. QED BY <2>1, <2>3, <3>1, <3>2, Zenon
  <2>5. hits \subseteq 1 .. d
    BY <2>2
  <2>. QED BY <2>4, <2>5
<1>. HIDE DEF hits
<1>9. PICK adv \in SetsStates : adv = Advanced
  BY <1>2, <1>3, AdvancedFacts
<1>10. /\ adv.pc = "tiles" /\ adv.p = 1
       /\ adv.i = (IF LastA <= LastB THEN i1 + d ELSE i1) /\ adv.j = (IF LastB <= LastA THEN j1 + d ELSE j1)
  BY <1>1, <1>2, <1>3, <1>9, AdvancedFacts
<1>11. CASE LastA <= LastB
  <2>. DEFINE P == 1 .. SetBlock \ hits
              L == LanesOf(P)
  <2>1. out' = out \o L /\ st' = [adv EXCEPT !.hit = {}]
    BY <1>1, <1>9, <1>11
  <2>2. PICK j2 \in Nat : j2 = adv.j /\ j2 <= nb /\ j2 <= j1 + d
                          /\ (j2 = j1 \/ (j2 = j1 + d /\ LastB = LastA))
    <3>1. CASE LastB <= LastA
      <4>1. adv.j = j1 + d
        BY <1>10, <3>1
      <4>2. LastB = LastA
        BY <1>4, <1>11, <3>1
      <4>. QED BY <1>3, <4>1, <4>2
    <3>2. CASE ~(LastB <= LastA)
      BY <1>3, <1>10, <3>2
    <3>. QED BY <3>1, <3>2
  <2>3. st' \in SetsStates /\ st'.pc = "tiles" /\ st'.p = 1 /\ st'.i = i1 + d /\ st'.j = j2 /\ st'.hit = {}
    <3>1. adv.i = i1 + d
      BY <1>10, <1>11
    <3>2. PICK e \in SUBSET Nat : e = {}
      OBVIOUS
    <3>3. st' = [adv EXCEPT !.hit = e]
      BY <2>1, <3>2
    <3>4. st' \in SetsStates /\ st'.pc = adv.pc /\ st'.p = adv.p /\ st'.i = adv.i /\ st'.j = adv.j /\ st'.hit = e
      BY <3>3 DEF SetsStates
    <3>. QED BY <1>10, <2>2, <3>1, <3>2, <3>4
  <2>4. Climbs(L) /\ Members(L) = {call.a[i1 + q] : q \in P}
    <3>1. P \in SUBSET (1 .. SetBlock) /\ ATile
      BY <1>1 DEF Tile
    <3>. QED BY <1>2, <1>3, <3>1, LanesFacts
  <2>. HIDE DEF L
  <2>5. \A v : v \in Members(L) <=> \E k \in 1 .. na : i1 < k /\ k <= i1 + d /\ v = call.a[k] /\ v \notin Members(call.b)
    <3>1. \A q \in 1 .. d : q \in hits <=> call.a[i1 + q] \in Members(call.b)
      <4>1. \A m \in 1 .. nb : \A q \in 1 .. d : call.b[m] = call.a[i1 + q] => m <= j1 + d
        <5>. TAKE m \in 1 .. nb
        <5>. TAKE q \in 1 .. d
        <5>. HAVE call.b[m] = call.a[i1 + q]
        <5>1. call.a[i1 + q] \in Nat /\ call.a[i1 + q] <= LastA /\ LastA <= LastB
          BY <1>6, <1>11
        <5>2. call.b[m] <= LastB
          BY <1>4, <5>1
        <5>. QED BY <1>5, <5>2
      <4>2. \A v : v \in Members(call.b) <=> \E m \in 1 .. nb : v = call.b[m]
        <5>1. \A v : v \in Members(call.b) <=> \E m \in 1 .. Len(call.b) : v = call.b[m]
          BY <1>2, ClimbsFacts
        <5>. QED BY <1>3, <5>1
      <4>. QED BY <1>8, <4>1, <4>2
    <3>2. ASSUME NEW v, v \in Members(L)
          PROVE  \E k \in 1 .. na : i1 < k /\ k <= i1 + d /\ v = call.a[k] /\ v \notin Members(call.b)
      <4>1. PICK q \in P : v = call.a[i1 + q]
        BY <2>4, <3>2
      <4>2. q \in 1 .. d /\ q \notin hits
        BY <1>3
      <4>3. i1 + q \in 1 .. na /\ i1 < i1 + q /\ i1 + q <= i1 + d
        BY <1>3, <4>2, SMTT(120)
      <4>. QED BY <3>1, <4>1, <4>2, <4>3
    <3>3. ASSUME NEW k \in 1 .. na, i1 < k, k <= i1 + d, call.a[k] \notin Members(call.b)
          PROVE  call.a[k] \in Members(L)
      <4>1. k - i1 \in 1 .. d /\ i1 + (k - i1) = k
        BY <3>3
      <4>2. k - i1 \in P
        BY <1>3, <3>1, <3>3, <4>1
      <4>. QED BY <2>4, <4>1, <4>2
    <3>. QED BY <3>2, <3>3
  <2>6. /\ \A v : v \in Lone(i1) <=> \E k \in 1 .. i1 : v = call.a[k] /\ call.a[k] \notin Members(call.b)
        /\ \A k \in 1 .. na : \A v \in Lone(i1) : k > i1 => v < call.a[k]
        /\ \A v : v \in Lone(i1 + d) <=> \E k \in 1 .. i1 + d : v = call.a[k] /\ call.a[k] \notin Members(call.b)
    <3>1. Climbs(call.a) /\ Climbs(call.b) /\ i1 + d \in Nat /\ i1 <= Len(call.a) /\ i1 + d <= Len(call.a)
      BY <1>2, <1>3
    <3>. QED BY <1>3, <3>1, LoneFacts
  <2>7. Climbs(out') /\ Members(out') = Lone(i1) \union Members(L)
    <3>1. \A v \in Members(out), w \in Members(L) : v < w
      BY <1>7, <2>5, <2>6
    <3>. QED BY <1>2, <1>7, <2>1, <2>4, <3>1, ClimbsOn
  <2>8. Members(out') = Lone(i1 + d)
    <3>1. ASSUME NEW v, v \in Lone(i1 + d) PROVE v \in Lone(i1) \/ v \in Members(L)
      <4>1. PICK k \in 1 .. i1 + d : v = call.a[k] /\ call.a[k] \notin Members(call.b)
        BY <2>6, <3>1
      <4>2. k \in 1 .. i1 \/ (i1 < k /\ k \in 1 .. na)
        BY <1>3
      <4>. QED BY <2>5, <2>6, <4>1, <4>2
    <3>2. Lone(i1) \subseteq Lone(i1 + d)
      <4>1. \A k \in 1 .. i1 : k \in 1 .. i1 + d
        OBVIOUS
      <4>. QED BY <2>6, <4>1
    <3>3. ASSUME NEW v, v \in Members(L) PROVE v \in Lone(i1 + d)
      <4>1. PICK k \in 1 .. na : i1 < k /\ k <= i1 + d /\ v = call.a[k] /\ v \notin Members(call.b)
        BY <2>5, <3>3
      <4>2. k \in 1 .. i1 + d
        BY <4>1
      <4>. QED BY <2>6, <4>1, <4>2
    <3>. QED BY <2>7, <3>1, <3>2, <3>3
  <2>9. \A k \in 1 .. na, m \in 1 .. nb : k > i1 + d /\ m <= j2 => call.b[m] < call.a[k]
    <3>. TAKE k \in 1 .. na, m \in 1 .. nb
    <3>. HAVE k > i1 + d /\ m <= j2
    <3>1. CASE m <= j1
      BY <1>7, <3>1
    <3>2. CASE m > j1
      <4>1. j2 = j1 + d /\ LastB = LastA
        BY <2>2, <3>2
      <4>2. call.b[m] <= LastB /\ call.b[m] \in Nat
        BY <1>5, <4>1
      <4>3. ~(call.a[k] <= LastA) /\ call.a[k] \in Nat
        BY <1>5
      <4>. QED BY <1>4, <4>1, <4>2, <4>3
    <3>. QED BY <3>1, <3>2
  <2>10. TilesLone'
    <3>1. Under(i1 + d + d, j2)
      BY <1>3, <2>9 DEF Under
    <3>2. ASSUME NEW q \in 1 .. d, i1 + d + q <= na, NEW m \in 1 .. nb, m <= j2, call.b[m] = call.a[i1 + d + q] PROVE FALSE
      <4>1. i1 + d + q \in 1 .. na /\ i1 + d + q > i1 + d
        BY <3>2
      <4>2. call.a[i1 + d + q] \in Nat
        BY <1>5, <4>1
      <4>. QED BY <2>9, <3>2, <4>1, <4>2
    <3>3. st'.hit = {q \in 1 .. SetBlock : /\ st'.i + q <= Len(call.a)
                              /\ \E m \in 1 .. Len(call.b) : m <= st'.j /\ call.b[m] = call.a[st'.i + q]}
      BY <1>3, <2>3, <3>2
    <3>. QED BY <1>1, <1>3, <2>3, <2>8, <3>1, <3>3, SameSets DEF TilesLone
  <2>. QED BY <1>1, <1>2, <1>3, <2>2, <2>3, <2>7, <2>10, SameSets DEF SetsIndInv, SetsPlace, Returned
<1>12. CASE ~(LastA <= LastB)
  <2>1. out' = out /\ st' = [adv EXCEPT !.hit = hits] /\ LastB < LastA
    BY <1>1, <1>4, <1>9, <1>12
  <2>2. adv.i = i1 /\ adv.j = j1 + d
    BY <1>10, <1>12, <2>1, <1>4
  <2>3. st' \in SetsStates /\ st'.pc = "tiles" /\ st'.p = 1 /\ st'.i = i1 /\ st'.j = j1 + d /\ st'.hit = hits
    <3>1. PICK e \in SUBSET Nat : e = hits
      BY <1>8
    <3>2. st' = [adv EXCEPT !.hit = e]
      BY <2>1, <3>1
    <3>3. st' \in SetsStates /\ st'.pc = adv.pc /\ st'.p = adv.p /\ st'.i = adv.i /\ st'.j = adv.j /\ st'.hit = e
      BY <3>2 DEF SetsStates
    <3>. QED BY <1>10, <2>2, <3>1, <3>3
  <2>4. \A k \in 1 .. na, m \in 1 .. nb : k >= i1 + d /\ m <= j1 + d => call.b[m] < call.a[k]
    <3>. TAKE k \in 1 .. na, m \in 1 .. nb
    <3>. HAVE k >= i1 + d /\ m <= j1 + d
    <3>1. call.b[m] <= LastB /\ call.b[m] \in Nat
      BY <1>5
    <3>2. LastA <= call.a[k] /\ call.a[k] \in Nat
      <4>1. i1 + d \in 1 .. na
        BY <1>3
      <4>. QED BY <1>2, <1>3, <1>4, <4>1, ClimbsFacts
    <3>. QED BY <1>4, <2>1, <3>1, <3>2
  <2>5. TilesLone'
    <3>1. Under(i1 + d, j1 + d)
      BY <1>3, <2>4 DEF Under
    <3>2. \A q \in 1 .. d : i1 + q <= na
      BY <1>6
    <3>3. hits = {q \in 1 .. SetBlock : /\ i1 + q <= Len(call.a)
                              /\ \E m \in 1 .. Len(call.b) : m <= j1 + d /\ call.b[m] = call.a[i1 + q]}
      BY <1>3, <1>8, <3>2
    <3>4. ATile'
      <4>1. st'.i + SetBlock <= Len(call.a)
        BY <1>3, <2>3
      <4>. QED BY <1>1, <4>1 DEF ATile
    <3>5. st'.hit = {q \in 1 .. SetBlock : /\ st'.i + q <= Len(call.a)
                              /\ \E m \in 1 .. Len(call.b) : m <= st'.j /\ call.b[m] = call.a[st'.i + q]}
      BY <2>3, <3>3
    <3>. QED BY <1>1, <1>3, <1>7, <2>1, <2>3, <3>1, <3>4, <3>5, SameSets, SMTT(120) DEF TilesLone
  <2>. QED BY <1>1, <1>2, <1>3, <2>1, <2>3, <2>5, SameSets DEF SetsIndInv, SetsPlace, Returned
<1>. QED BY <1>11, <1>12

\* What a step of these functions starts from.
LEMMA SetsFacts ==
    ASSUME SetsIndInv, call.op \in {"intersect", "difference"}
    PROVE  /\ Climbs(call.a) /\ Climbs(call.b) /\ Climbs(out) /\ st \in SetsStates
           /\ st.i \in Nat /\ st.j \in Nat /\ st.p \in Nat
           /\ st.i <= Len(call.a) /\ st.j <= Len(call.b) /\ Len(call.a) \in Nat /\ Len(call.b) \in Nat
           /\ SetBlock \in Nat /\ SetBlock >= 1
           /\ SetsPlace
           /\ \A k \in 1 .. Len(call.a) : call.a[k] \in Nat
           /\ \A m \in 1 .. Len(call.b) : call.b[m] \in Nat
           /\ \A v : v \in Members(call.b) <=> \E m \in 1 .. Len(call.b) : v = call.b[m]
           /\ \A v : v \in Members(call.a) <=> \E k \in 1 .. Len(call.a) : v = call.a[k]
<1>1. /\ Climbs(call.a) /\ Climbs(call.b) /\ Climbs(out) /\ SetsPlace /\ st \in SetsStates
      /\ st.i <= Len(call.a) /\ st.j <= Len(call.b)
  BY DEF SetsIndInv, SetsPlace
<1>2. st.i \in Nat /\ st.j \in Nat /\ st.p \in Nat
  BY <1>1 DEF SetsStates
<1>3. /\ \A k \in 1 .. Len(call.a) : call.a[k] \in Nat
      /\ \A m \in 1 .. Len(call.b) : call.b[m] \in Nat
      /\ \A v : v \in Members(call.b) <=> \E m \in 1 .. Len(call.b) : v = call.b[m]
      /\ \A v : v \in Members(call.a) <=> \E k \in 1 .. Len(call.a) : v = call.a[k]
      /\ Len(call.a) \in Nat /\ Len(call.b) \in Nat
  BY <1>1, ClimbsFacts
<1>. QED BY <1>1, <1>2, <1>3, SetsAssumption

\* A side is out of whole blocks, or there is no room: the block of a may be pending.
LEMMA TilesEndInv == ASSUME SetsIndInv, TilesEnd PROVE SetsIndInv'
<1>1. /\ call.op \in {"intersect", "difference"} /\ call' = call /\ out' = out /\ st.pc = "tiles" /\ ~Tile
      /\ st' = [st EXCEPT !.pc = IF call.op = "difference" /\ ATile THEN "pending" ELSE "cursors"]
  BY DEF TilesEnd, SetsIn, In
<1>2. /\ Climbs(call.a) /\ Climbs(call.b) /\ Climbs(out) /\ st \in SetsStates
      /\ st.i \in Nat /\ st.j \in Nat /\ st.p \in 1 .. SetBlock + 1
      /\ st.i <= Len(call.a) /\ st.j <= Len(call.b) /\ SetBlock \in Nat /\ SetBlock >= 1
      /\ call.op = "intersect" => Members(out) = Met(st.i, st.j)
      /\ call.op = "difference" => st.p = 1 /\ TilesLone
  BY <1>1, SetsFacts DEF SetsPlace
<1>3. CASE call.op = "difference" /\ ATile
  <2>1. st' \in SetsStates /\ st'.pc = "pending" /\ st'.i = st.i /\ st'.j = st.j /\ st'.p = st.p /\ st'.hit = st.hit
    <3>1. st' = [st EXCEPT !.pc = "pending"]
      BY <1>1, <1>3
    <3>. QED BY <1>2, <3>1 DEF SetsStates
  <2>2. PendingLone
    <3>1. Members(out) = Lone(st.i + st.p - 1)
      <4>1. st.i + st.p - 1 = st.i
        BY <1>2, <1>3
      <4>. QED BY <1>2, <1>3, <4>1 DEF TilesLone
    <3>2. Under(st.i + SetBlock + 1, st.j)
      <4>1. \A k \in 1 .. Len(call.a) : k >= st.i + SetBlock + 1 => k >= st.i + SetBlock
        BY <1>2, ClimbsFacts
      <4>. QED BY <1>2, <1>3, <4>1 DEF TilesLone, Under
    <3>3. \A q \in st.p .. SetBlock :
         /\ q \in st.hit => call.a[st.i + q] \in Members(call.b)
         /\ \A m \in 1 .. Len(call.b) : m <= st.j /\ call.b[m] = call.a[st.i + q] => q \in st.hit
      <4>1. st.hit = {q \in 1 .. SetBlock : /\ st.i + q <= Len(call.a)
                              /\ \E m \in 1 .. Len(call.b) : m <= st.j /\ call.b[m] = call.a[st.i + q]}
        BY <1>2, <1>3 DEF TilesLone
      <4>2. \A q \in st.p .. SetBlock : q \in 1 .. SetBlock /\ st.i + q <= Len(call.a)
        BY <1>2, <1>3, ClimbsFacts DEF ATile
      <4>3. \A m \in 1 .. Len(call.b) : call.b[m] \in Members(call.b)
        BY <1>2, ClimbsFacts
      <4>. QED BY <4>1, <4>2, <4>3
    <3>. QED BY <1>2, <1>3, <3>1, <3>2, <3>3 DEF PendingLone
  <2>3. PendingLone'
    BY <1>1, <2>1, <2>2, SameSets DEF PendingLone, ATile
  <2>. QED BY <1>1, <1>2, <1>3, <2>1, <2>3, SameSets DEF SetsIndInv, SetsPlace, Returned
<1>4. CASE ~(call.op = "difference" /\ ATile)
  <2>1. st' \in SetsStates /\ st'.pc = "cursors" /\ st'.i = st.i /\ st'.j = st.j /\ st'.p = st.p
    <3>1. st' = [st EXCEPT !.pc = "cursors"]
      BY <1>1, <1>4
    <3>. QED BY <1>2, <3>1 DEF SetsStates
  <2>2. call.op = "difference" => Members(out) = Lone(st.i) /\ Clear(st.i, st.j)
    <3>. HAVE call.op = "difference"
    <3>1. TilesLone /\ ~ATile /\ st.hit = {}
      BY <1>2, <1>4 DEF TilesLone
    <3>2. ASSUME NEW k \in 1 .. Len(call.a), NEW m \in 1 .. Len(call.b), k > st.i, m <= st.j, call.a[k] = call.b[m]
          PROVE  FALSE
      <4>1. k - st.i \in 1 .. SetBlock /\ st.i + (k - st.i) = k /\ k <= Len(call.a)
        BY <1>2, <3>1, <3>2, ClimbsFacts, SMTT(120) DEF ATile
      <4>2. k - st.i \in st.hit
        BY <3>1, <3>2, <4>1 DEF TilesLone
      <4>. QED BY <3>1, <4>2
    <3>. QED BY <3>1, <3>2 DEF TilesLone, Clear
  <2>. QED BY <1>1, <1>2, <2>1, <2>2, SameSets DEF SetsIndInv, SetsPlace, Returned
<1>. QED BY <1>3, <1>4

\* A lane of the pending block is written, unless b has it in a tile or from the cursor on.
LEMMA PendingLaneInv == ASSUME SetsIndInv, PendingLane PROVE SetsIndInv'
<1>. DEFINE x == A(st.i + st.p - 1)
            Stop(y) == /\ y < Len(call.b) => B(y) >= x
                       /\ \A k \in st.j .. y - 1 : B(k) < x
            j == CHOOSE y \in st.j .. Len(call.b) : Stop(y)
            met == j < Len(call.b) /\ B(j) = x
<1>1. /\ call.op = "difference" /\ call' = call /\ st.pc = "pending" /\ st.p <= SetBlock
      /\ st' = [st EXCEPT !.p = @ + 1, !.j = IF met THEN j + 1 ELSE j]
      /\ out' = IF met \/ st.p \in st.hit THEN out ELSE Append(out, x)
  BY DEF PendingLane, SetsIn, In
<1>2. /\ Climbs(call.a) /\ Climbs(call.b) /\ Climbs(out) /\ st \in SetsStates
      /\ st.i \in Nat /\ st.j \in Nat /\ st.p \in Nat
      /\ st.j <= Len(call.b) /\ Len(call.a) \in Nat /\ Len(call.b) \in Nat
      /\ SetBlock \in Nat /\ PendingLone /\ st.i <= Len(call.a)
  BY <1>1, SetsFacts DEF SetsPlace
<1>3. PICK na \in Nat, nb \in Nat, d \in Nat, i1 \in Nat, j1 \in Nat, p1 \in Nat :
            /\ na = Len(call.a) /\ nb = Len(call.b) /\ d = SetBlock /\ i1 = st.i /\ j1 = st.j /\ p1 = st.p
            /\ i1 + d <= na /\ j1 <= nb /\ p1 >= 1 /\ p1 <= d
  <2>1. st.i + SetBlock <= Len(call.a) /\ st.p \in 1 .. SetBlock + 1
    BY <1>2 DEF PendingLone, ATile
  <2>2. st.p >= 1 /\ st.p <= SetBlock
    BY <1>1, <1>2, <2>1
  <2>. QED BY <1>2, <2>1, <2>2, Zenon
<1>4. x = call.a[i1 + p1] /\ x \in Nat /\ i1 + p1 \in 1 .. na
  <2>1. i1 + p1 - 1 + 1 = i1 + p1 /\ i1 + p1 \in 1 .. na
    BY <1>3, SMTT(120)
  <2>2. x = call.a[i1 + p1]
    BY <1>3, <2>1 DEF A
  <2>3. \A k \in 1 .. Len(call.a) : call.a[k] \in Nat
    BY <1>2, ClimbsFacts
  <2>. QED BY <1>3, <2>1, <2>2, <2>3
<1>5. \A m \in 1 .. nb : call.b[m] \in Nat /\ B(m - 1) = call.b[m]
  <2>1. \A m \in 1 .. Len(call.b) : call.b[m] \in Nat
    BY <1>2, ClimbsFacts
  <2>2. \A m \in 1 .. nb : m - 1 + 1 = m
    OBVIOUS
  <2>. QED BY <1>3, <2>1, <2>2 DEF B
<1>. HIDE DEF x
<1>6. \E y \in j1 .. nb : Stop(y)
  <2>. DEFINE S == {y \in j1 .. nb : y < nb => B(y) >= x}
  <2>1. S \in SUBSET Nat /\ nb \in S
    BY <1>3
  <2>2. PICK y \in S : \A z \in S : y <= z
    BY <2>1, LeastNatural
  <2>3. \A k \in j1 .. y - 1 : B(k) < x
    <3>. TAKE k \in j1 .. y - 1
    <3>1. k \notin S /\ k \in j1 .. nb
      BY <2>2
    <3>2. k < nb /\ ~(B(k) >= x)
      BY <3>1
    <3>3. B(k) \in Nat
      <4>1. k + 1 \in 1 .. nb /\ (k + 1) - 1 = k
        BY <3>1, <3>2
      <4>. QED BY <1>5, <4>1
    <3>. QED BY <1>4, <3>2, <3>3
  <2>. QED BY <1>3, <2>2, <2>3
<1>7. j \in j1 .. nb /\ Stop(j)
  BY <1>3, <1>6
<1>8. PICK jj \in Nat : jj = j /\ jj \in j1 .. nb /\ Stop(jj)
  BY <1>7
<1>9. met <=> jj < nb /\ B(jj) = x
  BY <1>3, <1>8
<1>. HIDE DEF j, met
<1>10. /\ \A m \in 1 .. nb : j1 < m /\ m <= jj => call.b[m] < x
       /\ \A m \in 1 .. nb : m > jj => call.b[m] >= x
       /\ met => jj + 1 \in 1 .. nb /\ call.b[jj + 1] = x
  <2>1. ASSUME NEW m \in 1 .. nb, j1 < m, m <= jj PROVE call.b[m] < x
    <3>1. m - 1 \in st.j .. jj - 1
      BY <1>3, <2>1
    <3>. QED BY <1>5, <1>8, <3>1
  <2>2. ASSUME NEW m \in 1 .. nb, m > jj PROVE call.b[m] >= x
    <3>1. jj + 1 \in 1 .. nb /\ jj + 1 - 1 = jj /\ jj < nb
      BY <2>2
    <3>2. call.b[jj + 1] >= x
      BY <1>3, <1>5, <1>8, <3>1
    <3>3. call.b[jj + 1] <= call.b[m]
      <4>1. jj + 1 <= m
        BY <2>2
      <4>. QED BY <1>2, <1>3, <3>1, <4>1, ClimbsFacts
    <3>. QED BY <1>4, <1>5, <3>1, <3>2, <3>3
  <2>3. ASSUME met PROVE jj + 1 \in 1 .. nb /\ call.b[jj + 1] = x
    <3>1. jj < nb /\ B(jj) = x
      BY <1>9, <2>3
    <3>2. jj + 1 \in 1 .. nb /\ jj + 1 - 1 = jj
      BY <3>1
    <3>. QED BY <1>5, <3>1, <3>2
  <2>. QED BY <2>1, <2>2, <2>3
<1>11. PICK j2 \in Nat : j2 = (IF met THEN jj + 1 ELSE jj) /\ j1 <= j2 /\ j2 <= nb
  <2>1. CASE met
    BY <1>8, <1>10, <2>1
  <2>2. CASE ~met
    BY <1>8, <2>2
  <2>. QED BY <2>1, <2>2
<1>12. \A m \in 1 .. nb : j1 < m /\ m <= j2 => call.b[m] <= x
  <2>. TAKE m \in 1 .. nb
  <2>. HAVE j1 < m /\ m <= j2
  <2>1. CASE m <= jj
    BY <1>4, <1>5, <1>10, <2>1
  <2>2. CASE m > jj
    <3>1. met /\ m = jj + 1
      BY <1>11, <2>2
    <3>. QED BY <1>4, <1>10, <3>1
  <2>. QED BY <2>1, <2>2
<1>13. /\ st' \in SetsStates /\ st'.pc = "pending" /\ st'.i = i1 /\ st'.p = p1 + 1 /\ st'.j = j2 /\ st'.hit = st.hit
  <2>1. PICK p2 \in Nat : p2 = p1 + 1
    OBVIOUS
  <2>2. st' = [st EXCEPT !.p = p2, !.j = j2]
    BY <1>1, <1>3, <1>8, <1>11, <2>1, Zenon
  <2>3. st' \in SetsStates /\ st'.pc = st.pc /\ st'.i = st.i /\ st'.p = p2 /\ st'.j = j2 /\ st'.hit = st.hit
    BY <1>2, <2>2 DEF SetsStates
  <2>. QED BY <1>1, <1>3, <2>1, <2>3
<1>14. met \/ p1 \in st.hit <=> x \in Members(call.b)
  <2>1. p1 \in p1 .. d
    BY <1>3
  <2>2. /\ p1 \in st.hit => x \in Members(call.b)
        /\ \A m \in 1 .. nb : m <= j1 /\ call.b[m] = x => p1 \in st.hit
    BY <1>2, <1>3, <1>4, <2>1 DEF PendingLone
  <2>3. \A v : v \in Members(call.b) <=> \E m \in 1 .. nb : v = call.b[m]
    <3>1. \A v : v \in Members(call.b) <=> \E m \in 1 .. Len(call.b) : v = call.b[m]
      BY <1>2, ClimbsFacts
    <3>. QED BY <1>3, <3>1
  <2>4. ASSUME met PROVE x \in Members(call.b)
    <3>1. jj + 1 \in 1 .. nb /\ x = call.b[jj + 1]
      BY <1>10, <2>4
    <3>. QED BY <2>3, <3>1
  <2>5. ASSUME x \in Members(call.b), p1 \notin st.hit PROVE met
    <3>1. PICK m \in 1 .. nb : x = call.b[m]
      BY <2>3, <2>5
    <3>2. m > j1
      BY <1>3, <2>2, <2>5, <3>1
    <3>3. m > jj
      <4>1. m <= jj => call.b[m] < x
        BY <1>10, <3>2
      <4>. QED BY <1>4, <3>1, <4>1
    <3>4. jj + 1 \in 1 .. nb /\ jj < nb /\ jj + 1 <= m
      BY <3>3
    <3>5. call.b[jj + 1] >= x /\ call.b[jj + 1] <= call.b[m]
      <4>1. jj + 1 > jj
        OBVIOUS
      <4>. QED BY <1>2, <1>3, <1>10, <3>4, <4>1, ClimbsFacts
    <3>6. call.b[jj + 1] = x
      BY <1>4, <1>5, <3>1, <3>4, <3>5
    <3>7. B(jj) = x
      <4>1. jj + 1 - 1 = jj
        OBVIOUS
      <4>. QED BY <1>5, <3>4, <3>6, <4>1
    <3>. QED BY <1>9, <3>4, <3>7
  <2>. QED BY <2>2, <2>4, <2>5
<1>15. PICK e \in Nat : e = i1 + p1 - 1 /\ e + 1 = i1 + p1 /\ e + 1 <= na
  <2>1. p1 >= 1 /\ p1 <= d /\ i1 + d <= na
    BY <1>3
  <2>2. i1 + p1 - 1 \in Nat /\ i1 + p1 - 1 + 1 = i1 + p1
    BY <2>1
  <2>3. i1 + p1 <= na
    BY <2>1
  <2>. QED BY <2>2, <2>3
<1>16. /\ \A v : v \in Lone(e) <=> \E k \in 1 .. e : v = call.a[k] /\ call.a[k] \notin Members(call.b)
       /\ \A k \in 1 .. na : \A v \in Lone(e) : k > e => v < call.a[k]
       /\ \A v : v \in Lone(e + 1) <=> \E k \in 1 .. e + 1 : v = call.a[k] /\ call.a[k] \notin Members(call.b)
       /\ Members(out) = Lone(e)
  <2>1. Climbs(call.a) /\ Climbs(call.b) /\ e <= Len(call.a) /\ e + 1 <= Len(call.a) /\ e + 1 \in Nat
    <3>1. e + 1 \in Nat /\ e <= na
      BY ONLY <1>15
    <3>. QED BY <1>2, <1>3, <1>15, <3>1, ZenonT(120)
  <2>2. Members(out) = Lone(e)
    BY <1>2, <1>3, <1>15 DEF PendingLone
  <2>. QED BY <1>3, <2>1, <2>2, LoneFacts
<1>17. Climbs(out') /\ Members(out') = Lone(e + 1)
  <2>1. \A k \in 1 .. e + 1 : k \in 1 .. e \/ k = e + 1
    OBVIOUS
  <2>2. \A k \in 1 .. e : k \in 1 .. e + 1
    OBVIOUS
  <2>3. e + 1 \in 1 .. e + 1 /\ e + 1 \in 1 .. na /\ e + 1 > e
    BY <1>15
  <2>4. x = call.a[e + 1]
    BY <1>4, <1>15
  <2>5. CASE x \in Members(call.b)
    <3>1. out' = out
      BY <1>1, <1>3, <1>14, <2>5
    <3>2. Lone(e + 1) = Lone(e)
      BY <1>16, <2>1, <2>2, <2>4, <2>5
    <3>. QED BY <1>2, <1>16, <3>1, <3>2
  <2>6. CASE x \notin Members(call.b)
    <3>1. out' = Append(out, x)
      BY <1>1, <1>3, <1>14, <2>6
    <3>2. Lone(e + 1) = Lone(e) \union {x}
      BY <1>16, <2>1, <2>2, <2>3, <2>4, <2>6
    <3>3. \A w \in Members(out) : w < x
      BY <1>16, <2>3, <2>4
    <3>. QED BY <1>2, <1>4, <1>16, <3>1, <3>2, <3>3, ClimbsAppend
  <2>. QED BY <2>5, <2>6
<1>18. PendingLone'
  <2>1. st'.p \in 1 .. SetBlock + 1 /\ st'.i + st'.p - 1 = e + 1
    <3>1. st'.p = p1 + 1 /\ st'.i = i1
      BY <1>13
    <3>2. p1 + 1 \in 1 .. d + 1 /\ i1 + (p1 + 1) - 1 = e + 1
      BY <1>3, <1>15, SMTT(120)
    <3>. QED BY <1>3, <3>1, <3>2
  <2>2. \A k \in 1 .. na : k > i1 + p1 => call.a[k] > x /\ call.a[k] \in Nat
    <3>1. \A k \in 1 .. Len(call.a) : k > i1 + p1 => call.a[k] > call.a[i1 + p1] /\ call.a[k] \in Nat
      BY <1>2, <1>3, <1>4, ClimbsFacts
    <3>. QED BY <1>3, <1>4, <3>1
  <2>3. Under(i1 + d + 1, j2)
    <3>1. ASSUME NEW k \in 1 .. na, NEW m \in 1 .. nb, k >= i1 + d + 1, m <= j2 PROVE call.b[m] < call.a[k]
      <4>1. CASE m <= j1
        BY <1>2, <1>3, <3>1, <4>1 DEF PendingLone, Under
      <4>2. CASE m > j1
        <5>1. call.b[m] <= x /\ call.b[m] \in Nat
          BY <1>5, <1>12, <3>1, <4>2
        <5>2. call.a[k] > x /\ call.a[k] \in Nat
          BY <1>3, <2>2, <3>1, SMTT(120)
        <5>. QED BY <1>4, <5>1, <5>2
      <4>. QED BY <4>1, <4>2
    <3>. QED BY <1>3, <3>1 DEF Under
  <2>4. ASSUME NEW q \in p1 + 1 .. d
        PROVE  /\ q \in st.hit => call.a[i1 + q] \in Members(call.b)
               /\ \A m \in 1 .. nb : m <= j2 /\ call.b[m] = call.a[i1 + q] => q \in st.hit
    <3>1. q \in p1 .. d /\ i1 + q \in 1 .. na /\ i1 + q > i1 + p1
      BY <1>3, SMTT(120)
    <3>2. /\ q \in st.hit => call.a[i1 + q] \in Members(call.b)
          /\ \A m \in 1 .. nb : m <= j1 /\ call.b[m] = call.a[i1 + q] => q \in st.hit
      BY <1>2, <1>3, <3>1 DEF PendingLone
    <3>3. ASSUME NEW m \in 1 .. nb, m <= j2, call.b[m] = call.a[i1 + q] PROVE m <= j1
      <4>1. call.a[i1 + q] > x /\ call.a[i1 + q] \in Nat
        BY <2>2, <3>1
      <4>2. m > j1 => call.b[m] <= x
        BY <1>12, <3>3
      <4>. QED BY <1>4, <3>3, <4>1, <4>2
    <3>. QED BY <3>2, <3>3
  <2>5. ATile'
    BY <1>1, <1>3, <1>13 DEF ATile
  <2>6. Members(out)' = Lone(e + 1)'
    BY <1>1, <1>17, SameSets
  <2>. QED BY <1>1, <1>3, <1>13, <2>1, <2>3, <2>4, <2>5, <2>6, SameSets DEF PendingLone
<1>. QED BY <1>1, <1>2, <1>3, <1>11, <1>13, <1>17, <1>18, SameSets DEF SetsIndInv, SetsPlace, Returned, PendingLone

\* The pending block is done, and the cursors take over behind it.
LEMMA PendingEndInv == ASSUME SetsIndInv, PendingEnd PROVE SetsIndInv'
<1>1. /\ call.op = "difference" /\ call' = call /\ out' = out /\ st.pc = "pending" /\ st.p > SetBlock
      /\ st' = [st EXCEPT !.i = @ + SetBlock, !.pc = "cursors"]
  BY DEF PendingEnd, SetsIn, In
<1>2. /\ Climbs(call.a) /\ Climbs(call.b) /\ Climbs(out) /\ st \in SetsStates
      /\ st.i \in Nat /\ st.j \in Nat /\ st.p \in Nat
      /\ st.j <= Len(call.b) /\ SetBlock \in Nat /\ PendingLone
      /\ \A k \in 1 .. Len(call.a) : call.a[k] \in Nat
  BY <1>1, SetsFacts DEF SetsPlace
<1>3. PICK i2 \in Nat : i2 = st.i + SetBlock /\ i2 <= Len(call.a) /\ st.i + st.p - 1 = i2 /\ st.i + SetBlock + 1 = i2 + 1
  <2>1. st.i + SetBlock <= Len(call.a) /\ st.p \in 1 .. SetBlock + 1
    BY <1>2 DEF PendingLone, ATile
  <2>2. st.p = SetBlock + 1
    BY <1>1, <1>2, <2>1
  <2>3. st.i + SetBlock \in Nat /\ st.i + st.p - 1 = st.i + SetBlock
    BY <1>2, <2>2
  <2>. QED BY <2>1, <2>3
<1>4. st' \in SetsStates /\ st'.pc = "cursors" /\ st'.i = i2 /\ st'.j = st.j /\ st'.p = st.p
  <2>1. st' = [st EXCEPT !.i = i2, !.pc = "cursors"]
    BY <1>1, <1>3
  <2>. QED BY <1>2, <2>1 DEF SetsStates
<1>5. Members(out) = Lone(i2)
  BY <1>2, <1>3 DEF PendingLone
<1>6. Clear(i2, st.j)
  <2>1. ASSUME NEW k \in 1 .. Len(call.a), NEW m \in 1 .. Len(call.b), k > i2, m <= st.j, call.a[k] = call.b[m] PROVE FALSE
    <3>1. Under(i2 + 1, st.j) /\ k >= i2 + 1
      BY <1>2, <1>3, <2>1 DEF PendingLone
    <3>2. call.b[m] < call.a[k]
      BY <2>1, <3>1 DEF Under
    <3>. QED BY <1>2, <2>1, <3>2
  <2>. QED BY <2>1 DEF Clear
<1>. QED BY <1>1, <1>2, <1>3, <1>4, <1>5, <1>6, SameSets DEF SetsIndInv, SetsPlace, Returned

\* What is written is among the answers, and there is room for all of those.
LEMMA AnswerFits ==
    ASSUME SetsIndInv, call.op \in {"intersect", "difference"}, Members(out) \subseteq Answer
    PROVE  /\ Len(out) <= Required /\ Len(out) \in Nat /\ Required \in Nat
           /\ Len(out) >= Required => Members(out) = Answer
<1>1. Climbs(call.a) /\ Climbs(call.b) /\ Climbs(out)
  BY SetsFacts
<1>2. Len(out) \in Nat /\ Len(call.a) \in Nat /\ Len(call.b) \in Nat
  BY <1>1, ClimbsFacts
<1>3. Answer \subseteq Members(call.a) /\ (call.op = "intersect" => Answer \subseteq Members(call.b))
  BY DEF Answer
<1>4. CASE Required = Len(call.a)
  <2>1. Len(out) <= Len(call.a) /\ (Len(out) >= Len(call.a) => Members(out) = Members(call.a))
    BY <1>1, <1>3, ClimbsFit
  <2>. QED BY <1>2, <1>3, <1>4, <2>1
<1>5. CASE call.op = "intersect" /\ Required = Len(call.b)
  <2>1. Len(out) <= Len(call.b) /\ (Len(out) >= Len(call.b) => Members(out) = Members(call.b))
    BY <1>1, <1>3, <1>5, ClimbsFit
  <2>. QED BY <1>2, <1>3, <1>5, <2>1
<1>. QED BY <1>4, <1>5 DEF Required

\* Met and Lone are answers, and what comes later is above them.
LEMMA MetAnswers ==
    ASSUME Climbs(call.a), Climbs(call.b), call.op = "intersect", NEW x \in Nat, NEW y \in Nat
    PROVE  /\ Met(x, y) \subseteq Answer
           /\ \A v \in Answer \ Met(x, y) : \A w \in Met(x, y) : w < v
           /\ x >= Len(call.a) \/ y >= Len(call.b) => Met(x, y) = Answer
<1>1. \A v : v \in Answer <=> \E k \in 1 .. Len(call.a), m \in 1 .. Len(call.b) : v = call.a[k] /\ v = call.b[m]
  <2>1. \A v : v \in Answer <=> v \in Members(call.a) /\ v \in Members(call.b)
    BY DEF Answer
  <2>2. \A v : v \in Members(call.a) <=> \E k \in 1 .. Len(call.a) : v = call.a[k]
    BY ClimbsFacts
  <2>3. \A v : v \in Members(call.b) <=> \E m \in 1 .. Len(call.b) : v = call.b[m]
    BY ClimbsFacts
  <2>4. ASSUME NEW v, v \in Answer PROVE \E k \in 1 .. Len(call.a), m \in 1 .. Len(call.b) : v = call.a[k] /\ v = call.b[m]
    <3>1. PICK k \in 1 .. Len(call.a) : v = call.a[k]
      BY <2>1, <2>2, <2>4
    <3>2. PICK m \in 1 .. Len(call.b) : v = call.b[m]
      BY <2>1, <2>3, <2>4
    <3>. QED BY <3>1, <3>2
  <2>5. ASSUME NEW v, NEW k \in 1 .. Len(call.a), NEW m \in 1 .. Len(call.b), v = call.a[k], v = call.b[m] PROVE v \in Answer
    <3>1. v \in Members(call.a)
      BY <2>2, <2>5
    <3>2. v \in Members(call.b)
      BY <2>3, <2>5
    <3>. QED BY <2>1, <3>1, <3>2
  <2>. QED BY <2>4, <2>5, Zenon
<1>2. /\ \A v : v \in Met(x, y) <=> \E k \in 1 .. Len(call.a), m \in 1 .. Len(call.b) :
                                            v = call.a[k] /\ v = call.b[m] /\ (k <= x \/ m <= y)
      /\ \A k \in 1 .. Len(call.a), m \in 1 .. Len(call.b) : \A v \in Met(x, y) :
                 call.a[k] = call.b[m] /\ k > x /\ m > y => v < call.a[k]
  BY MetFacts
<1>3. Met(x, y) \subseteq Answer
  BY <1>1, <1>2
<1>4. ASSUME NEW v \in Answer, v \notin Met(x, y), NEW w \in Met(x, y) PROVE w < v
  <2>1. PICK k \in 1 .. Len(call.a), m \in 1 .. Len(call.b) : v = call.a[k] /\ v = call.b[m]
    BY <1>1
  <2>2. k > x /\ m > y
    <3>1. ~(k <= x \/ m <= y)
      BY <1>2, <1>4, <2>1
    <3>2. k \in Nat /\ m \in Nat
      BY ClimbsFacts
    <3>. QED BY <3>1, <3>2
  <2>. QED BY <1>2, <2>1, <2>2, ZenonT(120)
<1>5. ASSUME x >= Len(call.a) \/ y >= Len(call.b), NEW v \in Answer PROVE v \in Met(x, y)
  <2>1. PICK k \in 1 .. Len(call.a), m \in 1 .. Len(call.b) : v = call.a[k] /\ v = call.b[m]
    BY <1>1
  <2>2. k <= x \/ m <= y
    BY <1>5, ClimbsFacts
  <2>. QED BY <1>2, <2>1, <2>2
<1>. QED BY <1>3, <1>4, <1>5

\* What of a, up to x, b lacks is the least of the difference.
LEMMA LoneAnswers ==
    ASSUME Climbs(call.a), Climbs(call.b), call.op = "difference", NEW x \in Nat, x <= Len(call.a)
    PROVE  /\ Lone(x) \subseteq Answer
           /\ \A v \in Answer \ Lone(x) : \A w \in Lone(x) : w < v
           /\ x >= Len(call.a) => Lone(x) = Answer
<1>1. Len(call.a) \in Nat /\ \A v : v \in Answer <=> \E k \in 1 .. Len(call.a) : v = call.a[k] /\ call.a[k] \notin Members(call.b)
  <2>1. \A v : v \in Answer <=> v \in Members(call.a) /\ v \notin Members(call.b)
    BY DEF Answer
  <2>2. Len(call.a) \in Nat /\ \A v : v \in Members(call.a) <=> \E k \in 1 .. Len(call.a) : v = call.a[k]
    BY ClimbsFacts
  <2>. QED BY <2>1, <2>2
<1>2. /\ \A v : v \in Lone(x) <=> \E k \in 1 .. x : v = call.a[k] /\ call.a[k] \notin Members(call.b)
      /\ \A k \in 1 .. Len(call.a) : \A v \in Lone(x) : k > x => v < call.a[k]
  BY LoneFacts
<1>3. Lone(x) \subseteq Answer
  <2>1. \A k \in 1 .. x : k \in 1 .. Len(call.a)
    BY <1>1
  <2>. QED BY <1>1, <1>2, <2>1
<1>4. ASSUME NEW v \in Answer, v \notin Lone(x) PROVE \E k \in 1 .. Len(call.a) : k > x /\ v = call.a[k]
  <2>1. PICK k \in 1 .. Len(call.a) : v = call.a[k] /\ call.a[k] \notin Members(call.b)
    BY <1>1
  <2>2. k \notin 1 .. x
    BY <1>2, <1>4, <2>1
  <2>. QED BY <2>1, <2>2
<1>5. \A v \in Answer \ Lone(x) : \A w \in Lone(x) : w < v
  BY <1>2, <1>4
<1>6. x >= Len(call.a) => Lone(x) = Answer
  <2>1. x >= Len(call.a) => \A k \in 1 .. Len(call.a) : ~(k > x)
    BY <1>1
  <2>. QED BY <1>3, <1>4, <2>1
<1>. QED BY <1>3, <1>5, <1>6

\* A turn of the cursors of the intersection: the lesser element is passed, or both.
LEMMA IntersectCursorsInv == ASSUME SetsIndInv, IntersectCursors PROVE SetsIndInv'
<1>1. /\ call.op = "intersect" /\ call' = call /\ st.pc = "cursors"
      /\ st.i < Len(call.a) /\ st.j < Len(call.b)
      /\ st' = [st EXCEPT !.i = IF A(st.i) <= B(st.j) THEN @ + 1 ELSE @,
                          !.j = IF B(st.j) <= A(st.i) THEN @ + 1 ELSE @]
      /\ out' = IF A(st.i) = B(st.j) THEN Append(out, A(st.i)) ELSE out
  BY DEF IntersectCursors, SetsIn, In
<1>2. /\ Climbs(call.a) /\ Climbs(call.b) /\ Climbs(out) /\ st \in SetsStates /\ st.i \in Nat /\ st.j \in Nat
      /\ Members(out) = Met(st.i, st.j) /\ Len(call.a) \in Nat /\ Len(call.b) \in Nat
  BY <1>1, SetsFacts DEF SetsPlace
<1>3. PICK na \in Nat, nb \in Nat, i1 \in Nat, j1 \in Nat :
            /\ na = Len(call.a) /\ nb = Len(call.b) /\ i1 = st.i /\ j1 = st.j /\ i1 < na /\ j1 < nb
  BY <1>1, <1>2, Zenon
<1>4. PICK x \in Nat, y \in Nat : /\ x = A(i1) /\ y = B(j1) /\ x = call.a[i1 + 1] /\ y = call.b[j1 + 1]
                                  /\ i1 + 1 \in 1 .. na /\ j1 + 1 \in 1 .. nb
  <2>1. i1 + 1 \in 1 .. na /\ j1 + 1 \in 1 .. nb
    BY <1>3
  <2>2. call.a[i1 + 1] \in Nat /\ call.b[j1 + 1] \in Nat
    BY <1>2, <1>3, <2>1, ClimbsFacts
  <2>. QED BY <2>1, <2>2 DEF A, B
<1>5. PICK i2 \in Nat, j2 \in Nat : /\ i2 = (IF x <= y THEN i1 + 1 ELSE i1) /\ j2 = (IF y <= x THEN j1 + 1 ELSE j1)
                                    /\ i2 <= na /\ j2 <= nb
  BY <1>3
<1>6. st' \in SetsStates /\ st'.pc = "cursors" /\ st'.i = i2 /\ st'.j = j2
  <2>1. st' = [st EXCEPT !.i = i2, !.j = j2]
    BY <1>1, <1>3, <1>4, <1>5, Zenon
  <2>2. st' \in SetsStates /\ st'.pc = st.pc /\ st'.i = i2 /\ st'.j = j2
    BY <1>2, <2>1 DEF SetsStates
  <2>. QED BY <1>1, <2>2
<1>7. out' = IF x = y THEN Append(out, x) ELSE out
  BY <1>1, <1>3, <1>4
<1>8. /\ \A k \in 1 .. na : call.a[k] \in Nat /\ (k <= i1 + 1 <=> call.a[k] <= x)
      /\ \A m \in 1 .. nb : call.b[m] \in Nat /\ (m <= j1 + 1 <=> call.b[m] <= y)
  <2>1. ASSUME NEW k \in 1 .. na PROVE call.a[k] \in Nat /\ (k <= i1 + 1 <=> call.a[k] <= x)
    <3>1. call.a[k] \in Nat /\ (k <= i1 + 1 => call.a[k] <= call.a[i1 + 1]) /\ (i1 + 1 < k => call.a[i1 + 1] < call.a[k])
      BY <1>2, <1>3, <1>4, ClimbsFacts
    <3>. QED BY <1>4, <3>1
  <2>2. ASSUME NEW m \in 1 .. nb PROVE call.b[m] \in Nat /\ (m <= j1 + 1 <=> call.b[m] <= y)
    <3>1. call.b[m] \in Nat /\ (m <= j1 + 1 => call.b[m] <= call.b[j1 + 1]) /\ (j1 + 1 < m => call.b[j1 + 1] < call.b[m])
      BY <1>2, <1>3, <1>4, ClimbsFacts
    <3>. QED BY <1>4, <3>1
  <2>. QED BY <2>1, <2>2
<1>9. /\ \A v : v \in Members(out) <=> \E k \in 1 .. na, m \in 1 .. nb :
                                         v = call.a[k] /\ v = call.b[m] /\ (k <= i1 \/ m <= j1)
      /\ \A v : v \in Met(i2, j2) <=> \E k \in 1 .. na, m \in 1 .. nb :
                                        v = call.a[k] /\ v = call.b[m] /\ (k <= i2 \/ m <= j2)
      /\ x = y => \A v \in Members(out) : v < x
  <2>1. Climbs(call.a) /\ Climbs(call.b)
    BY <1>2
  <2>2. /\ \A v : v \in Met(i1, j1) <=> \E k \in 1 .. Len(call.a), m \in 1 .. Len(call.b) :
                                         v = call.a[k] /\ v = call.b[m] /\ (k <= i1 \/ m <= j1)
        /\ \A v : v \in Met(i2, j2) <=> \E k \in 1 .. Len(call.a), m \in 1 .. Len(call.b) :
                                        v = call.a[k] /\ v = call.b[m] /\ (k <= i2 \/ m <= j2)
        /\ \A k \in 1 .. Len(call.a), m \in 1 .. Len(call.b) : \A v \in Met(i1, j1) :
                 call.a[k] = call.b[m] /\ k > i1 /\ m > j1 => v < call.a[k]
    BY <2>1, MetFacts
  <2>3. na = Len(call.a) /\ nb = Len(call.b) /\ Members(out) = Met(i1, j1) /\ i1 + 1 > i1 /\ j1 + 1 > j1
    BY <1>2, <1>3
  <2>4. \A v : v \in Members(out) <=> \E k \in 1 .. na, m \in 1 .. nb :
                                        v = call.a[k] /\ v = call.b[m] /\ (k <= i1 \/ m <= j1)
    BY <2>2, <2>3, Zenon
  <2>5. \A v : v \in Met(i2, j2) <=> \E k \in 1 .. na, m \in 1 .. nb :
                                       v = call.a[k] /\ v = call.b[m] /\ (k <= i2 \/ m <= j2)
    BY <2>2, <2>3, Zenon
  <2>6. ASSUME x = y, NEW v \in Members(out) PROVE v < x
    <3>1. v \in Met(i1, j1) /\ i1 + 1 \in 1 .. Len(call.a) /\ j1 + 1 \in 1 .. Len(call.b)
      BY <1>4, <2>3, <2>6, Zenon
    <3>2. call.a[i1 + 1] = call.b[j1 + 1] /\ call.a[i1 + 1] = x
      BY <1>4, <2>6
    <3>3. v < call.a[i1 + 1]
      BY <2>2, <2>3, <3>1, <3>2, Zenon
    <3>. QED BY <3>2, <3>3, Zenon
  <2>. QED BY <2>4, <2>5, <2>6
<1>10. \A v : v \in Met(i2, j2) <=> v \in Members(out) \/ (x = y /\ v = x)
  <2>1. ASSUME NEW v, v \in Met(i2, j2), v \notin Members(out) PROVE x = y /\ v = x
    <3>1. PICK k \in 1 .. na, m \in 1 .. nb : v = call.a[k] /\ v = call.b[m] /\ (k <= i2 \/ m <= j2)
      BY <1>9, <2>1
    <3>2. ~(k <= i1) /\ ~(m <= j1)
      BY <1>9, <2>1, <3>1
    <3>3. CASE k <= i2
      <4>1. k = i1 + 1 /\ x <= y
        BY <1>5, <3>2, <3>3
      <4>2. m <= j1 + 1
        BY <1>4, <1>8, <3>1, <4>1
      <4>3. m = j1 + 1
        BY <3>2, <4>2
      <4>. QED BY <1>4, <3>1, <4>1, <4>3
    <3>4. CASE m <= j2
      <4>1. m = j1 + 1 /\ y <= x
        BY <1>5, <3>2, <3>4
      <4>2. k <= i1 + 1
        BY <1>4, <1>8, <3>1, <4>1
      <4>3. k = i1 + 1
        BY <3>2, <4>2
      <4>. QED BY <1>4, <3>1, <4>1, <4>3
    <3>. QED BY <3>1, <3>3, <3>4
  <2>2. ASSUME NEW v, v \in Members(out) PROVE v \in Met(i2, j2)
    <3>1. PICK k \in 1 .. na, m \in 1 .. nb : v = call.a[k] /\ v = call.b[m] /\ (k <= i1 \/ m <= j1)
      BY <1>9, <2>2
    <3>2. k <= i2 \/ m <= j2
      BY <1>5, <3>1
    <3>. QED BY <1>9, <3>1, <3>2
  <2>3. ASSUME x = y PROVE x \in Met(i2, j2)
    <3>1. i1 + 1 <= i2
      BY <1>5, <2>3
    <3>. QED BY <1>4, <1>9, <2>3, <3>1
  <2>. QED BY <2>1, <2>2, <2>3
<1>11. Climbs(out') /\ Members(out') = Met(i2, j2)
  <2>1. CASE x = y
    <3>1. out' = Append(out, x) /\ \A v \in Members(out) : v < x
      BY <1>7, <1>9, <2>1
    <3>2. Climbs(Append(out, x)) /\ Members(Append(out, x)) = Members(out) \union {x}
      BY <1>2, <3>1, ClimbsAppend
    <3>. QED BY <1>10, <2>1, <3>1, <3>2
  <2>2. CASE x # y
    BY <1>2, <1>7, <1>10, <2>2
  <2>. QED BY <2>1, <2>2
<1>. QED BY <1>1, <1>2, <1>3, <1>5, <1>6, <1>11, SameSets DEF SetsIndInv, SetsPlace, Returned

\* A turn of the cursors of the difference: an element of b is passed, or one of a written.
LEMMA DifferenceCursorsInv == ASSUME SetsIndInv, DifferenceCursors PROVE SetsIndInv'
<1>1. /\ call.op = "difference" /\ call' = call /\ st.pc = "cursors"
      /\ st.i < Len(call.a)
      /\ IF st.j < Len(call.b) /\ B(st.j) <= A(st.i)
         THEN /\ st' = [st EXCEPT !.j = @ + 1, !.i = IF B(st.j) = A(st.i) THEN @ + 1 ELSE @]
              /\ out' = out
         ELSE /\ st' = [st EXCEPT !.i = @ + 1]
              /\ out' = Append(out, A(st.i))
  BY DEF DifferenceCursors, SetsIn, In
<1>2. /\ Climbs(call.a) /\ Climbs(call.b) /\ Climbs(out) /\ st \in SetsStates /\ st.i \in Nat /\ st.j \in Nat
      /\ Members(out) = Lone(st.i) /\ Clear(st.i, st.j) /\ Len(call.a) \in Nat /\ Len(call.b) \in Nat
      /\ st.j <= Len(call.b)
      /\ \A m \in 1 .. Len(call.b) : call.b[m] \in Nat
      /\ \A k \in 1 .. Len(call.a) : call.a[k] \in Nat
      /\ \A v : v \in Members(call.b) <=> \E m \in 1 .. Len(call.b) : v = call.b[m]
  BY <1>1, SetsFacts DEF SetsPlace
<1>3. PICK na \in Nat, nb \in Nat, i1 \in Nat, j1 \in Nat :
            /\ na = Len(call.a) /\ nb = Len(call.b) /\ i1 = st.i /\ j1 = st.j /\ i1 < na /\ j1 <= nb
  BY <1>1, <1>2, Zenon
<1>4. PICK x \in Nat : x = A(i1) /\ x = call.a[i1 + 1] /\ i1 + 1 \in 1 .. na
  <2>1. i1 + 1 \in 1 .. na
    BY <1>3
  <2>2. call.a[i1 + 1] \in Nat
    BY <1>2, <1>3, <2>1
  <2>. QED BY <2>1, <2>2 DEF A
<1>5. \A k \in 1 .. na, m \in 1 .. nb : k > i1 /\ m <= j1 => call.a[k] # call.b[m]
  BY <1>2, <1>3 DEF Clear
<1>6. /\ \A v : v \in Lone(i1) <=> \E k \in 1 .. i1 : v = call.a[k] /\ call.a[k] \notin Members(call.b)
      /\ \A v \in Lone(i1) : v < x
      /\ \A v : v \in Lone(i1 + 1) <=> \E k \in 1 .. i1 + 1 : v = call.a[k] /\ call.a[k] \notin Members(call.b)
  <2>1. Climbs(call.a) /\ Climbs(call.b) /\ i1 <= Len(call.a) /\ i1 + 1 <= Len(call.a) /\ i1 + 1 \in Nat
    BY <1>2, <1>3
  <2>2. i1 + 1 > i1 /\ i1 + 1 \in 1 .. Len(call.a)
    BY <1>3, <1>4
  <2>. QED BY <1>4, <2>1, <2>2, LoneFacts, SMTT(120)
<1>7. \A v : v \in Lone(i1 + 1) <=> v \in Lone(i1) \/ (v = x /\ x \notin Members(call.b))
  <2>1. \A k \in 1 .. i1 + 1 : k \in 1 .. i1 \/ k = i1 + 1
    OBVIOUS
  <2>2. i1 + 1 \in 1 .. i1 + 1 /\ \A k \in 1 .. i1 : k \in 1 .. i1 + 1
    OBVIOUS
  <2>. QED BY <1>4, <1>6, <2>1, <2>2
<1>8. \A m \in 1 .. nb : call.b[m] \in Members(call.b)
  BY <1>2, <1>3
<1>9. CASE st.j < Len(call.b) /\ B(st.j) <= A(st.i)
  <2>1. PICK y \in Nat : y = B(j1) /\ y = call.b[j1 + 1] /\ j1 + 1 \in 1 .. nb /\ y <= x
    <3>1. j1 + 1 \in 1 .. nb
      BY <1>3, <1>9
    <3>2. call.b[j1 + 1] \in Nat
      BY <1>2, <1>3, <3>1
    <3>. QED BY <1>3, <1>4, <1>9, <3>1, <3>2 DEF B
  <2>2. PICK i2 \in Nat, j2 \in Nat : i2 = (IF y = x THEN i1 + 1 ELSE i1) /\ j2 = j1 + 1 /\ i2 <= na /\ j2 <= nb
    BY <1>3, <2>1
  <2>3. st' \in SetsStates /\ st'.pc = "cursors" /\ st'.i = i2 /\ st'.j = j2 /\ out' = out
    <3>1. st' = [st EXCEPT !.j = j2, !.i = i2] /\ out' = out
      BY <1>1, <1>3, <1>4, <1>9, <2>1, <2>2, Zenon
    <3>2. st' \in SetsStates /\ st'.pc = st.pc /\ st'.i = i2 /\ st'.j = j2
      BY <1>2, <3>1 DEF SetsStates
    <3>. QED BY <1>1, <3>1, <3>2
  <2>4. Members(out) = Lone(i2)
    <3>1. CASE y = x
      <4>1. x \in Members(call.b)
        BY <1>8, <2>1, <3>1
      <4>2. Lone(i1 + 1) = Lone(i1)
        BY <1>7, <4>1
      <4>. QED BY <1>2, <1>3, <2>2, <3>1, <4>2
    <3>2. CASE y # x
      BY <1>2, <1>3, <2>2, <3>2
    <3>. QED BY <3>1, <3>2
  <2>5. Clear(i2, j2)
    <3>1. ASSUME NEW k \in 1 .. na, NEW m \in 1 .. nb, k > i2, m <= j2, call.a[k] = call.b[m] PROVE FALSE
      <4>1. k > i1
        BY <2>2, <3>1
      <4>2. m = j1 + 1
        BY <1>5, <2>2, <3>1, <4>1
      <4>3. k = i1 + 1
        <5>1. call.a[k] <= x
          BY <2>1, <3>1, <4>2
        <5>2. k > i1 + 1 => call.a[k] > x
          BY <1>2, <1>3, <1>4, ClimbsFacts
        <5>3. call.a[k] \in Nat
          BY <1>2, <1>3
        <5>. QED BY <4>1, <5>1, <5>2, <5>3
      <4>4. y = x
        BY <1>4, <2>1, <3>1, <4>2, <4>3
      <4>. QED BY <2>2, <3>1, <4>3, <4>4
    <3>. QED BY <1>3, <3>1 DEF Clear
  <2>. QED BY <1>1, <1>2, <1>3, <2>2, <2>3, <2>4, <2>5, SameSets DEF SetsIndInv, SetsPlace, Returned
<1>10. CASE ~(st.j < Len(call.b) /\ B(st.j) <= A(st.i))
  <2>1. PICK i2 \in Nat : i2 = i1 + 1 /\ i2 <= na
    BY <1>3
  <2>2. st' \in SetsStates /\ st'.pc = "cursors" /\ st'.i = i2 /\ st'.j = j1 /\ out' = Append(out, x)
    <3>1. st' = [st EXCEPT !.i = i2] /\ out' = Append(out, x)
      BY <1>1, <1>3, <1>4, <1>10, <2>1, Zenon
    <3>2. st' \in SetsStates /\ st'.pc = st.pc /\ st'.i = i2 /\ st'.j = st.j
      BY <1>2, <3>1 DEF SetsStates
    <3>. QED BY <1>1, <1>3, <3>1, <3>2
  <2>3. x \notin Members(call.b)
    <3>0. SUFFICES ASSUME NEW m \in 1 .. nb, x = call.b[m] PROVE FALSE
      BY <1>2, <1>3
    <3>1. m > j1
      <4>1. i1 + 1 > i1
        OBVIOUS
      <4>2. m <= j1 => call.a[i1 + 1] # call.b[m]
        BY <1>4, <1>5, <4>1
      <4>3. m \in Nat
        OBVIOUS
      <4>. QED BY <1>4, <3>0, <4>2, <4>3
    <3>2. j1 < nb /\ j1 + 1 \in 1 .. nb /\ j1 + 1 <= m
      BY <3>1
    <3>3. call.b[j1 + 1] <= x /\ call.b[j1 + 1] = B(j1)
      <4>1. call.b[j1 + 1] <= call.b[m]
        BY <1>2, <1>3, <3>2, ClimbsFacts
      <4>. QED BY <3>0, <4>1 DEF B
    <3>. QED BY <1>3, <1>4, <1>10, <3>0, <3>2, <3>3
  <2>4. Climbs(out') /\ Members(out') = Lone(i2)
    <3>1. \A v \in Members(out) : v < x
      BY <1>2, <1>3, <1>6
    <3>2. Climbs(Append(out, x)) /\ Members(Append(out, x)) = Members(out) \union {x}
      BY <1>2, <3>1, ClimbsAppend
    <3>3. Lone(i2) = Lone(i1) \union {x}
      BY <1>7, <2>1, <2>3
    <3>. QED BY <1>2, <1>3, <2>2, <3>2, <3>3
  <2>5. Clear(i2, j1)
    <3>1. \A k \in 1 .. na : k > i2 => k > i1
      BY <2>1
    <3>. QED BY <1>3, <1>5, <3>1 DEF Clear
  <2>. QED BY <1>1, <1>2, <1>3, <2>1, <2>2, <2>4, <2>5, SameSets DEF SetsIndInv, SetsPlace, Returned
<1>. QED BY <1>9, <1>10

\* When the cursors stop, the answers are all written.
LEMMA CursorsEndInv == ASSUME SetsIndInv, CursorsEnd PROVE SetsIndInv'
<1>1. /\ call.op \in {"intersect", "difference"} /\ call' = call /\ out' = out /\ st.pc = "cursors"
      /\ st.i >= Len(call.a) \/ (call.op = "intersect" /\ st.j >= Len(call.b)) \/ ~Room
      /\ st' = [st EXCEPT !.pc = "returned"]
  BY DEF CursorsEnd, SetsIn, In, Return
<1>2. /\ Climbs(call.a) /\ Climbs(call.b) /\ Climbs(out) /\ st \in SetsStates /\ st.i \in Nat /\ st.j \in Nat
      /\ st.i <= Len(call.a) /\ st.j <= Len(call.b)
      /\ call.op = "intersect" => Members(out) = Met(st.i, st.j)
      /\ call.op = "difference" => Members(out) = Lone(st.i)
  BY <1>1, SetsFacts DEF SetsPlace
<1>3. st' \in SetsStates /\ st'.pc = "returned" /\ st'.i = st.i /\ st'.j = st.j
  BY <1>1, <1>2 DEF SetsStates
<1>4. Members(out) \subseteq Answer
  <2>1. CASE call.op = "intersect"
    BY <1>2, <2>1, MetAnswers
  <2>2. CASE call.op = "difference"
    BY <1>2, <2>2, LoneAnswers
  <2>. QED BY <1>1, <2>1, <2>2
<1>5. Members(out) = Answer
  <2>1. CASE ~Room
    <3>1. Len(out) >= Required
      BY <1>1, <1>4, <2>1, AnswerFits DEF Room
    <3>. QED BY <1>1, <1>4, <3>1, AnswerFits
  <2>2. CASE call.op = "intersect" /\ (st.i >= Len(call.a) \/ st.j >= Len(call.b))
    BY <1>2, <2>2, MetAnswers
  <2>3. CASE call.op = "difference" /\ st.i >= Len(call.a)
    BY <1>2, <2>3, LoneAnswers
  <2>. QED BY <1>1, <2>1, <2>2, <2>3
<1>. QED BY <1>1, <1>2, <1>3, <1>5, SameSets DEF SetsIndInv, SetsPlace, Returned

\* The invariant of the sets holds when a call starts,
LEMMA SetsIndInvStart == ColumnInit => SetsIndInv
<1>. SUFFICES ASSUME ColumnInit, call.op \in {"intersect", "difference"} PROVE SetsIndInv
  BY DEF SetsIndInv
<1>1. SetsInit
  BY ColumnInitOp
<1>. QED BY <1>1, SetsIndInvInit

\* and every step of the columns keeps it.
LEMMA SetsIndInvNext == SetsIndInv /\ [ColumnNext]_vars => SetsIndInv'
<1>. SUFFICES ASSUME SetsIndInv, [ColumnNext]_vars PROVE SetsIndInv'
  OBVIOUS
<1>1. CASE ColumnNext
  <2>1. CASE call.op \notin {"intersect", "difference"}
    BY <1>1, <2>1, ColumnStep DEF SetsIndInv
  <2>2. CASE call.op \in {"intersect", "difference"}
    <3>1. SetsNext
      BY <1>1, <2>2, ColumnStep
    <3>. QED BY <3>1, IntersectTileInv, DifferenceTileInv, TilesEndInv, PendingLaneInv, PendingEndInv,
                IntersectCursorsInv, DifferenceCursorsInv, CursorsEndInv, Zenon DEF SetsNext
  <2>. QED BY <2>1, <2>2
<1>2. CASE UNCHANGED vars
  <2>1. call' = call /\ st' = st /\ out' = out
    BY <1>2 DEF vars
  <2>2. TilesLone' = TilesLone
    BY <2>1, SameSets DEF TilesLone, ATile
  <2>3. PendingLone' = PendingLone
    BY <2>1, SameSets DEF PendingLone, ATile
  <2>4. SetsPlace' = SetsPlace
    BY <2>1, <2>2, <2>3, SameSets DEF SetsPlace, Returned
  <2>. QED BY <2>1, <2>4, SameSets DEF SetsIndInv
<1>. QED BY <1>1, <1>2

\* Whatever sets are given and however wide a tile: what the intersection and the difference
\* have written is the least of the answers, once each and in order, inside the room asked
\* for, and on return all of them - the block of a that is pending when b runs out of whole
\* blocks included (sets.go:34-58, csrc/sets.c:108-120).
THEOREM ExactSets == ColumnSpec => []SetsExact
<1>1. SetsIndInv => SetsExact
  <2>. SUFFICES ASSUME SetsIndInv, call.op \in {"intersect", "difference"} PROVE SetsExact
    BY DEF SetsExact
  <2>1. /\ Climbs(call.a) /\ Climbs(call.b) /\ Climbs(out) /\ SetsPlace /\ st \in SetsStates
        /\ st.i \in Nat /\ st.j \in Nat /\ st.p \in Nat /\ st.i <= Len(call.a) /\ SetBlock \in Nat
    BY SetsFacts
  <2>2. Members(out) \subseteq Answer /\ \A v \in Answer \ Members(out) : \A w \in Members(out) : w < v
    <3>1. CASE Returned
      BY <2>1, <3>1 DEF SetsPlace
    <3>2. CASE call.op = "intersect" /\ ~Returned
      <4>1. Members(out) = Met(st.i, st.j)
        BY <2>1, <3>2 DEF SetsPlace, SetsStates, Returned
      <4>. QED BY <2>1, <3>2, <4>1, MetAnswers
    <3>3. CASE call.op = "difference" /\ st.pc \in {"tiles", "cursors"}
      <4>1. Members(out) = Lone(st.i)
        BY <2>1, <3>3 DEF SetsPlace, TilesLone
      <4>. QED BY <2>1, <3>3, <4>1, LoneAnswers
    <3>4. CASE call.op = "difference" /\ st.pc = "pending"
      <4>1. PendingLone
        BY <2>1, <3>4 DEF SetsPlace
      <4>2. st.i + SetBlock <= Len(call.a) /\ st.p \in 1 .. SetBlock + 1 /\ Members(out) = Lone(st.i + st.p - 1)
        BY <4>1 DEF PendingLone, ATile
      <4>3. Len(call.a) \in Nat
        BY SetsFacts
      <4>4. st.i + st.p - 1 \in Nat /\ st.i + st.p - 1 <= Len(call.a)
        BY <2>1, <4>2, <4>3
      <4>. QED BY <2>1, <3>4, <4>2, <4>4, LoneAnswers
    <3>. QED BY <2>1, <3>1, <3>2, <3>3, <3>4 DEF SetsStates, Returned
  <2>3. Len(out) <= Required
    BY <2>2, AnswerFits
  <2>4. \A x, y \in DOMAIN out : x < y => out[x] < out[y]
    BY <2>1 DEF Climbs
  <2>5. Returned => Members(out) = Answer
    BY <2>1 DEF SetsPlace
  <2>. QED BY <2>2, <2>3, <2>4, <2>5 DEF SetsExact
<1>. QED BY SetsIndInvStart, SetsIndInvNext, <1>1, PTL DEF ColumnSpec

-----------------------------------------------------------------------------
(* The network sorts.  Of the numbers above z it is enough to know where   *)
(* they are: an exchange puts them where both, or one, of two were.        *)

\* Above and not above do not alternate three times in a row of n.
Bitonic(S, n) ==
    \A p, q, r, e \in 0 .. n - 1 :
      p < q /\ q < r /\ r < e =>
        /\ ~(p \in S /\ q \notin S /\ r \in S /\ e \notin S)
        /\ ~(p \notin S /\ q \in S /\ r \notin S /\ e \in S)

\* A row that does not alternate, folded: its halves do not, and either no pair is above or
\* none is below.
LEMMA Folded ==
    ASSUME NEW t \in Nat, NEW S, Bitonic(S, 2 * t)
    PROVE  /\ Bitonic({c \in 0 .. t - 1 : c \in S /\ c + t \in S}, t)
           /\ Bitonic({c \in 0 .. t - 1 : c \in S \/ c + t \in S}, t)
           /\ \A c, d \in 0 .. t - 1 : ~(c \in S /\ c + t \in S /\ d \notin S /\ d + t \notin S)
<1>. DEFINE Both == {c \in 0 .. t - 1 : c \in S /\ c + t \in S}
            Some == {c \in 0 .. t - 1 : c \in S \/ c + t \in S}
<1>1. ASSUME NEW p \in 0 .. 2 * t - 1, NEW q \in 0 .. 2 * t - 1, NEW r \in 0 .. 2 * t - 1, NEW e \in 0 .. 2 * t - 1,
             p < q, q < r, r < e
      PROVE  /\ ~(p \in S /\ q \notin S /\ r \in S /\ e \notin S)
             /\ ~(p \notin S /\ q \in S /\ r \notin S /\ e \in S)
  BY <1>1 DEF Bitonic
<1>2. ASSUME NEW c \in 0 .. t - 1, NEW d \in 0 .. t - 1, c \in S, c + t \in S, d \notin S, d + t \notin S
      PROVE  FALSE
  <2>1. /\ c \in 0 .. 2 * t - 1 /\ c + t \in 0 .. 2 * t - 1
        /\ d \in 0 .. 2 * t - 1 /\ d + t \in 0 .. 2 * t - 1
    OBVIOUS
  <2>2. CASE c < d
    <3>1. d < c + t /\ c + t < d + t
      BY <2>2
    <3>. QED BY <1>1, <1>2, <2>1, <2>2, <3>1
  <2>3. CASE d < c
    <3>1. c < d + t /\ d + t < c + t
      BY <2>3
    <3>. QED BY <1>1, <1>2, <2>1, <2>3, <3>1
  <2>4. c # d
    BY <1>2
  <2>. QED BY <2>2, <2>3, <2>4
<1>3. ASSUME NEW p \in 0 .. t - 1, NEW q \in 0 .. t - 1, NEW r \in 0 .. t - 1, NEW e \in 0 .. t - 1,
             p < q, q < r, r < e
      PROVE  /\ ~(p \in Both /\ q \notin Both /\ r \in Both /\ e \notin Both)
             /\ ~(p \notin Both /\ q \in Both /\ r \notin Both /\ e \in Both)
             /\ ~(p \in Some /\ q \notin Some /\ r \in Some /\ e \notin Some)
             /\ ~(p \notin Some /\ q \in Some /\ r \notin Some /\ e \in Some)
  <2>1. /\ p \in 0 .. 2 * t - 1 /\ q \in 0 .. 2 * t - 1 /\ r \in 0 .. 2 * t - 1 /\ e \in 0 .. 2 * t - 1
        /\ p + t \in 0 .. 2 * t - 1 /\ q + t \in 0 .. 2 * t - 1 /\ r + t \in 0 .. 2 * t - 1
        /\ e + t \in 0 .. 2 * t - 1
    OBVIOUS
  <2>2. /\ p + t < q + t /\ q + t < r + t /\ r + t < e + t /\ e < p + t
        /\ r < p + t /\ q < r + t /\ e < q + t /\ r < e + t /\ r < q + t /\ q < p + t
    BY <1>3
  <2>3. ~(p \in Both /\ q \notin Both /\ r \in Both /\ e \notin Both)
    <3>. SUFFICES ASSUME p \in S, p + t \in S, r \in S, r + t \in S,
                         q \notin S \/ q + t \notin S, e \notin S \/ e + t \notin S
                  PROVE  FALSE
      OBVIOUS
    <3>1. CASE q \notin S
      BY <1>1, <1>3, <2>1, <2>2, <3>1
    <3>2. CASE q + t \notin S
      BY <1>1, <1>3, <2>1, <2>2, <3>2
    <3>. QED BY <3>1, <3>2
  <2>4. ~(p \notin Both /\ q \in Both /\ r \notin Both /\ e \in Both)
    <3>. SUFFICES ASSUME q \in S, q + t \in S, e \in S, e + t \in S,
                         p \notin S \/ p + t \notin S, r \notin S \/ r + t \notin S
                  PROVE  FALSE
      OBVIOUS
    <3>1. CASE p \notin S
      BY <1>1, <1>3, <2>1, <2>2, <3>1
    <3>2. CASE p + t \notin S
      BY <1>1, <1>3, <2>1, <2>2, <3>2
    <3>. QED BY <3>1, <3>2
  <2>5. ~(p \in Some /\ q \notin Some /\ r \in Some /\ e \notin Some)
    <3>. SUFFICES ASSUME q \notin S, q + t \notin S, e \notin S, e + t \notin S,
                         p \in S \/ p + t \in S, r \in S \/ r + t \in S
                  PROVE  FALSE
      OBVIOUS
    <3>1. CASE p \in S
      BY <1>1, <1>3, <2>1, <2>2, <3>1
    <3>2. CASE p + t \in S
      BY <1>1, <1>3, <2>1, <2>2, <3>2
    <3>. QED BY <3>1, <3>2
  <2>6. ~(p \notin Some /\ q \in Some /\ r \notin Some /\ e \in Some)
    <3>. SUFFICES ASSUME p \notin S, p + t \notin S, r \notin S, r + t \notin S,
                         q \in S \/ q + t \in S, e \in S \/ e + t \in S
                  PROVE  FALSE
      OBVIOUS
    <3>1. CASE q \in S
      BY <1>1, <1>3, <2>1, <2>2, <3>1
    <3>2. CASE q + t \in S
      BY <1>1, <1>3, <2>1, <2>2, <3>2
    <3>. QED BY <3>1, <3>2
  <2>. QED BY <2>3, <2>4, <2>5, <2>6
<1>4. Bitonic(Both, t) /\ Bitonic(Some, t)
  <2>. HIDE DEF Both, Some
  <2>. QED BY <1>3 DEF Bitonic
<1>. QED BY <1>2, <1>4

\* n rows of s numbers, none of which alternates, and one after the other in order.
RowsApart(X, n, s) ==
    /\ X \in [0 .. n - 1 -> [0 .. s - 1 -> Nat]]
    /\ \A z \in Nat, j \in 0 .. n - 1 : Bitonic({c \in 0 .. s - 1 : X[j][c] > z}, s)
    /\ \A j, k \in 0 .. n - 1 : j < k => \A c, d \in 0 .. s - 1 : X[j][c] <= X[k][d]

\* Every row becomes two: of each two numbers that lie t apart, the lesser ones and the others.
Halve(X, n, t) ==
    [j \in 0 .. 2 * n - 1 |-> [c \in 0 .. t - 1 |->
        IF j % 2 = 0 THEN Lesser(X[j \div 2][c], X[j \div 2][c + t])
                     ELSE Greater(X[j \div 2][c], X[j \div 2][c + t])]]

\* The places of rows are places of w, each another one.
Comes(X, n, s, w, F) ==
    /\ F \in [(0 .. n - 1) \X (0 .. s - 1) -> DOMAIN w]
    /\ \A j \in 0 .. n - 1, c \in 0 .. s - 1 : X[j][c] = w[F[<<j, c>>]]
    /\ \A x, y \in (0 .. n - 1) \X (0 .. s - 1) : F[x] = F[y] => x = y

\* Nothing in the first half of the rows is above z.
LowRows(X, n, s, z) == \A j \in 0 .. n - 1, c \in 0 .. s - 1 : j + j < n => X[j][c] <= z

LEMMA HalveIs ==
    ASSUME NEW n \in Nat, NEW t \in Nat, t >= 1, NEW X \in [0 .. n - 1 -> [0 .. 2 * t - 1 -> Nat]]
    PROVE  /\ Halve(X, n, t) \in [0 .. 2 * n - 1 -> [0 .. t - 1 -> Nat]]
           /\ \A j \in 0 .. n - 1, c \in 0 .. t - 1 :
                /\ c \in 0 .. 2 * t - 1 /\ c + t \in 0 .. 2 * t - 1
                /\ X[j][c] \in Nat /\ X[j][c + t] \in Nat
                /\ 2 * j \in 0 .. 2 * n - 1 /\ 2 * j + 1 \in 0 .. 2 * n - 1
                /\ Halve(X, n, t)[2 * j][c] = Lesser(X[j][c], X[j][c + t])
                /\ Halve(X, n, t)[2 * j + 1][c] = Greater(X[j][c], X[j][c + t])
           /\ \A k \in 0 .. 2 * n - 1 : \E j \in 0 .. n - 1 : k = 2 * j \/ k = 2 * j + 1
<1>1. \A j \in 0 .. n - 1, c \in 0 .. t - 1 :
         /\ c \in 0 .. 2 * t - 1 /\ c + t \in 0 .. 2 * t - 1
         /\ 2 * j \in 0 .. 2 * n - 1 /\ 2 * j + 1 \in 0 .. 2 * n - 1
         /\ (2 * j) % 2 = 0 /\ (2 * j) \div 2 = j /\ (2 * j + 1) % 2 = 1 /\ (2 * j + 1) \div 2 = j
  OBVIOUS
<1>2. \A j \in 0 .. n - 1, c \in 0 .. 2 * t - 1 : X[j][c] \in Nat
  OBVIOUS
<1>3. \A k \in 0 .. 2 * n - 1 : k \div 2 \in 0 .. n - 1 /\ (k = 2 * (k \div 2) \/ k = 2 * (k \div 2) + 1)
  OBVIOUS
<1>. DEFINE Y == Halve(X, n, t)
            row(j) == [c \in 0 .. t - 1 |-> IF j % 2 = 0 THEN Lesser(X[j \div 2][c], X[j \div 2][c + t])
                                                         ELSE Greater(X[j \div 2][c], X[j \div 2][c + t])]
<1>4. Y = [j \in 0 .. 2 * n - 1 |-> row(j)]
  BY DEF Halve
<1>5. \A j \in 0 .. 2 * n - 1 : row(j) \in [0 .. t - 1 -> Nat]
  <2>. TAKE j \in 0 .. 2 * n - 1
  <2>1. j \div 2 \in 0 .. n - 1
    BY <1>3
  <2>2. \A c \in 0 .. t - 1 : X[j \div 2][c] \in Nat /\ X[j \div 2][c + t] \in Nat
    BY <1>1, <1>2, <2>1
  <2>. QED BY <2>2 DEF Lesser, Greater
<1>6. \A j \in 0 .. n - 1, c \in 0 .. t - 1 :
         /\ Y[2 * j][c] = Lesser(X[j][c], X[j][c + t]) /\ Y[2 * j + 1][c] = Greater(X[j][c], X[j][c + t])
  <2>. TAKE j \in 0 .. n - 1, c \in 0 .. t - 1
  <2>1. row(2 * j)[c] = Lesser(X[j][c], X[j][c + t]) /\ row(2 * j + 1)[c] = Greater(X[j][c], X[j][c + t])
    <3>1. PICK k \in Nat : k = 2 * j /\ k % 2 = 0 /\ k \div 2 = j
      BY <1>1
    <3>2. PICK l \in Nat : l = 2 * j + 1 /\ l % 2 # 0 /\ l \div 2 = j
      BY <1>1
    <3>3. row(k)[c] = Lesser(X[j][c], X[j][c + t])
      BY <3>1
    <3>4. row(l)[c] = Greater(X[j][c], X[j][c + t])
      BY <3>2
    <3>. QED BY <3>1, <3>2, <3>3, <3>4
  <2>. HIDE DEF row
  <2>2. Y[2 * j] = row(2 * j) /\ Y[2 * j + 1] = row(2 * j + 1)
    BY <1>1, <1>4
  <2>. QED BY <2>1, <2>2
<1>. HIDE DEF row
<1>7. Y \in [0 .. 2 * n - 1 -> [0 .. t - 1 -> Nat]]
  BY <1>4, <1>5
<1>. HIDE DEF Y
<1>8. \A j \in 0 .. n - 1, c \in 0 .. t - 1 : X[j][c] \in Nat /\ X[j][c + t] \in Nat
  BY <1>1, <1>2
<1>9. \A k \in 0 .. 2 * n - 1 : \E j \in 0 .. n - 1 : k = 2 * j \/ k = 2 * j + 1
  BY <1>3
<1>. QED BY <1>1, <1>6, <1>7, <1>8, <1>9, Zenon DEF Y

LEMMA HalvedApart ==
    ASSUME NEW n \in Nat, NEW t \in Nat, t >= 1, NEW X, RowsApart(X, n, 2 * t)
    PROVE  RowsApart(Halve(X, n, t), 2 * n, t)
<1>. DEFINE Y == Halve(X, n, t)
<1>1. X \in [0 .. n - 1 -> [0 .. 2 * t - 1 -> Nat]]
  BY DEF RowsApart
<1>2. /\ Y \in [0 .. 2 * n - 1 -> [0 .. t - 1 -> Nat]]
      /\ \A j \in 0 .. n - 1, c \in 0 .. t - 1 :
           /\ c \in 0 .. 2 * t - 1 /\ c + t \in 0 .. 2 * t - 1
           /\ X[j][c] \in Nat /\ X[j][c + t] \in Nat
           /\ 2 * j \in 0 .. 2 * n - 1 /\ 2 * j + 1 \in 0 .. 2 * n - 1
           /\ Y[2 * j][c] = Lesser(X[j][c], X[j][c + t])
           /\ Y[2 * j + 1][c] = Greater(X[j][c], X[j][c + t])
      /\ \A k \in 0 .. 2 * n - 1 : \E j \in 0 .. n - 1 : k = 2 * j \/ k = 2 * j + 1
  BY <1>1, HalveIs
<1>. HIDE DEF Y
<1>3. ASSUME NEW z \in Nat, NEW j \in 0 .. n - 1
      PROVE  /\ Bitonic({c \in 0 .. t - 1 : Y[2 * j][c] > z}, t)
             /\ Bitonic({c \in 0 .. t - 1 : Y[2 * j + 1][c] > z}, t)
             /\ \A c, d \in 0 .. t - 1 : ~(Y[2 * j][c] > z /\ ~(Y[2 * j + 1][d] > z))
  <2>. DEFINE S == {c \in 0 .. 2 * t - 1 : X[j][c] > z}
  <2>1. Bitonic(S, 2 * t)
    BY DEF RowsApart
  <2>2. \A c \in 0 .. t - 1 : /\ Y[2 * j][c] > z <=> c \in S /\ c + t \in S
                              /\ Y[2 * j + 1][c] > z <=> c \in S \/ c + t \in S
    <3>. TAKE c \in 0 .. t - 1
    <3>1. /\ c \in 0 .. 2 * t - 1 /\ c + t \in 0 .. 2 * t - 1 /\ X[j][c] \in Nat /\ X[j][c + t] \in Nat
          /\ Y[2 * j][c] = Lesser(X[j][c], X[j][c + t])
          /\ Y[2 * j + 1][c] = Greater(X[j][c], X[j][c + t])
      BY <1>2
    <3>2. (c \in S <=> X[j][c] > z) /\ (c + t \in S <=> X[j][c + t] > z)
      BY <3>1
    <3>. HIDE DEF S
    <3>. QED BY <3>1, <3>2 DEF Lesser, Greater
  <2>. HIDE DEF S
  <2>3. /\ {c \in 0 .. t - 1 : Y[2 * j][c] > z} = {c \in 0 .. t - 1 : c \in S /\ c + t \in S}
        /\ {c \in 0 .. t - 1 : Y[2 * j + 1][c] > z} = {c \in 0 .. t - 1 : c \in S \/ c + t \in S}
    BY <2>2
  <2>4. /\ Bitonic({c \in 0 .. t - 1 : c \in S /\ c + t \in S}, t)
        /\ Bitonic({c \in 0 .. t - 1 : c \in S \/ c + t \in S}, t)
        /\ \A c, d \in 0 .. t - 1 : ~(c \in S /\ c + t \in S /\ d \notin S /\ d + t \notin S)
    BY <2>1, Folded
  <2>5. \A c, d \in 0 .. t - 1 : ~(Y[2 * j][c] > z /\ ~(Y[2 * j + 1][d] > z))
    BY <2>2, <2>4
  <2>. QED BY <2>3, <2>4, <2>5
<1>4. \A z \in Nat, k \in 0 .. 2 * n - 1 : Bitonic({c \in 0 .. t - 1 : Y[k][c] > z}, t)
  <2>. TAKE z \in Nat, k \in 0 .. 2 * n - 1
  <2>1. PICK j \in 0 .. n - 1 : k = 2 * j \/ k = 2 * j + 1
    BY <1>2
  <2>. QED BY <1>3, <2>1
<1>5. \A j \in 0 .. n - 1, c \in 0 .. t - 1 :
         /\ Y[2 * j][c] \in {X[j][c], X[j][c + t]} /\ Y[2 * j + 1][c] \in {X[j][c], X[j][c + t]}
  BY <1>2 DEF Lesser, Greater
<1>6. ASSUME NEW k \in 0 .. 2 * n - 1, NEW l \in 0 .. 2 * n - 1, k < l,
             NEW c \in 0 .. t - 1, NEW d \in 0 .. t - 1
      PROVE  Y[k][c] <= Y[l][d]
  <2>1. PICK j \in 0 .. n - 1 : k = 2 * j \/ k = 2 * j + 1
    BY <1>2
  <2>2. PICK m \in 0 .. n - 1 : l = 2 * m \/ l = 2 * m + 1
    BY <1>2
  <2>3. Y[k][c] \in Nat /\ Y[l][d] \in Nat
    BY <1>2
  <2>4. CASE j < m
    <3>1. \A e, f \in 0 .. 2 * t - 1 : X[j][e] <= X[m][f]
      BY <2>4 DEF RowsApart
    <3>2. Y[k][c] \in {X[j][c], X[j][c + t]} /\ Y[l][d] \in {X[m][d], X[m][d + t]}
      BY <1>5, <2>1, <2>2
    <3>3. /\ c \in 0 .. 2 * t - 1 /\ c + t \in 0 .. 2 * t - 1
          /\ d \in 0 .. 2 * t - 1 /\ d + t \in 0 .. 2 * t - 1
      OBVIOUS
    <3>. QED BY <3>1, <3>2, <3>3
  <2>5. CASE j = m /\ k = 2 * j /\ l = 2 * j + 1
    <3>1. ~(Y[2 * j][c] > Y[l][d] /\ ~(Y[2 * j + 1][d] > Y[l][d]))
      BY <1>3, <2>3
    <3>. QED BY <2>3, <2>5, <3>1
  <2>6. j < m \/ (j = m /\ k = 2 * j /\ l = 2 * j + 1)
    BY <1>6, <2>1, <2>2
  <2>. QED BY <2>4, <2>5, <2>6
<1>7. RowsApart(Y, 2 * n, t)
  BY <1>2, <1>4, <1>6 DEF RowsApart
<1>. QED BY <1>7 DEF Y

LEMMA HalvedComes ==
    ASSUME NEW n \in Nat, NEW t \in Nat, t >= 1, NEW X \in [0 .. n - 1 -> [0 .. 2 * t - 1 -> Nat]],
           NEW w, NEW F, Comes(X, n, 2 * t, w, F)
    PROVE  \E G : Comes(Halve(X, n, t), 2 * n, t, w, G)
<1>. DEFINE Y == Halve(X, n, t)
            P == (0 .. 2 * n - 1) \X (0 .. t - 1)
            Q == (0 .. n - 1) \X (0 .. 2 * t - 1)
            from == [x \in P |-> LET j == x[1] \div 2
                                 IN IF (X[j][x[2]] <= X[j][x[2] + t]) = (x[1] % 2 = 0)
                                    THEN <<j, x[2]>> ELSE <<j, x[2] + t>>]
            G == [x \in P |-> F[from[x]]]
<1>1. /\ Y \in [0 .. 2 * n - 1 -> [0 .. t - 1 -> Nat]]
      /\ \A j \in 0 .. n - 1, c \in 0 .. t - 1 :
           /\ c \in 0 .. 2 * t - 1 /\ c + t \in 0 .. 2 * t - 1
           /\ X[j][c] \in Nat /\ X[j][c + t] \in Nat
           /\ 2 * j \in 0 .. 2 * n - 1 /\ 2 * j + 1 \in 0 .. 2 * n - 1
           /\ Y[2 * j][c] = Lesser(X[j][c], X[j][c + t])
           /\ Y[2 * j + 1][c] = Greater(X[j][c], X[j][c + t])
      /\ \A k \in 0 .. 2 * n - 1 : \E j \in 0 .. n - 1 : k = 2 * j \/ k = 2 * j + 1
  BY HalveIs
<1>. HIDE DEF Y
<1>2. ASSUME NEW j \in 0 .. n - 1, NEW c \in 0 .. t - 1
      PROVE  /\ from[<<2 * j, c>>] = IF X[j][c] <= X[j][c + t] THEN <<j, c>> ELSE <<j, c + t>>
             /\ from[<<2 * j + 1, c>>] = IF X[j][c] <= X[j][c + t] THEN <<j, c + t>> ELSE <<j, c>>
             /\ <<2 * j, c>> \in P /\ <<2 * j + 1, c>> \in P
             /\ <<j, c>> \in Q /\ <<j, c + t>> \in Q
  <2>1. /\ 2 * j \in 0 .. 2 * n - 1 /\ 2 * j + 1 \in 0 .. 2 * n - 1
        /\ (2 * j) % 2 = 0 /\ (2 * j) \div 2 = j /\ (2 * j + 1) % 2 = 1 /\ (2 * j + 1) \div 2 = j
    OBVIOUS
  <2>2. <<2 * j, c>> \in P /\ <<2 * j + 1, c>> \in P /\ <<j, c>> \in Q /\ <<j, c + t>> \in Q
    BY <1>1, <2>1
  <2>3. from[<<2 * j, c>>] = IF X[j][c] <= X[j][c + t] THEN <<j, c>> ELSE <<j, c + t>>
    <3>1. PICK k \in Nat : k = 2 * j /\ k % 2 = 0 /\ k \div 2 = j
      BY <2>1
    <3>2. from[<<k, c>>] = IF X[j][c] <= X[j][c + t] THEN <<j, c>> ELSE <<j, c + t>>
      BY <2>2, <3>1
    <3>. QED BY <3>1, <3>2
  <2>4. from[<<2 * j + 1, c>>] = IF X[j][c] <= X[j][c + t] THEN <<j, c + t>> ELSE <<j, c>>
    <3>1. PICK k \in Nat : k = 2 * j + 1 /\ k % 2 = 1 /\ k \div 2 = j
      BY <2>1
    <3>2. k % 2 # 0 /\ <<k, c>> \in P /\ <<k, c>>[1] = k /\ <<k, c>>[2] = c
      BY <2>2, <3>1
    <3>3. from[<<k, c>>] = IF (X[j][c] <= X[j][c + t]) = FALSE THEN <<j, c>> ELSE <<j, c + t>>
      BY <3>1, <3>2
    <3>4. (X[j][c] <= X[j][c + t]) \in BOOLEAN
      BY <1>1
    <3>. QED BY <3>1, <3>3, <3>4
  <2>. QED BY <2>2, <2>3, <2>4
<1>3. \A x \in P : G[x] = F[from[x]]
  OBVIOUS
<1>4. \A x \in P : \E j \in 0 .. n - 1, c \in 0 .. t - 1 : x = <<2 * j, c>> \/ x = <<2 * j + 1, c>>
  <2>. TAKE x \in P
  <2>1. PICK k \in 0 .. 2 * n - 1, c \in 0 .. t - 1 : x = <<k, c>>
    OBVIOUS
  <2>2. PICK j \in 0 .. n - 1 : k = 2 * j \/ k = 2 * j + 1
    BY <1>1
  <2>. QED BY <2>1, <2>2
<1>. HIDE DEF from
<1>5. \A x \in P : from[x] \in Q
  <2>. TAKE x \in P
  <2>1. PICK j \in 0 .. n - 1, c \in 0 .. t - 1 : x = <<2 * j, c>> \/ x = <<2 * j + 1, c>>
    BY <1>4
  <2>. HIDE DEF P, Q
  <2>2. /\ from[<<2 * j, c>>] = IF X[j][c] <= X[j][c + t] THEN <<j, c>> ELSE <<j, c + t>>
        /\ from[<<2 * j + 1, c>>] = IF X[j][c] <= X[j][c + t] THEN <<j, c + t>> ELSE <<j, c>>
        /\ <<j, c>> \in Q /\ <<j, c + t>> \in Q
    BY <1>2, ZenonT(120)
  <2>3. from[<<2 * j, c>>] \in Q /\ from[<<2 * j + 1, c>>] \in Q
    <3>1. CASE X[j][c] <= X[j][c + t]
      BY <2>2, <3>1, Zenon
    <3>2. CASE ~(X[j][c] <= X[j][c + t])
      BY <2>2, <3>2, Zenon
    <3>. QED BY <3>1, <3>2, Zenon
  <2>. QED BY <2>1, <2>3, Zenon
<1>6. /\ F \in [Q -> DOMAIN w]
      /\ \A j \in 0 .. n - 1, c \in 0 .. 2 * t - 1 : X[j][c] = w[F[<<j, c>>]]
      /\ \A x, y \in Q : F[x] = F[y] => x = y
  BY DEF Comes
<1>7. G \in [P -> DOMAIN w]
  BY <1>5, <1>6
<1>. HIDE DEF G
<1>8. ASSUME NEW k \in 0 .. 2 * n - 1, NEW c \in 0 .. t - 1 PROVE Y[k][c] = w[G[<<k, c>>]]
  <2>1. PICK j \in 0 .. n - 1 : k = 2 * j \/ k = 2 * j + 1
    BY <1>1
  <2>2. /\ Y[2 * j][c] = Lesser(X[j][c], X[j][c + t])
        /\ Y[2 * j + 1][c] = Greater(X[j][c], X[j][c + t])
        /\ X[j][c] = w[F[<<j, c>>]] /\ X[j][c + t] = w[F[<<j, c + t>>]]
    BY <1>1, <1>6, ZenonT(120)
  <2>3. /\ from[<<2 * j, c>>] = IF X[j][c] <= X[j][c + t] THEN <<j, c>> ELSE <<j, c + t>>
        /\ from[<<2 * j + 1, c>>] = IF X[j][c] <= X[j][c + t] THEN <<j, c + t>> ELSE <<j, c>>
        /\ G[<<2 * j, c>>] = F[from[<<2 * j, c>>]] /\ G[<<2 * j + 1, c>>] = F[from[<<2 * j + 1, c>>]]
    BY <1>2, <1>3
  <2>. QED BY <2>1, <2>2, <2>3, Zenon DEF Lesser, Greater
<1>9. ASSUME NEW x \in P, NEW y \in P, G[x] = G[y] PROVE x = y
  <2>1. from[x] = from[y]
    <3>1. F[from[x]] = F[from[y]] /\ from[x] \in Q /\ from[y] \in Q
      BY <1>3, <1>5, <1>9
    <3>. QED BY <1>6, <3>1
  <2>2. PICK j \in 0 .. n - 1, c \in 0 .. t - 1 : x = <<2 * j, c>> \/ x = <<2 * j + 1, c>>
    BY <1>4
  <2>3. PICK m \in 0 .. n - 1, d \in 0 .. t - 1 : y = <<2 * m, d>> \/ y = <<2 * m + 1, d>>
    BY <1>4
  <2>4. ASSUME NEW e \in 0 .. n - 1, NEW f \in 0 .. t - 1, NEW p, p = <<2 * e, f>> \/ p = <<2 * e + 1, f>>
        PROVE  from[p] = <<e, f>> \/ from[p] = <<e, f + t>>
    <3>1. /\ from[<<2 * e, f>>] = <<e, f>> \/ from[<<2 * e, f>>] = <<e, f + t>>
          /\ from[<<2 * e + 1, f>>] = <<e, f>> \/ from[<<2 * e + 1, f>>] = <<e, f + t>>
      BY <1>2, Zenon
    <3>. QED BY <2>4, <3>1, Zenon
  <2>5. j = m /\ c = d
    <3>1. from[x] = <<j, c>> \/ from[x] = <<j, c + t>>
      BY <2>2, <2>4
    <3>2. from[y] = <<m, d>> \/ from[y] = <<m, d + t>>
      BY <2>3, <2>4
    <3>3. \E e \in {c, c + t}, f \in {d, d + t} : <<j, e>> = <<m, f>>
      BY <2>1, <3>1, <3>2
    <3>4. j = m /\ (c = d \/ c = d + t \/ c + t = d \/ c + t = d + t)
      BY <3>3
    <3>. QED BY <3>4
  <2>6. /\ from[<<2 * j, c>>] = IF X[j][c] <= X[j][c + t] THEN <<j, c>> ELSE <<j, c + t>>
        /\ from[<<2 * j + 1, c>>] = IF X[j][c] <= X[j][c + t] THEN <<j, c + t>> ELSE <<j, c>>
    BY <1>2
  <2>7. <<j, c>> # <<j, c + t>>
    OBVIOUS
  <2>8. from[<<2 * j, c>>] # from[<<2 * j + 1, c>>]
    BY <2>6, <2>7, SMTT(120)
  <2>. QED BY <2>1, <2>2, <2>3, <2>5, <2>8
<1>10. Comes(Y, 2 * n, t, w, G)
  <2>1. \A x, y \in P : G[x] = G[y] => x = y
    BY <1>9
  <2>. QED BY <1>7, <1>8, <2>1 DEF Comes
<1>. QED BY <1>10 DEF Y

LEMMA HalvedLow ==
    ASSUME NEW n \in Nat, NEW t \in Nat, t >= 1, NEW X \in [0 .. n - 1 -> [0 .. 2 * t - 1 -> Nat]],
           NEW z \in Nat, LowRows(X, n, 2 * t, z)
    PROVE  LowRows(Halve(X, n, t), 2 * n, t, z)
<1>. SUFFICES ASSUME NEW k \in 0 .. 2 * n - 1, NEW c \in 0 .. t - 1, k + k < 2 * n
              PROVE  Halve(X, n, t)[k][c] <= z
  BY DEF LowRows
<1>. DEFINE Y == Halve(X, n, t)
<1>0. /\ \A j \in 0 .. n - 1, e \in 0 .. t - 1 :
           /\ e \in 0 .. 2 * t - 1 /\ e + t \in 0 .. 2 * t - 1
           /\ X[j][e] \in Nat /\ X[j][e + t] \in Nat
           /\ 2 * j \in 0 .. 2 * n - 1 /\ 2 * j + 1 \in 0 .. 2 * n - 1
           /\ Y[2 * j][e] = Lesser(X[j][e], X[j][e + t])
           /\ Y[2 * j + 1][e] = Greater(X[j][e], X[j][e + t])
      /\ \A l \in 0 .. 2 * n - 1 : \E j \in 0 .. n - 1 : l = 2 * j \/ l = 2 * j + 1
  BY HalveIs
<1>. HIDE DEF Y
<1>1. PICK j \in 0 .. n - 1 : k = 2 * j \/ k = 2 * j + 1
  BY <1>0
<1>2. /\ c \in 0 .. 2 * t - 1 /\ c + t \in 0 .. 2 * t - 1 /\ X[j][c] \in Nat /\ X[j][c + t] \in Nat
      /\ Y[2 * j][c] = Lesser(X[j][c], X[j][c + t])
      /\ Y[2 * j + 1][c] = Greater(X[j][c], X[j][c + t])
  BY <1>0
<1>3. j + j < n
  BY <1>1
<1>4. X[j][c] <= z /\ X[j][c + t] <= z
  BY <1>2, <1>3 DEF LowRows
<1>. QED BY <1>1, <1>2, <1>4 DEF Lesser, Greater, Y

\* The rows lie in the two vectors, row 0 in the first s lanes of one and row 1 in those of the
\* other, and so on.
Lies(v, q, s, X) ==
    /\ DOMAIN v.l = 1 .. MergeBlock /\ DOMAIN v.h = 1 .. MergeBlock
    /\ \A m \in 0 .. q - 1, c \in 0 .. s - 1 :
         v.l[m * s + c + 1] = X[2 * m][c] /\ v.h[m * s + c + 1] = X[2 * m + 1][c]

\* A lane and its row.
LEMMA LaneOf ==
    ASSUME NEW m \in Nat, NEW s \in Nat, NEW q \in Nat, m < q, NEW c \in Nat, c < s
    PROVE  m * s + c \in Nat /\ m * s + c < q * s
<1>1. (m + 1) * s <= q * s
  <2>1. \E d \in Nat : q = m + 1 + d
    BY q - m - 1 \in Nat
  <2>2. PICK d \in Nat : q = m + 1 + d
    BY <2>1
  <2>3. q * s = (m + 1) * s + d * s /\ d * s \in Nat
    BY <2>2
  <2>. QED BY <2>3
<1>2. (m + 1) * s = m * s + s /\ m * s \in Nat /\ q * s \in Nat
  OBVIOUS
<1>. QED BY <1>1, <1>2

\* A shuffle and an exchange halve the rows.
LEMMA ShuffledLies ==
    ASSUME NEW q \in Nat, q >= 1, NEW t \in Nat, t >= 1, MergeBlock \in Nat, q * (2 * t) = MergeBlock,
           NEW X \in [0 .. 2 * q - 1 -> [0 .. 2 * t - 1 -> Nat]], NEW v, Lies(v, q, 2 * t, X)
    PROVE  Lies(Shuffled(t, v), 2 * q, t, Halve(X, 2 * q, t))
<1>. DEFINE Y == Halve(X, 2 * q, t)
            low == ShuffledLow(t, v.l, v.h)
            high == ShuffledHigh(t, v.l, v.h)
<1>1. ASSUME NEW j \in 0 .. 2 * q - 1, NEW c \in 0 .. t - 1
      PROVE  LET k == j * t + c + 1
             IN k \in 1 .. MergeBlock /\ low[k] = X[j][c] /\ high[k] = X[j][c + t]
  <2>. DEFINE x == j * t + c
              k == x + 1
  <2>1. (2 * q) * t = MergeBlock /\ j < 2 * q /\ j \in Nat /\ 2 * q \in Nat /\ c < t /\ c \in Nat
    OBVIOUS
  <2>2. x \in Nat /\ x < MergeBlock
    <3>1. j * t + c \in Nat /\ j * t + c < (2 * q) * t
      BY <2>1, LaneOf, Zenon
    <3>. QED BY <2>1, <3>1
  <2>3. x \div t = j
    BY <2>1, <2>2, DivModOf
  <2>4. k \in 1 .. MergeBlock /\ k - 1 = x
    BY <2>2
  <2>5. /\ low[k] = IF j % 2 = 0 THEN v.l[k] ELSE v.h[k - t]
        /\ high[k] = IF j % 2 = 0 THEN v.l[k + t] ELSE v.h[k]
    BY <2>3, <2>4 DEF ShuffledLow, ShuffledHigh
  <2>6. PICK m \in 0 .. q - 1 : j = 2 * m \/ j = 2 * m + 1
    <3>1. j \div 2 \in 0 .. q - 1 /\ (j = 2 * (j \div 2) \/ j = 2 * (j \div 2) + 1)
      OBVIOUS
    <3>. QED BY <3>1
  <2>7. \A e \in 0 .. 2 * t - 1 :
           v.l[m * (2 * t) + e + 1] = X[2 * m][e] /\ v.h[m * (2 * t) + e + 1] = X[2 * m + 1][e]
    BY DEF Lies
  <2>8. c \in 0 .. 2 * t - 1 /\ c + t \in 0 .. 2 * t - 1
    OBVIOUS
  <2>9. CASE j = 2 * m
    <3>1. j % 2 = 0 /\ j * t = m * (2 * t)
      BY <2>9
    <3>2. k = m * (2 * t) + c + 1 /\ k + t = m * (2 * t) + (c + t) + 1
      BY <3>1
    <3>3. v.l[k] = X[2 * m][c] /\ v.l[k + t] = X[2 * m][c + t]
      BY <2>7, <2>8, <3>2
    <3>. QED BY <2>4, <2>5, <2>9, <3>1, <3>3
  <2>10. CASE j = 2 * m + 1
    <3>1. j % 2 = 1 /\ j * t = m * (2 * t) + t
      BY <2>10
    <3>2. k - t = m * (2 * t) + c + 1 /\ k = m * (2 * t) + (c + t) + 1
      BY <3>1
    <3>3. v.h[k - t] = X[2 * m + 1][c] /\ v.h[k] = X[2 * m + 1][c + t]
      BY <2>7, <2>8, <3>2
    <3>. QED BY <2>4, <2>5, <2>10, <3>1, <3>3
  <2>. QED BY <2>6, <2>9, <2>10
<1>. HIDE DEF low, high, Y
<1>2. /\ DOMAIN Shuffled(t, v).l = 1 .. MergeBlock /\ DOMAIN Shuffled(t, v).h = 1 .. MergeBlock
      /\ \A k \in 1 .. MergeBlock : /\ Shuffled(t, v).l[k] = Lesser(low[k], high[k])
                                    /\ Shuffled(t, v).h[k] = Greater(low[k], high[k])
  BY DEF Shuffled, Exchange, low, high
<1>3. ASSUME NEW j \in 0 .. 2 * q - 1, NEW c \in 0 .. t - 1
      PROVE  Shuffled(t, v).l[j * t + c + 1] = Y[2 * j][c] /\ Shuffled(t, v).h[j * t + c + 1] = Y[2 * j + 1][c]
  <2>1. Y[2 * j][c] = Lesser(X[j][c], X[j][c + t]) /\ Y[2 * j + 1][c] = Greater(X[j][c], X[j][c + t])
    <3>1. PICK n \in Nat : n = 2 * q
      OBVIOUS
    <3>2. X \in [0 .. n - 1 -> [0 .. 2 * t - 1 -> Nat]]
      BY <3>1
    <3>3. \A e \in 0 .. n - 1, f \in 0 .. t - 1 :
             /\ f \in 0 .. 2 * t - 1 /\ f + t \in 0 .. 2 * t - 1
             /\ X[e][f] \in Nat /\ X[e][f + t] \in Nat
             /\ 2 * e \in 0 .. 2 * n - 1 /\ 2 * e + 1 \in 0 .. 2 * n - 1
             /\ Halve(X, n, t)[2 * e][f] = Lesser(X[e][f], X[e][f + t])
             /\ Halve(X, n, t)[2 * e + 1][f] = Greater(X[e][f], X[e][f + t])
      BY <3>2, HalveIs
    <3>. QED BY <3>1, <3>3 DEF Y
  <2>2. PICK k \in 1 .. MergeBlock : k = j * t + c + 1 /\ low[k] = X[j][c] /\ high[k] = X[j][c + t]
    BY <1>1
  <2>. QED BY <1>2, <2>1, <2>2
<1>4. Lies(Shuffled(t, v), 2 * q, t, Y)
  BY <1>2, <1>3 DEF Lies
<1>. QED BY <1>4 DEF Y

\* Two blocks in order, the second reversed, do not alternate.
LEMMA OneRow ==
    ASSUME MergeBlock \in Nat, MergeBlock >= 1,
           NEW lo \in [1 .. MergeBlock -> Nat], NEW hi \in [1 .. MergeBlock -> Nat],
           \A x, y \in 1 .. MergeBlock : x <= y => lo[x] <= lo[y] /\ hi[x] <= hi[y]
    PROVE  LET row == [c \in 0 .. 2 * MergeBlock - 1 |->
                          IF c < MergeBlock THEN lo[c + 1] ELSE hi[2 * MergeBlock - c]]
           IN RowsApart([j \in 0 .. 0 |-> row], 1, 2 * MergeBlock)
<1>. DEFINE row == [c \in 0 .. 2 * MergeBlock - 1 |->
                       IF c < MergeBlock THEN lo[c + 1] ELSE hi[2 * MergeBlock - c]]
<1>1. PICK N \in Nat : N = MergeBlock /\ N >= 1
  OBVIOUS
<1>2. \A c \in 0 .. 2 * N - 1 : row[c] \in Nat
  <2>. TAKE c \in 0 .. 2 * N - 1
  <2>1. CASE c < N
    <3>1. c + 1 \in 1 .. N /\ row[c] = lo[c + 1]
      BY <1>1, <2>1
    <3>. QED BY <1>1, <3>1
  <2>2. CASE ~(c < N)
    <3>1. 2 * N - c \in 1 .. N /\ row[c] = hi[2 * N - c]
      BY <1>1, <2>2
    <3>. QED BY <1>1, <3>1
  <2>. QED BY <2>1, <2>2
<1>3. /\ \A c, d \in 0 .. 2 * N - 1 : c <= d /\ d < N => row[c] <= row[d]
      /\ \A c, d \in 0 .. 2 * N - 1 : c <= d /\ N <= c => row[d] <= row[c]
  <2>1. ASSUME NEW c \in 0 .. 2 * N - 1, NEW d \in 0 .. 2 * N - 1, c <= d, d < N PROVE row[c] <= row[d]
    <3>1. row[c] = lo[c + 1] /\ row[d] = lo[d + 1] /\ c + 1 \in 1 .. N /\ d + 1 \in 1 .. N /\ c + 1 <= d + 1
      BY <1>1, <2>1
    <3>. QED BY <1>1, <3>1
  <2>2. ASSUME NEW c \in 0 .. 2 * N - 1, NEW d \in 0 .. 2 * N - 1, c <= d, N <= c PROVE row[d] <= row[c]
    <3>1. /\ row[c] = hi[2 * N - c] /\ row[d] = hi[2 * N - d] /\ 2 * N - c \in 1 .. N /\ 2 * N - d \in 1 .. N
          /\ 2 * N - d <= 2 * N - c
      BY <1>1, <2>2
    <3>. QED BY <1>1, <3>1
  <2>. QED BY <2>1, <2>2
<1>4. row \in [0 .. 2 * N - 1 -> Nat]
  BY <1>1, <1>2
<1>. HIDE DEF row
<1>5. ASSUME NEW z \in Nat PROVE Bitonic({c \in 0 .. 2 * N - 1 : row[c] > z}, 2 * N)
  <2>. SUFFICES ASSUME NEW p \in 0 .. 2 * N - 1, NEW q \in 0 .. 2 * N - 1,
                       NEW r \in 0 .. 2 * N - 1, NEW e \in 0 .. 2 * N - 1, p < q, q < r, r < e
                PROVE  /\ ~(row[p] > z /\ ~(row[q] > z) /\ row[r] > z /\ ~(row[e] > z))
                       /\ ~(~(row[p] > z) /\ row[q] > z /\ ~(row[r] > z) /\ row[e] > z)
    BY DEF Bitonic
  <2>1. row[p] \in Nat /\ row[q] \in Nat /\ row[r] \in Nat /\ row[e] \in Nat
    BY <1>2
  <2>2. (q < N => row[p] <= row[q]) /\ (N <= q => row[r] <= row[q])
    BY <1>3
  <2>3. (r < N => row[q] <= row[r]) /\ (N <= r => row[e] <= row[r])
    BY <1>3
  <2>. QED BY <2>1, <2>2, <2>3, SMTT(120)
<1>6. RowsApart([j \in 0 .. 0 |-> row], 1, 2 * N)
  <2>. DEFINE X == [j \in 0 .. 0 |-> row]
  <2>1. 1 - 1 = 0 /\ \A j \in 0 .. 0 : j = 0 /\ X[j] = row
    OBVIOUS
  <2>2. X \in [0 .. 0 -> [0 .. 2 * N - 1 -> Nat]]
    BY <1>4
  <2>. HIDE DEF X
  <2>3. \A z \in Nat, j \in 0 .. 0 : Bitonic({c \in 0 .. 2 * N - 1 : X[j][c] > z}, 2 * N)
    BY <1>5, <2>1
  <2>4. \A j, k \in 0 .. 0 : ~(j < k)
    OBVIOUS
  <2>5. RowsApart(X, 1, 2 * N)
    BY <2>1, <2>2, <2>3, <2>4 DEF RowsApart
  <2>. QED BY <2>5 DEF X
<1>. QED BY <1>1, <1>6 DEF row

-----------------------------------------------------------------------------
(* The strides and the rounds.                                             *)

LEMMA StrideIs ==
    /\ MergeRounds \in Nat
    /\ Stride \in [0 .. MergeRounds -> Nat \ {0}] /\ Stride[0] = 1
    /\ \A k \in 1 .. MergeRounds : Stride[k] = 2 * Stride[k - 1]
<1>. DEFINE n == MergeRounds
            P == Nat \ {0}
            twice == [x \in (1 .. n) \X P |-> 2 * x[2]]
            Is(f) == f = [k \in 0 .. n |-> IF k = 0 THEN 1 ELSE 2 * f[k - 1]]
<1>1. n \in Nat
  BY MergeAssumption
<1>2. \A k \in 1 .. n, x \in P : twice[<<k, x>>] = 2 * x /\ 2 * x \in P
  OBVIOUS
<1>. HIDE DEF twice, n
<1>3. StaysIn(twice, P, n)
  BY <1>2 DEF StaysIn
<1>4. PICK g : Unfolds(g, P, n, 1, twice)
  <2>1. 1 \in P
    OBVIOUS
  <2>. HIDE DEF P
  <2>. QED BY <1>1, <1>3, <2>1, RecursionExists
<1>5. g \in [0 .. n -> P] /\ g[0] = 1 /\ \A k \in 1 .. n : g[k] = twice[<<k, g[k - 1]>>]
  BY <1>4 DEF Unfolds
<1>. HIDE DEF P
<1>6. \A k \in 1 .. n : g[k] = 2 * g[k - 1]
  <2>. TAKE k \in 1 .. n
  <2>1. g[k - 1] \in P
    <3>1. k - 1 \in 0 .. n
      BY <1>1
    <3>. QED BY <1>5, <3>1
  <2>. QED BY <1>2, <1>5, <2>1
<1>7. Is(g)
  <2>. DEFINE e == [k \in 0 .. n |-> IF k = 0 THEN 1 ELSE 2 * g[k - 1]]
  <2>1. \A k \in 0 .. n : g[k] = e[k]
    <3>. TAKE k \in 0 .. n
    <3>1. CASE k = 0
      BY <1>5, <3>1
    <3>2. CASE k \in 1 .. n
      <4>1. k # 0
        BY <3>2
      <4>. QED BY <1>6, <3>2, <4>1
    <3>. QED BY <1>1, <3>1, <3>2
  <2>. HIDE DEF e
  <2>2. DOMAIN e = 0 .. n
    BY DEF e
  <2>3. g = e
    BY <1>5, <2>1, <2>2 DEF e
  <2>. QED BY <2>3 DEF e
<1>8. Stride = CHOOSE f : Is(f)
  BY DEF Stride, n
<1>. HIDE DEF Is
<1>9. Is(Stride)
  BY <1>7, <1>8
<1>10. Stride = [k \in 0 .. n |-> IF k = 0 THEN 1 ELSE 2 * Stride[k - 1]]
  BY <1>9 DEF Is
<1>11. Stride[0] = 1 /\ \A k \in 1 .. n : Stride[k] = 2 * Stride[k - 1]
  <2>1. 0 \in 0 .. n /\ \A k \in 1 .. n : k \in 0 .. n /\ k # 0
    BY <1>1
  <2>. QED BY <1>10, <2>1
<1>12. \A k \in 0 .. n : Stride[k] \in Nat \ {0}
  <2>. DEFINE S == {k \in Nat : k <= n => Stride[k] \in Nat \ {0}}
  <2>1. 0 \in S
    BY <1>11
  <2>2. \A k \in Nat : k \in S => k + 1 \in S
    <3>. SUFFICES ASSUME NEW k \in Nat, k \in S, k + 1 <= n PROVE Stride[k + 1] \in Nat \ {0}
      OBVIOUS
    <3>1. Stride[k] \in Nat \ {0} /\ k + 1 \in 1 .. n /\ (k + 1) - 1 = k
      BY <1>1
    <3>2. Stride[k + 1] = 2 * Stride[k]
      BY <1>11, <3>1
    <3>. QED BY <3>1, <3>2
  <2>. HIDE DEF S
  <2>3. \A k \in Nat : k \in S
    BY <2>1, <2>2, SetInduction
  <2>. QED BY <1>1, <2>3 DEF S
<1>13. Stride \in [0 .. n -> Nat \ {0}]
  BY <1>10, <1>12
<1>. QED BY <1>1, <1>11, <1>13 DEF n

\* The strides of two rounds that mirror each other are a block.
LEMMA StridesMirror == \A r \in 0 .. MergeRounds : Stride[MergeRounds - r] * Stride[r] = MergeBlock
<1>1. PICK n \in Nat : n = MergeRounds
  BY StrideIs
<1>2. /\ Stride \in [0 .. n -> Nat \ {0}] /\ Stride[0] = 1
      /\ \A k \in 1 .. n : Stride[k] = 2 * Stride[k - 1]
  BY <1>1, StrideIs, Zenon
<1>. DEFINE S == {r \in Nat : r <= n => Stride[n - r] * Stride[r] = Stride[n]}
<1>3. 0 \in S
  <2>1. n - 0 = n /\ Stride[n] \in Nat
    BY <1>2
  <2>. QED BY <1>2, <2>1
<1>4. \A r \in Nat : r \in S => r + 1 \in S
  <2>. SUFFICES ASSUME NEW r \in Nat, r \in S, r + 1 <= n PROVE Stride[n - (r + 1)] * Stride[r + 1] = Stride[n]
    OBVIOUS
  <2>1. /\ r + 1 \in 1 .. n /\ (r + 1) - 1 = r /\ n - r \in 1 .. n /\ (n - r) - 1 = n - (r + 1)
        /\ r \in 0 .. n /\ n - (r + 1) \in 0 .. n /\ r <= n
    OBVIOUS
  <2>2. Stride[r + 1] = 2 * Stride[r] /\ Stride[n - r] = 2 * Stride[n - (r + 1)]
    BY <1>2, <2>1
  <2>3. Stride[n - r] * Stride[r] = Stride[n]
    BY <2>1
  <2>4. PICK x \in Nat, y \in Nat : x = Stride[n - (r + 1)] /\ y = Stride[r]
    BY <1>2, <2>1
  <2>5. (2 * x) * y = x * (2 * y)
    OBVIOUS
  <2>. QED BY <2>2, <2>3, <2>4, <2>5
<1>. HIDE DEF S
<1>5. \A r \in Nat : r \in S
  BY <1>3, <1>4, SetInduction
<1>. QED BY <1>1, <1>5 DEF S, MergeBlock

LEMMA BlockIs == MergeBlock \in Nat /\ MergeBlock >= 1
<1>1. MergeRounds \in 0 .. MergeRounds /\ Stride[MergeRounds] \in Nat \ {0}
  BY StrideIs
<1>. QED BY <1>1 DEF MergeBlock

VectorPairs == [l : [1 .. MergeBlock -> Nat], h : [1 .. MergeBlock -> Nat]]

\* A shuffle stays in the vectors.
LEMMA ShuffledType ==
    ASSUME NEW q \in Nat, NEW t \in Nat, t >= 1, q * (2 * t) = MergeBlock, NEW v \in VectorPairs
    PROVE  Shuffled(t, v) \in VectorPairs
<1>. DEFINE low == ShuffledLow(t, v.l, v.h)
            high == ShuffledHigh(t, v.l, v.h)
<1>1. MergeBlock \in Nat
  BY BlockIs
<1>2. ASSUME NEW k \in 1 .. MergeBlock PROVE low[k] \in Nat /\ high[k] \in Nat
  <2>1. PICK j \in Nat, c \in Nat : j = (k - 1) \div t /\ k - 1 = j * t + c /\ c < t
    <3>1. k - 1 \in Nat
      BY <1>1
    <3>. QED BY <3>1, DivMod
  <2>2. j < 2 * q
    <3>. SUFFICES ASSUME 2 * q <= j PROVE FALSE
      OBVIOUS
    <3>1. PICK d \in Nat : j = 2 * q + d
      BY j - 2 * q \in Nat
    <3>2. j * t = q * (2 * t) + d * t /\ d * t \in Nat
      BY <3>1
    <3>. QED BY <1>1, <2>1, <3>2
  <2>3. /\ low[k] = IF j % 2 = 0 THEN v.l[k] ELSE v.h[k - t]
        /\ high[k] = IF j % 2 = 0 THEN v.l[k + t] ELSE v.h[k]
    BY <2>1 DEF ShuffledLow, ShuffledHigh
  <2>4. v.l[k] \in Nat /\ v.h[k] \in Nat
    BY DEF VectorPairs
  <2>5. CASE j % 2 = 0
    <3>1. j + 1 < 2 * q
      BY <2>2, <2>5
    <3>2. (j + 1) * t + c < (2 * q) * t
      BY <2>1, <3>1, LaneOf
    <3>3. (j + 1) * t = j * t + t /\ (2 * q) * t = q * (2 * t)
      OBVIOUS
    <3>4. k + t \in 1 .. MergeBlock
      BY <1>1, <2>1, <3>2, <3>3
    <3>. QED BY <2>3, <2>4, <2>5, <3>4 DEF VectorPairs
  <2>6. CASE j % 2 # 0
    <3>1. j >= 1
      BY <2>6
    <3>2. j * t = (j - 1) * t + t /\ (j - 1) * t \in Nat
      BY <3>1
    <3>3. k - t \in 1 .. MergeBlock
      BY <1>1, <2>1, <3>2
    <3>. QED BY <2>3, <2>4, <2>6, <3>3 DEF VectorPairs
  <2>. QED BY <2>5, <2>6
<1>. HIDE DEF low, high
<1>3. Shuffled(t, v) = [l |-> [k \in 1 .. MergeBlock |-> Lesser(low[k], high[k])],
                        h |-> [k \in 1 .. MergeBlock |-> Greater(low[k], high[k])]]
  BY DEF Shuffled, Exchange, low, high
<1>4. \A k \in 1 .. MergeBlock : Lesser(low[k], high[k]) \in Nat /\ Greater(low[k], high[k]) \in Nat
  BY <1>2 DEF Lesser, Greater
<1>. QED BY <1>3, <1>4 DEF VectorPairs

\* The two blocks the network is given, and the second reversed.
Given(lo, hi) == [l |-> lo, h |-> [k \in 1 .. MergeBlock |-> hi[MergeBlock + 1 - k]]]

\* f is what the rounds make of them.
Unrolls(f, lo, hi) ==
    /\ f[0] = Exchange(Given(lo, hi))
    /\ \A r \in 1 .. MergeRounds : f[r] = Shuffled(Stride[MergeRounds - r], f[r - 1])

LEMMA RoundsAre ==
    ASSUME NEW lo \in [1 .. MergeBlock -> Nat], NEW hi \in [1 .. MergeBlock -> Nat]
    PROVE  \E f : /\ Unrolls(f, lo, hi)
                  /\ Network(lo, hi) =
                       [x \in 1 .. 2 * MergeBlock |-> IF x % 2 = 1 THEN f[MergeRounds].l[(x + 1) \div 2]
                                                                   ELSE f[MergeRounds].h[x \div 2]]
<1>. DEFINE n == MergeRounds
            first == Exchange(Given(lo, hi))
            turn == [x \in (1 .. n) \X VectorPairs |-> Shuffled(Stride[n - x[1]], x[2])]
            Is(f) == f = [r \in 0 .. n |-> IF r = 0 THEN Exchange([l |-> lo, h |-> [k \in 1 .. MergeBlock |-> hi[MergeBlock + 1 - k]]])
                                                    ELSE Shuffled(Stride[n - r], f[r - 1])]
<1>1. n \in Nat /\ MergeBlock \in Nat
  BY StrideIs, BlockIs
<1>2. first \in VectorPairs
  <2>1. \A k \in 1 .. MergeBlock : MergeBlock + 1 - k \in 1 .. MergeBlock /\ lo[k] \in Nat
    BY <1>1
  <2>2. \A k \in 1 .. MergeBlock : Lesser(lo[k], hi[MergeBlock + 1 - k]) \in Nat /\ Greater(lo[k], hi[MergeBlock + 1 - k]) \in Nat
    BY <2>1 DEF Lesser, Greater
  <2>3. first = [l |-> [k \in 1 .. MergeBlock |-> Lesser(lo[k], hi[MergeBlock + 1 - k])],
                 h |-> [k \in 1 .. MergeBlock |-> Greater(lo[k], hi[MergeBlock + 1 - k])]]
    BY DEF Exchange, Given
  <2>. HIDE DEF first
  <2>. QED BY <2>2, <2>3 DEF VectorPairs
<1>3. \A r \in 1 .. n, v \in VectorPairs : turn[<<r, v>>] = Shuffled(Stride[n - r], v)
  OBVIOUS
<1>4. ASSUME NEW r \in 1 .. n, NEW v \in VectorPairs PROVE Shuffled(Stride[n - r], v) \in VectorPairs
  <2>1. /\ r - 1 \in 0 .. n /\ n - r \in 0 .. n /\ n - (r - 1) \in 1 .. n /\ (n - (r - 1)) - 1 = n - r
    BY <1>1
  <2>2. Stride[n - r] \in Nat \ {0} /\ Stride[r - 1] \in Nat \ {0} /\ Stride[n - (r - 1)] = 2 * Stride[n - r]
    BY <2>1, StrideIs
  <2>3. Stride[n - (r - 1)] * Stride[r - 1] = MergeBlock
    BY <2>1, StridesMirror
  <2>4. PICK t \in Nat, q \in Nat : t = Stride[n - r] /\ q = Stride[r - 1] /\ t >= 1
    BY <2>2
  <2>5. q * (2 * t) = MergeBlock
    BY <2>2, <2>3, <2>4
  <2>6. Shuffled(t, v) \in VectorPairs
    BY <2>4, <2>5, ShuffledType
  <2>. QED BY <2>4, <2>6
<1>. HIDE DEF turn, first, n
<1>5. StaysIn(turn, VectorPairs, n)
  BY <1>3, <1>4 DEF StaysIn
<1>6. PICK g : Unfolds(g, VectorPairs, n, first, turn)
  BY <1>1, <1>2, <1>5, RecursionExists
<1>7. g \in [0 .. n -> VectorPairs] /\ g[0] = first /\ \A r \in 1 .. n : g[r] = turn[<<r, g[r - 1]>>]
  BY <1>6 DEF Unfolds
<1>8. \A r \in 1 .. n : g[r] = Shuffled(Stride[n - r], g[r - 1])
  <2>. TAKE r \in 1 .. n
  <2>1. g[r - 1] \in VectorPairs
    <3>1. r - 1 \in 0 .. n
      BY <1>1
    <3>. QED BY <1>7, <3>1
  <2>. QED BY <1>3, <1>7, <2>1
<1>9. Is(g)
  <2>. DEFINE e == [r \in 0 .. n |-> IF r = 0 THEN first ELSE Shuffled(Stride[n - r], g[r - 1])]
  <2>1. \A r \in 0 .. n : g[r] = e[r]
    <3>. TAKE r \in 0 .. n
    <3>1. CASE r = 0
      BY <1>7, <3>1
    <3>2. CASE r \in 1 .. n
      <4>1. r # 0
        BY <3>2
      <4>. QED BY <1>8, <3>2, <4>1
    <3>. QED BY <1>1, <3>1, <3>2
  <2>2. DOMAIN e = 0 .. n
    OBVIOUS
  <2>. HIDE DEF e
  <2>3. g = e
    BY <1>7, <2>1, <2>2 DEF e
  <2>. QED BY <2>3 DEF e, first, Given
<1>. DEFINE u == CHOOSE f : Is(f)
<1>10. Network(lo, hi) =
         [x \in 1 .. 2 * MergeBlock |-> IF x % 2 = 1 THEN u[MergeRounds].l[(x + 1) \div 2]
                                                     ELSE u[MergeRounds].h[x \div 2]]
  BY DEF Network, n
<1>. HIDE DEF Is
<1>11. Is(u)
  BY <1>9
<1>. HIDE DEF u
<1>12. u = [r \in 0 .. n |-> IF r = 0 THEN first ELSE Shuffled(Stride[n - r], u[r - 1])]
  BY <1>11 DEF Is, first, Given
<1>13. Unrolls(u, lo, hi)
  <2>1. 0 \in 0 .. n /\ \A r \in 1 .. n : r \in 0 .. n /\ r # 0
    BY <1>1
  <2>2. u[0] = first /\ \A r \in 1 .. n : u[r] = Shuffled(Stride[n - r], u[r - 1])
    BY <1>12, <2>1
  <2>. QED BY <2>2 DEF Unrolls, first, n
<1>. QED BY <1>10, <1>13

\* What is known of the vectors v between two rounds, q groups of s lanes in each.
Sorting(v, q, s, lo, hi) ==
    \E X, F :
      /\ RowsApart(X, 2 * q, s) /\ Comes(X, 2 * q, s, lo \o hi, F) /\ Lies(v, q, s, X)
      /\ \A z \in Nat : (\A k \in 1 .. MergeBlock : lo[k] <= z) \/ (\A k \in 1 .. MergeBlock : hi[k] <= z)
                          => LowRows(X, 2 * q, s, z)

LEMMA RoundSorts ==
    ASSUME NEW q \in Nat, q >= 1, NEW t \in Nat, t >= 1, q * (2 * t) = MergeBlock,
           NEW v, NEW lo, NEW hi, Sorting(v, q, 2 * t, lo, hi)
    PROVE  Sorting(Shuffled(t, v), 2 * q, t, lo, hi)
<1>1. PICK X, F :
        /\ RowsApart(X, 2 * q, 2 * t) /\ Comes(X, 2 * q, 2 * t, lo \o hi, F) /\ Lies(v, q, 2 * t, X)
        /\ \A z \in Nat : (\A k \in 1 .. MergeBlock : lo[k] <= z) \/ (\A k \in 1 .. MergeBlock : hi[k] <= z)
                            => LowRows(X, 2 * q, 2 * t, z)
  BY DEF Sorting
<1>. DEFINE n == 2 * q
            Y == Halve(X, n, t)
<1>2. n \in Nat /\ X \in [0 .. n - 1 -> [0 .. 2 * t - 1 -> Nat]]
  BY <1>1 DEF RowsApart
<1>3. RowsApart(Y, 2 * n, t)
  BY <1>1, <1>2, HalvedApart
<1>4. PICK G : Comes(Y, 2 * n, t, lo \o hi, G)
  BY <1>1, <1>2, HalvedComes
<1>5. Lies(Shuffled(t, v), n, t, Y)
  BY <1>1, <1>2, BlockIs, ShuffledLies
<1>6. ASSUME NEW z \in Nat, (\A k \in 1 .. MergeBlock : lo[k] <= z) \/ (\A k \in 1 .. MergeBlock : hi[k] <= z)
      PROVE  LowRows(Y, 2 * n, t, z)
  <2>1. LowRows(X, n, 2 * t, z)
    BY <1>1, <1>6
  <2>. QED BY <1>2, <2>1, HalvedLow
<1>. HIDE DEF Y
<1>7. Sorting(Shuffled(t, v), n, t, lo, hi)
  BY <1>3, <1>4, <1>5, <1>6 DEF Sorting
<1>. QED BY <1>7

\* A block: numbers in order.
IsBlock(s) == s \in Seq(Nat) /\ Len(s) = MergeBlock /\ \A x, y \in 1 .. MergeBlock : x <= y => s[x] <= s[y]

LEMMA FirstSorts ==
    ASSUME NEW lo, NEW hi, IsBlock(lo), IsBlock(hi)
    PROVE  Sorting(Exchange(Given(lo, hi)), 1, MergeBlock, lo, hi)
<1>. DEFINE row == [c \in 0 .. 2 * MergeBlock - 1 |->
                       IF c < MergeBlock THEN lo[c + 1] ELSE hi[2 * MergeBlock - c]]
            X == [j \in 0 .. 0 |-> row]
            Y == Halve(X, 1, MergeBlock)
            v == Exchange(Given(lo, hi))
            F == [x \in (0 .. 0) \X (0 .. 2 * MergeBlock - 1) |->
                     IF x[2] < MergeBlock THEN x[2] + 1 ELSE 3 * MergeBlock - x[2]]
<1>1. PICK N \in Nat : N = MergeBlock /\ N >= 1
  BY BlockIs
<1>2. /\ lo \in [1 .. N -> Nat] /\ hi \in [1 .. N -> Nat]
      /\ \A x, y \in 1 .. N : x <= y => lo[x] <= lo[y] /\ hi[x] <= hi[y]
  BY <1>1 DEF IsBlock
<1>3. RowsApart(X, 1, 2 * MergeBlock)
  BY <1>1, <1>2, OneRow
<1>4. \A c \in 0 .. N - 1 : row[c] = lo[c + 1] /\ row[c + N] = hi[N - c] /\ c + 1 \in 1 .. N /\ N - c \in 1 .. N
  <2>. TAKE c \in 0 .. N - 1
  <2>1. /\ c \in 0 .. 2 * N - 1 /\ c + N \in 0 .. 2 * N - 1 /\ c < N /\ ~(c + N < N) /\ 2 * N - (c + N) = N - c
        /\ c + 1 \in 1 .. N /\ N - c \in 1 .. N
    BY <1>1
  <2>2. row[c] = lo[c + 1] /\ row[c + N] = hi[2 * N - (c + N)]
    BY <1>1, <2>1
  <2>. QED BY <2>1, <2>2
<1>5. Comes(X, 1, 2 * MergeBlock, lo \o hi, F)
  <2>. DEFINE w == lo \o hi
  <2>1. /\ DOMAIN w = 1 .. 2 * N
        /\ \A k \in 1 .. 2 * N : w[k] = IF k <= N THEN lo[k] ELSE hi[k - N]
    <3>1. lo \in Seq(Nat) /\ hi \in Seq(Nat) /\ Len(lo) = N /\ Len(hi) = N
      BY <1>1 DEF IsBlock
    <3>2. /\ w \in Seq(Nat) /\ Len(w) = Len(lo) + Len(hi)
          /\ \A k \in 1 .. Len(lo) + Len(hi) : w[k] = IF k <= Len(lo) THEN lo[k] ELSE hi[k - Len(lo)]
      BY <3>1, ConcatProperties
    <3>3. N + N = 2 * N
      OBVIOUS
    <3>. HIDE DEF w
    <3>. QED BY <3>1, <3>2, <3>3
  <2>. HIDE DEF w
  <2>2. \A c \in 0 .. 2 * N - 1 :
           /\ F[<<0, c>>] = IF c < N THEN c + 1 ELSE 3 * N - c
           /\ row[c] = IF c < N THEN lo[c + 1] ELSE hi[2 * N - c]
    BY <1>1
  <2>3. \A c \in 0 .. 2 * N - 1 : F[<<0, c>>] \in 1 .. 2 * N /\ row[c] = w[F[<<0, c>>]]
    <3>. TAKE c \in 0 .. 2 * N - 1
    <3>. HIDE DEF F, row
    <3>1. CASE c < N
      <4>1. F[<<0, c>>] = c + 1 /\ row[c] = lo[c + 1] /\ c + 1 \in 1 .. 2 * N /\ c + 1 <= N
        BY <2>2, <3>1
      <4>. QED BY <2>1, <4>1
    <3>2. CASE ~(c < N)
      <4>1. /\ F[<<0, c>>] = 3 * N - c /\ row[c] = hi[2 * N - c] /\ 3 * N - c \in 1 .. 2 * N
            /\ ~(3 * N - c <= N) /\ (3 * N - c) - N = 2 * N - c
        BY <2>2, <3>2
      <4>. QED BY <2>1, <4>1
    <3>. QED BY <3>1, <3>2
  <2>4. \A x \in (0 .. 0) \X (0 .. 2 * MergeBlock - 1) : \E c \in 0 .. 2 * N - 1 : x = <<0, c>>
    BY <1>1
  <2>5. DOMAIN F = (0 .. 0) \X (0 .. 2 * MergeBlock - 1) /\ F = [x \in DOMAIN F |-> F[x]]
    OBVIOUS
  <2>6. \A j \in 0 .. 1 - 1 : j = 0 /\ X[j] = row
    OBVIOUS
  <2>. HIDE DEF F, row, X
  <2>7. F \in [(0 .. 1 - 1) \X (0 .. 2 * MergeBlock - 1) -> DOMAIN w]
    <3>1. \A x \in DOMAIN F : F[x] \in DOMAIN w
      BY <2>1, <2>3, <2>4, <2>5
    <3>. QED BY <2>5, <3>1
  <2>8. \A j \in 0 .. 1 - 1, c \in 0 .. 2 * MergeBlock - 1 : X[j][c] = w[F[<<j, c>>]]
    BY <1>1, <2>3, <2>6
  <2>9. ASSUME NEW x \in (0 .. 1 - 1) \X (0 .. 2 * MergeBlock - 1), NEW y \in (0 .. 1 - 1) \X (0 .. 2 * MergeBlock - 1),
               F[x] = F[y]
        PROVE  x = y
    <3>1. PICK c \in 0 .. 2 * N - 1 : x = <<0, c>>
      BY <2>4
    <3>2. PICK d \in 0 .. 2 * N - 1 : y = <<0, d>>
      BY <2>4
    <3>3. (IF c < N THEN c + 1 ELSE 3 * N - c) = (IF d < N THEN d + 1 ELSE 3 * N - d)
      BY <2>2, <2>9, <3>1, <3>2
    <3>4. c = d
      BY <3>3
    <3>. QED BY <3>1, <3>2, <3>4
  <2>. QED BY <2>7, <2>8, <2>9 DEF Comes, w
<1>6. X \in [0 .. 1 - 1 -> [0 .. 2 * MergeBlock - 1 -> Nat]] /\ X[0] = row
  BY <1>3 DEF RowsApart
<1>. HIDE DEF row, X, F
<1>7. RowsApart(Y, 2 * 1, MergeBlock)
  BY <1>1, <1>3, HalvedApart
<1>8. PICK G : Comes(Y, 2 * 1, MergeBlock, lo \o hi, G)
  BY <1>1, <1>5, <1>6, HalvedComes
<1>9. \A c \in 0 .. N - 1 : /\ Y[0][c] = Lesser(lo[c + 1], hi[N - c])
                            /\ Y[1][c] = Greater(lo[c + 1], hi[N - c])
  <2>. TAKE c \in 0 .. N - 1
  <2>1. Y[2 * 0][c] = Lesser(X[0][c], X[0][c + N]) /\ Y[2 * 0 + 1][c] = Greater(X[0][c], X[0][c + N])
    <3>1. PICK n \in Nat : n = 1 /\ 0 \in 0 .. n - 1
      OBVIOUS
    <3>2. X \in [0 .. n - 1 -> [0 .. 2 * N - 1 -> Nat]]
      BY <1>1, <1>6, <3>1
    <3>3. \A e \in 0 .. n - 1, f \in 0 .. N - 1 :
             /\ f \in 0 .. 2 * N - 1 /\ f + N \in 0 .. 2 * N - 1
             /\ X[e][f] \in Nat /\ X[e][f + N] \in Nat
             /\ 2 * e \in 0 .. 2 * n - 1 /\ 2 * e + 1 \in 0 .. 2 * n - 1
             /\ Halve(X, n, N)[2 * e][f] = Lesser(X[e][f], X[e][f + N])
             /\ Halve(X, n, N)[2 * e + 1][f] = Greater(X[e][f], X[e][f + N])
      BY <1>1, <3>2, HalveIs, ZenonT(120)
    <3>4. \A f \in 0 .. N - 1 : /\ Halve(X, n, N)[2 * 0][f] = Lesser(X[0][f], X[0][f + N])
                                 /\ Halve(X, n, N)[2 * 0 + 1][f] = Greater(X[0][f], X[0][f + N])
      BY <3>1, <3>3, Zenon
    <3>. QED BY <1>1, <3>1, <3>4, Zenon
  <2>2. 2 * 0 = 0 /\ 2 * 0 + 1 = 1
    OBVIOUS
  <2>. QED BY <1>4, <1>6, <2>1, <2>2
<1>. HIDE DEF Y
<1>10. \A k \in 1 .. N : v.l[k] = Lesser(lo[k], hi[N + 1 - k]) /\ v.h[k] = Greater(lo[k], hi[N + 1 - k])
  BY <1>1 DEF Exchange, Given
<1>11. DOMAIN v.l = 1 .. MergeBlock /\ DOMAIN v.h = 1 .. MergeBlock
  BY DEF Exchange
<1>. HIDE DEF v
<1>12. Lies(v, 1, MergeBlock, Y)
  <2>1. ASSUME NEW m \in 0 .. 1 - 1, NEW c \in 0 .. MergeBlock - 1
        PROVE  v.l[m * MergeBlock + c + 1] = Y[2 * m][c] /\ v.h[m * MergeBlock + c + 1] = Y[2 * m + 1][c]
    <3>1. m = 0 /\ m * MergeBlock + c + 1 = c + 1 /\ 2 * m = 0 /\ 2 * m + 1 = 1
      BY <1>1
    <3>2. c + 1 \in 1 .. N /\ N + 1 - (c + 1) = N - c /\ c \in 0 .. N - 1
      BY <1>1
    <3>. QED BY <1>9, <1>10, <3>1, <3>2
  <2>. QED BY <1>11, <2>1 DEF Lies
<1>13. ASSUME NEW z \in Nat, (\A k \in 1 .. MergeBlock : lo[k] <= z) \/ (\A k \in 1 .. MergeBlock : hi[k] <= z)
       PROVE  LowRows(Y, 2 * 1, MergeBlock, z)
  <2>1. ASSUME NEW c \in 0 .. N - 1 PROVE Y[0][c] <= z
    <3>1. lo[c + 1] <= z \/ hi[N - c] <= z
      BY <1>1, <1>4, <1>13
    <3>2. lo[c + 1] \in Nat /\ hi[N - c] \in Nat
      BY <1>2, <1>4
    <3>. QED BY <1>9, <3>1, <3>2 DEF Lesser
  <2>2. \A j \in 0 .. 2 * 1 - 1 : j + j < 2 * 1 => j = 0
    OBVIOUS
  <2>. QED BY <1>1, <2>1, <2>2 DEF LowRows
<1>14. Sorting(v, 1, MergeBlock, lo, hi)
  BY <1>7, <1>8, <1>12, <1>13 DEF Sorting
<1>. QED BY <1>14 DEF v

\* The network puts two blocks in order and is a rearrangement of them; and if nothing in one
\* of them is above z, then nothing in the lower half is.
\* G says which of w's elements each of s's is: the same elements, moved.
Moves(G, n, s, w) ==
    /\ G \in [1 .. n -> 1 .. n]
    /\ \A x \in 1 .. n : s[x] = w[G[x]]
    /\ \A x, y \in 1 .. n : G[x] = G[y] => x = y

LEMMA NetworkSorts ==
    ASSUME NEW lo, NEW hi, IsBlock(lo), IsBlock(hi)
    PROVE  LET both == Network(lo, hi)
           IN /\ both \in Seq(Nat) /\ Len(both) = 2 * MergeBlock
              /\ \A x, y \in 1 .. 2 * MergeBlock : x <= y => both[x] <= both[y]
              /\ \A z \in Nat : (\A k \in 1 .. MergeBlock : lo[k] <= z) \/ (\A k \in 1 .. MergeBlock : hi[k] <= z)
                                  => \A x \in 1 .. MergeBlock : both[x] <= z
              /\ \E G : Moves(G, 2 * MergeBlock, both, lo \o hi)
<1>. DEFINE n == MergeRounds
            both == Network(lo, hi)
<1>1. PICK N \in Nat : N = MergeBlock /\ N >= 1
  BY BlockIs
<1>2. lo \in [1 .. MergeBlock -> Nat] /\ hi \in [1 .. MergeBlock -> Nat]
  BY <1>1 DEF IsBlock
<1>3. PICK f : /\ Unrolls(f, lo, hi)
               /\ both = [x \in 1 .. 2 * MergeBlock |-> IF x % 2 = 1 THEN f[n].l[(x + 1) \div 2]
                                                                     ELSE f[n].h[x \div 2]]
  BY <1>2, RoundsAre
<1>. HIDE DEF both
<1>4. n \in Nat
  BY StrideIs
<1>. DEFINE S == {r \in Nat : r <= n => Sorting(f[r], Stride[r], Stride[n - r], lo, hi)}
<1>5. 0 \in S
  <2>1. Stride[0] = 1 /\ Stride[n - 0] = MergeBlock
    BY <1>4, StrideIs DEF MergeBlock
  <2>. QED BY <1>3, <2>1, FirstSorts DEF Unrolls
<1>6. \A r \in Nat : r \in S => r + 1 \in S
  <2>. SUFFICES ASSUME NEW r \in Nat, r \in S, r + 1 <= n
                PROVE  Sorting(f[r + 1], Stride[r + 1], Stride[n - (r + 1)], lo, hi)
    OBVIOUS
  <2>1. /\ r + 1 \in 1 .. n /\ (r + 1) - 1 = r /\ r \in 0 .. n /\ n - r \in 1 .. n /\ r <= n
        /\ (n - r) - 1 = n - (r + 1) /\ n - (r + 1) \in 0 .. n
    BY <1>4
  <2>2. /\ Stride[r + 1] = 2 * Stride[r] /\ Stride[n - r] = 2 * Stride[n - (r + 1)]
        /\ Stride[r] \in Nat \ {0} /\ Stride[n - (r + 1)] \in Nat \ {0}
    BY <2>1, StrideIs
  <2>3. Stride[n - r] * Stride[r] = MergeBlock
    BY <2>1, StridesMirror
  <2>4. PICK q \in Nat, t \in Nat : q = Stride[r] /\ t = Stride[n - (r + 1)] /\ q >= 1 /\ t >= 1
    BY <2>2
  <2>5. q * (2 * t) = MergeBlock
    BY <2>2, <2>3, <2>4
  <2>6. Sorting(f[r], q, 2 * t, lo, hi)
    BY <2>1, <2>2, <2>4
  <2>7. f[r + 1] = Shuffled(t, f[r])
    BY <1>3, <2>1, <2>4 DEF Unrolls
  <2>8. Sorting(Shuffled(t, f[r]), 2 * q, t, lo, hi)
    BY <2>4, <2>5, <2>6, RoundSorts
  <2>. QED BY <2>2, <2>4, <2>7, <2>8
<1>. HIDE DEF S
<1>7. \A r \in Nat : r \in S
  BY <1>5, <1>6, SetInduction
<1>8. Sorting(f[n], MergeBlock, 1, lo, hi)
  <2>1. n \in S /\ n - n = 0 /\ Stride[0] = 1 /\ Stride[n] = MergeBlock /\ n <= n
    BY <1>4, <1>7, StrideIs DEF MergeBlock
  <2>. QED BY <1>4, <2>1 DEF S
<1>9. PICK X, F :
        /\ RowsApart(X, 2 * MergeBlock, 1) /\ Comes(X, 2 * MergeBlock, 1, lo \o hi, F) /\ Lies(f[n], MergeBlock, 1, X)
        /\ \A z \in Nat : (\A k \in 1 .. MergeBlock : lo[k] <= z) \/ (\A k \in 1 .. MergeBlock : hi[k] <= z)
                            => LowRows(X, 2 * MergeBlock, 1, z)
  BY <1>8 DEF Sorting
<1>10. ASSUME NEW x \in 1 .. 2 * N
       PROVE  both[x] = X[x - 1][0] /\ x - 1 \in 0 .. 2 * N - 1 /\ X[x - 1][0] \in Nat
  <2>1. \A m \in 0 .. N - 1 : f[n].l[m + 1] = X[2 * m][0] /\ f[n].h[m + 1] = X[2 * m + 1][0]
    <3>. TAKE m \in 0 .. N - 1
    <3>1. 0 \in 0 .. 1 - 1 /\ m * 1 + 0 + 1 = m + 1 /\ m \in 0 .. MergeBlock - 1
      BY <1>1
    <3>. QED BY <1>9, <3>1 DEF Lies
  <2>2. both[x] = IF x % 2 = 1 THEN f[n].l[(x + 1) \div 2] ELSE f[n].h[x \div 2]
    BY <1>1, <1>3
  <2>3. ASSUME x % 2 = 1 PROVE both[x] = X[x - 1][0]
    <3>1. PICK m \in 0 .. N - 1 : x = 2 * m + 1
      <4>1. (x - 1) \div 2 \in 0 .. N - 1 /\ x = 2 * ((x - 1) \div 2) + 1
        BY <2>3
      <4>. QED BY <4>1
    <3>2. (x + 1) \div 2 = m + 1 /\ x - 1 = 2 * m
      BY <3>1
    <3>3. f[n].l[m + 1] = X[2 * m][0]
      BY <2>1
    <3>. QED BY <2>2, <2>3, <3>2, <3>3, Zenon
  <2>4. ASSUME x % 2 # 1 PROVE both[x] = X[x - 1][0]
    <3>1. PICK m \in 0 .. N - 1 : x = 2 * m + 2
      <4>1. x \div 2 - 1 \in 0 .. N - 1 /\ x = 2 * (x \div 2 - 1) + 2
        BY <2>4
      <4>. QED BY <4>1
    <3>2. x \div 2 = m + 1 /\ x - 1 = 2 * m + 1
      BY <3>1
    <3>3. f[n].h[m + 1] = X[2 * m + 1][0]
      BY <2>1
    <3>. QED BY <2>2, <2>4, <3>2, <3>3, Zenon
  <2>5. x - 1 \in 0 .. 2 * N - 1 /\ 0 \in 0 .. 1 - 1
    OBVIOUS
  <2>6. X[x - 1][0] \in Nat
    BY <1>1, <1>9, <2>5 DEF RowsApart
  <2>. QED BY <2>3, <2>4, <2>5, <2>6
<1>11. both \in Seq(Nat) /\ Len(both) = 2 * MergeBlock
  <2>1. both = [x \in 1 .. 2 * N |-> both[x]]
    BY <1>1, <1>3
  <2>2. \A x \in 1 .. 2 * N : both[x] \in Nat
    BY <1>10
  <2>3. both \in [1 .. 2 * N -> Nat] /\ 2 * N \in Nat
    BY <2>1, <2>2
  <2>. QED BY <1>1, <2>3
<1>12. ASSUME NEW x \in 1 .. 2 * N, NEW y \in 1 .. 2 * N, x <= y PROVE both[x] <= both[y]
  <2>1. CASE x = y
    BY <1>10, <2>1
  <2>2. CASE x # y
    <3>1. x - 1 < y - 1 /\ x - 1 \in 0 .. 2 * MergeBlock - 1 /\ y - 1 \in 0 .. 2 * MergeBlock - 1 /\ 0 \in 0 .. 1 - 1
      BY <1>1, <1>12, <2>2
    <3>2. X[x - 1][0] <= X[y - 1][0]
      BY <1>9, <3>1 DEF RowsApart
    <3>. QED BY <1>10, <3>2
  <2>. QED BY <2>1, <2>2
<1>13. ASSUME NEW z \in Nat, (\A k \in 1 .. MergeBlock : lo[k] <= z) \/ (\A k \in 1 .. MergeBlock : hi[k] <= z),
              NEW x \in 1 .. N
       PROVE  both[x] <= z
  <2>1. LowRows(X, 2 * MergeBlock, 1, z)
    BY <1>9, <1>13
  <2>2. x \in 1 .. 2 * N /\ x - 1 \in 0 .. 2 * MergeBlock - 1 /\ 0 \in 0 .. 1 - 1 /\ (x - 1) + (x - 1) < 2 * MergeBlock
    BY <1>1
  <2>3. X[x - 1][0] <= z
    BY <2>1, <2>2 DEF LowRows
  <2>. QED BY <1>10, <2>2, <2>3
<1>14. \E G \in [1 .. 2 * N -> 1 .. 2 * N] :
         /\ \A x \in 1 .. 2 * N : both[x] = (lo \o hi)[G[x]]
         /\ \A x, y \in 1 .. 2 * N : G[x] = G[y] => x = y
  <2>. DEFINE P == (0 .. 2 * MergeBlock - 1) \X (0 .. 1 - 1)
              G == [x \in 1 .. 2 * N |-> F[<<x - 1, 0>>]]
  <2>1. \A x \in 1 .. 2 * N : <<x - 1, 0>> \in P /\ G[x] = F[<<x - 1, 0>>] /\ x - 1 \in 0 .. 2 * MergeBlock - 1 /\ 0 \in 0 .. 1 - 1
    BY <1>1
  <2>2. DOMAIN (lo \o hi) = 1 .. 2 * N
    <3>1. lo \in Seq(Nat) /\ hi \in Seq(Nat) /\ Len(lo) = N /\ Len(hi) = N
      BY <1>1 DEF IsBlock
    <3>2. lo \o hi \in Seq(Nat) /\ Len(lo \o hi) = N + N
      BY <3>1, ConcatProperties, SMTT(120)
    <3>3. N + N = 2 * N
      OBVIOUS
    <3>. QED BY <3>2, <3>3
  <2>3. /\ F \in [P -> DOMAIN (lo \o hi)]
        /\ \A j \in 0 .. 2 * MergeBlock - 1, c \in 0 .. 1 - 1 : X[j][c] = (lo \o hi)[F[<<j, c>>]]
        /\ \A x, y \in P : F[x] = F[y] => x = y
    BY <1>9 DEF Comes
  <2>. HIDE DEF P
  <2>4. G \in [1 .. 2 * N -> 1 .. 2 * N]
    BY <2>1, <2>2, <2>3
  <2>. HIDE DEF G
  <2>5. ASSUME NEW x \in 1 .. 2 * N PROVE both[x] = (lo \o hi)[G[x]]
    <3>1. both[x] = X[x - 1][0]
      BY <1>10
    <3>2. X[x - 1][0] = (lo \o hi)[F[<<x - 1, 0>>]]
      BY <2>1, <2>3, Zenon
    <3>. QED BY <2>1, <3>1, <3>2, Zenon
  <2>6. ASSUME NEW x \in 1 .. 2 * N, NEW y \in 1 .. 2 * N, G[x] = G[y] PROVE x = y
    <3>1. <<x - 1, 0>> = <<y - 1, 0>>
      <4>1. F[<<x - 1, 0>>] = F[<<y - 1, 0>>] /\ <<x - 1, 0>> \in P /\ <<y - 1, 0>> \in P
        BY <2>1, <2>6
      <4>. QED BY <2>3, <4>1, Zenon
    <3>2. x - 1 = y - 1
      BY <3>1
    <3>. QED BY <3>2
  <2>. QED BY <2>4, <2>5, <2>6
<1>15. \A x, y \in 1 .. 2 * MergeBlock : x <= y => both[x] <= both[y]
  BY <1>1, <1>12
<1>16. \A z \in Nat : (\A k \in 1 .. MergeBlock : lo[k] <= z) \/ (\A k \in 1 .. MergeBlock : hi[k] <= z)
         => \A x \in 1 .. MergeBlock : both[x] <= z
  BY <1>1, <1>13
<1>17. \E G : Moves(G, 2 * MergeBlock, both, lo \o hi)
  <2>1. PICK G \in [1 .. 2 * N -> 1 .. 2 * N] :
          /\ \A x \in 1 .. 2 * N : both[x] = (lo \o hi)[G[x]]
          /\ \A x, y \in 1 .. 2 * N : G[x] = G[y] => x = y
    BY <1>14
  <2>2. G \in [1 .. 2 * MergeBlock -> 1 .. 2 * MergeBlock]
    BY <1>1
  <2>3. Moves(G, 2 * MergeBlock, both, lo \o hi)
    BY <1>1, <2>1, <2>2, Zenon DEF Moves
  <2>. QED BY <2>3, Zenon
<1>. QED BY <1>11, <1>15, <1>16, <1>17, Zenon DEF both

-----------------------------------------------------------------------------
(* How often a number is in a sequence.                                    *)

LEMMA TimesIs ==
    ASSUME NEW s \in Seq(Nat), NEW v
    PROVE  /\ DOMAIN s = 1 .. Len(s) /\ Len(s) \in Nat
           /\ IsFiniteSet({x \in DOMAIN s : s[x] = v}) /\ Times(s, v) \in Nat
<1>1. DOMAIN s = 1 .. Len(s) /\ Len(s) \in Nat
  OBVIOUS
<1>2. IsFiniteSet(1 .. Len(s)) /\ {x \in DOMAIN s : s[x] = v} \subseteq 1 .. Len(s)
  BY <1>1, FS_Interval
<1>3. IsFiniteSet({x \in DOMAIN s : s[x] = v})
  BY <1>2, FS_Subset
<1>. QED BY <1>1, <1>3, FS_CardinalityType DEF Times

LEMMA TimesJoin ==
    ASSUME NEW s \in Seq(Nat), NEW t \in Seq(Nat), NEW v
    PROVE  Times(s \o t, v) = Times(s, v) + Times(t, v)
<1>. DEFINE w == s \o t
            S == {x \in DOMAIN s : s[x] = v}
            T == {x \in DOMAIN t : t[x] = v}
            M == {Len(s) + x : x \in T}
<1>1. /\ Len(s) \in Nat /\ Len(t) \in Nat /\ w \in Seq(Nat) /\ Len(w) = Len(s) + Len(t)
      /\ \A x \in 1 .. Len(s) + Len(t) : w[x] = IF x <= Len(s) THEN s[x] ELSE t[x - Len(s)]
  BY ConcatProperties
<1>2. DOMAIN s = 1 .. Len(s) /\ DOMAIN t = 1 .. Len(t) /\ DOMAIN w = 1 .. Len(s) + Len(t)
  BY <1>1
<1>3. IsFiniteSet(S) /\ IsFiniteSet(T) /\ S \subseteq 1 .. Len(s) /\ T \subseteq 1 .. Len(t)
  BY <1>2, TimesIs
<1>. HIDE DEF w
<1>4. {x \in DOMAIN w : w[x] = v} = S \cup M
  <2>1. ASSUME NEW x \in DOMAIN w, w[x] = v PROVE x \in S \cup M
    <3>1. CASE x <= Len(s)
      <4>1. x \in 1 .. Len(s) /\ w[x] = s[x]
        BY <1>1, <1>2, <3>1
      <4>. QED BY <1>2, <2>1, <4>1
    <3>2. CASE ~(x <= Len(s))
      <4>1. x - Len(s) \in 1 .. Len(t) /\ w[x] = t[x - Len(s)] /\ x = Len(s) + (x - Len(s))
        BY <1>1, <1>2, <3>2
      <4>2. x - Len(s) \in T
        BY <1>2, <2>1, <4>1
      <4>. QED BY <4>1, <4>2
    <3>. QED BY <3>1, <3>2
  <2>2. ASSUME NEW x \in S PROVE x \in DOMAIN w /\ w[x] = v
    <3>1. x \in 1 .. Len(s) /\ x \in 1 .. Len(s) + Len(t) /\ x <= Len(s) /\ s[x] = v
      BY <1>1, <1>2
    <3>. QED BY <1>1, <1>2, <3>1
  <2>3. ASSUME NEW y \in T PROVE Len(s) + y \in DOMAIN w /\ w[Len(s) + y] = v
    <3>1. y \in 1 .. Len(t) /\ t[y] = v
      BY <1>2
    <3>2. Len(s) + y \in 1 .. Len(s) + Len(t) /\ ~(Len(s) + y <= Len(s)) /\ (Len(s) + y) - Len(s) = y
      BY <1>1, <3>1
    <3>. QED BY <1>1, <1>2, <3>1, <3>2
  <2>. HIDE DEF S, T
  <2>. QED BY <2>1, <2>2, <2>3
<1>5. S \cap M = {}
  <2>1. \A x \in T : ~(Len(s) + x \in 1 .. Len(s))
    BY <1>1, <1>3
  <2>. HIDE DEF S, T
  <2>. QED BY <1>3, <2>1
<1>. HIDE DEF S, T
<1>6. IsFiniteSet(M) /\ Cardinality(M) = Cardinality(T)
  <2>1. T \in SUBSET Int /\ Len(s) \in Int
    BY <1>1, <1>3
  <2>. QED BY <1>3, <2>1, MovedSize
<1>. HIDE DEF M
<1>7. Cardinality(S \cup M) = Cardinality(S) + Cardinality(T)
  BY <1>3, <1>5, <1>6, DisjointSize
<1>. QED BY <1>4, <1>7 DEF Times, w, S, T

\* A rearrangement has every number as often.
LEMMA TimesMoved ==
    ASSUME NEW s \in Seq(Nat), NEW w \in Seq(Nat), NEW n \in Nat, Len(s) = n, Len(w) = n,
           NEW G, Moves(G, n, s, w), NEW v
    PROVE  Times(s, v) = Times(w, v)
<1>. DEFINE S == {x \in DOMAIN s : s[x] = v}
            T == {x \in DOMAIN w : w[x] = v}
            f == [x \in S |-> G[x]]
<1>1. DOMAIN s = 1 .. n /\ DOMAIN w = 1 .. n
  OBVIOUS
<1>. USE DEF Moves
<1>2. G \in Injection(1 .. n, 1 .. n) /\ IsFiniteSet(1 .. n)
  <2>1. IsFiniteSet(1 .. n)
    BY FS_Interval, SMTT(120)
  <2>2. DOMAIN G = 1 .. n /\ G \in [1 .. n -> 1 .. n]
    OBVIOUS
  <2>. QED BY <2>1, <2>2, Zenon DEF Injection, IsInjective
<1>3. G \in Surjection(1 .. n, 1 .. n)
  BY <1>2, FS_Injection
<1>4. \A y \in 1 .. n : \E x \in 1 .. n : G[x] = y
  BY <1>3 DEF Surjection
<1>5. f \in [S -> T] /\ \A x, y \in S : f[x] = f[y] => x = y
  <2>1. \A x \in S : x \in 1 .. n /\ G[x] \in 1 .. n /\ w[G[x]] = v
    BY <1>1
  <2>2. \A x \in S : G[x] \in T
    BY <1>1, <2>1
  <2>. HIDE DEF S, T
  <2>. QED BY <2>1, <2>2
<1>6. \A y \in T : \E x \in S : f[x] = y
  <2>. TAKE y \in T
  <2>1. y \in 1 .. n /\ w[y] = v
    BY <1>1
  <2>2. PICK x \in 1 .. n : G[x] = y
    BY <1>4, <2>1
  <2>3. x \in S
    BY <1>1, <2>1, <2>2
  <2>. HIDE DEF S, T
  <2>. QED BY <2>2, <2>3
<1>7. IsFiniteSet(S)
  BY TimesIs, ZenonT(120)
<1>. HIDE DEF S, T, f
<1>8. f \in Bijection(S, T)
  BY <1>5, <1>6 DEF Bijection, Injection, Surjection, IsInjective
<1>9. Cardinality(T) = Cardinality(S)
  BY <1>7, <1>8, FS_Bijection DEF ExistsBijection
<1>. QED BY <1>9 DEF Times, S, T

-----------------------------------------------------------------------------
(* Sequences in order.                                                     *)

Rises(s) == s \in Seq(Nat) /\ \A x, y \in 1 .. Len(s) : x <= y => s[x] <= s[y]
NoneAbove(s, z) == \A x \in 1 .. Len(s) : s[x] <= z
Beneath(s, t) == \A x \in 1 .. Len(s), y \in 1 .. Len(t) : s[x] <= t[y]

\* What is left of s behind the first p, and the next n of it.
TailFrom(s, p) == SubSeq(s, p + 1, Len(s))
Piece(s, p, n) == SubSeq(s, p + 1, p + n)

\* What is left is in order.
LEMMA TailIs ==
    ASSUME NEW s, Rises(s), NEW p \in 0 .. Len(s)
    PROVE  /\ Rises(TailFrom(s, p)) /\ Len(TailFrom(s, p)) = Len(s) - p
           /\ \A x \in 1 .. Len(s) - p : TailFrom(s, p)[x] = s[p + x] /\ p + x \in 1 .. Len(s)
<1>1. s \in Seq(Nat) /\ \A x, y \in 1 .. Len(s) : x <= y => s[x] <= s[y]
  BY DEF Rises
<1>2. PICK l \in Nat : l = Len(s) /\ p \in Nat /\ p <= l
  BY <1>1
<1>. DEFINE w == TailFrom(s, p)
<1>3. w \in Seq(Nat) /\ Len(w) = l - p /\ \A x \in 1 .. l - p : w[x] = s[p + x]
  BY <1>1, <1>2, CutInTwo DEF TailFrom
<1>. HIDE DEF w
<1>4. \A x \in 1 .. l - p : p + x \in 1 .. l
  BY <1>2
<1>5. ASSUME NEW x \in 1 .. l - p, NEW y \in 1 .. l - p, x <= y PROVE w[x] <= w[y]
  <2>1. p + x \in 1 .. l /\ p + y \in 1 .. l /\ p + x <= p + y
    BY <1>2, <1>5
  <2>2. s[p + x] <= s[p + y]
    BY <1>1, <1>2, <2>1
  <2>. QED BY <1>3, <2>2
<1>6. Rises(w)
  BY <1>3, <1>5 DEF Rises
<1>. QED BY <1>2, <1>3, <1>4, <1>6 DEF w

\* So is the next of it.
LEMMA PieceIs ==
    ASSUME NEW s, Rises(s), NEW p \in Nat, NEW n \in Nat, p + n <= Len(s)
    PROVE  /\ Rises(Piece(s, p, n)) /\ Len(Piece(s, p, n)) = n
           /\ \A x \in 1 .. n : Piece(s, p, n)[x] = s[p + x] /\ p + x \in 1 .. Len(s)
<1>1. s \in Seq(Nat) /\ \A x, y \in 1 .. Len(s) : x <= y => s[x] <= s[y]
  BY DEF Rises
<1>2. PICK l \in Nat : l = Len(s) /\ p + n <= l
  BY <1>1
<1>. DEFINE w == Piece(s, p, n)
<1>3. \A x \in p + 1 .. p + n : x \in 1 .. l /\ s[x] \in Nat
  BY <1>1, <1>2
<1>4. w \in Seq(Nat) /\ Len(w) = n
  BY <1>2, <1>3 DEF Piece
<1>5. \A x \in 1 .. n : w[x] = s[p + x] /\ p + x \in 1 .. l
  BY <1>2, <1>3 DEF Piece
<1>. HIDE DEF w
<1>6. ASSUME NEW x \in 1 .. n, NEW y \in 1 .. n, x <= y PROVE w[x] <= w[y]
  <2>1. p + x \in 1 .. l /\ p + y \in 1 .. l /\ p + x <= p + y
    BY <1>2, <1>6
  <2>2. s[p + x] <= s[p + y]
    BY <1>1, <1>2, <2>1
  <2>. QED BY <1>5, <2>2
<1>7. Rises(w)
  BY <1>4, <1>6 DEF Rises
<1>. QED BY <1>2, <1>4, <1>5, <1>7 DEF w

\* What is left, cut in two.
LEMMA CutTail ==
    ASSUME NEW s, Rises(s), NEW p \in Nat, NEW n \in Nat, NEW m \in Nat, m = p + n, m <= Len(s)
    PROVE  /\ Beneath(Piece(s, p, n), TailFrom(s, m))
           /\ \A v : Times(TailFrom(s, p), v) = Times(Piece(s, p, n), v) + Times(TailFrom(s, m), v)
<1>1. s \in Seq(Nat) /\ \A x, y \in 1 .. Len(s) : x <= y => s[x] <= s[y]
  BY DEF Rises
<1>2. Len(s) \in Nat /\ m \in 0 .. Len(s) /\ p + n <= Len(s)
  BY <1>1
<1>3. /\ Rises(TailFrom(s, m)) /\ Len(TailFrom(s, m)) = Len(s) - m
      /\ \A x \in 1 .. Len(s) - m : TailFrom(s, m)[x] = s[m + x] /\ m + x \in 1 .. Len(s)
  BY <1>2, TailIs
<1>4. /\ Rises(Piece(s, p, n)) /\ Len(Piece(s, p, n)) = n
      /\ \A x \in 1 .. n : Piece(s, p, n)[x] = s[p + x] /\ p + x \in 1 .. Len(s)
  BY <1>2, PieceIs
<1>5. Beneath(Piece(s, p, n), TailFrom(s, m))
  <2>1. ASSUME NEW x \in 1 .. n, NEW y \in 1 .. Len(s) - m
        PROVE  Piece(s, p, n)[x] <= TailFrom(s, m)[y]
    <3>1. p + x \in 1 .. Len(s) /\ m + y \in 1 .. Len(s)
      BY <1>3, <1>4
    <3>2. p + x <= m + y
      BY <1>2
    <3>3. s[p + x] <= s[m + y]
      BY <1>1, <3>1, <3>2
    <3>. QED BY <1>3, <1>4, <3>3
  <2>. QED BY <1>3, <1>4, <2>1 DEF Beneath
<1>6. TailFrom(s, p) = Piece(s, p, n) \o TailFrom(s, m)
  <2>1. p + 1 \in 1 .. Len(s) + 1 /\ m \in (p + 1) - 1 .. Len(s) /\ Len(s) \in m .. Len(s)
    BY <1>2
  <2>2. SubSeq(s, p + 1, m) \o SubSeq(s, m + 1, Len(s)) = SubSeq(s, p + 1, Len(s))
    BY <1>1, <2>1, ConcatAdjacentSubSeq
  <2>. QED BY <2>2 DEF Piece, TailFrom
<1>7. Piece(s, p, n) \in Seq(Nat) /\ TailFrom(s, m) \in Seq(Nat)
  BY <1>3, <1>4 DEF Rises
<1>. QED BY <1>5, <1>6, <1>7, TimesJoin

\* What has been written, and something in order that is not below it.
LEMMA JoinRises ==
    ASSUME NEW s, Rises(s), NEW t, Rises(t), Beneath(s, t)
    PROVE  /\ Rises(s \o t) /\ Len(s \o t) = Len(s) + Len(t)
           /\ \A w : Beneath(s, w) /\ Beneath(t, w) => Beneath(s \o t, w)
           /\ \A v : Times(s \o t, v) = Times(s, v) + Times(t, v)
<1>. DEFINE w == s \o t
<1>1. s \in Seq(Nat) /\ t \in Seq(Nat) /\ Len(s) \in Nat /\ Len(t) \in Nat
  BY DEF Rises
<1>2. /\ w \in Seq(Nat) /\ Len(w) = Len(s) + Len(t)
      /\ \A x \in 1 .. Len(s) + Len(t) : w[x] = IF x <= Len(s) THEN s[x] ELSE t[x - Len(s)]
  BY <1>1, ConcatProperties
<1>. HIDE DEF w
<1>3. \A x \in 1 .. Len(w) : \/ x \in 1 .. Len(s) /\ w[x] = s[x]
                             \/ x - Len(s) \in 1 .. Len(t) /\ w[x] = t[x - Len(s)] /\ ~(x <= Len(s))
  <2>. TAKE x \in 1 .. Len(w)
  <2>1. CASE x <= Len(s)
    <3>1. x \in 1 .. Len(s) /\ x \in 1 .. Len(s) + Len(t)
      BY <1>1, <1>2, <2>1
    <3>. QED BY <1>2, <2>1, <3>1
  <2>2. CASE ~(x <= Len(s))
    <3>1. x - Len(s) \in 1 .. Len(t) /\ x \in 1 .. Len(s) + Len(t)
      BY <1>1, <1>2, <2>2
    <3>. QED BY <1>2, <2>2, <3>1
  <2>. QED BY <2>1, <2>2
<1>4. ASSUME NEW x \in 1 .. Len(w), NEW y \in 1 .. Len(w), x <= y PROVE w[x] <= w[y]
  <2>1. CASE x \in 1 .. Len(s) /\ y \in 1 .. Len(s)
    <3>1. w[x] = s[x] /\ w[y] = s[y]
      BY <1>1, <1>3, <2>1
    <3>. QED BY <1>4, <2>1, <3>1 DEF Rises
  <2>2. CASE x \in 1 .. Len(s) /\ ~(y <= Len(s))
    <3>1. w[x] = s[x] /\ y - Len(s) \in 1 .. Len(t) /\ w[y] = t[y - Len(s)]
      BY <1>1, <1>3, <2>2, SMTT(120)
    <3>. QED BY <2>2, <3>1 DEF Beneath
  <2>3. CASE ~(x <= Len(s))
    <3>1. ~(y <= Len(s)) /\ x - Len(s) <= y - Len(s)
      BY <1>1, <1>2, <1>4, <2>3
    <3>2. /\ x - Len(s) \in 1 .. Len(t) /\ w[x] = t[x - Len(s)]
          /\ y - Len(s) \in 1 .. Len(t) /\ w[y] = t[y - Len(s)]
      BY <1>1, <1>3, <2>3, <3>1
    <3>. QED BY <3>1, <3>2 DEF Rises
  <2>4. \/ x \in 1 .. Len(s) /\ y \in 1 .. Len(s)
        \/ x \in 1 .. Len(s) /\ ~(y <= Len(s))
        \/ ~(x <= Len(s))
    BY <1>1, <1>2
  <2>. QED BY <2>1, <2>2, <2>3, <2>4
<1>5. ASSUME NEW u, Beneath(s, u), Beneath(t, u) PROVE Beneath(w, u)
  BY <1>3, <1>5 DEF Beneath
<1>6. ASSUME NEW v PROVE Times(w, v) = Times(s, v) + Times(t, v)
  BY <1>1, TimesJoin DEF w
<1>. QED BY <1>2, <1>4, <1>5, <1>6 DEF Rises, w

\* Two blocks through the network: o has been written, near and far are still to come.
LEMMA BlocksMeet ==
    ASSUME NEW o, Rises(o), NEW rest, IsBlock(rest), NEW next, IsBlock(next),
           NEW near, Rises(near), NEW far, Rises(far),
           Beneath(o, rest), Beneath(o, next), Beneath(o, near), Beneath(o, far),
           Beneath(next, near), Beneath(rest, far)
    PROVE  LET both == Network(rest, next)
               low == BlockAt(both, 0)
               high == BlockAt(both, MergeBlock)
           IN /\ Rises(o \o low) /\ Len(o \o low) = Len(o) + MergeBlock
              /\ Rises(high) /\ Len(high) = MergeBlock
              /\ Beneath(o \o low, high) /\ Beneath(o \o low, near) /\ Beneath(o \o low, far)
              /\ \A v : Times(o \o low, v) + Times(high, v) = Times(o, v) + Times(rest, v) + Times(next, v)
              /\ \A z \in Nat : NoneAbove(rest, z) /\ NoneAbove(next, z) => NoneAbove(high, z)
<1>. DEFINE both == Network(rest, next)
            low == BlockAt(both, 0)
            high == BlockAt(both, MergeBlock)
<1>1. PICK n \in Nat : n = MergeBlock /\ n >= 1
  BY BlockIs
<1>2. /\ rest \in Seq(Nat) /\ next \in Seq(Nat) /\ Len(rest) = n /\ Len(next) = n
      /\ o \in Seq(Nat) /\ near \in Seq(Nat) /\ far \in Seq(Nat)
  BY <1>1 DEF IsBlock, Rises
<1>3. /\ both \in Seq(Nat) /\ Len(both) = 2 * n
      /\ \A x, y \in 1 .. 2 * n : x <= y => both[x] <= both[y]
      /\ \A z \in Nat : (\A k \in 1 .. n : rest[k] <= z) \/ (\A k \in 1 .. n : next[k] <= z)
                          => \A x \in 1 .. n : both[x] <= z
  BY <1>1, NetworkSorts
<1>4. PICK G : /\ G \in [1 .. 2 * n -> 1 .. 2 * n]
               /\ \A x \in 1 .. 2 * n : both[x] = (rest \o next)[G[x]]
               /\ \A x, y \in 1 .. 2 * n : G[x] = G[y] => x = y
               /\ Moves(G, 2 * n, both, rest \o next)
  <2>1. PICK G : Moves(G, 2 * MergeBlock, both, rest \o next)
    BY NetworkSorts, Zenon DEF both
  <2>2. Moves(G, 2 * n, both, rest \o next)
    BY <1>1, <2>1, Zenon
  <2>. QED BY <2>2, Zenon DEF Moves
<1>. HIDE DEF both
<1>5. Rises(both)
  BY <1>3 DEF Rises
<1>6. /\ Rises(low) /\ Len(low) = n /\ \A x \in 1 .. n : low[x] = both[x] /\ x \in 1 .. 2 * n
      /\ Rises(high) /\ Len(high) = n /\ \A x \in 1 .. n : high[x] = both[n + x] /\ n + x \in 1 .. 2 * n
      /\ Beneath(low, high)
      /\ \A v : Times(both, v) = Times(low, v) + Times(high, v)
  <2>1. 0 \in Nat /\ n \in Nat /\ n = 0 + n /\ 0 + n <= Len(both) /\ n <= Len(both) /\ n + n <= Len(both)
        /\ n + n = Len(both)
    BY <1>3
  <2>2. low = Piece(both, 0, n) /\ high = Piece(both, n, n)
    BY <1>1 DEF BlockAt, Piece
  <2>3. TailFrom(both, 0) = both
    BY <1>3, SubSeqFull DEF TailFrom
  <2>4. TailFrom(both, n) = high
    BY <2>1, <2>2 DEF TailFrom, Piece
  <2>. HIDE DEF low, high
  <2>5. /\ Rises(low) /\ Len(low) = n /\ \A x \in 1 .. n : low[x] = both[0 + x] /\ 0 + x \in 1 .. Len(both)
    BY <1>5, <2>1, <2>2, PieceIs
  <2>6. Rises(high) /\ Len(high) = n /\ \A x \in 1 .. n : high[x] = both[n + x] /\ n + x \in 1 .. Len(both)
    BY <1>5, <2>1, <2>2, PieceIs
  <2>7. /\ Beneath(Piece(both, 0, n), TailFrom(both, n))
        /\ \A v : Times(TailFrom(both, 0), v) = Times(Piece(both, 0, n), v) + Times(TailFrom(both, n), v)
    BY <1>5, <2>1, CutTail
  <2>8. \A x \in 1 .. n : 0 + x = x
    OBVIOUS
  <2>. QED BY <1>3, <2>2, <2>3, <2>4, <2>5, <2>6, <2>7, <2>8
<1>. HIDE DEF low, high
<1>7. \A x \in 1 .. 2 * n : \/ \E k \in 1 .. n : both[x] = rest[k]
                            \/ \E k \in 1 .. n : both[x] = next[k]
  <2>. TAKE x \in 1 .. 2 * n
  <2>1. (rest \o next)[G[x]] = IF G[x] <= n THEN rest[G[x]] ELSE next[G[x] - n]
    <3>1. \A y \in 1 .. Len(rest) + Len(next) :
             (rest \o next)[y] = IF y <= Len(rest) THEN rest[y] ELSE next[y - Len(rest)]
      BY <1>2, ConcatProperties
    <3>2. G[x] \in 1 .. n + n
      BY <1>4
    <3>. QED BY <1>2, <3>1, <3>2
  <2>2. G[x] \in 1 .. 2 * n /\ both[x] = (rest \o next)[G[x]]
    BY <1>4
  <2>3. CASE G[x] <= n
    <3>1. G[x] \in 1 .. n /\ both[x] = rest[G[x]]
      BY <2>1, <2>2, <2>3
    <3>. QED BY <3>1
  <2>4. CASE ~(G[x] <= n)
    <3>1. G[x] - n \in 1 .. n
      <4>1. G[x] \in 1 .. 2 * n /\ n \in Nat
        BY <2>2
      <4>. QED BY ONLY <2>4, <4>1
    <3>2. both[x] = next[G[x] - n]
      BY <2>1, <2>2, <2>4
    <3>. QED BY <3>1, <3>2
  <2>. QED BY <2>3, <2>4
<1>8. ASSUME NEW x \in 1 .. Len(o), NEW y \in 1 .. 2 * n PROVE o[x] <= both[y]
  <2>1. (\E k \in 1 .. n : both[y] = rest[k]) \/ (\E k \in 1 .. n : both[y] = next[k])
    BY <1>7
  <2>2. \A k \in 1 .. n : o[x] <= rest[k] /\ o[x] <= next[k]
    BY <1>2 DEF Beneath
  <2>. QED BY <2>1, <2>2
<1>9. ASSUME NEW u \in Seq(Nat), Beneath(rest, u) \/ Beneath(next, u) PROVE Beneath(low, u)
  <2>. SUFFICES ASSUME NEW x \in 1 .. n, NEW y \in 1 .. Len(u) PROVE low[x] <= u[y]
    BY <1>6 DEF Beneath
  <2>1. u[y] \in Nat
    OBVIOUS
  <2>2. (\A k \in 1 .. n : rest[k] <= u[y]) \/ (\A k \in 1 .. n : next[k] <= u[y])
    BY <1>2, <1>9 DEF Beneath
  <2>. QED BY <1>3, <1>6, <2>1, <2>2
<1>10. Beneath(low, near) /\ Beneath(low, far)
  BY <1>2, <1>9
<1>11. Beneath(o, low) /\ Beneath(o, high)
  BY <1>6, <1>8 DEF Beneath
<1>12. ASSUME NEW v PROVE Times(o \o low, v) + Times(high, v) = Times(o, v) + Times(rest, v) + Times(next, v)
  <2>1. Times(both, v) = Times(rest \o next, v)
    <3>1. rest \o next \in Seq(Nat) /\ Len(rest \o next) = Len(rest) + Len(next)
      BY <1>2, ConcatProperties
    <3>2. Len(rest \o next) = 2 * n /\ Len(both) = 2 * n /\ 2 * n \in Nat
      BY <1>2, <1>3, <3>1
    <3>. QED BY <1>3, <1>4, <3>1, <3>2, TimesMoved, Zenon
  <2>2. Times(rest \o next, v) = Times(rest, v) + Times(next, v)
    BY <1>2, TimesJoin
  <2>3. Times(o \o low, v) = Times(o, v) + Times(low, v)
    BY <1>2, <1>6, TimesJoin DEF Rises
  <2>4. /\ Times(o, v) \in Nat /\ Times(low, v) \in Nat /\ Times(high, v) \in Nat /\ Times(rest, v) \in Nat
        /\ Times(next, v) \in Nat
    BY <1>2, <1>6, TimesIs DEF Rises
  <2>5. Times(both, v) = Times(low, v) + Times(high, v)
    BY <1>6
  <2>. QED BY <2>1, <2>2, <2>3, <2>4, <2>5
<1>13. ASSUME NEW z \in Nat, NoneAbove(rest, z), NoneAbove(next, z) PROVE NoneAbove(high, z)
  <2>. SUFFICES ASSUME NEW x \in 1 .. n PROVE high[x] <= z
    BY <1>6 DEF NoneAbove
  <2>1. high[x] = both[n + x] /\ n + x \in 1 .. 2 * n
    BY <1>6
  <2>2. (\E k \in 1 .. n : both[n + x] = rest[k]) \/ (\E k \in 1 .. n : both[n + x] = next[k])
    BY <1>7, <2>1
  <2>3. \A k \in 1 .. n : rest[k] <= z /\ next[k] <= z
    BY <1>2, <1>13 DEF NoneAbove
  <2>. QED BY <2>1, <2>2, <2>3
<1>14. /\ Rises(o \o low) /\ Len(o \o low) = Len(o) + n
       /\ \A u : Beneath(o, u) /\ Beneath(low, u) => Beneath(o \o low, u)
  BY <1>6, <1>11, JoinRises
<1>. QED BY <1>1, <1>6, <1>10, <1>11, <1>12, <1>13, <1>14 DEF both, low, high

-----------------------------------------------------------------------------
(* What is kept at every step of a merge.                                  *)

\* o is written and u, v and w wait: all in order, nothing that waits is below what is
\* written, and together they have what s and t have.
Keeps(o, u, v, w, s, t) ==
    /\ Rises(o) /\ Rises(u) /\ Rises(v) /\ Rises(w)
    /\ Beneath(o, u) /\ Beneath(o, v) /\ Beneath(o, w)
    /\ \A z : Times(o, z) + Times(u, z) + Times(v, z) + Times(w, z) = Times(s, z) + Times(t, z)
    /\ Len(o) + Len(u) + Len(v) + Len(w) = Len(s) + Len(t)

\* It does not matter which of them waits where.
LEMMA KeepsSwaps ==
    ASSUME NEW o, NEW u, NEW v, NEW w, NEW s, NEW t, Keeps(o, u, v, w, s, t)
    PROVE  Keeps(o, v, u, w, s, t) /\ Keeps(o, u, w, v, s, t)
<1>1. /\ Rises(o) /\ Rises(u) /\ Rises(v) /\ Rises(w)
      /\ Beneath(o, u) /\ Beneath(o, v) /\ Beneath(o, w)
  BY DEF Keeps
<1>2. o \in Seq(Nat) /\ u \in Seq(Nat) /\ v \in Seq(Nat) /\ w \in Seq(Nat)
  BY <1>1 DEF Rises
<1>3. ASSUME NEW z
      PROVE  /\ Times(o, z) + Times(v, z) + Times(u, z) + Times(w, z) = Times(s, z) + Times(t, z)
             /\ Times(o, z) + Times(u, z) + Times(w, z) + Times(v, z) = Times(s, z) + Times(t, z)
  <2>1. Times(o, z) \in Nat /\ Times(u, z) \in Nat /\ Times(v, z) \in Nat /\ Times(w, z) \in Nat
    BY <1>2, TimesIs
  <2>2. Times(o, z) + Times(u, z) + Times(v, z) + Times(w, z) = Times(s, z) + Times(t, z)
    BY DEF Keeps
  <2>. QED BY <2>1, <2>2
<1>4. /\ Len(o) + Len(v) + Len(u) + Len(w) = Len(s) + Len(t)
      /\ Len(o) + Len(u) + Len(w) + Len(v) = Len(s) + Len(t)
  <2>1. Len(o) \in Nat /\ Len(u) \in Nat /\ Len(v) \in Nat /\ Len(w) \in Nat
    BY <1>2
  <2>2. Len(o) + Len(u) + Len(v) + Len(w) = Len(s) + Len(t)
    BY DEF Keeps
  <2>. QED BY <2>1, <2>2
<1>. QED BY <1>1, <1>3, <1>4 DEF Keeps

\* What is not above the head of a sequence in order is not above any of it.
LEMMA HeadBeneath ==
    ASSUME NEW x \in Nat, NEW w, Rises(w), w # <<>> => x <= w[1]
    PROVE  \A y \in 1 .. Len(w) : x <= w[y]
<1>. TAKE y \in 1 .. Len(w)
<1>1. w \in Seq(Nat) /\ 1 \in 1 .. Len(w) /\ 1 <= y /\ w # <<>>
  BY DEF Rises
<1>2. w[1] <= w[y] /\ w[1] \in Nat /\ w[y] \in Nat
  BY <1>1 DEF Rises
<1>. QED BY <1>1, <1>2

\* The least head goes out.
LEMMA HeadLeaves ==
    ASSUME NEW o, NEW u, NEW v, NEW w, NEW s, NEW t, Keeps(o, u, v, w, s, t), u # <<>>,
           v # <<>> => u[1] <= v[1], w # <<>> => u[1] <= w[1]
    PROVE  Keeps(Append(o, u[1]), Tail(u), v, w, s, t)
<1>. DEFINE x == u[1]
            one == <<x>>
            left == Tail(u)
            more == o \o one
<1>1. /\ Rises(o) /\ Rises(u) /\ Rises(v) /\ Rises(w)
      /\ Beneath(o, u) /\ Beneath(o, v) /\ Beneath(o, w)
      /\ Len(o) + Len(u) + Len(v) + Len(w) = Len(s) + Len(t)
      /\ \A z : Times(o, z) + Times(u, z) + Times(v, z) + Times(w, z) = Times(s, z) + Times(t, z)
  BY DEF Keeps
<1>2. o \in Seq(Nat) /\ u \in Seq(Nat) /\ v \in Seq(Nat) /\ w \in Seq(Nat)
  BY <1>1 DEF Rises
<1>3. Len(u) >= 1 /\ x \in Nat /\ 1 \in 1 .. Len(u)
  BY <1>2
<1>4. left = TailFrom(u, 1) /\ u = TailFrom(u, 0)
  <2>1. SubSeq(u, 2, Len(u)) = Tail(u)
    BY <1>2, <1>3, SMTT(120)
  <2>2. SubSeq(u, 1, Len(u)) = u
    BY <1>2, SubSeqFull
  <2>3. 0 + 1 = 1 /\ 1 + 1 = 2
    OBVIOUS
  <2>. QED BY <2>1, <2>2, <2>3 DEF TailFrom
<1>5. /\ Rises(one) /\ Len(one) = 1 /\ Beneath(one, left)
      /\ Rises(left) /\ Len(left) = Len(u) - 1
      /\ \A y \in 1 .. Len(u) - 1 : left[y] = u[1 + y] /\ 1 + y \in 1 .. Len(u)
      /\ \A z : Times(u, z) = Times(one, z) + Times(left, z)
  <2>1. 0 \in Nat /\ 1 \in Nat /\ 1 = 0 + 1 /\ 0 + 1 <= Len(u) /\ 1 <= Len(u) /\ 1 \in 0 .. Len(u)
    BY <1>2, <1>3
  <2>2. /\ Rises(Piece(u, 0, 1)) /\ Len(Piece(u, 0, 1)) = 1
        /\ \A y \in 1 .. 1 : Piece(u, 0, 1)[y] = u[0 + y] /\ 0 + y \in 1 .. Len(u)
    BY <1>1, <2>1, PieceIs
  <2>3. /\ Beneath(Piece(u, 0, 1), TailFrom(u, 1))
        /\ \A z : Times(TailFrom(u, 0), z) = Times(Piece(u, 0, 1), z) + Times(TailFrom(u, 1), z)
    BY <1>1, <2>1, CutTail
  <2>4. /\ Rises(TailFrom(u, 1)) /\ Len(TailFrom(u, 1)) = Len(u) - 1
        /\ \A y \in 1 .. Len(u) - 1 : TailFrom(u, 1)[y] = u[1 + y] /\ 1 + y \in 1 .. Len(u)
    BY <1>1, <2>1, TailIs
  <2>5. Piece(u, 0, 1) = one
    <3>1. Piece(u, 0, 1) \in Seq(Nat) /\ Piece(u, 0, 1)[1] = x /\ Len(Piece(u, 0, 1)) = 1
      BY <2>1, <2>2 DEF Rises
    <3>2. one \in Seq(Nat) /\ Len(one) = 1 /\ one[1] = x
      BY <1>3
    <3>3. \A y \in 1 .. Len(Piece(u, 0, 1)) : Piece(u, 0, 1)[y] = one[y]
      BY <3>1, <3>2
    <3>. HIDE DEF one
    <3>. QED BY <3>1, <3>2, <3>3, SeqEqual
  <2>. HIDE DEF one, left
  <2>. QED BY <1>4, <2>2, <2>3, <2>4, <2>5
<1>6. one[1] = x /\ \A y \in 1 .. 1 : y = 1
  OBVIOUS
<1>7. Append(o, u[1]) = more
  BY <1>2, <1>3
<1>. HIDE DEF one, left, x
<1>8. Beneath(o, one)
  BY <1>1, <1>3, <1>5, <1>6 DEF Beneath, x
<1>9. Beneath(o, left)
  BY <1>1, <1>5 DEF Beneath
<1>10. Beneath(one, v) /\ Beneath(one, w)
  <2>1. (\A y \in 1 .. Len(v) : x <= v[y]) /\ (\A y \in 1 .. Len(w) : x <= w[y])
    BY <1>1, <1>3, HeadBeneath DEF x
  <2>. QED BY <1>5, <1>6, <2>1 DEF Beneath
<1>11. /\ Rises(more) /\ Len(more) = Len(o) + 1
       /\ Beneath(more, left) /\ Beneath(more, v) /\ Beneath(more, w)
       /\ \A z : Times(more, z) = Times(o, z) + Times(one, z)
  <2>1. /\ Rises(o \o one) /\ Len(o \o one) = Len(o) + Len(one)
        /\ \A q : Beneath(o, q) /\ Beneath(one, q) => Beneath(o \o one, q)
        /\ \A z : Times(o \o one, z) = Times(o, z) + Times(one, z)
    <3>1. Rises(o) /\ Rises(one) /\ Beneath(o, one)
      BY <1>1, <1>5, <1>8
    <3>. QED BY ONLY <3>1, JoinRises
  <2>2. Len(more) = Len(o) + 1
    BY <1>5, <2>1
  <2>. HIDE DEF more
  <2>3. /\ Rises(more) /\ \A q : Beneath(o, q) /\ Beneath(one, q) => Beneath(more, q)
        /\ \A z : Times(more, z) = Times(o, z) + Times(one, z)
    BY <2>1 DEF more
  <2>. QED BY <1>1, <1>5, <1>9, <1>10, <2>2, <2>3
<1>12. ASSUME NEW z
       PROVE  Times(more, z) + Times(left, z) + Times(v, z) + Times(w, z) = Times(s, z) + Times(t, z)
  <2>1. one \in Seq(Nat) /\ left \in Seq(Nat)
    BY <1>5 DEF Rises
  <2>2. /\ Times(o, z) \in Nat /\ Times(one, z) \in Nat /\ Times(left, z) \in Nat
        /\ Times(v, z) \in Nat /\ Times(w, z) \in Nat
    BY <1>2, <2>1, TimesIs
  <2>3. /\ Times(more, z) = Times(o, z) + Times(one, z) /\ Times(u, z) = Times(one, z) + Times(left, z)
        /\ Times(o, z) + Times(u, z) + Times(v, z) + Times(w, z) = Times(s, z) + Times(t, z)
    BY <1>1, <1>5, <1>11
  <2>. QED BY <2>2, <2>3
<1>13. Len(more) + Len(left) + Len(v) + Len(w) = Len(s) + Len(t)
  <2>1. Len(o) \in Nat /\ Len(u) \in Nat /\ Len(v) \in Nat /\ Len(w) \in Nat
    BY <1>2
  <2>2. Len(o) + Len(u) + Len(v) + Len(w) = Len(s) + Len(t)
    BY <1>1
  <2>3. Len(more) = Len(o) + 1 /\ Len(left) = Len(u) - 1
    BY <1>5, <1>11
  <2>. QED BY <2>1, <2>2, <2>3
<1>. HIDE DEF more
<1>14. Keeps(more, left, v, w, s, t)
  BY <1>1, <1>5, <1>11, <1>12, <1>13 DEF Keeps
<1>. QED BY <1>7, <1>14 DEF left

\* What is carried is not above what is left of a side, if it is not above the next of it.
LEMMA CarriedBeneath ==
    ASSUME NEW c, Rises(c), NEW z \in Nat, NoneAbove(c, z),
           NEW d, Rises(d), NEW p \in 0 .. Len(d) - 1, z <= d[p + 1]
    PROVE  Beneath(c, TailFrom(d, p))
<1>1. d \in Seq(Nat) /\ c \in Seq(Nat) /\ Len(d) \in Nat
  BY DEF Rises
<1>2. p \in 0 .. Len(d) /\ p + 1 \in 1 .. Len(d) /\ p \in Nat
  BY <1>1
<1>3. /\ Len(TailFrom(d, p)) = Len(d) - p
      /\ \A x \in 1 .. Len(d) - p : TailFrom(d, p)[x] = d[p + x] /\ p + x \in 1 .. Len(d)
  BY <1>2, TailIs
<1>. SUFFICES ASSUME NEW x \in 1 .. Len(c), NEW y \in 1 .. Len(d) - p PROVE c[x] <= d[p + y]
  BY <1>3 DEF Beneath
<1>4. p + y \in 1 .. Len(d) /\ p + 1 <= p + y
  BY <1>2, <1>3
<1>5. d[p + 1] <= d[p + y]
  BY <1>2, <1>4 DEF Rises
<1>6. c[x] <= z /\ c[x] \in Nat /\ d[p + 1] \in Nat /\ d[p + y] \in Nat
  BY <1>1, <1>2, <1>4, SMTT(120) DEF NoneAbove
<1>. QED BY <1>5, <1>6

\* A block of d meets the block that is carried, and nothing carried is above the other side.
LEMMA BlockMeets ==
    ASSUME NEW d, Rises(d), NEW p \in 0 .. Len(d), p + MergeBlock <= Len(d),
           NEW o, NEW c, NEW far, NEW s, NEW t, Keeps(o, c, TailFrom(d, p), far, s, t),
           Len(c) = MergeBlock, Beneath(c, far)
    PROVE  LET both == Network(c, BlockAt(d, p))
               low == BlockAt(both, 0)
               high == BlockAt(both, MergeBlock)
           IN /\ Keeps(o \o low, high, TailFrom(d, p + MergeBlock), far, s, t)
              /\ Len(high) = MergeBlock
              /\ \A z \in Nat : NoneAbove(c, z) /\ d[p + MergeBlock] <= z => NoneAbove(high, z)
              /\ p + MergeBlock \in 1 .. Len(d)
<1>. DEFINE next == BlockAt(d, p)
            near == TailFrom(d, p + MergeBlock)
            low == BlockAt(Network(c, next), 0)
            high == BlockAt(Network(c, next), MergeBlock)
<1>1. MergeBlock \in Nat /\ MergeBlock >= 1 /\ d \in Seq(Nat) /\ Len(d) \in Nat
  BY BlockIs DEF Rises
<1>2. /\ Rises(o) /\ Rises(c) /\ Rises(TailFrom(d, p)) /\ Rises(far)
      /\ Beneath(o, c) /\ Beneath(o, TailFrom(d, p)) /\ Beneath(o, far)
      /\ Len(o) + Len(c) + Len(TailFrom(d, p)) + Len(far) = Len(s) + Len(t)
      /\ \A z : Times(o, z) + Times(c, z) + Times(TailFrom(d, p), z) + Times(far, z) = Times(s, z) + Times(t, z)
  BY DEF Keeps
<1>3. /\ p \in Nat /\ p + MergeBlock \in Nat /\ p + MergeBlock \in 0 .. Len(d) /\ p + MergeBlock \in 1 .. Len(d)
      /\ MergeBlock <= Len(d) - p
  BY <1>1
<1>4. next = Piece(d, p, MergeBlock)
  BY DEF BlockAt, Piece
<1>. HIDE DEF next, near
<1>5. /\ Rises(next) /\ Len(next) = MergeBlock /\ Beneath(next, near)
      /\ \A x \in 1 .. MergeBlock : next[x] = d[p + x] /\ p + x \in 1 .. Len(d)
      /\ \A z : Times(TailFrom(d, p), z) = Times(next, z) + Times(near, z)
      /\ Len(TailFrom(d, p)) = Len(d) - p
      /\ \A x \in 1 .. Len(d) - p : TailFrom(d, p)[x] = d[p + x]
  <2>1. /\ Rises(Piece(d, p, MergeBlock)) /\ Len(Piece(d, p, MergeBlock)) = MergeBlock
        /\ \A x \in 1 .. MergeBlock : Piece(d, p, MergeBlock)[x] = d[p + x] /\ p + x \in 1 .. Len(d)
    BY <1>1, <1>3, PieceIs
  <2>2. PICK m \in Nat : m = p + MergeBlock /\ m <= Len(d)
    BY <1>3
  <2>3. /\ Beneath(Piece(d, p, MergeBlock), TailFrom(d, m))
        /\ \A z : Times(TailFrom(d, p), z) = Times(Piece(d, p, MergeBlock), z) + Times(TailFrom(d, m), z)
    BY <1>1, <1>3, <2>2, CutTail
  <2>4. /\ Len(TailFrom(d, p)) = Len(d) - p
        /\ \A x \in 1 .. Len(d) - p : TailFrom(d, p)[x] = d[p + x] /\ p + x \in 1 .. Len(d)
    BY TailIs
  <2>5. near = TailFrom(d, m)
    BY <2>2 DEF near
  <2>. QED BY <1>4, <2>1, <2>3, <2>4, <2>5
<1>6. /\ Rises(near) /\ Len(near) = Len(d) - (p + MergeBlock)
      /\ \A x \in 1 .. Len(d) - (p + MergeBlock) : near[x] = d[(p + MergeBlock) + x]
  <2>1. PICK m \in 0 .. Len(d) : m = p + MergeBlock
    BY <1>3
  <2>2. /\ Rises(TailFrom(d, m)) /\ Len(TailFrom(d, m)) = Len(d) - m
        /\ \A x \in 1 .. Len(d) - m : TailFrom(d, m)[x] = d[m + x] /\ m + x \in 1 .. Len(d)
    BY TailIs
  <2>3. near = TailFrom(d, m)
    BY <2>1 DEF near
  <2>. QED BY <2>1, <2>2, <2>3
<1>7. Beneath(o, next)
  <2>1. \A x \in 1 .. MergeBlock : x \in 1 .. Len(d) - p
    BY <1>3
  <2>. QED BY <1>2, <1>5, <2>1 DEF Beneath
<1>8. Beneath(o, near)
  <2>1. \A x \in 1 .. Len(d) - (p + MergeBlock) :
           MergeBlock + x \in 1 .. Len(d) - p /\ p + (MergeBlock + x) = (p + MergeBlock) + x
    BY <1>1, <1>3
  <2>2. \A x \in 1 .. Len(d) - (p + MergeBlock) : near[x] = TailFrom(d, p)[MergeBlock + x]
    BY <1>5, <1>6, <2>1
  <2>. QED BY <1>2, <1>5, <1>6, <2>1, <2>2 DEF Beneath
<1>9. IsBlock(c) /\ IsBlock(next)
  BY <1>2, <1>5 DEF IsBlock, Rises
<1>10. /\ Rises(o \o low) /\ Len(o \o low) = Len(o) + MergeBlock
       /\ Rises(high) /\ Len(high) = MergeBlock
       /\ Beneath(o \o low, high) /\ Beneath(o \o low, near) /\ Beneath(o \o low, far)
       /\ \A z : Times(o \o low, z) + Times(high, z) = Times(o, z) + Times(c, z) + Times(next, z)
       /\ \A z \in Nat : NoneAbove(c, z) /\ NoneAbove(next, z) => NoneAbove(high, z)
  BY <1>2, <1>5, <1>6, <1>7, <1>8, <1>9, BlocksMeet
<1>. HIDE DEF low, high
<1>11. ASSUME NEW z
       PROVE  Times(o \o low, z) + Times(high, z) + Times(near, z) + Times(far, z) = Times(s, z) + Times(t, z)
  <2>1. o \in Seq(Nat) /\ c \in Seq(Nat) /\ next \in Seq(Nat) /\ near \in Seq(Nat) /\ far \in Seq(Nat)
    BY <1>2, <1>5, <1>6 DEF Rises
  <2>2. /\ Times(o, z) \in Nat /\ Times(c, z) \in Nat /\ Times(next, z) \in Nat
        /\ Times(near, z) \in Nat /\ Times(far, z) \in Nat
    BY <2>1, TimesIs
  <2>3. o \o low \in Seq(Nat) /\ high \in Seq(Nat)
    BY <1>10 DEF Rises
  <2>4. Times(o \o low, z) \in Nat /\ Times(high, z) \in Nat
    BY <2>3, TimesIs
  <2>5. /\ Times(o \o low, z) + Times(high, z) = Times(o, z) + Times(c, z) + Times(next, z)
        /\ Times(TailFrom(d, p), z) = Times(next, z) + Times(near, z)
        /\ Times(o, z) + Times(c, z) + Times(TailFrom(d, p), z) + Times(far, z) = Times(s, z) + Times(t, z)
    BY <1>2, <1>5, <1>10
  <2>. QED BY <2>2, <2>4, <2>5
<1>12. Len(o \o low) + Len(high) + Len(near) + Len(far) = Len(s) + Len(t)
  <2>1. Len(o) \in Nat /\ Len(far) \in Nat
    BY <1>2 DEF Rises
  <2>2. Len(o) + Len(c) + Len(TailFrom(d, p)) + Len(far) = Len(s) + Len(t)
    BY <1>2
  <2>3. /\ Len(o \o low) = Len(o) + MergeBlock /\ Len(high) = MergeBlock /\ Len(c) = MergeBlock
        /\ Len(near) = Len(d) - (p + MergeBlock) /\ Len(TailFrom(d, p)) = Len(d) - p
    BY <1>5, <1>6, <1>10
  <2>4. Len(d) \in Nat /\ p \in Nat /\ MergeBlock \in Nat
    BY <1>1, <1>3
  <2>. QED BY <2>1, <2>2, <2>3, <2>4
<1>13. Keeps(o \o low, high, near, far, s, t)
  BY <1>2, <1>6, <1>10, <1>11, <1>12 DEF Keeps
<1>14. ASSUME NEW z \in Nat, d[p + MergeBlock] <= z PROVE NoneAbove(next, z)
  <2>. SUFFICES ASSUME NEW x \in 1 .. MergeBlock PROVE d[p + x] <= z
    BY <1>5 DEF NoneAbove
  <2>1. p + x \in 1 .. Len(d) /\ p + x <= p + MergeBlock
    BY <1>1, <1>5
  <2>2. d[p + x] <= d[p + MergeBlock] /\ d[p + x] \in Nat /\ d[p + MergeBlock] \in Nat
    BY <1>1, <1>3, <2>1 DEF Rises
  <2>. QED BY <1>14, <2>2
<1>. QED BY <1>3, <1>10, <1>13, <1>14 DEF next, near, low, high

\* Two numbers of a sequence in order.
LEMMA RisesAt ==
    ASSUME NEW d, Rises(d), NEW x \in 1 .. Len(d), NEW y \in 1 .. Len(d), x <= y
    PROVE  d[x] \in Nat /\ d[y] \in Nat /\ d[x] <= d[y]
BY DEF Rises

\* The side d, whose head is not above the head of e, gives a block: what is carried, p of d
\* and q of e having been taken, is not above the last of one of them, before and after.
LEMMA BlockKeeps ==
    ASSUME NEW d, Rises(d), NEW e, Rises(e), NEW p \in 0 .. Len(d), NEW q \in 0 .. Len(e),
           p + MergeBlock <= Len(d), q + MergeBlock <= Len(e), d[p + 1] <= e[q + 1],
           NEW o, NEW c, NEW s, NEW t, Keeps(o, c, TailFrom(d, p), TailFrom(e, q), s, t),
           Len(c) = MergeBlock,
           \/ p >= 1 /\ NoneAbove(c, d[p])
           \/ q >= 1 /\ NoneAbove(c, e[q])
    PROVE  LET both == Network(c, BlockAt(d, p))
               low == BlockAt(both, 0)
               high == BlockAt(both, MergeBlock)
           IN /\ Keeps(o \o low, high, TailFrom(d, p + MergeBlock), TailFrom(e, q), s, t)
              /\ high \in Seq(Nat) /\ Len(high) = MergeBlock
              /\ \/ NoneAbove(high, d[p + MergeBlock])
                 \/ q >= 1 /\ NoneAbove(high, e[q])
              /\ p + MergeBlock \in 1 .. Len(d)
<1>. DEFINE low == BlockAt(Network(c, BlockAt(d, p)), 0)
            high == BlockAt(Network(c, BlockAt(d, p)), MergeBlock)
<1>1. MergeBlock \in Nat /\ MergeBlock >= 1 /\ Len(d) \in Nat /\ Len(e) \in Nat
  BY BlockIs, SMTT(120) DEF Rises
<1>2. /\ p \in Nat /\ q \in Nat /\ p + 1 \in 1 .. Len(d) /\ q + 1 \in 1 .. Len(e)
      /\ q \in 0 .. Len(e) - 1 /\ p + MergeBlock \in 1 .. Len(d)
      /\ p <= p + 1 /\ q <= q + 1 /\ p <= p + MergeBlock
      /\ p >= 1 => p \in 1 .. Len(d)
      /\ q >= 1 => q \in 1 .. Len(e)
  BY <1>1
<1>3. c \in Seq(Nat) /\ Rises(c)
  BY DEF Keeps, Rises
<1>4. d[p + 1] \in Nat /\ e[q + 1] \in Nat /\ d[p + MergeBlock] \in Nat
  BY <1>2, RisesAt
<1>5. p >= 1 => d[p] \in Nat /\ d[p] <= d[p + 1] /\ d[p] <= d[p + MergeBlock]
  <2>. SUFFICES ASSUME p >= 1 PROVE d[p] \in Nat /\ d[p] <= d[p + 1] /\ d[p] <= d[p + MergeBlock]
    OBVIOUS
  <2>1. p \in 1 .. Len(d)
    BY <1>2
  <2>2. d[p] \in Nat /\ d[p] <= d[p + 1]
    BY <1>2, <2>1, RisesAt
  <2>3. d[p] <= d[p + MergeBlock]
    BY <1>2, <2>1, RisesAt
  <2>. QED BY <2>2, <2>3
<1>6. q >= 1 => e[q] \in Nat /\ e[q] <= e[q + 1]
  <2>. SUFFICES ASSUME q >= 1 PROVE e[q] \in Nat /\ e[q] <= e[q + 1]
    OBVIOUS
  <2>1. q \in 1 .. Len(e)
    BY <1>2
  <2>. QED BY <1>2, <2>1, RisesAt
<1>7. Beneath(c, TailFrom(e, q))
  <2>1. CASE p >= 1 /\ NoneAbove(c, d[p])
    <3>1. d[p] \in Nat /\ d[p] <= e[q + 1]
      BY <1>4, <1>5, <2>1, SMTT(120)
    <3>. QED BY <1>2, <1>3, <2>1, <3>1, CarriedBeneath
  <2>2. CASE q >= 1 /\ NoneAbove(c, e[q])
    BY <1>2, <1>3, <1>6, <2>2, CarriedBeneath
  <2>. QED BY <2>1, <2>2
<1>8. /\ Keeps(o \o low, high, TailFrom(d, p + MergeBlock), TailFrom(e, q), s, t)
      /\ Len(high) = MergeBlock
      /\ \A z \in Nat : NoneAbove(c, z) /\ d[p + MergeBlock] <= z => NoneAbove(high, z)
  BY <1>7, BlockMeets
<1>. HIDE DEF low, high
<1>9. high \in Seq(Nat)
  BY <1>8 DEF Keeps, Rises
\* Of the bounds of two blocks the greater bounds both.
<1>10. ASSUME NEW x \in Nat, NEW z \in Nat, NoneAbove(c, x), x <= z PROVE NoneAbove(c, z)
  <2>. SUFFICES ASSUME NEW k \in 1 .. Len(c) PROVE c[k] <= z
    BY DEF NoneAbove
  <2>1. c[k] <= x /\ c[k] \in Nat
    BY <1>3, <1>10 DEF NoneAbove
  <2>. QED BY <1>10, <2>1
<1>11. NoneAbove(high, d[p + MergeBlock]) \/ (q >= 1 /\ NoneAbove(high, e[q]))
  <2>1. CASE p >= 1 /\ NoneAbove(c, d[p])
    <3>1. NoneAbove(c, d[p + MergeBlock])
      BY <1>4, <1>5, <1>10, <2>1
    <3>2. d[p + MergeBlock] <= d[p + MergeBlock]
      BY <1>4
    <3>. QED BY <1>4, <1>8, <3>1, <3>2
  <2>2. CASE q >= 1 /\ NoneAbove(c, e[q]) /\ d[p + MergeBlock] <= e[q]
    BY <1>6, <1>8, <2>2
  <2>3. CASE q >= 1 /\ NoneAbove(c, e[q]) /\ ~(d[p + MergeBlock] <= e[q])
    <3>1. e[q] \in Nat /\ e[q] <= d[p + MergeBlock] /\ d[p + MergeBlock] <= d[p + MergeBlock]
      BY <1>4, <1>6, <2>3, SMTT(120)
    <3>2. NoneAbove(c, d[p + MergeBlock])
      BY <1>4, <1>10, <2>3, <3>1
    <3>. QED BY <1>4, <1>8, <3>1, <3>2
  <2>. QED BY <2>1, <2>2, <2>3
<1>. QED BY <1>2, <1>8, <1>9, <1>11 DEF low, high

-----------------------------------------------------------------------------
(* The invariant of the merge.                                             *)

MergeStates == [pc : {"blocks", "drain", "returned"}, i : Nat, j : Nat, rest : Seq(Nat)]

\* What is written, what is carried and what is left of the two sides; while blocks meet, the
\* one that is carried is not above the last that was taken from one of the sides.
MergeParts ==
    /\ Rises(call.a) /\ Rises(call.b)
    /\ st \in MergeStates /\ st.i \in 0 .. Len(call.a) /\ st.j \in 0 .. Len(call.b)
    /\ Keeps(out, st.rest, TailFrom(call.a, st.i), TailFrom(call.b, st.j), call.a, call.b)
    /\ st.pc = "blocks" => /\ Len(st.rest) = MergeBlock
                           /\ \/ st.i >= 1 /\ NoneAbove(st.rest, call.a[st.i])
                              \/ st.j >= 1 /\ NoneAbove(st.rest, call.b[st.j])
    /\ Returned => st.rest = <<>> /\ st.i = Len(call.a) /\ st.j = Len(call.b)

MergeIndInv == call.op = "merge" => MergeParts

\* Nothing is in order, and under everything.
LEMMA EmptyRises ==
    /\ Rises(<<>>) /\ Len(<<>>) = 0
    /\ \A w : Beneath(<<>>, w) /\ Beneath(w, <<>>)
    /\ \A z : Times(<<>>, z) = 0
<1>1. <<>> \in Seq(Nat) /\ Len(<<>>) = 0 /\ DOMAIN <<>> = {}
  OBVIOUS
<1>2. \A x \in 1 .. 0 : FALSE
  OBVIOUS
<1>3. \A z : Times(<<>>, z) = 0
  BY <1>1, FS_EmptySet DEF Times
<1>. QED BY <1>1, <1>2, <1>3 DEF Rises, Beneath

LEMMA MergeInitInv == ASSUME MergeInit PROVE MergeIndInv
<1>1. Rises(call.a) /\ Rises(call.b)
  BY MergeAssumption DEF MergeInit, Rises
<1>2. out = <<>> /\ call.a \in Seq(Nat) /\ call.b \in Seq(Nat) /\ Len(call.a) \in Nat /\ Len(call.b) \in Nat
  BY <1>1 DEF MergeInit, Rises
<1>. DEFINE u == TailFrom(call.a, 0)
            w == TailFrom(call.b, 0)
<1>3. u = call.a /\ w = call.b
  BY <1>2, SubSeqFull DEF TailFrom
<1>. HIDE DEF u, w
<1>4. CASE Blocked
  <2>1. st = [pc |-> "blocks", i |-> MergeBlock, j |-> 0, rest |-> BlockAt(call.a, 0)]
    BY <1>4 DEF MergeInit
  <2>2. MergeBlock \in Nat /\ MergeBlock >= 1 /\ 2 * MergeBlock <= Len(call.a)
    BY <1>4, BlockIs DEF Blocked
  <2>3. /\ 0 \in Nat /\ MergeBlock = 0 + MergeBlock /\ MergeBlock \in 0 .. Len(call.a) /\ MergeBlock \in 1 .. Len(call.a)
        /\ 0 + MergeBlock <= Len(call.a) /\ MergeBlock <= Len(call.a) /\ 0 \in 0 .. Len(call.b)
    BY <1>2, <2>2
  <2>. DEFINE c == Piece(call.a, 0, MergeBlock)
              v == TailFrom(call.a, MergeBlock)
  <2>4. st.rest = c /\ st.pc = "blocks" /\ st.i = MergeBlock /\ st.j = 0
    BY <2>1 DEF BlockAt, Piece
  <2>. HIDE DEF c, v
  <2>5. /\ Rises(c) /\ Len(c) = MergeBlock
        /\ \A x \in 1 .. MergeBlock : c[x] = call.a[0 + x] /\ 0 + x \in 1 .. Len(call.a)
        /\ \A z : Times(u, z) = Times(c, z) + Times(v, z)
    <3>1. /\ Rises(Piece(call.a, 0, MergeBlock)) /\ Len(Piece(call.a, 0, MergeBlock)) = MergeBlock
          /\ \A x \in 1 .. MergeBlock : /\ Piece(call.a, 0, MergeBlock)[x] = call.a[0 + x]
                                        /\ 0 + x \in 1 .. Len(call.a)
      BY <1>1, <2>2, <2>3, PieceIs
    <3>2. \A z : Times(TailFrom(call.a, 0), z) = Times(Piece(call.a, 0, MergeBlock), z) + Times(TailFrom(call.a, MergeBlock), z)
      BY <1>1, <2>2, <2>3, CutTail
    <3>. QED BY <3>1, <3>2 DEF c, u, v
  <2>6. Rises(v) /\ Len(v) = Len(call.a) - MergeBlock
    BY <1>1, <2>3, TailIs DEF v
  <2>7. ASSUME NEW z
        PROVE  Times(<<>>, z) + Times(c, z) + Times(v, z) + Times(w, z) = Times(call.a, z) + Times(call.b, z)
    <3>1. c \in Seq(Nat) /\ v \in Seq(Nat)
      BY <2>5, <2>6 DEF Rises
    <3>2. Times(c, z) \in Nat /\ Times(v, z) \in Nat /\ Times(call.b, z) \in Nat /\ Times(<<>>, z) = 0
      BY <1>2, <3>1, TimesIs, EmptyRises
    <3>3. Times(call.a, z) = Times(c, z) + Times(v, z) /\ Times(w, z) = Times(call.b, z)
      BY <1>3, <2>5
    <3>. QED BY <3>2, <3>3
  <2>8. Keeps(<<>>, c, v, w, call.a, call.b)
    <3>1. Len(<<>>) + Len(c) + Len(v) + Len(w) = Len(call.a) + Len(call.b)
      <4>1. /\ Len(<<>>) = 0 /\ Len(c) = MergeBlock /\ Len(v) = Len(call.a) - MergeBlock
            /\ Len(w) = Len(call.b)
        BY <1>3, <2>5, <2>6, EmptyRises
      <4>2. PICK p \in Nat, q \in Nat, n \in Nat : p = Len(call.a) /\ q = Len(call.b) /\ n = MergeBlock
        BY <1>2, <2>2
      <4>3. 0 + n + (p - n) + q = p + q
        OBVIOUS
      <4>. QED BY <4>1, <4>2, <4>3, Zenon
    <3>. QED BY <1>1, <1>3, <2>5, <2>6, <2>7, <3>1, EmptyRises DEF Keeps
  <2>9. NoneAbove(c, call.a[MergeBlock])
    <3>1. \A x \in 1 .. MergeBlock : x \in 1 .. Len(call.a) /\ x <= MergeBlock /\ 0 + x = x
      BY <1>2, <2>2, <2>3
    <3>2. MergeBlock \in 1 .. Len(call.a)
      BY <2>2, <2>3
    <3>. QED BY <1>1, <2>5, <3>1, <3>2 DEF NoneAbove, Rises
  <2>10. st \in MergeStates
    <3>1. c \in Seq(Nat)
      BY <2>5 DEF Rises
    <3>2. st = [pc |-> "blocks", i |-> MergeBlock, j |-> 0, rest |-> c]
      BY <2>1, <2>4
    <3>. QED BY <2>2, <3>1, <3>2 DEF MergeStates
  <2>11. MergeParts
    BY <1>1, <1>2, <2>2, <2>3, <2>4, <2>5, <2>8, <2>9, <2>10 DEF MergeParts, Returned, v, w
  <2>. QED BY <2>11 DEF MergeIndInv
<1>5. CASE ~Blocked
  <2>1. st = [pc |-> "drain", i |-> 0, j |-> 0, rest |-> <<>>]
    BY <1>5 DEF MergeInit
  <2>2. st.pc = "drain" /\ st.i = 0 /\ st.j = 0 /\ st.rest = <<>> /\ st \in MergeStates
    BY <2>1 DEF MergeStates
  <2>3. ASSUME NEW z
        PROVE  Times(<<>>, z) + Times(<<>>, z) + Times(u, z) + Times(w, z) = Times(call.a, z) + Times(call.b, z)
    <3>1. Times(call.a, z) \in Nat /\ Times(call.b, z) \in Nat /\ Times(<<>>, z) = 0
      BY <1>2, TimesIs, EmptyRises
    <3>. QED BY <1>3, <3>1
  <2>4. Keeps(<<>>, <<>>, u, w, call.a, call.b)
    <3>1. Len(<<>>) + Len(<<>>) + Len(u) + Len(w) = Len(call.a) + Len(call.b)
      BY <1>2, <1>3, EmptyRises
    <3>. QED BY <1>1, <1>3, <2>3, <3>1, EmptyRises DEF Keeps
  <2>5. MergeParts
    BY <1>1, <1>2, <2>2, <2>4 DEF MergeParts, Returned, u, w
  <2>. QED BY <2>5 DEF MergeIndInv
<1>. QED BY <1>4, <1>5

\* What the invariant says of a merge before a step.
LEMMA MergeFacts ==
    ASSUME MergeIndInv, call.op = "merge"
    PROVE  /\ MergeParts /\ Rises(call.a) /\ Rises(call.b)
           /\ call.a \in Seq(Nat) /\ call.b \in Seq(Nat) /\ Len(call.a) \in Nat /\ Len(call.b) \in Nat
           /\ st \in MergeStates /\ st.i \in 0 .. Len(call.a) /\ st.j \in 0 .. Len(call.b)
           /\ st.rest \in Seq(Nat) /\ out \in Seq(Nat) /\ Rises(out) /\ Rises(st.rest)
           /\ Keeps(out, st.rest, TailFrom(call.a, st.i), TailFrom(call.b, st.j), call.a, call.b)
           /\ Len(TailFrom(call.a, st.i)) = Len(call.a) - st.i /\ Len(TailFrom(call.b, st.j)) = Len(call.b) - st.j
           /\ TailFrom(call.a, st.i) \in Seq(Nat) /\ TailFrom(call.b, st.j) \in Seq(Nat)
<1>1. MergeParts
  BY DEF MergeIndInv
<1>2. /\ Rises(call.a) /\ Rises(call.b) /\ st \in MergeStates
      /\ st.i \in 0 .. Len(call.a) /\ st.j \in 0 .. Len(call.b)
      /\ Keeps(out, st.rest, TailFrom(call.a, st.i), TailFrom(call.b, st.j), call.a, call.b)
  BY <1>1 DEF MergeParts
<1>3. Rises(out) /\ Rises(st.rest)
  BY <1>2 DEF Keeps
<1>4. /\ call.a \in Seq(Nat) /\ call.b \in Seq(Nat) /\ st.rest \in Seq(Nat) /\ out \in Seq(Nat)
      /\ Len(call.a) \in Nat /\ Len(call.b) \in Nat
  BY <1>2, <1>3 DEF Rises
<1>6. /\ Len(TailFrom(call.a, st.i)) = Len(call.a) - st.i /\ Len(TailFrom(call.b, st.j)) = Len(call.b) - st.j
      /\ Rises(TailFrom(call.a, st.i)) /\ Rises(TailFrom(call.b, st.j))
  BY <1>2, TailIs
<1>. QED BY <1>1, <1>2, <1>3, <1>4, <1>6 DEF Rises

LEMMA MergeBlocksInv == ASSUME MergeIndInv, MergeBlocks PROVE MergeIndInv'
<1>1. /\ call.op = "merge" /\ st.pc = "blocks" /\ MoreBlocks /\ UNCHANGED call
  BY DEF MergeBlocks, In
<1>2. /\ Rises(call.a) /\ Rises(call.b) /\ st \in MergeStates
      /\ st.i \in 0 .. Len(call.a) /\ st.j \in 0 .. Len(call.b)
      /\ Keeps(out, st.rest, TailFrom(call.a, st.i), TailFrom(call.b, st.j), call.a, call.b)
  BY <1>1, MergeFacts
<1>3. /\ Len(st.rest) = MergeBlock
      /\ \/ st.i >= 1 /\ NoneAbove(st.rest, call.a[st.i])
         \/ st.j >= 1 /\ NoneAbove(st.rest, call.b[st.j])
  BY <1>1, MergeFacts DEF MergeParts
<1>4. st.i + MergeBlock <= Len(call.a) /\ st.j + MergeBlock <= Len(call.b)
  BY <1>1 DEF MoreBlocks
<1>5. CASE FromA
  <2>. DEFINE both == Network(st.rest, BlockAt(call.a, st.i))
              low == BlockAt(both, 0)
              high == BlockAt(both, MergeBlock)
  <2>1. out' = out \o low /\ st' = [st EXCEPT !.rest = high, !.i = st.i + MergeBlock, !.j = st.j]
    BY <1>5 DEF MergeBlocks
  <2>2. /\ Keeps(out \o low, high, TailFrom(call.a, st.i + MergeBlock), TailFrom(call.b, st.j), call.a, call.b)
        /\ high \in Seq(Nat) /\ Len(high) = MergeBlock
        /\ \/ NoneAbove(high, call.a[st.i + MergeBlock])
           \/ st.j >= 1 /\ NoneAbove(high, call.b[st.j])
        /\ st.i + MergeBlock \in 1 .. Len(call.a)
    <3>1. call.a[st.i + 1] <= call.b[st.j + 1]
      BY <1>5 DEF FromA
    <3>. QED BY <1>2, <1>3, <1>4, <3>1, BlockKeeps
  <2>. HIDE DEF low, high
  <2>3. /\ st' \in MergeStates /\ st'.pc = "blocks" /\ st'.rest = high
        /\ st'.i = st.i + MergeBlock /\ st'.j = st.j
    <3>1. st.i + MergeBlock \in Nat /\ st.j \in Nat
      BY <1>2, <2>2
    <3>2. st \in MergeStates /\ st.pc = "blocks" /\ high \in Seq(Nat)
      BY <1>1, <1>2, <2>2
    <3>3. st' = [st EXCEPT !.rest = high, !.i = st.i + MergeBlock, !.j = st.j]
      BY <2>1
    <3>. QED BY ONLY <3>1, <3>2, <3>3 DEF MergeStates
  <2>4. MergeParts'
    <3>1. st'.i \in 0 .. Len(call.a) /\ st'.j \in 0 .. Len(call.b) /\ st'.i >= 1
      BY <1>2, <2>2, <2>3
    <3>. QED BY <1>1, <1>2, <2>1, <2>2, <2>3, <3>1 DEF MergeParts, Returned
  <2>. QED BY <2>4 DEF MergeIndInv
<1>6. CASE ~FromA
  <2>. DEFINE both == Network(st.rest, BlockAt(call.b, st.j))
              low == BlockAt(both, 0)
              high == BlockAt(both, MergeBlock)
  <2>1. out' = out \o low /\ st' = [st EXCEPT !.rest = high, !.i = st.i, !.j = st.j + MergeBlock]
    BY <1>6 DEF MergeBlocks
  <2>2. Keeps(out, st.rest, TailFrom(call.b, st.j), TailFrom(call.a, st.i), call.a, call.b)
    BY <1>2, KeepsSwaps
  <2>3. /\ Keeps(out \o low, high, TailFrom(call.b, st.j + MergeBlock), TailFrom(call.a, st.i), call.a, call.b)
        /\ high \in Seq(Nat) /\ Len(high) = MergeBlock
        /\ \/ NoneAbove(high, call.b[st.j + MergeBlock])
           \/ st.i >= 1 /\ NoneAbove(high, call.a[st.i])
        /\ st.j + MergeBlock \in 1 .. Len(call.b)
    <3>1. call.b[st.j + 1] <= call.a[st.i + 1]
      <4>1. MergeBlock \in Nat /\ MergeBlock >= 1
        BY BlockIs
      <4>2. Len(call.a) \in Nat /\ Len(call.b) \in Nat
        BY <1>2 DEF Rises
      <4>3. st.i + 1 \in 1 .. Len(call.a) /\ st.j + 1 \in 1 .. Len(call.b)
        BY <1>2, <1>4, <4>1, <4>2
      <4>4. /\ st.i + 1 <= st.i + 1 /\ st.j + 1 <= st.j + 1
        BY <4>3
      <4>5. call.a[st.i + 1] \in Nat /\ call.b[st.j + 1] \in Nat
        BY <1>2, <4>3, <4>4, RisesAt
      <4>. QED BY <1>6, <4>5 DEF FromA
    <3>. QED BY <1>2, <1>3, <1>4, <2>2, <3>1, BlockKeeps
  <2>. HIDE DEF low, high
  <2>4. Keeps(out \o low, high, TailFrom(call.a, st.i), TailFrom(call.b, st.j + MergeBlock), call.a, call.b)
    BY <2>3, KeepsSwaps
  <2>5. /\ st' \in MergeStates /\ st'.pc = "blocks" /\ st'.rest = high
        /\ st'.i = st.i /\ st'.j = st.j + MergeBlock
    <3>1. st.j + MergeBlock \in Nat /\ st.i \in Nat
      BY <1>2, <2>3
    <3>2. st \in MergeStates /\ st.pc = "blocks" /\ high \in Seq(Nat)
      BY <1>1, <1>2, <2>3
    <3>3. st' = [st EXCEPT !.rest = high, !.i = st.i, !.j = st.j + MergeBlock]
      BY <2>1
    <3>. QED BY ONLY <3>1, <3>2, <3>3 DEF MergeStates
  <2>6. MergeParts'
    <3>1. st'.i \in 0 .. Len(call.a) /\ st'.j \in 0 .. Len(call.b) /\ st'.j >= 1
      BY <1>2, <2>3, <2>5
    <3>. QED BY <1>1, <1>2, <2>1, <2>3, <2>4, <2>5, <3>1 DEF MergeParts, Returned
  <2>. QED BY <2>6 DEF MergeIndInv
<1>. QED BY <1>5, <1>6

LEMMA BlocksEndInv == ASSUME MergeIndInv, BlocksEnd PROVE MergeIndInv'
<1>1. /\ call.op = "merge" /\ st' = [st EXCEPT !.pc = "drain"] /\ UNCHANGED <<call, out>>
  BY DEF BlocksEnd, In
<1>2. MergeParts /\ st \in MergeStates
  BY <1>1, MergeFacts
<1>3. /\ st' \in MergeStates /\ st'.pc = "drain" /\ st'.i = st.i /\ st'.j = st.j /\ st'.rest = st.rest
  BY <1>1, <1>2 DEF MergeStates
<1>4. MergeParts'
  BY <1>1, <1>2, <1>3 DEF MergeParts, Returned
<1>. QED BY <1>4 DEF MergeIndInv

LEMMA DrainLeastInv == ASSUME MergeIndInv, DrainLeast PROVE MergeIndInv'
<1>1. call.op = "merge" /\ st.pc = "drain"
  BY DEF DrainLeast, In
<1>. DEFINE c == st.rest
            u == TailFrom(call.a, st.i)
            w == TailFrom(call.b, st.j)
<1>2. /\ Rises(call.a) /\ Rises(call.b) /\ st \in MergeStates
      /\ call.a \in Seq(Nat) /\ call.b \in Seq(Nat) /\ Len(call.a) \in Nat /\ Len(call.b) \in Nat
      /\ st.i \in 0 .. Len(call.a) /\ st.j \in 0 .. Len(call.b)
      /\ c \in Seq(Nat) /\ u \in Seq(Nat) /\ w \in Seq(Nat)
      /\ Keeps(out, c, u, w, call.a, call.b)
      /\ Len(u) = Len(call.a) - st.i /\ Len(w) = Len(call.b) - st.j
  BY <1>1, MergeFacts
<1>3. Waiting[1] = c /\ Waiting[2] = u /\ Waiting[3] = w
  BY DEF Waiting, TailFrom
<1>4. PICK k \in 1 .. 3 :
        /\ Waiting[k] # <<>>
        /\ \A m \in 1 .. 3 : Waiting[m] # <<>> =>
             IF m < k THEN Head(Waiting[k]) < Head(Waiting[m]) ELSE Head(Waiting[k]) <= Head(Waiting[m])
        /\ TakeFrom(k)
  BY Zenon DEF DrainLeast
<1>5. /\ out' = Append(out, Head(Waiting[k]))
      /\ st' = [st EXCEPT !.rest = IF k = 1 THEN Tail(@) ELSE @,
                          !.i = IF k = 2 THEN @ + 1 ELSE @,
                          !.j = IF k = 3 THEN @ + 1 ELSE @]
      /\ UNCHANGED call
  BY <1>4 DEF TakeFrom
<1>6. \A m \in 1 .. 3 : Waiting[m] \in Seq(Nat)
  <2>1. \A m \in 1 .. 3 : m = 1 \/ m = 2 \/ m = 3
    OBVIOUS
  <2>. QED BY <1>2, <1>3, <2>1
<1>7. \A m \in 1 .. 3 : Waiting[m] # <<>> => Head(Waiting[m]) = Waiting[m][1] /\ Waiting[m][1] \in Nat
  BY <1>6
<1>8. \A m \in 1 .. 3 : Waiting[m] # <<>> => Waiting[k][1] <= Waiting[m][1]
  <2>. SUFFICES ASSUME NEW m \in 1 .. 3, Waiting[m] # <<>> PROVE Waiting[k][1] <= Waiting[m][1]
    OBVIOUS
  <2>1. Head(Waiting[k]) < Head(Waiting[m]) \/ Head(Waiting[k]) <= Head(Waiting[m])
    BY <1>4
  <2>2. /\ Head(Waiting[k]) = Waiting[k][1] /\ Waiting[k][1] \in Nat
        /\ Head(Waiting[m]) = Waiting[m][1] /\ Waiting[m][1] \in Nat
    BY <1>4, <1>7
  <2>. QED BY <2>1, <2>2
<1>9. out' = Append(out, Waiting[k][1])
  BY <1>4, <1>5, <1>7
<1>10. /\ c # <<>> => Waiting[k][1] <= c[1]
       /\ u # <<>> => Waiting[k][1] <= u[1]
       /\ w # <<>> => Waiting[k][1] <= w[1]
  <2>1. 1 \in 1 .. 3 /\ 2 \in 1 .. 3 /\ 3 \in 1 .. 3
    OBVIOUS
  <2>. QED BY <1>3, <1>8, <2>1
\* A side without its head is the side one further on.
<1>11. ASSUME NEW d, Rises(d), NEW p \in 0 .. Len(d), TailFrom(d, p) # <<>>
       PROVE  Tail(TailFrom(d, p)) = TailFrom(d, p + 1) /\ p + 1 \in 0 .. Len(d)
  <2>1. d \in Seq(Nat) /\ Len(d) \in Nat /\ p \in Nat
    BY <1>11 DEF Rises
  <2>3. /\ TailFrom(d, p) \in Seq(Nat) /\ Len(TailFrom(d, p)) = Len(d) - p
        /\ \A x \in 1 .. Len(d) - p : TailFrom(d, p)[x] = d[p + x]
    BY <1>11, TailIs DEF Rises
  <2>4. p + 1 <= Len(d) /\ p + 1 \in 0 .. Len(d)
    BY <1>11, <2>1, <2>3
  <2>5. /\ TailFrom(d, p + 1) \in Seq(Nat) /\ Len(TailFrom(d, p + 1)) = Len(d) - (p + 1)
        /\ \A x \in 1 .. Len(d) - (p + 1) : TailFrom(d, p + 1)[x] = d[(p + 1) + x]
    BY <1>11, <2>4, TailIs DEF Rises
  <2>. DEFINE t == Tail(TailFrom(d, p))
  <2>6. t \in Seq(Nat) /\ Len(t) = Len(d) - (p + 1) /\ \A x \in 1 .. Len(t) : t[x] = TailFrom(d, p)[x + 1]
    BY <1>11, <2>1, <2>3, HeadTailProperties
  <2>. HIDE DEF t
  <2>7. \A x \in 1 .. Len(d) - (p + 1) : t[x] = TailFrom(d, p + 1)[x]
    <3>. TAKE x \in 1 .. Len(d) - (p + 1)
    <3>1. x + 1 \in 1 .. Len(d) - p /\ p + (x + 1) = (p + 1) + x
      BY <2>1
    <3>. QED BY <2>3, <2>5, <2>6, <3>1
  <2>8. t = TailFrom(d, p + 1)
    BY <2>5, <2>6, <2>7, SeqEqual
  <2>. QED BY <2>4, <2>8 DEF t
<1>12. CASE k = 1
  <2>1. c # <<>> /\ Waiting[k][1] = c[1] /\ out' = Append(out, c[1])
    BY <1>3, <1>4, <1>9, <1>12
  <2>. HIDE DEF c, u, w
  <2>2. Keeps(Append(out, c[1]), Tail(c), u, w, call.a, call.b)
    BY <1>2, <1>10, <2>1, HeadLeaves
  <2>3. Tail(c) \in Seq(Nat)
    BY <1>2, <2>1
  <2>4. /\ st' \in MergeStates /\ st'.pc = "drain" /\ st'.rest = Tail(c) /\ st'.i = st.i /\ st'.j = st.j
    <3>1. st' = [st EXCEPT !.rest = Tail(c), !.i = st.i, !.j = st.j]
      BY <1>5, <1>12 DEF c
    <3>2. st.i \in Nat /\ st.j \in Nat /\ Tail(c) \in Seq(Nat)
      BY <1>2, <2>3 DEF c
    <3>3. st \in MergeStates /\ st.pc = "drain"
      BY <1>1, <1>2
    <3>. QED BY ONLY <3>1, <3>2, <3>3 DEF MergeStates
  <2>5. MergeParts'
    BY <1>2, <1>5, <2>1, <2>2, <2>4 DEF MergeParts, Returned, u, w
  <2>. QED BY <2>5 DEF MergeIndInv
<1>13. CASE k = 2
  <2>1. u # <<>> /\ Waiting[k][1] = u[1] /\ out' = Append(out, u[1])
    BY <1>3, <1>4, <1>9, <1>13
  <2>2. Tail(u) = TailFrom(call.a, st.i + 1) /\ st.i + 1 \in 0 .. Len(call.a)
    BY <1>2, <1>11, <2>1
  <2>. HIDE DEF u, w, c
  <2>3. Keeps(out, u, c, w, call.a, call.b)
    BY <1>2, KeepsSwaps
  <2>4. Keeps(Append(out, u[1]), Tail(u), c, w, call.a, call.b)
    BY <1>10, <2>1, <2>3, HeadLeaves
  <2>5. Keeps(Append(out, u[1]), c, Tail(u), w, call.a, call.b)
    BY <2>4, KeepsSwaps
  <2>6. /\ st' \in MergeStates /\ st'.pc = "drain" /\ st'.rest = c /\ st'.i = st.i + 1 /\ st'.j = st.j
    <3>1. st' = [st EXCEPT !.rest = c, !.i = st.i + 1, !.j = st.j]
      BY <1>5, <1>13 DEF c
    <3>2. st.i + 1 \in Nat /\ st.j \in Nat /\ c \in Seq(Nat)
      BY <1>2 DEF c
    <3>3. st \in MergeStates /\ st.pc = "drain"
      BY <1>1, <1>2
    <3>. QED BY ONLY <3>1, <3>2, <3>3 DEF MergeStates
  <2>7. MergeParts'
    BY <1>2, <1>5, <2>1, <2>2, <2>5, <2>6 DEF MergeParts, Returned, w
  <2>. QED BY <2>7 DEF MergeIndInv
<1>14. CASE k = 3
  <2>1. w # <<>> /\ Waiting[k][1] = w[1] /\ out' = Append(out, w[1])
    BY <1>3, <1>4, <1>9, <1>14
  <2>2. Tail(w) = TailFrom(call.b, st.j + 1) /\ st.j + 1 \in 0 .. Len(call.b)
    BY <1>2, <1>11, <2>1
  <2>. HIDE DEF u, w, c
  <2>3. Keeps(out, w, c, u, call.a, call.b)
    <3>1. Keeps(out, c, w, u, call.a, call.b)
      BY <1>2, KeepsSwaps
    <3>. QED BY <3>1, KeepsSwaps
  <2>4. Keeps(Append(out, w[1]), Tail(w), c, u, call.a, call.b)
    BY <1>10, <2>1, <2>3, HeadLeaves
  <2>5. Keeps(Append(out, w[1]), c, u, Tail(w), call.a, call.b)
    <3>1. Keeps(Append(out, w[1]), c, Tail(w), u, call.a, call.b)
      BY <2>4, KeepsSwaps
    <3>. QED BY <3>1, KeepsSwaps
  <2>6. /\ st' \in MergeStates /\ st'.pc = "drain" /\ st'.rest = c /\ st'.i = st.i /\ st'.j = st.j + 1
    <3>1. st' = [st EXCEPT !.rest = c, !.i = st.i, !.j = st.j + 1]
      BY <1>5, <1>14 DEF c
    <3>2. st.i \in Nat /\ st.j + 1 \in Nat /\ c \in Seq(Nat)
      BY <1>2 DEF c
    <3>3. st \in MergeStates /\ st.pc = "drain"
      BY <1>1, <1>2
    <3>. QED BY ONLY <3>1, <3>2, <3>3 DEF MergeStates
  <2>7. MergeParts'
    BY <1>2, <1>5, <2>1, <2>2, <2>5, <2>6 DEF MergeParts, Returned, u
  <2>. QED BY <2>7 DEF MergeIndInv
<1>15. k = 1 \/ k = 2 \/ k = 3
  OBVIOUS
<1>. QED BY <1>12, <1>13, <1>14, <1>15

LEMMA MergeEndInv == ASSUME MergeIndInv, MergeEnd PROVE MergeIndInv'
<1>1. /\ call.op = "merge" /\ st' = [st EXCEPT !.pc = "returned"] /\ UNCHANGED <<call, out>>
      /\ \A k \in 1 .. 3 : Waiting[k] = <<>>
  BY DEF MergeEnd, In, Return
<1>2. /\ MergeParts /\ st \in MergeStates /\ st.i \in 0 .. Len(call.a) /\ st.j \in 0 .. Len(call.b)
      /\ Len(call.a) \in Nat /\ Len(call.b) \in Nat
      /\ Len(TailFrom(call.a, st.i)) = Len(call.a) - st.i /\ Len(TailFrom(call.b, st.j)) = Len(call.b) - st.j
  BY <1>1, MergeFacts
<1>3. /\ st' \in MergeStates /\ st'.pc = "returned" /\ st'.i = st.i /\ st'.j = st.j /\ st'.rest = st.rest
  BY <1>1, <1>2 DEF MergeStates
<1>4. st.rest = <<>> /\ TailFrom(call.a, st.i) = <<>> /\ TailFrom(call.b, st.j) = <<>>
  <2>1. 1 \in 1 .. 3 /\ 2 \in 1 .. 3 /\ 3 \in 1 .. 3
    OBVIOUS
  <2>2. Waiting[1] = st.rest /\ Waiting[2] = TailFrom(call.a, st.i) /\ Waiting[3] = TailFrom(call.b, st.j)
    BY DEF Waiting, TailFrom
  <2>. QED BY <1>1, <2>1, <2>2
<1>5. st.i = Len(call.a) /\ st.j = Len(call.b)
  <2>1. Len(TailFrom(call.a, st.i)) = 0 /\ Len(TailFrom(call.b, st.j)) = 0
    BY <1>4
  <2>. QED BY <1>2, <2>1
<1>6. MergeParts'
  BY <1>1, <1>2, <1>3, <1>4, <1>5 DEF MergeParts, Returned
<1>. QED BY <1>6 DEF MergeIndInv

\* The invariant of the merge holds when a call starts,
LEMMA MergeIndInvStart == ColumnInit => MergeIndInv
<1>. SUFFICES ASSUME ColumnInit, call.op = "merge" PROVE MergeIndInv
  BY DEF MergeIndInv
<1>1. MergeInit
  BY ColumnInitOp
<1>. QED BY <1>1, MergeInitInv

\* and every step of the columns keeps it.
LEMMA MergeIndInvNext == MergeIndInv /\ [ColumnNext]_vars => MergeIndInv'
<1>. SUFFICES ASSUME MergeIndInv, [ColumnNext]_vars PROVE MergeIndInv'
  OBVIOUS
<1>1. CASE ColumnNext
  <2>1. CASE call.op # "merge"
    BY <1>1, <2>1, ColumnStep DEF MergeIndInv
  <2>2. CASE call.op = "merge"
    <3>1. MergeNext
      BY <1>1, <2>2, ColumnStep
    <3>. QED BY <3>1, MergeBlocksInv, BlocksEndInv, DrainLeastInv, MergeEndInv, Zenon DEF MergeNext
  <2>. QED BY <2>1, <2>2
<1>2. CASE UNCHANGED vars
  <2>1. call' = call /\ st' = st /\ out' = out
    BY <1>2 DEF vars
  <2>. QED BY <2>1 DEF MergeIndInv, MergeParts, Returned
<1>. QED BY <1>1, <1>2

\* Whatever sorted sequences are given and however wide a block of the network: at every step
\* of the merge what is written is in order and nothing that is left, the block that is
\* carried included, is below it; no element is lost, repeated or written past
\* len(a) + len(b); and on return nothing is left (merge.go:3-8, csrc/merge.c).
THEOREM MergesSorted == ColumnSpec => []MergesInOrder
<1>1. MergeIndInv => MergesInOrder
  <2>. SUFFICES ASSUME MergeIndInv, call.op = "merge" PROVE MergesInOrder
    BY DEF MergesInOrder
  <2>. DEFINE c == st.rest
              u == TailFrom(call.a, st.i)
              w == TailFrom(call.b, st.j)
  <2>1. /\ Rises(out) /\ out \in Seq(Nat) /\ c \in Seq(Nat) /\ u \in Seq(Nat) /\ w \in Seq(Nat)
        /\ call.a \in Seq(Nat) /\ call.b \in Seq(Nat)
        /\ Keeps(out, c, u, w, call.a, call.b) /\ MergeParts
        /\ Len(u) = Len(call.a) - st.i /\ Len(w) = Len(call.b) - st.j
    BY MergeFacts
  <2>2. Remaining = (c \o u) \o w
    BY DEF Remaining, Waiting, TailFrom
  <2>. HIDE DEF c, u, w
  <2>3. /\ Beneath(out, c) /\ Beneath(out, u) /\ Beneath(out, w)
        /\ \A z : Times(out, z) + Times(c, z) + Times(u, z) + Times(w, z) = Times(call.a, z) + Times(call.b, z)
        /\ Len(out) + Len(c) + Len(u) + Len(w) = Len(call.a) + Len(call.b)
    BY <2>1 DEF Keeps
  <2>4. ASSUME NEW s \in Seq(Nat), NEW t \in Seq(Nat), Beneath(out, s), Beneath(out, t)
        PROVE  s \o t \in Seq(Nat) /\ Len(s \o t) = Len(s) + Len(t) /\ Beneath(out, s \o t)
    <3>1. /\ s \o t \in Seq(Nat) /\ Len(s \o t) = Len(s) + Len(t) /\ Len(s) \in Nat /\ Len(t) \in Nat
          /\ \A x \in 1 .. Len(s) + Len(t) : (s \o t)[x] = IF x <= Len(s) THEN s[x] ELSE t[x - Len(s)]
      BY ConcatProperties
    <3>. DEFINE r == s \o t
    <3>. HIDE DEF r
    <3>2. ASSUME NEW x \in 1 .. Len(out), NEW y \in 1 .. Len(s) + Len(t) PROVE out[x] <= r[y]
      <4>1. CASE y <= Len(s)
        <5>1. y \in 1 .. Len(s) /\ r[y] = s[y]
          BY <3>1, <4>1 DEF r
        <5>. QED BY <2>4, <5>1 DEF Beneath
      <4>2. CASE ~(y <= Len(s))
        <5>1. y - Len(s) \in 1 .. Len(t) /\ r[y] = t[y - Len(s)]
          BY <3>1, <4>2 DEF r
        <5>. QED BY <2>4, <5>1 DEF Beneath
      <4>. QED BY <4>1, <4>2
    <3>. QED BY <3>1, <3>2 DEF Beneath, r
  <2>5. c \o u \in Seq(Nat) /\ Len(c \o u) = Len(c) + Len(u) /\ Beneath(out, c \o u)
    BY <2>1, <2>3, <2>4
  <2>6. /\ Remaining \in Seq(Nat) /\ Len(Remaining) = Len(c \o u) + Len(w) /\ Beneath(out, Remaining)
    BY <2>1, <2>2, <2>3, <2>4, <2>5
  <2>7. ASSUME NEW z
        PROVE  Times(out, z) + Times(Remaining, z) = Times(call.a, z) + Times(call.b, z)
    <3>1. Times(c \o u, z) = Times(c, z) + Times(u, z)
      BY <2>1, TimesJoin
    <3>2. Times((c \o u) \o w, z) = Times(c \o u, z) + Times(w, z)
      <4>. DEFINE cu == c \o u
      <4>1. cu \in Seq(Nat) /\ w \in Seq(Nat)
        BY <2>1, <2>5
      <4>. HIDE DEF cu
      <4>2. Times(cu \o w, z) = Times(cu, z) + Times(w, z)
        BY <4>1, TimesJoin
      <4>. QED BY <4>2 DEF cu
    <3>3. Times(out, z) \in Nat /\ Times(c, z) \in Nat /\ Times(u, z) \in Nat /\ Times(w, z) \in Nat
      BY <2>1, TimesIs
    <3>4. Times(Remaining, z) = Times(c, z) + Times(u, z) + Times(w, z)
      BY <2>2, <3>1, <3>2
    <3>5. Times(out, z) + Times(c, z) + Times(u, z) + Times(w, z) = Times(call.a, z) + Times(call.b, z)
      BY <2>3
    <3>. QED BY <3>3, <3>4, <3>5
  <2>8. DOMAIN out = 1 .. Len(out) /\ DOMAIN Remaining = 1 .. Len(Remaining)
    BY <2>1, <2>6
  <2>9. \A x, y \in DOMAIN out : x <= y => out[x] <= out[y]
    BY <2>1, <2>8 DEF Rises
  <2>10. \A x \in DOMAIN out, y \in DOMAIN Remaining : out[x] <= Remaining[y]
    BY <2>6, <2>8 DEF Beneath
  <2>11. Len(out) + Len(Remaining) = Len(call.a) + Len(call.b)
    <3>1. PICK m \in Nat, n \in Nat, p \in Nat, q \in Nat :
            m = Len(out) /\ n = Len(c) /\ p = Len(u) /\ q = Len(w)
      BY <2>1 DEF Rises
    <3>2. Len(Remaining) = Len(c) + Len(u) + Len(w)
      BY <2>5, <2>6
    <3>3. Len(out) + Len(c) + Len(u) + Len(w) = Len(call.a) + Len(call.b)
      BY <2>3
    <3>4. m + (n + p + q) = m + n + p + q
      OBVIOUS
    <3>. QED BY <3>1, <3>2, <3>3, <3>4, Zenon
  <2>12. Returned => Remaining = <<>>
    <3>. SUFFICES ASSUME Returned PROVE Remaining = <<>>
      OBVIOUS
    <3>1. c = <<>> /\ st.i = Len(call.a) /\ st.j = Len(call.b)
      BY <2>1 DEF MergeParts, c
    <3>2. Len(c) = 0 /\ Len(u) = 0 /\ Len(w) = 0
      BY <2>1, <3>1
    <3>3. Len(Remaining) = 0
      BY <2>5, <2>6, <3>2
    <3>. QED BY <2>6, <3>3
  <2>. QED BY <2>7, <2>9, <2>10, <2>11, <2>12 DEF MergesInOrder
<1>. QED BY MergeIndInvStart, MergeIndInvNext, <1>1, PTL DEF ColumnSpec

-----------------------------------------------------------------------------
(* The masks of a block.                                                   *)

LEMMA HeldIs ==
    ASSUME JsonArgs, st.blk \in Nat
    PROVE  /\ Base \in Nat /\ (st.blk + 1) * BlockBits = Base + BlockBits
           /\ \A x \in Places : x \in Held <=> Base + x < Size
           /\ \A S : Mask(S) \subseteq Held /\ \A x \in Held : x \in Mask(S) <=> Char(Base + x) \in S
           /\ Held \subseteq Places
<1>1. PICK n \in Nat, k \in Nat : n = BlockBits /\ k = st.blk
  BY BitsAre
<1>2. k * n \in Nat /\ (k + 1) * n = k * n + n
  OBVIOUS
<1>. QED BY <1>1, <1>2 DEF Base, Held, Mask

\* What is shifted, and by which bit it is entered.
LEMMA ShiftIs ==
    ASSUME NEW S, S \subseteq Places, NEW c \in BOOLEAN
    PROVE  /\ \A x \in Places : x \in ShiftLeft(S) \union Bit0(c) <=> IF x = 0 THEN c ELSE x - 1 \in S
           /\ \A x \in Places : x \in ShiftLeft(S) <=> x >= 1 /\ x - 1 \in S
           /\ ShiftLeft(S) \subseteq Places /\ Bit0(c) \subseteq Places /\ (0 \in Bit0(c) <=> c)
           /\ \A x \in Bit0(c) : x = 0
<1>1. PICK n \in Nat : n >= 2 /\ Places = 0 .. n - 1
  BY BitsAre
<1>2. ASSUME NEW x \in Places PROVE x \in ShiftLeft(S) <=> x >= 1 /\ x - 1 \in S
  <2>1. ASSUME x \in ShiftLeft(S) PROVE x >= 1 /\ x - 1 \in S
    <3>1. PICK y \in S : x = y + 1
      BY <2>1 DEF ShiftLeft
    <3>2. y \in 0 .. n - 1
      BY <1>1
    <3>. QED BY <3>1, <3>2
  <2>2. ASSUME x >= 1, x - 1 \in S PROVE x \in ShiftLeft(S)
    <3>1. x = (x - 1) + 1
      BY <1>1
    <3>. QED BY <2>2, <3>1 DEF ShiftLeft
  <2>. QED BY <2>1, <2>2
<1>3. \A x \in Bit0(c) : x = 0
  BY DEF Bit0
<1>4. 0 \in Bit0(c) <=> c
  BY DEF Bit0
<1>5. ShiftLeft(S) \subseteq Places /\ Bit0(c) \subseteq Places
  BY <1>1 DEF ShiftLeft, Bit0
<1>6. ASSUME NEW x \in Places PROVE x \in ShiftLeft(S) \union Bit0(c) <=> IF x = 0 THEN c ELSE x - 1 \in S
  <2>1. x \in 0 .. n - 1
    BY <1>1
  <2>2. CASE x = 0
    BY <1>2, <1>4, <2>2
  <2>3. CASE x # 0
    BY <1>2, <1>3, <2>1, <2>3
  <2>. QED BY <2>2, <2>3
<1>. QED BY <1>2, <1>3, <1>4, <1>5, <1>6

\* stage1Escaped finds the escaped bytes of a block, and whether the next block begins with one.
LEMMA EscapesAre ==
    ASSUME JsonArgs, st.blk \in Nat, st.ec \in BOOLEAN, Base <= Size, st.ec <=> EscapedAt(Base)
    PROVE  LET esc == Escaped(Mask({"bs"}), st.ec)
           IN /\ \A x \in Places : x \in esc.e <=> Base + x <= Size /\ EscapedAt(Base + x)
              /\ esc.carry \in BOOLEAN /\ esc.e \subseteq Places
              /\ Base + BlockBits <= Size => (esc.carry <=> EscapedAt(Base + BlockBits))
<1>. DEFINE bs == Mask({"bs"})
            esc == Escaped(bs, st.ec)
            E(x) == EscapedAt(Base + x)
<1>1. PICK n \in Nat : n = BlockBits /\ n >= 2 /\ n % 2 = 0 /\ Places = 0 .. n - 1
  BY BitsAre
<1>2. PICK m \in Nat, l \in Nat : m = Base /\ l = Size /\ m <= l
  BY HeldIs, TextIs
<1>3. bs \subseteq Places /\ \A x \in 0 .. n - 1 : x \in bs <=> m + x < l /\ Char(m + x) = "bs"
  <2>1. \A x \in Places : x \in Held <=> m + x < l
    BY <1>2, HeldIs
  <2>2. bs \subseteq Held /\ Held \subseteq Places /\ \A x \in Held : x \in bs <=> Char(m + x) = "bs"
    BY <1>2, HeldIs
  <2>. HIDE DEF bs
  <2>. QED BY <1>1, <2>1, <2>2
<1>. HIDE DEF bs
<1>4. \A x \in 0 .. n - 1 : m + x < l => (E(x + 1) <=> x \in bs /\ ~E(x))
  <2>. TAKE x \in 0 .. n - 1
  <2>. HAVE m + x < l
  <2>1. PICK p \in Nat : p = m + x /\ p + 1 = m + (x + 1) /\ p < l
    OBVIOUS
  <2>2. EscapedAt(p + 1) <=> Char(p) = "bs" /\ ~EscapedAt(p)
    BY <1>2, <2>1, EscapedNext
  <2>. QED BY <1>2, <1>3, <2>1, <2>2
<1>5. E(0) <=> st.ec
  <2>1. m + 0 = m
    OBVIOUS
  <2>. QED BY <1>2, <2>1
<1>6. CASE bs = {}
  <2>1. esc.e = Bit0(st.ec) /\ esc.carry = FALSE
    BY <1>6 DEF Escaped
  <2>2. ASSUME NEW x \in 0 .. n - 1 PROVE x \in esc.e <=> m + x <= l /\ E(x)
    <3>1. CASE x = 0
      BY <1>2, <1>5, <2>1, <3>1, ShiftIs
    <3>2. CASE x # 0
      <4>1. x - 1 \in 0 .. n - 1 /\ (x - 1) + 1 = x /\ (m + x <= l => m + (x - 1) < l)
        BY <3>2
      <4>2. m + x <= l => ~E(x)
        BY <1>4, <1>6, <4>1
      <4>. QED BY <2>1, <3>2, <4>2, ShiftIs
    <3>. QED BY <3>1, <3>2
  <2>3. m + n <= l => ~E(n)
    <3>1. n - 1 \in 0 .. n - 1 /\ (n - 1) + 1 = n /\ (m + n <= l => m + (n - 1) < l)
      BY <1>1
    <3>. QED BY <1>4, <1>6, <3>1
  <2>4. esc.e \subseteq Places
    BY <2>1, ShiftIs
  <2>. HIDE DEF esc
  <2>. QED BY <1>1, <1>2, <2>1, <2>2, <2>3, <2>4 DEF esc, bs
<1>7. CASE bs # {}
  <2>. DEFINE b == bs \ Bit0(st.ec)
              follows == ShiftLeft(b) \union Bit0(st.ec)
              O == (b \ EvenPlaces) \ follows
              D == {x \in b : x % 2 = 0 <=> E(x)}
              sum == AsNumber(O) + AsNumber(b)
              W == AsWord(sum)
  <2>1. esc.e = Xor(EvenPlaces, ShiftLeft(W)) \intersect follows /\ esc.carry = (sum >= Weight[BlockBits])
    BY <1>7 DEF Escaped
  <2>2. b \subseteq Places /\ \A x \in 0 .. n - 1 : x \in b <=> x \in bs /\ ~(x = 0 /\ st.ec)
    BY <1>3, ShiftIs DEF Bit0
  <2>3. \A x \in 0 .. n - 1 : x \in EvenPlaces <=> x % 2 = 0
    BY <1>1 DEF EvenPlaces
  <2>. HIDE DEF b
  <2>4. \A x \in 0 .. n - 1 : x \in follows <=> IF x = 0 THEN st.ec ELSE x - 1 \in b
    BY <1>1, <2>2, ShiftIs
  <2>. HIDE DEF follows
  <2>5. \A x \in 0 .. n - 1 : x \in O <=> x \in b /\ x % 2 # 0 /\ x \notin follows
    BY <2>3
  <2>. HIDE DEF O
\* A byte that follows none of b is not escaped, if it is not the first of the block.
  <2>6. ASSUME NEW x \in 1 .. n, m + x <= l, x - 1 \notin b PROVE ~E(x)
    <3>1. x - 1 \in 0 .. n - 1 /\ (x - 1) + 1 = x /\ m + (x - 1) < l
      BY <2>6
    <3>2. E(x) <=> x - 1 \in bs /\ ~E(x - 1)
      BY <1>4, <3>1
    <3>3. x - 1 \in bs => x - 1 = 0 /\ st.ec
      BY <2>2, <2>6, <3>1
    <3>. QED BY <1>5, <3>2, <3>3
  <2>7. ASSUME NEW x \in 1 .. n, x - 1 \in b PROVE m + x <= l /\ (E(x) <=> ~E(x - 1)) /\ x - 1 \in bs
    <3>1. x - 1 \in 0 .. n - 1 /\ (x - 1) + 1 = x
      OBVIOUS
    <3>2. x - 1 \in bs /\ m + (x - 1) < l
      BY <1>3, <2>2, <2>7, <3>1
    <3>. QED BY <1>4, <3>1, <3>2
  <2>8. ASSUME NEW x \in 0 .. n - 1 PROVE x \in D <=> x \in b /\ (x % 2 = 0 <=> E(x))
    OBVIOUS
  <2>9. D \subseteq b
    OBVIOUS
  <2>. HIDE DEF D, E
  <2>10. ASSUME NEW x \in 0 .. n - 1 PROVE x \in O <=> x \in D /\ x - 1 \notin b
    <3>1. CASE x = 0
      <4>1. x % 2 = 0 /\ (x \in b => ~E(x))
        BY <1>5, <2>2, <3>1
      <4>2. x \notin O
        BY <2>5, <4>1
      <4>3. x \notin D
        BY <2>8, <4>1
      <4>. QED BY <4>2, <4>3
    <3>2. CASE x # 0
      <4>1. x \in 1 .. n
        BY <3>2
      <4>2. x \in b => m + x <= l
        BY <1>3, <2>2
      <4>3. x \in b /\ x - 1 \notin b => ~E(x)
        BY <2>6, <4>1, <4>2
      <4>4. x \in follows <=> x - 1 \in b
        BY <2>4, <3>2
      <4>. QED BY <2>5, <2>8, <4>3, <4>4
    <3>. QED BY <3>1, <3>2
  <2>11. ASSUME NEW x \in 0 .. n - 1, x \in b, x - 1 \in b PROVE x \in D <=> x - 1 \in D
    <3>1. x - 1 \in 0 .. n - 1 /\ x \in 1 .. n
      BY <1>1, <2>2, <2>11
    <3>2. E(x) <=> ~E(x - 1)
      BY <2>7, <2>11, <3>1
    <3>3. x % 2 = 0 <=> ~((x - 1) % 2 = 0)
      BY <3>1
    <3>. QED BY <2>8, <2>11, <3>1, <3>2, <3>3
  <2>12. /\ W = {x \in Places : (x \in b /\ x \notin D) \/ (x \notin b /\ x - 1 \in D)}
         /\ sum >= Weight[BlockBits] <=> BlockBits - 1 \in D
    BY <1>1, <2>2, <2>9, <2>10, <2>11, RunsCarry
  <2>. HIDE DEF W, sum
  <2>13. \A x \in 0 .. n - 1 : x \in ShiftLeft(W) <=> x >= 1 /\ x - 1 \in W
    <3>1. W \subseteq Places
      BY <2>12
    <3>. QED BY <1>1, <3>1, ShiftIs
  <2>14. \A x \in 0 .. n - 1 : x \in esc.e <=> x \in follows /\ (x % 2 = 0 <=> x \notin ShiftLeft(W))
    BY <2>1, <2>3 DEF Xor
  <2>15. ASSUME NEW x \in 0 .. n - 1 PROVE x \in esc.e <=> m + x <= l /\ E(x)
    <3>1. CASE x = 0
      <4>1. x % 2 = 0 /\ x \notin ShiftLeft(W) /\ (x \in follows <=> st.ec)
        BY <2>4, <2>13, <3>1
      <4>. QED BY <1>2, <1>5, <2>14, <3>1, <4>1
    <3>2. CASE x # 0 /\ x - 1 \in b
      <4>1. x \in 1 .. n /\ x - 1 \in 0 .. n - 1 /\ (x % 2 = 0 <=> ~((x - 1) % 2 = 0))
        BY <3>2
      <4>2. m + x <= l /\ (E(x) <=> ~E(x - 1)) /\ x \in follows
        BY <2>4, <2>7, <3>2, <4>1
      <4>3. x - 1 \in W <=> x - 1 \notin D
        BY <1>1, <2>12, <3>2, <4>1
      <4>4. x - 1 \in D <=> ((x - 1) % 2 = 0 <=> E(x - 1))
        BY <2>8, <3>2, <4>1
      <4>5. x \in ShiftLeft(W) <=> x - 1 \in W
        BY <2>13, <4>1
      <4>. QED BY <2>14, <4>1, <4>2, <4>3, <4>4, <4>5
    <3>3. CASE x # 0 /\ x - 1 \notin b
      <4>1. x \in 1 .. n
        BY <3>3
      <4>2. x \notin follows
        BY <2>4, <3>3
      <4>. QED BY <2>6, <2>14, <3>3, <4>1, <4>2
    <3>. QED BY <3>1, <3>2, <3>3
  <2>16. m + n <= l => (esc.carry <=> E(n))
    <3>. HAVE m + n <= l
    <3>1. n - 1 \in 0 .. n - 1 /\ n \in 1 .. n /\ (n - 1) % 2 # 0
      BY <1>1
    <3>2. esc.carry <=> n - 1 \in b /\ ~E(n - 1)
      BY <1>1, <2>1, <2>8, <2>12, <3>1
    <3>3. CASE n - 1 \in b
      BY <2>7, <3>1, <3>2, <3>3
    <3>4. CASE n - 1 \notin b
      BY <2>6, <3>1, <3>2, <3>4
    <3>. QED BY <3>3, <3>4
  <2>17. esc.carry \in BOOLEAN
    BY <2>1
  <2>18. esc.e \subseteq Places
    <3>1. follows \subseteq Places
      BY <2>2, ShiftIs DEF follows
    <3>. QED BY <2>1, <3>1
  <2>. HIDE DEF esc
  <2>. QED BY <1>1, <1>2, <2>15, <2>16, <2>17, <2>18 DEF esc, bs, E
<1>. QED BY <1>6, <1>7

-----------------------------------------------------------------------------
(* Strings: a byte is in one when the byte before it is, unless it is a    *)
(* quote.                                                                  *)

LEMMA ParityNext ==
    ASSUME NEW Q, Q \subseteq Nat, NEW x \in Nat
    PROVE  Cardinality({y \in Q : y <= x}) % 2 = 1 <=> ~(x \in Q <=> Cardinality({y \in Q : y <= x - 1}) % 2 = 1)
<1>. DEFINE T(k) == {y \in Q : y <= k}
<1>1. IsFiniteSet(T(x)) /\ T(x - 1) = T(x) \ {x}
  <2>1. IsFiniteSet(0 .. x)
    BY FS_Interval
  <2>2. IsFiniteSet(T(x))
    <3>1. ASSUME NEW y \in T(x) PROVE y \in 0 .. x
      <4>1. y \in Q /\ y \in Nat /\ y <= x
        OBVIOUS
      <4>. QED BY <4>1
    <3>. QED BY <2>1, <3>1, FS_Subset
  <2>3. T(x - 1) = T(x) \ {x}
    <3>1. \A y \in Q : y <= x - 1 <=> y <= x /\ y # x
      OBVIOUS
    <3>. QED BY <3>1, Zenon
  <2>. QED BY <2>2, <2>3
<1>2. x \in T(x) <=> x \in Q
  OBVIOUS
<1>. HIDE DEF T
<1>3. CASE x \in Q
  <2>1. PICK c \in Nat, d \in Nat : c = Cardinality(T(x)) /\ d = Cardinality(T(x - 1)) /\ c = d + 1
    <3>1. x \in T(x)
      BY <1>2, <1>3
    <3>2. /\ Cardinality(T(x) \ {x}) = Cardinality(T(x)) - 1
          /\ Cardinality(T(x)) \in Nat /\ Cardinality(T(x) \ {x}) \in Nat
      BY <1>1, <3>1, FS_RemoveElement, FS_CardinalityType, FS_Subset
    <3>3. /\ Cardinality(T(x - 1)) = Cardinality(T(x)) - 1
          /\ Cardinality(T(x)) \in Nat /\ Cardinality(T(x - 1)) \in Nat
      BY <1>1, <3>2, Zenon
    <3>. QED BY <3>3
  <2>2. c % 2 = 1 <=> ~(d % 2 = 1)
    BY <2>1
  <2>. QED BY <1>3, <2>1, <2>2 DEF T
<1>4. CASE x \notin Q
  <2>1. T(x - 1) = T(x)
    BY <1>1, <1>2, <1>4
  <2>. QED BY <1>4, <2>1 DEF T
<1>. QED BY <1>3, <1>4

LEMMA StringNext ==
    ASSUME JsonArgs
    PROVE  /\ \A p \in 0 .. Size - 1 : p \in StringBytes <=> ~(p \in Quotes <=> p - 1 \in StringBytes)
           /\ \A p \in 0 .. Size - 1 : p \in Quotes <=> Char(p) = "q" /\ ~EscapedAt(p)
           /\ StringBytes \subseteq 0 .. Size - 1
<1>1. Quotes \subseteq Nat /\ Size \in Nat
  BY TextIs DEF Quotes
<1>. DEFINE C(p) == Cardinality({x \in Quotes : x <= p}) % 2 = 1
<1>2. StringBytes = {p \in 0 .. Size - 1 : C(p)}
  BY DEF StringBytes
<1>3. ASSUME NEW p \in 0 .. Size - 1 PROVE C(p) <=> ~(p \in Quotes <=> C(p - 1))
  <2>1. p \in Nat
    BY <1>1
  <2>2. Cardinality({y \in Quotes : y <= p}) % 2 = 1 <=> ~(p \in Quotes <=> Cardinality({y \in Quotes : y <= p - 1}) % 2 = 1)
    BY <1>1, <2>1, ParityNext
  <2>. QED BY <2>2, Zenon
<1>4. ~C(0 - 1)
  <2>1. {x \in Quotes : x <= 0 - 1} = {}
    <3>1. \A x \in Quotes : ~(x <= 0 - 1)
      BY <1>1
    <3>. QED BY <3>1, Zenon
  <2>. QED BY <2>1, FS_EmptySet
<1>. HIDE DEF C
<1>5. ASSUME NEW p \in 0 .. Size - 1 PROVE p \in StringBytes <=> ~(p \in Quotes <=> p - 1 \in StringBytes)
  <2>1. CASE p = 0
    <3>1. p - 1 = 0 - 1 /\ p - 1 \notin StringBytes
      BY <1>2, <2>1
    <3>. QED BY <1>2, <1>3, <1>4, <3>1
  <2>2. CASE p # 0
    <3>1. p - 1 \in 0 .. Size - 1
      BY <1>1, <2>2
    <3>. QED BY <1>2, <1>3, <3>1
  <2>. QED BY <2>1, <2>2
<1>. QED BY <1>2, <1>5 DEF Quotes

\* Where the bytes below p end.
End(p) == IF p < Size THEN p ELSE Size

\* What is carried into the block that begins at p.
Carried(p) ==
    /\ st.sc <=> End(p) - 1 \in StringBytes
    /\ p <= Size => (st.ec <=> EscapedAt(p)) /\ (st.lead <=> p \in EscapeTargets)

JsonFlags == st.blk \in Nat /\ st.ec \in BOOLEAN /\ st.sc \in BOOLEAN /\ st.lead \in BOOLEAN

\* The bits of a block from an opening quote up to its closing quote.
LEMMA InsideIs ==
    ASSUME JsonArgs, JsonFlags, Base < Size, Carried(Base)
    PROVE  LET esc == Escaped(Mask({"bs"}), st.ec)
               in == Xor(PrefixParity(Mask({"q"}) \ esc.e), IF st.sc THEN Places ELSE {})
           IN /\ in \subseteq Places
              /\ \A x \in Places : x \in in <=> End(Base + x + 1) - 1 \in StringBytes
<1>. DEFINE esc == Escaped(Mask({"bs"}), st.ec)
            Q == Mask({"q"}) \ esc.e
            all == IF st.sc THEN Places ELSE {}
            in == Xor(PrefixParity(Q), all)
<1>1. PICK n \in Nat : n = BlockBits /\ n >= 2 /\ Places = 0 .. n - 1
  BY BitsAre
<1>2. PICK m \in Nat, l \in Nat : m = Base /\ l = Size /\ m < l
  BY HeldIs, TextIs DEF JsonFlags
<1>3. \A x \in 0 .. n - 1 : x \in esc.e <=> m + x <= l /\ EscapedAt(m + x)
  <2>1. st.ec <=> EscapedAt(Base)
    BY <1>2 DEF Carried
  <2>. HIDE DEF esc
  <2>2. \A x \in Places : x \in esc.e <=> Base + x <= Size /\ EscapedAt(Base + x)
    BY <1>2, <2>1, EscapesAre DEF esc, JsonFlags
  <2>. QED BY <1>1, <1>2, <2>2
<1>. HIDE DEF esc
<1>4. Q \subseteq Places /\ \A x \in 0 .. n - 1 : x \in Q <=> m + x < l /\ m + x \in Quotes
  <2>1. Held \subseteq Places /\ Mask({"q"}) \subseteq Held
    BY HeldIs DEF JsonFlags
  <2>2. \A x \in Places : x \in Held <=> m + x < l
    BY <1>2, HeldIs DEF JsonFlags
  <2>3. \A x \in Held : x \in Mask({"q"}) <=> Char(m + x) = "q"
    <3>1. \A x \in Held : x \in Mask({"q"}) <=> Char(Base + x) \in {"q"}
      BY HeldIs DEF JsonFlags
    <3>. QED BY <1>2, <3>1
  <2>4. ASSUME NEW x \in 0 .. n - 1 PROVE x \in Q <=> m + x < l /\ m + x \in Quotes
    <3>1. m + x \in Quotes <=> m + x < l /\ Char(m + x) = "q" /\ ~EscapedAt(m + x)
      BY <1>2 DEF Quotes
    <3>2. x \in Mask({"q"}) <=> m + x < l /\ Char(m + x) = "q"
      BY <1>1, <2>1, <2>2, <2>3
    <3>. QED BY <1>3, <3>1, <3>2
  <2>. QED BY <2>1, <2>4
<1>. HIDE DEF Q
<1>. DEFINE C(x) == Cardinality({y \in Q : y <= x}) % 2 = 1
<1>5. \A x \in 0 .. n - 1 : C(x) <=> ~(x \in Q <=> C(x - 1))
  <2>1. Q \subseteq Nat
    BY <1>1, <1>4
  <2>2. ASSUME NEW x \in 0 .. n - 1 PROVE C(x) <=> ~(x \in Q <=> C(x - 1))
    <3>1. x \in Nat
      OBVIOUS
    <3>2. Cardinality({y \in Q : y <= x}) % 2 = 1 <=> ~(x \in Q <=> Cardinality({y \in Q : y <= x - 1}) % 2 = 1)
      BY <2>1, <3>1, ParityNext
    <3>. QED BY <3>2, Zenon
  <2>. QED BY <2>2
<1>6. ~C(0 - 1)
  <2>1. {x \in Q : x <= 0 - 1} = {}
    <3>1. \A x \in Q : ~(x <= 0 - 1)
      BY <1>1, <1>4
    <3>. QED BY <3>1, Zenon
  <2>. QED BY <2>1, FS_EmptySet
<1>7. \A x \in 0 .. n - 1 : x \in in <=> ~(C(x) <=> st.sc)
  <2>1. \A x \in 0 .. n - 1 : x \in PrefixParity(Q) <=> C(x)
    BY <1>1 DEF PrefixParity
  <2>2. \A x \in 0 .. n - 1 : x \in all <=> st.sc
    BY <1>1
  <2>. QED BY <2>1, <2>2 DEF Xor
<1>8. in \subseteq Places
  <2>1. PrefixParity(Q) \subseteq Places /\ all \subseteq Places
    BY DEF PrefixParity
  <2>. QED BY <2>1 DEF Xor
<1>. HIDE DEF in, all, C
<1>9. st.sc <=> m - 1 \in StringBytes
  BY <1>2 DEF Carried, End
<1>. DEFINE S == {x \in Nat : x <= n - 1 => (x \in in <=> End(m + x + 1) - 1 \in StringBytes)}
<1>10. 0 \in S
  <2>1. End(m + 0 + 1) - 1 = m /\ m + 0 = m
    BY <1>2 DEF End
  <2>2. m \in StringBytes <=> ~(m \in Quotes <=> m - 1 \in StringBytes)
    BY <1>2, StringNext
  <2>3. 0 \in Q <=> m \in Quotes
    BY <1>1, <1>2, <1>4
  <2>4. 0 \in 0 .. n - 1
    BY <1>1
  <2>. QED BY <1>5, <1>6, <1>7, <1>9, <2>1, <2>2, <2>3, <2>4
<1>11. ASSUME NEW x \in Nat, x \in S PROVE x + 1 \in S
  <2>. SUFFICES ASSUME x + 1 <= n - 1 PROVE x + 1 \in in <=> End(m + (x + 1) + 1) - 1 \in StringBytes
    OBVIOUS
  <2>1. x \in 0 .. n - 1 /\ x + 1 \in 0 .. n - 1 /\ (x + 1) - 1 = x
    OBVIOUS
  <2>2. x \in in <=> End(m + x + 1) - 1 \in StringBytes
    BY <1>11, <2>1
  <2>3. x + 1 \in in <=> ~(x + 1 \in Q <=> x \in in)
    BY <1>5, <1>7, <2>1
  <2>4. CASE m + (x + 1) < l
    <3>1. PICK p \in 0 .. l - 1 : p = m + (x + 1) /\ p - 1 = m + x /\ p + 1 = m + (x + 1) + 1
      BY <2>4
    <3>2. End(m + (x + 1) + 1) - 1 = p /\ End(m + x + 1) - 1 = p - 1
      BY <1>2, <2>4, <3>1 DEF End
    <3>3. p \in StringBytes <=> ~(p \in Quotes <=> p - 1 \in StringBytes)
      BY <1>2, StringNext
    <3>4. x + 1 \in Q <=> p \in Quotes
      BY <1>4, <2>1, <2>4, <3>1
    <3>. QED BY <2>2, <2>3, <3>2, <3>3, <3>4
  <2>5. CASE ~(m + (x + 1) < l)
    <3>1. End(m + (x + 1) + 1) = l /\ End(m + x + 1) = l
      BY <1>2, <2>5 DEF End
    <3>2. x + 1 \notin Q
      BY <1>4, <2>1, <2>5
    <3>. QED BY <2>2, <2>3, <3>1, <3>2
  <2>. QED BY <2>4, <2>5
<1>. HIDE DEF S
<1>12. \A x \in Nat : x \in S
  BY <1>10, <1>11, SetInduction
<1>13. \A x \in Places : x \in in <=> End(m + x + 1) - 1 \in StringBytes
  BY <1>1, <1>12 DEF S
<1>. QED BY <1>2, <1>8, <1>13 DEF in, all, Q, esc

\* The masks of a block are what its bytes are in the text.
LEMMA MasksAre ==
    ASSUME JsonArgs, JsonFlags, Base < Size, Carried(Base)
    PROVE  LET esc == Escaped(Mask({"bs"}), st.ec)
               in == Xor(PrefixParity(Mask({"q"}) \ esc.e), IF st.sc THEN Places ELSE {})
               leaders == (Mask({"bs"}) \intersect in) \ esc.e
               targets == ShiftLeft(leaders) \union Bit0(st.lead)
           IN /\ esc.carry \in BOOLEAN
              /\ Base + BlockBits <= Size => (esc.carry <=> EscapedAt(Base + BlockBits))
              /\ BlockBits - 1 \in in <=> End(Base + BlockBits) - 1 \in StringBytes
              /\ Base + BlockBits <= Size => (BlockBits - 1 \in leaders <=> Base + BlockBits \in EscapeTargets)
              /\ \A x \in Places : x \in (Held \ Mask(Space)) \ in <=> Base + x \in Significant
              /\ \A x \in Places : x \in Mask(Controls) \intersect in <=>
                                      Base + x \in StringBytes /\ Char(Base + x) \in Controls
              /\ targets \subseteq Places /\ \A x \in Places : x \in targets <=> Base + x \in EscapeTargets
<1>. DEFINE esc == Escaped(Mask({"bs"}), st.ec)
            in == Xor(PrefixParity(Mask({"q"}) \ esc.e), IF st.sc THEN Places ELSE {})
            leaders == (Mask({"bs"}) \intersect in) \ esc.e
            targets == ShiftLeft(leaders) \union Bit0(st.lead)
<1>1. PICK n \in Nat : n = BlockBits /\ n >= 2 /\ Places = 0 .. n - 1
  BY BitsAre
<1>2. PICK m \in Nat, l \in Nat : m = Base /\ l = Size /\ m < l
  BY HeldIs, TextIs DEF JsonFlags
<1>3. /\ esc.carry \in BOOLEAN /\ (m + n <= l => (esc.carry <=> EscapedAt(m + n)))
      /\ \A x \in 0 .. n - 1 : x \in esc.e <=> m + x <= l /\ EscapedAt(m + x)
  <2>1. st.ec <=> EscapedAt(Base)
    BY <1>2 DEF Carried
  <2>. HIDE DEF esc
  <2>2. /\ \A x \in Places : x \in esc.e <=> Base + x <= Size /\ EscapedAt(Base + x)
        /\ esc.carry \in BOOLEAN /\ (Base + BlockBits <= Size => (esc.carry <=> EscapedAt(Base + BlockBits)))
    BY <1>2, <2>1, EscapesAre DEF esc, JsonFlags
  <2>. QED BY <1>1, <1>2, <2>2
<1>4. in \subseteq Places /\ \A x \in 0 .. n - 1 : x \in in <=> End(m + x + 1) - 1 \in StringBytes
  <2>. HIDE DEF in
  <2>1. in \subseteq Places /\ \A x \in Places : x \in in <=> End(Base + x + 1) - 1 \in StringBytes
    BY InsideIs DEF in
  <2>. QED BY <1>1, <1>2, <2>1
<1>. HIDE DEF esc, in
<1>5. \A x \in 0 .. n - 1 : m + x < l => (x \in in <=> m + x \in StringBytes)
  <2>. TAKE x \in 0 .. n - 1
  <2>. HAVE m + x < l
  <2>1. End(m + x + 1) - 1 = m + x
    BY <1>2 DEF End
  <2>. QED BY <1>4, <2>1
<1>6. \A S : Mask(S) \subseteq Places /\ \A x \in 0 .. n - 1 : x \in Mask(S) <=> m + x < l /\ Char(m + x) \in S
  <2>1. Held \subseteq Places /\ \A x \in 0 .. n - 1 : x \in Held <=> m + x < l
    BY <1>1, <1>2, HeldIs DEF JsonFlags
  <2>2. \A S : Mask(S) \subseteq Held /\ \A x \in Held : x \in Mask(S) <=> Char(m + x) \in S
    BY <1>2, HeldIs DEF JsonFlags
  <2>. TAKE S
  <2>3. Mask(S) \subseteq Held /\ \A x \in Held : x \in Mask(S) <=> Char(m + x) \in S
    BY <2>2
  <2>. QED BY <1>1, <2>1, <2>3
<1>7. \A x \in 0 .. n - 1 : x \in Held <=> m + x < l
  BY <1>1, <1>2, HeldIs DEF JsonFlags
<1>8. StringBytes \subseteq 0 .. l - 1
  BY <1>2, StringNext
<1>9. BlockBits - 1 \in in <=> End(m + BlockBits) - 1 \in StringBytes
  <2>1. n - 1 \in 0 .. n - 1 /\ m + (n - 1) + 1 = m + n
    BY <1>1
  <2>. QED BY <1>1, <1>4, <2>1
<1>10. \A x \in 0 .. n - 1 : x \in leaders <=> m + x < l /\ Char(m + x) = "bs" /\ m + x \in StringBytes /\ ~EscapedAt(m + x)
  <2>. TAKE x \in 0 .. n - 1
  <2>1. x \in Mask({"bs"}) <=> m + x < l /\ Char(m + x) = "bs"
    BY <1>6
  <2>. QED BY <1>3, <1>5, <2>1
<1>11. leaders \subseteq Places
  BY <1>4
<1>. HIDE DEF leaders
<1>12. \A p \in Nat : p + 1 \in EscapeTargets <=> p < l /\ Char(p) = "bs" /\ p \in StringBytes /\ ~EscapedAt(p)
  <2>. TAKE p \in Nat
  <2>1. (p + 1) - 1 = p /\ (p + 1 \in 1 .. l <=> p < l)
    BY <1>2
  <2>. QED BY <1>2, <2>1 DEF EscapeTargets
<1>13. m + n <= l => (n - 1 \in leaders <=> m + n \in EscapeTargets)
  <2>1. n - 1 \in 0 .. n - 1 /\ m + (n - 1) \in Nat /\ (m + (n - 1)) + 1 = m + n
    BY <1>1
  <2>. QED BY <1>10, <1>12, <2>1
<1>14. \A x \in 0 .. n - 1 : x \in (Held \ Mask(Space)) \ in <=> m + x \in Significant
  <2>. TAKE x \in 0 .. n - 1
  <2>1. m + x \in Significant <=> m + x < l /\ m + x \notin StringBytes /\ Char(m + x) \notin Space
    BY <1>2 DEF Significant
  <2>2. x \in Mask(Space) <=> m + x < l /\ Char(m + x) \in Space
    BY <1>6
  <2>. QED BY <1>5, <1>7, <2>1, <2>2
<1>15. \A x \in 0 .. n - 1 : x \in Mask(Controls) \intersect in <=> m + x \in StringBytes /\ Char(m + x) \in Controls
  <2>. TAKE x \in 0 .. n - 1
  <2>1. x \in Mask(Controls) <=> m + x < l /\ Char(m + x) \in Controls
    BY <1>6
  <2>2. m + x \in StringBytes => m + x < l
    BY <1>8
  <2>. QED BY <1>5, <2>1, <2>2
<1>16. st.lead <=> m \in EscapeTargets
  BY <1>2 DEF Carried
<1>17. targets \subseteq Places /\ \A x \in 0 .. n - 1 : x \in targets <=> IF x = 0 THEN st.lead ELSE x - 1 \in leaders
  BY <1>1, <1>11, ShiftIs DEF JsonFlags
<1>18. \A x \in 0 .. n - 1 : x \in targets <=> m + x \in EscapeTargets
  <2>. TAKE x \in 0 .. n - 1
  <2>. HIDE DEF targets
  <2>1. CASE x = 0
    BY <1>16, <1>17, <2>1
  <2>2. CASE x # 0
    <3>1. x - 1 \in 0 .. n - 1 /\ m + (x - 1) \in Nat /\ (m + (x - 1)) + 1 = m + x
      BY <2>2
    <3>2. m + x \in EscapeTargets <=> x - 1 \in leaders
      BY <1>10, <1>12, <3>1
    <3>. QED BY <1>17, <2>2, <3>2
  <2>. QED BY <2>1, <2>2
<1>. HIDE DEF targets
<1>19. /\ esc.carry \in BOOLEAN
       /\ Base + BlockBits <= Size => (esc.carry <=> EscapedAt(Base + BlockBits))
       /\ BlockBits - 1 \in in <=> End(Base + BlockBits) - 1 \in StringBytes
       /\ Base + BlockBits <= Size => (BlockBits - 1 \in leaders <=> Base + BlockBits \in EscapeTargets)
  <2>1. esc.carry \in BOOLEAN /\ (Base + BlockBits <= Size => (esc.carry <=> EscapedAt(Base + BlockBits)))
    BY <1>1, <1>2, <1>3
  <2>2. BlockBits - 1 \in in <=> End(Base + BlockBits) - 1 \in StringBytes
    BY <1>2, <1>9
  <2>3. Base + BlockBits <= Size => (BlockBits - 1 \in leaders <=> Base + BlockBits \in EscapeTargets)
    BY <1>1, <1>2, <1>13
  <2>. QED BY <2>1, <2>2, <2>3
<1>20. /\ \A x \in Places : x \in (Held \ Mask(Space)) \ in <=> Base + x \in Significant
       /\ \A x \in Places : x \in Mask(Controls) \intersect in <=>
                               Base + x \in StringBytes /\ Char(Base + x) \in Controls
  BY <1>1, <1>2, <1>14, <1>15
<1>21. targets \subseteq Places /\ \A x \in Places : x \in targets <=> Base + x \in EscapeTargets
  BY <1>1, <1>2, <1>17, <1>18
<1>. QED BY <1>19, <1>20, <1>21, Zenon DEF targets, leaders, in, esc

-----------------------------------------------------------------------------
(* Tokens, and the containers that they leave open.                        *)

\* The text is the call's, and so is all that is said of it.
LEMMA SameText ==
    ASSUME call' = call
    PROVE  /\ Size' = Size /\ \A p : Char(p)' = Char(p)
           /\ \A p : EscapedAt(p)' <=> EscapedAt(p)
           /\ StringBytes' = StringBytes /\ EscapeTargets' = EscapeTargets
           /\ Significant' = Significant /\ TokenPlaces' = TokenPlaces
           /\ \A p : TokensBelow(p)' = TokensBelow(p)
<1>1. text' = text
  BY DEF text
<1>2. Size' = Size /\ \A p : Char(p)' = Char(p)
  BY <1>1 DEF Size, Char
<1>3. \A p : EscapedAt(p)' <=> EscapedAt(p)
  BY <1>2, Zenon DEF EscapedAt
<1>4. Quotes' = Quotes
  BY <1>2, <1>3, Zenon DEF Quotes
<1>5. StringBytes' = StringBytes
  BY <1>2, <1>4, Zenon DEF StringBytes
<1>6. EscapeTargets' = EscapeTargets
  BY <1>2, <1>3, <1>5, Zenon DEF EscapeTargets
<1>7. Significant' = Significant
  BY <1>2, <1>5, Zenon DEF Significant
<1>8. TokenPlaces' = TokenPlaces
  BY <1>2, <1>7, Zenon DEF TokenPlaces
<1>9. \A p : TokensBelow(p)' = TokensBelow(p)
  BY <1>2, <1>8, Zenon DEF TokensBelow
<1>. QED BY <1>2, <1>3, <1>5, <1>6, <1>7, <1>8, <1>9

LEMMA TokensNext ==
    ASSUME JsonArgs
    PROVE  /\ TokensBelow(0) = <<>>
           /\ \A p \in Nat : TokensBelow(p) \in Seq(Chars)
           /\ \A p \in Nat : p < Size => TokensBelow(p + 1) = IF p \in TokenPlaces THEN Append(TokensBelow(p), Char(p))
                                                              ELSE TokensBelow(p)
           /\ \A p \in Nat : p >= Size => TokensBelow(p) = TokensBelow(Size)
<1>1. PICK n \in Nat : n = Size /\ \A p \in 0 .. n - 1 : Char(p) \in Chars
  BY TextIs
<1>. DEFINE add == [q \in (1 .. n) \X Seq(Chars) |->
                       IF q[1] - 1 \in TokenPlaces THEN Append(q[2], Char(q[1] - 1)) ELSE q[2]]
            Is(f) == f = [x \in 0 .. Size |->
                            IF x = 0 THEN <<>>
                            ELSE IF x - 1 \in TokenPlaces THEN Append(f[x - 1], Char(x - 1)) ELSE f[x - 1]]
<1>2. ASSUME NEW k \in 1 .. n, NEW s \in Seq(Chars)
      PROVE  /\ add[<<k, s>>] = IF k - 1 \in TokenPlaces THEN Append(s, Char(k - 1)) ELSE s
             /\ (IF k - 1 \in TokenPlaces THEN Append(s, Char(k - 1)) ELSE s) \in Seq(Chars)
  <2>1. Char(k - 1) \in Chars
    BY <1>1
  <2>2. Append(s, Char(k - 1)) \in Seq(Chars)
    BY <2>1, AppendProperties
  <2>. QED BY <2>2
<1>3. StaysIn(add, Seq(Chars), n)
  BY <1>2 DEF StaysIn
<1>. HIDE DEF add
<1>4. <<>> \in Seq(Chars)
  OBVIOUS
<1>5. PICK f : Unfolds(f, Seq(Chars), n, <<>>, add)
  BY <1>3, <1>4, RecursionExists
<1>6. /\ f \in [0 .. n -> Seq(Chars)] /\ f[0] = <<>>
      /\ \A k \in 1 .. n : f[k] = IF k - 1 \in TokenPlaces THEN Append(f[k - 1], Char(k - 1)) ELSE f[k - 1]
  <2>1. f \in [0 .. n -> Seq(Chars)] /\ f[0] = <<>> /\ \A k \in 1 .. n : f[k] = add[<<k, f[k - 1]>>]
    BY <1>5 DEF Unfolds
  <2>2. \A k \in 1 .. n : f[k - 1] \in Seq(Chars)
    BY <2>1
  <2>. QED BY <1>2, <2>1, <2>2
<1>7. Is(f)
  <2>1. \A x \in 0 .. n : f[x] = IF x = 0 THEN <<>>
                                 ELSE IF x - 1 \in TokenPlaces THEN Append(f[x - 1], Char(x - 1)) ELSE f[x - 1]
    <3>. TAKE x \in 0 .. n
    <3>1. CASE x = 0
      BY <1>6, <3>1
    <3>2. CASE x # 0
      <4>1. x \in 1 .. n
        BY <3>2
      <4>. QED BY <1>6, <3>2, <4>1, Zenon
    <3>. QED BY <3>1, <3>2
  <2>2. DOMAIN f = 0 .. n
    BY <1>6
  <2>. QED BY <1>1, <1>6, <2>1, <2>2
<1>. DEFINE g == CHOOSE e : Is(e)
<1>8. Is(g)
  BY <1>7, Zenon
<1>9. \A p : TokensBelow(p) = g[IF p < Size THEN p ELSE Size]
  BY Zenon DEF TokensBelow
<1>. HIDE DEF g
<1>10. g[0] = <<>> /\ \A x \in 1 .. n : g[x] = IF x - 1 \in TokenPlaces THEN Append(g[x - 1], Char(x - 1)) ELSE g[x - 1]
  <2>1. \A x \in 0 .. n : g[x] = IF x = 0 THEN <<>>
                                 ELSE IF x - 1 \in TokenPlaces THEN Append(g[x - 1], Char(x - 1)) ELSE g[x - 1]
    BY <1>1, <1>8, Zenon
  <2>2. 0 \in 0 .. n /\ \A x \in 1 .. n : x \in 0 .. n /\ x # 0
    OBVIOUS
  <2>3. g[0] = <<>>
    BY <2>1, <2>2, Zenon
  <2>4. ASSUME NEW x \in 1 .. n PROVE g[x] = IF x - 1 \in TokenPlaces THEN Append(g[x - 1], Char(x - 1)) ELSE g[x - 1]
    <3>1. x \in 0 .. n /\ x # 0
      OBVIOUS
    <3>. QED BY <2>1, <3>1, Zenon
  <2>. QED BY <2>3, <2>4
<1>. HIDE DEF Is
<1>. DEFINE T == {x \in Nat : x <= n => g[x] \in Seq(Chars)}
<1>11. 0 \in T
  BY <1>4, <1>10
<1>12. ASSUME NEW x \in Nat, x \in T PROVE x + 1 \in T
  <2>. SUFFICES ASSUME x + 1 <= n PROVE g[x + 1] \in Seq(Chars)
    OBVIOUS
  <2>1. x + 1 \in 1 .. n /\ (x + 1) - 1 = x /\ g[x] \in Seq(Chars) /\ Char(x) \in Chars
    BY <1>1, <1>12
  <2>2. Append(g[x], Char(x)) \in Seq(Chars)
    BY <2>1, AppendProperties
  <2>. QED BY <1>10, <2>1, <2>2
<1>. HIDE DEF T
<1>13. \A x \in Nat : x \in T
  BY <1>11, <1>12, SetInduction
<1>14. \A x \in 0 .. n : g[x] \in Seq(Chars)
  BY <1>13 DEF T
<1>15. \A p \in 0 .. n : TokensBelow(p) = g[p]
  BY <1>1, <1>9
<1>16. \A p \in Nat : p >= n => TokensBelow(p) = g[n]
  BY <1>1, <1>9
<1>17. TokensBelow(0) = <<>>
  BY <1>10, <1>15
<1>18. \A p \in Nat : TokensBelow(p) \in Seq(Chars)
  BY <1>14, <1>15, <1>16
<1>19. ASSUME NEW p \in Nat, p < n
       PROVE  TokensBelow(p + 1) = IF p \in TokenPlaces THEN Append(TokensBelow(p), Char(p)) ELSE TokensBelow(p)
  <2>1. p + 1 \in 1 .. n /\ (p + 1) - 1 = p
    BY <1>19
  <2>2. g[p + 1] = IF p \in TokenPlaces THEN Append(g[p], Char(p)) ELSE g[p]
    BY <1>10, <2>1
  <2>3. TokensBelow(p) = g[p] /\ TokensBelow(p + 1) = g[p + 1]
    BY <1>15, <1>19
  <2>. QED BY <2>2, <2>3
<1>20. \A p \in Nat : p >= n => TokensBelow(p) = TokensBelow(n)
  BY <1>15, <1>16
<1>. QED BY <1>1, <1>17, <1>18, <1>19, <1>20

\* Where no token begins, none is added.
LEMMA NoTokens ==
    ASSUME JsonArgs, NEW p \in Nat, NEW q \in Nat, p <= q, \A y \in p .. q - 1 : y \notin TokenPlaces
    PROVE  TokensBelow(q) = TokensBelow(p)
<1>1. PICK n \in Nat : n = Size
  BY TextIs
<1>. DEFINE S == {d \in Nat : p + d <= q => TokensBelow(p + d) = TokensBelow(p)}
<1>2. 0 \in S
  OBVIOUS
<1>3. ASSUME NEW d \in Nat, d \in S PROVE d + 1 \in S
  <2>. SUFFICES ASSUME p + (d + 1) <= q PROVE TokensBelow(p + (d + 1)) = TokensBelow(p)
    OBVIOUS
  <2>1. PICK y \in Nat : y = p + d /\ y + 1 = p + (d + 1) /\ y \in p .. q - 1
    OBVIOUS
  <2>2. TokensBelow(y) = TokensBelow(p)
    BY <1>3, <2>1
  <2>3. CASE y < n
    BY <1>1, <2>1, <2>2, <2>3, TokensNext
  <2>4. CASE ~(y < n)
    <3>1. y >= n /\ y + 1 >= n
      BY <2>4
    <3>2. TokensBelow(y) = TokensBelow(n) /\ TokensBelow(y + 1) = TokensBelow(n)
      BY <1>1, <3>1, TokensNext
    <3>. QED BY <2>1, <2>2, <3>2
  <2>. QED BY <2>3, <2>4
<1>. HIDE DEF S
<1>4. PICK d \in Nat : p + d = q
  <2>1. q - p \in Nat /\ p + (q - p) = q
    OBVIOUS
  <2>. QED BY <2>1
<1>5. d \in S
  BY <1>2, <1>3, SetInduction
<1>. QED BY <1>4, <1>5 DEF S

Brackets == {"{", "["}

\* What a token makes of the containers that are open.
After(before, c) ==
    CASE c \in {"{", "["} -> Append(before, c)
      [] c \in {"}", "]"} -> SubSeq(before, 1, Len(before) - 1)
      [] OTHER -> before

LEMMA AfterIs ==
    ASSUME NEW b \in Seq(Brackets), NEW c
    PROVE  /\ After(b, c) \in Seq(Brackets)
           /\ c \in Brackets => After(b, c) = Append(b, c)
           /\ c \in {"}", "]"} => After(b, c) = SubSeq(b, 1, Len(b) - 1)
           /\ c \notin {"{", "[", "}", "]"} => After(b, c) = b
<1>1. CASE c \in {"{", "["}
  <2>1. After(b, c) = Append(b, c)
    BY <1>1 DEF After
  <2>2. c \in Brackets
    BY <1>1 DEF Brackets
  <2>3. Append(b, c) \in Seq(Brackets)
    BY <2>2, AppendProperties
  <2>. QED BY <1>1, <2>1, <2>3 DEF Brackets
<1>2. CASE c \in {"}", "]"}
  <2>1. After(b, c) = SubSeq(b, 1, Len(b) - 1)
    BY <1>2 DEF After
  <2>2. SubSeq(b, 1, Len(b) - 1) \in Seq(Brackets)
    OBVIOUS
  <2>. QED BY <1>2, <2>1, <2>2 DEF Brackets
<1>3. CASE c \notin {"{", "[", "}", "]"}
  BY <1>3 DEF After, Brackets
<1>. QED BY <1>1, <1>2, <1>3

\* The containers open after k tokens of s.
Grows(f, s) ==
    f \in [0 .. Len(s) -> Seq(Brackets)] /\ f[0] = <<>> /\ \A k \in 1 .. Len(s) : f[k] = After(f[k - 1], s[k])

LEMMA UnclosedGrows ==
    ASSUME NEW s \in Seq(Chars)
    PROVE  \E f : Grows(f, s) /\ Unclosed(s) = f[Len(s)]
<1>1. PICK n \in Nat : n = Len(s)
  OBVIOUS
<1>. DEFINE add == [q \in (1 .. n) \X Seq(Brackets) |-> After(q[2], s[q[1]])]
            Is(f) == f = [k \in 0 .. Len(s) |-> IF k = 0 THEN <<>> ELSE After(f[k - 1], s[k])]
<1>2. ASSUME NEW k \in 1 .. n, NEW b \in Seq(Brackets)
      PROVE  add[<<k, b>>] = After(b, s[k]) /\ After(b, s[k]) \in Seq(Brackets)
  BY AfterIs
<1>3. StaysIn(add, Seq(Brackets), n)
  BY <1>2 DEF StaysIn
<1>. HIDE DEF add
<1>4. <<>> \in Seq(Brackets)
  OBVIOUS
<1>5. PICK f : Unfolds(f, Seq(Brackets), n, <<>>, add)
  BY <1>3, <1>4, RecursionExists
<1>6. f \in [0 .. n -> Seq(Brackets)] /\ f[0] = <<>> /\ \A k \in 1 .. n : f[k] = After(f[k - 1], s[k])
  <2>1. f \in [0 .. n -> Seq(Brackets)] /\ f[0] = <<>> /\ \A k \in 1 .. n : f[k] = add[<<k, f[k - 1]>>]
    BY <1>5 DEF Unfolds
  <2>2. \A k \in 1 .. n : f[k - 1] \in Seq(Brackets)
    BY <2>1
  <2>. QED BY <1>2, <2>1, <2>2
<1>7. Is(f)
  <2>1. \A k \in 0 .. n : f[k] = IF k = 0 THEN <<>> ELSE After(f[k - 1], s[k])
    <3>. TAKE k \in 0 .. n
    <3>1. CASE k = 0
      BY <1>6, <3>1
    <3>2. CASE k # 0
      <4>1. k \in 1 .. n
        BY <3>2
      <4>. QED BY <1>6, <3>2, <4>1, Zenon
    <3>. QED BY <3>1, <3>2
  <2>2. DOMAIN f = 0 .. n
    BY <1>6
  <2>. QED BY <1>1, <1>6, <2>1, <2>2
<1>. DEFINE g == CHOOSE e : Is(e)
<1>8. Is(g)
  BY <1>7, Zenon
<1>9. Unclosed(s) = g[n]
  BY <1>1, Zenon DEF Unclosed, After
<1>. HIDE DEF g
<1>10. g[0] = <<>> /\ \A k \in 1 .. n : g[k] = After(g[k - 1], s[k])
  <2>1. \A k \in 0 .. n : g[k] = IF k = 0 THEN <<>> ELSE After(g[k - 1], s[k])
    BY <1>1, <1>8, Zenon
  <2>2. 0 \in 0 .. n /\ \A k \in 1 .. n : k \in 0 .. n /\ k # 0
    OBVIOUS
  <2>3. g[0] = <<>>
    BY <2>1, <2>2, Zenon
  <2>4. ASSUME NEW k \in 1 .. n PROVE g[k] = After(g[k - 1], s[k])
    <3>1. k \in 0 .. n /\ k # 0
      OBVIOUS
    <3>. QED BY <2>1, <3>1, Zenon
  <2>. QED BY <2>3, <2>4
<1>. HIDE DEF Is
<1>. DEFINE T == {k \in Nat : k <= n => g[k] = f[k]}
<1>11. 0 \in T
  BY <1>6, <1>10
<1>12. ASSUME NEW k \in Nat, k \in T PROVE k + 1 \in T
  <2>. SUFFICES ASSUME k + 1 <= n PROVE g[k + 1] = f[k + 1]
    OBVIOUS
  <2>1. k + 1 \in 1 .. n /\ (k + 1) - 1 = k /\ g[k] = f[k]
    BY <1>12
  <2>. QED BY <1>6, <1>10, <2>1
<1>. HIDE DEF T
<1>13. n \in T
  BY <1>11, <1>12, SetInduction
<1>14. Unclosed(s) = f[n]
  BY <1>9, <1>13 DEF T
<1>. QED BY <1>1, <1>6, <1>14 DEF Grows

LEMMA UnclosedNext ==
    /\ Unclosed(<<>>) = <<>>
    /\ \A s \in Seq(Chars) : Unclosed(s) \in Seq(Brackets)
    /\ \A s \in Seq(Chars), c \in Chars : Unclosed(Append(s, c)) = After(Unclosed(s), c)
<1>1. Unclosed(<<>>) = <<>>
  <2>1. <<>> \in Seq(Chars) /\ Len(<<>>) = 0
    OBVIOUS
  <2>2. PICK f : Grows(f, <<>>) /\ Unclosed(<<>>) = f[Len(<<>>)]
    BY <2>1, UnclosedGrows
  <2>. QED BY <2>1, <2>2 DEF Grows
<1>2. ASSUME NEW s \in Seq(Chars) PROVE Unclosed(s) \in Seq(Brackets)
  <2>1. PICK f : Grows(f, s) /\ Unclosed(s) = f[Len(s)]
    BY UnclosedGrows
  <2>2. Len(s) \in 0 .. Len(s)
    OBVIOUS
  <2>. QED BY <2>1, <2>2 DEF Grows
<1>3. ASSUME NEW s \in Seq(Chars), NEW c \in Chars PROVE Unclosed(Append(s, c)) = After(Unclosed(s), c)
  <2>1. PICK n \in Nat : n = Len(s)
    OBVIOUS
  <2>2. PICK t \in Seq(Chars) : t = Append(s, c) /\ Len(t) = n + 1 /\ t[n + 1] = c /\ \A k \in 1 .. n : t[k] = s[k]
    <3>. DEFINE t == Append(s, c)
    <3>1. t \in Seq(Chars) /\ Len(t) = n + 1 /\ t[n + 1] = c
      BY <2>1, AppendProperties
    <3>2. ASSUME NEW k \in 1 .. n PROVE t[k] = s[k]
      BY <2>1, AppendProperties
    <3>. HIDE DEF t
    <3>. QED BY <3>1, <3>2 DEF t
  <2>3. PICK f : Grows(f, s) /\ Unclosed(s) = f[Len(s)]
    BY UnclosedGrows
  <2>4. PICK g : Grows(g, t) /\ Unclosed(t) = g[Len(t)]
    BY UnclosedGrows
  <2>5. f[0] = <<>> /\ \A k \in 1 .. n : f[k] = After(f[k - 1], s[k])
    BY <2>1, <2>3 DEF Grows
  <2>6. g[0] = <<>> /\ \A k \in 1 .. n + 1 : g[k] = After(g[k - 1], t[k])
    BY <2>2, <2>4 DEF Grows
  <2>. DEFINE T == {k \in Nat : k <= n => g[k] = f[k]}
  <2>7. 0 \in T
    BY <2>5, <2>6
  <2>8. ASSUME NEW k \in Nat, k \in T PROVE k + 1 \in T
    <3>. SUFFICES ASSUME k + 1 <= n PROVE g[k + 1] = f[k + 1]
      OBVIOUS
    <3>1. k + 1 \in 1 .. n /\ k + 1 \in 1 .. n + 1 /\ (k + 1) - 1 = k /\ g[k] = f[k]
      BY <2>8
    <3>2. f[k + 1] = After(f[k], s[k + 1])
      BY <2>5, <3>1
    <3>3. g[k + 1] = After(g[k], t[k + 1])
      BY <2>6, <3>1
    <3>. QED BY <2>2, <3>1, <3>2, <3>3
  <2>. HIDE DEF T
  <2>9. n \in T
    BY <2>7, <2>8, SetInduction
  <2>10. g[n] = f[n]
    BY <2>9 DEF T
  <2>11. g[n + 1] = After(g[n], c)
    <3>1. n + 1 \in 1 .. n + 1 /\ (n + 1) - 1 = n
      OBVIOUS
    <3>. QED BY <2>2, <2>6, <3>1
  <2>. QED BY <2>1, <2>2, <2>3, <2>4, <2>10, <2>11
<1>. QED BY <1>1, <1>2, <1>3

-----------------------------------------------------------------------------
(* The walk from token to token.                                           *)

\* No number goes on at r.
Resumes(r) == r \in Significant /\ r > 0 /\ Char(r) = "d" => Char(r - 1) # "d"

LEMMA SignificantIs ==
    ASSUME JsonArgs
    PROVE  /\ Significant \subseteq 0 .. Size - 1
           /\ \A p \in 0 .. Size - 1 : p \in Significant <=> p \notin StringBytes /\ Char(p) \notin Space
           /\ TokenPlaces \subseteq Significant
           /\ \A p \in Significant : p \in TokenPlaces <=> ~(Char(p) = "d" /\ p > 0 /\ Char(p - 1) = "d")
BY DEF Significant, TokenPlaces

\* A digit before a digit that counts does so too.
LEMMA DigitBefore ==
    ASSUME JsonArgs, NEW p \in Nat, p >= 1, p \in Significant, Char(p) = "d", Char(p - 1) = "d"
    PROVE  p - 1 \in Significant
<1>1. PICK l \in Nat : l = Size
  BY TextIs
<1>2. p \in 0 .. l - 1 /\ p \notin StringBytes /\ p - 1 \in 0 .. l - 1
  BY <1>1, SignificantIs
<1>3. p \notin Quotes
  BY <1>1, <1>2, StringNext
<1>4. p - 1 \notin StringBytes
  BY <1>1, <1>2, <1>3, StringNext
<1>5. Char(p - 1) \notin Space
  BY DEF Space
<1>. QED BY <1>1, <1>2, <1>4, <1>5, SignificantIs

\* What has nothing significant in it adds no tokens.
LEMMA Advance ==
    ASSUME JsonArgs, NEW p \in Nat, NEW q \in Nat, p <= q, \A y \in p .. q - 1 : y \notin Significant, Resumes(p)
    PROVE  TokensBelow(q) = TokensBelow(p) /\ Resumes(q)
<1>1. \A y \in p .. q - 1 : y \notin TokenPlaces
  BY SignificantIs
<1>2. TokensBelow(q) = TokensBelow(p)
  BY <1>1, NoTokens
<1>3. Resumes(q)
  <2>1. CASE p = q
    BY <2>1
  <2>2. CASE p # q
    <3>. SUFFICES ASSUME q \in Significant, q > 0, Char(q) = "d", Char(q - 1) = "d" PROVE FALSE
      BY DEF Resumes
    <3>1. q - 1 \in Significant
      BY DigitBefore
    <3>2. q - 1 \in p .. q - 1
      BY <2>2
    <3>. QED BY <3>1, <3>2
  <2>. QED BY <2>1, <2>2
<1>. QED BY <1>2, <1>3

LEMMA TokenTaken ==
    ASSUME JsonArgs, NEW y \in Significant, Resumes(y)
    PROVE  /\ y \in 0 .. Size - 1 /\ Char(y) \in Chars
           /\ TokensBelow(y + 1) = Append(TokensBelow(y), Char(y))
           /\ Char(y) # "d" => Resumes(y + 1)
<1>1. PICK l \in Nat : l = Size /\ y \in 0 .. l - 1
  BY TextIs, SignificantIs
<1>2. y \in TokenPlaces
  BY <1>1, SignificantIs DEF Resumes
<1>3. Char(y) \in Chars
  BY <1>1, TextIs
<1>4. TokensBelow(y + 1) = Append(TokensBelow(y), Char(y))
  <2>1. y \in Nat /\ y < Size
    BY <1>1
  <2>. QED BY <1>2, <2>1, TokensNext
<1>5. Char(y) # "d" => Resumes(y + 1)
  <2>1. (y + 1) - 1 = y
    BY <1>1
  <2>. QED BY <2>1 DEF Resumes
<1>. QED BY <1>1, <1>3, <1>4, <1>5

LEMMA NumberTaken ==
    ASSUME JsonArgs, NEW y \in Significant, Resumes(y), NEW e \in y + 1 .. Size,
           \A p \in y .. e - 1 : Char(p) = "d", e < Size => Char(e) # "d"
    PROVE  /\ TokensBelow(e) = Append(TokensBelow(y), "d") /\ Resumes(e)
           /\ \A p \in y .. e - 1 : p \notin StringBytes
           /\ \A p \in y + 1 .. e : ~EscapedAt(p) /\ p \notin EscapeTargets
<1>1. PICK l \in Nat : l = Size /\ y \in 0 .. l - 1
  BY TextIs, SignificantIs
<1>2. e \in Nat /\ y + 1 <= e /\ e <= l /\ y \in Nat /\ y + 1 \in Nat
  BY <1>1
<1>3. TokensBelow(y + 1) = Append(TokensBelow(y), "d")
  <2>1. y \in y .. e - 1
    BY <1>1, <1>2
  <2>2. Char(y) = "d"
    BY <2>1
  <2>. QED BY <2>2, TokenTaken
<1>4. ASSUME NEW p \in y + 1 .. e - 1 PROVE p \notin TokenPlaces
  <2>1. p \in y .. e - 1 /\ p - 1 \in y .. e - 1 /\ p > 0
    BY <1>1, <1>2
  <2>2. Char(p) = "d" /\ Char(p - 1) = "d"
    BY <2>1
  <2>. QED BY <2>1, <2>2 DEF TokenPlaces
<1>5. TokensBelow(e) = TokensBelow(y + 1)
  BY <1>2, <1>4, NoTokens
<1>6. Resumes(e)
  <2>1. e \in Significant => e < l
    BY <1>1, <1>2, SignificantIs
  <2>. QED BY <1>1, <2>1 DEF Resumes
<1>. DEFINE S == {d \in Nat : y + d <= e - 1 => y + d \notin StringBytes}
<1>7. 0 \in S
  BY <1>1, <1>2, SignificantIs
<1>8. ASSUME NEW d \in Nat, d \in S PROVE d + 1 \in S
  <2>. SUFFICES ASSUME y + (d + 1) <= e - 1 PROVE y + (d + 1) \notin StringBytes
    OBVIOUS
  <2>1. PICK p \in 0 .. l - 1 : p = y + (d + 1) /\ p - 1 = y + d /\ p \in y .. e - 1
    BY <1>1, <1>2
  <2>2. Char(p) = "d"
    BY <2>1
  <2>3. p \notin Quotes
    BY <1>1, <2>1, <2>2, StringNext
  <2>4. p - 1 \notin StringBytes
    BY <1>2, <1>8, <2>1
  <2>5. p \notin StringBytes
    BY <1>1, <2>1, <2>3, <2>4, StringNext
  <2>. QED BY <2>1, <2>5
<1>. HIDE DEF S
<1>9. \A d \in Nat : d \in S
  BY <1>7, <1>8, SetInduction
<1>10. ASSUME NEW p \in y .. e - 1 PROVE p \notin StringBytes
  <2>1. PICK d \in Nat : y + d = p
    <3>1. p - y \in Nat /\ y + (p - y) = p
      BY <1>2
    <3>. QED BY <3>1
  <2>2. p <= e - 1
    BY <1>2
  <2>. QED BY <1>9, <2>1, <2>2 DEF S
<1>11. ASSUME NEW p \in y + 1 .. e PROVE ~EscapedAt(p) /\ p \notin EscapeTargets
  <2>1. PICK q \in Nat : q + 1 = p /\ q = p - 1 /\ q \in y .. e - 1 /\ q < l
    BY <1>1, <1>2
  <2>2. Char(q) = "d"
    BY <2>1
  <2>3. ~EscapedAt(q + 1)
    BY <1>1, <2>1, <2>2, EscapedNext
  <2>4. p \notin EscapeTargets
    BY <2>1, <2>2 DEF EscapeTargets
  <2>. QED BY <2>1, <2>3, <2>4
<1>. QED BY <1>3, <1>5, <1>6, <1>10, <1>11

LEMMA NumberEndIs ==
    ASSUME JsonArgs, NEW y \in Nat, y = Base + FirstPlace, y < Size, Char(y) = "d"
    PROVE  /\ NumberEnd \in y + 1 .. Size
           /\ \A p \in y .. NumberEnd - 1 : Char(p) = "d"
           /\ NumberEnd < Size => Char(NumberEnd) # "d"
<1>1. PICK l \in Nat : l = Size
  BY TextIs
<1>. DEFINE T == {e \in y + 1 .. l : e = l \/ Char(e) # "d"}
<1>2. l \in T /\ T \subseteq Nat
  BY <1>1
<1>3. PICK e \in T : \A x \in T : e <= x
  BY <1>2, LeastNatural
<1>4. e \in y + 1 .. Size /\ (e < Size => Char(e) # "d")
  BY <1>1, <1>3
<1>5. ASSUME NEW p \in y .. e - 1 PROVE Char(p) = "d"
  <2>1. CASE p = y
    BY <2>1
  <2>2. CASE p # y
    <3>1. p \in y + 1 .. l /\ p # l /\ ~(e <= p)
      BY <1>1, <1>4, <2>2
    <3>. QED BY <1>3, <3>1
  <2>. QED BY <2>1, <2>2
<1>. HIDE DEF T
<1>6. \E n \in Base + FirstPlace + 1 .. Size :
         /\ \A p \in Base + FirstPlace .. n - 1 : Char(p) = "d"
         /\ n < Size => Char(n) # "d"
  BY <1>4, <1>5
<1>7. /\ NumberEnd \in Base + FirstPlace + 1 .. Size
      /\ \A p \in Base + FirstPlace .. NumberEnd - 1 : Char(p) = "d"
      /\ NumberEnd < Size => Char(NumberEnd) # "d"
  BY <1>6, Zenon DEF NumberEnd
<1>. QED BY <1>7

-----------------------------------------------------------------------------
(* Levels: a word and a stack of words hold the kinds of the containers.   *)

\* The kind of level k among d of them, in the word v and the words s below it.
KindIn(s, v, d, k) ==
    LET word == (k - 1) \div LevelBits
        place == (k - 1) % LevelBits
        bit == IF word < Len(s)
               THEN (s[word + 1] \div Weight[LevelBits - 1 - place]) % 2
               ELSE (v \div Weight[((d - 1) % LevelBits) - place]) % 2
    IN IF bit = 1 THEN "{" ELSE "["

\* s and v hold the kinds of the containers in open.
Hold(s, v, d, open) ==
    /\ d = Len(open)
    /\ \A k \in 1 .. d : KindIn(s, v, d, k) = open[k]
    /\ Len(s) = IF d = 0 THEN 0 ELSE (d - 1) \div LevelBits

\* Halving a number drops its last bit, and doubling it brings one in.
LEMMA Halved ==
    ASSUME NEW v \in Nat, NEW x \in Nat, x < LevelBits
    PROVE  ((v \div 2) \div Weight[x]) % 2 = (v \div Weight[x + 1]) % 2
<1>1. PICK w \in Nat : w = Weight[x] /\ w >= 1 /\ Weight[x + 1] = 2 * w
  <2>1. x \in 0 .. BlockBits + LevelBits /\ x + 1 \in 1 .. BlockBits + LevelBits /\ (x + 1) - 1 = x
    BY BitsAre
  <2>2. Weight[x] \in Nat /\ Weight[x] >= 1 /\ Weight[x + 1] = 2 * Weight[x]
    BY <2>1, BitWeights
  <2>. QED BY <2>2
<1>2. PICK high \in Nat, b \in {0, 1} : v = 2 * high + b /\ v \div 2 = high
  <2>1. v \div 2 \in Nat /\ v % 2 \in {0, 1} /\ v = 2 * (v \div 2) + (v % 2)
    OBVIOUS
  <2>. QED BY <2>1
<1>3. PICK q \in Nat, r \in Nat : high \div w = q /\ high = q * w + r /\ r < w
  <2>1. high \div w \in Nat /\ high % w \in Nat /\ high % w < w /\ high = (high \div w) * w + (high % w)
    BY <1>1, DivMod
  <2>. QED BY <2>1
<1>4. v \div (2 * w) = q
  <2>1. v = q * (2 * w) + (2 * r + b)
    BY <1>2, <1>3
  <2>2. 2 * r + b \in Nat /\ 2 * w \in Nat /\ 2 * r + b < 2 * w
    BY <1>3
  <2>. QED BY <2>1, <2>2, DivModOf
<1>. QED BY <1>1, <1>2, <1>3, <1>4

\* The bits of a word that another has been shifted into: the new one, and those that were there.
LEMMA Doubled ==
    ASSUME NEW v \in Nat, NEW b \in {0, 1}
    PROVE  LET u == (2 * v + b) % Weight[LevelBits]
           IN /\ u \in Nat /\ (u \div Weight[0]) % 2 = b
              /\ \A x \in Nat : x + 1 < LevelBits => (u \div Weight[x + 1]) % 2 = (v \div Weight[x]) % 2
<1>. DEFINE u == (2 * v + b) % Weight[LevelBits]
<1>1. PICK W \in Nat, L \in Nat : W = Weight[LevelBits] /\ W >= 1 /\ L = LevelBits /\ L >= 1
  <2>1. LevelBits \in 0 .. BlockBits + LevelBits
    BY BitsAre
  <2>. QED BY <2>1, BitsAre, BitWeights
<1>2. PICK n \in Nat : n = 2 * v + b
  OBVIOUS
<1>3. PICK t \in Nat : u \in Nat /\ n = t * W + u
  <2>1. n \div W \in Nat /\ n % W \in Nat /\ n = (n \div W) * W + (n % W)
    BY <1>1, DivMod
  <2>. QED BY <1>1, <1>2, <2>1
<1>. HIDE DEF u
\* The bits of u below the top are those of n.
<1>4. ASSUME NEW x \in Nat, x < L PROVE (u \div Weight[x]) % 2 = (n \div Weight[x]) % 2
  <2>1. PICK w \in Nat : w = Weight[x] /\ w >= 1 /\ Weight[x + 1] = 2 * w
    <3>1. x \in 0 .. BlockBits + LevelBits /\ x + 1 \in 1 .. BlockBits + LevelBits /\ (x + 1) - 1 = x
      BY <1>1, <1>4, BitsAre
    <3>2. Weight[x] \in Nat /\ Weight[x] >= 1 /\ Weight[x + 1] = 2 * Weight[x]
      BY <3>1, BitWeights
    <3>. QED BY <3>2
  <2>2. PICK m \in Nat : W = m * (2 * w)
    <3>1. PICK z \in Nat, d \in Nat : z = x + 1 /\ z + d = L
      <4>1. x + 1 \in Nat /\ L - (x + 1) \in Nat /\ (x + 1) + (L - (x + 1)) = L
        BY <1>4
      <4>. QED BY <4>1
    <3>2. \E m \in Nat : m >= 1 /\ Weight[z + d] = m * Weight[z]
      <4>1. z + d <= BlockBits + LevelBits
        BY <1>1, <3>1, BitsAre
      <4>. QED BY <4>1, WeightsDivide
    <3>. QED BY <1>1, <2>1, <3>1, <3>2
  <2>3. PICK q \in Nat, r \in Nat : u \div w = q /\ u = q * w + r /\ r < w
    <3>1. u \div w \in Nat /\ u % w \in Nat /\ u % w < w /\ u = (u \div w) * w + (u % w)
      BY <1>3, <2>1, DivMod
    <3>. QED BY <3>1
  <2>4. PICK p \in Nat : p = t * m
    OBVIOUS
  <2>5. n = (2 * p + q) * w + r
    <3>1. n = t * (m * (2 * w)) + (q * w + r)
      BY <1>3, <2>2, <2>3
    <3>2. t * (m * (2 * w)) = (2 * (t * m)) * w
      OBVIOUS
    <3>3. (2 * p) * w + (q * w + r) = (2 * p + q) * w + r
      OBVIOUS
    <3>. QED BY <2>4, <3>1, <3>2, <3>3
  <2>6. n \div w = 2 * p + q
    <3>1. PICK z \in Nat : z = 2 * p + q
      OBVIOUS
    <3>2. n = z * w + r /\ r < w
      BY <2>3, <2>5, <3>1
    <3>3. n \div w = z
      BY <3>2, DivModOf
    <3>. QED BY <3>1, <3>3
  <2>. QED BY <2>1, <2>3, <2>6
<1>5. (u \div Weight[0]) % 2 = b
  <2>1. Weight[0] = 1 /\ n \div 1 = n /\ n % 2 = b
    BY <1>2, BitWeights
  <2>. QED BY <1>1, <1>4, <2>1
<1>6. ASSUME NEW x \in Nat, x + 1 < LevelBits PROVE (u \div Weight[x + 1]) % 2 = (v \div Weight[x]) % 2
  <2>1. n \div 2 = v
    BY <1>2
  <2>2. ((n \div 2) \div Weight[x]) % 2 = (n \div Weight[x + 1]) % 2
    <3>1. x < LevelBits
      BY <1>1, <1>6
    <3>. QED BY <3>1, Halved
  <2>3. (u \div Weight[x + 1]) % 2 = (n \div Weight[x + 1]) % 2
    BY <1>1, <1>4, <1>6
  <2>. QED BY <2>1, <2>2, <2>3
<1>. QED BY <1>3, <1>5, <1>6 DEF u

\* Of d levels, the last is the one at r in word q.
Last(d, L, q, r) ==
    /\ q = (d - 1) \div L /\ r = (d - 1) % L
    /\ IF d % L = 0 THEN r = L - 1 /\ d \div L = q + 1 ELSE r + 1 < L /\ d \div L = q /\ d % L = r + 1
    /\ \A k \in 1 .. d : /\ (k - 1) \div L \in 0 .. q /\ (k - 1) % L \in 0 .. L - 1
                         /\ (k - 1) \div L = q => (k - 1) % L <= r

LEMMA LevelPlace ==
    ASSUME NEW d \in Nat, d >= 1, NEW L \in Nat, L = LevelBits
    PROVE  \E q \in Nat, r \in 0 .. L - 1 : Last(d, L, q, r)
<1>1. L >= 1
  BY BitsAre
<1>2. PICK m \in Nat : m = d - 1
  OBVIOUS
<1>3. PICK q \in Nat, r \in Nat : q = m \div L /\ r = m % L /\ m = q * L + r /\ r < L
  <2>1. m \div L \in Nat /\ m % L \in Nat /\ m % L < L /\ m = (m \div L) * L + (m % L)
    BY <1>1, DivMod
  <2>. QED BY <2>1
<1>4. IF d % L = 0 THEN r = L - 1 /\ d \div L = q + 1 ELSE r + 1 < L /\ d \div L = q /\ d % L = r + 1
  <2>1. CASE r = L - 1
    <3>1. PICK p \in Nat : p = q + 1
      OBVIOUS
    <3>2. (q + 1) * L = q * L + L
      OBVIOUS
    <3>3. d = p * L + 0 /\ 0 < L
      BY <1>1, <1>2, <1>3, <2>1, <3>1, <3>2
    <3>4. d \div L = p /\ d % L = 0
      BY <3>3, DivModOf
    <3>. QED BY <2>1, <3>1, <3>4
  <2>2. CASE r # L - 1
    <3>1. PICK t \in Nat : t = r + 1 /\ t < L
      BY <1>3, <2>2
    <3>2. d = q * L + t /\ t < L
      BY <1>2, <1>3, <3>1
    <3>3. d \div L = q /\ d % L = t
      BY <3>2, DivModOf
    <3>. QED BY <1>3, <3>1, <3>3
  <2>. QED BY <2>1, <2>2
<1>5. ASSUME NEW k \in 1 .. d
      PROVE  /\ (k - 1) \div L \in 0 .. q /\ (k - 1) % L \in 0 .. L - 1
             /\ (k - 1) \div L = q => (k - 1) % L <= r
  <2>1. PICK j \in Nat : j = k - 1 /\ j <= m
    BY <1>2
  <2>2. PICK w \in Nat, p \in Nat : w = j \div L /\ p = j % L /\ j = w * L + p /\ p < L
    <3>1. j \div L \in Nat /\ j % L \in Nat /\ j % L < L /\ j = (j \div L) * L + (j % L)
      BY <1>1, DivMod
    <3>. QED BY <3>1
  <2>3. ~(q + 1 <= w)
    <3>. SUFFICES ASSUME q + 1 <= w PROVE FALSE
      OBVIOUS
    <3>1. PICK z \in Nat : w = q + 1 + z
      <4>1. w - (q + 1) \in Nat /\ w = q + 1 + (w - (q + 1))
        OBVIOUS
      <4>. QED BY <4>1
    <3>2. (q + 1 + z) * L = q * L + L + z * L /\ z * L \in Nat
      BY <1>1
    <3>. QED BY <1>3, <2>1, <2>2, <3>1, <3>2
  <2>4. w \in 0 .. q /\ p \in 0 .. L - 1
    BY <2>2, <2>3
  <2>5. w = q => p <= r
    BY <1>3, <2>1, <2>2
  <2>. QED BY <2>1, <2>2, <2>4, <2>5
<1>6. r \in 0 .. L - 1 /\ q = (d - 1) \div L /\ r = (d - 1) % L
  BY <1>1, <1>2, <1>3
<1>7. Last(d, L, q, r)
  BY <1>4, <1>5, <1>6 DEF Last
<1>. QED BY <1>6, <1>7

\* The bit of level k decides its kind.
LEMMA KindIs ==
    ASSUME NEW s, NEW v, NEW d, NEW k
    PROVE  LET word == (k - 1) \div LevelBits
               place == (k - 1) % LevelBits
           IN /\ word < Len(s) => KindIn(s, v, d, k) = IF (s[word + 1] \div Weight[LevelBits - 1 - place]) % 2 = 1
                                                       THEN "{" ELSE "["
              /\ ~(word < Len(s)) => KindIn(s, v, d, k) = IF (v \div Weight[((d - 1) % LevelBits) - place]) % 2 = 1
                                                          THEN "{" ELSE "["
BY Zenon DEF KindIn

\* A container more.
LEMMA PushHolds ==
    ASSUME NEW s \in Seq(Nat), NEW v \in Nat, NEW d \in Nat, NEW open \in Seq(Brackets), NEW c \in Brackets,
           Hold(s, v, d, open)
    PROVE  LET full == d % LevelBits = 0 /\ d > 0
               s2 == IF full THEN Append(s, v) ELSE s
               v2 == (2 * v + IF c = "{" THEN 1 ELSE 0) % Weight[LevelBits]
           IN s2 \in Seq(Nat) /\ v2 \in Nat /\ Hold(s2, v2, d + 1, Append(open, c))
<1>1. PICK b \in {0, 1} : b = (IF c = "{" THEN 1 ELSE 0) /\ c = IF b = 1 THEN "{" ELSE "["
  <2>1. CASE c = "{"
    BY <2>1
  <2>2. CASE c # "{"
    <3>1. c = "["
      BY <2>2 DEF Brackets
    <3>2. 0 \in {0, 1} /\ 0 = (IF c = "{" THEN 1 ELSE 0) /\ c = IF 0 = 1 THEN "{" ELSE "["
      BY <2>2, <3>1
    <3>. QED BY <3>2, Zenon
  <2>. QED BY <2>1, <2>2
<1>. DEFINE full == d % LevelBits = 0 /\ d > 0
            s2 == IF full THEN Append(s, v) ELSE s
            u == (2 * v + b) % Weight[LevelBits]
            more == Append(open, c)
<1>2. PICK L \in Nat : L = LevelBits /\ L >= 1
  BY BitsAre
<1>3. /\ u \in Nat /\ (u \div Weight[0]) % 2 = b
      /\ \A x \in Nat : x + 1 < L => (u \div Weight[x + 1]) % 2 = (v \div Weight[x]) % 2
  <2>1. /\ u \in Nat /\ (u \div Weight[0]) % 2 = b
        /\ \A x \in Nat : x + 1 < LevelBits => (u \div Weight[x + 1]) % 2 = (v \div Weight[x]) % 2
    BY Doubled, Zenon
  <2>. QED BY <1>2, <2>1
<1>. HIDE DEF u
<1>4. Len(more) = d + 1 /\ more[d + 1] = c /\ \A k \in 1 .. d : more[k] = open[k]
  BY AppendProperties DEF Hold
<1>. HIDE DEF more
<1>5. Len(s) \in Nat /\ Len(s) = IF d = 0 THEN 0 ELSE (d - 1) \div L
  BY <1>2 DEF Hold
<1>6. s2 \in Seq(Nat) /\ Len(s2) = (IF full THEN Len(s) + 1 ELSE Len(s)) /\ (full => s2[Len(s) + 1] = v)
      /\ \A x \in 1 .. Len(s) : s2[x] = s[x]
  BY AppendProperties
<1>. HIDE DEF s2
\* The level that is new is the last bit of the word.
<1>7. ASSUME d \div L = Len(s2) PROVE KindIn(s2, u, d + 1, d + 1) = c
  <2>1. (d + 1) - 1 = d /\ (d % L) - (d % L) = 0
    BY <1>2
  <2>2. ~(((d + 1) - 1) \div LevelBits < Len(s2))
    BY <1>2, <1>5, <1>6, <1>7, <2>1
  <2>3. KindIn(s2, u, d + 1, d + 1) = IF (u \div Weight[(((d + 1) - 1) % LevelBits) - (((d + 1) - 1) % LevelBits)]) % 2 = 1
                                      THEN "{" ELSE "["
    BY <2>2, KindIs
  <2>. QED BY <1>1, <1>2, <1>3, <2>1, <2>3
<1>8. CASE d = 0
  <2>1. d \div L = 0 /\ ~full /\ Len(s2) = 0
    BY <1>2, <1>5, <1>6, <1>8
  <2>2. KindIn(s2, u, d + 1, d + 1) = more[d + 1]
    BY <1>4, <1>7, <2>1
  <2>3. Hold(s2, u, d + 1, more)
    <3>1. \A k \in 1 .. d + 1 : k = d + 1
      BY <1>8
    <3>2. (d + 1) - 1 = d /\ d + 1 # 0
      OBVIOUS
    <3>. QED BY <1>2, <1>4, <2>1, <2>2, <3>1, <3>2 DEF Hold
  <2>. QED BY <1>1, <1>3, <1>6, <2>3 DEF u, s2, more
<1>9. CASE d > 0
  <2>0. PICK q \in Nat, r \in 0 .. L - 1 : Last(d, L, q, r)
    <3>1. d >= 1
      BY <1>9
    <3>2. L \in Nat /\ L = LevelBits
      BY <1>2
    <3>. QED BY <3>1, <3>2, LevelPlace
  <2>1. /\ q = (d - 1) \div L /\ r = (d - 1) % L
        /\ IF d % L = 0 THEN r = L - 1 /\ d \div L = q + 1 ELSE r + 1 < L /\ d \div L = q /\ d % L = r + 1
        /\ \A k \in 1 .. d : /\ (k - 1) \div L \in 0 .. q /\ (k - 1) % L \in 0 .. L - 1
                             /\ (k - 1) \div L = q => (k - 1) % L <= r
    BY <2>0 DEF Last
  <2>2. Len(s) = q /\ Len(s2) = d \div L
    BY <1>2, <1>5, <1>6, <1>9, <2>1
  <2>3. KindIn(s2, u, d + 1, d + 1) = more[d + 1]
    BY <1>4, <1>7, <2>2
  <2>4. ASSUME NEW k \in 1 .. d PROVE KindIn(s2, u, d + 1, k) = KindIn(s, v, d, k)
    <3>1. PICK w \in 0 .. q, p \in 0 .. L - 1 : w = (k - 1) \div L /\ p = (k - 1) % L /\ (w = q => p <= r)
      BY <2>1
    <3>2. CASE w < q
      <4>1. w < Len(s) /\ w < Len(s2) /\ s2[w + 1] = s[w + 1]
        BY <1>6, <2>1, <2>2, <3>2
      <4>. QED BY <1>2, <3>1, <4>1, KindIs
    <3>3. CASE w = q /\ full
      <4>1. ~(w < Len(s)) /\ w < Len(s2) /\ s2[w + 1] = v /\ L - 1 - p = ((d - 1) % L) - p
        BY <1>2, <1>6, <2>1, <2>2, <3>3
      <4>2. KindIn(s2, u, d + 1, k) = IF (v \div Weight[L - 1 - p]) % 2 = 1 THEN "{" ELSE "["
        BY <1>2, <3>1, <4>1, KindIs
      <4>3. KindIn(s, v, d, k) = IF (v \div Weight[((d - 1) % L) - p]) % 2 = 1 THEN "{" ELSE "["
        <5>1. ~((k - 1) \div LevelBits < Len(s))
          BY <1>2, <3>1, <4>1
        <5>2. KindIn(s, v, d, k) = IF (v \div Weight[((d - 1) % LevelBits) - ((k - 1) % LevelBits)]) % 2 = 1
                                   THEN "{" ELSE "["
          BY <5>1, KindIs, Zenon
        <5>3. ((d - 1) % LevelBits) - ((k - 1) % LevelBits) = ((d - 1) % L) - p
          BY <1>2, <3>1
        <5>. QED BY <5>2, <5>3, Zenon
      <4>. QED BY <4>1, <4>2, <4>3, Zenon
    <3>4. CASE w = q /\ ~full
      <4>1. ~(w < Len(s)) /\ ~(w < Len(s2)) /\ r + 1 < L /\ d % L = r + 1
        BY <1>2, <1>9, <2>1, <2>2, <3>4
      <4>2. PICK x \in Nat : x = r - p /\ x + 1 = (r + 1) - p /\ x + 1 < L
        <5>1. r - p \in Nat /\ (r - p) + 1 = (r + 1) - p /\ (r - p) + 1 < L
          BY <3>1, <3>4, <4>1
        <5>. QED BY <5>1
      <4>3. (u \div Weight[x + 1]) % 2 = (v \div Weight[x]) % 2
        BY <1>3, <4>2
      <4>4. ((d + 1) - 1) % L = r + 1
        BY <4>1
      <4>5. KindIn(s2, u, d + 1, k) = IF (u \div Weight[x + 1]) % 2 = 1 THEN "{" ELSE "["
        BY <1>2, <3>1, <4>1, <4>2, <4>4, KindIs
      <4>6. KindIn(s, v, d, k) = IF (v \div Weight[x]) % 2 = 1 THEN "{" ELSE "["
        BY <1>2, <2>1, <3>1, <4>1, <4>2, KindIs
      <4>7. CASE (v \div Weight[x]) % 2 = 1
        <5>1. (u \div Weight[x + 1]) % 2 = 1
          BY <4>3, <4>7
        <5>. QED BY <4>5, <4>6, <4>7, <5>1
      <4>8. CASE (v \div Weight[x]) % 2 # 1
        <5>1. (u \div Weight[x + 1]) % 2 # 1
          BY <4>3, <4>8
        <5>. QED BY <4>5, <4>6, <4>8, <5>1
      <4>. QED BY <4>7, <4>8
    <3>. QED BY <3>1, <3>2, <3>3, <3>4
  <2>5. Hold(s2, u, d + 1, more)
    <3>1. ASSUME NEW k \in 1 .. d + 1 PROVE KindIn(s2, u, d + 1, k) = more[k]
      <4>1. CASE k = d + 1
        BY <2>3, <4>1
      <4>2. CASE k # d + 1
        <5>1. k \in 1 .. d
          BY <4>2
        <5>2. KindIn(s, v, d, k) = open[k]
          BY <5>1 DEF Hold
        <5>. QED BY <1>4, <2>4, <5>1, <5>2
      <4>. QED BY <4>1, <4>2
    <3>2. (d + 1) - 1 = d /\ d + 1 # 0
      OBVIOUS
    <3>. QED BY <1>2, <1>4, <2>2, <3>1, <3>2 DEF Hold
  <2>. QED BY <1>1, <1>3, <1>6, <2>5 DEF u, s2, more
<1>10. d = 0 \/ d > 0
  OBVIOUS
<1>. QED BY <1>8, <1>9, <1>10, Zenon

\* A container less.
LEMMA PopHolds ==
    ASSUME NEW s \in Seq(Nat), NEW v \in Nat, NEW d \in Nat, NEW open \in Seq(Brackets), d > 0,
           Hold(s, v, d, open)
    PROVE  LET spilled == (d - 1) % LevelBits = 0 /\ d - 1 > 0
               s2 == IF spilled THEN SubSeq(s, 1, Len(s) - 1) ELSE s
               v2 == IF spilled THEN s[Len(s)] ELSE v \div 2
           IN /\ s2 \in Seq(Nat) /\ v2 \in Nat /\ Len(s2) <= Len(s)
              /\ Hold(s2, v2, d - 1, SubSeq(open, 1, Len(open) - 1))
<1>1. PICK e \in Nat : e = d - 1 /\ d = e + 1
  OBVIOUS
<1>. DEFINE spilled == e % LevelBits = 0 /\ e > 0
            s2 == IF spilled THEN SubSeq(s, 1, Len(s) - 1) ELSE s
            v2 == IF spilled THEN s[Len(s)] ELSE v \div 2
            less == SubSeq(open, 1, Len(open) - 1)
<1>2. PICK L \in Nat : L = LevelBits /\ L >= 1
  BY BitsAre
<1>3. Len(open) = e + 1
  BY <1>1 DEF Hold
<1>4. Len(less) = e /\ \A k \in 1 .. e : less[k] = open[k]
  BY <1>1, <1>3
<1>. HIDE DEF less
<1>5. Len(s) \in Nat /\ Len(s) = e \div L
  BY <1>1, <1>2 DEF Hold
<1>6. SUFFICES s2 \in Seq(Nat) /\ v2 \in Nat /\ Len(s2) <= Len(s) /\ Hold(s2, v2, e, less)
  BY <1>1, Zenon DEF less
<1>7. CASE e = 0
  <2>1. ~spilled /\ s2 = s /\ v2 = v \div 2 /\ v \div 2 \in Nat /\ Len(s) = 0
    BY <1>2, <1>5, <1>7
  <2>. HIDE DEF s2, v2
  <2>2. Hold(s2, v2, e, less)
    BY <1>4, <1>7, <2>1 DEF Hold
  <2>. QED BY <1>5, <2>1, <2>2
<1>8. CASE e > 0
  <2>0. PICK q \in Nat, r \in 0 .. L - 1 : Last(e, L, q, r)
    <3>1. e >= 1
      BY <1>8
    <3>2. L \in Nat /\ L = LevelBits
      BY <1>2
    <3>. QED BY <3>1, <3>2, LevelPlace
  <2>1. /\ q = (e - 1) \div L /\ r = (e - 1) % L
        /\ IF e % L = 0 THEN r = L - 1 /\ e \div L = q + 1 ELSE r + 1 < L /\ e \div L = q /\ e % L = r + 1
        /\ \A k \in 1 .. e : /\ (k - 1) \div L \in 0 .. q /\ (k - 1) % L \in 0 .. L - 1
                             /\ (k - 1) \div L = q => (k - 1) % L <= r
    BY <2>0 DEF Last
  <2>2. CASE spilled
    <3>1. Len(s) = q + 1 /\ r = L - 1
      BY <1>2, <1>5, <2>1, <2>2
    <3>2. s2 \in Seq(Nat) /\ Len(s2) = q /\ (\A x \in 1 .. q : s2[x] = s[x]) /\ v2 = s[q + 1] /\ v2 \in Nat
      BY <2>2, <3>1
    <3>. HIDE DEF s2, v2
    <3>3. ASSUME NEW k \in 1 .. e PROVE KindIn(s2, v2, e, k) = open[k]
      <4>1. PICK w \in 0 .. q, p \in 0 .. L - 1 : w = (k - 1) \div L /\ p = (k - 1) % L /\ (w = q => p <= r)
        BY <2>1
      <4>2. KindIn(s, v, d, k) = open[k]
        BY <1>1 DEF Hold
      <4>3. KindIn(s, v, d, k) = IF (s[w + 1] \div Weight[L - 1 - p]) % 2 = 1 THEN "{" ELSE "["
        <5>1. (k - 1) \div LevelBits < Len(s)
          BY <1>2, <3>1, <4>1
        <5>2. KindIn(s, v, d, k) =
                IF (s[((k - 1) \div LevelBits) + 1] \div Weight[LevelBits - 1 - ((k - 1) % LevelBits)]) % 2 = 1
                THEN "{" ELSE "["
          BY <5>1, KindIs, Zenon
        <5>3. ((k - 1) \div LevelBits) + 1 = w + 1 /\ LevelBits - 1 - ((k - 1) % LevelBits) = L - 1 - p
          BY <1>2, <4>1
        <5>. QED BY <5>2, <5>3, Zenon
      <4>4. CASE w < q
        <5>1. s2[w + 1] = s[w + 1] /\ w < Len(s2)
          BY <3>2, <4>4
        <5>2. KindIn(s2, v2, e, k) = IF (s2[w + 1] \div Weight[L - 1 - p]) % 2 = 1 THEN "{" ELSE "["
          BY <1>2, <4>1, <5>1, KindIs
        <5>. QED BY <4>2, <4>3, <5>1, <5>2, Zenon
      <4>5. CASE w = q
        <5>1. ~((k - 1) \div LevelBits < Len(s2))
          BY <1>2, <3>2, <4>1, <4>5
        <5>2. KindIn(s2, v2, e, k) = IF (v2 \div Weight[((e - 1) % LevelBits) - ((k - 1) % LevelBits)]) % 2 = 1
                                     THEN "{" ELSE "["
          BY <5>1, KindIs, Zenon
        <5>3. ((e - 1) % LevelBits) - ((k - 1) % LevelBits) = L - 1 - p /\ v2 = s[w + 1]
          BY <1>2, <2>1, <3>1, <3>2, <4>1, <4>5
        <5>. QED BY <4>2, <4>3, <5>2, <5>3, Zenon
      <4>. QED BY <4>1, <4>4, <4>5
    <3>4. Hold(s2, v2, e, less)
      <4>1. Len(s2) = IF e = 0 THEN 0 ELSE (e - 1) \div LevelBits
        BY <1>2, <1>8, <2>1, <3>2
      <4>2. e = Len(less) /\ \A k \in 1 .. e : KindIn(s2, v2, e, k) = less[k]
        BY <1>4, <3>3
      <4>. QED BY <4>1, <4>2 DEF Hold
    <3>. QED BY <3>1, <3>2, <3>4
  <2>3. CASE ~spilled
    <3>1. Len(s) = q /\ r + 1 < L /\ e % L = r + 1
      BY <1>2, <1>5, <1>8, <2>1, <2>3
    <3>2. s2 = s /\ v2 = v \div 2 /\ v \div 2 \in Nat
      BY <2>3
    <3>. HIDE DEF s2, v2
    <3>3. ASSUME NEW k \in 1 .. e PROVE KindIn(s2, v2, e, k) = open[k]
      <4>1. PICK w \in 0 .. q, p \in 0 .. L - 1 : w = (k - 1) \div L /\ p = (k - 1) % L /\ (w = q => p <= r)
        BY <2>1
      <4>2. KindIn(s, v, d, k) = open[k]
        BY <1>1 DEF Hold
      <4>3. CASE w < q
        <5>1. KindIn(s, v, d, k) = IF (s[w + 1] \div Weight[L - 1 - p]) % 2 = 1 THEN "{" ELSE "["
          BY <1>2, <3>1, <4>1, <4>3, KindIs
        <5>2. KindIn(s, v2, e, k) = IF (s[w + 1] \div Weight[L - 1 - p]) % 2 = 1 THEN "{" ELSE "["
          BY <1>2, <3>1, <4>1, <4>3, KindIs
        <5>. QED BY <3>2, <4>2, <5>1, <5>2, Zenon
      <4>4. CASE w = q
        <5>1. ~((k - 1) \div LevelBits < Len(s))
          BY <1>2, <3>1, <4>1, <4>4
        <5>2. /\ KindIn(s, v2, e, k) = IF (v2 \div Weight[((e - 1) % LevelBits) - ((k - 1) % LevelBits)]) % 2 = 1
                                       THEN "{" ELSE "["
              /\ KindIn(s, v, d, k) = IF (v \div Weight[((d - 1) % LevelBits) - ((k - 1) % LevelBits)]) % 2 = 1
                                      THEN "{" ELSE "["
          BY <5>1, KindIs, Zenon
        <5>3. PICK x \in Nat : x = r - p /\ x < L
          <6>1. r - p \in Nat /\ r - p < L
            BY <4>1, <4>4
          <6>. QED BY <6>1
        <5>4. ((e - 1) % LevelBits) - ((k - 1) % LevelBits) = x
          BY <1>2, <2>1, <4>1, <5>3
        <5>5. ((d - 1) % LevelBits) - ((k - 1) % LevelBits) = x + 1
          <6>1. (d - 1) % LevelBits = r + 1
            BY <1>1, <1>2, <3>1
          <6>2. (k - 1) % LevelBits = p
            BY <1>2, <4>1
          <6>. QED BY <4>1, <5>3, <6>1, <6>2
        <5>6. (v2 \div Weight[x]) % 2 = (v \div Weight[x + 1]) % 2
          BY <1>2, <3>2, <5>3, Halved
        <5>7. /\ KindIn(s, v2, e, k) = IF (v2 \div Weight[x]) % 2 = 1 THEN "{" ELSE "["
              /\ KindIn(s, v, d, k) = IF (v \div Weight[x + 1]) % 2 = 1 THEN "{" ELSE "["
          BY <5>2, <5>4, <5>5, Zenon
        <5>8. CASE (v \div Weight[x + 1]) % 2 = 1
          <6>1. (v2 \div Weight[x]) % 2 = 1
            BY <5>6, <5>8
          <6>. QED BY <3>2, <4>2, <5>7, <5>8, <6>1
        <5>9. CASE (v \div Weight[x + 1]) % 2 # 1
          <6>1. (v2 \div Weight[x]) % 2 # 1
            BY <5>6, <5>9
          <6>. QED BY <3>2, <4>2, <5>7, <5>9, <6>1
        <5>. QED BY <5>8, <5>9
      <4>. QED BY <4>1, <4>3, <4>4
    <3>4. Hold(s2, v2, e, less)
      <4>1. Len(s2) = IF e = 0 THEN 0 ELSE (e - 1) \div LevelBits
        BY <1>2, <1>8, <2>1, <3>1, <3>2
      <4>2. e = Len(less) /\ \A k \in 1 .. e : KindIn(s2, v2, e, k) = less[k]
        BY <1>4, <3>3
      <4>. QED BY <4>1, <4>2 DEF Hold
    <3>. QED BY <3>2, <3>4
  <2>. QED BY <2>2, <2>3
<1>. QED BY <1>7, <1>8

-----------------------------------------------------------------------------
(* The invariant of a call of JSONValid.                                   *)

JsonStates ==
    [pc : {"block", "tokens", "returned"}, blk : Nat, pend : Nat, ec : BOOLEAN, sc : BOOLEAN, lead : BOOLEAN,
     sig : SUBSET Places, expect : {"value", "firstValue", "key", "firstKey", "colon", "after"},
     lvl : Nat, depth : Nat, stk : Seq(Nat)]

\* The significant bytes of the block at b, from the one at lo on.
SigFrom(b, lo) == {x \in Places : b + x \in Significant /\ x >= lo}

FirstIn(S) == IF S = {} THEN BlockBits ELSE CHOOSE x \in S : \A y \in S : x <= y

\* The block at m, of which the bytes below r have been seen.
Walked(m, r) ==
    /\ m = Base /\ r = Reached
    /\ st.pc = "block" => Carried(m) /\ st.pend < m + BlockBits /\ st.sig = {}
    /\ st.pc = "tokens" => /\ Carried(m + BlockBits) /\ st.pend = 0 /\ m < Size
                           /\ \E lo \in 0 .. BlockBits : st.sig = SigFrom(m, lo)
    /\ Resumes(r) /\ Hold(st.stk, st.lvl, st.depth, Unclosed(TokensBelow(r)))
    /\ Len(st.stk) <= call.doc.room

JsonInv ==
    call.op = "json" =>
    /\ call.doc \in Documents /\ st \in JsonStates
    /\ Returned \/ \E m \in Nat, r \in Nat : Walked(m, r)

LEMMA SameOfText ==
    ASSUME call' = call
    PROVE  /\ \A p : Resumes(p)' <=> Resumes(p)
           /\ \A p : End(p)' = End(p)
           /\ \A b, lo : SigFrom(b, lo)' = SigFrom(b, lo)
           /\ \A p : Carried(p)' <=> /\ st'.sc <=> End(p) - 1 \in StringBytes
                                     /\ p <= Size => (st'.ec <=> EscapedAt(p)) /\ (st'.lead <=> p \in EscapeTargets)
<1>1. \A p : Resumes(p)' <=> Resumes(p)
  BY SameText, Zenon DEF Resumes
<1>2. \A p : End(p)' = End(p)
  BY SameText, Zenon DEF End
<1>3. \A b, lo : SigFrom(b, lo)' = SigFrom(b, lo)
  BY SameText, Zenon DEF SigFrom
<1>4. \A p : Carried(p)' <=> /\ st'.sc <=> End(p) - 1 \in StringBytes
                             /\ p <= Size => (st'.ec <=> EscapedAt(p)) /\ (st'.lead <=> p \in EscapeTargets)
  BY <1>2, SameText, Zenon DEF Carried
<1>. QED BY <1>1, <1>2, <1>3, <1>4

LEMMA ReachedIs ==
    /\ st.pc = "tokens" => Reached = Base + FirstIn(st.sig)
    /\ st.pc = "block" => Reached = IF st.pend > Base THEN st.pend ELSE Base
    /\ st.sig # {} => FirstPlace = FirstIn(st.sig)
<1>1. st.pc = "tokens" => Reached = Base + FirstIn(st.sig)
  BY Zenon DEF Reached, FirstIn, FirstPlace
<1>2. st.pc = "block" => Reached = IF st.pend > Base THEN st.pend ELSE Base
  BY Zenon DEF Reached
<1>3. ASSUME st.sig # {} PROVE FirstPlace = FirstIn(st.sig)
  <2>1. FirstIn(st.sig) = CHOOSE x \in st.sig : \A y \in st.sig : x <= y
    BY <1>3 DEF FirstIn
  <2>. QED BY <2>1, Zenon DEF FirstPlace
<1>. QED BY <1>1, <1>2, <1>3

\* The same of the next state.
LEMMA ReachedNext ==
    /\ st'.pc = "tokens" => Reached' = Base' + FirstIn(st'.sig)
    /\ st'.pc = "block" => Reached' = IF st'.pend > Base' THEN st'.pend ELSE Base'
<1>1. st'.pc = "tokens" => Reached' = Base' + FirstIn(st'.sig)
  BY Zenon DEF Reached, FirstIn, FirstPlace
<1>2. st'.pc = "block" => Reached' = IF st'.pend > Base' THEN st'.pend ELSE Base'
  BY Zenon DEF Reached
<1>. QED BY <1>1, <1>2

\* The first of the bytes from lo on, and those that are left behind it.
LEMMA FirstIs ==
    ASSUME JsonArgs, NEW m \in Nat, NEW lo \in 0 .. BlockBits, NEW S, S = SigFrom(m, lo)
    PROVE  /\ FirstIn(S) \in lo .. BlockBits
           /\ \A y \in m + lo .. m + FirstIn(S) - 1 : y \notin Significant
           /\ S # {} => /\ FirstIn(S) \in S /\ FirstIn(S) < BlockBits /\ m + FirstIn(S) \in Significant
                        /\ S \ {FirstIn(S)} = SigFrom(m, FirstIn(S) + 1)
           /\ S = {} => FirstIn(S) = BlockBits
<1>1. PICK n \in Nat : n = BlockBits /\ Places = 0 .. n - 1
  BY BitsAre
<1>2. S \subseteq Nat /\ \A x \in Nat : x \in S <=> x <= n - 1 /\ m + x \in Significant /\ x >= lo
  BY <1>1 DEF SigFrom
<1>3. CASE S = {}
  <2>1. FirstIn(S) = n
    BY <1>1, <1>3 DEF FirstIn
  <2>2. ASSUME NEW y \in m + lo .. m + n - 1 PROVE y \notin Significant
    <3>1. PICK x \in Nat : x = y - m /\ y = m + x /\ x <= n - 1 /\ x >= lo
      <4>1. y - m \in Nat /\ y = m + (y - m) /\ y - m <= n - 1 /\ y - m >= lo
        BY <1>1
      <4>. QED BY <4>1
    <3>. QED BY <1>2, <1>3, <3>1
  <2>. QED BY <1>1, <1>3, <2>1, <2>2
<1>4. CASE S # {}
  <2>1. \E x \in S : \A y \in S : x <= y
    BY <1>2, <1>4, LeastNatural
  <2>2. PICK f : f = FirstIn(S)
    OBVIOUS
  <2>3. f \in S /\ \A y \in S : f <= y
    BY <1>4, <2>1, <2>2, Zenon DEF FirstIn
  <2>4. f \in Nat /\ f <= n - 1 /\ m + f \in Significant /\ f >= lo
    BY <1>2, <2>3
  <2>5. ASSUME NEW y \in m + lo .. m + f - 1 PROVE y \notin Significant
    <3>1. PICK x \in Nat : x = y - m /\ y = m + x /\ x <= n - 1 /\ x >= lo /\ ~(f <= x)
      <4>1. y - m \in Nat /\ y = m + (y - m) /\ y - m <= n - 1 /\ y - m >= lo /\ ~(f <= y - m)
        BY <1>1, <2>4
      <4>. QED BY <4>1
    <3>. QED BY <1>2, <2>3, <3>1
  <2>6. S \ {f} = SigFrom(m, f + 1)
    <3>1. ASSUME NEW x \in Places PROVE x \in S \ {f} <=> m + x \in Significant /\ x >= f + 1
      <4>1. x \in Nat /\ x <= n - 1
        BY <1>1
      <4>2. x \in S => f <= x
        BY <2>3
      <4>. QED BY <1>1, <1>2, <2>4, <4>1, <4>2
    <3>2. S \ {f} \subseteq Places
      BY DEF SigFrom
    <3>. QED BY <3>1, <3>2 DEF SigFrom
  <2>7. f \in lo .. n /\ f < n
    BY <1>1, <2>4
  <2>. QED BY <1>1, <1>4, <2>2, <2>3, <2>4, <2>5, <2>6, <2>7
<1>. QED BY <1>3, <1>4

LEMMA LaterOf ==
    ASSUME NEW m \in Nat, NEW lo \in 0 .. BlockBits, NEW e \in lo .. BlockBits, NEW S, S = SigFrom(m, lo)
    PROVE  {x \in S : m + x >= m + e} = SigFrom(m, e)
<1>1. PICK n \in Nat : n = BlockBits /\ Places = 0 .. n - 1
  BY BitsAre
<1>2. S \subseteq Places /\ \A x \in Places : x \in S <=> m + x \in Significant /\ x >= lo
  BY DEF SigFrom
<1>3. ASSUME NEW x \in Places PROVE x \in S /\ m + x >= m + e <=> m + x \in Significant /\ x >= e
  <2>1. x \in Nat /\ lo \in Nat /\ e \in Nat /\ lo <= e /\ (m + x >= m + e <=> x >= e)
    BY <1>1
  <2>. QED BY <1>2, <2>1
<1>. QED BY <1>2, <1>3 DEF SigFrom

\* The walk of the block at m lands on the first byte from lo on.
LEMMA Landing ==
    ASSUME JsonArgs, NEW m \in Nat, NEW lo \in 0 .. BlockBits, Resumes(m + lo)
    PROVE  LET r == m + FirstIn(SigFrom(m, lo))
           IN r \in Nat /\ TokensBelow(r) = TokensBelow(m + lo) /\ Resumes(r)
<1>1. PICK n \in Nat : n = BlockBits
  BY BitsAre
<1>2. PICK f : f = FirstIn(SigFrom(m, lo))
  OBVIOUS
<1>3. f \in lo .. n /\ \A y \in m + lo .. m + f - 1 : y \notin Significant
  BY <1>1, <1>2, FirstIs
<1>4. PICK p \in Nat, q \in Nat : p = m + lo /\ q = m + f /\ p <= q
  BY <1>1, <1>3
<1>5. TokensBelow(q) = TokensBelow(p) /\ Resumes(q)
  BY <1>3, <1>4, Advance
<1>. QED BY <1>2, <1>4, <1>5

-----------------------------------------------------------------------------
(* The steps keep it.                                                      *)

LEMMA TokenInHand ==
    ASSUME JsonArgs, st \in JsonStates, NEW m \in Nat, NEW r \in Nat, Walked(m, r), Walking
    PROVE  /\ r = m + FirstPlace /\ FirstPlace = FirstIn(st.sig) /\ FirstPlace \in 0 .. BlockBits - 1
           /\ r \in Significant /\ Resumes(r) /\ Token = Char(r) /\ Token \in Chars
           /\ TokensBelow(r) \in Seq(Chars) /\ Unclosed(TokensBelow(r)) \in Seq(Brackets)
           /\ \E lo \in 0 .. BlockBits : st.sig = SigFrom(m, lo) /\ FirstPlace \in lo .. BlockBits
           /\ st.sig \ {FirstPlace} = SigFrom(m, FirstPlace + 1)
<1>1. st.pc = "tokens" /\ st.sig # {} /\ m = Base /\ r = Reached /\ Resumes(r)
  BY DEF Walking, In, Walked
<1>2. PICK lo \in 0 .. BlockBits : st.sig = SigFrom(m, lo)
  BY <1>1 DEF Walked
<1>3. FirstPlace = FirstIn(st.sig) /\ r = m + FirstPlace
  BY <1>1, ReachedIs
<1>4. PICK f : f = FirstPlace
  OBVIOUS
<1>5. /\ f \in lo .. BlockBits /\ f < BlockBits /\ m + f \in Significant
      /\ st.sig \ {f} = SigFrom(m, f + 1)
  <2>. DEFINE S == st.sig
  <2>1. S = SigFrom(m, lo) /\ S # {} /\ FirstIn(S) = f
    BY <1>1, <1>2, <1>3, <1>4
  <2>. HIDE DEF S
  <2>2. /\ FirstIn(S) \in lo .. BlockBits
        /\ FirstIn(S) < BlockBits /\ m + FirstIn(S) \in Significant
        /\ S \ {FirstIn(S)} = SigFrom(m, FirstIn(S) + 1)
    BY <2>1, FirstIs
  <2>. QED BY <2>1, <2>2, Zenon DEF S
<1>6. Token = Char(r) /\ r \in Significant
  BY <1>1, <1>3, <1>4, <1>5, Zenon DEF Token
<1>7. Char(r) \in Chars
  BY <1>1, <1>6, TokenTaken
<1>8. TokensBelow(r) \in Seq(Chars) /\ Unclosed(TokensBelow(r)) \in Seq(Brackets)
  BY TokensNext, UnclosedNext
<1>9. f \in 0 .. BlockBits - 1
  BY <1>5, BitsAre
<1>. QED BY <1>1, <1>2, <1>3, <1>4, <1>5, <1>6, <1>7, <1>8, <1>9

\* A step that takes a token, and leaves of the block what is from lo on.
LEMMA TokenStep ==
    ASSUME JsonArgs, st \in JsonStates, NEW m \in Nat, NEW r \in Nat, Walked(m, r), Walking, call' = call,
           st'.pc = "tokens", st'.blk = st.blk, st'.pend = st.pend,
           st'.ec = st.ec, st'.sc = st.sc, st'.lead = st.lead,
           NEW lo \in 0 .. BlockBits, st'.sig = SigFrom(m, lo), Resumes(m + lo),
           TokensBelow(m + lo) = Append(TokensBelow(r), Token),
           Hold(st'.stk, st'.lvl, st'.depth, After(Unclosed(TokensBelow(r)), Token)),
           Len(st'.stk) <= call.doc.room
    PROVE  \E q \in Nat : Walked(m, q)' /\ TokensBelow(q) = Append(TokensBelow(r), Token)
<1>1. PICK q : q = m + FirstIn(SigFrom(m, lo))
  OBVIOUS
<1>2. q \in Nat /\ TokensBelow(q) = TokensBelow(m + lo) /\ Resumes(q)
  BY <1>1, Landing
<1>3. Token \in Chars /\ TokensBelow(r) \in Seq(Chars)
  BY TokenInHand
<1>4. Unclosed(TokensBelow(q)) = After(Unclosed(TokensBelow(r)), Token)
  BY <1>2, <1>3, UnclosedNext
<1>5. m = Base /\ Base' = Base
  BY DEF Walked, Base
<1>6. q = Reached'
  BY <1>1, <1>5, ReachedNext
<1>7. Carried(m + BlockBits) /\ st.pend = 0 /\ m < Size
  BY DEF Walked, Walking, In
<1>8. Carried(m + BlockBits)'
  <2>1. PICK p : p = m + BlockBits
    OBVIOUS
  <2>2. Carried(p)
    BY <1>7, <2>1
  <2>3. Carried(p)' <=> /\ st'.sc <=> End(p) - 1 \in StringBytes
                        /\ p <= Size => (st'.ec <=> EscapedAt(p)) /\ (st'.lead <=> p \in EscapeTargets)
    BY SameOfText, Zenon
  <2>4. Carried(p)'
    BY <2>2, <2>3, Zenon DEF Carried
  <2>. QED BY <2>1, <2>4
<1>9. (m < Size)' /\ (Resumes(q))' /\ TokensBelow(q)' = TokensBelow(q) /\ SigFrom(m, lo)' = SigFrom(m, lo)
  <2>1. Size' = Size
    BY SameText
  <2>2. Resumes(q)' <=> Resumes(q)
    BY SameOfText, Zenon
  <2>3. TokensBelow(q)' = TokensBelow(q)
    BY SameText, Zenon
  <2>4. SigFrom(m, lo)' = SigFrom(m, lo)
    BY SameOfText, Zenon
  <2>. QED BY <1>2, <1>7, <2>1, <2>2, <2>3, <2>4
<1>10. Hold(st'.stk, st'.lvl, st'.depth, Unclosed(TokensBelow(q)'))
  BY <1>4, <1>9, Zenon
<1>11. m = Base'
  BY <1>5
<1>12. Walked(m, q)'
  BY <1>6, <1>7, <1>8, <1>9, <1>10, <1>11, Zenon DEF Walked
<1>. QED BY <1>2, <1>12, Zenon

\* Of a step that takes one byte.
LEMMA ByteStep ==
    ASSUME JsonArgs, st \in JsonStates, NEW m \in Nat, NEW r \in Nat, Walked(m, r), Walking, call' = call,
           Token # "d", st'.pc = "tokens", st'.blk = st.blk, st'.pend = st.pend,
           st'.ec = st.ec, st'.sc = st.sc, st'.lead = st.lead, st'.sig = st.sig \ {FirstPlace},
           Hold(st'.stk, st'.lvl, st'.depth, After(Unclosed(TokensBelow(r)), Token)),
           Len(st'.stk) <= call.doc.room
    PROVE  \E q \in Nat : Walked(m, q)' /\ TokensBelow(q) = Append(TokensBelow(r), Token)
<1>1. PICK f \in 0 .. BlockBits - 1 : f = FirstPlace
  BY TokenInHand
<1>2. PICK lo \in 0 .. BlockBits : lo = f + 1 /\ m + lo = r + 1
  <2>1. r = m + f
    BY <1>1, TokenInHand
  <2>2. f + 1 \in 0 .. BlockBits /\ m + (f + 1) = r + 1
    BY <2>1, BitsAre
  <2>. QED BY <2>2
<1>3. st'.sig = SigFrom(m, lo)
  BY <1>1, <1>2, TokenInHand, Zenon
<1>4. Resumes(r + 1) /\ TokensBelow(r + 1) = Append(TokensBelow(r), Token)
  <2>1. r \in Significant /\ Resumes(r) /\ Token = Char(r)
    BY TokenInHand
  <2>. QED BY <2>1, TokenTaken
<1>5. Resumes(m + lo) /\ TokensBelow(m + lo) = Append(TokensBelow(r), Token)
  BY <1>2, <1>4, Zenon
<1>. QED BY <1>3, <1>5, TokenStep

\* The next state is of the same call, and unless it has returned the tokens below the byte
\* reached are s.
JsonNext(s) ==
    /\ call' = call /\ st' \in JsonStates
    /\ st'.pc = "returned" \/ \E m \in Nat, q \in Nat : Walked(m, q)' /\ TokensBelow(q) = s

LEMMA AnswerKeeps ==
    ASSUME st \in JsonStates, NEW x, Answer01(x), NEW s
    PROVE  JsonNext(s)
<1>1. st' = [st EXCEPT !.pc = "returned"] /\ call' = call
  BY DEF Answer01, Return
<1>2. st' \in JsonStates /\ st'.pc = "returned"
  BY <1>1 DEF JsonStates
<1>. QED BY <1>1, <1>2 DEF JsonNext

\* The same place of the walk.
SamePlace(s, t) ==
    s.pc = t.pc /\ s.blk = t.blk /\ s.pend = t.pend /\ s.ec = t.ec /\ s.sc = t.sc /\ s.lead = t.lead /\ s.sig = t.sig

LEMMA StepKeeps ==
    ASSUME JsonArgs, st \in JsonStates, NEW m \in Nat, NEW r \in Nat, Walked(m, r), Walking, Token # "d",
           NEW new \in JsonStates, SamePlace(new, st), Step(new),
           Hold(new.stk, new.lvl, new.depth, After(Unclosed(TokensBelow(r)), Token)),
           Len(new.stk) <= call.doc.room
    PROVE  JsonNext(Append(TokensBelow(r), Token))
<1>1. st' = [new EXCEPT !.sig = @ \ {FirstPlace}] /\ call' = call
  BY DEF Step
<1>2. st' \in JsonStates
  BY <1>1 DEF JsonStates
<1>3. /\ st'.pc = new.pc /\ st'.blk = new.blk /\ st'.pend = new.pend
      /\ st'.ec = new.ec /\ st'.sc = new.sc /\ st'.lead = new.lead /\ st'.sig = new.sig \ {FirstPlace}
      /\ st'.stk = new.stk /\ st'.lvl = new.lvl /\ st'.depth = new.depth
  BY <1>1 DEF JsonStates
<1>4. st.pc = "tokens"
  BY DEF Walking, In
<1>5. /\ st'.pc = "tokens" /\ st'.blk = st.blk /\ st'.pend = st.pend
      /\ st'.ec = st.ec /\ st'.sc = st.sc /\ st'.lead = st.lead /\ st'.sig = st.sig \ {FirstPlace}
  BY <1>3, <1>4 DEF SamePlace
<1>6. Hold(st'.stk, st'.lvl, st'.depth, After(Unclosed(TokensBelow(r)), Token)) /\ Len(st'.stk) <= call.doc.room
  BY <1>3, Zenon
<1>7. \E q \in Nat : Walked(m, q)' /\ TokensBelow(q) = Append(TokensBelow(r), Token)
  BY <1>1, <1>5, <1>6, ByteStep
<1>. QED BY <1>1, <1>2, <1>7 DEF JsonNext

\* A colon, a comma or a string leaves the containers as they are.
LEMMA PlainKeeps ==
    ASSUME JsonArgs, st \in JsonStates, NEW m \in Nat, NEW r \in Nat, Walked(m, r), Walking,
           Colon \/ Key \/ Comma \/ String
    PROVE  JsonNext(Append(TokensBelow(r), Token))
<1>1. Unclosed(TokensBelow(r)) \in Seq(Brackets)
  BY TokenInHand
<1>2. Hold(st.stk, st.lvl, st.depth, Unclosed(TokensBelow(r))) /\ Len(st.stk) <= call.doc.room
  BY DEF Walked
<1>3. ASSUME NEW e \in {"value", "colon", "key", "after"}, Step([st EXCEPT !.expect = e]), Token \in {":", ",", "q"}
      PROVE  JsonNext(Append(TokensBelow(r), Token))
  <2>1. After(Unclosed(TokensBelow(r)), Token) = Unclosed(TokensBelow(r))
    BY <1>1, <1>3, AfterIs
  <2>2. PICK new \in JsonStates : new = [st EXCEPT !.expect = e]
    BY DEF JsonStates
  <2>3. SamePlace(new, st) /\ new.stk = st.stk /\ new.lvl = st.lvl /\ new.depth = st.depth
    BY <2>2 DEF JsonStates, SamePlace
  <2>4. Hold(new.stk, new.lvl, new.depth, After(Unclosed(TokensBelow(r)), Token)) /\ Len(new.stk) <= call.doc.room
    BY <1>2, <2>1, <2>3, Zenon
  <2>5. Step(new) /\ Token # "d"
    BY <1>3, <2>2
  <2>. QED BY <2>3, <2>4, <2>5, StepKeeps
<1>4. CASE Colon
  BY <1>3, <1>4 DEF Colon
<1>5. CASE Key
  BY <1>3, <1>5 DEF Key
<1>6. CASE Comma
  <2>1. PICK e \in {"value", "colon", "key", "after"} : e = IF InObject THEN "key" ELSE "value"
    OBVIOUS
  <2>. QED BY <1>3, <1>6, <2>1 DEF Comma
<1>7. CASE String
  BY <1>3, <1>7 DEF String
<1>. QED BY <1>4, <1>5, <1>6, <1>7

LEMMA OpenKeeps ==
    ASSUME JsonArgs, st \in JsonStates, NEW m \in Nat, NEW r \in Nat, Walked(m, r), Open
    PROVE  JsonNext(Append(TokensBelow(r), Token))
<1>. DEFINE open == Unclosed(TokensBelow(r))
            s2 == IF WordFull THEN Append(st.stk, st.lvl) ELSE st.stk
            v2 == (2 * st.lvl + IF Token = "{" THEN 1 ELSE 0) % Weight[LevelBits]
            e == IF Token = "{" THEN "firstKey" ELSE "firstValue"
            new == [st EXCEPT !.stk = s2, !.lvl = v2, !.depth = st.depth + 1, !.expect = e]
<1>1. Walking /\ Token \in Brackets /\ ~(WordFull /\ Len(st.stk) >= call.doc.room)
  BY DEF Open, Opens, Brackets
<1>2. Step(new)
  BY DEF Open
<1>3. open \in Seq(Brackets) /\ Token \in Chars
  BY <1>1, TokenInHand
<1>4. Hold(st.stk, st.lvl, st.depth, open) /\ Len(st.stk) <= call.doc.room
  BY DEF Walked
<1>5. st.stk \in Seq(Nat) /\ st.lvl \in Nat /\ st.depth \in Nat /\ call.doc.room \in Nat
  BY TextIs DEF JsonStates
<1>. HIDE DEF open
<1>6. s2 \in Seq(Nat) /\ v2 \in Nat /\ Hold(s2, v2, st.depth + 1, Append(open, Token))
  BY <1>1, <1>3, <1>4, <1>5, PushHolds, Zenon DEF WordFull
<1>7. Len(s2) <= call.doc.room
  <2>1. CASE WordFull
    BY <1>1, <1>4, <1>5, <2>1
  <2>2. CASE ~WordFull
    BY <1>4, <2>2
  <2>. QED BY <2>1, <2>2
<1>8. After(open, Token) = Append(open, Token) /\ Token # "d"
  BY <1>1, <1>3, AfterIs DEF Brackets
<1>9. e \in {"firstKey", "firstValue"} /\ st.depth + 1 \in Nat
  BY <1>5
<1>. HIDE DEF s2, v2, e
<1>10. new \in JsonStates
  BY <1>6, <1>9 DEF JsonStates
<1>11. SamePlace(new, st) /\ new.stk = s2 /\ new.lvl = v2 /\ new.depth = st.depth + 1
  BY DEF JsonStates, SamePlace
<1>. HIDE DEF new
<1>12. Hold(new.stk, new.lvl, new.depth, After(open, Token)) /\ Len(new.stk) <= call.doc.room
  BY <1>6, <1>7, <1>8, <1>11, Zenon
<1>. QED BY <1>1, <1>2, <1>8, <1>10, <1>11, <1>12, StepKeeps DEF open

LEMMA CloseKeeps ==
    ASSUME JsonArgs, st \in JsonStates, NEW m \in Nat, NEW r \in Nat, Walked(m, r), Close
    PROVE  JsonNext(Append(TokensBelow(r), Token))
<1>. DEFINE open == Unclosed(TokensBelow(r))
            spilled == (st.depth - 1) % LevelBits = 0 /\ st.depth - 1 > 0
            s2 == IF spilled THEN SubSeq(st.stk, 1, Len(st.stk) - 1) ELSE st.stk
            v2 == IF spilled THEN st.stk[Len(st.stk)] ELSE st.lvl \div 2
            new == [st EXCEPT !.depth = st.depth - 1, !.lvl = v2, !.stk = s2, !.expect = "after"]
<1>1. Walking /\ Token \in {"}", "]"} /\ st.depth > 0
  BY DEF Close, Closes
<1>2. Step(new)
  BY DEF Close
<1>3. open \in Seq(Brackets) /\ Token \in Chars
  BY <1>1, TokenInHand
<1>4. Hold(st.stk, st.lvl, st.depth, open) /\ Len(st.stk) <= call.doc.room
  BY DEF Walked
<1>5. st.stk \in Seq(Nat) /\ st.lvl \in Nat /\ st.depth \in Nat /\ call.doc.room \in Nat
  BY TextIs DEF JsonStates
<1>. HIDE DEF open
<1>6. /\ s2 \in Seq(Nat) /\ v2 \in Nat /\ Len(s2) <= Len(st.stk)
      /\ Hold(s2, v2, st.depth - 1, SubSeq(open, 1, Len(open) - 1))
  BY <1>1, <1>3, <1>4, <1>5, PopHolds, Zenon
<1>7. After(open, Token) = SubSeq(open, 1, Len(open) - 1) /\ Token # "d"
  BY <1>1, <1>3, AfterIs
<1>8. st.depth - 1 \in Nat
  <2>1. st.depth \in Nat /\ st.depth > 0
    BY <1>1, <1>5
  <2>. QED BY <2>1
<1>. HIDE DEF s2, v2
<1>9. new \in JsonStates
  BY <1>6, <1>8 DEF JsonStates
<1>10. SamePlace(new, st) /\ new.stk = s2 /\ new.lvl = v2 /\ new.depth = st.depth - 1
  BY DEF JsonStates, SamePlace
<1>. HIDE DEF new
<1>11. Len(s2) <= call.doc.room
  <2>1. Len(s2) \in Nat /\ Len(st.stk) \in Nat
    BY <1>5, <1>6
  <2>. QED BY <1>4, <1>5, <1>6, <2>1
<1>12. Hold(new.stk, new.lvl, new.depth, After(open, Token)) /\ Len(new.stk) <= call.doc.room
  BY <1>6, <1>7, <1>10, <1>11, Zenon
<1>. QED BY <1>1, <1>2, <1>7, <1>9, <1>10, <1>12, StepKeeps DEF open

LEMMA NumberHereKeeps ==
    ASSUME JsonArgs, st \in JsonStates, NEW m \in Nat, NEW r \in Nat, Walked(m, r), NumberHere
    PROVE  JsonNext(Append(TokensBelow(r), Token))
<1>1. PICK n \in Nat, l \in Nat : n = BlockBits /\ n >= 2 /\ l = Size
  BY BitsAre, TextIs
<1>2. Walking /\ Token = "d" /\ call' = call
  BY DEF NumberHere, Numeral
<1>3. PICK f \in 0 .. n - 1 : /\ f = FirstPlace /\ r = m + f /\ r \in Significant /\ Resumes(r) /\ Char(r) = "d"
                              /\ Unclosed(TokensBelow(r)) \in Seq(Brackets)
  BY <1>1, <1>2, TokenInHand
<1>4. PICK e : e = NumberEnd
  OBVIOUS
<1>5. m = Base /\ r < l
  BY <1>1, <1>3, SignificantIs DEF Walked
<1>6. e \in r + 1 .. l /\ (\A p \in r .. e - 1 : Char(p) = "d") /\ (e < l => Char(e) # "d")
  BY <1>1, <1>3, <1>4, <1>5, NumberEndIs
<1>7. e < l /\ e \div BlockBits = st.blk
  BY <1>1, <1>4 DEF NumberHere
<1>8. PICK lo \in 0 .. n : e = m + lo /\ lo >= f
  <2>1. e \in Nat /\ e > r
    BY <1>6
  <2>2. PICK k \in Nat : k = st.blk
    BY DEF JsonStates
  <2>3. e = (e \div n) * n + (e % n) /\ e % n \in Nat /\ e % n < n
    BY <1>1, <2>1, DivMod
  <2>4. m = k * n
    BY <1>1, <1>5, <2>2 DEF Base
  <2>5. e = m + (e % n)
    BY <1>1, <1>7, <2>2, <2>3, <2>4
  <2>. QED BY <1>3, <2>1, <2>3, <2>5
<1>9. TokensBelow(e) = Append(TokensBelow(r), "d") /\ Resumes(e)
  BY <1>1, <1>3, <1>6, NumberTaken
<1>10. st' = [st EXCEPT !.expect = "after", !.sig = {x \in @ : Base + x >= NumberEnd}]
  BY DEF NumberHere
<1>11. st'.sig = SigFrom(m, lo)
  <2>1. st'.sig = {x \in st.sig : m + x >= m + lo}
    BY <1>4, <1>5, <1>8, <1>10 DEF JsonStates
  <2>2. PICK lo2 \in 0 .. BlockBits : st.sig = SigFrom(m, lo2) /\ f \in lo2 .. BlockBits
    BY <1>2, <1>3, TokenInHand
  <2>3. lo \in lo2 .. BlockBits
    BY <1>1, <1>8, <2>2
  <2>. QED BY <2>1, <2>2, <2>3, LaterOf
<1>12. /\ st' \in JsonStates
       /\ st'.pc = st.pc /\ st'.blk = st.blk /\ st'.pend = st.pend
       /\ st'.ec = st.ec /\ st'.sc = st.sc /\ st'.lead = st.lead
       /\ st'.stk = st.stk /\ st'.lvl = st.lvl /\ st'.depth = st.depth
  BY <1>10 DEF JsonStates
<1>13. After(Unclosed(TokensBelow(r)), Token) = Unclosed(TokensBelow(r))
  BY <1>2, <1>3, AfterIs
<1>14. Hold(st'.stk, st'.lvl, st'.depth, After(Unclosed(TokensBelow(r)), Token)) /\ Len(st'.stk) <= call.doc.room
  <2>1. Hold(st.stk, st.lvl, st.depth, Unclosed(TokensBelow(r))) /\ Len(st.stk) <= call.doc.room
    BY DEF Walked
  <2>. QED BY <1>12, <1>13, <2>1, Zenon
<1>15. Resumes(m + lo) /\ TokensBelow(m + lo) = Append(TokensBelow(r), Token)
  BY <1>2, <1>8, <1>9, Zenon
<1>16. st'.pc = "tokens"
  BY <1>2, <1>12 DEF Walking, In
<1>17. lo \in 0 .. BlockBits
  BY <1>1, <1>8
<1>18. \E q \in Nat : Walked(m, q)' /\ TokensBelow(q) = Append(TokensBelow(r), Token)
  BY <1>2, <1>11, <1>12, <1>14, <1>15, <1>16, <1>17, TokenStep
<1>. QED BY <1>2, <1>12, <1>18 DEF JsonNext

\* The carries into the block in which a number ends, past the blocks that it fills.
LEMMA NumberOnKeeps ==
    ASSUME JsonArgs, st \in JsonStates, NEW m \in Nat, NEW r \in Nat, Walked(m, r), NumberOn
    PROVE  JsonNext(Append(TokensBelow(r), Token))
<1>1. PICK n \in Nat, l \in Nat : n = BlockBits /\ n >= 2 /\ l = Size
  BY BitsAre, TextIs
<1>2. Walking /\ Token = "d" /\ call' = call
  BY DEF NumberOn, Numeral
<1>3. PICK f \in 0 .. n - 1 : /\ f = FirstPlace /\ r = m + f /\ r \in Significant /\ Resumes(r) /\ Char(r) = "d"
                              /\ Unclosed(TokensBelow(r)) \in Seq(Brackets) /\ TokensBelow(r) \in Seq(Chars)
  BY <1>1, <1>2, TokenInHand
<1>4. PICK e : e = NumberEnd
  OBVIOUS
<1>5. m = Base /\ r < l
  BY <1>1, <1>3, SignificantIs DEF Walked
<1>6. e \in r + 1 .. l /\ (\A p \in r .. e - 1 : Char(p) = "d") /\ (e < l => Char(e) # "d")
  BY <1>1, <1>3, <1>4, <1>5, NumberEndIs
<1>7. e < l /\ e \div BlockBits > st.blk
  BY <1>1, <1>4 DEF NumberOn
<1>8. PICK k \in Nat, b \in Nat : k = st.blk /\ b = e \div n /\ b >= k + 1
  <2>1. e \in Nat
    BY <1>6
  <2>2. e \div n \in Nat
    BY <1>1, <2>1, DivMod
  <2>3. st.blk \in Nat
    BY DEF JsonStates
  <2>. QED BY <1>1, <1>7, <2>2, <2>3
<1>9. PICK t \in Nat : t = b * n /\ m + n <= t /\ t <= e /\ e < t + n
  <2>1. e \in Nat
    BY <1>6
  <2>2. e = (e \div n) * n + (e % n) /\ e % n \in Nat /\ e % n < n
    BY <1>1, <2>1, DivMod
  <2>3. m = k * n
    BY <1>1, <1>5, <1>8 DEF Base
  <2>4. PICK z \in Nat : b = k + 1 + z
    <3>1. b - (k + 1) \in Nat /\ b = k + 1 + (b - (k + 1))
      BY <1>8
    <3>. QED BY <3>1
  <2>5. (k + 1 + z) * n = k * n + n + z * n /\ z * n \in Nat
    OBVIOUS
  <2>6. b * n \in Nat /\ b * n = m + n + z * n
    BY <2>3, <2>4, <2>5
  <2>7. PICK t \in Nat, z2 \in Nat : t = b * n /\ t = m + n + z2
    BY <2>5, <2>6
  <2>8. PICK x \in Nat : e = t + x /\ x < n
    BY <1>8, <2>2, <2>7
  <2>9. m + n <= t /\ t <= e /\ e < t + n
    BY <2>7, <2>8
  <2>. QED BY <2>7, <2>9
<1>10. /\ TokensBelow(e) = Append(TokensBelow(r), "d") /\ Resumes(e)
       /\ \A p \in r .. e - 1 : p \notin StringBytes
       /\ \A p \in r + 1 .. e : ~EscapedAt(p) /\ p \notin EscapeTargets
  BY <1>1, <1>3, <1>6, NumberTaken
<1>11. st' = [st EXCEPT !.pc = "block", !.blk = e \div BlockBits, !.pend = e, !.sig = {}, !.expect = "after"]
  BY <1>4 DEF NumberOn
<1>12. /\ st' \in JsonStates
       /\ st'.pc = "block" /\ st'.blk = b /\ st'.pend = e /\ st'.sig = {}
       /\ st'.ec = st.ec /\ st'.sc = st.sc /\ st'.lead = st.lead
       /\ st'.stk = st.stk /\ st'.lvl = st.lvl /\ st'.depth = st.depth
  <2>1. e \in Nat
    BY <1>6
  <2>. QED BY <1>1, <1>8, <1>11, <2>1 DEF JsonStates
<1>13. t = Base' /\ e = Reached'
  <2>1. t = Base'
    BY <1>1, <1>9, <1>12 DEF Base
  <2>2. e \in Nat
    BY <1>6
  <2>. QED BY <1>9, <1>12, <2>1, <2>2, ReachedNext
<1>14. ~st.sc /\ ~st.ec /\ ~st.lead
  <2>1. PICK p \in r + 1 .. e : p = m + n
    BY <1>3, <1>6, <1>9
  <2>2. Carried(p)
    <3>1. Carried(m + BlockBits)
      BY <1>2 DEF Walked, Walking, In
    <3>. QED BY <1>1, <2>1, <3>1
  <2>3. p < l /\ End(p) = p /\ p - 1 \in r .. e - 1
    BY <1>1, <1>6, <1>7, <2>1 DEF End
  <2>. QED BY <1>1, <1>10, <2>1, <2>2, <2>3 DEF Carried, JsonStates
<1>15. Carried(t)'
  <2>1. t \in r + 1 .. e
    BY <1>3, <1>6, <1>9
  <2>2. t < l /\ End(t) = t /\ t - 1 \in r .. e - 1
    BY <1>1, <1>6, <1>7, <2>1 DEF End
  <2>3. t - 1 \notin StringBytes /\ ~EscapedAt(t) /\ t \notin EscapeTargets
    BY <1>10, <2>1, <2>2
  <2>4. Carried(t)' <=> /\ st'.sc <=> End(t) - 1 \in StringBytes
                        /\ t <= Size => (st'.ec <=> EscapedAt(t)) /\ (st'.lead <=> t \in EscapeTargets)
    BY <1>2, SameOfText, Zenon
  <2>. QED BY <1>12, <1>14, <2>2, <2>3, <2>4
<1>16. Unclosed(TokensBelow(e)) = Unclosed(TokensBelow(r))
  <2>1. "d" \in Chars
    BY DEF Chars
  <2>2. Unclosed(Append(TokensBelow(r), "d")) = After(Unclosed(TokensBelow(r)), "d")
    BY <1>3, <2>1, UnclosedNext
  <2>3. After(Unclosed(TokensBelow(r)), "d") = Unclosed(TokensBelow(r))
    BY <1>3, AfterIs
  <2>. QED BY <1>10, <2>2, <2>3
<1>17. Hold(st'.stk, st'.lvl, st'.depth, Unclosed(TokensBelow(e)')) /\ Len(st'.stk) <= call'.doc.room /\ Resumes(e)'
  <2>1. Hold(st.stk, st.lvl, st.depth, Unclosed(TokensBelow(r))) /\ Len(st.stk) <= call.doc.room
    BY DEF Walked
  <2>2. TokensBelow(e)' = TokensBelow(e) /\ (Resumes(e)' <=> Resumes(e))
    BY <1>2, SameText, SameOfText, Zenon
  <2>. QED BY <1>2, <1>10, <1>12, <1>16, <2>1, <2>2, Zenon
<1>18. st'.pend < t + BlockBits /\ e \in Nat
  BY <1>1, <1>6, <1>9, <1>12
<1>19. Walked(t, e)'
  BY <1>12, <1>13, <1>15, <1>17, <1>18 DEF Walked
<1>20. TokensBelow(e) = Append(TokensBelow(r), Token)
  BY <1>2, <1>10
<1>. QED BY <1>2, <1>12, <1>18, <1>19, <1>20 DEF JsonNext

LEMMA EndBlockKeeps ==
    ASSUME JsonArgs, st \in JsonStates, NEW m \in Nat, NEW r \in Nat, Walked(m, r), EndBlock
    PROVE  JsonNext(TokensBelow(r))
<1>1. PICK n \in Nat : n = BlockBits /\ n >= 2
  BY BitsAre
<1>2. st.pc = "tokens" /\ st.sig = {} /\ call' = call /\ st' = [st EXCEPT !.pc = "block", !.blk = @ + 1]
  BY DEF EndBlock, In
<1>3. /\ m = Base /\ r = Reached /\ Carried(m + BlockBits) /\ st.pend = 0 /\ Resumes(r)
      /\ Hold(st.stk, st.lvl, st.depth, Unclosed(TokensBelow(r))) /\ Len(st.stk) <= call.doc.room
  BY <1>2 DEF Walked
<1>4. r = m + BlockBits
  BY <1>2, <1>3, ReachedIs DEF FirstIn
<1>5. /\ st' \in JsonStates
      /\ st'.pc = "block" /\ st'.blk = st.blk + 1 /\ st'.pend = 0 /\ st'.sig = {}
      /\ st'.ec = st.ec /\ st'.sc = st.sc /\ st'.lead = st.lead
      /\ st'.stk = st.stk /\ st'.lvl = st.lvl /\ st'.depth = st.depth
  <2>1. st.blk + 1 \in Nat
    BY DEF JsonStates
  <2>2. st' \in JsonStates
    BY <1>2, <2>1 DEF JsonStates
  <2>3. /\ st'.pc = "block" /\ st'.blk = st.blk + 1 /\ st'.pend = st.pend /\ st'.sig = st.sig
        /\ st'.ec = st.ec /\ st'.sc = st.sc /\ st'.lead = st.lead
        /\ st'.stk = st.stk /\ st'.lvl = st.lvl /\ st'.depth = st.depth
    BY <1>2 DEF JsonStates
  <2>. QED BY <1>2, <1>3, <2>2, <2>3
<1>6. Base' = r
  <2>1. st.blk \in Nat
    BY DEF JsonStates
  <2>2. (st.blk + 1) * BlockBits = Base + BlockBits
    BY <2>1, HeldIs
  <2>. QED BY <1>3, <1>4, <1>5, <2>2 DEF Base
<1>7. Reached' = r
  BY <1>5, <1>6, ReachedNext
<1>8. Carried(r)'
  <2>1. Carried(r)
    BY <1>3, <1>4
  <2>2. Carried(r)' <=> /\ st'.sc <=> End(r) - 1 \in StringBytes
                        /\ r <= Size => (st'.ec <=> EscapedAt(r)) /\ (st'.lead <=> r \in EscapeTargets)
    BY <1>2, SameOfText, Zenon
  <2>. QED BY <1>5, <2>1, <2>2, Zenon DEF Carried
<1>9. Hold(st'.stk, st'.lvl, st'.depth, Unclosed(TokensBelow(r)')) /\ Len(st'.stk) <= call'.doc.room /\ Resumes(r)'
  <2>1. TokensBelow(r)' = TokensBelow(r) /\ (Resumes(r)' <=> Resumes(r))
    BY <1>2, SameText, SameOfText, Zenon
  <2>. QED BY <1>2, <1>3, <1>5, <2>1, Zenon
<1>10. st'.pend < r + BlockBits
  BY <1>1, <1>5
<1>11. Walked(r, r)'
  BY <1>5, <1>6, <1>7, <1>8, <1>9, <1>10 DEF Walked
<1>. QED BY <1>2, <1>5, <1>11 DEF JsonNext

LEMMA StartBlockKeeps ==
    ASSUME JsonArgs, st \in JsonStates, NEW m \in Nat, NEW r \in Nat, Walked(m, r), StartBlock
    PROVE  JsonNext(TokensBelow(r))
<1>. DEFINE esc == Escaped(Mask({"bs"}), st.ec)
            in == Xor(PrefixParity(Mask({"q"}) \ esc.e), IF st.sc THEN Places ELSE {})
            leaders == (Mask({"bs"}) \intersect in) \ esc.e
            targets == ShiftLeft(leaders) \union Bit0(st.lead)
            clean == /\ Mask(Controls) \intersect in = {}
                     /\ \A x \in targets : Escapable(Base + x)
            sig == {x \in (Held \ Mask(Space)) \ in : Base + x >= st.pend}
            new == [st EXCEPT !.pc = "tokens", !.pend = 0, !.ec = esc.carry,
                              !.sc = BlockBits - 1 \in in, !.lead = BlockBits - 1 \in leaders, !.sig = sig]
<1>1. PICK n \in Nat : n = BlockBits /\ n >= 2 /\ Places = 0 .. n - 1
  BY BitsAre
<1>2. st.pc = "block" /\ Base < Size /\ IF ~clean THEN Answer01(0) ELSE st' = new /\ UNCHANGED <<call, out>>
  BY Zenon DEF StartBlock, In
<1>3. /\ m = Base /\ r = Reached /\ Carried(m) /\ st.pend < m + BlockBits /\ Resumes(r)
      /\ Hold(st.stk, st.lvl, st.depth, Unclosed(TokensBelow(r))) /\ Len(st.stk) <= call.doc.room
  BY <1>2 DEF Walked
<1>4. JsonFlags /\ st.pend \in Nat
  BY DEF JsonFlags, JsonStates
<1>5. /\ esc.carry \in BOOLEAN
      /\ Base + BlockBits <= Size => (esc.carry <=> EscapedAt(Base + BlockBits))
      /\ BlockBits - 1 \in in <=> End(Base + BlockBits) - 1 \in StringBytes
      /\ Base + BlockBits <= Size => (BlockBits - 1 \in leaders <=> Base + BlockBits \in EscapeTargets)
      /\ \A x \in Places : x \in (Held \ Mask(Space)) \ in <=> Base + x \in Significant
  <2>1. Base < Size /\ Carried(Base)
    BY <1>2, <1>3
  <2>. QED BY <1>4, <2>1, MasksAre, Zenon
<1>. HIDE DEF esc, in, leaders, targets
<1>6. CASE ~clean
  <2>1. Answer01(0)
    BY <1>2, <1>6
  <2>. QED BY <2>1, AnswerKeeps
<1>7. CASE clean
  <2>1. st' = new /\ call' = call
    BY <1>2, <1>7
  <2>2. r = IF st.pend > m THEN st.pend ELSE m
    BY <1>2, <1>3, ReachedIs
  <2>3. PICK lo \in 0 .. BlockBits : r = m + lo
    <3>1. r - m \in 0 .. n /\ r = m + (r - m)
      BY <1>1, <1>3, <1>4, <2>2
    <3>. QED BY <1>1, <3>1
  <2>4. sig = SigFrom(m, lo)
    <3>1. Held \subseteq Places
      BY <1>4, HeldIs DEF JsonFlags
    <3>2. ASSUME NEW x \in Places PROVE m + x >= st.pend <=> x >= lo
      <4>1. x \in Nat /\ lo \in Nat
        BY <1>1
      <4>. QED BY <1>3, <1>4, <2>2, <2>3, <4>1
    <3>3. ASSUME NEW x \in Places PROVE x \in sig <=> m + x \in Significant /\ x >= lo
      BY <1>3, <1>5, <3>2
    <3>4. sig \subseteq Places
      BY <3>1
    <3>. HIDE DEF sig
    <3>. QED BY <3>3, <3>4 DEF SigFrom
  <2>5. sig \in SUBSET Places
    BY <2>4 DEF SigFrom
  <2>. HIDE DEF sig, clean
  <2>. DEFINE c == esc.carry
              s == BlockBits - 1 \in in
              d == BlockBits - 1 \in leaders
  <2>6. c \in BOOLEAN /\ s \in BOOLEAN /\ d \in BOOLEAN
    BY <1>5
  <2>7. st' = [st EXCEPT !.pc = "tokens", !.pend = 0, !.ec = c, !.sc = s, !.lead = d, !.sig = sig]
    BY <2>1, Zenon
  <2>. HIDE DEF c, s, d
  <2>8. st' \in JsonStates
    BY <2>5, <2>6, <2>7 DEF JsonStates
  <2>9. /\ st'.pc = "tokens" /\ st'.blk = st.blk /\ st'.pend = 0 /\ st'.sig = sig
        /\ st'.ec = c /\ st'.sc = s /\ st'.lead = d
        /\ st'.stk = st.stk /\ st'.lvl = st.lvl /\ st'.depth = st.depth
    BY <2>7 DEF JsonStates
  <2>10. PICK q : q = m + FirstIn(SigFrom(m, lo))
    OBVIOUS
  <2>11. q \in Nat /\ TokensBelow(q) = TokensBelow(r) /\ Resumes(q)
    <3>1. Resumes(m + lo)
      BY <1>3, <2>3
    <3>2. q \in Nat /\ TokensBelow(q) = TokensBelow(m + lo) /\ Resumes(q)
      BY <2>10, <3>1, Landing
    <3>. QED BY <2>3, <3>2
  <2>12. m = Base'
    BY <1>3, <2>9 DEF Base
  <2>13. q = Reached'
    BY <2>4, <2>9, <2>10, <2>12, ReachedNext
  <2>14. PICK p : p = m + BlockBits
    OBVIOUS
  <2>15. Carried(p)'
    <3>1. Carried(p)' <=> /\ st'.sc <=> End(p) - 1 \in StringBytes
                          /\ p <= Size => (st'.ec <=> EscapedAt(p)) /\ (st'.lead <=> p \in EscapeTargets)
      BY <2>1, SameOfText, Zenon
    <3>2. s <=> End(p) - 1 \in StringBytes
      BY <1>3, <1>5, <2>14, Zenon DEF s
    <3>3. p <= Size => (c <=> EscapedAt(p)) /\ (d <=> p \in EscapeTargets)
      BY <1>3, <1>5, <2>14, Zenon DEF c, d
    <3>. QED BY <2>9, <3>1, <3>2, <3>3, Zenon
  <2>16. Carried(m + BlockBits)'
    BY <2>14, <2>15
  <2>17. (m < Size)' /\ (Resumes(q))' /\ TokensBelow(q)' = TokensBelow(q) /\ SigFrom(m, lo)' = SigFrom(m, lo)
    <3>1. Size' = Size
      BY <2>1, SameText
    <3>2. Resumes(q)' <=> Resumes(q)
      BY <2>1, SameOfText, Zenon
    <3>3. TokensBelow(q)' = TokensBelow(q)
      BY <2>1, SameText, Zenon
    <3>4. SigFrom(m, lo)' = SigFrom(m, lo)
      BY <2>1, SameOfText, Zenon
    <3>. QED BY <1>2, <1>3, <2>11, <3>1, <3>2, <3>3, <3>4
  <2>18. st'.sig = SigFrom(m, lo)'
    BY <2>4, <2>9, <2>17
  <2>19. Hold(st'.stk, st'.lvl, st'.depth, Unclosed(TokensBelow(q)')) /\ Len(st'.stk) <= call'.doc.room
    BY <1>3, <2>1, <2>9, <2>11, <2>17, Zenon
  <2>20. Walked(m, q)'
    BY <2>9, <2>12, <2>13, <2>16, <2>17, <2>18, <2>19, Zenon DEF Walked
  <2>. QED BY <2>1, <2>8, <2>11, <2>20 DEF JsonNext
<1>. QED BY <1>6, <1>7

LEMMA JsonStarts == Init => JsonInv
<1>. SUFFICES ASSUME Init, call.op = "json" PROVE JsonInv
  BY DEF JsonInv
<1>1. ~(call = NoCall) /\ ~TranscodeInit
  <2>1. ASSUME call = NoCall PROVE FALSE
    BY <2>1 DEF NoCall
  <2>2. ASSUME TranscodeInit PROVE FALSE
    <3>1. call.op = "utf"
      BY <2>2 DEF TranscodeInit
    <3>. QED BY <3>1
  <2>. QED BY <2>1, <2>2
<1>2. /\ call \in [op : {"json"}, doc : Documents]
      /\ st = [pc |-> "block", blk |-> 0, pend |-> 0, ec |-> FALSE, sc |-> FALSE, lead |-> FALSE,
               sig |-> {}, expect |-> "value", lvl |-> 0, depth |-> 0, stk |-> <<>>]
  BY <1>1 DEF Init, JsonInit
<1>3. JsonArgs
  BY <1>2 DEF JsonArgs
<1>4. PICK n \in Nat, l \in Nat : n = BlockBits /\ n >= 2 /\ l = Size /\ call.doc.room \in Nat
  BY <1>3, BitsAre, TextIs
<1>5. st \in JsonStates
  <2>1. <<>> \in Seq(Nat)
    OBVIOUS
  <2>. QED BY <1>2, <2>1 DEF JsonStates
<1>6. 0 = Base /\ 0 = Reached
  <2>1. 0 = Base
    BY <1>2, <1>4 DEF Base
  <2>. QED BY <1>2, <2>1, ReachedIs
<1>7. Carried(0)
  <2>1. End(0) = 0
    BY <1>4 DEF End
  <2>2. 0 - 1 \notin StringBytes
    BY <1>3, <1>4, StringNext
  <2>3. 0 \notin EscapeTargets
    BY <1>4 DEF EscapeTargets
  <2>. QED BY <1>2, <2>1, <2>2, <2>3, NoneEscaped DEF Carried
<1>8. Hold(st.stk, st.lvl, st.depth, Unclosed(TokensBelow(0))) /\ Len(st.stk) <= call.doc.room
  <2>1. Unclosed(TokensBelow(0)) = <<>>
    BY <1>3, TokensNext, UnclosedNext
  <2>2. Hold(<<>>, 0, 0, <<>>)
    BY DEF Hold
  <2>. QED BY <1>2, <1>4, <2>1, <2>2
<1>9. Resumes(0)
  BY DEF Resumes
<1>10. Walked(0, 0)
  BY <1>2, <1>4, <1>6, <1>7, <1>8, <1>9 DEF Walked
<1>. QED BY <1>2, <1>5, <1>10 DEF JsonInv

LEMMA JsonKeeps ==
    ASSUME JsonArgs, st \in JsonStates, NEW m \in Nat, NEW r \in Nat, Walked(m, r),
           \/ StartBlock \/ EndBlock \/ Finish \/ Reject \/ Colon \/ Key \/ Comma \/ String
           \/ TooDeep \/ Open \/ Close \/ NumberLast \/ NumberHere \/ NumberOn
    PROVE  \E s : JsonNext(s)
<1>1. CASE Colon \/ Key \/ Comma \/ String
  <2>1. Walking
    BY <1>1 DEF Colon, Key, Comma, String
  <2>. QED BY <1>1, <2>1, PlainKeeps
<1>2. CASE Finish
  BY <1>2, AnswerKeeps DEF Finish
<1>3. CASE Reject
  BY <1>3, AnswerKeeps DEF Reject
<1>4. CASE TooDeep
  BY <1>4, AnswerKeeps DEF TooDeep
<1>5. CASE NumberLast
  BY <1>5, AnswerKeeps DEF NumberLast
<1>6. CASE StartBlock
  BY <1>6, StartBlockKeeps
<1>7. CASE EndBlock
  BY <1>7, EndBlockKeeps
<1>8. CASE Open
  BY <1>8, OpenKeeps
<1>9. CASE Close
  BY <1>9, CloseKeeps
<1>10. CASE NumberHere
  BY <1>10, NumberHereKeeps
<1>11. CASE NumberOn
  BY <1>11, NumberOnKeeps
<1>. QED BY <1>1, <1>2, <1>3, <1>4, <1>5, <1>6, <1>7, <1>8, <1>9, <1>10, <1>11

\* A step of another call, or none, is none of the walk's.
LEMMA JsonUnchanged ==
    ASSUME JsonInv, call' = call, st' = st \/ call.op # "json"
    PROVE  JsonInv'
<1>. SUFFICES ASSUME call.op = "json" PROVE JsonInv'
  BY DEF JsonInv
<1>1. call.doc \in Documents /\ st \in JsonStates /\ st' = st
  BY DEF JsonInv
<1>2. CASE st.pc = "returned"
  BY <1>1, <1>2 DEF JsonInv, Returned
<1>3. CASE st.pc # "returned"
  <2>1. PICK m \in Nat, r \in Nat : Walked(m, r)
    BY <1>3 DEF JsonInv, Returned
  <2>2. Base' = Base /\ Size' = Size
    BY <1>1, SameText DEF Base
  <2>3. Reached' = Reached
    <3>1. st.pc = "tokens" => Reached = Base + FirstIn(st.sig) /\ Reached' = Base' + FirstIn(st'.sig)
      BY <1>1, ReachedIs, ReachedNext
    <3>2. st.pc = "block" => /\ Reached = IF st.pend > Base THEN st.pend ELSE Base
                             /\ Reached' = IF st'.pend > Base' THEN st'.pend ELSE Base'
      BY <1>1, ReachedIs, ReachedNext
    <3>3. st.pc \in {"block", "tokens"}
      BY <1>1, <1>3 DEF JsonStates
    <3>. QED BY <1>1, <2>2, <3>1, <3>2, <3>3
  <2>4. TokensBelow(r)' = TokensBelow(r) /\ (Resumes(r)' <=> Resumes(r))
    BY SameText, SameOfText, Zenon
  <2>5. \A lo : SigFrom(m, lo)' = SigFrom(m, lo)
    BY SameOfText, Zenon
  <2>6. PICK p : p = m + BlockBits
    OBVIOUS
  <2>7. (Carried(m)' <=> Carried(m)) /\ (Carried(p)' <=> Carried(p))
    BY <1>1, SameOfText, Zenon DEF Carried
  <2>8. Walked(m, r)'
    BY <1>1, <2>1, <2>2, <2>3, <2>4, <2>5, <2>6, <2>7, Zenon DEF Walked
  <2>. QED BY <1>1, <2>8 DEF JsonInv
<1>. QED BY <1>2, <1>3

LEMMA JsonInvNext == JsonInv /\ [Next]_textVars => JsonInv'
<1>. SUFFICES ASSUME JsonInv, [Next]_textVars PROVE JsonInv'
  OBVIOUS
<1>1. CASE UNCHANGED <<call, st, out>>
  BY <1>1, JsonUnchanged
<1>2. CASE UNCHANGED textVars
  BY <1>2, JsonUnchanged DEF textVars
<1>3. CASE \/ StartBlock \/ EndBlock \/ Finish \/ Reject \/ Colon \/ Key \/ Comma \/ String
           \/ TooDeep \/ Open \/ Close \/ NumberLast \/ NumberHere \/ NumberOn
  <2>1. call.op = "json" /\ ~Returned
    BY <1>3 DEF StartBlock, EndBlock, Finish, Reject, Colon, Key, Comma, String, TooDeep, Open, Close, NumberLast,
                NumberHere, NumberOn, Opens, Closes, Numeral, Walking, In, Returned
  <2>2. JsonArgs /\ st \in JsonStates
    BY <2>1 DEF JsonInv, JsonArgs
  <2>3. PICK m \in Nat, r \in Nat : Walked(m, r)
    BY <2>1 DEF JsonInv
  <2>4. PICK s : JsonNext(s)
    BY <1>3, <2>2, <2>3, JsonKeeps
  <2>5. call' = call /\ st' \in JsonStates /\ (st'.pc = "returned" \/ \E n \in Nat, q \in Nat : Walked(n, q)')
    BY <2>4 DEF JsonNext
  <2>. QED BY <2>2, <2>5 DEF JsonInv, JsonArgs, Returned
<1>4. CASE CopyRun \/ WidenRune \/ NarrowRune \/ BackToUTF8 \/ TranscodeEnd
  <2>1. call.op = "utf" /\ call' = call
    BY <1>4 DEF CopyRun, WidenRune, NarrowRune, BackToUTF8, TranscodeEnd, Turning, Turn, In
  <2>. QED BY <2>1, JsonUnchanged
<1>. QED BY <1>1, <1>2, <1>3, <1>4 DEF Next, Searching, Apart

THEOREM JsonInvariant == Spec => []JsonInv
<1>. QED BY JsonStarts, JsonInvNext, PTL DEF Spec

\* However long the blocks, the words and the numbers of a document are: in every state the
\* word and the stack hold the kinds of the containers open at the byte that is reached, a
\* level for each, and no more words than there is room for; the three carries into a
\* block are what the bytes before it make them; and what is left of a block to walk are
\* significant bytes of it (internal/ref/text.go:1267-1285, 1356-1378, 1444-1451).
THEOREM NestingIsKept == Spec => []NestingKept
<1>1. JsonInv => NestingKept
  <2>. SUFFICES ASSUME JsonInv, call.op = "json", ~Returned PROVE NestingKept
    BY DEF NestingKept
  <2>1. JsonArgs /\ st \in JsonStates
    BY DEF JsonInv, JsonArgs
  <2>2. PICK m \in Nat, r \in Nat : Walked(m, r)
    BY DEF JsonInv
  <2>3. /\ m = Base /\ r = Reached /\ Len(st.stk) <= call.doc.room
        /\ Hold(st.stk, st.lvl, st.depth, Unclosed(TokensBelow(r)))
        /\ st.pc = "block" => Carried(m) /\ st.sig = {}
        /\ st.pc = "tokens" => \E lo \in 0 .. BlockBits : st.sig = SigFrom(m, lo)
    BY <2>2, Zenon DEF Walked
  <2>. DEFINE open == Unclosed(TokensBelow(Reached))
  <2>4. /\ st.depth = Len(open)
        /\ \A k \in 1 .. st.depth : KeptKind(k) = open[k]
        /\ Len(st.stk) = IF st.depth = 0 THEN 0 ELSE (st.depth - 1) \div LevelBits
        /\ Len(st.stk) <= call.doc.room
    BY <2>3, Zenon DEF Hold, KeptKind, KindIn
  <2>5. ASSUME st.pc = "block", Base <= Size
        PROVE  /\ st.ec <=> EscapedAt(Base)
               /\ st.sc <=> Base - 1 \in StringBytes
               /\ st.lead <=> Base \in EscapeTargets
    <3>1. Carried(m)
      BY <2>3, <2>5
    <3>2. End(m) = m
      <4>1. PICK l \in Nat : l = Size
        BY <2>1, TextIs
      <4>. QED BY <2>3, <2>5, <4>1 DEF End
    <3>. QED BY <2>3, <2>5, <3>1, <3>2, Zenon DEF Carried
  <2>6. \A x \in st.sig : Base + x \in Significant
    <3>1. CASE st.pc = "block"
      BY <2>3, <3>1
    <3>2. CASE st.pc = "tokens"
      BY <2>3, <3>2 DEF SigFrom
    <3>3. st.pc \in {"block", "tokens"}
      BY <2>1 DEF JsonStates, Returned
    <3>. QED BY <3>1, <3>2, <3>3
  <2>. QED BY <2>4, <2>5, <2>6, Zenon DEF NestingKept
<1>. QED BY JsonInvariant, <1>1, PTL

-----------------------------------------------------------------------------
(* The grammar: which token may follow, said of the tokens before it.      *)

EndsIn(s, C) == s # <<>> /\ s[Len(s)] \in C
InnerIs(s, c) == Unclosed(s) # <<>> /\ Unclosed(s)[Len(Unclosed(s))] = c

\* A string behind s would be a key.
KeyMay(s) == EndsIn(s, {"{", ","}) /\ InnerIs(s, "{")

\* The last of s is a key, the end of a value.
KeyLast(s) == EndsIn(s, {"q"}) /\ KeyMay(SubSeq(s, 1, Len(s) - 1))
ValueLast(s) == EndsIn(s, {"d", "}", "]", "q"}) /\ ~KeyLast(s)

StartMay(s) == s = <<>> \/ EndsIn(s, {":", "["}) \/ (EndsIn(s, {","}) /\ InnerIs(s, "["))

\* MayFollow, of the tokens s and the one behind them.
Follow(s, c) ==
    \/ c \in {"d", "[", "{", "q"} /\ StartMay(s)
    \/ c = "q" /\ KeyMay(s)
    \/ c = ":" /\ KeyLast(s)
    \/ c = "," /\ Unclosed(s) # <<>> /\ ValueLast(s)
    \/ c = "}" /\ InnerIs(s, "{") /\ (EndsIn(s, {"{"}) \/ ValueLast(s))
    \/ c = "]" /\ InnerIs(s, "[") /\ (EndsIn(s, {"["}) \/ ValueLast(s))

LEMMA AroundIs ==
    ASSUME NEW s \in Seq(Chars), NEW k \in 1 .. Len(s) + 1
    PROVE  Around(s)[k] = Unclosed(SubSeq(s, 1, k - 1))
BY DEF Around

LEMMA BeginningOf ==
    ASSUME NEW s \in Seq(Chars), NEW k \in 0 .. Len(s)
    PROVE  LET u == SubSeq(s, 1, k)
           IN /\ u \in Seq(Chars) /\ Len(u) = k /\ (u = <<>> <=> k = 0)
              /\ \A x \in 1 .. k : u[x] = s[x]
              /\ k > 0 => u[Len(u)] = s[k]
              /\ \A j \in 0 .. k : SubSeq(u, 1, j) = SubSeq(s, 1, j)
              /\ k = Len(s) => u = s
<1>. DEFINE u == SubSeq(s, 1, k)
<1>1. PICK n \in Nat : n = Len(s)
  OBVIOUS
<1>2. u \in Seq(Chars) /\ Len(u) = k /\ \A x \in 1 .. k : u[x] = s[x]
  OBVIOUS
<1>3. u = <<>> <=> k = 0
  BY <1>2
<1>4. k > 0 => u[Len(u)] = s[k]
  BY <1>2
<1>5. ASSUME NEW j \in 0 .. k PROVE SubSeq(u, 1, j) = SubSeq(s, 1, j)
  <2>1. /\ SubSeq(s, 1, j) \in Seq(Chars) /\ Len(SubSeq(s, 1, j)) = j
        /\ \A x \in 1 .. j : SubSeq(s, 1, j)[x] = s[x]
    OBVIOUS
  <2>. HIDE DEF u
  <2>2. /\ SubSeq(u, 1, j) \in Seq(Chars) /\ Len(SubSeq(u, 1, j)) = j
        /\ \A x \in 1 .. j : SubSeq(u, 1, j)[x] = u[x]
    BY <1>2
  <2>. QED BY <1>2, <2>1, <2>2, SeqEqual
<1>6. k = Len(s) => u = s
  BY <1>2, SeqEqual
<1>. HIDE DEF u
<1>. QED BY <1>2, <1>3, <1>4, <1>5, <1>6 DEF u

\* Of the tokens of s and those around them, in terms of the tokens before.
LEMMA KeyIs ==
    ASSUME NEW s \in Seq(Chars), NEW k \in 1 .. Len(s)
    PROVE  /\ IsKey(s, Around(s), k) <=> s[k] = "q" /\ KeyMay(SubSeq(s, 1, k - 1))
           /\ KeyLast(SubSeq(s, 1, k)) <=> IsKey(s, Around(s), k)
           /\ ValueLast(SubSeq(s, 1, k)) <=> EndsValue(s, Around(s), k)
<1>1. PICK j \in Nat : j = k - 1 /\ k = j + 1 /\ j \in 0 .. Len(s)
  OBVIOUS
<1>. DEFINE u == SubSeq(s, 1, j)
            t == SubSeq(s, 1, k)
<1>2. (u = <<>> <=> j = 0) /\ (j > 0 => u[Len(u)] = s[j])
  BY <1>1, BeginningOf
<1>3. t # <<>> /\ t[Len(t)] = s[k] /\ Len(t) = k /\ SubSeq(t, 1, j) = u
  <2>1. k \in 0 .. Len(s) /\ k > 0 /\ j \in 0 .. k
    BY <1>1
  <2>. QED BY <2>1, BeginningOf
<1>4. Around(s)[k] = Unclosed(u)
  BY <1>1, AroundIs
<1>. HIDE DEF u, t
<1>5. Inside(Around(s), k, "{") <=> InnerIs(u, "{")
  BY <1>4 DEF Inside, InnerIs
<1>6. IsKey(s, Around(s), k) <=> s[k] = "q" /\ KeyMay(u)
  <2>1. EndsIn(u, {"{", ","}) <=> k > 1 /\ s[k - 1] \in {"{", ","}
    <3>1. (u # <<>> <=> k > 1) /\ (k > 1 => u[Len(u)] = s[k - 1])
      BY <1>1, <1>2
    <3>. QED BY <3>1, Zenon DEF EndsIn
  <2>. QED BY <1>5, <2>1, Zenon DEF IsKey, KeyMay
<1>7. KeyLast(t) <=> s[k] = "q" /\ KeyMay(u)
  <2>1. EndsIn(t, {"q"}) <=> s[k] = "q"
    BY <1>3 DEF EndsIn
  <2>2. SubSeq(t, 1, Len(t) - 1) = u
    BY <1>1, <1>3
  <2>. QED BY <2>1, <2>2 DEF KeyLast
<1>8. ValueLast(t) <=> EndsValue(s, Around(s), k)
  <2>1. EndsIn(t, {"d", "}", "]", "q"}) <=> s[k] \in {"d", "}", "]", "q"}
    BY <1>3 DEF EndsIn
  <2>. QED BY <1>6, <1>7, <2>1, Zenon DEF ValueLast, EndsValue
<1>. QED BY <1>1, <1>6, <1>7, <1>8 DEF u, t

LEMMA FollowIs ==
    ASSUME NEW s \in Seq(Chars), NEW k \in 1 .. Len(s)
    PROVE  MayFollow(s, Around(s), k) <=> Follow(SubSeq(s, 1, k - 1), s[k])
<1>1. PICK j \in Nat : j = k - 1 /\ k = j + 1 /\ j \in 0 .. Len(s)
  OBVIOUS
<1>. DEFINE u == SubSeq(s, 1, j)
            around == Around(s)
<1>2. (u = <<>> <=> k = 1) /\ (k > 1 => u[Len(u)] = s[k - 1]) /\ u \in Seq(Chars)
  BY <1>1, BeginningOf
<1>3. around[k] = Unclosed(u)
  BY <1>1, AroundIs
<1>4. k > 1 => /\ KeyLast(u) <=> IsKey(s, around, k - 1)
               /\ ValueLast(u) <=> EndsValue(s, around, k - 1)
  BY <1>1, KeyIs
<1>5. IsKey(s, around, k) <=> s[k] = "q" /\ KeyMay(u)
  BY <1>1, KeyIs
<1>6. k = 1 => Unclosed(u) = <<>>
  BY <1>2, UnclosedNext
<1>. HIDE DEF u, around
<1>7. \A b : Inside(around, k, b) <=> InnerIs(u, b)
  BY <1>3 DEF Inside, InnerIs
<1>8. \A C : EndsIn(u, C) <=> k > 1 /\ s[k - 1] \in C
  <2>1. k > 1 <=> u # <<>>
    BY <1>2
  <2>. QED BY <1>2, <2>1 DEF EndsIn
<1>9. StartsValue(s, around, k) <=> StartMay(u)
  <2>1. k = 1 \/ k > 1
    OBVIOUS
  <2>2. StartMay(u) <=> \/ k = 1
                        \/ k > 1 /\ s[k - 1] \in {":", "["}
                        \/ k > 1 /\ s[k - 1] \in {","} /\ Inside(around, k, "[")
    BY <1>2, <1>7, <1>8, Zenon DEF StartMay
  <2>. QED BY <2>1, <2>2, Zenon DEF StartsValue
<1>10. k = 1 => ~InnerIs(u, "{") /\ ~InnerIs(u, "[") /\ ~KeyLast(u) /\ ~ValueLast(u)
  BY <1>2, <1>6 DEF InnerIs, KeyLast, ValueLast, EndsIn
<1>11. k = 1 \/ k > 1
  OBVIOUS
<1>12. PICK c : c = s[k]
  OBVIOUS
<1>13. MayFollow(s, around, k) <=> Follow(u, c)
  <2>1. CASE c \in {"d", "[", "{"}
    BY <1>9, <1>12, <2>1 DEF MayFollow, Follow
  <2>2. CASE c = "q"
    BY <1>5, <1>9, <1>12, <2>2 DEF MayFollow, Follow
  <2>3. CASE c = ":"
    BY <1>4, <1>10, <1>11, <1>12, <2>3 DEF MayFollow, Follow
  <2>4. CASE c = ","
    BY <1>3, <1>4, <1>10, <1>11, <1>12, <2>4 DEF MayFollow, Follow
  <2>5. CASE c = "}"
    <3>1. EndsIn(u, {"{"}) <=> k > 1 /\ s[k - 1] = "{"
      <4>1. EndsIn(u, {"{"}) <=> k > 1 /\ s[k - 1] \in {"{"}
        BY <1>8, Zenon
      <4>. QED BY <4>1
    <3>. QED BY <1>4, <1>7, <1>10, <1>11, <1>12, <2>5, <3>1 DEF MayFollow, Follow
  <2>6. CASE c = "]"
    <3>1. EndsIn(u, {"["}) <=> k > 1 /\ s[k - 1] = "["
      <4>1. EndsIn(u, {"["}) <=> k > 1 /\ s[k - 1] \in {"["}
        BY <1>8, Zenon
      <4>. QED BY <4>1
    <3>. QED BY <1>4, <1>7, <1>10, <1>11, <1>12, <2>6, <3>1 DEF MayFollow, Follow
  <2>7. CASE c \notin {"d", "[", "{", "q", ":", ",", "}", "]"}
    BY <1>12, <2>7 DEF MayFollow, Follow
  <2>. QED BY <2>1, <2>2, <2>3, <2>4, <2>5, <2>6, <2>7
<1>14. u = SubSeq(s, 1, k - 1)
  BY <1>1 DEF u
<1>. QED BY <1>12, <1>13, <1>14 DEF around

LEMMA BeginningNext ==
    /\ IsBeginning(<<>>)
    /\ \A s \in Seq(Chars), c \in Chars : IsBeginning(Append(s, c)) <=> IsBeginning(s) /\ Follow(s, c)
    /\ \A s \in Seq(Chars) : IsBeginning(s) => \A k \in 0 .. Len(s) : IsBeginning(SubSeq(s, 1, k))
<1>1. ASSUME NEW s \in Seq(Chars)
      PROVE  IsBeginning(s) <=> \A k \in 1 .. Len(s) : Follow(SubSeq(s, 1, k - 1), s[k])
  <2>1. DOMAIN s = 1 .. Len(s)
    OBVIOUS
  <2>2. IsBeginning(s) <=> \A k \in 1 .. Len(s) : MayFollow(s, Around(s), k)
    BY <2>1, Zenon DEF IsBeginning
  <2>. QED BY <2>2, FollowIs
<1>2. IsBeginning(<<>>)
  <2>1. <<>> \in Seq(Chars) /\ Len(<<>>) = 0
    OBVIOUS
  <2>2. IsBeginning(<<>>) <=> \A k \in 1 .. Len(<<>>) : Follow(SubSeq(<<>>, 1, k - 1), <<>>[k])
    BY <1>1, <2>1
  <2>. QED BY <2>1, <2>2
<1>3. ASSUME NEW s \in Seq(Chars), NEW c \in Chars
      PROVE  IsBeginning(Append(s, c)) <=> IsBeginning(s) /\ Follow(s, c)
  <2>1. PICK n \in Nat : n = Len(s)
    OBVIOUS
  <2>. DEFINE t == Append(s, c)
  <2>2. t \in Seq(Chars) /\ Len(t) = n + 1 /\ t[n + 1] = c /\ \A k \in 1 .. n : t[k] = s[k]
    BY <2>1, AppendProperties
  <2>. HIDE DEF t
  <2>3. ASSUME NEW k \in 0 .. n PROVE SubSeq(t, 1, k) = SubSeq(s, 1, k)
    <3>1. /\ SubSeq(s, 1, k) \in Seq(Chars) /\ Len(SubSeq(s, 1, k)) = k
          /\ \A x \in 1 .. k : SubSeq(s, 1, k)[x] = s[x]
      BY <2>1, BeginningOf
    <3>2. /\ SubSeq(t, 1, k) \in Seq(Chars) /\ Len(SubSeq(t, 1, k)) = k
          /\ \A x \in 1 .. k : SubSeq(t, 1, k)[x] = t[x]
      BY <2>2, BeginningOf
    <3>. QED BY <2>2, <3>1, <3>2, SeqEqual
  <2>4. SubSeq(s, 1, n) = s
    BY <2>1, BeginningOf
  <2>5. ASSUME NEW k \in 1 .. n
        PROVE  Follow(SubSeq(t, 1, k - 1), t[k]) <=> Follow(SubSeq(s, 1, k - 1), s[k])
    <3>1. k - 1 \in 0 .. n
      OBVIOUS
    <3>2. SubSeq(t, 1, k - 1) = SubSeq(s, 1, k - 1) /\ t[k] = s[k]
      BY <2>2, <2>3, <3>1
    <3>. QED BY <3>2, Zenon
  <2>6. Follow(SubSeq(t, 1, (n + 1) - 1), t[n + 1]) <=> Follow(s, c)
    <3>1. (n + 1) - 1 = n /\ n \in 0 .. n
      OBVIOUS
    <3>2. SubSeq(t, 1, (n + 1) - 1) = s
      BY <2>3, <2>4, <3>1
    <3>. QED BY <2>2, <3>2, Zenon
  <2>7. IsBeginning(t) <=> \A k \in 1 .. n + 1 : Follow(SubSeq(t, 1, k - 1), t[k])
    BY <1>1, <2>2
  <2>8. IsBeginning(s) <=> \A k \in 1 .. n : Follow(SubSeq(s, 1, k - 1), s[k])
    BY <1>1, <2>1
  <2>9. \A k \in 1 .. n + 1 : k \in 1 .. n \/ k = n + 1
    OBVIOUS
  <2>10. n + 1 \in 1 .. n + 1 /\ \A k \in 1 .. n : k \in 1 .. n + 1
    OBVIOUS
  <2>. QED BY <2>5, <2>6, <2>7, <2>8, <2>9, <2>10, Zenon DEF t
<1>4. ASSUME NEW s \in Seq(Chars), IsBeginning(s), NEW k \in 0 .. Len(s) PROVE IsBeginning(SubSeq(s, 1, k))
  <2>. DEFINE u == SubSeq(s, 1, k)
  <2>1. /\ u \in Seq(Chars) /\ Len(u) = k /\ \A x \in 1 .. k : u[x] = s[x]
        /\ \A j \in 0 .. k : SubSeq(u, 1, j) = SubSeq(s, 1, j)
    BY BeginningOf
  <2>2. \A x \in 1 .. Len(s) : Follow(SubSeq(s, 1, x - 1), s[x])
    BY <1>1, <1>4
  <2>. HIDE DEF u
  <2>3. ASSUME NEW x \in 1 .. k PROVE Follow(SubSeq(u, 1, x - 1), u[x])
    <3>1. x - 1 \in 0 .. k /\ x \in 1 .. Len(s)
      OBVIOUS
    <3>2. SubSeq(u, 1, x - 1) = SubSeq(s, 1, x - 1) /\ u[x] = s[x]
      BY <2>1, <3>1
    <3>. QED BY <2>2, <3>1, <3>2, Zenon
  <2>4. IsBeginning(u) <=> \A x \in 1 .. k : Follow(SubSeq(u, 1, x - 1), u[x])
    BY <1>1, <2>1
  <2>. QED BY <2>3, <2>4 DEF u
<1>. QED BY <1>2, <1>3, <1>4

LEMMA DocumentIs ==
    ASSUME NEW s \in Seq(Chars)
    PROVE  IsDocument(s) <=> IsBeginning(s) /\ Unclosed(s) = <<>> /\ ValueLast(s)
<1>1. CASE s = <<>>
  BY <1>1 DEF IsDocument, ValueLast, EndsIn
<1>2. CASE s # <<>>
  <2>1. PICK n \in Nat : n = Len(s) /\ n \in 1 .. Len(s)
    BY <1>2
  <2>2. SubSeq(s, 1, n) = s
    BY <2>1, BeginningOf
  <2>3. ValueLast(SubSeq(s, 1, n)) <=> EndsValue(s, Around(s), n)
    BY <2>1, KeyIs
  <2>. QED BY <1>2, <2>1, <2>2, <2>3, Zenon DEF IsDocument
<1>. QED BY <1>1, <1>2

-----------------------------------------------------------------------------
(* What the walk expects is what may follow.                               *)

\* After the tokens s the walk expects e.
Expected(e, s) ==
    \/ e = "value" /\ (s = <<>> \/ EndsIn(s, {":"}) \/ (EndsIn(s, {","}) /\ InnerIs(s, "[")))
    \/ e = "firstValue" /\ EndsIn(s, {"["}) /\ InnerIs(s, "[")
    \/ e = "firstKey" /\ EndsIn(s, {"{"}) /\ InnerIs(s, "{")
    \/ e = "key" /\ EndsIn(s, {","}) /\ InnerIs(s, "{")
    \/ e = "colon" /\ KeyLast(s)
    \/ e = "after" /\ ValueLast(s)

\* Fits, of the tokens s and the one in hand.
FitsIn(e, s, c) ==
    \/ e = "colon" /\ c = ":"
    \/ e \in {"key", "firstKey"} /\ c = "q"
    \/ e = "after" /\ c = "," /\ Unclosed(s) # <<>>
    \/ e \in {"value", "firstValue"} /\ c \in {"{", "[", "q", "d"}
    \/ e \in {"firstKey", "after"} /\ c = "}" /\ InnerIs(s, "{")
    \/ e \in {"firstValue", "after"} /\ c = "]" /\ InnerIs(s, "[")

LEMMA FitsFollows ==
    ASSUME NEW e, NEW s, NEW c, Expected(e, s)
    PROVE  FitsIn(e, s, c) <=> Follow(s, c)
<1>1. PICK l, some : l = s[Len(s)] /\ some = (s # <<>>)
  OBVIOUS
<1>2. /\ EndsIn(s, {":"}) <=> some /\ l = ":"
      /\ EndsIn(s, {","}) <=> some /\ l = ","
      /\ EndsIn(s, {"["}) <=> some /\ l = "["
      /\ EndsIn(s, {"{"}) <=> some /\ l = "{"
      /\ EndsIn(s, {"q"}) <=> some /\ l = "q"
      /\ EndsIn(s, {":", "["}) <=> some /\ l \in {":", "["}
      /\ EndsIn(s, {"{", ","}) <=> some /\ l \in {"{", ","}
      /\ EndsIn(s, {"d", "}", "]", "q"}) <=> some /\ l \in {"d", "}", "]", "q"}
  BY <1>1, Zenon DEF EndsIn
<1>3. ~(InnerIs(s, "{") /\ InnerIs(s, "["))
  BY DEF InnerIs
<1>4. CASE e = "value"
  BY <1>1, <1>2, <1>3, <1>4 DEF Expected, FitsIn, Follow, StartMay, KeyMay, KeyLast, ValueLast
<1>5. CASE e = "firstValue"
  BY <1>1, <1>2, <1>3, <1>5 DEF Expected, FitsIn, Follow, StartMay, KeyMay, KeyLast, ValueLast
<1>6. CASE e = "firstKey"
  BY <1>1, <1>2, <1>3, <1>6 DEF Expected, FitsIn, Follow, StartMay, KeyMay, KeyLast, ValueLast
<1>7. CASE e = "key"
  BY <1>1, <1>2, <1>3, <1>7 DEF Expected, FitsIn, Follow, StartMay, KeyMay, KeyLast, ValueLast
<1>8. CASE e = "colon"
  BY <1>1, <1>2, <1>3, <1>8 DEF Expected, FitsIn, Follow, StartMay, KeyMay, KeyLast, ValueLast
<1>9. CASE e = "after"
  BY <1>1, <1>2, <1>3, <1>9 DEF Expected, FitsIn, Follow, StartMay, KeyMay, KeyLast, ValueLast
<1>. QED BY <1>4, <1>5, <1>6, <1>7, <1>8, <1>9 DEF Expected

\* What is expected when the token c is taken.
Expects(e, s, c, n) ==
    \/ c = ":" /\ n = "value"
    \/ c = "q" /\ e \in {"key", "firstKey"} /\ n = "colon"
    \/ c = "q" /\ e \in {"value", "firstValue"} /\ n = "after"
    \/ c = "," /\ Unclosed(s) # <<>> /\ n = IF InnerIs(s, "{") THEN "key" ELSE "value"
    \/ c = "{" /\ n = "firstKey"
    \/ c = "[" /\ n = "firstValue"
    \/ c \in {"}", "]", "d"} /\ n = "after"

LEMMA ExpectedNext ==
    ASSUME NEW s \in Seq(Chars), NEW c \in Chars, NEW e, NEW n, Expected(e, s),
           Expects(e, s, c, n)
    PROVE  Expected(n, Append(s, c))
<1>. DEFINE t == Append(s, c)
            open == Unclosed(s)
<1>1. open \in Seq(Brackets) /\ Unclosed(t) = After(open, c)
  BY UnclosedNext
<1>2. PICK k \in Nat : k = Len(s)
  OBVIOUS
<1>3. t \in Seq(Chars) /\ Len(t) = k + 1 /\ t[k + 1] = c /\ t # <<>>
  BY <1>2, AppendProperties
<1>4. SubSeq(t, 1, Len(t) - 1) = s
  BY <1>2, <1>3
<1>5. \A C : EndsIn(t, C) <=> c \in C
  BY <1>3 DEF EndsIn
<1>6. c \in {":", "q", ",", "d"} => \A b : InnerIs(t, b) <=> InnerIs(s, b)
  <2>. HAVE c \in {":", "q", ",", "d"}
  <2>1. Unclosed(t) = open
    BY <1>1, AfterIs
  <2>. QED BY <2>1, Zenon DEF InnerIs
<1>7. c \in Brackets => InnerIs(t, c)
  <2>. HAVE c \in Brackets
  <2>1. Unclosed(t) = Append(open, c)
    BY <1>1, AfterIs
  <2>2. PICK j \in Nat : j = Len(open)
    BY <1>1
  <2>. HIDE DEF open
  <2>3. Append(open, c) # <<>> /\ Len(Append(open, c)) = j + 1 /\ Append(open, c)[j + 1] = c
    BY <1>1, <2>2, AppendProperties
  <2>. QED BY <2>1, <2>3 DEF InnerIs
<1>8. open # <<>> => InnerIs(s, "{") \/ InnerIs(s, "[")
  <2>. HAVE open # <<>>
  <2>. HIDE DEF open
  <2>1. open[Len(open)] \in Brackets
    <3>1. Len(open) \in 1 .. Len(open)
      BY <1>1
    <3>. QED BY <1>1, <3>1
  <2>. QED BY <2>1 DEF InnerIs, Brackets, open
<1>9. KeyLast(t) <=> c = "q" /\ KeyMay(s)
  BY <1>4, <1>5 DEF KeyLast
<1>10. e \in {"key", "firstKey"} => KeyMay(s)
  <2>1. \A b : EndsIn(s, {b}) /\ b \in {"{", ","} => EndsIn(s, {"{", ","})
    BY DEF EndsIn
  <2>. QED BY <2>1 DEF Expected, KeyMay
<1>11. e \in {"value", "firstValue"} => ~KeyMay(s)
  <2>1. ~(InnerIs(s, "{") /\ InnerIs(s, "["))
    BY DEF InnerIs
  <2>2. EndsIn(s, {":"}) \/ s = <<>> => ~EndsIn(s, {"{", ","})
    BY DEF EndsIn
  <2>. QED BY <2>1, <2>2 DEF Expected, KeyMay
<1>12. ValueLast(t) <=> c \in {"d", "}", "]", "q"} /\ ~(c = "q" /\ KeyMay(s))
  BY <1>5, <1>9 DEF ValueLast
<1>. HIDE DEF t, open
<1>13. CASE c = ":"
  BY <1>5, <1>13 DEF Expected, Expects, t
<1>14. CASE c = "q"
  BY <1>9, <1>10, <1>11, <1>12, <1>14 DEF Expected, Expects, t
<1>15. CASE c = ","
  <2>1. EndsIn(t, {","})
    BY <1>5, <1>15
  <2>. QED BY <1>6, <1>8, <1>15, <2>1 DEF Expected, Expects, t, open
<1>16. CASE c = "{"
  BY <1>5, <1>7, <1>16 DEF Expected, Expects, t, Brackets
<1>17. CASE c = "["
  BY <1>5, <1>7, <1>17 DEF Expected, Expects, t, Brackets
<1>18. CASE c \in {"}", "]", "d"}
  BY <1>12, <1>18 DEF Expected, Expects, t
<1>. QED BY <1>13, <1>14, <1>15, <1>16, <1>17, <1>18 DEF Expects

\* The word's last bit is the innermost container.
LEMMA InnermostIs ==
    ASSUME st \in JsonStates, NEW open \in Seq(Brackets), Hold(st.stk, st.lvl, st.depth, open)
    PROVE  /\ st.depth \in Nat /\ (st.depth > 0 <=> open # <<>>)
           /\ st.depth > 0 => (InObject <=> open[Len(open)] = "{") /\ open[Len(open)] \in Brackets
<1>1. PICK d \in Nat, v \in Nat : d = st.depth /\ v = st.lvl /\ d = Len(open)
  BY DEF JsonStates, Hold
<1>2. d > 0 <=> open # <<>>
  BY <1>1
<1>3. ASSUME d > 0 PROVE (InObject <=> open[Len(open)] = "{") /\ open[Len(open)] \in Brackets
  <2>1. d \in 1 .. d /\ d \in 1 .. Len(open)
    BY <1>1, <1>3
  <2>2. open[d] = KindIn(st.stk, v, d, d) /\ Len(st.stk) = (d - 1) \div LevelBits
    BY <1>1, <1>3, <2>1 DEF Hold
  <2>3. PICK x \in Nat : x = (d - 1) \div LevelBits
    <3>1. d - 1 \in Nat
      BY <1>3
    <3>. QED BY <3>1, BitsAre, DivMod
  <2>4. PICK y \in Nat : y = (d - 1) % LevelBits
    <3>1. d - 1 \in Nat
      BY <1>3
    <3>. QED BY <3>1, BitsAre, DivMod
  <2>5. y - y = 0 /\ ~(x < x)
    OBVIOUS
  <2>6. v \div 1 = v
    OBVIOUS
  <2>7. KindIn(st.stk, v, d, d) = IF v % 2 = 1 THEN "{" ELSE "["
    BY <2>2, <2>3, <2>4, <2>5, <2>6, BitWeights, Zenon DEF KindIn
  <2>8. open[d] \in Brackets
    BY <2>1
  <2>. QED BY <1>1, <2>2, <2>7, <2>8 DEF InObject
<1>. QED BY <1>1, <1>2, <1>3

\* What fits the walk's state is what fits the tokens.
LEMMA FitsIs ==
    ASSUME JsonArgs, st \in JsonStates, NEW m \in Nat, NEW r \in Nat, Walked(m, r), Walking
    PROVE  Fits <=> FitsIn(st.expect, TokensBelow(r), Token)
<1>. DEFINE s == TokensBelow(r)
            open == Unclosed(s)
<1>1. open \in Seq(Brackets) /\ Hold(st.stk, st.lvl, st.depth, open)
  BY TokenInHand DEF Walked
<1>2. /\ st.depth \in Nat /\ (st.depth > 0 <=> open # <<>>)
      /\ st.depth > 0 => (InObject <=> open[Len(open)] = "{") /\ open[Len(open)] \in Brackets
  <2>. HIDE DEF open
  <2>. QED BY <1>1, InnermostIs
<1>3. /\ st.depth > 0 <=> Unclosed(s) # <<>>
      /\ st.depth > 0 /\ InObject <=> InnerIs(s, "{")
      /\ st.depth > 0 /\ ~InObject <=> InnerIs(s, "[")
  BY <1>2 DEF InnerIs, Brackets
<1>. HIDE DEF s, open
<1>4. Closes <=> \/ st.expect \in {"firstKey", "after"} /\ Token = "}" /\ InnerIs(s, "{")
                 \/ st.expect \in {"firstValue", "after"} /\ Token = "]" /\ InnerIs(s, "[")
  BY <1>3 DEF Closes
<1>5. st.expect \in {"value", "firstValue", "key", "firstKey", "colon", "after"}
  BY DEF JsonStates
<1>6. CASE st.expect = "colon"
  BY <1>4, <1>6 DEF Fits, FitsIn, s
<1>7. CASE st.expect \in {"key", "firstKey"}
  BY <1>4, <1>7 DEF Fits, FitsIn, s
<1>8. CASE st.expect = "after"
  BY <1>3, <1>4, <1>8 DEF Fits, FitsIn, s
<1>9. CASE st.expect \in {"value", "firstValue"}
  BY <1>4, <1>9 DEF Fits, FitsIn, s
<1>. QED BY <1>5, <1>6, <1>7, <1>8, <1>9

-----------------------------------------------------------------------------
(* What comes before, and what is clean.                                   *)

LEMMA TokensGrow ==
    ASSUME JsonArgs, NEW p \in Nat, NEW q \in Nat, p <= q
    PROVE  \E k \in 0 .. Len(TokensBelow(q)) : TokensBelow(p) = SubSeq(TokensBelow(q), 1, k)
<1>1. PICK l \in Nat : l = Size
  BY TextIs
<1>. DEFINE Has(y) == \E k \in 0 .. Len(TokensBelow(y)) : TokensBelow(p) = SubSeq(TokensBelow(y), 1, k)
            S == {d \in Nat : Has(p + d)}
<1>2. \A y \in Nat : TokensBelow(y) \in Seq(Chars) /\ Len(TokensBelow(y)) \in Nat
  BY TokensNext
<1>3. 0 \in S
  <2>1. PICK s \in Seq(Chars), k \in Nat : s = TokensBelow(p) /\ k = Len(s) /\ k \in 0 .. Len(s)
    BY <1>2
  <2>2. SubSeq(s, 1, k) = s
    BY <2>1, BeginningOf
  <2>3. Has(p)
    BY <2>1, <2>2
  <2>. QED BY <2>3
<1>4. ASSUME NEW d \in Nat, d \in S PROVE d + 1 \in S
  <2>1. PICK y \in Nat : y = p + d /\ y + 1 = p + (d + 1)
    OBVIOUS
  <2>2. Has(y)
    BY <1>4, <2>1
  <2>3. PICK s \in Seq(Chars), t \in Seq(Chars) : s = TokensBelow(y) /\ t = TokensBelow(y + 1)
    BY <1>2
  <2>4. PICK k \in 0 .. Len(s) : TokensBelow(p) = SubSeq(s, 1, k)
    BY <2>2, <2>3
  <2>5. t = s \/ \E c \in Chars : t = Append(s, c)
    <3>1. CASE y < l
      <4>1. Char(y) \in Chars
        BY <1>1, <3>1, TextIs
      <4>. QED BY <1>1, <2>3, <3>1, <4>1, TokensNext
    <3>2. CASE ~(y < l)
      <4>1. y >= l /\ y + 1 >= l
        BY <3>2
      <4>. QED BY <1>1, <2>3, <4>1, TokensNext
    <3>. QED BY <3>1, <3>2
  <2>6. k \in 0 .. Len(t) /\ SubSeq(t, 1, k) = SubSeq(s, 1, k)
    <3>1. CASE t = s
      BY <3>1
    <3>2. ASSUME NEW c \in Chars, t = Append(s, c) PROVE k \in 0 .. Len(t) /\ SubSeq(t, 1, k) = SubSeq(s, 1, k)
      <4>1. Len(t) = Len(s) + 1 /\ \A x \in 1 .. Len(s) : t[x] = s[x]
        BY <3>2, AppendProperties
      <4>2. k \in 0 .. Len(t)
        BY <4>1
      <4>3. /\ SubSeq(s, 1, k) \in Seq(Chars) /\ Len(SubSeq(s, 1, k)) = k
            /\ \A x \in 1 .. k : SubSeq(s, 1, k)[x] = s[x]
        BY BeginningOf
      <4>4. /\ SubSeq(t, 1, k) \in Seq(Chars) /\ Len(SubSeq(t, 1, k)) = k
            /\ \A x \in 1 .. k : SubSeq(t, 1, k)[x] = t[x]
        BY <4>2, BeginningOf
      <4>. QED BY <4>1, <4>2, <4>3, <4>4, SeqEqual
    <3>. QED BY <2>5, <3>1, <3>2
  <2>7. Has(y + 1)
    BY <2>3, <2>4, <2>6
  <2>. QED BY <2>1, <2>7
<1>5. PICK d \in Nat : q = p + d
  <2>1. q - p \in Nat /\ q = p + (q - p)
    OBVIOUS
  <2>. QED BY <2>1
<1>. HIDE DEF S
<1>6. d \in S
  BY <1>3, <1>4, SetInduction
<1>. QED BY <1>5, <1>6 DEF S

\* No more than MostLevels are open after any of the tokens s.
Shallow(s) == \A k \in 0 .. Len(s) : Len(Unclosed(SubSeq(s, 1, k))) <= MostLevels

LEMMA ShallowNext ==
    ASSUME NEW s \in Seq(Chars), NEW c \in Chars, Shallow(s), Len(Unclosed(Append(s, c))) <= MostLevels
    PROVE  Shallow(Append(s, c))
<1>1. PICK n \in Nat : n = Len(s)
  OBVIOUS
<1>. DEFINE t == Append(s, c)
<1>2. t \in Seq(Chars) /\ Len(t) = n + 1 /\ \A x \in 1 .. n : t[x] = s[x]
  BY <1>1, AppendProperties
<1>3. Len(Unclosed(t)) <= MostLevels
  OBVIOUS
<1>. HIDE DEF t
<1>4. ASSUME NEW k \in 0 .. n + 1 PROVE Len(Unclosed(SubSeq(t, 1, k))) <= MostLevels
  <2>1. CASE k = n + 1
    <3>1. SubSeq(t, 1, k) = t
      BY <1>2, <2>1, BeginningOf
    <3>. QED BY <1>3, <3>1
  <2>2. CASE k # n + 1
    <3>1. k \in 0 .. n
      BY <2>2
    <3>2. /\ SubSeq(s, 1, k) \in Seq(Chars) /\ Len(SubSeq(s, 1, k)) = k
          /\ \A x \in 1 .. k : SubSeq(s, 1, k)[x] = s[x]
      BY <1>1, <3>1, BeginningOf
    <3>3. /\ SubSeq(t, 1, k) \in Seq(Chars) /\ Len(SubSeq(t, 1, k)) = k
          /\ \A x \in 1 .. k : SubSeq(t, 1, k)[x] = t[x]
      BY <1>2, BeginningOf
    <3>4. SubSeq(t, 1, k) = SubSeq(s, 1, k)
      BY <1>2, <3>1, <3>2, <3>3, SeqEqual
    <3>. QED BY <1>1, <3>1, <3>4 DEF Shallow
  <2>. QED BY <2>1, <2>2
<1>. QED BY <1>2, <1>4 DEF Shallow, t

\* What begins well did so all along, and what is not deep has not been.
LEMMA Before ==
    ASSUME JsonArgs, NEW p \in Nat, NEW q \in Nat, p <= q
    PROVE  /\ IsBeginning(TokensBelow(q)) => IsBeginning(TokensBelow(p))
           /\ Shallow(TokensBelow(q)) => Len(Unclosed(TokensBelow(p))) <= MostLevels
<1>1. TokensBelow(q) \in Seq(Chars)
  BY TokensNext
<1>2. PICK k \in 0 .. Len(TokensBelow(q)) : TokensBelow(p) = SubSeq(TokensBelow(q), 1, k)
  BY TokensGrow
<1>. QED BY <1>1, <1>2, BeginningNext DEF Shallow

LEMMA CleanBefore ==
    ASSUME JsonArgs, NEW p \in Nat, NEW q \in Nat, p <= q, CleanBelow(q)
    PROVE  CleanBelow(p)
<1>1. StringBytes \subseteq Nat /\ EscapeTargets \subseteq Nat
  <2>1. PICK l \in Nat : l = Size
    BY TextIs
  <2>2. StringBytes \subseteq 0 .. l - 1 /\ EscapeTargets \subseteq 1 .. l
    BY <2>1, StringNext DEF EscapeTargets
  <2>. QED BY <2>1, <2>2
<1>2. \A x \in Nat : x < p => x < q
  OBVIOUS
<1>. QED BY <1>1, <1>2 DEF CleanBelow

-----------------------------------------------------------------------------
(* The walk of a beginning of a document.                                  *)

LEMMA LevelsFit ==
    ASSUME JsonArgs, NEW s, NEW v, NEW d, NEW open \in Seq(Brackets), Hold(s, v, d, open), Len(s) <= call.doc.room
    PROVE  MostLevels \in Nat /\ Len(open) <= MostLevels
<1>1. PICK L \in Nat, room \in Nat : L = LevelBits /\ L >= 1 /\ room = call.doc.room
  BY BitsAre, TextIs
<1>2. PICK k \in Nat : k = Len(open) /\ k = d
  BY DEF Hold
<1>3. L * (room + 1) = room * L + L /\ room * L \in Nat
  OBVIOUS
<1>4. CASE k = 0
  BY <1>1, <1>2, <1>3, <1>4 DEF MostLevels
<1>5. CASE k # 0
  <2>1. PICK j \in Nat : k = j + 1 /\ j = d - 1
    <3>1. k - 1 \in Nat /\ k = (k - 1) + 1
      BY <1>5
    <3>. QED BY <1>2, <3>1
  <2>2. PICK q \in Nat, y \in Nat : q = j \div L /\ y < L /\ j = q * L + y
    BY <1>1, DivMod
  <2>3. q <= room
    BY <1>1, <1>2, <1>5, <2>1, <2>2 DEF Hold
  <2>4. PICK z \in Nat : room = q + z
    <3>1. room - q \in Nat /\ room = q + (room - q)
      BY <2>3
    <3>. QED BY <3>1
  <2>5. (q + z) * L = q * L + z * L /\ q * L \in Nat /\ z * L \in Nat
    OBVIOUS
  <2>6. room * L = q * L + z * L
    BY <2>4, <2>5
  <2>7. PICK a \in Nat, b \in Nat : a = q * L /\ b = z * L
    BY <2>5
  <2>8. j = a + y /\ room * L = a + b /\ y < L
    BY <2>2, <2>6, <2>7
  <2>9. k <= a + b + L
    <3>1. y \in Nat /\ a \in Nat /\ b \in Nat /\ L \in Nat /\ k = a + y + 1
      BY <2>1, <2>8
    <3>. QED BY <2>8, <3>1
  <2>10. MostLevels = L * (room + 1)
    BY <1>1, Zenon DEF MostLevels
  <2>11. MostLevels = a + b + L
    BY <1>3, <2>8, <2>10
  <2>12. a + b + L \in Nat
    OBVIOUS
  <2>. QED BY <1>2, <2>9, <2>11, <2>12
<1>. QED BY <1>4, <1>5

\* The tokens seen begin a document, the walk expects what may follow them, they are not too
\* deep, and the strings of the blocks behind the masks are clean.
SoundSoFar(m, s) ==
    /\ IsBeginning(s) /\ Expected(st.expect, s) /\ Shallow(s)
    /\ st.pc = "tokens" => CleanBelow(m + BlockBits)
    /\ st.pc = "block" => CleanBelow(m)

\* A walk that has not returned.
Underway == \E m \in Nat, r \in Nat : Walked(m, r) /\ TokensBelow(r) \in Seq(Chars) /\ SoundSoFar(m, TokensBelow(r))

\* What the answer is to be.
Verdict ==
    IF \E p \in DeepPlaces : CleanBelow((p \div BlockBits + 1) * BlockBits) THEN -1
    ELSE IF CleanBelow(Size + 1) /\ Size - 1 \notin StringBytes /\ IsDocument(TokensBelow(Size)) THEN 1
    ELSE 0

LEMMA SameVerdict ==
    ASSUME call' = call
    PROVE  /\ MostLevels' = MostLevels /\ \A s : Shallow(s)' <=> Shallow(s)
           /\ \A p : CleanBelow(p)' <=> CleanBelow(p)
           /\ Verdict' = Verdict
<1>1. MostLevels' = MostLevels
  BY DEF MostLevels
<1>2. \A s : Shallow(s)' <=> Shallow(s)
  BY <1>1, Zenon DEF Shallow
<1>3. /\ Size' = Size /\ \A p : Char(p)' = Char(p)
      /\ StringBytes' = StringBytes /\ EscapeTargets' = EscapeTargets
      /\ TokenPlaces' = TokenPlaces /\ \A p : TokensBelow(p)' = TokensBelow(p)
  BY SameText
<1>4. \A p : Escapable(p)' <=> Escapable(p)
  BY <1>3, Zenon DEF Escapable
<1>5. \A p : CleanBelow(p)' <=> CleanBelow(p)
  BY <1>3, <1>4, Zenon DEF CleanBelow
<1>6. DeepPlaces' = DeepPlaces
  BY <1>1, <1>3, Zenon DEF DeepPlaces
<1>7. TokensBelow(Size)' = TokensBelow(Size)
  BY <1>3, Zenon DEF TokensBelow
<1>8. CleanBelow(Size + 1)' <=> CleanBelow(Size + 1)
  BY <1>3, <1>4, Zenon DEF CleanBelow
<1>9. Verdict' = Verdict
  BY <1>3, <1>5, <1>6, <1>7, <1>8, Zenon DEF Verdict
<1>. QED BY <1>1, <1>2, <1>5, <1>9

\* Where the walk is after a step is as sound as where it was, if the step takes no token.
LEMMA SoundLands ==
    ASSUME JsonArgs, NEW s \in Seq(Chars), JsonNext(s), st'.pc # "returned",
           IsBeginning(s), Expected(st'.expect, s),
           Shallow(s) \/ \E b \in Seq(Chars), c \in Chars : s = Append(b, c) /\ Shallow(b),
           st'.pc = "tokens" => CleanBelow(Base' + BlockBits),
           st'.pc = "block" => CleanBelow(Base')
    PROVE  Underway'
<1>1. PICK m \in Nat, q \in Nat : Walked(m, q)' /\ TokensBelow(q) = s
  BY DEF JsonNext
<1>2. call' = call
  BY DEF JsonNext
<1>3. TokensBelow(q)' = s
  BY <1>1, <1>2, SameText, Zenon
<1>4. m = Base' /\ Hold(st'.stk, st'.lvl, st'.depth, Unclosed(s)) /\ Len(st'.stk) <= call.doc.room
  BY <1>1, <1>2, <1>3, Zenon DEF Walked
<1>5. Shallow(s)
  <2>1. Unclosed(s) \in Seq(Brackets)
    BY UnclosedNext
  <2>2. Len(Unclosed(s)) <= MostLevels
    BY <1>4, <2>1, LevelsFit
  <2>. QED BY <2>2, ShallowNext
<1>6. Shallow(s)'
  BY <1>2, <1>5, SameVerdict, Zenon
<1>7. PICK p : p = m + BlockBits
  OBVIOUS
<1>8. (st'.pc = "tokens" => CleanBelow(p)') /\ (st'.pc = "block" => CleanBelow(m)')
  BY <1>2, <1>4, <1>7, SameVerdict, Zenon
<1>9. SoundSoFar(m, s)'
  BY <1>6, <1>7, <1>8 DEF SoundSoFar
<1>10. (Walked(m, q) /\ TokensBelow(q) \in Seq(Chars) /\ SoundSoFar(m, TokensBelow(q)))'
  BY <1>1, <1>3, <1>9
<1>. QED BY <1>10 DEF Underway

\* A step that takes a token, which fits.
LEMMA TokenLands ==
    ASSUME JsonArgs, st \in JsonStates, NEW m \in Nat, NEW r \in Nat, Walked(m, r), Walking,
           SoundSoFar(m, TokensBelow(r)), JsonNext(Append(TokensBelow(r), Token)), st'.pc # "returned",
           FitsIn(st.expect, TokensBelow(r), Token), Expects(st.expect, TokensBelow(r), Token, st'.expect),
           st'.pc = "tokens" => CleanBelow(Base' + BlockBits),
           st'.pc = "block" => CleanBelow(Base')
    PROVE  Underway'
<1>. DEFINE s == TokensBelow(r)
            t == Append(s, Token)
<1>1. s \in Seq(Chars) /\ Token \in Chars
  BY TokenInHand
<1>2. t \in Seq(Chars)
  BY <1>1, AppendProperties
<1>3. IsBeginning(s) /\ Expected(st.expect, s) /\ Shallow(s)
  BY DEF SoundSoFar
<1>4. FitsIn(st.expect, s, Token) /\ Expects(st.expect, s, Token, st'.expect) /\ JsonNext(t)
  OBVIOUS
<1>. HIDE DEF s
<1>5. IsBeginning(t)
  BY <1>1, <1>3, <1>4, FitsFollows, BeginningNext
<1>6. Expected(st'.expect, t)
  BY <1>1, <1>3, <1>4, ExpectedNext
<1>7. Shallow(t) \/ \E b \in Seq(Chars), c \in Chars : t = Append(b, c) /\ Shallow(b)
  BY <1>1, <1>3
<1>. HIDE DEF t
<1>. QED BY <1>2, <1>4, <1>5, <1>6, <1>7, SoundLands

\* A walk that stays in its block.
LEMMA StaysClean ==
    ASSUME JsonArgs, st \in JsonStates, NEW m \in Nat, NEW r \in Nat, Walked(m, r), Walking, SoundSoFar(m, TokensBelow(r)),
           st'.blk = st.blk
    PROVE  CleanBelow(Base' + BlockBits)
<1>1. CleanBelow(m + BlockBits) /\ m = Base /\ Base' = Base
  BY DEF SoundSoFar, Walked, Walking, In, Base
<1>. QED BY <1>1

LEMMA StepsLand ==
    ASSUME JsonArgs, st \in JsonStates, NEW m \in Nat, NEW r \in Nat, Walked(m, r), SoundSoFar(m, TokensBelow(r)),
           Colon \/ Key \/ Comma \/ String \/ Open \/ Close
    PROVE  Underway'
<1>. DEFINE s == TokensBelow(r)
<1>1. Walking
  BY DEF Colon, Key, Comma, String, Open, Opens, Close, Closes
<1>2. JsonNext(Append(s, Token))
  BY <1>1, PlainKeeps, OpenKeeps, CloseKeeps
<1>3. Unclosed(s) \in Seq(Brackets) /\ Hold(st.stk, st.lvl, st.depth, Unclosed(s))
  BY <1>1, TokenInHand DEF Walked
<1>4. /\ st.depth > 0 <=> Unclosed(s) # <<>>
      /\ st.depth > 0 => (InObject <=> InnerIs(s, "{"))
  <2>. DEFINE open == Unclosed(s)
  <2>1. open \in Seq(Brackets) /\ Hold(st.stk, st.lvl, st.depth, open)
    BY <1>3
  <2>. HIDE DEF open
  <2>2. (st.depth > 0 <=> open # <<>>) /\ (st.depth > 0 => (InObject <=> open[Len(open)] = "{"))
    BY <2>1, InnermostIs
  <2>. QED BY <2>2 DEF open, InnerIs
<1>5. /\ st'.pc = "tokens" /\ st'.blk = st.blk
      /\ Expects(st.expect, s, Token, st'.expect)
  <2>. HIDE DEF s
  <2>1. CASE Colon
    <3>1. st'.pc = "tokens" /\ st'.blk = st.blk /\ st'.expect = "value" /\ Token = ":"
      BY <1>1, <2>1 DEF Colon, Step, JsonStates, Walking, In
    <3>. QED BY <3>1 DEF Expects
  <2>2. CASE Key
    <3>1. st'.pc = "tokens" /\ st'.blk = st.blk /\ st'.expect = "colon" /\ Token = "q" /\ st.expect \in {"key", "firstKey"}
      BY <1>1, <2>2 DEF Key, Step, JsonStates, Walking, In
    <3>. QED BY <3>1 DEF Expects
  <2>3. CASE Comma
    <3>1. /\ st'.pc = "tokens" /\ st'.blk = st.blk /\ Token = "," /\ st.depth > 0
          /\ st'.expect = IF InObject THEN "key" ELSE "value"
      BY <1>1, <2>3 DEF Comma, Step, JsonStates, Walking, In
    <3>. QED BY <1>4, <3>1 DEF Expects
  <2>4. CASE String
    <3>1. st'.pc = "tokens" /\ st'.blk = st.blk /\ st'.expect = "after" /\ Token = "q" /\ st.expect \in {"value", "firstValue"}
      BY <1>1, <2>4 DEF String, WantsValue, Step, JsonStates, Walking, In
    <3>. QED BY <3>1 DEF Expects
  <2>5. CASE Open
    <3>1. /\ st'.pc = "tokens" /\ st'.blk = st.blk /\ Token \in {"{", "["}
          /\ st'.expect = IF Token = "{" THEN "firstKey" ELSE "firstValue"
      BY <1>1, <2>5 DEF Open, Opens, Step, JsonStates, Walking, In
    <3>. QED BY <3>1 DEF Expects
  <2>6. CASE Close
    <3>1. st'.pc = "tokens" /\ st'.blk = st.blk /\ st'.expect = "after" /\ Token \in {"}", "]"}
      BY <1>1, <2>6 DEF Close, Closes, Step, JsonStates, Walking, In
    <3>. QED BY <3>1 DEF Expects
  <2>. QED BY <2>1, <2>2, <2>3, <2>4, <2>5, <2>6
<1>6. FitsIn(st.expect, s, Token)
  <2>1. Fits
    BY <1>1 DEF Fits, Colon, Key, Comma, String, WantsValue, Open, Opens, Close, Closes
  <2>. QED BY <1>1, <2>1, FitsIs
<1>7. CleanBelow(Base' + BlockBits)
  BY <1>1, <1>5, StaysClean
<1>. QED BY <1>1, <1>2, <1>5, <1>6, <1>7, TokenLands

\* The number in hand, up to where it ends.
LEMMA NumberInHand ==
    ASSUME JsonArgs, st \in JsonStates, NEW m \in Nat, NEW r \in Nat, Walked(m, r), SoundSoFar(m, TokensBelow(r)), Numeral
    PROVE  /\ Walking /\ m = Base /\ NumberEnd \in Nat /\ r < NumberEnd /\ NumberEnd <= Size
           /\ \A p \in Nat : r <= p /\ p < NumberEnd => Char(p) = "d" /\ p \notin StringBytes
           /\ TokensBelow(NumberEnd) = Append(TokensBelow(r), Token)
           /\ CleanBelow(NumberEnd) /\ (NumberEnd = Size => CleanBelow(Size + 1))
           /\ Token = "d" /\ FitsIn(st.expect, TokensBelow(r), Token) /\ Expects(st.expect, TokensBelow(r), Token, "after")
<1>1. Walking /\ Token = "d" /\ st.expect \in {"value", "firstValue"}
  BY DEF Numeral, WantsValue
<1>2. PICK n \in Nat, l \in Nat : n = BlockBits /\ n >= 2 /\ l = Size
  BY BitsAre, TextIs
<1>3. PICK f \in 0 .. n - 1 : f = FirstPlace /\ r = m + f /\ r \in Significant /\ Resumes(r) /\ Char(r) = "d"
  BY <1>1, <1>2, TokenInHand
<1>4. PICK e : e = NumberEnd
  OBVIOUS
<1>5. m = Base /\ r < l /\ CleanBelow(m + n)
  BY <1>1, <1>2, <1>3, SignificantIs DEF Walked, SoundSoFar, Walking, In
<1>6. e \in r + 1 .. l /\ (\A p \in r .. e - 1 : Char(p) = "d") /\ (e < l => Char(e) # "d")
  BY <1>2, <1>3, <1>4, <1>5, NumberEndIs
<1>7. e \in Nat /\ r < e /\ e <= l
  BY <1>6
<1>8. /\ TokensBelow(e) = Append(TokensBelow(r), "d")
      /\ \A p \in r .. e - 1 : p \notin StringBytes
      /\ \A p \in r + 1 .. e : p \notin EscapeTargets
  BY <1>2, <1>3, <1>6, NumberTaken
<1>9. ASSUME NEW p \in Nat, r <= p, p < e PROVE Char(p) = "d" /\ p \notin StringBytes
  <2>1. p \in r .. e - 1
    BY <1>7, <1>9
  <2>. QED BY <1>6, <1>8, <2>1
<1>10. StringBytes \subseteq 0 .. l - 1 /\ EscapeTargets \subseteq 1 .. l
  BY <1>2, StringNext DEF EscapeTargets
<1>11. ASSUME NEW x \in StringBytes, x < e PROVE Char(x) \notin Controls
  <2>1. x \in Nat
    BY <1>2, <1>10
  <2>2. x < r
    BY <1>9, <1>11, <2>1
  <2>3. x < m + n
    BY <1>3, <2>1, <2>2
  <2>. QED BY <1>5, <2>3 DEF CleanBelow
<1>12. ASSUME NEW x \in EscapeTargets, x <= e PROVE Escapable(x)
  <2>1. x \in Nat
    BY <1>2, <1>10
  <2>2. ~(x \in r + 1 .. e)
    BY <1>8
  <2>3. x < m + n
    BY <1>3, <1>7, <1>12, <2>1, <2>2
  <2>. QED BY <1>5, <2>3 DEF CleanBelow
<1>13. CleanBelow(e)
  <2>1. \A x \in EscapeTargets : x < e => x <= e
    BY <1>2, <1>7, <1>10
  <2>. QED BY <1>11, <1>12, <2>1, Zenon DEF CleanBelow
<1>14. e = l => CleanBelow(l + 1)
  <2>. HAVE e = l
  <2>1. (\A x \in StringBytes : x < l) /\ (\A x \in EscapeTargets : x <= l)
    BY <1>2, <1>10
  <2>. QED BY <1>11, <1>12, <2>1, Zenon DEF CleanBelow
<1>15. FitsIn(st.expect, TokensBelow(r), Token) /\ Expects(st.expect, TokensBelow(r), Token, "after")
  BY <1>1 DEF FitsIn, Expects
<1>. QED BY <1>1, <1>2, <1>4, <1>5, <1>7, <1>8, <1>9, <1>13, <1>14, <1>15

LEMMA NumberLands ==
    ASSUME JsonArgs, st \in JsonStates, NEW m \in Nat, NEW r \in Nat, Walked(m, r), SoundSoFar(m, TokensBelow(r)),
           NumberHere \/ NumberOn
    PROVE  Underway'
<1>. DEFINE s == TokensBelow(r)
<1>1. Numeral
  BY DEF NumberHere, NumberOn
<1>2. JsonNext(Append(s, Token))
  BY NumberHereKeeps, NumberOnKeeps
<1>3. PICK e \in Nat : e = NumberEnd /\ CleanBelow(e)
  BY <1>1, NumberInHand
<1>4. Walking /\ FitsIn(st.expect, s, Token) /\ Expects(st.expect, s, Token, "after")
  BY <1>1, NumberInHand
<1>5. CASE NumberHere
  <2>1. st'.pc = "tokens" /\ st'.blk = st.blk /\ st'.expect = "after"
    BY <1>4, <1>5 DEF NumberHere, JsonStates, Walking, In
  <2>2. CleanBelow(Base' + BlockBits)
    BY <1>4, <2>1, StaysClean
  <2>. QED BY <1>2, <1>4, <2>1, <2>2, TokenLands
<1>6. CASE NumberOn
  <2>1. st'.pc = "block" /\ st'.blk = e \div BlockBits /\ st'.expect = "after"
    BY <1>3, <1>6 DEF NumberOn, JsonStates
  <2>2. PICK n \in Nat : n = BlockBits /\ n >= 1
    BY BitsAre
  <2>3. PICK b \in Nat, y \in Nat : b = e \div n /\ e = b * n + y
    <3>1. e \div n \in Nat /\ e % n \in Nat /\ e = (e \div n) * n + (e % n)
      BY <2>2, DivMod
    <3>. QED BY <3>1
  <2>4. Base' = b * n
    BY <2>1, <2>2, <2>3 DEF Base
  <2>5. PICK t \in Nat : t = b * n
    OBVIOUS
  <2>6. t <= e
    BY <2>3, <2>5
  <2>7. CleanBelow(Base')
    BY <1>3, <2>4, <2>5, <2>6, CleanBefore
  <2>. QED BY <1>2, <1>4, <2>1, <2>7, TokenLands
<1>. QED BY <1>5, <1>6

LEMMA EndBlockLands ==
    ASSUME JsonArgs, st \in JsonStates, NEW m \in Nat, NEW r \in Nat, Walked(m, r), SoundSoFar(m, TokensBelow(r)), EndBlock
    PROVE  Underway'
<1>1. JsonNext(TokensBelow(r)) /\ TokensBelow(r) \in Seq(Chars)
  BY EndBlockKeeps, TokensNext
<1>2. st.pc = "tokens" /\ st'.pc = "block" /\ st'.blk = st.blk + 1 /\ st'.expect = st.expect /\ st.blk \in Nat
  BY DEF EndBlock, In, JsonStates
<1>3. IsBeginning(TokensBelow(r)) /\ Expected(st'.expect, TokensBelow(r)) /\ Shallow(TokensBelow(r))
  BY <1>2 DEF SoundSoFar
<1>4. CleanBelow(Base')
  <2>1. Base' = m + BlockBits
    BY <1>2, HeldIs DEF Base, Walked
  <2>. QED BY <1>2, <2>1 DEF SoundSoFar
<1>. QED BY <1>1, <1>2, <1>3, <1>4, SoundLands

\* What StartBlock looks at tells whether the block is clean.
LEMMA BlockIsClean ==
    ASSUME JsonArgs, st \in JsonStates, Base < Size, Carried(Base), CleanBelow(Base)
    PROVE  LET esc == Escaped(Mask({"bs"}), st.ec)
               in == Xor(PrefixParity(Mask({"q"}) \ esc.e), IF st.sc THEN Places ELSE {})
               leaders == (Mask({"bs"}) \intersect in) \ esc.e
               targets == ShiftLeft(leaders) \union Bit0(st.lead)
               clean == /\ Mask(Controls) \intersect in = {}
                        /\ \A x \in targets : Escapable(Base + x)
           IN /\ clean <=> CleanBelow(Base + BlockBits)
              /\ ~clean => ~CleanBelow(Size + 1)
<1>. DEFINE esc == Escaped(Mask({"bs"}), st.ec)
            in == Xor(PrefixParity(Mask({"q"}) \ esc.e), IF st.sc THEN Places ELSE {})
            leaders == (Mask({"bs"}) \intersect in) \ esc.e
            targets == ShiftLeft(leaders) \union Bit0(st.lead)
            wrong == Mask(Controls) \intersect in
<1>1. PICK n \in Nat, m \in Nat, l \in Nat : n = BlockBits /\ Places = 0 .. n - 1 /\ m = Base /\ l = Size
  BY BitsAre, HeldIs, TextIs DEF JsonStates
<1>2. JsonFlags
  BY DEF JsonFlags, JsonStates
<1>3. /\ \A x \in Places : x \in wrong <=> Base + x \in StringBytes /\ Char(Base + x) \in Controls
      /\ targets \subseteq Places /\ \A x \in Places : x \in targets <=> Base + x \in EscapeTargets
  BY <1>2, MasksAre, Zenon
<1>4. wrong \subseteq Places
  <2>1. Held \subseteq Places /\ Mask(Controls) \subseteq Held
    BY HeldIs DEF JsonStates
  <2>. QED BY <2>1
<1>. HIDE DEF esc, in, leaders, targets, wrong
<1>5. StringBytes \subseteq 0 .. l - 1 /\ EscapeTargets \subseteq 1 .. l
  BY <1>1, StringNext DEF EscapeTargets
<1>6. ASSUME NEW x \in Nat, x < m + n PROVE x < m \/ \E y \in Places : x = m + y
  <2>1. CASE ~(x < m)
    <3>1. x - m \in 0 .. n - 1 /\ x = m + (x - m)
      BY <1>6, <2>1
    <3>. QED BY <1>1, <3>1
  <2>. QED BY <2>1
<1>7. \A y \in Places : m + y \in Nat /\ m + y < m + n
  BY <1>1
<1>8. wrong = {} <=> \A x \in StringBytes : x < m + n => Char(x) \notin Controls
  <2>1. ASSUME NEW y \in wrong PROVE m + y \in StringBytes /\ m + y < m + n /\ Char(m + y) \in Controls
    BY <1>1, <1>3, <1>4, <1>7
  <2>2. ASSUME wrong = {}, NEW x \in StringBytes, x < m + n PROVE Char(x) \notin Controls
    <3>1. x \in Nat
      BY <1>1, <1>5
    <3>2. CASE x < m
      BY <1>1, <3>2 DEF CleanBelow
    <3>3. CASE \E y \in Places : x = m + y
      BY <1>1, <1>3, <2>2, <3>3
    <3>. QED BY <1>6, <2>2, <3>1, <3>2, <3>3
  <2>. QED BY <2>1, <2>2
<1>9. (\A x \in targets : Escapable(m + x)) <=> \A x \in EscapeTargets : x < m + n => Escapable(x)
  <2>1. ASSUME NEW y \in targets PROVE m + y \in EscapeTargets /\ m + y < m + n
    BY <1>1, <1>3, <1>7
  <2>2. ASSUME \A x \in targets : Escapable(m + x), NEW x \in EscapeTargets, x < m + n PROVE Escapable(x)
    <3>1. x \in Nat
      BY <1>1, <1>5
    <3>2. CASE x < m
      BY <1>1, <3>2 DEF CleanBelow
    <3>3. CASE \E y \in Places : x = m + y
      BY <1>1, <1>3, <2>2, <3>3
    <3>. QED BY <1>6, <2>2, <3>1, <3>2, <3>3
  <2>. QED BY <2>1, <2>2
<1>10. CleanBelow(m + n) <=> wrong = {} /\ \A x \in targets : Escapable(m + x)
  BY <1>8, <1>9 DEF CleanBelow
<1>11. CleanBelow(l + 1) => CleanBelow(m + n)
  <2>1. (\A x \in StringBytes : x < l + 1) /\ (\A x \in EscapeTargets : x < l + 1)
    BY <1>1, <1>5
  <2>. QED BY <2>1 DEF CleanBelow
<1>12. (wrong = {} /\ \A x \in targets : Escapable(Base + x)) <=> CleanBelow(Base + BlockBits)
  BY <1>1, <1>10
<1>13. CleanBelow(Size + 1) => CleanBelow(Base + BlockBits)
  BY <1>1, <1>11
<1>. QED BY <1>12, <1>13, Zenon DEF wrong, targets, leaders, in, esc

LEMMA StartBlockLands ==
    ASSUME JsonArgs, st \in JsonStates, NEW m \in Nat, NEW r \in Nat, Walked(m, r), SoundSoFar(m, TokensBelow(r)), StartBlock
    PROVE  \/ Answer01(0) /\ ~CleanBelow(m + BlockBits) /\ ~CleanBelow(Size + 1) /\ m <= r
           \/ st'.pc = "tokens" /\ Underway'
<1>. DEFINE esc == Escaped(Mask({"bs"}), st.ec)
            in == Xor(PrefixParity(Mask({"q"}) \ esc.e), IF st.sc THEN Places ELSE {})
            leaders == (Mask({"bs"}) \intersect in) \ esc.e
            targets == ShiftLeft(leaders) \union Bit0(st.lead)
            clean == /\ Mask(Controls) \intersect in = {}
                     /\ \A x \in targets : Escapable(Base + x)
            new == [st EXCEPT !.pc = "tokens", !.pend = 0, !.ec = esc.carry,
                              !.sc = BlockBits - 1 \in in, !.lead = BlockBits - 1 \in leaders,
                              !.sig = {x \in (Held \ Mask(Space)) \ in : Base + x >= st.pend}]
<1>1. JsonNext(TokensBelow(r)) /\ TokensBelow(r) \in Seq(Chars)
  BY StartBlockKeeps, TokensNext
<1>2. st.pc = "block" /\ Base < Size /\ IF ~clean THEN Answer01(0) ELSE st' = new /\ UNCHANGED <<call, out>>
  BY Zenon DEF StartBlock, In
<1>3. m = Base /\ r = Reached /\ Carried(m) /\ CleanBelow(m)
  BY <1>2 DEF Walked, SoundSoFar
<1>4. (clean <=> CleanBelow(Base + BlockBits)) /\ (~clean => ~CleanBelow(Size + 1))
  <2>1. Carried(Base) /\ CleanBelow(Base)
    BY <1>3
  <2>. QED BY <1>2, <2>1, BlockIsClean, Zenon
<1>. HIDE DEF clean
<1>5. CASE ~clean
  <2>1. m <= r
    BY <1>2, <1>3, ReachedIs DEF JsonStates
  <2>. QED BY <1>2, <1>3, <1>4, <1>5, <2>1
<1>6. CASE clean
  <2>1. st'.pc = "tokens" /\ st'.blk = st.blk /\ st'.expect = st.expect
    <3>1. st' = new
      BY <1>2, <1>6
    <3>. QED BY <3>1 DEF JsonStates
  <2>2. IsBeginning(TokensBelow(r)) /\ Expected(st'.expect, TokensBelow(r)) /\ Shallow(TokensBelow(r))
    BY <2>1 DEF SoundSoFar
  <2>3. CleanBelow(Base' + BlockBits)
    <3>1. Base' = Base
      BY <2>1 DEF Base
    <3>. QED BY <1>4, <1>6, <3>1
  <2>4. Underway'
    BY <1>1, <2>1, <2>2, <2>3, SoundLands
  <2>. QED BY <2>1, <2>4
<1>. QED BY <1>5, <1>6

-----------------------------------------------------------------------------
(* What the walk answers.                                                  *)

\* No token below r goes too deep.
LEMMA NotDeepBefore ==
    ASSUME JsonArgs, NEW r \in Nat, Shallow(TokensBelow(r)), NEW p \in DeepPlaces
    PROVE  /\ p \in Nat /\ r <= p /\ p < Size /\ p \in TokenPlaces /\ Char(p) \in {"{", "["}
           /\ IsBeginning(TokensBelow(p + 1))
<1>1. PICK l \in Nat : l = Size
  BY TextIs
<1>2. /\ p \in TokenPlaces /\ Char(p) \in {"{", "["} /\ Len(Unclosed(TokensBelow(p + 1))) > MostLevels
      /\ IsBeginning(TokensBelow(p + 1))
  BY DEF DeepPlaces
<1>3. p \in 0 .. l - 1 /\ p \in Nat /\ p + 1 \in Nat /\ p < l
  <2>1. TokenPlaces \subseteq 0 .. l - 1
    BY <1>1, SignificantIs
  <2>2. p \in 0 .. l - 1
    BY <1>2, <2>1
  <2>. QED BY <1>1, <2>2
<1>4. r <= p
  <2>. SUFFICES ASSUME ~(r <= p) PROVE FALSE
    OBVIOUS
  <2>1. p + 1 <= r
    BY <1>3
  <2>2. Len(Unclosed(TokensBelow(p + 1))) <= MostLevels
    BY <1>3, <2>1, Before
  <2>3. Len(Unclosed(TokensBelow(p + 1))) \in Nat /\ MostLevels \in Nat
    <3>1. Unclosed(TokensBelow(p + 1)) \in Seq(Brackets)
      BY <1>3, TokensNext, UnclosedNext
    <3>2. MostLevels \in Nat
      <4>1. PICK L \in Nat, room \in Nat : L = LevelBits /\ room = call.doc.room
        BY BitsAre, TextIs
      <4>. QED BY <4>1 DEF MostLevels
    <3>. QED BY <3>1, <3>2
  <2>4. PICK a \in Nat, b \in Nat : a = Len(Unclosed(TokensBelow(p + 1))) /\ b = MostLevels
    BY <2>3
  <2>5. a > b /\ a <= b
    BY <1>2, <2>2, <2>4, Zenon
  <2>. QED BY <2>5
<1>. QED BY <1>1, <1>2, <1>3, <1>4, Zenon

\* Of a byte that does not fit, or in a block that is not clean, there is nothing to save.
LEMMA RejectRight ==
    ASSUME JsonArgs, st \in JsonStates, NEW m \in Nat, NEW r \in Nat, Walked(m, r), SoundSoFar(m, TokensBelow(r)), Reject
    PROVE  Verdict = 0
<1>. DEFINE s == TokensBelow(r)
<1>1. Walking /\ ~Fits
  BY DEF Reject
<1>2. s \in Seq(Chars) /\ Token \in Chars /\ r \in Significant /\ Resumes(r) /\ Token = Char(r)
  BY <1>1, TokenInHand
<1>3. PICK l \in Nat : l = Size /\ r < l
  BY <1>2, TextIs, SignificantIs
<1>4. TokensBelow(r + 1) = Append(s, Token)
  BY <1>2, TokenTaken
<1>5. ~FitsIn(st.expect, s, Token) /\ Expected(st.expect, s) /\ Shallow(s)
  BY <1>1, FitsIs DEF SoundSoFar
<1>. HIDE DEF s
<1>6. ~IsBeginning(TokensBelow(r + 1))
  BY <1>2, <1>4, <1>5, FitsFollows, BeginningNext
<1>7. ASSUME NEW p \in Nat, r < p PROVE ~IsBeginning(TokensBelow(p))
  <2>1. r + 1 \in Nat /\ r + 1 <= p
    BY <1>7
  <2>. QED BY <1>6, <2>1, Before
<1>8. DeepPlaces = {}
  <2>. SUFFICES ASSUME NEW p \in DeepPlaces PROVE FALSE
    OBVIOUS
  <2>1. p \in Nat /\ r <= p /\ IsBeginning(TokensBelow(p + 1))
    BY <1>5, NotDeepBefore DEF s
  <2>2. p + 1 \in Nat /\ r < p + 1
    BY <2>1
  <2>. QED BY <1>7, <2>1, <2>2
<1>9. ~IsDocument(TokensBelow(l))
  BY <1>3, <1>7 DEF IsDocument
<1>. QED BY <1>3, <1>8, <1>9 DEF Verdict

LEMMA UncleanRight ==
    ASSUME JsonArgs, st \in JsonStates, NEW m \in Nat, NEW r \in Nat, Walked(m, r), Shallow(TokensBelow(r)),
           ~CleanBelow(m + BlockBits), ~CleanBelow(Size + 1), m <= r
    PROVE  Verdict = 0
<1>1. ASSUME NEW p \in DeepPlaces PROVE ~CleanBelow((p \div BlockBits + 1) * BlockBits)
  <2>1. PICK n \in Nat : n = BlockBits /\ n >= 1
    BY BitsAre
  <2>2. p \in Nat /\ m <= p
    <3>1. p \in Nat /\ r <= p
      BY NotDeepBefore
    <3>. QED BY <3>1
  <2>3. PICK k \in Nat : k = st.blk /\ m = k * n
    BY <2>1 DEF JsonStates, Walked, Base
  <2>4. PICK b \in Nat, y \in Nat : b = p \div n /\ p = b * n + y /\ y < n
    <3>1. p \div n \in Nat /\ p % n \in Nat /\ p = (p \div n) * n + (p % n) /\ p % n < n
      BY <2>1, <2>2, DivMod
    <3>. QED BY <3>1
  <2>5. k <= b
    <3>. SUFFICES ASSUME ~(k <= b) PROVE FALSE
      OBVIOUS
    <3>1. PICK z \in Nat : k = b + 1 + z
      <4>1. k - (b + 1) \in Nat /\ k = b + 1 + (k - (b + 1))
        OBVIOUS
      <4>. QED BY <4>1
    <3>2. (b + 1 + z) * n = b * n + n + z * n /\ z * n \in Nat /\ b * n \in Nat
      OBVIOUS
    <3>3. PICK c \in Nat, d \in Nat : c = b * n /\ d = z * n /\ m = c + n + d /\ p = c + y
      BY <2>3, <2>4, <3>1, <3>2
    <3>4. m <= p /\ y < n
      BY <2>2, <2>4
    <3>. QED BY <3>3, <3>4
  <2>6. PICK z \in Nat : b = k + z
    <3>1. b - k \in Nat /\ b = k + (b - k)
      BY <2>5
    <3>. QED BY <3>1
  <2>7. (k + z + 1) * n = k * n + n + z * n /\ z * n \in Nat
    OBVIOUS
  <2>8. PICK q \in Nat : q = (b + 1) * n /\ m + n <= q
    <3>1. PICK d \in Nat : d = z * n /\ (b + 1) * n = m + n + d
      BY <2>3, <2>6, <2>7
    <3>. QED BY <3>1
  <2>9. ~CleanBelow(q)
    <3>1. m + n \in Nat /\ ~CleanBelow(m + n)
      BY <2>1
    <3>. QED BY <2>8, <3>1, CleanBefore
  <2>. QED BY <2>1, <2>4, <2>8, <2>9
<1>. QED BY <1>1, Zenon DEF Verdict

LEMMA TooDeepRight ==
    ASSUME JsonArgs, st \in JsonStates, NEW m \in Nat, NEW r \in Nat, Walked(m, r), SoundSoFar(m, TokensBelow(r)), TooDeep
    PROVE  Verdict = -1
<1>. DEFINE s == TokensBelow(r)
            open == Unclosed(s)
<1>1. Walking /\ st.expect \in {"value", "firstValue"} /\ Token \in Brackets /\ WordFull /\ Len(st.stk) >= call.doc.room
  BY DEF TooDeep, Opens, WantsValue, Brackets
<1>2. /\ s \in Seq(Chars) /\ Token \in Chars /\ r \in Significant /\ Resumes(r) /\ Token = Char(r)
      /\ open \in Seq(Brackets) /\ Hold(st.stk, st.lvl, st.depth, open)
  BY <1>1, TokenInHand DEF Walked
<1>3. TokensBelow(r + 1) = Append(s, Token)
  BY <1>2, TokenTaken
<1>4. PICK L \in Nat, room \in Nat, d \in Nat :
          L = LevelBits /\ L >= 1 /\ room = call.doc.room /\ d = Len(open) /\ d = st.depth
  <2>. HIDE DEF open
  <2>1. Len(open) \in Nat /\ Len(open) = st.depth
    BY <1>2 DEF Hold
  <2>. QED BY <2>1, BitsAre, TextIs
<1>5. CleanBelow((r \div BlockBits + 1) * BlockBits)
  <2>1. PICK n \in Nat : n = BlockBits
    BY BitsAre
  <2>2. PICK f \in Nat : f = FirstPlace /\ f < n /\ r = m + f
    <3>1. r = m + FirstPlace /\ FirstPlace \in 0 .. BlockBits - 1
      BY <1>1, TokenInHand, Zenon
    <3>2. PICK f : f = FirstPlace
      OBVIOUS
    <3>3. f \in 0 .. n - 1 /\ r = m + f
      BY <2>1, <3>1, <3>2, Zenon
    <3>4. f \in Nat /\ f < n
      BY <3>3
    <3>. QED BY <3>2, <3>3, <3>4, Zenon
  <2>3. PICK k \in Nat : k = st.blk /\ m = k * n
    BY <2>1 DEF JsonStates, Walked, Base
  <2>4. r = k * n + f
    BY <2>2, <2>3
  <2>5. r \div n = k
    BY <2>2, <2>4, DivModOf
  <2>6. (k + 1) * n = k * n + n
    OBVIOUS
  <2>7. (k + 1) * n = m + n
    BY <2>3, <2>6
  <2>8. CleanBelow(m + n)
    BY <1>1, <2>1 DEF SoundSoFar, Walking, In
  <2>. QED BY <2>1, <2>5, <2>7, <2>8
<1>6. d = MostLevels
  <2>1. d > 0 /\ d % L = 0 /\ Len(st.stk) = (d - 1) \div L /\ Len(st.stk) <= room /\ Len(st.stk) >= room
    BY <1>1, <1>2, <1>4 DEF WordFull, Hold, Walked
  <2>2. PICK k \in Nat : d = k * L
    <3>1. d \div L \in Nat /\ d = (d \div L) * L + (d % L)
      BY <1>4, DivMod
    <3>2. d = (d \div L) * L
      <4>1. PICK x \in Nat : x = (d \div L) * L
        BY <3>1
      <4>. QED BY <2>1, <3>1, <4>1
    <3>. QED BY <3>1, <3>2
  <2>3. k # 0
    <3>1. 0 * L = 0
      OBVIOUS
    <3>. QED BY <2>1, <2>2, <3>1
  <2>4. PICK j \in Nat : k = j + 1
    <3>1. k - 1 \in Nat /\ k = (k - 1) + 1
      BY <2>3
    <3>. QED BY <3>1
  <2>5. (j + 1) * L = j * L + L /\ j * L \in Nat
    OBVIOUS
  <2>6. PICK e \in Nat, y \in Nat : e = d - 1 /\ y = L - 1 /\ e = j * L + y /\ y < L
    <3>1. PICK x \in Nat : x = j * L
      BY <2>5
    <3>2. d = x + L
      BY <2>2, <2>4, <2>5, <3>1
    <3>3. d - 1 \in Nat /\ L - 1 \in Nat /\ d - 1 = x + (L - 1) /\ L - 1 < L
      BY <1>4, <3>2
    <3>. QED BY <3>1, <3>3
  <2>7. e \div L = j
    BY <2>6, DivModOf
  <2>8. j = room
    BY <2>1, <2>6, <2>7
  <2>9. L * (room + 1) = (room + 1) * L
    OBVIOUS
  <2>. QED BY <1>4, <2>2, <2>4, <2>8, <2>9 DEF MostLevels
<1>7. Len(Unclosed(TokensBelow(r + 1))) > MostLevels
  <2>1. Unclosed(Append(s, Token)) = Append(open, Token)
    <3>1. Unclosed(Append(s, Token)) = After(open, Token)
      BY <1>2, UnclosedNext
    <3>. HIDE DEF open
    <3>2. After(open, Token) = Append(open, Token)
      BY <1>1, <1>2, AfterIs
    <3>. QED BY <3>1, <3>2
  <2>. HIDE DEF open
  <2>2. Len(Append(open, Token)) = d + 1
    <3>1. open \in Seq(Brackets) /\ Token \in Brackets
      BY <1>1, <1>2
    <3>2. Len(Append(open, Token)) = Len(open) + 1
      BY <3>1, AppendProperties
    <3>3. d = Len(open)
      BY <1>4
    <3>. QED BY <3>2, <3>3, Zenon
  <2>3. Len(Unclosed(TokensBelow(r + 1))) = MostLevels + 1 /\ MostLevels \in Nat
    BY <1>3, <1>6, <2>1, <2>2, Zenon
  <2>. QED BY <2>3
<1>8. IsBeginning(TokensBelow(r + 1))
  <2>1. IsBeginning(s) /\ Expected(st.expect, s)
    BY DEF SoundSoFar
  <2>2. FitsIn(st.expect, s, Token)
    BY <1>1 DEF FitsIn, Brackets
  <2>. HIDE DEF s
  <2>3. Follow(s, Token)
    BY <2>1, <2>2, FitsFollows
  <2>. QED BY <1>2, <1>3, <2>1, <2>3, BeginningNext
<1>9. r \in DeepPlaces
  <2>1. r \in TokenPlaces
    <3>1. r \in Nat
      OBVIOUS
    <3>. QED BY <1>2, SignificantIs DEF Resumes
  <2>2. Char(r) \in {"{", "["}
    BY <1>1, <1>2 DEF Brackets
  <2>. QED BY <1>7, <1>8, <2>1, <2>2, Zenon DEF DeepPlaces
<1>. QED BY <1>5, <1>9, Zenon DEF Verdict

\* The walk expects to be at the end just when the tokens end a value.
LEMMA AfterValue ==
    ASSUME NEW e, NEW s, Expected(e, s)
    PROVE  e = "after" <=> ValueLast(s)
<1>1. \A b, C : EndsIn(s, {b}) /\ b \notin C => ~EndsIn(s, C)
  BY DEF EndsIn
<1>2. \A b \in {":", ",", "[", "{"} : EndsIn(s, {b}) => ~ValueLast(s)
  <2>. TAKE b \in {":", ",", "[", "{"}
  <2>1. b \notin {"d", "}", "]", "q"}
    OBVIOUS
  <2>. QED BY <1>1, <2>1 DEF ValueLast
<1>3. s = <<>> \/ KeyLast(s) => ~ValueLast(s)
  BY DEF ValueLast, EndsIn
<1>4. CASE e = "after"
  BY <1>4 DEF Expected
<1>5. CASE e # "after"
  BY <1>2, <1>3, <1>5 DEF Expected
<1>. QED BY <1>4, <1>5

LEMMA FinishRight ==
    ASSUME JsonArgs, st \in JsonStates, NEW m \in Nat, NEW r \in Nat, Walked(m, r), SoundSoFar(m, TokensBelow(r)), Finish
    PROVE  Verdict = IF ~st.sc /\ st.expect = "after" /\ st.depth = 0 THEN 1 ELSE 0
<1>1. PICK l \in Nat : l = Size
  BY TextIs
<1>2. st.pc = "block" /\ Base >= Size
  BY DEF Finish, In
<1>3. m = Base /\ r = Reached /\ Carried(m) /\ m >= l /\ Hold(st.stk, st.lvl, st.depth, Unclosed(TokensBelow(r)))
  BY <1>1, <1>2 DEF Walked
<1>4. r >= l
  BY <1>1, <1>2, <1>3, ReachedIs DEF JsonStates
<1>5. PICK s \in Seq(Chars) : s = TokensBelow(r) /\ s = TokensBelow(l)
  BY <1>1, <1>4, TokensNext
<1>6. IsBeginning(s) /\ Expected(st.expect, s) /\ Shallow(s) /\ CleanBelow(m)
  BY <1>2, <1>5 DEF SoundSoFar
<1>7. DeepPlaces = {}
  <2>. SUFFICES ASSUME NEW p \in DeepPlaces PROVE FALSE
    OBVIOUS
  <2>1. p \in Nat /\ r <= p /\ p < l
    BY <1>1, <1>5, <1>6, NotDeepBefore
  <2>. QED BY <1>4, <2>1
<1>8. st.sc <=> l - 1 \in StringBytes
  <2>1. End(m) = l
    BY <1>1, <1>3 DEF End
  <2>. QED BY <1>3, <2>1 DEF Carried
<1>9. ~st.sc => CleanBelow(l + 1)
  <2>. HAVE ~st.sc
  <2>1. StringBytes \subseteq 0 .. l - 1 /\ EscapeTargets \subseteq 1 .. l
    BY <1>1, StringNext DEF EscapeTargets
  <2>2. \A x \in StringBytes : x < m
    BY <1>1, <1>3, <2>1
  <2>3. \A x \in EscapeTargets : x < m
    <3>. TAKE x \in EscapeTargets
    <3>1. x # l
      BY <1>8 DEF EscapeTargets
    <3>. QED BY <1>1, <1>3, <2>1, <3>1
  <2>. QED BY <1>6, <2>2, <2>3, Zenon DEF CleanBelow
<1>10. st.depth = 0 <=> Unclosed(s) = <<>>
  <2>1. Unclosed(s) \in Seq(Brackets) /\ st.depth = Len(Unclosed(s))
    BY <1>3, <1>5, UnclosedNext DEF Hold
  <2>. QED BY <2>1
<1>11. st.expect = "after" <=> ValueLast(s)
  BY <1>6, AfterValue
<1>12. IsDocument(s) <=> st.expect = "after" /\ st.depth = 0
  BY <1>6, <1>10, <1>11, DocumentIs
<1>13. st.sc \in BOOLEAN
  BY DEF JsonStates
<1>14. Verdict = IF CleanBelow(l + 1) /\ l - 1 \notin StringBytes /\ IsDocument(s) THEN 1 ELSE 0
  BY <1>1, <1>5, <1>7 DEF Verdict
<1>. QED BY <1>8, <1>9, <1>12, <1>13, <1>14

LEMMA NumberLastRight ==
    ASSUME JsonArgs, st \in JsonStates, NEW m \in Nat, NEW r \in Nat, Walked(m, r), SoundSoFar(m, TokensBelow(r)), NumberLast
    PROVE  Verdict = IF st.depth = 0 THEN 1 ELSE 0
<1>. DEFINE s == TokensBelow(r)
            t == Append(s, Token)
            open == Unclosed(s)
<1>1. PICK l \in Nat : l = Size
  BY TextIs
<1>2. Numeral /\ NumberEnd >= Size
  BY DEF NumberLast
<1>3. /\ Walking /\ NumberEnd = l /\ r < l
      /\ \A p \in Nat : r <= p /\ p < l => Char(p) = "d" /\ p \notin StringBytes
      /\ TokensBelow(l) = t /\ CleanBelow(l + 1) /\ Token = "d"
      /\ FitsIn(st.expect, s, Token) /\ Expects(st.expect, s, Token, "after")
  <2>1. PICK e \in Nat : e = NumberEnd /\ e <= l
    BY <1>1, <1>2, NumberInHand
  <2>2. e = l
    BY <1>1, <1>2, <2>1
  <2>. QED BY <1>1, <1>2, <2>1, <2>2, NumberInHand
<1>4. /\ s \in Seq(Chars) /\ Token \in Chars
      /\ open \in Seq(Brackets) /\ Hold(st.stk, st.lvl, st.depth, open)
  BY <1>3, TokenInHand DEF Walked
<1>5. IsBeginning(s) /\ Expected(st.expect, s) /\ Shallow(s)
  BY DEF SoundSoFar
<1>6. DeepPlaces = {}
  <2>. SUFFICES ASSUME NEW p \in DeepPlaces PROVE FALSE
    OBVIOUS
  <2>1. p \in Nat /\ r <= p /\ p < l /\ Char(p) \in {"{", "["}
    BY <1>1, <1>5, NotDeepBefore
  <2>2. Char(p) = "d"
    BY <1>3, <2>1
  <2>. QED BY <2>1, <2>2
<1>7. l - 1 \notin StringBytes
  <2>1. l - 1 \in Nat /\ r <= l - 1 /\ l - 1 < l
    BY <1>3
  <2>. QED BY <1>3, <2>1
<1>8. IsDocument(t) <=> st.depth = 0
  <2>1. t \in Seq(Chars)
    BY <1>4, AppendProperties
  <2>2. Unclosed(t) = open
    <3>1. Unclosed(t) = After(open, Token)
      BY <1>4, UnclosedNext
    <3>. HIDE DEF open
    <3>2. After(open, Token) = open
      BY <1>3, <1>4, AfterIs
    <3>. QED BY <3>1, <3>2
  <2>. HIDE DEF s, open
  <2>3. IsBeginning(t)
    BY <1>3, <1>4, <1>5, FitsFollows, BeginningNext
  <2>4. Expected("after", t)
    BY <1>3, <1>4, <1>5, ExpectedNext
  <2>. HIDE DEF t
  <2>5. ValueLast(t)
    BY <2>4, AfterValue
  <2>6. st.depth = 0 <=> open = <<>>
    BY <1>4 DEF Hold
  <2>. QED BY <2>1, <2>2, <2>3, <2>5, <2>6, DocumentIs
<1>. HIDE DEF t
<1>9. Verdict = IF CleanBelow(l + 1) /\ l - 1 \notin StringBytes /\ IsDocument(t) THEN 1 ELSE 0
  BY <1>1, <1>3, <1>6 DEF Verdict
<1>. QED BY <1>3, <1>7, <1>8, <1>9

-----------------------------------------------------------------------------
(* The answers.                                                            *)

\* JsonInv, and of a walk that it is sound, of an answer that it is the one due.
AnswerInv ==
    call.op = "json" =>
    /\ call.doc \in Documents /\ st \in JsonStates
    /\ IF Returned THEN out = Verdict
       ELSE Underway

LEMMA AnswerStarts == Init => AnswerInv
<1>. SUFFICES ASSUME Init, call.op = "json" PROVE AnswerInv
  BY DEF AnswerInv
<1>1. JsonInv
  BY JsonStarts
<1>2. JsonArgs /\ st \in JsonStates
  BY <1>1 DEF JsonInv, JsonArgs
<1>3. st.pc = "block" /\ st.blk = 0 /\ st.pend = 0 /\ st.expect = "value"
  <2>1. ~(call = NoCall) /\ ~TranscodeInit
    <3>1. ASSUME call = NoCall PROVE FALSE
      BY <3>1 DEF NoCall
    <3>2. ASSUME TranscodeInit PROVE FALSE
      <4>1. call.op = "utf"
        BY <3>2 DEF TranscodeInit
      <4>. QED BY <4>1
    <3>. QED BY <3>1, <3>2
  <2>2. JsonInit
    BY <2>1 DEF Init
  <2>. QED BY <2>2 DEF JsonInit
<1>4. PICK m \in Nat, r \in Nat : Walked(m, r)
  BY <1>1, <1>3 DEF JsonInv, Returned
<1>5. Base = 0
  BY <1>3, BitsAre DEF Base
<1>6. m = 0 /\ r = 0
  BY <1>3, <1>4, <1>5, ReachedIs DEF Walked
<1>7. TokensBelow(0) = <<>> /\ <<>> \in Seq(Chars)
  BY <1>2, TokensNext
<1>8. Shallow(<<>>)
  <2>1. Hold(st.stk, st.lvl, st.depth, <<>>) /\ Len(st.stk) <= call.doc.room
    BY <1>4, <1>6, <1>7, UnclosedNext DEF Walked
  <2>2. <<>> \in Seq(Brackets)
    OBVIOUS
  <2>3. Len(<<>>) <= MostLevels
    BY <1>2, <2>1, <2>2, LevelsFit
  <2>4. ASSUME NEW k \in 0 .. Len(<<>>) PROVE Len(Unclosed(SubSeq(<<>>, 1, k))) <= MostLevels
    <3>1. SubSeq(<<>>, 1, k) = <<>>
      BY <1>7, BeginningOf
    <3>. QED BY <2>3, <3>1, UnclosedNext
  <2>. QED BY <2>4 DEF Shallow
<1>9. CleanBelow(0)
  <2>1. PICK l \in Nat : l = Size
    BY <1>2, TextIs
  <2>2. StringBytes \subseteq 0 .. l - 1 /\ EscapeTargets \subseteq 1 .. l
    BY <1>2, <2>1, StringNext DEF EscapeTargets
  <2>3. (\A x \in StringBytes : ~(x < 0)) /\ (\A x \in EscapeTargets : ~(x < 0))
    BY <2>2
  <2>. QED BY <2>3 DEF CleanBelow
<1>10. Expected(st.expect, <<>>)
  BY <1>3 DEF Expected
<1>11. SoundSoFar(m, TokensBelow(r))
  BY <1>3, <1>6, <1>7, <1>8, <1>9, <1>10, BeginningNext DEF SoundSoFar
<1>12. ~Returned
  BY <1>3 DEF Returned
<1>. QED BY <1>2, <1>4, <1>6, <1>7, <1>11, <1>12 DEF AnswerInv, Underway, JsonArgs

LEMMA AnswerUnchanged ==
    ASSUME AnswerInv, call' = call, (st' = st /\ out' = out) \/ call.op # "json"
    PROVE  AnswerInv'
<1>. SUFFICES ASSUME call.op = "json" PROVE AnswerInv'
  BY DEF AnswerInv
<1>1. JsonArgs /\ st \in JsonStates /\ st' = st /\ out' = out
  BY DEF AnswerInv, JsonArgs
<1>2. CASE st.pc = "returned"
  <2>1. Verdict' = Verdict
    BY SameVerdict
  <2>. QED BY <1>1, <1>2, <2>1 DEF AnswerInv, Returned, JsonArgs
<1>3. CASE st.pc # "returned"
  <2>1. PICK m \in Nat, r \in Nat : Walked(m, r) /\ TokensBelow(r) \in Seq(Chars) /\ SoundSoFar(m, TokensBelow(r))
    BY <1>1, <1>3 DEF AnswerInv, Underway, Returned, JsonArgs
  <2>2. JsonInv
    BY <1>1, <2>1 DEF JsonInv, JsonArgs
  <2>3. JsonInv'
    BY <1>1, <2>2, JsonUnchanged
  <2>4. JsonNext(TokensBelow(r))
    <3>1. PICK n \in Nat, q \in Nat : Walked(n, q)'
      BY <1>1, <1>3, <2>3 DEF JsonInv, JsonArgs, Returned
    <3>2. q = r
      <4>1. Base' = Base
        BY <1>1 DEF Base
      <4>2. Reached' = Reached
        <5>1. st.pc = "tokens" => Reached = Base + FirstIn(st.sig) /\ Reached' = Base' + FirstIn(st'.sig)
          BY <1>1, ReachedIs, ReachedNext
        <5>2. st.pc = "block" => /\ Reached = IF st.pend > Base THEN st.pend ELSE Base
                                 /\ Reached' = IF st'.pend > Base' THEN st'.pend ELSE Base'
          BY <1>1, ReachedIs, ReachedNext
        <5>3. st.pc \in {"block", "tokens"}
          BY <1>1, <1>3 DEF JsonStates
        <5>. QED BY <1>1, <4>1, <5>1, <5>2, <5>3
      <4>. QED BY <2>1, <3>1, <4>2, Zenon DEF Walked
    <3>. QED BY <1>1, <3>1, <3>2 DEF JsonNext
  <2>5. /\ IsBeginning(TokensBelow(r)) /\ Expected(st'.expect, TokensBelow(r)) /\ Shallow(TokensBelow(r))
        /\ st'.pc = "tokens" => CleanBelow(Base' + BlockBits)
        /\ st'.pc = "block" => CleanBelow(Base')
    <3>1. m = Base /\ Base' = Base
      BY <1>1, <2>1 DEF Walked, Base
    <3>. QED BY <1>1, <2>1, <3>1 DEF SoundSoFar
  <2>6. Underway'
    BY <1>1, <1>3, <2>1, <2>4, <2>5, SoundLands
  <2>. QED BY <1>1, <1>3, <2>6 DEF AnswerInv, Returned, JsonArgs
<1>. QED BY <1>2, <1>3

LEMMA AnswerNext == AnswerInv /\ [Next]_textVars => AnswerInv'
<1>. SUFFICES ASSUME AnswerInv, [Next]_textVars PROVE AnswerInv'
  OBVIOUS
<1>1. CASE UNCHANGED <<call, st, out>>
  BY <1>1, AnswerUnchanged
<1>2. CASE UNCHANGED textVars
  BY <1>2, AnswerUnchanged DEF textVars
<1>3. CASE \/ StartBlock \/ EndBlock \/ Finish \/ Reject \/ Colon \/ Key \/ Comma \/ String
           \/ TooDeep \/ Open \/ Close \/ NumberLast \/ NumberHere \/ NumberOn
  <2>1. call.op = "json" /\ ~Returned
    BY <1>3 DEF StartBlock, EndBlock, Finish, Reject, Colon, Key, Comma, String, TooDeep, Open, Close, NumberLast,
                NumberHere, NumberOn, Opens, Closes, Numeral, Walking, In, Returned
  <2>2. JsonArgs /\ st \in JsonStates
    BY <2>1 DEF AnswerInv, JsonArgs
  <2>3. PICK m \in Nat, r \in Nat : Walked(m, r) /\ SoundSoFar(m, TokensBelow(r))
    BY <2>1 DEF AnswerInv, Underway
  <2>4. call' = call /\ st' \in JsonStates
    BY <1>3, <2>2, <2>3, JsonKeeps DEF JsonNext
  <2>5. ASSUME NEW x, Answer01(x), x = Verdict PROVE AnswerInv'
    <3>1. st' = [st EXCEPT !.pc = "returned"] /\ out' = x
      BY <2>5 DEF Answer01, Return
    <3>2. st'.pc = "returned"
      BY <2>2, <3>1 DEF JsonStates
    <3>3. Verdict' = Verdict
      BY <2>4, SameVerdict
    <3>. QED BY <2>2, <2>4, <2>5, <3>1, <3>2, <3>3 DEF AnswerInv, Returned, JsonArgs
  <2>6. ASSUME Underway', st'.pc # "returned" PROVE AnswerInv'
    BY <2>2, <2>4, <2>6 DEF AnswerInv, Returned, JsonArgs
  <2>7. CASE Colon \/ Key \/ Comma \/ String \/ Open \/ Close
    <3>1. Underway'
      BY <2>2, <2>3, <2>7, StepsLand
    <3>2. st'.pc # "returned"
      BY <2>1, <2>2, <2>7 DEF Colon, Key, Comma, String, Open, Close, Step, Returned, JsonStates
    <3>. QED BY <2>6, <3>1, <3>2
  <2>8. CASE NumberHere \/ NumberOn
    <3>1. Underway'
      BY <2>2, <2>3, <2>8, NumberLands
    <3>2. st'.pc # "returned"
      BY <2>1, <2>2, <2>8 DEF NumberHere, NumberOn, JsonStates, Returned
    <3>. QED BY <2>6, <3>1, <3>2
  <2>9. CASE EndBlock
    <3>1. Underway'
      BY <2>2, <2>3, <2>9, EndBlockLands
    <3>2. st'.pc # "returned"
      BY <2>2, <2>9 DEF EndBlock, JsonStates
    <3>. QED BY <2>6, <3>1, <3>2
  <2>10. CASE StartBlock
    <3>1. \/ Answer01(0) /\ ~CleanBelow(m + BlockBits) /\ ~CleanBelow(Size + 1) /\ m <= r
          \/ st'.pc = "tokens" /\ Underway'
      BY <2>2, <2>3, <2>10, StartBlockLands
    <3>2. CASE Answer01(0) /\ ~CleanBelow(m + BlockBits) /\ ~CleanBelow(Size + 1) /\ m <= r
      <4>1. Shallow(TokensBelow(r))
        BY <2>3 DEF SoundSoFar
      <4>2. Verdict = 0
        BY <2>2, <2>3, <3>2, <4>1, UncleanRight
      <4>. QED BY <2>5, <3>2, <4>2
    <3>3. CASE st'.pc = "tokens" /\ Underway'
      BY <2>6, <3>3
    <3>. QED BY <3>1, <3>2, <3>3
  <2>11. CASE Finish
    <3>1. Verdict = IF ~st.sc /\ st.expect = "after" /\ st.depth = 0 THEN 1 ELSE 0
      BY <2>2, <2>3, <2>11, FinishRight
    <3>. QED BY <2>5, <2>11, <3>1 DEF Finish
  <2>12. CASE Reject
    <3>1. Verdict = 0
      BY <2>2, <2>3, <2>12, RejectRight
    <3>. QED BY <2>5, <2>12, <3>1 DEF Reject
  <2>13. CASE TooDeep
    <3>1. Verdict = -1
      BY <2>2, <2>3, <2>13, TooDeepRight
    <3>. QED BY <2>5, <2>13, <3>1 DEF TooDeep
  <2>14. CASE NumberLast
    <3>1. Verdict = IF st.depth = 0 THEN 1 ELSE 0
      BY <2>2, <2>3, <2>14, NumberLastRight
    <3>. QED BY <2>5, <2>14, <3>1 DEF NumberLast
  <2>. QED BY <1>3, <2>7, <2>8, <2>9, <2>10, <2>11, <2>12, <2>13, <2>14
<1>4. CASE CopyRun \/ WidenRune \/ NarrowRune \/ BackToUTF8 \/ TranscodeEnd
  <2>1. call.op = "utf" /\ call' = call
    BY <1>4 DEF CopyRun, WidenRune, NarrowRune, BackToUTF8, TranscodeEnd, Turning, Turn, In
  <2>. QED BY <2>1, AnswerUnchanged
<1>. QED BY <1>1, <1>2, <1>3, <1>4 DEF Next, Searching, Apart

\* Whatever the lengths of the blocks and the words, the documents and the room of the
\* stack: JSONValid answers 1 for the documents and for nothing else, and -1 just when
\* a text that is sound so far goes deeper than the word and the stack can hold, in a block
\* whose strings are clean (text.go:751-756).
THEOREM AnswersAreDocuments == Spec => []ValidIsDocument
<1>1. AnswerInv => ValidIsDocument
  BY DEF AnswerInv, ValidIsDocument, Verdict
<1>. QED BY AnswerStarts, AnswerNext, <1>1, PTL DEF Spec
=============================================================================
