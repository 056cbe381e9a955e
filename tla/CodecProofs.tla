----------------------------- MODULE CodecProofs ------------------------------
(***************************************************************************)
(* The theorems about the calls that turn one representation into another, *)
(* for every value of the constants: what is transcoded is the encoding of *)
(* what was consumed, and comes back; the runs of a column expand to the   *)
(* part of it they were taken from; what is decoded of an LZ4 block is     *)
(* what its sequences mean; a stream of varints gives the same values      *)
(* however it is cut; and Select of Rank is the first set bit at or after  *)
(* a position.  The last part is about the words of JsonValid: what a word *)
(* weighs, what an addition carries in it, and which bytes are escaped.    *)
(*                                                                         *)
(* The invariant of each function of ColumnCalls says nothing of a call of *)
(* another; ColumnStep is what keeps them apart.                           *)
(***************************************************************************)
EXTENDS TextCalls, ColumnCalls, NaturalFacts, SequenceTheorems, TLAPS

-----------------------------------------------------------------------------
(* A step is of the one function that was called.                          *)

\* A step of the columns is one of the function called, and keeps the call.
LEMMA ColumnStep ==
    ASSUME ColumnNext
    PROVE  /\ UNCHANGED call
           /\ \/ call.op = "varint" /\ VarintNext
              \/ call.op = "rle" /\ RunsNext
              \/ call.op = "lz4" /\ BlockNext
              \/ call.op = "merge" /\ MergeNext
              \/ call.op \in {"intersect", "difference"} /\ SetsNext
              \/ call.op = "rank" /\ RankNext
<1>1. CASE VarintNext
  <2>1. UNCHANGED call /\ call.op = "varint"
    BY <1>1, Zenon DEF VarintNext, EncodeByte, Encoded, ReceiveSome, Receive, DecodeLoaded, DecodeBytes, Decoding, Emit,
              DecodeReturn, ReceiveEnd, In
  <2>. QED BY <1>1, <2>1, Zenon
<1>2. CASE RunsNext
  <2>1. UNCHANGED call /\ call.op = "rle"
    BY <1>2, Zenon DEF RunsNext, InsideRun, WriteRun, EncodeEnd, SkipRun, ExpandRun, StoreWide, StoreOne, Store,
              RunStored, ExpandEnd, In
  <2>. QED BY <1>2, <2>1, Zenon
<1>3. CASE BlockNext
  <2>1. UNCHANGED call /\ call.op = "lz4"
    BY <1>3, Zenon DEF BlockNext, Malformed, ReadToken, LengthByte, StartCopy, CopyLiterals, LiteralsCopied,
              Offset, CopyMatch, MatchCopied, Put, In2
  <2>. QED BY <1>3, <2>1, Zenon
<1>4. CASE MergeNext
  <2>1. UNCHANGED call /\ call.op = "merge"
    BY <1>4, Zenon DEF MergeNext, MergeBlocks, BlocksEnd, TakeFrom, DrainLeast, MergeEnd, In
  <2>. QED BY <1>4, <2>1, Zenon
<1>5. CASE SetsNext
  <2>1. UNCHANGED call /\ call.op \in {"intersect", "difference"}
    BY <1>5, Zenon DEF SetsNext, IntersectTile, DifferenceTile, TilesEnd, PendingLane, PendingEnd, IntersectCursors,
              DifferenceCursors, CursorsEnd, SetsIn, In
  <2>. QED BY <1>5, <2>1, Zenon
<1>6. CASE RankNext
  <2>1. UNCHANGED call /\ call.op = "rank"
    BY <1>6, Zenon DEF RankNext, AskRank, SelectNone, SelectStart, SearchTurn, SearchEnd, ClearLowest, SelectBit, In
  <2>. QED BY <1>6, <2>1, Zenon
<1>. QED BY <1>1, <1>2, <1>3, <1>4, <1>5, <1>6, Zenon DEF ColumnNext

\* A call is of one of the functions, and starts as that one does.
LEMMA ColumnInitOp ==
    ASSUME ColumnInit
    PROVE  \/ call.op = "varint" /\ VarintInit
           \/ call.op = "rle" /\ RunsInit
           \/ call.op = "lz4" /\ BlockInit
           \/ call.op = "merge" /\ MergeInit
           \/ call.op \in {"intersect", "difference"} /\ SetsInit
           \/ call.op = "rank" /\ RankInit
<1>1. CASE VarintInit
  BY <1>1 DEF VarintInit
<1>2. CASE RunsInit
  <2>1. call.op = "rle"
    <3>1. \E impl, raw, args : call = [op |-> "rle", impl |-> impl, raw |-> raw, args |-> args]
      BY <1>2, Zenon DEF RunsInit
    <3>. QED BY <3>1
  <2>. QED BY <1>2, <2>1
<1>3. CASE BlockInit
  BY <1>3 DEF BlockInit
<1>4. CASE MergeInit
  BY <1>4 DEF MergeInit
<1>5. CASE SetsInit
  BY <1>5 DEF SetsInit
<1>6. CASE RankInit
  BY <1>6 DEF RankInit
<1>. QED BY <1>1, <1>2, <1>3, <1>4, <1>5, <1>6 DEF ColumnInit

-----------------------------------------------------------------------------
(* The transcoding: sequences, from one end to the other.                  *)

\* Induction over sequences: a set that has the empty one, and with a sequence what it is with
\* an element more, has all of them.
LEMMA GrowingSequences ==
    ASSUME NEW S, NEW T, <<>> \in T, \A s \in Seq(S), c \in S : s \in T => s \o <<c>> \in T
    PROVE  \A s \in Seq(S) : s \in T
<1>. DEFINE Lengths == {n \in Nat : \A s \in Seq(S) : Len(s) = n => s \in T}
<1>1. 0 \in Lengths
  <2>1. \A s \in Seq(S) : Len(s) = 0 => s = <<>>
    BY EmptySeq
  <2>. QED BY <2>1
<1>2. ASSUME NEW n \in Nat, n \in Lengths PROVE n + 1 \in Lengths
  <2>. SUFFICES ASSUME NEW s \in Seq(S), Len(s) = n + 1 PROVE s \in T
    OBVIOUS
  <2>1. PICK r \in Seq(S), c \in S : s = r \o <<c>> /\ Len(r) = n
    <3>1. SubSeq(s, 1, n) \in Seq(S) /\ Len(SubSeq(s, 1, n)) = n /\ s[n + 1] \in S
      OBVIOUS
    <3>2. 1 \in 1 .. Len(s) /\ n + 1 \in 1 .. Len(s) /\ (n + 1) - 1 = n
      OBVIOUS
    <3>3. SubSeq(s, 1, n + 1) = SubSeq(s, 1, (n + 1) - 1) \o <<s[n + 1]>>
      BY <3>2, SubSeqRecursiveSecond
    <3>4. SubSeq(s, 1, n + 1) = s
      BY SubSeqFull
    <3>. QED BY <3>1, <3>2, <3>3, <3>4
  <2>2. r \in T
    BY <1>2, <2>1
  <2>. QED BY <2>1, <2>2
<1>. HIDE DEF Lengths
<1>3. \A n \in Nat : n \in Lengths
  BY <1>1, <1>2, SetInduction
<1>. QED BY <1>3 DEF Lengths

\* V sequence and one element.
LEMMA OneMore ==
    ASSUME NEW S, NEW s \in Seq(S), NEW c \in S
    PROVE  /\ s \o <<c>> \in Seq(S) /\ Len(s \o <<c>>) = Len(s) + 1
           /\ \A x \in 1 .. Len(s) : (s \o <<c>>)[x] = s[x]
           /\ (s \o <<c>>)[Len(s) + 1] = c
<1>1. <<c>> \in Seq(S) /\ Len(<<c>>) = 1 /\ <<c>>[1] = c /\ Len(s) \in Nat
  OBVIOUS
<1>2. /\ s \o <<c>> \in Seq(S) /\ Len(s \o <<c>>) = Len(s) + 1
      /\ \A x \in 1 .. Len(s) + 1 : (s \o <<c>>)[x] = IF x <= Len(s) THEN s[x] ELSE <<c>>[x - Len(s)]
  BY <1>1, ConcatProperties
<1>3. (Len(s) + 1) - Len(s) = 1 /\ ~(Len(s) + 1 <= Len(s)) /\ Len(s) + 1 \in 1 .. Len(s) + 1
  BY <1>1
<1>. QED BY <1>1, <1>2, <1>3

\* V sequence cut in two.
LEMMA CutInTwo ==
    ASSUME NEW S, NEW s \in Seq(S), NEW k \in 0 .. Len(s)
    PROVE  LET front == SubSeq(s, 1, k)
               rest == SubSeq(s, k + 1, Len(s))
           IN /\ front \in Seq(S) /\ Len(front) = k /\ \A x \in 1 .. k : front[x] = s[x]
              /\ rest \in Seq(S) /\ Len(rest) = Len(s) - k /\ \A x \in 1 .. Len(s) - k : rest[x] = s[k + x]
              /\ s = front \o rest
<1>1. PICK n \in Nat : n = Len(s) /\ k \in Nat /\ k <= n
  OBVIOUS
<1>2. SubSeq(s, 1, k) \in Seq(S) /\ Len(SubSeq(s, 1, k)) = k /\ \A x \in 1 .. k : SubSeq(s, 1, k)[x] = s[x]
  OBVIOUS
<1>3. /\ SubSeq(s, k + 1, n) \in Seq(S) /\ Len(SubSeq(s, k + 1, n)) = n - k
      /\ \A x \in 1 .. n - k : SubSeq(s, k + 1, n)[x] = s[k + x]
  BY <1>1
<1>4. s = SubSeq(s, 1, k) \o SubSeq(s, k + 1, n)
  <2>1. 1 \in 1 .. Len(s) + 1 /\ k \in 1 - 1 .. Len(s) /\ n \in k .. Len(s)
    BY <1>1
  <2>2. SubSeq(s, 1, k) \o SubSeq(s, k + 1, n) = SubSeq(s, 1, n)
    BY <2>1, ConcatAdjacentSubSeq
  <2>3. SubSeq(s, 1, Len(s)) = s
    BY SubSeqFull
  <2>. QED BY <1>1, <2>2, <2>3
<1>. QED BY <1>1, <1>2, <1>3, <1>4

\* f[k] is what the first k of ss are, one after the other.
FlattensTo(f, V, ss, n) ==
    /\ f \in [0 .. n -> Seq(V)] /\ f[0] = <<>>
    /\ \A k \in 1 .. n : f[k] = f[k - 1] \o ss[k]

LEMMA FlattenedIs ==
    ASSUME NEW V, NEW ss, NEW n \in Nat, Len(ss) = n, \A k \in 1 .. n : ss[k] \in Seq(V)
    PROVE  \E f : FlattensTo(f, V, ss, n) /\ Flattened(ss) = f[n]
<1>. DEFINE join == [q \in (1 .. n) \X Seq(V) |-> q[2] \o ss[q[1]]]
            Is(f) == f = [x \in 0 .. Len(ss) |-> IF x = 0 THEN <<>> ELSE f[x - 1] \o ss[x]]
<1>1. \A k \in 1 .. n, s \in Seq(V) : join[<<k, s>>] = s \o ss[k]
  OBVIOUS
<1>2. \A k \in 1 .. n, s \in Seq(V) : s \o ss[k] \in Seq(V)
  BY ConcatProperties
<1>. HIDE DEF join
<1>3. StaysIn(join, Seq(V), n)
  BY <1>1, <1>2 DEF StaysIn
<1>4. PICK g : Unfolds(g, Seq(V), n, <<>>, join)
  <2>1. <<>> \in Seq(V)
    OBVIOUS
  <2>. QED BY <1>3, <2>1, RecursionExists
<1>5. g \in [0 .. n -> Seq(V)] /\ g[0] = <<>> /\ \A k \in 1 .. n : g[k] = join[<<k, g[k - 1]>>]
  BY <1>4 DEF Unfolds
<1>6. \A k \in 1 .. n : g[k] = g[k - 1] \o ss[k]
  <2>. TAKE k \in 1 .. n
  <2>1. g[k - 1] \in Seq(V)
    <3>1. k - 1 \in 0 .. n
      OBVIOUS
    <3>. QED BY <1>5, <3>1
  <2>. QED BY <1>1, <1>5, <2>1
<1>7. Is(g)
  <2>. DEFINE e == [x \in 0 .. Len(ss) |-> IF x = 0 THEN <<>> ELSE g[x - 1] \o ss[x]]
  <2>1. \A k \in 0 .. n : g[k] = e[k]
    <3>. TAKE k \in 0 .. n
    <3>1. CASE k = 0
      BY <1>5, <3>1
    <3>2. CASE k \in 1 .. n
      <4>1. k \in 0 .. n /\ k # 0
        BY <3>2
      <4>2. e[k] = g[k - 1] \o ss[k]
        BY <4>1
      <4>. QED BY <1>6, <3>2, <4>2, Zenon
    <3>. QED BY <3>1, <3>2
  <2>2. g = e
    <3>1. g = [k \in 0 .. n |-> g[k]] /\ e = [k \in 0 .. n |-> e[k]]
      BY <1>5
    <3>. HIDE DEF e
    <3>. QED BY <2>1, <3>1
  <2>. QED BY <2>2
<1>. DEFINE u == CHOOSE f : Is(f)
<1>8. Flattened(ss) = u[n]
  BY DEF Flattened
<1>. HIDE DEF Is
<1>9. Is(u)
  BY <1>7
<1>. HIDE DEF u
<1>10. u = [x \in 0 .. n |-> IF x = 0 THEN <<>> ELSE u[x - 1] \o ss[x]]
  BY <1>9 DEF Is
<1>11. u[0] = <<>> /\ \A k \in 1 .. n : u[k] = u[k - 1] \o ss[k]
  <2>1. 0 \in 0 .. n /\ \A k \in 1 .. n : k \in 0 .. n /\ k # 0
    OBVIOUS
  <2>. QED BY <1>10, <2>1
<1>12. \A k \in 0 .. n : u[k] \in Seq(V)
  <2>. DEFINE S == {k \in Nat : k <= n => u[k] \in Seq(V)}
  <2>1. 0 \in S
    <3>1. u[0] \in Seq(V)
      <4>1. <<>> \in Seq(V)
        OBVIOUS
      <4>. QED BY <1>11, <4>1
    <3>. QED BY <3>1
  <2>2. \A k \in Nat : k \in S => k + 1 \in S
    <3>. SUFFICES ASSUME NEW k \in Nat, k \in S, k + 1 <= n PROVE u[k + 1] \in Seq(V)
      OBVIOUS
    <3>1. u[k] \in Seq(V) /\ k + 1 \in 1 .. n /\ (k + 1) - 1 = k
      OBVIOUS
    <3>2. u[k + 1] = u[k] \o ss[k + 1]
      BY <1>11, <3>1
    <3>. QED BY <1>2, <3>1, <3>2
  <2>. HIDE DEF S
  <2>3. \A k \in Nat : k \in S
    BY <2>1, <2>2, SetInduction
  <2>. QED BY <2>3 DEF S
<1>13. u \in [0 .. n -> Seq(V)]
  BY <1>10, <1>12
<1>. QED BY <1>8, <1>11, <1>13 DEF FlattensTo

LEMMA FlattenedNone ==
    ASSUME NEW ss, Len(ss) = 0
    PROVE  Flattened(ss) = <<>>
<1>1. PICK f : FlattensTo(f, {}, ss, 0) /\ Flattened(ss) = f[0]
  <2>1. 0 \in Nat /\ \A k \in 1 .. 0 : ss[k] \in Seq({})
    OBVIOUS
  <2>. QED BY <2>1, FlattenedIs
<1>. QED BY <1>1 DEF FlattensTo

\* tt is ss, of n sequences, and one sequence more.
OneLonger(V, ss, tt, n) ==
    /\ Len(ss) = n /\ Len(tt) = n + 1 /\ tt[n + 1] \in Seq(V)
    /\ \A k \in 1 .. n : ss[k] \in Seq(V) /\ tt[k] = ss[k]

LEMMA FlattenedMore ==
    ASSUME NEW V, NEW ss, NEW tt, NEW n \in Nat, OneLonger(V, ss, tt, n)
    PROVE  /\ Flattened(tt) = Flattened(ss) \o tt[n + 1]
           /\ Flattened(ss) \in Seq(V) /\ Flattened(tt) \in Seq(V)
<1>. USE DEF OneLonger
<1>1. PICK f : FlattensTo(f, V, ss, n) /\ Flattened(ss) = f[n]
  BY FlattenedIs
<1>2. PICK g : FlattensTo(g, V, tt, n + 1) /\ Flattened(tt) = g[n + 1]
  <2>1. \A k \in 1 .. n + 1 : tt[k] \in Seq(V)
    <3>. TAKE k \in 1 .. n + 1
    <3>1. k \in 1 .. n \/ k = n + 1
      OBVIOUS
    <3>. QED BY <3>1
  <2>2. n + 1 \in Nat
    OBVIOUS
  <2>. QED BY <2>1, <2>2, FlattenedIs
<1>. DEFINE S == {k \in Nat : k <= n => f[k] = g[k]}
<1>3. 0 \in S
  BY <1>1, <1>2 DEF FlattensTo
<1>4. \A k \in Nat : k \in S => k + 1 \in S
  <2>. SUFFICES ASSUME NEW k \in Nat, k \in S, k + 1 <= n PROVE f[k + 1] = g[k + 1]
    OBVIOUS
  <2>1. f[k] = g[k] /\ k + 1 \in 1 .. n /\ k + 1 \in 1 .. n + 1 /\ (k + 1) - 1 = k
    OBVIOUS
  <2>2. f[k + 1] = f[k] \o ss[k + 1] /\ g[k + 1] = g[k] \o tt[k + 1]
    BY <1>1, <1>2, <2>1 DEF FlattensTo
  <2>. QED BY <2>1, <2>2
<1>. HIDE DEF S
<1>5. f[n] = g[n]
  <2>1. n \in S
    BY <1>3, <1>4, SetInduction
  <2>. QED BY <2>1 DEF S
<1>6. n + 1 \in 1 .. n + 1 /\ (n + 1) - 1 = n /\ n \in 0 .. n /\ n + 1 \in 0 .. n + 1
  OBVIOUS
<1>7. g[n + 1] = g[n] \o tt[n + 1] /\ f[n] \in Seq(V) /\ g[n + 1] \in Seq(V)
  BY <1>1, <1>2, <1>6 DEF FlattensTo
<1>. QED BY <1>1, <1>2, <1>5, <1>7

-----------------------------------------------------------------------------
(* The transcoding: what a text is in the other encoding.                  *)

Alphabet == Characters \union Units \union Runes

\* What a text can hold once it is mended, and what a symbol becomes.
Plain == {"a", "two", "three", "four", "fffd"}
Mend(c) == IF c \in {"bad", "hi", "lo", "beyond"} THEN "fffd" ELSE c

UnitsOf(c) == IF c = "four" THEN <<"hi", "lo">> ELSE <<Mend(c)>>

LastIs(s, c) == s # <<>> /\ s[Len(s)] = c

LEMMA MendedMore ==
    ASSUME NEW s \in Seq(Alphabet), NEW c \in Alphabet
    PROVE  Mended(s \o <<c>>) = Mended(s) \o <<Mend(c)>> /\ Mended(s) \in Seq(Plain)
<1>1. PICK n \in Nat : n = Len(s)
  OBVIOUS
<1>2. PICK t : t = s \o <<c>>
  OBVIOUS
<1>3. t \in Seq(Alphabet) /\ Len(t) = n + 1 /\ t[n + 1] = c /\ \A x \in 1 .. n : t[x] = s[x]
  BY <1>1, <1>2, OneMore
<1>4. \A d \in Alphabet : Mend(d) \in Plain
  BY DEF Mend, Alphabet, Characters, Units, Runes, Plain
<1>5. /\ Mended(s) \in Seq(Plain) /\ Len(Mended(s)) = n /\ \A x \in 1 .. n : Mended(s)[x] = Mend(s[x])
  <2>1. Mended(s) = [x \in 1 .. n |-> Mend(s[x])]
    BY <1>1 DEF Mended, Mend
  <2>2. \A x \in 1 .. n : Mend(s[x]) \in Plain
    BY <1>1, <1>4
  <2>. QED BY <2>1, <2>2
<1>6. /\ Mended(t) \in Seq(Plain) /\ Len(Mended(t)) = n + 1 /\ \A x \in 1 .. n + 1 : Mended(t)[x] = Mend(t[x])
  <2>1. Mended(t) = [x \in 1 .. n + 1 |-> Mend(t[x])]
    BY <1>3 DEF Mended, Mend
  <2>2. \A x \in 1 .. n + 1 : Mend(t[x]) \in Plain
    BY <1>3, <1>4
  <2>. QED BY <2>1, <2>2
<1>7. /\ Mended(s) \o <<Mend(c)>> \in Seq(Plain) /\ Len(Mended(s) \o <<Mend(c)>>) = n + 1
      /\ \A x \in 1 .. n : (Mended(s) \o <<Mend(c)>>)[x] = Mended(s)[x]
      /\ (Mended(s) \o <<Mend(c)>>)[n + 1] = Mend(c)
  BY <1>4, <1>5, OneMore
<1>8. \A x \in 1 .. n + 1 : Mended(t)[x] = (Mended(s) \o <<Mend(c)>>)[x]
  <2>. TAKE x \in 1 .. n + 1
  <2>1. x \in 1 .. n \/ x = n + 1
    OBVIOUS
  <2>. QED BY <1>3, <1>5, <1>6, <1>7, <2>1
<1>9. Mended(t) = Mended(s) \o <<Mend(c)>>
  BY <1>6, <1>7, <1>8, SeqEqual
<1>. QED BY <1>2, <1>5, <1>9

LEMMA InUnitsMore ==
    ASSUME NEW s \in Seq(Alphabet), NEW c \in Alphabet
    PROVE  InUnits(s \o <<c>>) = InUnits(s) \o UnitsOf(c) /\ InUnits(s) \in Seq(Units)
<1>1. PICK n \in Nat : n = Len(s)
  OBVIOUS
<1>2. PICK t : t = s \o <<c>>
  OBVIOUS
<1>3. t \in Seq(Alphabet) /\ Len(t) = n + 1 /\ t[n + 1] = c /\ \A x \in 1 .. n : t[x] = s[x]
  BY <1>1, <1>2, OneMore
<1>4. \A d \in Alphabet : UnitsOf(d) \in Seq(Units)
  <2>. TAKE d \in Alphabet
  <2>1. <<"hi", "lo">> \in Seq(Units)
    BY DEF Units
  <2>2. d # "four" => Mend(d) \in Units
    BY DEF Mend, Alphabet, Characters, Units, Runes
  <2>3. d # "four" => <<Mend(d)>> \in Seq(Units)
    BY <2>2
  <2>. QED BY <2>1, <2>3 DEF UnitsOf
<1>. DEFINE G(r) == [x \in DOMAIN r |-> IF r[x] = "four" THEN <<"hi", "lo">> ELSE <<Mended(r)[x]>>]
<1>5. ASSUME NEW r \in Seq(Alphabet)
      PROVE  Len(G(r)) = Len(r) /\ \A x \in 1 .. Len(r) : G(r)[x] = UnitsOf(r[x])
  <2>1. \A x \in 1 .. Len(r) : Mended(r)[x] = Mend(r[x])
    BY DEF Mended, Mend
  <2>2. \A x \in 1 .. Len(r) : G(r)[x] = UnitsOf(r[x])
    BY <2>1 DEF UnitsOf
  <2>3. Len(G(r)) = Len(r)
    <3>1. DOMAIN r = 1 .. Len(r) /\ Len(r) \in Nat
      OBVIOUS
    <3>. QED BY <3>1
  <2>. QED BY <2>2, <2>3
<1>6. \A r : InUnits(r) = Flattened(G(r))
  BY DEF InUnits
<1>. HIDE DEF G
<1>7. \A x \in 1 .. n : G(s)[x] \in Seq(Units) /\ G(t)[x] = G(s)[x]
  <2>. TAKE x \in 1 .. n
  <2>1. x \in 1 .. n + 1 /\ s[x] \in Alphabet
    BY <1>1
  <2>. QED BY <1>1, <1>3, <1>4, <1>5, <2>1
<1>8. G(t)[n + 1] = UnitsOf(c) /\ UnitsOf(c) \in Seq(Units) /\ Len(G(s)) = n /\ Len(G(t)) = n + 1
  <2>1. n + 1 \in 1 .. n + 1
    OBVIOUS
  <2>. QED BY <1>1, <1>3, <1>4, <1>5, <2>1
<1>9. Flattened(G(t)) = Flattened(G(s)) \o G(t)[n + 1] /\ Flattened(G(s)) \in Seq(Units)
  <2>1. PICK ss, tt : ss = G(s) /\ tt = G(t)
    OBVIOUS
  <2>2. OneLonger(Units, ss, tt, n)
    BY <1>7, <1>8, <2>1, Zenon DEF OneLonger
  <2>3. Flattened(tt) = Flattened(ss) \o tt[n + 1] /\ Flattened(ss) \in Seq(Units)
    BY <2>2, FlattenedMore
  <2>. QED BY <2>1, <2>3, Zenon
<1>. QED BY <1>2, <1>6, <1>8, <1>9


\* The characters of each unit.
CharsOf(s) == [x \in DOMAIN s |-> CharAt(s, x)]

LEMMA CharsOfIs ==
    ASSUME NEW s \in Seq(Units)
    PROVE  /\ Len(CharsOf(s)) = Len(s)
           /\ \A x \in 1 .. Len(s) : CharsOf(s)[x] = CharAt(s, x) /\ CharAt(s, x) \in Seq(Plain)
<1>1. DOMAIN s = 1 .. Len(s) /\ Len(s) \in Nat
  OBVIOUS
<1>2. Len(CharsOf(s)) = Len(s) /\ \A x \in 1 .. Len(s) : CharsOf(s)[x] = CharAt(s, x)
  BY <1>1 DEF CharsOf
<1>3. ASSUME NEW x \in 1 .. Len(s) PROVE CharAt(s, x) \in Seq(Plain)
  <2>1. s[x] \in Units
    BY <1>1
  <2>2. <<"four">> \in Seq(Plain) /\ <<"fffd">> \in Seq(Plain) /\ <<>> \in Seq(Plain)
    BY DEF Plain
  <2>3. s[x] \notin {"hi", "lo"} => <<s[x]>> \in Seq(Plain)
    <3>1. s[x] \notin {"hi", "lo"} => s[x] \in Plain
      BY <2>1 DEF Units, Plain
    <3>. QED BY <3>1
  <2>4. CASE s[x] = "hi"
    <3>1. CharAt(s, x) = IF x < Len(s) /\ s[x + 1] = "lo" THEN <<"four">> ELSE <<"fffd">>
      BY <2>4 DEF CharAt
    <3>. QED BY <2>2, <3>1
  <2>5. CASE s[x] = "lo"
    <3>1. CharAt(s, x) = IF x > 1 /\ s[x - 1] = "hi" THEN <<>> ELSE <<"fffd">>
      BY <2>5 DEF CharAt
    <3>. QED BY <2>2, <3>1
  <2>6. CASE s[x] \notin {"hi", "lo"}
    <3>1. CharAt(s, x) = <<s[x]>>
      BY <2>6 DEF CharAt
    <3>. QED BY <2>3, <2>6, <3>1
  <2>. QED BY <2>4, <2>5, <2>6
<1>. QED BY <1>2, <1>3

\* V unit more changes no character before it, unless it completes a pair.
LEMMA CharsStay ==
    ASSUME NEW s \in Seq(Units), NEW c \in Units, ~(LastIs(s, "hi") /\ c = "lo"), NEW x \in 1 .. Len(s)
    PROVE  CharAt(s \o <<c>>, x) = CharAt(s, x)
<1>1. PICK n \in Nat : n = Len(s)
  OBVIOUS
<1>2. PICK t : t = s \o <<c>>
  OBVIOUS
<1>3. t \in Seq(Units) /\ Len(t) = n + 1 /\ t[n + 1] = c /\ \A y \in 1 .. n : t[y] = s[y]
  BY <1>1, <1>2, OneMore
<1>4. x \in 1 .. n /\ t[x] = s[x] /\ s[x] \in Units
  BY <1>1, <1>3
<1>5. CASE s[x] = "hi"
  <2>1. (x < n + 1 /\ t[x + 1] = "lo") <=> (x < n /\ s[x + 1] = "lo")
    <3>1. CASE x = n
      <4>1. LastIs(s, "hi")
        BY <1>1, <1>4, <1>5, <3>1 DEF LastIs
      <4>2. t[x + 1] # "lo"
        BY <1>3, <3>1, <4>1
      <4>. QED BY <3>1, <4>2
    <3>2. CASE x < n
      <4>1. x + 1 \in 1 .. n
        BY <1>4, <3>2
      <4>. QED BY <1>3, <1>4, <3>2, <4>1
    <3>. QED BY <1>4, <3>1, <3>2
  <2>2. CharAt(s, x) = IF x < n /\ s[x + 1] = "lo" THEN <<"four">> ELSE <<"fffd">>
    BY <1>1, <1>5 DEF CharAt
  <2>3. CharAt(t, x) = IF x < n + 1 /\ t[x + 1] = "lo" THEN <<"four">> ELSE <<"fffd">>
    BY <1>3, <1>4, <1>5 DEF CharAt
  <2>. QED BY <1>2, <2>1, <2>2, <2>3
<1>6. CASE s[x] = "lo"
  <2>1. (x > 1 /\ t[x - 1] = "hi") <=> (x > 1 /\ s[x - 1] = "hi")
    <3>1. x > 1 => x - 1 \in 1 .. n
      BY <1>4
    <3>. QED BY <1>3, <3>1
  <2>2. CharAt(s, x) = IF x > 1 /\ s[x - 1] = "hi" THEN <<>> ELSE <<"fffd">>
    BY <1>6 DEF CharAt
  <2>3. CharAt(t, x) = IF x > 1 /\ t[x - 1] = "hi" THEN <<>> ELSE <<"fffd">>
    BY <1>4, <1>6 DEF CharAt
  <2>. QED BY <1>2, <2>1, <2>2, <2>3
<1>7. CASE s[x] \notin {"hi", "lo"}
  <2>1. CharAt(s, x) = <<s[x]>> /\ CharAt(t, x) = <<t[x]>>
    BY <1>4, <1>7 DEF CharAt
  <2>. QED BY <1>2, <1>4, <2>1
<1>. QED BY <1>5, <1>6, <1>7

LEMMA LastChar ==
    ASSUME NEW s \in Seq(Units), NEW c \in Units, ~(LastIs(s, "hi") /\ c = "lo")
    PROVE  CharAt(s \o <<c>>, Len(s) + 1) = <<Mend(c)>>
<1>1. PICK n \in Nat : n = Len(s)
  OBVIOUS
<1>2. PICK t : t = s \o <<c>>
  OBVIOUS
<1>3. t \in Seq(Units) /\ Len(t) = n + 1 /\ t[n + 1] = c /\ \A y \in 1 .. n : t[y] = s[y]
  BY <1>1, <1>2, OneMore
<1>4. CASE c = "hi"
  <2>1. CharAt(t, n + 1) = <<"fffd">>
    <3>1. CharAt(t, n + 1) = IF n + 1 < Len(t) /\ t[n + 1 + 1] = "lo" THEN <<"four">> ELSE <<"fffd">>
      BY <1>3, <1>4 DEF CharAt
    <3>2. ~(n + 1 < Len(t))
      BY <1>3
    <3>. QED BY <3>1, <3>2
  <2>. QED BY <1>1, <1>2, <1>4, <2>1 DEF Mend
<1>5. CASE c = "lo"
  <2>1. ~(n + 1 > 1 /\ t[n + 1 - 1] = "hi")
    <3>. SUFFICES ASSUME n + 1 > 1, t[n + 1 - 1] = "hi" PROVE FALSE
      OBVIOUS
    <3>1. n \in 1 .. n /\ n + 1 - 1 = n
      OBVIOUS
    <3>2. s[n] = "hi" /\ s # <<>>
      BY <1>1, <1>3, <3>1
    <3>. QED BY <1>1, <1>5, <3>2 DEF LastIs
  <2>2. CharAt(t, n + 1) = IF n + 1 > 1 /\ t[n + 1 - 1] = "hi" THEN <<>> ELSE <<"fffd">>
    BY <1>3, <1>5 DEF CharAt
  <2>3. CharAt(t, n + 1) = <<"fffd">>
    BY <2>1, <2>2
  <2>. QED BY <1>1, <1>2, <1>5, <2>3 DEF Mend
<1>6. CASE c \notin {"hi", "lo"}
  <2>1. CharAt(t, n + 1) = <<c>>
    BY <1>3, <1>6 DEF CharAt
  <2>2. Mend(c) = c
    BY <1>6 DEF Mend, Units
  <2>. QED BY <1>1, <1>2, <2>1, <2>2
<1>. QED BY <1>4, <1>5, <1>6

LEMMA UnitMore ==
    ASSUME NEW s \in Seq(Units), NEW c \in Units, ~(LastIs(s, "hi") /\ c = "lo")
    PROVE  /\ Flattened(CharsOf(s \o <<c>>)) = Flattened(CharsOf(s)) \o <<Mend(c)>>
           /\ Flattened(CharsOf(s)) \in Seq(Plain)
<1>1. PICK n \in Nat : n = Len(s)
  OBVIOUS
<1>2. PICK t : t = s \o <<c>>
  OBVIOUS
<1>3. t \in Seq(Units) /\ Len(t) = n + 1
  BY <1>1, <1>2, OneMore
<1>4. PICK ss, tt : ss = CharsOf(s) /\ tt = CharsOf(t)
  OBVIOUS
<1>5. /\ Len(ss) = n /\ Len(tt) = n + 1 /\ tt[n + 1] = <<Mend(c)>>
      /\ \A k \in 1 .. n : ss[k] \in Seq(Plain) /\ tt[k] = ss[k]
  <2>1. Len(ss) = n /\ \A k \in 1 .. n : ss[k] = CharAt(s, k) /\ ss[k] \in Seq(Plain)
    BY <1>1, <1>4, CharsOfIs
  <2>2. Len(tt) = n + 1 /\ \A k \in 1 .. n + 1 : tt[k] = CharAt(t, k)
    BY <1>3, <1>4, CharsOfIs
  <2>3. CharAt(t, n + 1) = <<Mend(c)>> /\ n + 1 \in 1 .. n + 1
    BY <1>1, <1>2, LastChar
  <2>4. \A k \in 1 .. n : k \in 1 .. n + 1 /\ CharAt(t, k) = CharAt(s, k)
    BY <1>1, <1>2, CharsStay
  <2>. QED BY <2>1, <2>2, <2>3, <2>4
<1>6. <<Mend(c)>> \in Seq(Plain)
  <2>1. Mend(c) \in Plain
    BY DEF Mend, Units, Plain
  <2>. QED BY <2>1
<1>7. Flattened(tt) = Flattened(ss) \o tt[n + 1] /\ Flattened(ss) \in Seq(Plain)
  <2>1. OneLonger(Plain, ss, tt, n)
    BY <1>5, <1>6 DEF OneLonger
  <2>. QED BY <2>1, FlattenedMore
<1>. QED BY <1>2, <1>4, <1>5, <1>7

\* V pair more is one character more.
LEMMA PairMore ==
    ASSUME NEW s \in Seq(Units)
    PROVE  Flattened(CharsOf(s \o <<"hi", "lo">>)) = Flattened(CharsOf(s)) \o <<"four">>
<1>1. PICK n \in Nat : n = Len(s)
  OBVIOUS
<1>2. PICK r : r = s \o <<"hi">>
  OBVIOUS
<1>3. PICK t : t = r \o <<"lo">>
  OBVIOUS
<1>4. t = s \o <<"hi", "lo">>
  <2>1. <<"hi">> \in Seq(Units) /\ <<"lo">> \in Seq(Units) /\ <<"hi">> \o <<"lo">> = <<"hi", "lo">>
    <3>1. "hi" \in Units /\ "lo" \in Units
      BY DEF Units
    <3>2. <<"hi">> \in Seq(Units) /\ <<"lo">> \in Seq(Units)
      BY <3>1
    <3>3. <<"hi">> \o <<"lo">> = <<"hi", "lo">>
      <4>1. PICK p \in Seq(Units) : p = <<"hi">>
        BY <3>2
      <4>2. PICK q \in Seq(Units) : q = <<"hi", "lo">>
        <5>1. <<"hi", "lo">> \in Seq(Units)
          BY DEF Units
        <5>. QED BY <5>1, Zenon
      <4>3. Len(p) = 1 /\ p[1] = "hi" /\ Len(q) = 2 /\ q[1] = "hi" /\ q[2] = "lo"
        BY <4>1, <4>2
      <4>4. /\ p \o <<"lo">> \in Seq(Units) /\ Len(p \o <<"lo">>) = 2
            /\ (p \o <<"lo">>)[1] = "hi" /\ (p \o <<"lo">>)[2] = "lo"
        <5>1. /\ p \o <<"lo">> \in Seq(Units) /\ Len(p \o <<"lo">>) = Len(p) + 1
              /\ \A x \in 1 .. Len(p) : (p \o <<"lo">>)[x] = p[x]
              /\ (p \o <<"lo">>)[Len(p) + 1] = "lo"
          BY <3>1, OneMore
        <5>2. 1 \in 1 .. Len(p) /\ Len(p) + 1 = 2
          BY <4>3
        <5>. QED BY <4>3, <5>1, <5>2
      <4>5. p \o <<"lo">> = q
        BY <4>3, <4>4, SeqEqual
      <4>. QED BY <4>1, <4>2, <4>5
    <3>. QED BY <3>2, <3>3
  <2>2. t = s \o (<<"hi">> \o <<"lo">>)
    BY <1>2, <1>3, <2>1, ConcatAssociative
  <2>. QED BY <2>1, <2>2
<1>5. /\ r \in Seq(Units) /\ Len(r) = n + 1 /\ r[n + 1] = "hi" /\ \A y \in 1 .. n : r[y] = s[y]
  <2>1. "hi" \in Units
    BY DEF Units
  <2>. QED BY <1>1, <1>2, <2>1, OneMore
<1>6. /\ t \in Seq(Units) /\ Len(t) = n + 2 /\ t[n + 2] = "lo" /\ \A y \in 1 .. n + 1 : t[y] = r[y]
  <2>1. "lo" \in Units /\ (n + 1) + 1 = n + 2
    BY DEF Units
  <2>2. t \in Seq(Units) /\ Len(t) = (n + 1) + 1 /\ t[(n + 1) + 1] = "lo" /\ \A y \in 1 .. n + 1 : t[y] = r[y]
    BY <1>3, <1>5, <2>1, OneMore
  <2>. QED BY <2>1, <2>2
<1>7. PICK ss, tt : ss = CharsOf(s) /\ tt = CharsOf(t)
  OBVIOUS
<1>8. Len(ss) = n /\ \A k \in 1 .. n : ss[k] = CharAt(s, k) /\ ss[k] \in Seq(Plain)
  BY <1>1, <1>7, CharsOfIs
<1>9. Len(tt) = n + 2 /\ \A k \in 1 .. n + 2 : tt[k] = CharAt(t, k) /\ tt[k] \in Seq(Plain)
  BY <1>6, <1>7, CharsOfIs
<1>10. \A k \in 1 .. n : tt[k] = ss[k]
  <2>. TAKE k \in 1 .. n
  <2>1. k \in 1 .. n + 1 /\ k \in 1 .. n + 2
    OBVIOUS
  <2>2. CharAt(r, k) = CharAt(s, k)
    <3>1. "hi" \in Units /\ ~(LastIs(s, "hi") /\ "hi" = "lo")
      BY DEF Units
    <3>. QED BY <1>1, <1>2, <3>1, CharsStay
  <2>3. CharAt(t, k) = CharAt(r, k)
    <3>1. r[k] = s[k] /\ t[k] = r[k] /\ k < Len(r) /\ k < Len(t) /\ k + 1 \in 1 .. n + 1
      BY <1>5, <1>6, <2>1
    <3>2. t[k + 1] = r[k + 1] /\ (k > 1 => t[k - 1] = r[k - 1])
      <4>1. k > 1 => k - 1 \in 1 .. n + 1
        OBVIOUS
      <4>. QED BY <1>6, <3>1, <4>1
    <3>. QED BY <3>1, <3>2 DEF CharAt
  <2>. QED BY <1>8, <1>9, <2>1, <2>2, <2>3
<1>11. tt[n + 1] = <<"four">> /\ tt[n + 2] = <<>>
  <2>1. n + 1 \in 1 .. n + 2 /\ n + 1 \in 1 .. n + 1 /\ n + 2 \in 1 .. n + 2 /\ n + 1 < n + 2 /\ n + 1 + 1 = n + 2
        /\ n + 2 > 1 /\ n + 2 - 1 = n + 1
    OBVIOUS
  <2>2. t[n + 1] = "hi" /\ t[n + 2] = "lo"
    BY <1>5, <1>6, <2>1
  <2>3. CharAt(t, n + 1) = <<"four">>
    BY <1>6, <2>1, <2>2 DEF CharAt
  <2>4. CharAt(t, n + 2) = <<>>
    BY <1>6, <2>1, <2>2 DEF CharAt
  <2>. QED BY <1>9, <2>1, <2>3, <2>4
<1>12. PICK mid : mid = [k \in 1 .. n + 1 |-> tt[k]]
  OBVIOUS
<1>13. Len(mid) = n + 1 /\ \A k \in 1 .. n + 1 : mid[k] = tt[k] /\ tt[k] \in Seq(Plain)
  <2>1. n + 1 \in Nat /\ \A k \in 1 .. n + 1 : k \in 1 .. n + 2
    OBVIOUS
  <2>. QED BY <1>9, <1>12, <2>1
<1>14. Flattened(mid) = Flattened(ss) \o <<"four">> /\ Flattened(mid) \in Seq(Plain)
  <2>1. \A k \in 1 .. n : ss[k] \in Seq(Plain) /\ mid[k] = ss[k]
    <3>1. \A k \in 1 .. n : k \in 1 .. n + 1
      OBVIOUS
    <3>. QED BY <1>8, <1>10, <1>13, <3>1
  <2>2. mid[n + 1] \in Seq(Plain) /\ mid[n + 1] = <<"four">>
    BY <1>11, <1>13
  <2>3. OneLonger(Plain, ss, mid, n)
    BY <1>8, <1>13, <2>1, <2>2 DEF OneLonger
  <2>4. Flattened(mid) = Flattened(ss) \o mid[n + 1] /\ Flattened(mid) \in Seq(Plain)
    BY <2>3, FlattenedMore
  <2>. QED BY <2>2, <2>4, Zenon
<1>15. Flattened(tt) = Flattened(mid)
  <2>1. \A k \in 1 .. n + 1 : mid[k] \in Seq(Plain) /\ tt[k] = mid[k]
    BY <1>13
  <2>2. n + 1 \in Nat /\ Len(tt) = (n + 1) + 1 /\ tt[(n + 1) + 1] = <<>> /\ tt[(n + 1) + 1] \in Seq(Plain)
    <3>1. (n + 1) + 1 = n + 2 /\ n + 2 \in 1 .. n + 2
      OBVIOUS
    <3>. QED BY <1>9, <1>11, <3>1
  <2>3. OneLonger(Plain, mid, tt, n + 1)
    BY <1>13, <2>1, <2>2 DEF OneLonger
  <2>4. Flattened(tt) = Flattened(mid) \o tt[(n + 1) + 1]
    BY <2>2, <2>3, FlattenedMore
  <2>. QED BY <1>14, <2>2, <2>4, ConcatEmptySeq
<1>. QED BY <1>4, <1>7, <1>14, <1>15


\* The symbols a text in an encoding other than UTF-8 is made of.
CodesOf(wide) == IF wide = 16 THEN Units ELSE Runes

\* Whether a text goes on with the second half of a pair.
Halves(wide, s, c) == wide = 16 /\ LastIs(s, "hi") /\ c = "lo"

LEMMA InCharsMore ==
    ASSUME NEW s \in Seq(CodesOf(call.wide)), NEW c \in CodesOf(call.wide), ~Halves(call.wide, s, c)
    PROVE  InChars(s \o <<c>>) = InChars(s) \o <<Mend(c)>> /\ InChars(s) \in Seq(Plain)
<1>1. CASE call.wide = 16
  <2>1. \A r : InChars(r) = Flattened(CharsOf(r))
    BY <1>1 DEF InChars, CharsOf
  <2>2. s \in Seq(Units) /\ c \in Units /\ ~(LastIs(s, "hi") /\ c = "lo")
    BY <1>1 DEF CodesOf, Halves
  <2>. QED BY <2>1, <2>2, UnitMore
<1>2. CASE call.wide # 16
  <2>1. \A r : InChars(r) = Mended(r)
    BY <1>2 DEF InChars
  <2>2. s \in Seq(Alphabet) /\ c \in Alphabet
    <3>1. s \in Seq(Runes) /\ c \in Runes /\ Runes \subseteq Alphabet
      BY <1>2 DEF CodesOf, Alphabet
    <3>. QED BY <3>1
  <2>. QED BY <2>1, <2>2, MendedMore
<1>. QED BY <1>1, <1>2

LEMMA InCharsPair ==
    ASSUME call.wide = 16, NEW s \in Seq(Units)
    PROVE  InChars(s \o <<"hi", "lo">>) = InChars(s) \o <<"four">>
<1>1. \A r : InChars(r) = Flattened(CharsOf(r))
  BY DEF InChars, CharsOf
<1>. QED BY <1>1, PairMore

LEMMA NothingInChars == InChars(<<>>) = <<>>
<1>1. CASE call.wide = 16
  <2>1. Len([x \in DOMAIN <<>> |-> CharAt(<<>>, x)]) = 0
    <3>1. DOMAIN <<>> = 1 .. 0
      OBVIOUS
    <3>. QED BY <3>1
  <2>2. Flattened([x \in DOMAIN <<>> |-> CharAt(<<>>, x)]) = <<>>
    BY <2>1, FlattenedNone
  <2>. QED BY <1>1, <2>2 DEF InChars
<1>2. CASE call.wide # 16
  <2>1. Mended(<<>>) = <<>>
    BY DEF Mended
  <2>. QED BY <1>2, <2>1 DEF InChars
<1>. QED BY <1>1, <1>2

\* What the transcoder writes for a symbol that is widened.
WideOf(wide, c) == IF wide = 16 THEN UnitsOf(c) ELSE <<Mend(c)>>

LEMMA WideMore ==
    ASSUME NEW s \in Seq(Alphabet), NEW c \in Alphabet
    PROVE  Wide(s \o <<c>>) = Wide(s) \o WideOf(call.wide, c) /\ Wide(s) \in Seq(CodesOf(call.wide))
<1>1. CASE call.wide = 16
  <2>1. \A r : Wide(r) = InUnits(r)
    BY <1>1 DEF Wide
  <2>2. InUnits(s \o <<c>>) = InUnits(s) \o UnitsOf(c) /\ InUnits(s) \in Seq(Units)
    BY InUnitsMore
  <2>. QED BY <1>1, <2>1, <2>2 DEF WideOf, CodesOf
<1>2. CASE call.wide # 16
  <2>1. \A r : Wide(r) = Mended(r)
    BY <1>2 DEF Wide
  <2>2. Mended(s \o <<c>>) = Mended(s) \o <<Mend(c)>> /\ Mended(s) \in Seq(Plain)
    BY MendedMore
  <2>3. Mended(s) \in Seq(Runes)
    <3>1. Plain \subseteq Runes
      BY DEF Plain, Runes
    <3>. QED BY <2>2, <3>1
  <2>. QED BY <1>2, <2>1, <2>2, <2>3 DEF WideOf, CodesOf
<1>. QED BY <1>1, <1>2

LEMMA NothingWide == Wide(<<>>) = <<>>
<1>1. CASE call.wide = 16
  <2>1. Flattened([x \in DOMAIN <<>> |-> IF <<>>[x] = "four" THEN <<"hi", "lo">> ELSE <<Mended(<<>>)[x]>>]) = <<>>
    <3>1. DOMAIN <<>> = 1 .. 0
      OBVIOUS
    <3>2. Len([x \in DOMAIN <<>> |-> IF <<>>[x] = "four" THEN <<"hi", "lo">> ELSE <<Mended(<<>>)[x]>>]) = 0
      BY <3>1
    <3>. QED BY <3>2, FlattenedNone
  <2>. QED BY <1>1, <2>1 DEF Wide, InUnits
<1>2. CASE call.wide # 16
  <2>1. Mended(<<>>) = <<>>
    BY DEF Mended
  <2>. QED BY <1>2, <2>1 DEF Wide
<1>. QED BY <1>1, <1>2

\* V run of ASCII is itself in either.
LEMMA RunWide ==
    ASSUME NEW s \in Seq(Alphabet), NEW r \in Seq({"a"})
    PROVE  Wide(s \o r) = Wide(s) \o r
<1>. DEFINE T == {t \in Seq({"a"}) : Wide(s \o t) = Wide(s) \o t}
<1>1. Wide(s) \in Seq(Alphabet)
  <2>1. CodesOf(call.wide) \subseteq Alphabet
    BY DEF CodesOf, Alphabet
  <2>2. "a" \in Alphabet
    BY DEF Alphabet, Units
  <2>3. Wide(s) \in Seq(CodesOf(call.wide))
    BY <2>2, WideMore
  <2>. QED BY <2>1, <2>3
<1>2. <<>> \in T
  <2>1. s \o <<>> = s /\ Wide(s) \o <<>> = Wide(s)
    BY <1>1, ConcatEmptySeq
  <2>2. <<>> \in Seq({"a"})
    OBVIOUS
  <2>. QED BY <2>1, <2>2
<1>3. ASSUME NEW t \in Seq({"a"}), NEW c \in {"a"}, t \in T PROVE t \o <<c>> \in T
  <2>1. t \in Seq(Alphabet) /\ <<c>> \in Seq(Alphabet) /\ c \in Alphabet /\ <<c>> \in Seq({"a"})
    <3>1. {"a"} \subseteq Alphabet
      BY DEF Alphabet, Units
    <3>. QED BY <3>1
  <2>2. s \o t \in Seq(Alphabet) /\ t \o <<c>> \in Seq({"a"})
    BY <2>1, ConcatProperties
  <2>3. Wide((s \o t) \o <<c>>) = Wide(s \o t) \o WideOf(call.wide, c)
    BY <2>1, <2>2, WideMore
  <2>4. WideOf(call.wide, c) = <<c>>
    BY DEF WideOf, UnitsOf, Mend
  <2>5. (s \o t) \o <<c>> = s \o (t \o <<c>>) /\ (Wide(s) \o t) \o <<c>> = Wide(s) \o (t \o <<c>>)
    <3>1. (s \o t) \o <<c>> = s \o (t \o <<c>>)
      BY <2>1, ConcatAssociative
    <3>2. (Wide(s) \o t) \o <<c>> = Wide(s) \o (t \o <<c>>)
      BY <1>1, <2>1, ConcatAssociative
    <3>. QED BY <3>1, <3>2
  <2>. QED BY <1>3, <2>2, <2>3, <2>4, <2>5
<1>. HIDE DEF T
<1>4. r \in T
  BY <1>2, <1>3, GrowingSequences
<1>. QED BY <1>4 DEF T

LEMMA RunInChars ==
    ASSUME NEW s \in Seq(CodesOf(call.wide)), NEW r \in Seq({"a"})
    PROVE  InChars(s \o r) = InChars(s) \o r
<1>. DEFINE T == {t \in Seq({"a"}) : InChars(s \o t) = InChars(s) \o t}
            Codes == CodesOf(call.wide)
<1>1. "a" \in Codes /\ "a" \in Plain
  BY DEF CodesOf, Runes, Units, Plain
<1>2. \A p \in Seq(Codes) : ~Halves(call.wide, p, "a")
  BY DEF Halves
<1>. HIDE DEF Codes
<1>3. InChars(s) \in Seq(Plain)
  BY <1>1, <1>2, InCharsMore DEF Codes
<1>4. <<>> \in T
  <2>1. s \o <<>> = s /\ InChars(s) \o <<>> = InChars(s)
    BY <1>3, ConcatEmptySeq
  <2>2. <<>> \in Seq({"a"})
    OBVIOUS
  <2>. QED BY <2>1, <2>2
<1>5. ASSUME NEW t \in Seq({"a"}), NEW c \in {"a"}, t \in T PROVE t \o <<c>> \in T
  <2>1. /\ t \in Seq(Codes) /\ t \in Seq(Plain) /\ <<c>> \in Seq(Codes) /\ <<c>> \in Seq(Plain)
        /\ <<c>> \in Seq({"a"}) /\ c \in Codes
    <3>1. {"a"} \subseteq Codes /\ {"a"} \subseteq Plain
      BY <1>1
    <3>. QED BY <3>1
  <2>2. s \o t \in Seq(Codes) /\ t \o <<c>> \in Seq({"a"})
    <3>1. s \in Seq(Codes)
      BY DEF Codes
    <3>. QED BY <2>1, <3>1, ConcatProperties
  <2>3. InChars((s \o t) \o <<c>>) = InChars(s \o t) \o <<Mend(c)>>
    <3>1. ~Halves(call.wide, s \o t, c)
      BY DEF Halves
    <3>. QED BY <2>1, <2>2, <3>1, InCharsMore DEF Codes
  <2>4. Mend(c) = c
    BY DEF Mend
  <2>5. (s \o t) \o <<c>> = s \o (t \o <<c>>) /\ (InChars(s) \o t) \o <<c>> = InChars(s) \o (t \o <<c>>)
    <3>1. s \in Seq(Codes)
      BY DEF Codes
    <3>2. (s \o t) \o <<c>> = s \o (t \o <<c>>)
      BY <2>1, <3>1, ConcatAssociative
    <3>3. (InChars(s) \o t) \o <<c>> = InChars(s) \o (t \o <<c>>)
      BY <1>3, <2>1, ConcatAssociative
    <3>. QED BY <3>2, <3>3
  <2>. QED BY <1>5, <2>2, <2>3, <2>4, <2>5
<1>. HIDE DEF T
<1>6. r \in T
  BY <1>4, <1>5, GrowingSequences
<1>. QED BY <1>6 DEF T


\* A text that is widened and turned back is the text with its malformed bytes replaced.
LEMMA ComesBack ==
    ASSUME NEW s \in Seq(Characters)
    PROVE  InChars(Wide(s)) = Mended(s)
<1>. DEFINE T == {t \in Seq(Characters) : InChars(Wide(t)) = Mended(t) /\ (call.wide = 16 => ~LastIs(Wide(t), "hi"))}
            Codes == CodesOf(call.wide)
<1>1. Characters \subseteq Alphabet /\ Plain \subseteq Alphabet /\ Units \subseteq Alphabet
  BY DEF Alphabet, Characters, Plain
<1>2. <<>> \in T
  <2>1. Mended(<<>>) = <<>>
    BY DEF Mended
  <2>2. ~LastIs(<<>>, "hi") /\ <<>> \in Seq(Characters)
    BY DEF LastIs
  <2>. QED BY <2>1, <2>2, NothingWide, NothingInChars
<1>3. ASSUME NEW t \in Seq(Characters), NEW c \in Characters, t \in T PROVE t \o <<c>> \in T
  <2>1. t \in Seq(Alphabet) /\ c \in Alphabet /\ t \o <<c>> \in Seq(Characters)
    BY <1>1, OneMore
  <2>2. PICK w : w = Wide(t) /\ w \in Seq(Codes) /\ Wide(t \o <<c>>) = w \o WideOf(call.wide, c)
    BY <2>1, WideMore
  <2>3. InChars(w) = Mended(t) /\ (call.wide = 16 => ~LastIs(w, "hi"))
    BY <1>3, <2>2
  <2>4. Mended(t \o <<c>>) = Mended(t) \o <<Mend(c)>>
    BY <2>1, MendedMore
  <2>5. CASE call.wide = 16 /\ c = "four"
    <3>1. WideOf(call.wide, c) = <<"hi", "lo">> /\ Mend(c) = "four"
      BY <2>5 DEF WideOf, UnitsOf, Mend
    <3>2. w \in Seq(Units)
      BY <2>2, <2>5 DEF CodesOf
    <3>3. InChars(w \o <<"hi", "lo">>) = InChars(w) \o <<"four">>
      BY <2>5, <3>2, InCharsPair
    <3>4. ~LastIs(w \o <<"hi", "lo">>, "hi")
      <4>1. <<"hi", "lo">> \in Seq(Units) /\ Len(<<"hi", "lo">>) = 2 /\ <<"hi", "lo">>[2] = "lo"
        BY DEF Units
      <4>2. PICK q \in Seq(Units) : q = <<"hi", "lo">>
        BY <4>1, Zenon
      <4>3. /\ Len(w \o q) = Len(w) + Len(q)
            /\ \A x \in 1 .. Len(w) + Len(q) : (w \o q)[x] = IF x <= Len(w) THEN w[x] ELSE q[x - Len(w)]
        BY <3>2, ConcatProperties
      <4>4. Len(q) = 2 /\ q[2] = "lo" /\ Len(w) \in Nat
        BY <3>2, <4>1, <4>2
      <4>5. Len(w) + 2 \in 1 .. Len(w) + 2 /\ ~(Len(w) + 2 <= Len(w)) /\ (Len(w) + 2) - Len(w) = 2
        BY <4>4
      <4>6. (w \o q)[Len(w \o q)] = "lo"
        BY <4>3, <4>4, <4>5
      <4>. QED BY <4>2, <4>6 DEF LastIs
    <3>. QED BY <2>1, <2>2, <2>3, <2>4, <3>1, <3>3, <3>4
  <2>6. CASE ~(call.wide = 16 /\ c = "four")
    <3>1. WideOf(call.wide, c) = <<Mend(c)>>
      BY <2>6 DEF WideOf, UnitsOf
    <3>2. Mend(c) \in Codes /\ Mend(c) \notin {"hi", "lo"}
      BY <2>6 DEF Mend, CodesOf, Runes, Characters, Units
    <3>3. Mend(Mend(c)) = Mend(c) /\ ~Halves(call.wide, w, Mend(c))
      BY <3>2 DEF Mend, Halves
    <3>4. InChars(w \o <<Mend(c)>>) = InChars(w) \o <<Mend(c)>>
      BY <2>2, <3>2, <3>3, InCharsMore
    <3>5. ~LastIs(w \o <<Mend(c)>>, "hi")
      <4>1. Len(w \o <<Mend(c)>>) = Len(w) + 1 /\ (w \o <<Mend(c)>>)[Len(w) + 1] = Mend(c)
        BY <2>2, <3>2, OneMore
      <4>. QED BY <3>2, <4>1 DEF LastIs
    <3>. QED BY <2>1, <2>2, <2>3, <2>4, <3>1, <3>4, <3>5
  <2>. QED BY <2>5, <2>6
<1>. HIDE DEF T
<1>4. s \in T
  BY <1>2, <1>3, GrowingSequences
<1>. QED BY <1>4 DEF T

-----------------------------------------------------------------------------
(* The transcoding: lengths.                                               *)

LEMMA BytesOfSymbol == \A c \in Characters : Bytes8(c) \in 1 .. 4
BY DEF Bytes8, Characters

\* f[k] is how many bytes the first k of s take.
TalliesTo(f, s, n) ==
    /\ f \in [0 .. n -> Nat] /\ f[0] = 0
    /\ \A k \in 1 .. n : f[k] = f[k - 1] + Bytes8(s[k])

LEMMA ByteLenIs ==
    ASSUME NEW s \in Seq(Characters), NEW n \in Nat, Len(s) = n
    PROVE  \E f : TalliesTo(f, s, n) /\ ByteLen(s) = f[n]
<1>. DEFINE add == [q \in (1 .. n) \X Nat |-> q[2] + Bytes8(s[q[1]])]
            Is(f) == f = [x \in 0 .. Len(s) |-> IF x = 0 THEN 0 ELSE f[x - 1] + Bytes8(s[x])]
<1>1. \A k \in 1 .. n, m \in Nat : add[<<k, m>>] = m + Bytes8(s[k])
  OBVIOUS
<1>2. \A k \in 1 .. n, m \in Nat : m + Bytes8(s[k]) \in Nat
  <2>. TAKE k \in 1 .. n, m \in Nat
  <2>1. Bytes8(s[k]) \in 1 .. 4
    BY BytesOfSymbol
  <2>. QED BY <2>1
<1>. HIDE DEF add
<1>3. StaysIn(add, Nat, n)
  BY <1>1, <1>2 DEF StaysIn
<1>4. PICK g : Unfolds(g, Nat, n, 0, add)
  BY <1>3, RecursionExists
<1>5. g \in [0 .. n -> Nat] /\ g[0] = 0 /\ \A k \in 1 .. n : g[k] = add[<<k, g[k - 1]>>]
  BY <1>4 DEF Unfolds
<1>6. \A k \in 1 .. n : g[k] = g[k - 1] + Bytes8(s[k])
  <2>. TAKE k \in 1 .. n
  <2>1. g[k - 1] \in Nat
    <3>1. k - 1 \in 0 .. n
      OBVIOUS
    <3>. QED BY <1>5, <3>1
  <2>. QED BY <1>1, <1>5, <2>1
<1>7. Is(g)
  <2>. DEFINE e == [x \in 0 .. Len(s) |-> IF x = 0 THEN 0 ELSE g[x - 1] + Bytes8(s[x])]
  <2>1. \A k \in 0 .. n : g[k] = e[k]
    <3>. TAKE k \in 0 .. n
    <3>1. CASE k = 0
      BY <1>5, <3>1
    <3>2. CASE k \in 1 .. n
      <4>1. k \in 0 .. n /\ k # 0
        BY <3>2
      <4>2. e[k] = g[k - 1] + Bytes8(s[k])
        BY <4>1
      <4>. QED BY <1>6, <3>2, <4>2, Zenon
    <3>. QED BY <3>1, <3>2
  <2>2. g = e
    <3>1. g = [k \in 0 .. n |-> g[k]] /\ e = [k \in 0 .. n |-> e[k]]
      BY <1>5
    <3>. HIDE DEF e
    <3>. QED BY <2>1, <3>1
  <2>. QED BY <2>2
<1>. DEFINE u == CHOOSE f : Is(f)
<1>8. ByteLen(s) = u[n]
  BY DEF ByteLen
<1>. HIDE DEF Is
<1>9. Is(u)
  BY <1>7
<1>. HIDE DEF u
<1>10. u = [x \in 0 .. n |-> IF x = 0 THEN 0 ELSE u[x - 1] + Bytes8(s[x])]
  BY <1>9 DEF Is
<1>11. u[0] = 0 /\ \A k \in 1 .. n : u[k] = u[k - 1] + Bytes8(s[k])
  <2>1. 0 \in 0 .. n /\ \A k \in 1 .. n : k \in 0 .. n /\ k # 0
    OBVIOUS
  <2>. QED BY <1>10, <2>1
<1>12. \A k \in 0 .. n : u[k] \in Nat
  <2>. DEFINE S == {k \in Nat : k <= n => u[k] \in Nat}
  <2>1. 0 \in S
    BY <1>11
  <2>2. \A k \in Nat : k \in S => k + 1 \in S
    <3>. SUFFICES ASSUME NEW k \in Nat, k \in S, k + 1 <= n PROVE u[k + 1] \in Nat
      OBVIOUS
    <3>1. u[k] \in Nat /\ k + 1 \in 1 .. n /\ (k + 1) - 1 = k
      OBVIOUS
    <3>2. u[k + 1] = u[k] + Bytes8(s[k + 1])
      BY <1>11, <3>1
    <3>. QED BY <1>2, <3>1, <3>2
  <2>. HIDE DEF S
  <2>3. \A k \in Nat : k \in S
    BY <2>1, <2>2, SetInduction
  <2>. QED BY <2>3 DEF S
<1>13. u \in [0 .. n -> Nat]
  BY <1>10, <1>12
<1>. QED BY <1>8, <1>11, <1>13 DEF TalliesTo

LEMMA NothingTallied == ByteLen(<<>>) = 0
<1>1. PICK f : TalliesTo(f, <<>>, 0) /\ ByteLen(<<>>) = f[0]
  <2>1. <<>> \in Seq(Characters) /\ Len(<<>>) = 0 /\ 0 \in Nat
    OBVIOUS
  <2>. QED BY <2>1, ByteLenIs
<1>. QED BY <1>1 DEF TalliesTo

LEMMA ByteLenMore ==
    ASSUME NEW s \in Seq(Characters), NEW c \in Characters
    PROVE  ByteLen(s \o <<c>>) = ByteLen(s) + Bytes8(c) /\ ByteLen(s) \in Nat
<1>1. PICK n \in Nat : n = Len(s)
  OBVIOUS
<1>2. PICK t : t = s \o <<c>>
  OBVIOUS
<1>3. t \in Seq(Characters) /\ Len(t) = n + 1 /\ t[n + 1] = c /\ \A x \in 1 .. n : t[x] = s[x]
  BY <1>1, <1>2, OneMore
<1>4. PICK f : TalliesTo(f, s, n) /\ ByteLen(s) = f[n]
  BY <1>1, ByteLenIs
<1>5. PICK g : TalliesTo(g, t, n + 1) /\ ByteLen(t) = g[n + 1]
  <2>1. n + 1 \in Nat
    OBVIOUS
  <2>. QED BY <1>3, <2>1, ByteLenIs
<1>. DEFINE S == {k \in Nat : k <= n => f[k] = g[k]}
<1>6. 0 \in S
  BY <1>4, <1>5 DEF TalliesTo
<1>7. \A k \in Nat : k \in S => k + 1 \in S
  <2>. SUFFICES ASSUME NEW k \in Nat, k \in S, k + 1 <= n PROVE f[k + 1] = g[k + 1]
    OBVIOUS
  <2>1. f[k] = g[k] /\ k + 1 \in 1 .. n /\ k + 1 \in 1 .. n + 1 /\ (k + 1) - 1 = k
    OBVIOUS
  <2>2. f[k + 1] = f[k] + Bytes8(s[k + 1]) /\ g[k + 1] = g[k] + Bytes8(t[k + 1])
    BY <1>4, <1>5, <2>1 DEF TalliesTo
  <2>. QED BY <1>3, <2>1, <2>2
<1>. HIDE DEF S
<1>8. f[n] = g[n]
  <2>1. n \in S
    BY <1>6, <1>7, SetInduction
  <2>. QED BY <2>1 DEF S
<1>9. n + 1 \in 1 .. n + 1 /\ (n + 1) - 1 = n /\ n \in 0 .. n
  OBVIOUS
<1>10. g[n + 1] = g[n] + Bytes8(t[n + 1]) /\ f[n] \in Nat
  BY <1>4, <1>5, <1>9 DEF TalliesTo
<1>. QED BY <1>2, <1>3, <1>4, <1>5, <1>8, <1>10

LEMMA ByteLenJoin ==
    ASSUME NEW s \in Seq(Characters), NEW r \in Seq(Characters)
    PROVE  ByteLen(s \o r) = ByteLen(s) + ByteLen(r) /\ ByteLen(s) \in Nat /\ ByteLen(r) \in Nat
<1>. DEFINE T == {t \in Seq(Characters) : ByteLen(s \o t) = ByteLen(s) + ByteLen(t)}
<1>1. \A t \in Seq(Characters) : ByteLen(t) \in Nat
  <2>1. "a" \in Characters
    BY DEF Characters
  <2>. QED BY <2>1, ByteLenMore
<1>2. <<>> \in T
  <2>1. s \o <<>> = s /\ <<>> \in Seq(Characters)
    BY ConcatEmptySeq
  <2>2. ByteLen(s) = ByteLen(s) + 0
    BY <1>1
  <2>. QED BY <2>1, <2>2, NothingTallied
<1>3. ASSUME NEW t \in Seq(Characters), NEW c \in Characters, t \in T PROVE t \o <<c>> \in T
  <2>1. s \o t \in Seq(Characters) /\ t \o <<c>> \in Seq(Characters) /\ <<c>> \in Seq(Characters)
    <3>1. <<c>> \in Seq(Characters)
      OBVIOUS
    <3>. QED BY <3>1, ConcatProperties
  <2>2. ByteLen((s \o t) \o <<c>>) = ByteLen(s \o t) + Bytes8(c)
    BY <2>1, ByteLenMore
  <2>3. ByteLen(t \o <<c>>) = ByteLen(t) + Bytes8(c)
    BY ByteLenMore
  <2>4. (s \o t) \o <<c>> = s \o (t \o <<c>>)
    BY <2>1, ConcatAssociative
  <2>5. ByteLen(s \o t) = ByteLen(s) + ByteLen(t)
    BY <1>3
  <2>6. ByteLen(s) \in Nat /\ ByteLen(t) \in Nat /\ Bytes8(c) \in 1 .. 4
    BY <1>1, BytesOfSymbol
  <2>7. ByteLen(s \o (t \o <<c>>)) = ByteLen(s) + ByteLen(t \o <<c>>)
    <3>1. PICK x \in Nat, y \in Nat, b \in Nat : x = ByteLen(s) /\ y = ByteLen(t) /\ b = Bytes8(c)
      BY <2>6
    <3>2. (x + y) + b = x + (y + b)
      OBVIOUS
    <3>. QED BY <2>2, <2>3, <2>4, <2>5, <3>1, <3>2, Zenon
  <2>. QED BY <2>1, <2>7
<1>. HIDE DEF T
<1>4. r \in T
  BY <1>2, <1>3, GrowingSequences
<1>. QED BY <1>1, <1>4 DEF T

\* There is always room: no character takes more units than bytes.
LEMMA WideFits ==
    ASSUME NEW s \in Seq(Characters)
    PROVE  Len(Wide(s)) <= ByteLen(s) /\ Len(Wide(s)) \in Nat
<1>. DEFINE T == {t \in Seq(Characters) : Len(Wide(t)) <= ByteLen(t) /\ Len(Wide(t)) \in Nat}
<1>1. Characters \subseteq Alphabet
  BY DEF Alphabet
<1>2. <<>> \in T
  <2>1. <<>> \in Seq(Characters) /\ Len(<<>>) = 0
    OBVIOUS
  <2>. QED BY <2>1, NothingWide, NothingTallied
<1>3. ASSUME NEW t \in Seq(Characters), NEW c \in Characters, t \in T PROVE t \o <<c>> \in T
  <2>1. t \in Seq(Alphabet) /\ c \in Alphabet /\ t \o <<c>> \in Seq(Characters)
    BY <1>1, OneMore
  <2>2. PICK w : w = WideOf(call.wide, c)
    OBVIOUS
  <2>3. Wide(t \o <<c>>) = Wide(t) \o w /\ Wide(t) \in Seq(CodesOf(call.wide))
    BY <2>1, <2>2, WideMore
  <2>4. w \in Seq(CodesOf(call.wide)) /\ Len(w) <= Bytes8(c) /\ Len(w) \in Nat
    <3>1. CASE call.wide = 16 /\ c = "four"
      <4>1. w = <<"hi", "lo">> /\ Bytes8(c) = 4
        BY <2>2, <3>1 DEF WideOf, UnitsOf, Bytes8
      <4>2. <<"hi", "lo">> \in Seq(Units) /\ Len(<<"hi", "lo">>) = 2
        BY DEF Units
      <4>3. w \in Seq(CodesOf(call.wide)) /\ Len(w) = 2
        BY <3>1, <4>1, <4>2 DEF CodesOf
      <4>. QED BY <4>1, <4>3
    <3>2. CASE ~(call.wide = 16 /\ c = "four")
      <4>1. w = <<Mend(c)>>
        BY <2>2, <3>2 DEF WideOf, UnitsOf
      <4>2. Mend(c) \in CodesOf(call.wide)
        BY <3>2 DEF Mend, CodesOf, Runes, Characters, Units
      <4>3. Len(w) = 1 /\ w \in Seq(CodesOf(call.wide))
        BY <4>1, <4>2
      <4>. QED BY <4>3, BytesOfSymbol
    <3>. QED BY <3>1, <3>2
  <2>5. Len(Wide(t) \o w) = Len(Wide(t)) + Len(w)
    BY <2>3, <2>4, ConcatProperties
  <2>6. ByteLen(t \o <<c>>) = ByteLen(t) + Bytes8(c) /\ ByteLen(t) \in Nat /\ Bytes8(c) \in 1 .. 4
    BY ByteLenMore, BytesOfSymbol
  <2>7. Len(Wide(t)) <= ByteLen(t) /\ Len(Wide(t)) \in Nat
    BY <1>3
  <2>. QED BY <2>1, <2>3, <2>4, <2>5, <2>6, <2>7
<1>. HIDE DEF T
<1>4. s \in T
  BY <1>2, <1>3, GrowingSequences
<1>. QED BY <1>4 DEF T


-----------------------------------------------------------------------------
(* The transcoding: the invariant.                                         *)

\* The text that is being converted, and the symbols it is made of.
Whole == IF call.to # 8 /\ st.to = 8 THEN out.units ELSE call.src
Symbols == IF Widens THEN Characters ELSE CodesOf(call.wide)

\* What a part of it is in the encoding that is written.
InOther(s) == IF Widens THEN Wide(s) ELSE InChars(s)

TurnTypes ==
    /\ call.op = "utf" /\ call.to \in {8, 16, 32} /\ call.wide \in {16, 32} /\ call.counts \in BOOLEAN
    /\ call.claim \in Int
    /\ IF call.to = 8 THEN call.src \in Seq(CodesOf(call.wide)) ELSE call.src \in Seq(Characters)
    /\ st \in [pc : {"turn", "returned"}, to : {8, 16, 32}, todo : Seq(Alphabet), n : Nat]
    /\ out \in [units : Seq(Alphabet), chars : Seq(Plain)]

\* The text is what is done and what is not, no pair has been cut, and what is written is what
\* is done in the other encoding, or its length is counted.
DoneIs(done) ==
    /\ done \in Seq(Symbols) /\ st.todo \in Seq(Symbols)
    /\ Whole = done \o st.todo
    /\ Widens \/ st.todo = <<>> \/ ~Halves(call.wide, done, st.todo[1])
    /\ call.counts => st.n = IF Widens THEN Len(Wide(done)) ELSE ByteLen(InChars(done))
    /\ ~call.counts => IF Widens THEN out.units = Wide(done) ELSE out.chars = InChars(done)

TurnParts ==
    /\ TurnTypes
    /\ \E done \in Seq(Symbols) : DoneIs(done)
    /\ st.to # call.to => st.to = 8 /\ ~call.counts /\ out.units = Wide(call.src)
    /\ Widens => out.chars = <<>>
    /\ Returned => st.todo = <<>> /\ (st.to = 8 \/ call.counts)

TurnIndInv == call.op = "utf" => TurnParts

LEMMA TurnIndInvInit == ASSUME TranscodeInit PROVE TurnIndInv
<1>0. Texts \subseteq Seq(Characters) /\ UnitTexts \subseteq Seq(Units) /\ RuneTexts \subseteq Seq(Runes) /\ Claims \subseteq Int
  BY TextsAssumption, Zenon
<1>1. /\ call.op = "utf" /\ call.to \in {8, 16, 32} /\ call.wide \in {16, 32} /\ call.counts \in BOOLEAN
      /\ call.claim \in Int
      /\ IF call.to = 8 THEN call.src \in Seq(CodesOf(call.wide)) ELSE call.src \in Seq(Characters)
  <2>1. CASE /\ call \in [op : {"utf"}, to : {16, 32}, wide : {16, 32}, counts : BOOLEAN, src : Texts, claim : Claims]
             /\ call.to = call.wide
    <3>1. call.op = "utf" /\ call.to \in {16, 32} /\ call.wide \in {16, 32} /\ call.counts \in BOOLEAN
          /\ call.src \in Texts /\ call.claim \in Claims
      BY <2>1
    <3>2. call.to # 8 /\ call.to \in {8, 16, 32} /\ call.claim \in Int
      <4>1. call.claim \in Int
        BY <1>0, <3>1
      <4>2. call.to = 16 \/ call.to = 32
        BY <3>1
      <4>. QED BY <4>1, <4>2
    <3>3. call.src \in Seq(Characters)
      BY <1>0, <3>1
    <3>. QED BY <3>1, <3>2, <3>3
  <2>2. CASE call \in [op : {"utf"}, to : {8}, wide : {16}, counts : BOOLEAN, src : UnitTexts, claim : Claims]
    <3>1. call.op = "utf" /\ call.to = 8 /\ call.wide = 16 /\ call.counts \in BOOLEAN
          /\ call.src \in UnitTexts /\ call.claim \in Claims
      BY <2>2
    <3>. QED BY <1>0, <3>1 DEF CodesOf
  <2>3. CASE call \in [op : {"utf"}, to : {8}, wide : {32}, counts : {FALSE}, src : RuneTexts, claim : Claims]
    <3>1. call.op = "utf" /\ call.to = 8 /\ call.wide = 32 /\ call.counts \in BOOLEAN
          /\ call.src \in RuneTexts /\ call.claim \in Claims
      BY <2>3
    <3>2. call.src \in Seq(CodesOf(call.wide))
      BY <1>0, <3>1 DEF CodesOf
    <3>. QED BY <1>0, <3>1, <3>2
  <2>. QED BY <2>1, <2>2, <2>3 DEF TranscodeInit
<1>2. st = [pc |-> "turn", to |-> call.to, todo |-> call.src, n |-> 0] /\ out = [units |-> <<>>, chars |-> <<>>]
  BY DEF TranscodeInit
<1>3. call.src \in Seq(Alphabet)
  <2>1. Characters \subseteq Alphabet /\ CodesOf(call.wide) \subseteq Alphabet
    BY DEF Alphabet, CodesOf
  <2>. QED BY <1>1, <2>1
<1>4. TurnTypes
  <2>1. <<>> \in Seq(Alphabet) /\ <<>> \in Seq(Plain)
    OBVIOUS
  <2>. QED BY <1>1, <1>2, <1>3, <2>1 DEF TurnTypes
<1>5. DoneIs(<<>>) /\ <<>> \in Seq(Symbols)
  <2>1. Whole = call.src /\ call.src \in Seq(Symbols)
    BY <1>1, <1>2 DEF Whole, Symbols, Widens
  <2>2. <<>> \o call.src = call.src /\ <<>> \in Seq(Symbols)
    BY <2>1, ConcatEmptySeq
  <2>3. ~Halves(call.wide, <<>>, st.todo[1])
    BY DEF Halves, LastIs
  <2>. QED BY <1>2, <2>1, <2>2, <2>3, NothingWide, NothingInChars, NothingTallied DEF DoneIs
<1>. QED BY <1>2, <1>4, <1>5 DEF TurnIndInv, TurnParts, Returned


LEMMA OtherTypes ==
    ASSUME NEW done \in Seq(Symbols)
    PROVE  /\ Widens => Wide(done) \in Seq(CodesOf(call.wide)) /\ Wide(done) \in Seq(Alphabet)
           /\ ~Widens => InChars(done) \in Seq(Plain)
<1>1. "a" \in Alphabet /\ "a" \in CodesOf(call.wide) /\ ~Halves(call.wide, done, "a")
  BY DEF Alphabet, Units, Runes, CodesOf, Halves
<1>2. CASE Widens
  <2>1. done \in Seq(Alphabet)
    <3>1. Symbols \subseteq Alphabet
      BY <1>2 DEF Symbols, Alphabet
    <3>. QED BY <3>1
  <2>2. Wide(done) \in Seq(CodesOf(call.wide))
    BY <1>1, <2>1, WideMore
  <2>3. CodesOf(call.wide) \subseteq Alphabet
    BY DEF CodesOf, Alphabet
  <2>. QED BY <1>2, <2>2, <2>3
<1>3. CASE ~Widens
  <2>1. done \in Seq(CodesOf(call.wide))
    BY <1>3 DEF Symbols
  <2>2. InChars(done) \in Seq(Plain)
    BY <1>1, <2>1, InCharsMore
  <2>. QED BY <1>3, <2>2
<1>. QED BY <1>2, <1>3

\* A turn takes k symbols and writes s for them, whatever has been done before.
TurnWrites(k, s) ==
    \A done \in Seq(Symbols) : DoneIs(done) => InOther(done \o SubSeq(st.todo, 1, k)) = InOther(done) \o s

\* and does not cut a pair.
CutsNoPair(k) ==
    Widens \/ k >= Len(st.todo) \/ ~(call.wide = 16 /\ st.todo[k] = "hi" /\ st.todo[k + 1] = "lo")

LEMMA TurnKeeps ==
    ASSUME TurnParts, Turning, NEW k \in 1 .. Len(st.todo), NEW s \in Seq(Alphabet), ~Widens => s \in Seq(Plain),
           Turn(k, s), TurnWrites(k, s), CutsNoPair(k)
    PROVE  TurnIndInv'
<1>1. /\ st \in [pc : {"turn", "returned"}, to : {8, 16, 32}, todo : Seq(Alphabet), n : Nat] /\ st.pc = "turn"
      /\ out \in [units : Seq(Alphabet), chars : Seq(Plain)] /\ call.op = "utf" /\ call.counts \in BOOLEAN
  BY DEF TurnParts, TurnTypes, Turning, In
<1>2. PICK done \in Seq(Symbols) : DoneIs(done)
  BY DEF TurnParts
<1>3. PICK run, rest : run = SubSeq(st.todo, 1, k) /\ rest = SubSeq(st.todo, k + 1, Len(st.todo))
  OBVIOUS
<1>4. /\ run \in Seq(Symbols) /\ Len(run) = k /\ \A x \in 1 .. k : run[x] = st.todo[x]
      /\ rest \in Seq(Symbols) /\ Len(rest) = Len(st.todo) - k /\ \A x \in 1 .. Len(st.todo) - k : rest[x] = st.todo[k + x]
      /\ st.todo = run \o rest
  <2>1. st.todo \in Seq(Symbols) /\ k \in 0 .. Len(st.todo)
    BY <1>2 DEF DoneIs
  <2>2. LET front == SubSeq(st.todo, 1, k)
            after == SubSeq(st.todo, k + 1, Len(st.todo))
        IN /\ front \in Seq(Symbols) /\ Len(front) = k /\ \A x \in 1 .. k : front[x] = st.todo[x]
           /\ after \in Seq(Symbols) /\ Len(after) = Len(st.todo) - k
           /\ \A x \in 1 .. Len(st.todo) - k : after[x] = st.todo[k + x]
           /\ st.todo = front \o after
    BY ONLY <2>1, CutInTwo, ZenonT(120)
  <2>. QED BY ONLY <1>3, <2>2, ZenonT(120)
<1>5. PICK more : more = done \o run
  OBVIOUS
<1>6. /\ more \in Seq(Symbols) /\ Len(more) = Len(done) + k /\ more[Len(more)] = st.todo[k] /\ Len(more) # 0
      /\ Len(st.todo) \in Nat
  <2>1. /\ more \in Seq(Symbols) /\ Len(more) = Len(done) + Len(run)
        /\ \A x \in 1 .. Len(done) + Len(run) : more[x] = IF x <= Len(done) THEN done[x] ELSE run[x - Len(done)]
    <3>1. done \in Seq(Symbols) /\ run \in Seq(Symbols)
      BY <1>4
    <3>. QED BY ONLY <1>5, <3>1, ConcatProperties
  <2>2. Len(done) \in Nat /\ k \in Nat /\ k >= 1 /\ Len(st.todo) \in Nat
    BY <1>1
  <2>3. Len(done) + k \in 1 .. Len(done) + k /\ ~(Len(done) + k <= Len(done)) /\ (Len(done) + k) - Len(done) = k
        /\ k \in 1 .. k
    BY <2>2
  <2>4. more[Len(done) + k] = run[k]
    BY <1>4, <2>1, <2>3
  <2>5. Len(more) = Len(done) + k
    BY <1>4, <2>1
  <2>6. run[k] = st.todo[k]
    BY <1>4, <2>3
  <2>7. Len(done) + k # 0
    BY <2>2
  <2>. QED BY <2>1, <2>2, <2>4, <2>5, <2>6, <2>7
<1>7. Whole = more \o rest
  <2>1. Whole = done \o (run \o rest)
    BY <1>2, <1>4 DEF DoneIs
  <2>2. (done \o run) \o rest = done \o (run \o rest)
    BY <1>4, ConcatAssociative, SMTT(120)
  <2>. QED BY <1>5, <2>1, <2>2
<1>8. Widens \/ rest = <<>> \/ ~Halves(call.wide, more, rest[1])
  <2>. SUFFICES ASSUME ~Widens, rest # <<>>, Halves(call.wide, more, rest[1]) PROVE FALSE
    OBVIOUS
  <2>1. Len(rest) \in Nat /\ Len(rest) # 0
    BY <1>4, EmptySeq
  <2>2. k < Len(st.todo) /\ 1 \in 1 .. Len(st.todo) - k
    BY <1>4, <1>6, <2>1
  <2>3. rest[1] = st.todo[k + 1]
    BY <1>4, <2>2
  <2>4. ~(k >= Len(st.todo))
    BY <1>6, <2>2
  <2>. QED BY <1>6, <2>3, <2>4 DEF CutsNoPair, Halves, LastIs
<1>9. InOther(more) = InOther(done) \o s
  BY <1>2, <1>3, <1>5 DEF TurnWrites
<1>10. /\ Widens => Wide(done) \in Seq(Alphabet) /\ Wide(more) = Wide(done) \o s
       /\ ~Widens => InChars(done) \in Seq(Plain) /\ InChars(more) = InChars(done) \o s
  BY <1>2, <1>6, <1>9, OtherTypes DEF InOther
<1>11. PICK n \in Nat : n = IF Widens THEN Len(s) ELSE ByteLen(s)
  <2>1. ~Widens => ByteLen(s) \in Nat
    <3>1. Plain \subseteq Characters
      BY DEF Plain, Characters
    <3>2. ~Widens => s \in Seq(Characters)
      BY <3>1
    <3>. QED BY <3>2, ByteLenJoin
  <2>2. Len(s) \in Nat
    OBVIOUS
  <2>. QED BY <2>1, <2>2
<1>12. call.counts => st.n + n = IF Widens THEN Len(Wide(more)) ELSE ByteLen(InChars(more))
  <2>. SUFFICES ASSUME call.counts PROVE st.n + n = IF Widens THEN Len(Wide(more)) ELSE ByteLen(InChars(more))
    OBVIOUS
  <2>1. CASE Widens
    <3>1. Len(Wide(done) \o s) = Len(Wide(done)) + Len(s)
      BY <1>10, <2>1, ConcatProperties
    <3>. QED BY <1>2, <1>10, <1>11, <2>1, <3>1 DEF DoneIs
  <2>2. CASE ~Widens
    <3>1. Plain \subseteq Characters
      BY DEF Plain, Characters
    <3>2. InChars(done) \in Seq(Characters) /\ s \in Seq(Characters)
      BY <1>10, <2>2, <3>1
    <3>3. ByteLen(InChars(done) \o s) = ByteLen(InChars(done)) + ByteLen(s)
      BY <3>2, ByteLenJoin
    <3>. QED BY <1>2, <1>10, <1>11, <2>2, <3>3 DEF DoneIs
  <2>. QED BY <2>1, <2>2
<1>13. /\ call' = call /\ st'.pc = "turn" /\ st'.to = st.to /\ st'.todo = rest
       /\ st'.n = IF ~call.counts THEN st.n ELSE st.n + n
       /\ st' \in [pc : {"turn", "returned"}, to : {8, 16, 32}, todo : Seq(Alphabet), n : Nat]
  <2>1. st' = [st EXCEPT !.todo = rest, !.n = IF ~call.counts THEN st.n ELSE st.n + n] /\ call' = call
    BY <1>3, <1>11 DEF Turn
  <2>2. rest \in Seq(Alphabet)
    <3>1. Symbols \subseteq Alphabet
      BY DEF Symbols, Alphabet, CodesOf
    <3>. QED BY <1>4, <3>1
  <2>3. st.n + n \in Nat
    BY <1>1
  <2>. QED BY <1>1, <2>1, <2>2, <2>3
<1>14. /\ call.counts => out' = out
       /\ ~call.counts /\ Widens => out'.units = out.units \o s /\ out'.chars = out.chars
       /\ ~call.counts /\ ~Widens => out'.chars = out.chars \o s /\ out'.units = out.units
       /\ out' \in [units : Seq(Alphabet), chars : Seq(Plain)]
  <2>1. CASE call.counts
    <3>1. out' = out
      BY <1>1, <2>1 DEF Turn
    <3>. QED BY <1>1, <2>1, <3>1
  <2>2. CASE ~call.counts /\ Widens
    <3>1. out' = [out EXCEPT !.units = out.units \o s]
      BY <1>1, <2>2 DEF Turn
    <3>2. out.units \o s \in Seq(Alphabet)
      BY <1>1, ConcatProperties
    <3>. QED BY <1>1, <2>2, <3>1, <3>2
  <2>3. CASE ~call.counts /\ ~Widens
    <3>1. out' = [out EXCEPT !.chars = out.chars \o s]
      BY <1>1, <2>3 DEF Turn
    <3>2. out.chars \o s \in Seq(Plain)
      BY <1>1, <2>3, ConcatProperties
    <3>. QED BY <1>1, <2>3, <3>1, <3>2
  <2>. QED BY <2>1, <2>2, <2>3
<1>15. (Widens' <=> Widens) /\ Symbols' = Symbols /\ Whole' = Whole
  <2>1. Widens' <=> Widens
    BY <1>13 DEF Widens
  <2>2. Symbols' = Symbols
    BY <1>13, <2>1 DEF Symbols
  <2>3. Whole' = Whole
    <3>1. CASE Widens
      BY <1>13, <3>1 DEF Whole, Widens
    <3>2. CASE ~Widens
      <4>1. out'.units = out.units
        BY <1>1, <1>14, <3>2
      <4>. QED BY <1>13, <4>1 DEF Whole
    <3>. QED BY <3>1, <3>2
  <2>. QED BY <2>1, <2>2, <2>3
<1>16. Wide(more)' = Wide(more) /\ InChars(more)' = InChars(more) /\ Wide(call.src)' = Wide(call.src)
       /\ Halves(call.wide, more, rest[1])' = Halves(call.wide, more, rest[1])
  BY <1>13 DEF Wide, InUnits, InChars, CharAt, Halves, LastIs
<1>17. DoneIs(more)'
  <2>1. more' = more /\ rest' = rest
    OBVIOUS
  <2>2. ~call.counts => IF Widens THEN out'.units = Wide(more) ELSE out'.chars = InChars(more)
    BY <1>1, <1>2, <1>10, <1>14 DEF DoneIs
  <2>. QED BY <1>4, <1>6, <1>7, <1>8, <1>12, <1>13, <1>15, <1>16, <2>2 DEF DoneIs, Halves, LastIs
<1>18. TurnTypes'
  BY <1>13, <1>14 DEF TurnParts, TurnTypes, CodesOf
<1>19. /\ st'.to # call'.to => st'.to = 8 /\ ~call'.counts /\ out'.units = Wide(call.src)'
       /\ Widens' => out'.chars = <<>>
  <2>1. st.to # call.to => st.to = 8 /\ ~call.counts /\ out.units = Wide(call.src)
    BY DEF TurnParts
  <2>2. st.to = 8 => out'.units = out.units
    BY <1>1, <1>14 DEF Widens
  <2>3. Widens => out.chars = <<>> /\ out'.chars = out.chars
    BY <1>1, <1>14 DEF TurnParts
  <2>. QED BY <1>13, <1>15, <1>16, <2>1, <2>2, <2>3
<1>. QED BY <1>6, <1>13, <1>15, <1>17, <1>18, <1>19 DEF TurnIndInv, TurnParts, Returned


LEMMA LeadingRunIs ==
    ASSUME st.todo \in Seq(Alphabet), st.todo # <<>>, st.todo[1] = "a"
    PROVE  LeadingRun \in 1 .. Len(st.todo) /\ \A x \in 1 .. LeadingRun : st.todo[x] = "a"
<1>1. PICK s \in Seq(Alphabet), n \in Nat : s = st.todo /\ n = Len(s) /\ n # 0
  <2>1. Len(st.todo) \in Nat /\ Len(st.todo) # 0
    BY EmptySeq
  <2>. QED BY <2>1
<1>. DEFINE Stops == {j \in 1 .. n + 1 : j = n + 1 \/ s[j] # "a"}
            Runs(k) == (\A x \in 1 .. k : s[x] = "a") /\ (k < n => s[k + 1] # "a")
<1>2. PICK j \in Stops : \A y \in Stops : j <= y
  <2>1. n + 1 \in Stops /\ Stops \subseteq Nat
    BY <1>1
  <2>. QED BY <2>1, LeastNatural
<1>3. j \in 1 .. n + 1 /\ (j = n + 1 \/ s[j] # "a")
  OBVIOUS
<1>4. \A x \in 1 .. j - 1 : s[x] = "a"
  <2>. SUFFICES ASSUME NEW x \in 1 .. j - 1, s[x] # "a" PROVE FALSE
    OBVIOUS
  <2>1. x \in Stops
    BY <1>3
  <2>. QED BY <1>2, <1>3, <2>1
<1>5. j - 1 \in 0 .. n /\ (j - 1 < n => s[j - 1 + 1] # "a")
  <2>1. j - 1 \in 0 .. n /\ j - 1 + 1 = j
    BY <1>3
  <2>2. j - 1 < n => j # n + 1
    BY <1>3
  <2>. QED BY <1>3, <2>1, <2>2
<1>. HIDE DEF Stops
<1>6. \E k \in 0 .. n : Runs(k)
  BY <1>4, <1>5
<1>. PICK r : r = LeadingRun
  OBVIOUS
<1>7. r = CHOOSE k \in 0 .. n : Runs(k)
  BY <1>1 DEF LeadingRun
<1>. HIDE DEF Runs
<1>8. r \in 0 .. n /\ Runs(r)
  BY <1>6, <1>7
<1>9. r # 0
  <2>1. r = 0 => s[0 + 1] # "a"
    BY <1>1, <1>8 DEF Runs
  <2>. QED BY <1>1, <2>1
<1>. QED BY <1>1, <1>8, <1>9 DEF Runs

\* However much of a run a kernel claims, some of it is taken and nothing but it.
LEMMA AsciiRunIs ==
    ASSUME TurnParts, Turning, st.todo[1] = "a"
    PROVE  AsciiRun \in 1 .. Len(st.todo) /\ \A x \in 1 .. AsciiRun : st.todo[x] = "a"
<1>1. st.todo \in Seq(Alphabet) /\ st.todo # <<>> /\ call.claim \in Int
  BY DEF TurnParts, TurnTypes, Turning
<1>2. LeadingRun \in 1 .. Len(st.todo) /\ \A x \in 1 .. LeadingRun : st.todo[x] = "a"
  BY <1>1, LeadingRunIs
<1>3. PICK r \in Nat, n \in Nat : r = LeadingRun /\ n = Len(st.todo)
  BY <1>1, <1>2
<1>4. PICK k : k = KernelRun
  OBVIOUS
<1>5. k \in Int /\ k <= r
  BY <1>1, <1>3, <1>4 DEF KernelRun
<1>6. AsciiRun \in 1 .. r
  <2>1. CASE CountedHere
    BY <1>2, <1>3, <2>1 DEF AsciiRun
  <2>2. CASE ~CountedHere /\ k <= 0
    BY <1>2, <1>3, <1>4, <2>2 DEF AsciiRun
  <2>3. CASE ~CountedHere /\ ~(k <= 0)
    BY <1>3, <1>4, <1>5, <2>3 DEF AsciiRun
  <2>. QED BY <2>1, <2>2, <2>3
<1>. QED BY <1>2, <1>3, <1>6

\* The types of a turn's text.
LEMMA TurnFacts ==
    ASSUME TurnParts, Turning
    PROVE  /\ st.todo \in Seq(Symbols) /\ st.todo # <<>> /\ Len(st.todo) \in Nat /\ Len(st.todo) >= 1
           /\ st.todo[1] \in Symbols /\ SubSeq(st.todo, 1, 1) = <<st.todo[1]>>
           /\ call.wide \in {16, 32} /\ Symbols \subseteq Alphabet
<1>1. st.todo \in Seq(Symbols) /\ st.todo # <<>>
  BY DEF TurnParts, DoneIs, Turning
<1>2. Len(st.todo) \in Nat /\ Len(st.todo) >= 1
  BY <1>1, EmptySeq
<1>3. st.todo[1] \in Symbols /\ 1 \in 1 .. Len(st.todo)
  BY <1>1, <1>2
<1>4. SubSeq(st.todo, 1, 1) = <<st.todo[1]>>
  <2>1. SubSeq(st.todo, 1, 1) = <<st.todo[1]>> \o SubSeq(st.todo, 1 + 1, 1)
    <3>1. 1 \in 1 .. Len(st.todo) /\ 1 \in 1 .. Len(st.todo)
      BY <1>3
    <3>. QED BY <1>1, <3>1, SubSeqRecursiveFirst
  <2>2. SubSeq(st.todo, 1 + 1, 1) = <<>>
    BY SubSeqEmpty
  <2>3. <<st.todo[1]>> \in Seq(Symbols)
    BY <1>3
  <2>. QED BY <2>1, <2>2, <2>3, ConcatEmptySeq
<1>5. call.wide \in {16, 32} /\ Symbols \subseteq Alphabet
  BY DEF TurnParts, TurnTypes, Symbols, Alphabet, CodesOf
<1>. QED BY <1>1, <1>2, <1>3, <1>4, <1>5

LEMMA CopyRunInv == ASSUME TurnIndInv, CopyRun PROVE TurnIndInv'
<1>1. TurnParts /\ Turning /\ st.todo[1] = "a"
  BY DEF CopyRun, TurnIndInv, Turning, In
<1>2. PICK k \in 1 .. Len(st.todo) : k = AsciiRun /\ \A x \in 1 .. k : st.todo[x] = "a"
  BY <1>1, AsciiRunIs
<1>3. PICK run : run = SubSeq(st.todo, 1, k)
  OBVIOUS
<1>4. run \in Seq({"a"}) /\ run \in Seq(Alphabet) /\ run \in Seq(Plain)
  <2>1. st.todo \in Seq(Symbols) /\ k \in 0 .. Len(st.todo) /\ k \in Nat
    BY <1>1, TurnFacts
  <2>2. run \in Seq(Symbols) /\ Len(run) = k /\ \A x \in 1 .. k : run[x] = st.todo[x]
    BY <1>3, <2>1, CutInTwo
  <2>3. \A x \in 1 .. Len(run) : run[x] \in {"a"}
    BY <1>2, <2>2
  <2>4. run \in Seq({"a"})
    BY <2>2, <2>3
  <2>5. {"a"} \subseteq Alphabet /\ {"a"} \subseteq Plain
    BY DEF Alphabet, Units, Plain
  <2>. QED BY <2>4, <2>5
<1>5. Turn(k, run)
  BY <1>2, <1>3 DEF CopyRun
<1>6. TurnWrites(k, run)
  <2>. SUFFICES ASSUME NEW done \in Seq(Symbols) PROVE InOther(done \o run) = InOther(done) \o run
    BY <1>3 DEF TurnWrites
  <2>1. CASE Widens
    <3>1. done \in Seq(Alphabet)
      BY <1>1, TurnFacts
    <3>. QED BY <1>4, <2>1, <3>1, RunWide DEF InOther
  <2>2. CASE ~Widens
    <3>1. done \in Seq(CodesOf(call.wide))
      BY <2>2 DEF Symbols
    <3>. QED BY <1>4, <2>2, <3>1, RunInChars DEF InOther
  <2>. QED BY <2>1, <2>2
<1>7. CutsNoPair(k)
  <2>1. k \in 1 .. k
    OBVIOUS
  <2>2. st.todo[k] = "a"
    BY <1>2, <2>1
  <2>. QED BY <2>2 DEF CutsNoPair
<1>. QED BY <1>1, <1>4, <1>5, <1>6, <1>7, TurnKeeps

LEMMA WidenRuneInv == ASSUME TurnIndInv, WidenRune PROVE TurnIndInv'
<1>1. TurnParts /\ Turning /\ Widens
  BY DEF WidenRune, TurnIndInv, Turning, In
<1>2. PICK c : c = st.todo[1]
  OBVIOUS
<1>3. /\ c \in Characters /\ c \in Alphabet /\ 1 \in 1 .. Len(st.todo) /\ SubSeq(st.todo, 1, 1) = <<c>>
      /\ call.wide \in {16, 32}
  BY <1>1, <1>2, TurnFacts DEF Symbols
<1>4. PICK s : s = Widened(c)
  OBVIOUS
<1>5. s = WideOf(call.wide, c) /\ s \in Seq(Alphabet)
  <2>1. "hi" \in Alphabet /\ "lo" \in Alphabet /\ "fffd" \in Alphabet
    BY DEF Alphabet, Units
  <2>2. CASE c = "four" /\ call.wide = 16
    <3>1. s = <<"hi", "lo">> /\ WideOf(call.wide, c) = <<"hi", "lo">>
      BY <1>4, <2>2 DEF Widened, WideOf, UnitsOf
    <3>2. <<"hi", "lo">> \in Seq(Alphabet)
      BY <2>1
    <3>. QED BY <3>1, <3>2
  <2>3. CASE c = "bad"
    <3>1. s = <<"fffd">> /\ WideOf(call.wide, c) = <<"fffd">>
      BY <1>4, <2>3 DEF Widened, WideOf, UnitsOf, Mend
    <3>2. <<"fffd">> \in Seq(Alphabet)
      BY <2>1
    <3>. QED BY <3>1, <3>2
  <2>4. CASE c # "bad" /\ ~(c = "four" /\ call.wide = 16)
    <3>1. s = <<c>>
      BY <1>4, <2>4 DEF Widened
    <3>2. Mend(c) = c
      BY <1>3, <2>4 DEF Mend, Characters
    <3>3. WideOf(call.wide, c) = <<c>>
      BY <2>4, <3>2 DEF WideOf, UnitsOf
    <3>4. <<c>> \in Seq(Alphabet)
      BY <1>3
    <3>. QED BY <3>1, <3>3, <3>4
  <2>. QED BY <2>2, <2>3, <2>4
<1>6. Turn(1, s)
  BY <1>2, <1>4 DEF WidenRune
<1>7. TurnWrites(1, s)
  <2>. SUFFICES ASSUME NEW done \in Seq(Symbols) PROVE InOther(done \o <<c>>) = InOther(done) \o s
    BY <1>3 DEF TurnWrites
  <2>1. done \in Seq(Alphabet)
    BY <1>1, TurnFacts
  <2>. QED BY <1>1, <1>3, <1>5, <2>1, WideMore DEF InOther
<1>8. CutsNoPair(1)
  BY <1>1 DEF CutsNoPair
<1>. QED BY <1>1, <1>3, <1>5, <1>6, <1>7, <1>8, TurnKeeps

LEMMA NarrowRuneInv == ASSUME TurnIndInv, NarrowRune PROVE TurnIndInv'
<1>1. TurnParts /\ Turning /\ ~Widens
  BY DEF NarrowRune, TurnIndInv, Turning, In
<1>2. PICK c : c = st.todo[1]
  OBVIOUS
<1>3. /\ c \in CodesOf(call.wide) /\ 1 \in 1 .. Len(st.todo) /\ SubSeq(st.todo, 1, 1) = <<c>>
      /\ call.wide \in {16, 32} /\ Symbols = CodesOf(call.wide) /\ Len(st.todo) \in Nat
  BY <1>1, <1>2, TurnFacts DEF Symbols
<1>4. CASE Paired
  <2>1. call.wide = 16 /\ Len(st.todo) > 1 /\ st.todo[1] = "hi" /\ st.todo[2] = "lo" /\ 2 \in 1 .. Len(st.todo)
    BY <1>3, <1>4 DEF Paired
  <2>2. Turn(2, <<"four">>)
    BY <1>4 DEF NarrowRune, Narrowed
  <2>3. SubSeq(st.todo, 1, 2) = <<"hi", "lo">>
    <3>1. PICK r : r = SubSeq(st.todo, 1, 2)
      OBVIOUS
    <3>2. st.todo \in Seq(Symbols) /\ 2 \in 0 .. Len(st.todo)
      BY <1>1, <2>1, TurnFacts
    <3>3. r \in Seq(Symbols) /\ Len(r) = 2 /\ \A x \in 1 .. 2 : r[x] = st.todo[x]
      BY <3>1, <3>2, CutInTwo
    <3>4. PICK q \in Seq(Symbols) : q = <<"hi", "lo">>
      <4>1. <<"hi", "lo">> \in Seq(Symbols)
        <5>1. "hi" \in Symbols /\ "lo" \in Symbols
          BY <1>3, <2>1 DEF CodesOf, Units
        <5>. QED BY <5>1
      <4>. QED BY <4>1, Zenon
    <3>5. Len(q) = 2 /\ q[1] = "hi" /\ q[2] = "lo"
      BY <3>4
    <3>6. \A x \in 1 .. Len(r) : r[x] = q[x]
      <4>. TAKE x \in 1 .. Len(r)
      <4>1. x = 1 \/ x = 2
        BY <3>3
      <4>. QED BY <2>1, <3>3, <3>5, <4>1
    <3>7. r = q
      BY <3>3, <3>5, <3>6, SeqEqual
    <3>. QED BY <3>1, <3>4, <3>7
  <2>4. TurnWrites(2, <<"four">>)
    <3>. SUFFICES ASSUME NEW done \in Seq(Symbols)
                  PROVE  InOther(done \o <<"hi", "lo">>) = InOther(done) \o <<"four">>
      BY <2>3 DEF TurnWrites
    <3>1. done \in Seq(Units)
      BY <1>3, <2>1 DEF CodesOf
    <3>. QED BY <1>1, <2>1, <3>1, InCharsPair DEF InOther
  <2>5. CutsNoPair(2)
    BY <2>1 DEF CutsNoPair
  <2>6. <<"four">> \in Seq(Alphabet) /\ <<"four">> \in Seq(Plain)
    <3>1. "four" \in Alphabet /\ "four" \in Plain
      BY DEF Alphabet, Characters, Plain
    <3>. QED BY <3>1
  <2>. QED BY <1>1, <2>1, <2>2, <2>4, <2>5, <2>6, TurnKeeps
<1>5. CASE ~Paired
  <2>1. Narrowed = Mend(c)
    <3>1. c # "bad"
      BY <1>3 DEF CodesOf, Units, Runes
    <3>. QED BY <1>2, <1>5, <3>1 DEF Narrowed, Mend
  <2>2. Turn(1, <<Mend(c)>>)
    BY <1>5, <2>1 DEF NarrowRune
  <2>3. TurnWrites(1, <<Mend(c)>>)
    <3>. SUFFICES ASSUME NEW done \in Seq(Symbols), DoneIs(done)
                  PROVE  InOther(done \o <<c>>) = InOther(done) \o <<Mend(c)>>
      BY <1>3 DEF TurnWrites
    <3>1. ~Halves(call.wide, done, c)
      BY <1>1, <1>2 DEF DoneIs, Turning
    <3>. QED BY <1>1, <1>3, <3>1, InCharsMore DEF InOther
  <2>4. CutsNoPair(1)
    <3>1. ~(1 >= Len(st.todo)) => Len(st.todo) > 1
      BY <1>3
    <3>2. 1 + 1 = 2
      OBVIOUS
    <3>. QED BY <1>5, <3>1, <3>2 DEF CutsNoPair, Paired
  <2>5. <<Mend(c)>> \in Seq(Alphabet) /\ <<Mend(c)>> \in Seq(Plain)
    <3>1. Mend(c) \in Plain
      BY <1>3 DEF Mend, Plain, CodesOf, Units, Runes
    <3>2. Plain \subseteq Alphabet
      BY DEF Plain, Alphabet, Characters
    <3>. QED BY <3>1, <3>2
  <2>. QED BY <1>1, <1>3, <2>2, <2>3, <2>4, <2>5, TurnKeeps
<1>. QED BY <1>4, <1>5


LEMMA NothingLeft ==
    ASSUME TurnParts, st.todo = <<>>
    PROVE  DoneIs(Whole) /\ Whole \in Seq(Symbols)
<1>1. PICK done \in Seq(Symbols) : DoneIs(done)
  BY DEF TurnParts
<1>2. Whole = done
  <2>1. Whole = done \o <<>>
    BY <1>1 DEF DoneIs
  <2>. QED BY <2>1, ConcatEmptySeq
<1>. QED BY <1>1, <1>2

LEMMA BackToUTF8Inv == ASSUME TurnIndInv, BackToUTF8 PROVE TurnIndInv'
<1>1. TurnParts /\ st.todo = <<>> /\ Widens /\ ~call.counts /\ st.pc = "turn"
  BY DEF BackToUTF8, TurnIndInv, In
<1>2. /\ st \in [pc : {"turn", "returned"}, to : {8, 16, 32}, todo : Seq(Alphabet), n : Nat]
      /\ out \in [units : Seq(Alphabet), chars : Seq(Plain)] /\ out.chars = <<>>
      /\ st.to = call.to /\ call.to # 8 /\ call.wide \in {16, 32}
  BY <1>1 DEF TurnParts, TurnTypes, Widens
<1>3. Whole = call.src /\ DoneIs(Whole) /\ Whole \in Seq(Symbols)
  BY <1>1, <1>2, NothingLeft DEF Whole, Widens
<1>4. out.units = Wide(call.src) /\ out.units \in Seq(CodesOf(call.wide))
  <2>1. out.units = Wide(call.src)
    BY <1>1, <1>3 DEF DoneIs
  <2>2. Wide(call.src) \in Seq(CodesOf(call.wide))
    BY <1>1, <1>3, OtherTypes
  <2>. QED BY <2>1, <2>2
<1>5. /\ call' = call /\ out' = out /\ st'.pc = "turn" /\ st'.to = 8 /\ st'.todo = out.units /\ st'.n = st.n
      /\ st' \in [pc : {"turn", "returned"}, to : {8, 16, 32}, todo : Seq(Alphabet), n : Nat]
  <2>1. st' = [st EXCEPT !.to = 8, !.todo = out.units] /\ call' = call /\ out' = out
    BY DEF BackToUTF8
  <2>. QED BY <1>1, <1>2, <2>1
<1>6. ~Widens' /\ Symbols' = CodesOf(call.wide) /\ Whole' = out.units
  BY <1>2, <1>5 DEF Widens, Symbols, Whole, CodesOf
<1>7. Wide(call.src)' = Wide(call.src) /\ InChars(<<>>)' = <<>>
  BY <1>5, NothingInChars DEF Wide, InUnits, InChars, CharAt
<1>8. DoneIs(<<>>)' /\ <<>> \in Seq(Symbols')
  <2>1. <<>> \in Seq(Symbols') /\ <<>> \o out.units = out.units
    BY <1>4, ConcatEmptySeq
  <2>2. ~Halves(call.wide, <<>>, st.todo[1])'
    BY DEF Halves, LastIs
  <2>. QED BY <1>1, <1>2, <1>4, <1>5, <1>6, <1>7, <2>1, <2>2 DEF DoneIs
<1>9. TurnTypes'
  BY <1>1, <1>2, <1>5 DEF TurnParts, TurnTypes, CodesOf
<1>. QED BY <1>1, <1>4, <1>5, <1>6, <1>7, <1>8, <1>9 DEF TurnIndInv, TurnParts, Returned

LEMMA TranscodeEndInv == ASSUME TurnIndInv, TranscodeEnd PROVE TurnIndInv'
<1>1. TurnParts /\ st.todo = <<>> /\ (st.to = 8 \/ call.counts)
  BY DEF TranscodeEnd, TurnIndInv, In
<1>2. st \in [pc : {"turn", "returned"}, to : {8, 16, 32}, todo : Seq(Alphabet), n : Nat]
  BY <1>1 DEF TurnParts, TurnTypes
<1>3. /\ call' = call /\ out' = out /\ st'.pc = "returned" /\ st'.to = st.to /\ st'.todo = st.todo /\ st'.n = st.n
      /\ st' \in [pc : {"turn", "returned"}, to : {8, 16, 32}, todo : Seq(Alphabet), n : Nat]
  <2>1. st' = [st EXCEPT !.pc = "returned"] /\ call' = call /\ out' = out
    BY DEF TranscodeEnd, Return
  <2>. QED BY <1>2, <2>1
<1>4. PICK done \in Seq(Symbols) : DoneIs(done)
  BY <1>1 DEF TurnParts
<1>5. (Widens' <=> Widens) /\ Symbols' = Symbols /\ Whole' = Whole
  BY <1>3 DEF Widens, Symbols, Whole, CodesOf
<1>6. Wide(call.src)' = Wide(call.src) /\ Wide(done)' = Wide(done) /\ InChars(done)' = InChars(done)
  BY <1>3 DEF Wide, InUnits, InChars, CharAt
<1>7. DoneIs(done)'
  BY <1>3, <1>4, <1>5, <1>6 DEF DoneIs, Halves, LastIs
<1>8. TurnTypes'
  BY <1>1, <1>3 DEF TurnParts, TurnTypes, CodesOf
<1>. QED BY <1>1, <1>3, <1>4, <1>5, <1>6, <1>7, <1>8 DEF TurnIndInv, TurnParts, Returned

LEMMA TurnUnchanged == ASSUME TurnIndInv, UNCHANGED <<call, st, out>> PROVE TurnIndInv'
<1>1. call' = call /\ st' = st /\ out' = out
  OBVIOUS
<1>2. CASE call.op # "utf"
  BY <1>1, <1>2 DEF TurnIndInv
<1>3. CASE call.op = "utf"
  <2>1. TurnParts
    BY <1>3 DEF TurnIndInv
  <2>2. PICK done \in Seq(Symbols) : DoneIs(done)
    BY <2>1 DEF TurnParts
  <2>3. (Widens' <=> Widens) /\ Symbols' = Symbols /\ Whole' = Whole
    BY <1>1 DEF Widens, Symbols, Whole, CodesOf
  <2>4. Wide(call.src)' = Wide(call.src) /\ Wide(done)' = Wide(done) /\ InChars(done)' = InChars(done)
    BY <1>1 DEF Wide, InUnits, InChars, CharAt
  <2>5. DoneIs(done)'
    BY <1>1, <2>2, <2>3, <2>4 DEF DoneIs, Halves, LastIs
  <2>6. TurnTypes'
    BY <1>1, <2>1 DEF TurnParts, TurnTypes, CodesOf
  <2>. QED BY <1>1, <2>1, <2>2, <2>3, <2>4, <2>5, <2>6 DEF TurnIndInv, TurnParts, Returned
<1>. QED BY <1>2, <1>3

\* A call of another kind transcodes nothing.
LEMMA TurnIndInvStart == Init => TurnIndInv
<1>. SUFFICES ASSUME Init PROVE TurnIndInv
  OBVIOUS
<1>1. CASE call = NoCall
  BY <1>1 DEF NoCall, TurnIndInv
<1>2. CASE JsonInit
  <2>1. call.op = "json"
    BY <1>2 DEF JsonInit
  <2>. QED BY <2>1 DEF TurnIndInv
<1>3. CASE TranscodeInit
  BY <1>3, TurnIndInvInit
<1>. QED BY <1>1, <1>2, <1>3 DEF Init

LEMMA JsonStep ==
    ASSUME \/ StartBlock \/ EndBlock \/ Finish \/ Reject \/ Colon \/ Key \/ Comma \/ String
           \/ TooDeep \/ Open \/ Close \/ NumberLast \/ NumberHere \/ NumberOn
    PROVE  call.op = "json" /\ call' = call
BY DEF StartBlock, EndBlock, Finish, Reject, Colon, Key, Comma, String, TooDeep, Open, Close, NumberLast,
       NumberHere, NumberOn, Opens, Closes, Numeral, Walking, In, Answer01, Step

LEMMA TurnIndInvNext == TurnIndInv /\ [Next]_textVars => TurnIndInv'
<1>. SUFFICES ASSUME TurnIndInv, [Next]_textVars PROVE TurnIndInv'
  OBVIOUS
<1>1. CASE UNCHANGED <<call, st, out>>
  BY <1>1, TurnUnchanged
<1>2. CASE UNCHANGED textVars
  BY <1>1, <1>2 DEF textVars
<1>3. CASE \/ StartBlock \/ EndBlock \/ Finish \/ Reject \/ Colon \/ Key \/ Comma \/ String
           \/ TooDeep \/ Open \/ Close \/ NumberLast \/ NumberHere \/ NumberOn
  <2>1. call.op = "json" /\ call' = call
    BY <1>3, JsonStep
  <2>. QED BY <2>1 DEF TurnIndInv
<1>4. CASE CopyRun \/ WidenRune \/ NarrowRune \/ BackToUTF8 \/ TranscodeEnd
  BY <1>4, CopyRunInv, WidenRuneInv, NarrowRuneInv, BackToUTF8Inv, TranscodeEndInv
<1>. QED BY <1>1, <1>2, <1>3, <1>4 DEF Next, Searching, Apart

\* What has been consumed of a text.
LEMMA ConsumedIs ==
    ASSUME NEW S, NEW s \in Seq(S), NEW r \in Seq(S)
    PROVE  SubSeq(s \o r, 1, Len(s \o r) - Len(r)) = s
<1>. PICK t : t = s \o r
  OBVIOUS
<1>1. PICK n \in Nat, m \in Nat : t = s \o r /\ n = Len(s) /\ m = Len(r)
  OBVIOUS
<1>2. /\ t \in Seq(S) /\ Len(t) = n + m /\ \A x \in 1 .. n + m : t[x] = IF x <= n THEN s[x] ELSE r[x - n]
  BY <1>1, ConcatProperties
<1>3. (n + m) - m = n /\ n \in 0 .. Len(t)
  BY <1>2
<1>4. SubSeq(t, 1, n) \in Seq(S) /\ Len(SubSeq(t, 1, n)) = n /\ \A x \in 1 .. n : SubSeq(t, 1, n)[x] = t[x]
  BY <1>2, <1>3, CutInTwo
<1>5. \A x \in 1 .. n : t[x] = s[x]
  BY <1>2
<1>6. SubSeq(t, 1, n) = s
  BY <1>1, <1>4, <1>5, SeqEqual
<1>. QED BY <1>1, <1>2, <1>3, <1>6

\* Whatever part of a run of ASCII a kernel owns up to, in every state what is written is what
\* is consumed in the other encoding, so nothing is lost where a turn ends; a text that comes
\* back is itself with its malformed bytes replaced; the counts are the lengths of what
\* would be written, and the length of the text is always enough (utf16.go:43-47, 203-205).
THEOREM TextsComeBack == Spec => []Transcodes
<1>1. TurnIndInv => Transcodes
  <2>. SUFFICES ASSUME TurnIndInv, call.op = "utf" PROVE Transcodes
    BY DEF Transcodes
  <2>1. TurnParts /\ TurnTypes /\ call.counts \in BOOLEAN
    BY DEF TurnIndInv, TurnParts, TurnTypes
  <2>2. PICK done \in Seq(Symbols) : DoneIs(done)
    BY <2>1 DEF TurnParts
  <2>3. Consumed(Whole) = done
    <3>1. st.todo \in Seq(Symbols) /\ Whole = done \o st.todo
      BY <2>2 DEF DoneIs
    <3>. QED BY <3>1, ConsumedIs DEF Consumed
  <2>4. ~call.counts /\ Widens => out.units = Wide(Consumed(Whole))
    BY <2>2, <2>3 DEF DoneIs
  <2>5. ~call.counts /\ ~Widens => out.chars = InChars(Consumed(Whole))
    BY <2>2, <2>3 DEF DoneIs
  <2>6. ~call.counts /\ call.to # 8 => Len(out.units) <= ByteLen(call.src)
    <3>. SUFFICES ASSUME ~call.counts, call.to # 8 PROVE Len(out.units) <= ByteLen(call.src)
      OBVIOUS
    <3>0. call.src \in Seq(Characters)
      BY <2>1 DEF TurnTypes
    <3>1. CASE Widens
      <4>1. Whole = call.src /\ Symbols = Characters
        BY <3>1 DEF Whole, Widens, Symbols
      <4>2. done \in Seq(Characters) /\ st.todo \in Seq(Characters) /\ call.src = done \o st.todo
            /\ out.units = Wide(done)
        BY <2>2, <3>1, <4>1 DEF DoneIs
      <4>3. ByteLen(call.src) = ByteLen(done) + ByteLen(st.todo) /\ ByteLen(done) \in Nat /\ ByteLen(st.todo) \in Nat
        BY <4>2, ByteLenJoin
      <4>4. Len(Wide(done)) <= ByteLen(done) /\ Len(Wide(done)) \in Nat
        BY <4>2, WideFits
      <4>. QED BY <4>2, <4>3, <4>4
    <3>2. CASE ~Widens
      <4>1. out.units = Wide(call.src)
        BY <2>1, <3>2 DEF TurnParts, Widens
      <4>. QED BY <3>0, <4>1, WideFits
    <3>. QED BY <3>1, <3>2
  <2>7. ~call.counts /\ call.to # 8 /\ Returned => out.chars = Mended(call.src)
    <3>. SUFFICES ASSUME ~call.counts, call.to # 8, Returned PROVE out.chars = Mended(call.src)
      OBVIOUS
    <3>1. st.todo = <<>> /\ st.to = 8 /\ out.units = Wide(call.src)
      BY <2>1 DEF TurnParts
    <3>2. Whole = out.units /\ ~Widens
      BY <3>1 DEF Whole, Widens
    <3>3. out.chars = InChars(Whole)
      BY <2>1, <3>1, <3>2, NothingLeft DEF DoneIs
    <3>4. call.src \in Seq(Characters)
      BY <2>1 DEF TurnTypes
    <3>. QED BY <3>1, <3>2, <3>3, <3>4, ComesBack
  <2>8. call.counts /\ Returned =>
          st.n = IF call.to # 8 THEN Len(Wide(call.src)) ELSE ByteLen(InChars(call.src))
    <3>. SUFFICES ASSUME call.counts, Returned
                  PROVE  st.n = IF call.to # 8 THEN Len(Wide(call.src)) ELSE ByteLen(InChars(call.src))
      OBVIOUS
    <3>1. st.todo = <<>> /\ st.to = call.to
      BY <2>1 DEF TurnParts
    <3>2. Whole = call.src /\ (Widens <=> call.to # 8)
      BY <3>1 DEF Whole, Widens
    <3>. QED BY <2>1, <3>1, <3>2, NothingLeft DEF DoneIs
  <2>. QED BY <2>4, <2>5, <2>6, <2>7, <2>8 DEF Transcodes, Whole
<1>. QED BY TurnIndInvStart, TurnIndInvNext, <1>1, PTL DEF Spec

-----------------------------------------------------------------------------
(* Runs, expanded.                                                         *)

Copies(v, m) == [x \in 1 .. m |-> v]

\* f[k] is what the first k pairs stand for.
ExpandsTo(f, values, counts, m) ==
    /\ f \in [0 .. m -> Seq(Int)] /\ f[0] = <<>>
    /\ \A k \in 1 .. m : f[k] = f[k - 1] \o Copies(values[k], counts[k])

\* t is s and something more.
Begins(s, t) == \E u \in Seq(Int) : t = s \o u

LEMMA Associates ==
    ASSUME NEW p \in Seq(Int), NEW u \in Seq(Int), NEW q \in Seq(Int)
    PROVE  (p \o u) \o q = p \o (u \o q)
BY ConcatAssociative, SMTT(120)

LEMMA BeginsOn ==
    ASSUME NEW s \in Seq(Int), NEW t \in Seq(Int), NEW r \in Seq(Int), Begins(s, t), Begins(t, r)
    PROVE  Begins(s, r)
<1>1. PICK u \in Seq(Int) : t = s \o u
  BY DEF Begins
<1>2. PICK w \in Seq(Int) : r = t \o w
  BY DEF Begins
<1>3. r = s \o (u \o w) /\ u \o w \in Seq(Int)
  <2>1. (s \o u) \o w = s \o (u \o w)
    BY Associates, ZenonT(120)
  <2>2. u \o w \in Seq(Int)
    BY ConcatProperties
  <2>. QED BY <1>1, <1>2, <2>1, <2>2
<1>. QED BY <1>3 DEF Begins

LEMMA BeginsIs ==
    ASSUME NEW s \in Seq(Int), NEW t, Begins(s, t)
    PROVE  Len(s) <= Len(t) /\ s = SubSeq(t, 1, Len(s)) /\ Len(t) \in Nat
<1>1. PICK u \in Seq(Int) : t = s \o u
  BY DEF Begins
<1>2. /\ t \in Seq(Int) /\ Len(t) = Len(s) + Len(u) /\ Len(s) \in Nat /\ Len(u) \in Nat
      /\ \A x \in 1 .. Len(s) + Len(u) : t[x] = IF x <= Len(s) THEN s[x] ELSE u[x - Len(s)]
  <2>1. Len(s) \in Nat /\ Len(u) \in Nat
    OBVIOUS
  <2>. QED BY <1>1, <2>1, ConcatProperties
<1>. PICK r : r = SubSeq(t, 1, Len(s))
  OBVIOUS
<1>3. /\ r \in Seq(Int) /\ Len(r) = Len(s) /\ \A x \in 1 .. Len(s) : r[x] = t[x]
  <2>1. \A x \in 1 .. Len(s) : t[x] \in Int
    BY <1>2
  <2>2. 1 \in Int /\ Len(s) \in Int /\ Len(s) - 1 + 1 = Len(s)
    BY <1>2
  <2>3. /\ r \in Seq(Int) /\ Len(r) = (IF 1 <= Len(s) THEN Len(s) - 1 + 1 ELSE 0)
        /\ \A x \in 1 .. Len(s) - 1 + 1 : r[x] = t[1 + x - 1]
    BY <2>1, <2>2, SubSeqProperties
  <2>4. \A x \in 1 .. Len(s) : 1 + x - 1 = x
    BY <1>2
  <2>. QED BY <1>2, <2>2, <2>3, <2>4
<1>4. \A x \in 1 .. Len(r) : r[x] = s[x]
  BY <1>2, <1>3
<1>5. r = s
  BY <1>3, <1>4, SeqEqual
<1>. QED BY <1>2, <1>5

LEMMA CopiesOf ==
    ASSUME NEW v \in Int, NEW m \in Int
    PROVE  /\ Copies(v, m) \in Seq(Int)
           /\ Len(Copies(v, m)) = IF m > 0 THEN m ELSE 0
           /\ m <= 0 => Copies(v, m) = <<>>
           /\ \A x \in 1 .. m : Copies(v, m)[x] = v
<1>1. CASE m > 0
  <2>1. Copies(v, m) \in [1 .. m -> Int] /\ m \in Nat
    BY <1>1 DEF Copies
  <2>2. Copies(v, m) \in Seq(Int) /\ Len(Copies(v, m)) = m
    BY <2>1
  <2>. QED BY <1>1, <2>2 DEF Copies
<1>2. CASE m <= 0
  <2>1. Copies(v, m) = <<>>
    BY <1>2 DEF Copies
  <2>. QED BY <1>2, <2>1
<1>. QED BY <1>1, <1>2

LEMMA CopiesCount ==
    ASSUME NEW v \in Int, NEW m \in Nat
    PROVE  Copies(v, m) \in Seq(Int) /\ Len(Copies(v, m)) = m /\ \A x \in 1 .. m : Copies(v, m)[x] = v
<1>1. Len(Copies(v, m)) = m
  BY CopiesOf
<1>. QED BY <1>1, CopiesOf

LEMMA MoreCopies ==
    ASSUME NEW v \in Int, NEW m \in Nat, NEW w \in Nat
    PROVE  Copies(v, m) \o Copies(v, w) = Copies(v, m + w)
<1>. DEFINE p == Copies(v, m)
            q == Copies(v, w)
            t == Copies(v, m + w)
<1>1. p \in Seq(Int) /\ Len(p) = m /\ \A x \in 1 .. m : p[x] = v
  BY CopiesCount
<1>2. q \in Seq(Int) /\ Len(q) = w /\ \A x \in 1 .. w : q[x] = v
  BY CopiesCount
<1>3. t \in Seq(Int) /\ Len(t) = m + w /\ \A x \in 1 .. m + w : t[x] = v
  <2>1. m + w \in Nat
    OBVIOUS
  <2>. QED BY <2>1, CopiesCount
<1>. HIDE DEF p, q, t
<1>4. /\ p \o q \in Seq(Int) /\ Len(p \o q) = m + w
      /\ \A x \in 1 .. m + w : (p \o q)[x] = IF x <= m THEN p[x] ELSE q[x - m]
  BY <1>1, <1>2, ConcatProperties
<1>5. \A x \in 1 .. m + w : (p \o q)[x] = t[x]
  <2>. TAKE x \in 1 .. m + w
  <2>1. (p \o q)[x] = IF x <= m THEN p[x] ELSE q[x - m]
    BY <1>4
  <2>2. CASE x <= m
    <3>1. x \in 1 .. m
      BY <2>2
    <3>. QED BY <1>1, <1>3, <2>1, <2>2, <3>1
  <2>3. CASE ~(x <= m)
    <3>1. x - m \in 1 .. w
      BY <2>3
    <3>. QED BY <1>2, <1>3, <2>1, <2>3, <3>1
  <2>. QED BY <2>2, <2>3
<1>6. p \o q = t
  BY <1>3, <1>4, <1>5, SeqEqual
<1>. QED BY <1>6 DEF p, q, t

LEMMA ExpandedIs ==
    ASSUME NEW values, NEW counts, NEW m \in Nat, \A k \in 1 .. m : values[k] \in Int /\ counts[k] \in Int
    PROVE  \E f : ExpandsTo(f, values, counts, m) /\ Expanded(values, counts, m) = f[m]
<1>. DEFINE join == [q \in (1 .. m) \X Seq(Int) |-> q[2] \o Copies(values[q[1]], counts[q[1]])]
            Is(f) == f = [k \in 0 .. m |-> IF k = 0 THEN <<>> ELSE f[k - 1] \o [x \in 1 .. counts[k] |-> values[k]]]
<1>1. \A k \in 1 .. m, s \in Seq(Int) : join[<<k, s>>] = s \o Copies(values[k], counts[k])
  OBVIOUS
<1>2. \A k \in 1 .. m : Copies(values[k], counts[k]) \in Seq(Int)
  BY CopiesOf
<1>3. \A k \in 1 .. m, s \in Seq(Int) : s \o Copies(values[k], counts[k]) \in Seq(Int)
  BY <1>2, ConcatProperties
<1>. HIDE DEF join
<1>4. StaysIn(join, Seq(Int), m)
  BY <1>1, <1>3 DEF StaysIn
<1>5. PICK g : Unfolds(g, Seq(Int), m, <<>>, join)
  <2>1. <<>> \in Seq(Int)
    OBVIOUS
  <2>. QED BY <1>4, <2>1, RecursionExists
<1>6. g \in [0 .. m -> Seq(Int)] /\ g[0] = <<>> /\ \A k \in 1 .. m : g[k] = join[<<k, g[k - 1]>>]
  BY <1>5 DEF Unfolds
<1>7. \A k \in 1 .. m : g[k] = g[k - 1] \o Copies(values[k], counts[k])
  <2>. TAKE k \in 1 .. m
  <2>1. g[k - 1] \in Seq(Int)
    <3>1. k - 1 \in 0 .. m
      OBVIOUS
    <3>. QED BY <1>6, <3>1
  <2>. QED BY <1>1, <1>6, <2>1
<1>8. Is(g)
  <2>. DEFINE e == [k \in 0 .. m |-> IF k = 0 THEN <<>> ELSE g[k - 1] \o [x \in 1 .. counts[k] |-> values[k]]]
  <2>1. \A k \in 0 .. m : g[k] = e[k]
    <3>. TAKE k \in 0 .. m
    <3>1. CASE k = 0
      BY <1>6, <3>1
    <3>2. CASE k \in 1 .. m
      <4>1. k \in 0 .. m /\ k # 0
        BY <3>2
      <4>2. e[k] = g[k - 1] \o [x \in 1 .. counts[k] |-> values[k]]
        BY <4>1
      <4>. QED BY <1>7, <3>2, <4>2, Zenon DEF Copies
    <3>. QED BY <3>1, <3>2
  <2>2. g = e
    <3>1. g = [k \in 0 .. m |-> g[k]] /\ e = [k \in 0 .. m |-> e[k]]
      BY <1>6
    <3>. HIDE DEF e
    <3>. QED BY <2>1, <3>1
  <2>. QED BY <2>2
<1>. DEFINE u == CHOOSE f : Is(f)
<1>9. Expanded(values, counts, m) = u[m]
  BY DEF Expanded
<1>. HIDE DEF Is
<1>10. Is(u)
  BY <1>8
<1>. HIDE DEF u
<1>11. u = [k \in 0 .. m |-> IF k = 0 THEN <<>> ELSE u[k - 1] \o [x \in 1 .. counts[k] |-> values[k]]]
  BY <1>10 DEF Is
<1>12. u[0] = <<>> /\ \A k \in 1 .. m : u[k] = u[k - 1] \o Copies(values[k], counts[k])
  <2>1. 0 \in 0 .. m /\ \A k \in 1 .. m : k \in 0 .. m /\ k # 0
    OBVIOUS
  <2>. QED BY <1>11, <2>1 DEF Copies
<1>13. \A k \in 0 .. m : u[k] \in Seq(Int)
  <2>. DEFINE S == {k \in Nat : k <= m => u[k] \in Seq(Int)}
  <2>1. 0 \in S
    <3>1. <<>> \in Seq(Int)
      OBVIOUS
    <3>2. u[0] \in Seq(Int)
      BY <1>12, <3>1
    <3>. QED BY <3>2
  <2>2. \A k \in Nat : k \in S => k + 1 \in S
    <3>. SUFFICES ASSUME NEW k \in Nat, k \in S, k + 1 <= m PROVE u[k + 1] \in Seq(Int)
      OBVIOUS
    <3>1. u[k] \in Seq(Int) /\ k + 1 \in 1 .. m /\ (k + 1) - 1 = k
      OBVIOUS
    <3>2. u[k + 1] = u[k] \o Copies(values[k + 1], counts[k + 1])
      BY <1>12, <3>1
    <3>. QED BY <1>3, <3>1, <3>2
  <2>. HIDE DEF S
  <2>3. \A k \in Nat : k \in S
    BY <2>1, <2>2, SetInduction
  <2>. QED BY <2>3 DEF S
<1>14. u \in [0 .. m -> Seq(Int)]
  BY <1>11, <1>13
<1>. QED BY <1>9, <1>12, <1>14 DEF ExpandsTo

\* The first l pairs are the same.
Alike(v1, c1, v2, c2, l) == \A k \in 1 .. l : v1[k] = v2[k] /\ c1[k] = c2[k]

\* What the first k pairs stand for does not depend on the pairs after them.
LEMMA ExpandsAlike ==
    ASSUME NEW f, NEW g, NEW v1, NEW c1, NEW v2, NEW c2, NEW m \in Nat, NEW l \in 0 .. m, NEW n \in Nat, l <= n,
           ExpandsTo(f, v1, c1, m), ExpandsTo(g, v2, c2, n),
           Alike(v1, c1, v2, c2, l)
    PROVE  f[l] = g[l]
<1>. DEFINE S == {k \in Nat : k <= l => f[k] = g[k]}
<1>1. 0 \in S
  BY DEF ExpandsTo
<1>2. \A k \in Nat : k \in S => k + 1 \in S
  <2>. SUFFICES ASSUME NEW k \in Nat, k \in S, k + 1 <= l PROVE f[k + 1] = g[k + 1]
    OBVIOUS
  <2>1. f[k] = g[k] /\ k + 1 \in 1 .. l /\ k + 1 \in 1 .. m /\ k + 1 \in 1 .. n /\ (k + 1) - 1 = k
    OBVIOUS
  <2>2. f[k + 1] = f[k] \o Copies(v1[k + 1], c1[k + 1]) /\ g[k + 1] = g[k] \o Copies(v2[k + 1], c2[k + 1])
    BY <2>1 DEF ExpandsTo
  <2>. QED BY <2>1, <2>2 DEF Alike
<1>. HIDE DEF S
<1>3. l \in S
  BY <1>1, <1>2, SetInduction
<1>. QED BY <1>3 DEF S

Pairings(values, counts, m) == \A k \in 1 .. m : values[k] \in Int /\ counts[k] \in Int

\* One pair more.
LEMMA OneMorePair ==
    ASSUME NEW v1, NEW c1, NEW v2, NEW c2, NEW m \in Nat,
           Pairings(v1, c1, m), Pairings(v2, c2, m + 1),
           Alike(v1, c1, v2, c2, m)
    PROVE  /\ Expanded(v2, c2, m + 1) = Expanded(v1, c1, m) \o Copies(v2[m + 1], c2[m + 1])
           /\ Expanded(v1, c1, m) \in Seq(Int) /\ Expanded(v2, c2, m + 1) \in Seq(Int)
<1>1. PICK f : ExpandsTo(f, v1, c1, m) /\ Expanded(v1, c1, m) = f[m]
  BY ExpandedIs DEF Pairings
<1>2. PICK g : ExpandsTo(g, v2, c2, m + 1) /\ Expanded(v2, c2, m + 1) = g[m + 1]
  BY ExpandedIs DEF Pairings
<1>3. f[m] = g[m]
  <2>1. m \in 0 .. m /\ m <= m /\ m <= m + 1 /\ m + 1 \in Nat
    OBVIOUS
  <2>. QED BY <1>1, <1>2, <2>1, ExpandsAlike
<1>4. g[m + 1] = g[m] \o Copies(v2[m + 1], c2[m + 1]) /\ f[m] \in Seq(Int) /\ g[m + 1] \in Seq(Int)
  <2>1. m + 1 \in 1 .. m + 1 /\ (m + 1) - 1 = m /\ m \in 0 .. m /\ m + 1 \in 0 .. m + 1
    OBVIOUS
  <2>. QED BY <1>1, <1>2, <2>1 DEF ExpandsTo
<1>. QED BY <1>1, <1>2, <1>3, <1>4

\* A pair appended to both.
LEMMA PairAppended ==
    ASSUME NEW vs \in Seq(Int), NEW cs \in Seq(Int), NEW v \in Int, NEW d \in Int, NEW n \in Nat,
           Len(vs) = n, Len(cs) = n
    PROVE  Expanded(Append(vs, v), Append(cs, d), n + 1) = Expanded(vs, cs, n) \o Copies(v, d)
<1>1. PICK v2, c2 : v2 = Append(vs, v) /\ c2 = Append(cs, d)
  OBVIOUS
<1>2. /\ v2[n + 1] = v /\ c2[n + 1] = d
      /\ \A x \in 1 .. n : v2[x] = vs[x] /\ c2[x] = cs[x] /\ vs[x] \in Int /\ cs[x] \in Int
  BY <1>1, AppendProperties, SMTT(120)
<1>3. Alike(vs, cs, v2, c2, n)
  BY <1>2 DEF Alike
<1>4. Pairings(vs, cs, n)
  BY <1>2 DEF Pairings
<1>5. Pairings(v2, c2, n + 1)
  <2>. SUFFICES ASSUME NEW x \in 1 .. n + 1 PROVE v2[x] \in Int /\ c2[x] \in Int
    BY DEF Pairings
  <2>1. CASE x = n + 1
    BY <1>2, <2>1
  <2>2. CASE x \in 1 .. n
    BY <1>2, <2>2
  <2>. QED BY <2>1, <2>2
<1>6. Expanded(v2, c2, n + 1) = Expanded(vs, cs, n) \o Copies(v2[n + 1], c2[n + 1])
  BY <1>3, <1>4, <1>5, OneMorePair
<1>. QED BY <1>1, <1>2, <1>6

LEMMA NoPairs ==
    ASSUME NEW values, NEW counts
    PROVE  Expanded(values, counts, 0) = <<>>
<1>1. PICK f : ExpandsTo(f, values, counts, 0) /\ Expanded(values, counts, 0) = f[0]
  <2>1. 0 \in Nat /\ \A k \in 1 .. 0 : values[k] \in Int /\ counts[k] \in Int
    OBVIOUS
  <2>. QED BY <2>1, ExpandedIs
<1>. QED BY <1>1 DEF ExpandsTo

LEMMA SamePairs ==
    ASSUME NEW v1, NEW c1, NEW v2, NEW c2, NEW m \in Nat, Pairings(v1, c1, m),
           Alike(v1, c1, v2, c2, m)
    PROVE  Expanded(v1, c1, m) = Expanded(v2, c2, m) /\ Expanded(v1, c1, m) \in Seq(Int)
<1>1. PICK f : ExpandsTo(f, v1, c1, m) /\ Expanded(v1, c1, m) = f[m]
  BY ExpandedIs DEF Pairings
<1>2. PICK g : ExpandsTo(g, v2, c2, m) /\ Expanded(v2, c2, m) = g[m]
  <2>1. Pairings(v2, c2, m)
    BY DEF Pairings, Alike
  <2>. QED BY <2>1, ExpandedIs DEF Pairings
<1>3. f[m] = g[m]
  <2>1. m \in 0 .. m /\ m <= m /\ m <= m + 1 /\ m + 1 \in Nat
    OBVIOUS
  <2>. QED BY <1>1, <1>2, <2>1, ExpandsAlike
<1>. QED BY <1>1, <1>2, <1>3 DEF ExpandsTo

\* What fewer pairs stand for comes first.
LEMMA ExpandedBegins ==
    ASSUME NEW values, NEW counts, NEW m \in Nat, NEW k \in 0 .. m, Pairings(values, counts, m)
    PROVE  /\ Begins(Expanded(values, counts, k), Expanded(values, counts, m))
           /\ Expanded(values, counts, k) \in Seq(Int)
<1>. DEFINE S == {d \in Nat : k + d <= m => /\ Begins(Expanded(values, counts, k), Expanded(values, counts, k + d))
                                            /\ Expanded(values, counts, k + d) \in Seq(Int)}
<1>1. Expanded(values, counts, k) \in Seq(Int)
  <2>1. k \in Nat /\ Pairings(values, counts, k) /\ Alike(values, counts, values, counts, k)
    BY DEF Pairings, Alike
  <2>. QED BY <2>1, SamePairs
<1>2. 0 \in S
  <2>1. Expanded(values, counts, k) = Expanded(values, counts, k) \o <<>> /\ <<>> \in Seq(Int)
    BY <1>1, ConcatEmptySeq
  <2>2. k + 0 = k
    OBVIOUS
  <2>. QED BY <1>1, <2>1, <2>2 DEF Begins
<1>3. \A d \in Nat : d \in S => d + 1 \in S
  <2>. SUFFICES ASSUME NEW d \in Nat, d \in S, k + (d + 1) <= m
                PROVE  /\ Begins(Expanded(values, counts, k), Expanded(values, counts, k + (d + 1)))
                       /\ Expanded(values, counts, k + (d + 1)) \in Seq(Int)
    OBVIOUS
  <2>1. PICK n \in Nat : n = k + d
    OBVIOUS
  <2>2. n + 1 = k + (d + 1) /\ n + 1 \in 1 .. m /\ k + d <= m
    BY <2>1
  <2>3. Begins(Expanded(values, counts, k), Expanded(values, counts, n))
    BY <2>1, <2>2
  <2>4. PICK u \in Seq(Int) : Expanded(values, counts, n) = Expanded(values, counts, k) \o u
    BY <2>3 DEF Begins
  <2>5. Expanded(values, counts, n + 1) = Expanded(values, counts, n) \o Copies(values[n + 1], counts[n + 1])
        /\ Expanded(values, counts, n + 1) \in Seq(Int)
    <3>1. Pairings(values, counts, n) /\ Pairings(values, counts, n + 1)
      BY <2>2 DEF Pairings
    <3>2. Alike(values, counts, values, counts, n)
      BY DEF Alike
    <3>. QED BY <3>1, <3>2, OneMorePair
  <2>6. Copies(values[n + 1], counts[n + 1]) \in Seq(Int)
    BY <2>2, CopiesOf DEF Pairings
  <2>7. Expanded(values, counts, n + 1) = Expanded(values, counts, k) \o (u \o Copies(values[n + 1], counts[n + 1]))
    <3>1. (Expanded(values, counts, k) \o u) \o Copies(values[n + 1], counts[n + 1])
          = Expanded(values, counts, k) \o (u \o Copies(values[n + 1], counts[n + 1]))
      BY <1>1, <2>6, Associates
    <3>. QED BY <2>4, <2>5, <3>1
  <2>8. u \o Copies(values[n + 1], counts[n + 1]) \in Seq(Int)
    BY <2>6, ConcatProperties
  <2>. QED BY <2>2, <2>5, <2>7, <2>8 DEF Begins
<1>. HIDE DEF S
<1>4. m - k \in S /\ k + (m - k) = m
  BY <1>2, <1>3, SetInduction
<1>. QED BY <1>1, <1>4 DEF S

-----------------------------------------------------------------------------
(* The invariant of run lengths.                                           *)

RunsStates ==
    [pc : {"encode", "expand", "store", "returned"}, start : Nat, i : Nat, k : Nat, c : Nat, j : Nat]

RunsOut == [values : Seq(Int), counts : Seq(Int), dst : Seq(Int)]

RunsArgs ==
    /\ call.raw => call.args \in Expansions
    /\ ~call.raw => call.args \in Encodings

\* What the first m pairs of the call stand for.
StandFor(m) == Expanded(out.values, out.counts, m)

\* The runs that are written are those of the column up to st.start, where another begins.
RunsWritten ==
    /\ Len(out.values) = Len(out.counts)
    /\ StandFor(Len(out.values)) = Prefix(call.args.a, st.start)
    /\ \A k \in 1 .. Len(out.values) : out.counts[k] > 0
    /\ \A k \in 1 .. Len(out.values) : k > 1 => out.values[k] # out.values[k - 1]
    /\ Len(out.values) <= call.args.vroom /\ Len(out.counts) <= call.args.lroom
    /\ st.start <= Limit(call.args)
    /\ st.start > 0 <=> Len(out.values) > 0
    /\ st.start > 0 => out.values[Len(out.values)] = call.args.a[st.start]
    /\ st.start > 0 /\ st.start < Limit(call.args) => call.args.a[st.start + 1] # call.args.a[st.start]

\* The elements from st.start up to st.i are the same.
InRun ==
    /\ st.start < st.i /\ st.i <= Limit(call.args) + 1
    /\ \A x \in st.start + 1 .. st.i : x <= Limit(call.args) => call.args.a[x] = call.args.a[st.start + 1]
    /\ st.i = Limit(call.args) + 1 => st.start = Limit(call.args)
    /\ out.dst = <<>> /\ st.k = 1

RunsStop == st.start < Limit(call.args) => Len(out.values) = Least2(call.args.vroom, call.args.lroom)

\* The pairs before st.k are expanded, or the destination is full.
PairsExpanded ==
    /\ st.k \in 1 .. Pairs + 1
    /\ Len(out.dst) <= call.args.dcap /\ Begins(out.dst, StandFor(st.k - 1))
    /\ out.dst = StandFor(st.k - 1) \/ Len(out.dst) = call.args.dcap

\* ... and of the pair at st.k, st.j elements.
PairInPart ==
    /\ st.k \in 1 .. Pairs /\ out.counts[st.k] > 0
    /\ Len(StandFor(st.k - 1)) <= call.args.dcap
    /\ st.c = Least2(out.counts[st.k], call.args.dcap - Len(StandFor(st.k - 1))) /\ st.j <= st.c
    /\ out.dst = StandFor(st.k - 1) \o Copies(out.values[st.k], st.j)

AllExpanded ==
    /\ Len(out.dst) = Least2(call.args.dcap, Len(StandFor(Pairs)))
    /\ Begins(out.dst, StandFor(Pairs))

RunsParts ==
    /\ call.raw \in BOOLEAN /\ RunsArgs /\ st \in RunsStates /\ out \in RunsOut
    /\ ~call.raw => RunsWritten
    /\ st.pc = "encode" => ~call.raw /\ InRun
    /\ st.pc # "encode" /\ ~call.raw => RunsStop
    /\ st.pc = "expand" => PairsExpanded
    /\ st.pc = "store" => PairInPart
    /\ st.pc = "returned" => AllExpanded

RunsIndInv == call.op = "rle" => RunsParts

LEMMA Least2Is ==
    ASSUME NEW x \in Int, NEW y \in Int
    PROVE  Least2(x, y) \in {x, y} /\ Least2(x, y) <= x /\ Least2(x, y) <= y
BY DEF Least2

LEMMA RunsTypes ==
    ASSUME RunsArgs, call.raw \in BOOLEAN, st \in RunsStates, out \in RunsOut
    PROVE  /\ call.args.dcap \in Nat
           /\ ~call.raw => /\ call.args.a \in Seq(Int) /\ Len(call.args.a) \in Nat
                           /\ call.args.scratch \in Nat /\ call.args.vroom \in Nat /\ call.args.lroom \in Nat
                           /\ Limit(call.args) \in Nat /\ Limit(call.args) <= Len(call.args.a)
           /\ out.values \in Seq(Int) /\ out.counts \in Seq(Int) /\ out.dst \in Seq(Int)
           /\ Len(out.values) \in Nat /\ Len(out.counts) \in Nat /\ Len(out.dst) \in Nat
           /\ Pairs \in Nat /\ Pairs <= Len(out.values) /\ Pairs <= Len(out.counts)
           /\ Pairings(out.values, out.counts, Pairs)
           /\ st.start \in Nat /\ st.i \in Nat /\ st.k \in Nat /\ st.c \in Nat /\ st.j \in Nat
<1>1. call.args.dcap \in Nat
  <2>1. CASE call.raw
    BY <2>1, RunsAssumption DEF RunsArgs
  <2>2. CASE ~call.raw
    BY <2>2, RunsAssumption DEF RunsArgs
  <2>. QED BY <2>1, <2>2
<1>2. ASSUME ~call.raw
      PROVE  /\ call.args.a \in Seq(Int) /\ Len(call.args.a) \in Nat
             /\ call.args.scratch \in Nat /\ call.args.vroom \in Nat /\ call.args.lroom \in Nat
             /\ Limit(call.args) \in Nat /\ Limit(call.args) <= Len(call.args.a)
  <2>1. /\ call.args.a \in Seq(Int) /\ call.args.scratch \in Nat
        /\ call.args.vroom \in Nat /\ call.args.lroom \in Nat
    BY <1>2, RunsAssumption DEF RunsArgs
  <2>2. Len(call.args.a) \in Nat
    BY <2>1
  <2>. QED BY <2>1, <2>2 DEF Limit, Least2
<1>3. /\ out.values \in Seq(Int) /\ out.counts \in Seq(Int) /\ out.dst \in Seq(Int)
      /\ Len(out.values) \in Nat /\ Len(out.counts) \in Nat /\ Len(out.dst) \in Nat
  <2>1. out.values \in Seq(Int) /\ out.counts \in Seq(Int) /\ out.dst \in Seq(Int)
    BY DEF RunsOut
  <2>. QED BY <2>1
<1>4. Pairs \in Nat /\ Pairs <= Len(out.values) /\ Pairs <= Len(out.counts)
  BY <1>3 DEF Pairs, Least2
<1>5. Pairings(out.values, out.counts, Pairs)
  <2>. SUFFICES ASSUME NEW k \in 1 .. Pairs PROVE out.values[k] \in Int /\ out.counts[k] \in Int
    BY DEF Pairings
  <2>1. k \in 1 .. Len(out.values) /\ k \in 1 .. Len(out.counts)
    BY <1>3, <1>4
  <2>. QED BY <1>3, <2>1
<1>6. st.start \in Nat /\ st.i \in Nat /\ st.k \in Nat /\ st.c \in Nat /\ st.j \in Nat
  BY DEF RunsStates
<1>. QED BY <1>1, <1>2, <1>3, <1>4, <1>5, <1>6

LEMMA RunsIndInvInit == ASSUME RunsInit PROVE RunsIndInv
<1>1. ASSUME NEW impl \in Implementations, NEW args \in Encodings,
             call = [op |-> "rle", impl |-> impl, raw |-> FALSE, args |-> args],
             st = [pc |-> "encode", start |-> 0, i |-> 1, k |-> 1, c |-> 0, j |-> 0],
             out = [values |-> <<>>, counts |-> <<>>, dst |-> <<>>]
      PROVE  RunsParts
  <2>1. call.raw = FALSE /\ call.args = args /\ st.pc = "encode" /\ st.start = 0 /\ st.i = 1 /\ st.k = 1
    BY <1>1
  <2>2. out.values = <<>> /\ out.counts = <<>> /\ out.dst = <<>>
    BY <1>1
  <2>3. st \in RunsStates
    BY <1>1 DEF RunsStates
  <2>4. out \in RunsOut
    <3>1. <<>> \in Seq(Int)
      OBVIOUS
    <3>. QED BY <1>1, <3>1 DEF RunsOut
  <2>5. RunsArgs
    BY <2>1 DEF RunsArgs
  <2>6. /\ call.args.a \in Seq(Int) /\ call.args.vroom \in Nat /\ call.args.lroom \in Nat
        /\ Limit(call.args) \in Nat
    BY <2>1, <2>3, <2>4, <2>5, RunsTypes
  <2>7. Len(out.values) = 0 /\ Len(out.counts) = 0
    BY <2>2
  <2>8. StandFor(0) = <<>>
    BY NoPairs DEF StandFor
  <2>9. Prefix(call.args.a, 0) = <<>>
    BY <2>6, SubSeqEmpty DEF Prefix
  <2>10. RunsWritten
    BY <2>1, <2>6, <2>7, <2>8, <2>9 DEF RunsWritten
  <2>11. InRun
    <3>1. \A x \in 0 + 1 .. 1 : x = 0 + 1
      OBVIOUS
    <3>. QED BY <2>1, <2>2, <2>6, <3>1 DEF InRun
  <2>. QED BY <2>1, <2>3, <2>4, <2>5, <2>10, <2>11 DEF RunsParts
<1>2. ASSUME NEW impl \in Implementations, NEW args \in Expansions,
             call = [op |-> "rle", impl |-> impl, raw |-> TRUE, args |-> args],
             st = [pc |-> "expand", start |-> 0, i |-> 1, k |-> 1, c |-> 0, j |-> 0],
             out = [values |-> call.args.values, counts |-> call.args.counts, dst |-> <<>>]
      PROVE  RunsParts
  <2>1. call.raw = TRUE /\ call.args = args /\ st.pc = "expand" /\ st.k = 1
    BY <1>2
  <2>2. out.dst = <<>>
    BY <1>2
  <2>3. st \in RunsStates
    BY <1>2 DEF RunsStates
  <2>4. out \in RunsOut
    <3>1. <<>> \in Seq(Int) /\ call.args.values \in Seq(Int) /\ call.args.counts \in Seq(Int)
      BY <2>1, RunsAssumption
    <3>. QED BY <1>2, <3>1 DEF RunsOut
  <2>5. RunsArgs
    BY <2>1 DEF RunsArgs
  <2>6. call.args.dcap \in Nat /\ Pairs \in Nat
    BY <2>1, <2>3, <2>4, <2>5, RunsTypes
  <2>7. StandFor(st.k - 1) = <<>>
    <3>1. st.k - 1 = 0
      BY <2>1
    <3>. QED BY <3>1, NoPairs DEF StandFor
  <2>8. Begins(<<>>, <<>>)
    <3>1. <<>> \in Seq(Int) /\ <<>> = <<>> \o <<>>
      OBVIOUS
    <3>. QED BY <3>1 DEF Begins
  <2>9. st.k \in 1 .. Pairs + 1 /\ Len(out.dst) = 0
    BY <2>1, <2>2, <2>6
  <2>10. PairsExpanded
    BY <2>2, <2>6, <2>7, <2>8, <2>9 DEF PairsExpanded
  <2>. QED BY <2>1, <2>3, <2>4, <2>5, <2>10 DEF RunsParts
<1>. QED BY <1>1, <1>2 DEF RunsInit, RunsIndInv

\* One pair more of the call.
LEMMA MeaningStep ==
    ASSUME RunsArgs, call.raw \in BOOLEAN, st \in RunsStates, out \in RunsOut, NEW k \in 1 .. Pairs
    PROVE  /\ StandFor(k) = StandFor(k - 1) \o Copies(out.values[k], out.counts[k])
           /\ StandFor(k) \in Seq(Int) /\ StandFor(k - 1) \in Seq(Int)
           /\ out.values[k] \in Int /\ out.counts[k] \in Int
<1>1. PICK m \in Nat : m = k - 1 /\ k = m + 1 /\ m + 1 \in 1 .. Pairs
  <2>1. k - 1 \in Nat /\ k = (k - 1) + 1
    BY RunsTypes, SMTT(120)
  <2>. QED BY <2>1
<1>2. Pairings(out.values, out.counts, m) /\ Pairings(out.values, out.counts, m + 1)
  <2>1. Pairings(out.values, out.counts, Pairs)
    BY RunsTypes
  <2>2. Pairs \in Nat
    BY RunsTypes
  <2>3. \A x \in 1 .. m + 1 : x \in 1 .. Pairs
    BY <1>1, <2>2
  <2>4. \A x \in 1 .. m : x \in 1 .. Pairs
    BY <1>1, <2>2
  <2>. QED BY <2>1, <2>3, <2>4 DEF Pairings
<1>3. Alike(out.values, out.counts, out.values, out.counts, m)
  BY DEF Alike
<1>4. /\ StandFor(m + 1) = StandFor(m) \o Copies(out.values[m + 1], out.counts[m + 1])
      /\ StandFor(m + 1) \in Seq(Int) /\ StandFor(m) \in Seq(Int)
  <2>1. PICK vs, cs : vs = out.values /\ cs = out.counts
    OBVIOUS
  <2>2. Pairings(vs, cs, m) /\ Pairings(vs, cs, m + 1) /\ Alike(vs, cs, vs, cs, m)
    BY <1>2, <1>3, <2>1
  <2>3. /\ Expanded(vs, cs, m + 1) = Expanded(vs, cs, m) \o Copies(vs[m + 1], cs[m + 1])
        /\ Expanded(vs, cs, m + 1) \in Seq(Int) /\ Expanded(vs, cs, m) \in Seq(Int)
    BY <2>2, OneMorePair
  <2>. QED BY <2>1, <2>3 DEF StandFor
<1>5. out.values[m + 1] \in Int /\ out.counts[m + 1] \in Int
  BY <1>2 DEF Pairings
<1>. QED BY <1>1, <1>4, <1>5

LEMMA MeaningBegins ==
    ASSUME RunsArgs, call.raw \in BOOLEAN, st \in RunsStates, out \in RunsOut, NEW k \in 0 .. Pairs
    PROVE  Begins(StandFor(k), StandFor(Pairs)) /\ StandFor(k) \in Seq(Int) /\ StandFor(Pairs) \in Seq(Int)
<1>1. Pairs \in Nat /\ Pairings(out.values, out.counts, Pairs) /\ Pairs \in 0 .. Pairs
  BY RunsTypes
<1>. QED BY <1>1, ExpandedBegins DEF StandFor

\* A part of a run's copies.
LEMMA BeginsCopies ==
    ASSUME NEW s \in Seq(Int), NEW v \in Int, NEW n \in Nat, NEW m \in 0 .. n
    PROVE  Begins(s \o Copies(v, m), s \o Copies(v, n)) /\ s \o Copies(v, m) \in Seq(Int)
<1>1. n - m \in Nat /\ m + (n - m) = n /\ m \in Nat
  OBVIOUS
<1>2. PICK d \in Nat : d = n - m
  BY <1>1
<1>3. /\ Copies(v, m) \in Seq(Int) /\ Copies(v, d) \in Seq(Int) /\ Copies(v, n) = Copies(v, m) \o Copies(v, d)
  <2>1. m + d = n
    BY <1>1, <1>2
  <2>2. Copies(v, m) \o Copies(v, d) = Copies(v, m + d)
    BY <1>1, MoreCopies
  <2>3. Copies(v, m) \in Seq(Int) /\ Copies(v, d) \in Seq(Int)
    BY <1>1, CopiesCount
  <2>. QED BY ONLY <2>1, <2>2, <2>3
<1>4. s \o Copies(v, n) = (s \o Copies(v, m)) \o Copies(v, d)
  <2>1. (s \o Copies(v, m)) \o Copies(v, d) = s \o (Copies(v, m) \o Copies(v, d))
    BY <1>3, Associates
  <2>. QED BY <1>3, <2>1
<1>5. s \o Copies(v, m) \in Seq(Int)
  BY <1>3, ConcatProperties
<1>. QED BY <1>3, <1>4, <1>5 DEF Begins

LEMMA EmptyBegins ==
    ASSUME NEW s \in Seq(Int)
    PROVE  Begins(<<>>, s) /\ Begins(s, s)
<1>1. s = <<>> \o s /\ s = s \o <<>> /\ <<>> \in Seq(Int)
  BY ConcatEmptySeq
<1>. QED BY <1>1 DEF Begins

\* The part of a column that a run ends.
LEMMA PrefixGrows ==
    ASSUME NEW a \in Seq(Int), NEW s \in Nat, NEW e \in Nat, s < e, e <= Len(a), NEW v \in Int,
           \A x \in s + 1 .. e : a[x] = v
    PROVE  Prefix(a, s) \o Copies(v, e - s) = Prefix(a, e) /\ Prefix(a, s) \in Seq(Int)
<1>1. Len(a) \in Nat /\ \A x \in 1 .. Len(a) : a[x] \in Int
  OBVIOUS
<1>2. PICK d \in Nat : d = e - s /\ e = s + d
  <2>1. e - s \in Nat /\ e = s + (e - s)
    OBVIOUS
  <2>. QED BY <2>1
<1>. DEFINE p == Prefix(a, s)
            q == Copies(v, d)
            t == Prefix(a, e)
<1>3. p \in Seq(Int) /\ Len(p) = s /\ \A x \in 1 .. s : p[x] = a[x]
  <2>1. \A x \in 1 .. s : a[x] \in Int
    BY <1>1
  <2>2. /\ p \in Seq(Int) /\ Len(p) = (IF 1 <= s THEN s - 1 + 1 ELSE 0)
        /\ \A x \in 1 .. s - 1 + 1 : p[x] = a[1 + x - 1]
    BY <2>1, SubSeqProperties DEF Prefix
  <2>3. s - 1 + 1 = s /\ \A x \in 1 .. s : 1 + x - 1 = x
    OBVIOUS
  <2>. QED BY <2>2, <2>3
<1>4. t \in Seq(Int) /\ Len(t) = e /\ \A x \in 1 .. e : t[x] = a[x]
  <2>1. \A x \in 1 .. e : a[x] \in Int
    BY <1>1
  <2>2. /\ t \in Seq(Int) /\ Len(t) = (IF 1 <= e THEN e - 1 + 1 ELSE 0)
        /\ \A x \in 1 .. e - 1 + 1 : t[x] = a[1 + x - 1]
    BY <2>1, SubSeqProperties DEF Prefix
  <2>3. e - 1 + 1 = e /\ \A x \in 1 .. e : 1 + x - 1 = x
    OBVIOUS
  <2>. QED BY <2>2, <2>3
<1>5. q \in Seq(Int) /\ Len(q) = d /\ \A x \in 1 .. d : q[x] = v
  BY CopiesCount
<1>. HIDE DEF p, q, t
<1>6. /\ p \o q \in Seq(Int) /\ Len(p \o q) = s + d
      /\ \A x \in 1 .. s + d : (p \o q)[x] = IF x <= s THEN p[x] ELSE q[x - s]
  <2>1. /\ p \o q \in Seq(Int) /\ Len(p \o q) = Len(p) + Len(q)
        /\ \A x \in 1 .. Len(p) + Len(q) : (p \o q)[x] = IF x <= Len(p) THEN p[x] ELSE q[x - Len(p)]
    BY <1>3, <1>5, ConcatProperties
  <2>. QED BY <1>3, <1>5, <2>1
<1>7. \A x \in 1 .. s + d : (p \o q)[x] = t[x]
  <2>. TAKE x \in 1 .. s + d
  <2>1. (p \o q)[x] = (IF x <= s THEN p[x] ELSE q[x - s]) /\ t[x] = a[x]
    BY <1>2, <1>4, <1>6
  <2>2. CASE x <= s
    <3>1. x \in 1 .. s
      BY <2>2
    <3>. QED BY <1>3, <2>1, <2>2, <3>1
  <2>3. CASE ~(x <= s)
    <3>1. x - s \in 1 .. d /\ x \in s + 1 .. e
      BY <1>2, <2>3
    <3>. QED BY <1>5, <2>1, <2>3, <3>1
  <2>. QED BY <2>2, <2>3
<1>8. p \o q = t
  BY <1>2, <1>4, <1>6, <1>7, SeqEqual
<1>. QED BY <1>2, <1>3, <1>8 DEF p, q, t

\* What a step that writes no run leaves as it was.
LEMMA SameRuns ==
    ASSUME call' = call, out'.values = out.values, out'.counts = out.counts
    PROVE  /\ Pairs' = Pairs /\ (\A m : StandFor(m)' = StandFor(m))
           /\ (RunsArgs' <=> RunsArgs)
           /\ (st'.start = st.start => (RunsWritten' <=> RunsWritten) /\ (RunsStop' <=> RunsStop))
<1>1. Pairs' = Pairs /\ \A m : StandFor(m)' = StandFor(m)
  BY DEF Pairs, StandFor
<1>2. RunsArgs' <=> RunsArgs
  BY DEF RunsArgs
<1>3. ASSUME st'.start = st.start PROVE (RunsWritten' <=> RunsWritten) /\ (RunsStop' <=> RunsStop)
  <2>1. StandFor(Len(out.values))' = StandFor(Len(out.values))
    BY DEF StandFor
  <2>. QED BY <1>3, <2>1 DEF RunsWritten, RunsStop, Limit
<1>. QED BY <1>1, <1>2, <1>3

LEMMA InsideRunInv == ASSUME RunsIndInv, InsideRun PROVE RunsIndInv'
<1>1. /\ call.op = "rle" /\ st.pc = "encode" /\ st.i < Limit(call.args) /\ ~RunStarts(st.i)
      /\ st' = [st EXCEPT !.i = @ + 1] /\ call' = call /\ out' = out
  BY DEF InsideRun, In
<1>2. RunsParts
  BY <1>1 DEF RunsIndInv
<1>3. RunsArgs /\ call.raw = FALSE /\ st \in RunsStates /\ out \in RunsOut /\ RunsWritten /\ InRun
  BY <1>1, <1>2 DEF RunsParts
<1>4. Limit(call.args) \in Nat /\ st.start \in Nat /\ st.i \in Nat
  BY <1>3, RunsTypes
<1>5. st' \in RunsStates /\ st'.pc = "encode" /\ st'.start = st.start /\ st'.i = st.i + 1 /\ st'.k = st.k
  BY <1>1, <1>3, <1>4 DEF RunsStates
<1>6. call.args.a[st.i + 1] = call.args.a[st.start + 1]
  <2>1. st.i # 0 /\ st.i \in st.start + 1 .. st.i
    BY <1>3, <1>4 DEF InRun
  <2>2. call.args.a[st.i + 1] = call.args.a[st.i]
    BY <1>1, <2>1 DEF RunStarts
  <2>3. call.args.a[st.i] = call.args.a[st.start + 1]
    BY <1>1, <1>3, <1>4, <2>1 DEF InRun
  <2>. QED BY <2>2, <2>3
<1>7. \A x \in st.start + 1 .. st.i + 1 :
         x <= Limit(call.args) => call.args.a[x] = call.args.a[st.start + 1]
  <2>. SUFFICES ASSUME NEW x \in st.start + 1 .. st.i + 1, x <= Limit(call.args)
                PROVE  call.args.a[x] = call.args.a[st.start + 1]
    OBVIOUS
  <2>1. CASE x = st.i + 1
    BY <1>6, <2>1
  <2>2. CASE x \in st.start + 1 .. st.i
    BY <1>3, <2>2 DEF InRun
  <2>. QED BY <1>4, <2>1, <2>2
<1>8. InRun'
  <2>1. st.start < st.i + 1 /\ st.i + 1 <= Limit(call.args) + 1 /\ st.i + 1 # Limit(call.args) + 1
    BY <1>1, <1>3, <1>4 DEF InRun
  <2>2. Limit(call.args)' = Limit(call.args)
    BY <1>1 DEF Limit
  <2>. QED BY <1>1, <1>3, <1>5, <1>7, <2>1, <2>2 DEF InRun
<1>. QED BY <1>1, <1>3, <1>5, <1>8, SameRuns DEF RunsIndInv, RunsParts

LEMMA WriteRunInv == ASSUME RunsIndInv, WriteRun PROVE RunsIndInv'
<1>1. /\ call.op = "rle" /\ st.pc = "encode" /\ RunEnds /\ ~RunsFull
      /\ out' = [out EXCEPT !.values = Append(@, call.args.a[st.start + 1]), !.counts = Append(@, st.i - st.start)]
      /\ st' = [st EXCEPT !.start = st.i, !.i = @ + 1] /\ call' = call
  BY DEF WriteRun, In
<1>2. RunsParts
  BY <1>1 DEF RunsIndInv
<1>3. RunsArgs /\ call.raw = FALSE /\ st \in RunsStates /\ out \in RunsOut /\ RunsWritten /\ InRun
  BY <1>1, <1>2 DEF RunsParts
<1>4. /\ Limit(call.args) \in Nat /\ st.start \in Nat /\ st.i \in Nat
      /\ call.args.a \in Seq(Int) /\ Len(call.args.a) \in Nat /\ Limit(call.args) <= Len(call.args.a)
      /\ call.args.vroom \in Nat /\ call.args.lroom \in Nat
      /\ out.values \in Seq(Int) /\ out.counts \in Seq(Int) /\ Len(out.values) \in Nat
      /\ Pairs \in Nat /\ Pairings(out.values, out.counts, Pairs)
  BY <1>3, RunsTypes
<1>5. st' \in RunsStates /\ st'.pc = "encode" /\ st'.start = st.i /\ st'.i = st.i + 1 /\ st'.k = st.k
  <2>1. st.i + 1 \in Nat
    BY <1>4
  <2>. QED BY <1>1, <1>3, <1>4, <2>1 DEF RunsStates
<1>A. PICK a : a = call.args.a
  OBVIOUS
<1>B. PICK v : v = a[st.start + 1]
  OBVIOUS
<1>C. PICK d : d = st.i - st.start
  OBVIOUS
<1>D. PICK n : n = Len(out.values)
  OBVIOUS
<1>E. PICK l : l = Limit(call.args)
  OBVIOUS
<1>23. n \in Nat /\ l \in Nat
  BY <1>D, <1>E, <1>4
<1>6. st.start < st.i /\ st.i <= l /\ st.start < l /\ st.k = 1 /\ out.dst = <<>>
  BY <1>A, <1>E, <1>1, <1>3, <1>4 DEF InRun, RunEnds
<1>7. d \in Nat /\ d > 0 /\ st.start + 1 \in 1 .. Len(a) /\ v \in Int
  <2>1. d \in Nat /\ d > 0
    BY <1>A, <1>B, <1>C, <1>D, <1>E, <1>4, <1>6, SMTT(120)
  <2>2. st.start + 1 <= Len(a)
    BY <1>A, <1>B, <1>C, <1>D, <1>E, <1>4, <1>6, <1>23
  <2>3. st.start + 1 \in 1 .. Len(a)
    BY <1>A, <1>B, <1>C, <1>D, <1>E, <1>4, <2>2, SMTT(120)
  <2>. QED BY <1>A, <1>B, <1>C, <1>D, <1>E, <1>4, <2>1, <2>3
<1>8. /\ out' \in RunsOut /\ out'.dst = out.dst
      /\ out'.values = Append(out.values, v) /\ out'.counts = Append(out.counts, d)
  <2>1. /\ out'.dst = out.dst
        /\ out'.values = Append(out.values, v) /\ out'.counts = Append(out.counts, d)
    BY <1>A, <1>B, <1>C, <1>1, <1>3 DEF RunsOut
  <2>2. Append(out.values, v) \in Seq(Int) /\ Append(out.counts, d) \in Seq(Int)
    BY <1>4, <1>7
  <2>. QED BY <1>1, <1>3, <2>1, <2>2 DEF RunsOut
<1>9. Len(out.counts) = n /\ Pairs = n
  BY <1>D, <1>3, <1>4 DEF RunsWritten, Pairs, Least2
<1>10. /\ Len(out'.values) = n + 1 /\ Len(out'.counts) = n + 1
       /\ out'.values[n + 1] = v /\ out'.counts[n + 1] = d
       /\ \A x \in 1 .. n : out'.values[x] = out.values[x] /\ out'.counts[x] = out.counts[x]
  <2>1. /\ Len(Append(out.values, v)) = n + 1 /\ Append(out.values, v)[n + 1] = v
        /\ \A x \in 1 .. n : Append(out.values, v)[x] = out.values[x]
    BY <1>D, <1>4, <1>7, AppendProperties
  <2>2. /\ Len(Append(out.counts, d)) = n + 1 /\ Append(out.counts, d)[n + 1] = d
        /\ \A x \in 1 .. n : Append(out.counts, d)[x] = out.counts[x]
    <3>1. d \in Int /\ out.counts \in Seq(Int) /\ Len(out.counts) = n
      BY <1>4, <1>7, <1>9
    <3>. QED BY <3>1, AppendProperties
  <2>. QED BY <1>8, <2>1, <2>2
<1>11. \A x \in st.start + 1 .. st.i : a[x] = v
  BY <1>A, <1>B, <1>C, <1>3, <1>4, <1>6 DEF InRun
<1>12. StandFor(n + 1)' = Prefix(a, st.i)
  <2>1. PICK vs, cs : vs = out.values /\ cs = out.counts
    OBVIOUS
  <2>2. Expanded(Append(vs, v), Append(cs, d), n + 1) = Expanded(vs, cs, n) \o Copies(v, d)
    <3>1. vs \in Seq(Int) /\ cs \in Seq(Int) /\ v \in Int /\ d \in Int /\ n \in Nat /\ Len(vs) = n /\ Len(cs) = n
      BY <1>D, <1>4, <1>7, <1>9, <1>23, <2>1
    <3>. QED BY <3>1, PairAppended
  <2>7. Expanded(out.values, out.counts, n) = Prefix(a, st.start)
    BY <1>A, <1>D, <1>3 DEF RunsWritten, StandFor
  <2>8. Prefix(a, st.start) \o Copies(v, d) = Prefix(a, st.i)
    <3>1. PICK b, e : b = st.start /\ e = st.i
      OBVIOUS
    <3>2. b \in Nat /\ e \in Nat /\ b < e /\ e <= Len(a) /\ a \in Seq(Int) /\ v \in Int /\ d = e - b
      BY <1>A, <1>B, <1>C, <1>D, <1>E, <1>4, <1>6, <1>7, <3>1
    <3>3. \A x \in b + 1 .. e : a[x] = v
      BY <1>11, <3>1
    <3>4. Prefix(a, b) \o Copies(v, e - b) = Prefix(a, e)
      BY <3>2, <3>3, PrefixGrows
    <3>. QED BY <3>1, <3>2, <3>4
  <2>9. out'.values = Append(vs, v) /\ out'.counts = Append(cs, d)
    BY <1>8, <2>1
  <2>. QED BY <2>1, <2>2, <2>7, <2>8, <2>9, Zenon DEF StandFor
<1>13. n + 1 <= call.args.vroom /\ n + 1 <= call.args.lroom
  BY <1>A, <1>B, <1>C, <1>D, <1>E, <1>1, <1>4, <1>9, SMTT(120) DEF RunsFull
<1>14. a[st.i] = v /\ (st.i < l => a[st.i + 1] # a[st.i]) /\ st.i > 0
  <2>1. st.i \in st.start + 1 .. st.i /\ st.i # 0
    BY <1>A, <1>B, <1>C, <1>D, <1>E, <1>4, <1>6, SMTT(120)
  <2>2. a[st.i] = v
    BY <1>11, <2>1
  <2>3. st.i < l => a[st.i + 1] # a[st.i]
    BY <1>A, <1>E, <1>1, <2>1 DEF RunEnds, RunStarts
  <2>. QED BY <1>4, <2>1, <2>2, <2>3
<1>15. n > 0 => out.values[n] # v
  BY <1>A, <1>B, <1>D, <1>E, <1>3, <1>4, <1>6 DEF RunsWritten
<1>16. \A x \in 1 .. n + 1 : out'.counts[x] > 0
  <2>. TAKE x \in 1 .. n + 1
  <2>1. CASE x = n + 1
    BY <1>7, <1>10, <2>1
  <2>2. CASE x \in 1 .. n
    BY <1>D, <1>3, <1>10, <2>2 DEF RunsWritten
  <2>. QED BY <1>23, <2>1, <2>2
<1>17. \A x \in 1 .. n + 1 : x > 1 => out'.values[x] # out'.values[x - 1]
  <2>. SUFFICES ASSUME NEW x \in 1 .. n + 1, x > 1 PROVE out'.values[x] # out'.values[x - 1]
    OBVIOUS
  <2>1. x - 1 \in 1 .. n
    BY <1>D, <1>4
  <2>2. out'.values[x - 1] = out.values[x - 1]
    BY <1>10, <2>1
  <2>3. CASE x = n + 1
    <3>1. x - 1 = n /\ n > 0
      BY <1>D, <1>4, <2>3
    <3>. QED BY <1>10, <1>15, <2>2, <2>3, <3>1
  <2>4. CASE x \in 1 .. n
    BY <1>D, <1>3, <1>10, <2>2, <2>4 DEF RunsWritten
  <2>. QED BY <1>A, <1>B, <1>D, <1>4, <2>3, <2>4
<1>18. Limit(call.args)' = l
  BY <1>E, <1>1 DEF Limit
<1>19. RunsWritten'
  <2>1. StandFor(Len(out.values))' = StandFor(n + 1)'
    BY <1>10 DEF StandFor
  <2>2. StandFor(Len(out.values))' = Prefix(call.args.a, st.start)'
    BY <1>A, <1>1, <1>5, <1>12, <2>1
  <2>3. n + 1 > 0
    BY <1>D, <1>4
  <2>. QED BY <1>A, <1>1, <1>5, <1>6, <1>10, <1>13, <1>14, <1>16, <1>17, <1>18, <2>2, <2>3 DEF RunsWritten
<1>20. InRun'
  <2>1. st.i < st.i + 1 /\ st.i + 1 <= l + 1 /\ (st.i + 1 = l + 1 => st.i = l)
    BY <1>A, <1>B, <1>C, <1>D, <1>E, <1>4, <1>6, SMTT(120)
  <2>2. \A x \in st.i + 1 .. st.i + 1 : x = st.i + 1
    BY <1>4
  <2>. QED BY <1>1, <1>5, <1>6, <1>8, <1>18, <2>1, <2>2 DEF InRun
<1>21. RunsArgs'
  BY <1>1, <1>3 DEF RunsArgs
<1>. QED BY <1>1, <1>3, <1>5, <1>8, <1>19, <1>20, <1>21 DEF RunsIndInv, RunsParts

LEMMA EncodeEndInv == ASSUME RunsIndInv, EncodeEnd PROVE RunsIndInv'
<1>1. /\ call.op = "rle" /\ st.pc = "encode" /\ (st.i > Limit(call.args) \/ (RunEnds /\ RunsFull))
      /\ st' = [st EXCEPT !.pc = "expand"] /\ call' = call /\ out' = out
  BY DEF EncodeEnd, In
<1>2. RunsParts
  BY <1>1 DEF RunsIndInv
<1>3. RunsArgs /\ call.raw = FALSE /\ st \in RunsStates /\ out \in RunsOut /\ RunsWritten /\ InRun
  BY <1>1, <1>2 DEF RunsParts
<1>4. /\ Limit(call.args) \in Nat /\ st.start \in Nat /\ st.i \in Nat
      /\ call.args.vroom \in Nat /\ call.args.lroom \in Nat /\ call.args.dcap \in Nat
      /\ Len(out.values) \in Nat /\ Pairs \in Nat
  BY <1>3, RunsTypes
<1>5. st' \in RunsStates /\ st'.pc = "expand" /\ st'.start = st.start /\ st'.k = 1 /\ out.dst = <<>>
  BY <1>1, <1>3 DEF RunsStates, InRun
<1>6. RunsStop
  <2>. SUFFICES ASSUME st.start < Limit(call.args)
                PROVE  Len(out.values) = Least2(call.args.vroom, call.args.lroom)
    BY DEF RunsStop
  <2>1. ~(st.i > Limit(call.args))
    BY <1>3, <1>4 DEF InRun
  <2>2. RunsFull
    BY <1>1, <2>1
  <2>. QED BY <1>3, <1>4, <2>2 DEF RunsFull, RunsWritten, Least2
<1>7. PairsExpanded'
  <2>1. StandFor(0) = <<>>
    BY NoPairs DEF StandFor
  <2>2. StandFor(st.k - 1)' = <<>>
    <3>1. st'.k - 1 = 0
      BY <1>5
    <3>. QED BY <1>1, <2>1, <3>1 DEF StandFor
  <2>3. Begins(<<>>, <<>>)
    <3>1. <<>> \in Seq(Int)
      OBVIOUS
    <3>. QED BY <3>1, EmptyBegins
  <2>4. 1 \in 1 .. Pairs + 1 /\ Len(<<>>) = 0 /\ 0 <= call.args.dcap
    BY <1>4
  <2>5. Pairs' = Pairs
    BY <1>1, SameRuns
  <2>. QED BY <1>1, <1>5, <2>2, <2>3, <2>4, <2>5 DEF PairsExpanded
<1>. QED BY <1>1, <1>3, <1>5, <1>6, <1>7, SameRuns DEF RunsIndInv, RunsParts

\* The turns of the expansion: what each leaves alone.
LEMMA ExpandSame ==
    ASSUME RunsParts, st.pc # "encode", call' = call, out' = out, st' \in RunsStates, st'.start = st.start,
           st'.pc # "encode",
           st'.pc = "expand" => PairsExpanded', st'.pc = "store" => PairInPart',
           st'.pc = "returned" => AllExpanded'
    PROVE  RunsParts'
BY SameRuns DEF RunsParts

LEMMA SkipRunInv == ASSUME RunsIndInv, SkipRun PROVE RunsIndInv'
<1>1. /\ call.op = "rle" /\ st.pc = "expand" /\ st.k <= Pairs /\ DstLeft > 0 /\ out.counts[st.k] <= 0
      /\ st' = [st EXCEPT !.k = @ + 1] /\ call' = call /\ out' = out
  BY DEF SkipRun, In
<1>2. RunsParts
  BY <1>1 DEF RunsIndInv
<1>3. RunsArgs /\ call.raw \in BOOLEAN /\ st \in RunsStates /\ out \in RunsOut /\ PairsExpanded
  BY <1>1, <1>2 DEF RunsParts
<1>4. Pairs \in Nat /\ st.k \in 1 .. Pairs /\ Len(out.dst) \in Nat /\ call.args.dcap \in Nat /\ st.k \in Nat
  BY <1>1, <1>3, RunsTypes DEF PairsExpanded
<1>5. st' \in RunsStates /\ st'.pc = "expand" /\ st'.start = st.start /\ st'.k = st.k + 1
  <2>1. st.k + 1 \in Nat
    BY <1>4
  <2>. QED BY <1>1, <1>3, <2>1 DEF RunsStates
<1>6. StandFor(st.k) = StandFor(st.k - 1)
  <2>1. /\ StandFor(st.k) = StandFor(st.k - 1) \o Copies(out.values[st.k], out.counts[st.k])
        /\ StandFor(st.k - 1) \in Seq(Int) /\ out.values[st.k] \in Int /\ out.counts[st.k] \in Int
    BY <1>3, <1>4, MeaningStep
  <2>2. Copies(out.values[st.k], out.counts[st.k]) = <<>>
    BY <1>1, <2>1, CopiesOf
  <2>3. StandFor(st.k - 1) \o <<>> = StandFor(st.k - 1)
    BY <2>1, ConcatEmptySeq
  <2>. QED BY <2>1, <2>2, <2>3
<1>7. PairsExpanded'
  <2>1. StandFor(st.k - 1)' = StandFor(st.k)
    <3>1. st'.k - 1 = st.k
      BY <1>4, <1>5
    <3>. QED BY <1>1, <3>1 DEF StandFor
  <2>2. st.k + 1 \in 1 .. Pairs + 1 /\ Pairs' = Pairs
    BY <1>1, <1>4, SameRuns
  <2>. QED BY <1>1, <1>3, <1>5, <1>6, <2>1, <2>2 DEF PairsExpanded
<1>. QED BY <1>1, <1>2, <1>5, <1>7, ExpandSame DEF RunsIndInv

LEMMA ExpandRunInv == ASSUME RunsIndInv, ExpandRun PROVE RunsIndInv'
<1>1. /\ call.op = "rle" /\ st.pc = "expand" /\ st.k <= Pairs /\ DstLeft > 0 /\ out.counts[st.k] > 0
      /\ st' = [st EXCEPT !.pc = "store", !.c = Least2(out.counts[st.k], DstLeft), !.j = 0]
      /\ call' = call /\ out' = out
  BY DEF ExpandRun, In
<1>2. RunsParts
  BY <1>1 DEF RunsIndInv
<1>3. RunsArgs /\ call.raw \in BOOLEAN /\ st \in RunsStates /\ out \in RunsOut /\ PairsExpanded
  BY <1>1, <1>2 DEF RunsParts
<1>4. Pairs \in Nat /\ st.k \in 1 .. Pairs /\ Len(out.dst) \in Nat /\ call.args.dcap \in Nat /\ st.k \in Nat
  BY <1>1, <1>3, RunsTypes DEF PairsExpanded
<1>5. /\ StandFor(st.k - 1) \in Seq(Int) /\ out.values[st.k] \in Int /\ out.counts[st.k] \in Int
  BY <1>3, <1>4, MeaningStep
<1>6. out.dst = StandFor(st.k - 1) /\ Len(out.dst) <= call.args.dcap /\ DstLeft = call.args.dcap - Len(out.dst)
  BY <1>1, <1>3, <1>4 DEF PairsExpanded, DstLeft
<1>7. PICK c : c = Least2(out.counts[st.k], DstLeft)
  OBVIOUS
<1>8. c \in Nat
  BY <1>1, <1>4, <1>5, <1>6, <1>7 DEF Least2
<1>9. /\ st' \in RunsStates /\ st'.pc = "store" /\ st'.start = st.start /\ st'.k = st.k
      /\ st'.c = c /\ st'.j = 0
  <2>1. st' = [st EXCEPT !.pc = "store", !.c = c, !.j = 0]
    BY <1>1, <1>7, Zenon
  <2>. QED BY <1>3, <1>8, <2>1 DEF RunsStates
<1>10. StandFor(st.k - 1) \o Copies(out.values[st.k], 0) = StandFor(st.k - 1)
  <2>1. Copies(out.values[st.k], 0) = <<>>
    BY DEF Copies
  <2>2. StandFor(st.k - 1) \o <<>> = StandFor(st.k - 1)
    BY <1>5, ConcatEmptySeq
  <2>. QED BY <2>1, <2>2
<1>11. PairInPart'
  <2>1. StandFor(st.k - 1)' = StandFor(st.k - 1)
    BY <1>1, <1>9 DEF StandFor
  <2>2. Pairs' = Pairs
    BY <1>1, SameRuns
  <2>3. c = Least2(out.counts[st.k], call.args.dcap - Len(StandFor(st.k - 1)))
    BY <1>6, <1>7
  <2>. QED BY <1>1, <1>4, <1>6, <1>8, <1>9, <1>10, <2>1, <2>2, <2>3, SMTT(120) DEF PairInPart
<1>. QED BY <1>1, <1>2, <1>9, <1>11, ExpandSame DEF RunsIndInv

\* One store, of any width that is left of the run.
LEMMA StoreInv ==
    ASSUME RunsIndInv, In("rle", "store"), NEW w \in Nat, st.j + w <= st.c, Store(w)
    PROVE  RunsIndInv'
<1>1. /\ call.op = "rle" /\ st.pc = "store"
      /\ out' = [out EXCEPT !.dst = @ \o [x \in 1 .. w |-> out.values[st.k]]]
      /\ st' = [st EXCEPT !.j = @ + w] /\ call' = call
  BY DEF Store, In
<1>2. RunsParts
  BY <1>1 DEF RunsIndInv
<1>3. RunsArgs /\ call.raw \in BOOLEAN /\ st \in RunsStates /\ out \in RunsOut /\ PairInPart
  BY <1>1, <1>2 DEF RunsParts
<1>4. Pairs \in Nat /\ st.k \in 1 .. Pairs /\ st.k \in Nat /\ st.j \in Nat /\ st.c \in Nat /\ out.dst \in Seq(Int)
  BY <1>1, <1>3, RunsTypes DEF PairInPart
<1>5. StandFor(st.k - 1) \in Seq(Int) /\ out.values[st.k] \in Int
  BY <1>3, <1>4, MeaningStep
<1>6. Copies(out.values[st.k], w) \in Seq(Int) /\ Copies(out.values[st.k], st.j) \in Seq(Int)
  BY <1>4, <1>5, CopiesCount
<1>7. /\ out' \in RunsOut /\ out'.values = out.values /\ out'.counts = out.counts
      /\ out'.dst = out.dst \o Copies(out.values[st.k], w)
  <2>1. PICK t : t = out.dst \o Copies(out.values[st.k], w)
    OBVIOUS
  <2>2. t \in Seq(Int)
    BY <1>4, <1>6, <2>1, ConcatProperties
  <2>3. out' = [out EXCEPT !.dst = t]
    BY <1>1, <2>1, Zenon DEF Copies
  <2>. QED BY <1>3, <2>1, <2>2, <2>3 DEF RunsOut
<1>8. /\ st' \in RunsStates /\ st'.pc = "store" /\ st'.start = st.start /\ st'.k = st.k /\ st'.c = st.c
      /\ st'.j = st.j + w
  <2>1. st.j + w \in Nat
    BY <1>4
  <2>. QED BY <1>1, <1>3, <2>1 DEF RunsStates
<1>9. out'.dst = StandFor(st.k - 1) \o Copies(out.values[st.k], st.j + w)
  <2>1. PICK v, j, p : v = out.values[st.k] /\ j = st.j /\ p = StandFor(st.k - 1)
    OBVIOUS
  <2>2. (p \o Copies(v, j)) \o Copies(v, w) = p \o (Copies(v, j) \o Copies(v, w))
    BY <1>5, <1>6, <2>1, Associates
  <2>3. Copies(v, j) \o Copies(v, w) = Copies(v, j + w)
    BY <1>4, <1>5, <2>1, MoreCopies
  <2>4. out.dst = p \o Copies(v, j)
    BY <1>3, <2>1 DEF PairInPart
  <2>. QED BY <1>7, <2>1, <2>2, <2>3, <2>4
<1>10. PairInPart'
  <2>1. StandFor(st.k - 1)' = StandFor(st.k - 1)
    BY <1>7, <1>8 DEF StandFor
  <2>2. Pairs' = Pairs
    BY <1>1, <1>7, SameRuns
  <2>. QED BY <1>1, <1>3, <1>7, <1>8, <1>9, <2>1, <2>2 DEF PairInPart
<1>11. /\ RunsArgs' /\ (~call.raw => (RunsWritten' <=> RunsWritten) /\ (RunsStop' <=> RunsStop))
  BY <1>1, <1>3, <1>7, <1>8, SameRuns
<1>. QED BY <1>1, <1>2, <1>7, <1>8, <1>10, <1>11 DEF RunsIndInv, RunsParts

LEMMA StoreWideInv == ASSUME RunsIndInv, StoreWide PROVE RunsIndInv'
BY StoreInv, SplatAssumption DEF StoreWide

LEMMA StoreOneInv == ASSUME RunsIndInv, StoreOne PROVE RunsIndInv'
<1>1. call.op = "rle" /\ st.pc = "store" /\ In("rle", "store") /\ Store(1) /\ st.j < st.c
  BY DEF StoreOne, In
<1>2. RunsParts
  BY <1>1 DEF RunsIndInv
<1>3. st.j \in Nat /\ st.c \in Nat
  BY <1>2, RunsTypes DEF RunsParts
<1>4. st.j + 1 <= st.c /\ 1 \in Nat
  BY <1>1, <1>3
<1>. QED BY <1>1, <1>4, StoreInv

LEMMA RunStoredInv == ASSUME RunsIndInv, RunStored PROVE RunsIndInv'
<1>1. /\ call.op = "rle" /\ st.pc = "store" /\ st.j >= st.c
      /\ st' = [st EXCEPT !.pc = "expand", !.k = @ + 1] /\ call' = call /\ out' = out
  BY DEF RunStored, In
<1>2. RunsParts
  BY <1>1 DEF RunsIndInv
<1>3. RunsArgs /\ call.raw \in BOOLEAN /\ st \in RunsStates /\ out \in RunsOut /\ PairInPart
  BY <1>1, <1>2 DEF RunsParts
<1>4. /\ Pairs \in Nat /\ st.k \in 1 .. Pairs /\ st.k \in Nat /\ st.j \in Nat /\ st.c \in Nat
      /\ call.args.dcap \in Nat
  BY <1>1, <1>3, RunsTypes DEF PairInPart
<1>5. /\ StandFor(st.k) = StandFor(st.k - 1) \o Copies(out.values[st.k], out.counts[st.k])
      /\ StandFor(st.k) \in Seq(Int) /\ StandFor(st.k - 1) \in Seq(Int)
      /\ out.values[st.k] \in Int /\ out.counts[st.k] \in Int
  BY <1>3, <1>4, MeaningStep
<1>6. /\ st' \in RunsStates /\ st'.pc = "expand" /\ st'.start = st.start /\ st'.k = st.k + 1
  <2>1. st.k + 1 \in Nat
    BY <1>4
  <2>. QED BY <1>1, <1>3, <2>1 DEF RunsStates
<1>7. PICK s, v, n, m, d, g : /\ s = StandFor(st.k - 1) /\ v = out.values[st.k] /\ n = out.counts[st.k]
                              /\ m = st.c /\ d = call.args.dcap /\ g = out.dst
  OBVIOUS
<1>8. /\ s \in Seq(Int) /\ v \in Int /\ n \in Nat /\ n > 0 /\ d \in Nat /\ Len(s) \in Nat /\ Len(s) <= d
      /\ m = Least2(n, d - Len(s)) /\ g = s \o Copies(v, m) /\ StandFor(st.k) = s \o Copies(v, n)
  <2>1. st.j = st.c
    BY <1>1, <1>3, <1>4 DEF PairInPart
  <2>2. s \in Seq(Int) /\ v \in Int /\ n \in Int /\ d \in Nat /\ StandFor(st.k) = s \o Copies(v, n)
    BY <1>4, <1>5, <1>7
  <2>3. n > 0 /\ Len(s) <= d /\ m = Least2(n, d - Len(s)) /\ g = s \o Copies(v, m)
    BY <1>3, <1>7, <2>1 DEF PairInPart
  <2>4. Len(s) \in Nat
    BY <2>2
  <2>. QED BY <2>2, <2>3, <2>4
<1>9. m \in 0 .. n /\ m <= d - Len(s) /\ m \in Nat /\ (m = n \/ m = d - Len(s))
  BY <1>8 DEF Least2
<1>10. Len(g) = Len(s) + m
  <2>1. Copies(v, m) \in Seq(Int) /\ Len(Copies(v, m)) = m
    BY <1>8, <1>9, CopiesCount
  <2>. QED BY <1>8, <2>1, ConcatProperties
<1>11. Begins(g, StandFor(st.k)) /\ Len(g) <= d /\ (g = StandFor(st.k) \/ Len(g) = d)
  <2>1. Begins(g, StandFor(st.k))
    BY <1>8, <1>9, BeginsCopies
  <2>2. Len(g) <= d
    BY <1>8, <1>9, <1>10
  <2>3. CASE m = n
    BY <1>8, <2>1, <2>2, <2>3
  <2>4. CASE m = d - Len(s)
    BY <1>8, <1>9, <1>10, <2>1, <2>2, <2>4
  <2>. QED BY <1>9, <2>3, <2>4
<1>12. PairsExpanded'
  <2>1. StandFor(st.k - 1)' = StandFor(st.k)
    <3>1. st'.k - 1 = st.k
      BY <1>4, <1>6
    <3>. QED BY <1>1, <3>1 DEF StandFor
  <2>2. st.k + 1 \in 1 .. Pairs + 1 /\ Pairs' = Pairs
    BY <1>1, <1>4, SameRuns
  <2>. QED BY <1>1, <1>6, <1>7, <1>11, <2>1, <2>2 DEF PairsExpanded
<1>. QED BY <1>1, <1>2, <1>6, <1>12, ExpandSame DEF RunsIndInv

LEMMA ExpandEndInv == ASSUME RunsIndInv, ExpandEnd PROVE RunsIndInv'
<1>1. /\ call.op = "rle" /\ st.pc = "expand" /\ (st.k > Pairs \/ DstLeft <= 0)
      /\ st' = [st EXCEPT !.pc = "returned"] /\ call' = call /\ out' = out
  BY DEF ExpandEnd, In, Return
<1>2. RunsParts
  BY <1>1 DEF RunsIndInv
<1>3. RunsArgs /\ call.raw \in BOOLEAN /\ st \in RunsStates /\ out \in RunsOut /\ PairsExpanded
  BY <1>1, <1>2 DEF RunsParts
<1>4. /\ Pairs \in Nat /\ st.k \in 1 .. Pairs + 1 /\ st.k \in Nat /\ Len(out.dst) \in Nat
      /\ call.args.dcap \in Nat /\ out.dst \in Seq(Int)
  BY <1>3, RunsTypes DEF PairsExpanded
<1>5. st' \in RunsStates /\ st'.pc = "returned" /\ st'.start = st.start
  BY <1>1, <1>3 DEF RunsStates
<1>6. /\ Begins(StandFor(st.k - 1), StandFor(Pairs))
      /\ StandFor(st.k - 1) \in Seq(Int) /\ StandFor(Pairs) \in Seq(Int)
  <2>1. st.k - 1 \in 0 .. Pairs
    BY <1>4
  <2>. QED BY <1>3, <2>1, MeaningBegins
<1>7. Begins(out.dst, StandFor(Pairs)) /\ Len(out.dst) <= call.args.dcap
  BY <1>3, <1>4, <1>6, BeginsOn DEF PairsExpanded
<1>8. out.dst = StandFor(Pairs) \/ Len(out.dst) = call.args.dcap
  <2>1. CASE st.k > Pairs
    <3>1. st.k - 1 = Pairs
      BY <1>4, <2>1
    <3>. QED BY <1>3, <3>1 DEF PairsExpanded
  <2>2. CASE DstLeft <= 0
    BY <1>4, <1>7, <2>2 DEF DstLeft
  <2>. QED BY <1>1, <2>1, <2>2
<1>9. Len(out.dst) = Least2(call.args.dcap, Len(StandFor(Pairs)))
  <2>1. Len(out.dst) <= Len(StandFor(Pairs)) /\ Len(StandFor(Pairs)) \in Nat
    BY <1>4, <1>7, BeginsIs
  <2>. QED BY <1>4, <1>7, <1>8, <2>1 DEF Least2
<1>10. AllExpanded'
  <2>1. StandFor(Pairs)' = StandFor(Pairs)
    BY <1>1 DEF StandFor, Pairs
  <2>. QED BY <1>1, <1>7, <1>9, <2>1 DEF AllExpanded
<1>. QED BY <1>1, <1>2, <1>5, <1>10, ExpandSame DEF RunsIndInv

\* The invariant of run lengths holds when a call starts,
LEMMA RunsIndInvStart == ColumnInit => RunsIndInv
<1>. SUFFICES ASSUME ColumnInit, call.op = "rle" PROVE RunsIndInv
  BY DEF RunsIndInv
<1>1. RunsInit
  BY ColumnInitOp
<1>. QED BY <1>1, RunsIndInvInit

\* and every step of the columns keeps it.
LEMMA RunsIndInvNext == RunsIndInv /\ [ColumnNext]_vars => RunsIndInv'
<1>. SUFFICES ASSUME RunsIndInv, [ColumnNext]_vars PROVE RunsIndInv'
  OBVIOUS
<1>1. CASE ColumnNext
  <2>1. CASE call.op # "rle"
    BY <1>1, <2>1, ColumnStep DEF RunsIndInv
  <2>2. CASE call.op = "rle"
    <3>1. RunsNext
      BY <1>1, <2>2, ColumnStep
    <3>. QED BY <3>1, InsideRunInv, WriteRunInv, EncodeEndInv, SkipRunInv, ExpandRunInv, StoreWideInv,
                StoreOneInv, RunStoredInv, ExpandEndInv, Zenon DEF RunsNext
  <2>. QED BY <2>1, <2>2
<1>2. CASE UNCHANGED vars
  <2>1. call' = call /\ st' = st /\ out' = out
    BY <1>2 DEF vars
  <2>2. /\ (RunsArgs' <=> RunsArgs) /\ (RunsWritten' <=> RunsWritten) /\ (RunsStop' <=> RunsStop)
        /\ Pairs' = Pairs
    BY <2>1, SameRuns
  <2>3. InRun' <=> InRun
    BY <2>1 DEF InRun, Limit
  <2>4. (PairsExpanded' <=> PairsExpanded) /\ (PairInPart' <=> PairInPart)
    <3>1. StandFor(st.k - 1)' = StandFor(st.k - 1)
      BY <2>1 DEF StandFor
    <3>. QED BY <2>1, <2>2, <3>1 DEF PairsExpanded, PairInPart
  <2>5. AllExpanded' <=> AllExpanded
    <3>1. StandFor(Pairs)' = StandFor(Pairs)
      BY <2>1 DEF StandFor, Pairs
    <3>. QED BY <2>1, <3>1 DEF AllExpanded
  <2>. QED BY <2>1, <2>2, <2>3, <2>4, <2>5 DEF RunsIndInv, RunsParts
<1>. QED BY <1>1, <1>2

\* What is expanded is where what the pairs stand for begins.
LEMMA ExpandsInto ==
    ASSUME RunsParts
    PROVE  /\ Len(out.dst) <= call.args.dcap /\ Begins(out.dst, StandFor(Pairs))
           /\ st.pc = "returned" => Len(out.dst) = Least2(call.args.dcap, Len(StandFor(Pairs)))
<1>1. RunsArgs /\ call.raw \in BOOLEAN /\ st \in RunsStates /\ out \in RunsOut
  BY DEF RunsParts
<1>2. /\ Pairs \in Nat /\ call.args.dcap \in Nat /\ out.dst \in Seq(Int)
      /\ st.k \in Nat /\ st.c \in Nat /\ st.j \in Nat
  BY <1>1, RunsTypes
<1>3. StandFor(Pairs) \in Seq(Int)
  <2>1. Pairs \in 0 .. Pairs
    BY <1>2
  <2>. QED BY <1>1, <2>1, MeaningBegins
<1>4. CASE st.pc = "encode"
  <2>1. out.dst = <<>>
    BY <1>4 DEF RunsParts, InRun
  <2>2. Begins(<<>>, StandFor(Pairs)) /\ Len(<<>>) = 0
    BY <1>3, EmptyBegins
  <2>. QED BY <1>2, <1>4, <2>1, <2>2
<1>5. CASE st.pc = "expand"
  <2>1. PairsExpanded
    BY <1>5 DEF RunsParts
  <2>2. st.k - 1 \in 0 .. Pairs
    BY <1>2, <2>1 DEF PairsExpanded
  <2>3. Begins(StandFor(st.k - 1), StandFor(Pairs)) /\ StandFor(st.k - 1) \in Seq(Int)
    BY <1>1, <2>2, MeaningBegins
  <2>4. Begins(out.dst, StandFor(Pairs))
    BY <1>2, <1>3, <2>1, <2>3, BeginsOn DEF PairsExpanded
  <2>. QED BY <1>5, <2>1, <2>4 DEF PairsExpanded
<1>6. CASE st.pc = "store"
  <2>1. PairInPart
    BY <1>6 DEF RunsParts
  <2>2. PICK s, v, n, j, d : /\ s = StandFor(st.k - 1) /\ v = out.values[st.k] /\ n = out.counts[st.k]
                             /\ j = st.j /\ d = call.args.dcap
    OBVIOUS
  <2>3. st.k \in 1 .. Pairs /\ st.k \in 0 .. Pairs
    BY <1>2, <2>1 DEF PairInPart
  <2>4. s \in Seq(Int) /\ v \in Int /\ n \in Int /\ StandFor(st.k) = s \o Copies(v, n) /\ StandFor(st.k) \in Seq(Int)
    BY <1>1, <2>2, <2>3, MeaningStep
  <2>5. /\ out.dst = s \o Copies(v, j) /\ n > 0 /\ Len(s) <= d /\ j <= st.c /\ st.c = Least2(n, d - Len(s))
    BY <2>1, <2>2 DEF PairInPart
  <2>6. n \in Nat /\ j \in 0 .. n /\ j \in Nat /\ Len(s) \in Nat /\ d \in Nat /\ Len(s) + j <= d
    <3>1. j \in Nat /\ d \in Nat /\ Len(s) \in Nat
      BY <1>2, <2>2, <2>4
    <3>. QED BY <1>2, <2>4, <2>5, <3>1 DEF Least2
  <2>7. Begins(out.dst, StandFor(st.k))
    BY <2>4, <2>5, <2>6, BeginsCopies
  <2>8. Begins(StandFor(st.k), StandFor(Pairs))
    BY <1>1, <2>3, MeaningBegins
  <2>9. Begins(out.dst, StandFor(Pairs))
    BY <1>2, <1>3, <2>4, <2>7, <2>8, BeginsOn
  <2>10. Len(out.dst) = Len(s) + j
    <3>1. Copies(v, j) \in Seq(Int) /\ Len(Copies(v, j)) = j
      BY <2>4, <2>6, CopiesCount
    <3>. QED BY <2>4, <2>5, <3>1, ConcatProperties
  <2>. QED BY <1>6, <2>2, <2>6, <2>9, <2>10
<1>7. CASE st.pc = "returned"
  <2>1. AllExpanded
    BY <1>7 DEF RunsParts
  <2>2. Len(out.dst) = Least2(call.args.dcap, Len(StandFor(Pairs))) /\ Begins(out.dst, StandFor(Pairs))
    BY <2>1 DEF AllExpanded
  <2>. QED BY <1>2, <1>3, <2>2, Least2Is
<1>. QED BY <1>1, <1>4, <1>5, <1>6, <1>7 DEF RunsStates

\* Whatever columns and pairs of values and counts are given, whatever rooms and however wide
\* a store: the runs written are the whole runs of the part of the column they were taken
\* from, and the encoder stops short for want of room alone; what is expanded is where the
\* pairs' meaning begins, never past the destination, and on return all of it that fits
\* (rle.go:47-50).
THEOREM RunsComeBack == ColumnSpec => []RunsRoundTrip
<1>1. RunsIndInv => RunsRoundTrip
  <2>. SUFFICES ASSUME RunsIndInv, call.op = "rle" PROVE RunsRoundTrip
    BY DEF RunsRoundTrip
  <2>1. RunsParts /\ RunsArgs /\ call.raw \in BOOLEAN /\ st \in RunsStates /\ out \in RunsOut
    BY DEF RunsIndInv, RunsParts
  <2>2. out.dst \in Seq(Int) /\ Len(out.values) \in Nat
    BY <2>1, RunsTypes
  <2>3. ASSUME ~call.raw
        PROVE  /\ RunsWritten /\ Pairs = Len(out.values) /\ (st.pc # "encode" => RunsStop)
    BY <2>1, <2>2, <2>3 DEF RunsParts, RunsWritten, Pairs, Least2
  <2>4. ASSUME ~call.raw
        PROVE  /\ Len(out.values) = Len(out.counts)
               /\ Expanded(out.values, out.counts, Pairs) = Prefix(call.args.a, st.start)
               /\ \A k \in 1 .. Pairs : out.counts[k] > 0 /\ (k > 1 => out.values[k] # out.values[k - 1])
               /\ Len(out.values) <= call.args.vroom /\ Len(out.counts) <= call.args.lroom
               /\ st.pc # "encode" /\ st.start < Limit(call.args) =>
                    Pairs = Least2(call.args.vroom, call.args.lroom)
    BY <2>3, <2>4 DEF RunsWritten, RunsStop, StandFor
  <2>5. PICK whole : whole = Expanded(out.values, out.counts, Pairs)
    OBVIOUS
  <2>6. /\ Len(out.dst) <= call.args.dcap /\ Begins(out.dst, whole)
        /\ Returned => Len(out.dst) = Least2(call.args.dcap, Len(whole))
    BY <2>1, <2>5, ExpandsInto DEF StandFor, Returned
  <2>7. Len(out.dst) <= Len(whole) /\ out.dst = Prefix(whole, Len(out.dst))
    BY <2>2, <2>6, BeginsIs DEF Prefix
  <2>. QED BY <2>4, <2>5, <2>6, <2>7 DEF RunsRoundTrip
<1>. QED BY RunsIndInvStart, RunsIndInvNext, <1>1, PTL DEF ColumnSpec

-----------------------------------------------------------------------------
(* The meaning of an LZ4 block, sequence by sequence.                      *)

ByteStrings == Seq(0 .. Byte - 1)

LEMMA ByteIs == Byte \in Nat /\ Byte >= 2 /\ Byte - 1 \in Nat
<1>1. Nibble \in Nat /\ Nibble >= 2
  BY BlockAssumption
<1>2. \A x \in Nat : x >= 2 => x * x \in Nat /\ x * x >= 2
  OBVIOUS
<1>. QED BY <1>1, <1>2 DEF Byte

LEMMA BytesOf ==
    ASSUME NEW src \in ByteStrings
    PROVE  /\ Len(src) \in Nat /\ src \in Seq(Int)
           /\ \A x \in 1 .. Len(src) : src[x] \in Nat /\ src[x] < Byte
<1>1. Byte \in Nat
  BY ByteIs
<1>2. Len(src) \in Nat /\ \A x \in 1 .. Len(src) : src[x] \in 0 .. Byte - 1
  BY ElementOfSeq, LenProperties DEF ByteStrings
<1>3. src \in Seq(Int)
  <2>1. 0 .. Byte - 1 \subseteq Int
    BY <1>1
  <2>. QED BY <2>1, SeqMonotonic DEF ByteStrings
<1>. QED BY <1>1, <1>2, <1>3

\* A length that begins with a full nibble and is continued at p has come to v at j.
LengthInPart(src, p, j, v) ==
    /\ j \in p .. Len(src) /\ v = Nibble - 1 + (j - p) * (Byte - 1)
    /\ \A r \in p .. j - 1 : src[r + 1] = Byte - 1

LEMMA WholeLengthIs ==
    ASSUME NEW src \in ByteStrings, NEW nib \in Nat, NEW p \in 0 .. Len(src),
           NEW m \in WholeLength(src, nib, p)
    PROVE  /\ m.v \in Nat /\ m.next \in p .. Len(src) /\ m = [v |-> m.v, next |-> m.next]
           /\ \A other \in WholeLength(src, nib, p) : other = m
<1>1. Len(src) \in Nat /\ \A x \in 1 .. Len(src) : src[x] \in Nat
  BY BytesOf
<1>2. CASE nib # Nibble - 1
  BY <1>1, <1>2 DEF WholeLength
<1>3. CASE nib = Nibble - 1
  <2>1. WholeLength(src, nib, p)
        = {[v |-> nib + (q - p) * (Byte - 1) + src[q + 1], next |-> q + 1] : q \in LengthEnds(src, p)}
    BY <1>3 DEF WholeLength
  <2>2. PICK q \in LengthEnds(src, p) : m = [v |-> nib + (q - p) * (Byte - 1) + src[q + 1], next |-> q + 1]
    BY <2>1
  <2>3. q \in p .. Len(src) - 1 /\ src[q + 1] # Byte - 1 /\ \A r \in p .. q - 1 : src[r + 1] = Byte - 1
    BY <2>2 DEF LengthEnds
  <2>4. nib + (q - p) * (Byte - 1) + src[q + 1] \in Nat
    <3>1. \A x, y \in Nat : x * y \in Nat
      OBVIOUS
    <3>2. (q - p) * (Byte - 1) \in Nat
      <4>1. q - p \in Nat
        BY <1>1, <2>3
      <4>. QED BY <3>1, <4>1, ByteIs
    <3>3. src[q + 1] \in Nat
      <4>1. q + 1 \in 1 .. Len(src)
        BY <1>1, <2>3
      <4>. QED BY <1>1, <4>1
    <3>. QED BY <3>2, <3>3
  <2>5. ASSUME NEW other \in WholeLength(src, nib, p)
        PROVE  other = m
    <3>1. PICK t \in LengthEnds(src, p) : other = [v |-> nib + (t - p) * (Byte - 1) + src[t + 1], next |-> t + 1]
      BY <2>1
    <3>2. t \in p .. Len(src) - 1 /\ src[t + 1] # Byte - 1 /\ \A r \in p .. t - 1 : src[r + 1] = Byte - 1
      BY <3>1 DEF LengthEnds
    <3>3. ~(t < q) /\ ~(q < t)
      BY <1>1, <2>3, <3>2
    <3>4. t = q
      BY <1>1, <2>3, <3>2, <3>3
    <3>. QED BY <2>2, <3>1, <3>4
  <2>6. q + 1 \in p .. Len(src)
    BY <1>1, <2>3
  <2>. QED BY <2>2, <2>4, <2>5, <2>6
<1>. QED BY <1>2, <1>3

LEMMA LengthStarts ==
    ASSUME NEW src \in ByteStrings, NEW nib \in Nat, NEW p \in 0 .. Len(src)
    PROVE  /\ nib = Nibble - 1 => LengthInPart(src, p, p, nib)
           /\ nib # Nibble - 1 => [v |-> nib, next |-> p] \in WholeLength(src, nib, p)
<1>1. Len(src) \in Nat
  BY BytesOf
<1>2. ASSUME nib = Nibble - 1 PROVE LengthInPart(src, p, p, nib)
  <2>1. (p - p) * (Byte - 1) = 0
    <3>1. \A x \in Nat : (p - p) * x = 0
      OBVIOUS
    <3>. QED BY <3>1, ByteIs
  <2>. QED BY <1>1, <1>2, <2>1 DEF LengthInPart
<1>3. ASSUME nib # Nibble - 1 PROVE [v |-> nib, next |-> p] \in WholeLength(src, nib, p)
  BY <1>3 DEF WholeLength
<1>. QED BY <1>2, <1>3

LEMMA LengthGoesOn ==
    ASSUME NEW src \in ByteStrings, NEW p \in Nat, NEW j \in Nat, NEW v, LengthInPart(src, p, j, v), j < Len(src)
    PROVE  /\ src[j + 1] = Byte - 1 => LengthInPart(src, p, j + 1, v + src[j + 1])
           /\ src[j + 1] # Byte - 1 => [v |-> v + src[j + 1], next |-> j + 1] \in WholeLength(src, Nibble - 1, p)
<1>1. /\ j \in p .. Len(src) /\ v = Nibble - 1 + (j - p) * (Byte - 1)
      /\ \A r \in p .. j - 1 : src[r + 1] = Byte - 1
  BY DEF LengthInPart
<1>2. Len(src) \in Nat /\ Nibble \in Nat /\ Byte \in Nat
  BY BytesOf, BlockAssumption, ByteIs
<1>3. ASSUME src[j + 1] = Byte - 1 PROVE LengthInPart(src, p, j + 1, v + src[j + 1])
  <2>1. (j - p) * (Byte - 1) + (Byte - 1) = ((j + 1) - p) * (Byte - 1)
    <3>1. \A x, y \in Int : x * y + y = (x + 1) * y
      OBVIOUS
    <3>2. (j + 1) - p = (j - p) + 1 /\ j - p \in Int /\ Byte - 1 \in Int
      BY <1>2
    <3>. QED BY <3>1, <3>2
  <2>2. v + src[j + 1] = Nibble - 1 + ((j + 1) - p) * (Byte - 1)
    <3>1. \A x \in Int : (Nibble - 1 + x) + (Byte - 1) = Nibble - 1 + (x + (Byte - 1))
      BY <1>2
    <3>2. (j - p) * (Byte - 1) \in Int
      <4>1. \A x, y \in Int : x * y \in Int
        OBVIOUS
      <4>. QED BY <1>2, <4>1
    <3>. QED BY <1>1, <1>3, <2>1, <3>1, <3>2
  <2>3. \A r \in p .. (j + 1) - 1 : src[r + 1] = Byte - 1
    BY <1>1, <1>3
  <2>4. j + 1 \in p .. Len(src)
    BY <1>1, <1>2
  <2>. QED BY <2>2, <2>3, <2>4 DEF LengthInPart
<1>4. ASSUME src[j + 1] # Byte - 1
      PROVE  [v |-> v + src[j + 1], next |-> j + 1] \in WholeLength(src, Nibble - 1, p)
  <2>1. j \in LengthEnds(src, p)
    BY <1>1, <1>2, <1>4 DEF LengthEnds, LengthInPart
  <2>. QED BY <1>1, <2>1 DEF WholeLength
<1>. QED BY <1>3, <1>4

LEMMA LengthBreaksOff ==
    ASSUME NEW src \in ByteStrings, NEW p \in Nat, NEW v, LengthInPart(src, p, Len(src), v)
    PROVE  WholeLength(src, Nibble - 1, p) = {}
<1>1. /\ Len(src) \in Nat /\ \A r \in p .. Len(src) - 1 : src[r + 1] = Byte - 1
  BY BytesOf DEF LengthInPart
<1>2. LengthEnds(src, p) = {}
  BY <1>1 DEF LengthEnds
<1>. QED BY <1>2 DEF WholeLength

\* The match of n bytes that is offset bytes back in o.
CopyOf(o, offset, n) == [k \in 1 .. n |-> o[Len(o) - offset + 1 + ((k - 1) % offset)]]

LEMMA CopyOfIs ==
    ASSUME NEW o \in Seq(Int), NEW offset \in 1 .. Len(o), NEW n \in Nat
    PROVE  CopyOf(o, offset, n) \in Seq(Int) /\ Len(CopyOf(o, offset, n)) = n
<1>1. \A k \in 1 .. n : o[Len(o) - offset + 1 + ((k - 1) % offset)] \in Int
  <2>. TAKE k \in 1 .. n
  <2>1. k - 1 \in Nat /\ offset \in Nat /\ offset >= 1 /\ Len(o) \in Nat
    OBVIOUS
  <2>2. PICK r \in Nat : r = (k - 1) % offset /\ r < offset
    BY <2>1, DivMod
  <2>3. Len(o) - offset + 1 + r \in 1 .. Len(o)
    BY <2>1, <2>2
  <2>. QED BY <2>2, <2>3
<1>2. CopyOf(o, offset, n) \in [1 .. n -> Int]
  BY <1>1 DEF CopyOf
<1>. QED BY <1>2

\* What a walk over the sequences goes through, and how it ends.
Stages(src) == [i : 0 .. Len(src), o : Seq(Int), n : Int]

\* A sequence reads at least a byte, and what it writes is put behind.
Follows(src, j, o, r) == r \in Stages(src) /\ Begins(o, r.o) /\ (r.n = -2 => r.i > j)

LEMMA BeginsItself ==
    ASSUME NEW o \in Seq(Int)
    PROVE  Begins(o, o) /\ \A u \in Seq(Int) : Begins(o, o \o u) /\ o \o u \in Seq(Int)
<1>1. o = o \o <<>> /\ <<>> \in Seq(Int)
  BY ConcatEmptySeq
<1>2. \A u \in Seq(Int) : o \o u \in Seq(Int)
  BY ConcatProperties
<1>. QED BY <1>1, <1>2 DEF Begins

LEMMA BadFollows ==
    ASSUME NEW src \in ByteStrings, NEW j, NEW o \in Seq(Int)
    PROVE  Follows(src, j, o, Bad(o))
<1>1. Len(src) \in Nat
  BY BytesOf
<1>. QED BY <1>1, BeginsItself DEF Follows, Stages, Bad

\* How a sequence goes on behind its literals.
LEMMA AfterLiteralsIs ==
    ASSUME NEW src \in ByteStrings, NEW cap \in Nat, NEW nib \in Nat, NEW j \in 0 .. Len(src), NEW o \in Seq(Int)
    PROVE  LET offset == src[j + 1] + Byte * src[j + 2]
               r == AfterLiterals(src, cap, nib, j, o)
           IN /\ j = Len(src) => r = [i |-> j, o |-> o, n |-> Len(o)]
              /\ j + 1 = Len(src) => r = Bad(o)
              /\ j + 2 <= Len(src) =>
                   /\ offset \in Nat
                   /\ offset \notin 1 .. Len(o) => r = Bad(o)
                   /\ WholeLength(src, nib, j + 2) = {} => r = Bad(o)
                   /\ \A m \in WholeLength(src, nib, j + 2) :
                        IF Len(o) + m.v + MinMatch > cap THEN r = Bad(o)
                        ELSE offset \in 1 .. Len(o) =>
                             r = [i |-> m.next, o |-> o \o CopyOf(o, offset, m.v + MinMatch), n |-> -2]
<1>. DEFINE offset == src[j + 1] + Byte * src[j + 2]
            r == AfterLiterals(src, cap, nib, j, o)
<1>1. Len(src) \in Nat /\ Len(o) \in Nat
  BY BytesOf
<1>2. j = Len(src) => r = [i |-> j, o |-> o, n |-> Len(o)]
  BY DEF AfterLiterals
<1>3. j + 1 = Len(src) => r = Bad(o)
  BY <1>1 DEF AfterLiterals
<1>4. ASSUME j + 2 <= Len(src)
      PROVE  /\ offset \in Nat
             /\ offset \notin 1 .. Len(o) => r = Bad(o)
             /\ WholeLength(src, nib, j + 2) = {} => r = Bad(o)
             /\ \A m \in WholeLength(src, nib, j + 2) :
                  IF Len(o) + m.v + MinMatch > cap THEN r = Bad(o)
                  ELSE offset \in 1 .. Len(o) =>
                       r = [i |-> m.next, o |-> o \o CopyOf(o, offset, m.v + MinMatch), n |-> -2]
  <2>1. offset \in Nat
    <3>1. src[j + 1] \in Nat /\ src[j + 2] \in Nat /\ Byte \in Nat
      <4>1. j + 1 \in 1 .. Len(src) /\ j + 2 \in 1 .. Len(src)
        BY <1>1, <1>4
      <4>. QED BY <4>1, BytesOf, ByteIs
    <3>2. \A x, y, z \in Nat : x + y * z \in Nat
      OBVIOUS
    <3>. QED BY <3>1, <3>2
  <2>2. r = IF offset = 0 \/ offset > Len(o) \/ \A m \in WholeLength(src, nib, j + 2) : Len(o) + m.v + MinMatch > cap
            THEN Bad(o)
            ELSE LET m == CHOOSE m \in WholeLength(src, nib, j + 2) : TRUE
                 IN [i |-> m.next, o |-> o \o CopyOf(o, offset, m.v + MinMatch), n |-> -2]
    <3>1. j # Len(src) /\ ~(j + 2 > Len(src))
      BY <1>1, <1>4
    <3>. QED BY <3>1 DEF AfterLiterals, CopyOf
  <2>. HIDE DEF offset, r
  <2>3. offset \notin 1 .. Len(o) => r = Bad(o)
    BY <1>1, <2>1, <2>2
  <2>4. WholeLength(src, nib, j + 2) = {} => r = Bad(o)
    BY <2>2
  <2>5. ASSUME NEW m \in WholeLength(src, nib, j + 2)
        PROVE  IF Len(o) + m.v + MinMatch > cap THEN r = Bad(o)
               ELSE offset \in 1 .. Len(o) =>
                    r = [i |-> m.next, o |-> o \o CopyOf(o, offset, m.v + MinMatch), n |-> -2]
    <3>1. j + 2 \in 0 .. Len(src)
      BY <1>1, <1>4
    <3>2. \A other \in WholeLength(src, nib, j + 2) : other = m
      BY <3>1, WholeLengthIs
    <3>3. (CHOOSE x \in WholeLength(src, nib, j + 2) : TRUE) = m
      BY <3>2
    <3>4. CASE Len(o) + m.v + MinMatch > cap
      BY <2>2, <3>2, <3>4
    <3>5. CASE ~(Len(o) + m.v + MinMatch > cap) /\ offset \in 1 .. Len(o)
      <4>1. ~(offset = 0 \/ offset > Len(o))
        BY <1>1, <3>5
      <4>2. ~ \A x \in WholeLength(src, nib, j + 2) : Len(o) + x.v + MinMatch > cap
        BY <3>5
      <4>. QED BY <2>2, <3>3, <3>5, <4>1, <4>2, Zenon
    <3>. QED BY <3>4, <3>5, Zenon
  <2>. QED BY <2>1, <2>3, <2>4, <2>5 DEF r, offset
<1>. QED BY <1>2, <1>3, <1>4

LEMMA AfterTheLast ==
    ASSUME NEW src \in ByteStrings, NEW cap \in Nat, NEW nib \in Nat, NEW j \in 0 .. Len(src), NEW o \in Seq(Int),
           j = Len(src)
    PROVE  AfterLiterals(src, cap, nib, j, o) = [i |-> j, o |-> o, n |-> Len(o)]
BY SMTT(120) DEF AfterLiterals

LEMMA AfterTooFew ==
    ASSUME NEW src \in ByteStrings, NEW cap \in Nat, NEW nib \in Nat, NEW j \in 0 .. Len(src), NEW o \in Seq(Int),
           j + 1 = Len(src)
    PROVE  AfterLiterals(src, cap, nib, j, o) = Bad(o)
<1>1. j # Len(src) /\ j + 2 > Len(src)
  BY BytesOf
<1>. QED BY <1>1, ZenonT(120) DEF AfterLiterals

LEMMA AfterWithLength ==
    ASSUME NEW src \in ByteStrings, NEW cap \in Nat, NEW nib \in Nat, NEW j \in 0 .. Len(src), NEW o \in Seq(Int),
           j + 2 <= Len(src), NEW m \in WholeLength(src, nib, j + 2)
    PROVE  IF Len(o) + m.v + MinMatch > cap THEN AfterLiterals(src, cap, nib, j, o) = Bad(o)
           ELSE src[j + 1] + Byte * src[j + 2] \in 1 .. Len(o) =>
                AfterLiterals(src, cap, nib, j, o)
                = [i |-> m.next, o |-> o \o CopyOf(o, src[j + 1] + Byte * src[j + 2], m.v + MinMatch), n |-> -2]
<1>. DEFINE P(of, r) == j + 2 <= Len(src) =>
                          /\ of \in Nat
                          /\ of \notin 1 .. Len(o) => r = Bad(o)
                          /\ WholeLength(src, nib, j + 2) = {} => r = Bad(o)
                          /\ \A mm \in WholeLength(src, nib, j + 2) :
                               IF Len(o) + mm.v + MinMatch > cap THEN r = Bad(o)
                               ELSE of \in 1 .. Len(o) =>
                                    r = [i |-> mm.next, o |-> o \o CopyOf(o, of, mm.v + MinMatch), n |-> -2]
<1>1. P(src[j + 1] + Byte * src[j + 2], AfterLiterals(src, cap, nib, j, o))
  BY AfterLiteralsIs, ZenonT(120)
<1>. QED BY <1>1, ZenonT(120)

LEMMA AfterNoLength ==
    ASSUME NEW src \in ByteStrings, NEW cap \in Nat, NEW nib \in Nat, NEW j \in 0 .. Len(src), NEW o \in Seq(Int),
           j + 2 <= Len(src),
           src[j + 1] + Byte * src[j + 2] \notin 1 .. Len(o) \/ WholeLength(src, nib, j + 2) = {}
    PROVE  AfterLiterals(src, cap, nib, j, o) = Bad(o)
<1>. DEFINE P(of, r) == j + 2 <= Len(src) =>
                          /\ of \in Nat
                          /\ of \notin 1 .. Len(o) => r = Bad(o)
                          /\ WholeLength(src, nib, j + 2) = {} => r = Bad(o)
                          /\ \A mm \in WholeLength(src, nib, j + 2) :
                               IF Len(o) + mm.v + MinMatch > cap THEN r = Bad(o)
                               ELSE of \in 1 .. Len(o) =>
                                    r = [i |-> mm.next, o |-> o \o CopyOf(o, of, mm.v + MinMatch), n |-> -2]
<1>1. P(src[j + 1] + Byte * src[j + 2], AfterLiterals(src, cap, nib, j, o))
  BY AfterLiteralsIs
<1>. QED BY <1>1, ZenonT(120)

LEMMA AfterFollows ==
    ASSUME NEW src \in ByteStrings, NEW cap \in Nat, NEW nib \in Nat, NEW j \in 0 .. Len(src), NEW o \in Seq(Int)
    PROVE  Follows(src, j, o, AfterLiterals(src, cap, nib, j, o))
<1>. DEFINE offset == src[j + 1] + Byte * src[j + 2]
<1>. PICK r : r = AfterLiterals(src, cap, nib, j, o)
  OBVIOUS
<1>1. Len(src) \in Nat /\ Len(o) \in Nat /\ MinMatch \in Nat
  BY BytesOf, BlockAssumption
<1>2. CASE j = Len(src)
  <2>1. r = [i |-> j, o |-> o, n |-> Len(o)]
    BY <1>2, AfterTheLast
  <2>. QED BY <1>1, <2>1, BeginsItself DEF Follows, Stages
<1>3. CASE j + 1 = Len(src)
  <2>1. r = Bad(o)
    BY <1>3, AfterTooFew
  <2>. QED BY <2>1, BadFollows
<1>4. CASE j + 2 <= Len(src)
  <2>1. CASE offset \notin 1 .. Len(o) \/ WholeLength(src, nib, j + 2) = {}
    <3>1. r = Bad(o)
      BY <1>4, <2>1, AfterNoLength, ZenonT(120)
    <3>. QED BY <3>1, BadFollows
  <2>2. ASSUME offset \in 1 .. Len(o), NEW m \in WholeLength(src, nib, j + 2)
        PROVE  Follows(src, j, o, r)
    <3>1. CASE Len(o) + m.v + MinMatch > cap
      <4>1. r = Bad(o)
        BY <1>4, <3>1, AfterWithLength, ZenonT(120)
      <4>. QED BY <4>1, BadFollows
    <3>2. CASE ~(Len(o) + m.v + MinMatch > cap)
      <4>1. r = [i |-> m.next, o |-> o \o CopyOf(o, offset, m.v + MinMatch), n |-> -2]
        BY <1>4, <2>2, <3>2, AfterWithLength, ZenonT(120)
      <4>2. m.v \in Nat /\ m.next \in j + 2 .. Len(src)
        <5>1. j + 2 \in 0 .. Len(src)
          BY <1>1, <1>4
        <5>. QED BY <5>1, WholeLengthIs
      <4>. HIDE DEF offset
      <4>3. CopyOf(o, offset, m.v + MinMatch) \in Seq(Int)
        <5>1. m.v + MinMatch \in Nat
          BY <1>1, <4>2
        <5>. QED BY <2>2, <5>1, CopyOfIs
      <4>4. Begins(o, r.o) /\ r.o \in Seq(Int)
        BY <4>1, <4>3, BeginsItself
      <4>5. r.i \in 0 .. Len(src) /\ r.i > j /\ r.n \in Int
        BY <1>1, <4>1, <4>2
      <4>6. r \in Stages(src)
        BY <4>1, <4>4, <4>5 DEF Stages
      <4>. QED BY <4>4, <4>5, <4>6 DEF Follows
    <3>. QED BY <3>1, <3>2
  <2>. QED BY <2>1, <2>2
<1>5. j = Len(src) \/ j + 1 = Len(src) \/ j + 2 <= Len(src)
  BY <1>1
<1>. QED BY <1>2, <1>3, <1>4, <1>5

\* The literals that a length says are there.
LiteralsOf(src, m) == SubSeq(src, m.next + 1, m.next + m.v)

LEMMA PartIs ==
    ASSUME NEW src \in Seq(Int), NEW x \in Nat, NEW w \in Nat, x + w <= Len(src)
    PROVE  /\ SubSeq(src, x + 1, x + w) \in Seq(Int) /\ Len(SubSeq(src, x + 1, x + w)) = w
           /\ \A y \in 1 .. w : SubSeq(src, x + 1, x + w)[y] = src[x + y]
<1>1. Len(src) \in Nat /\ \A y \in x + 1 .. x + w : src[y] \in Int
  <2>1. \A y \in x + 1 .. x + w : y \in 1 .. Len(src)
    OBVIOUS
  <2>. QED BY <2>1
<1>2. x + 1 \in Int /\ x + w \in Int
  OBVIOUS
<1>3. /\ SubSeq(src, x + 1, x + w) \in Seq(Int)
      /\ Len(SubSeq(src, x + 1, x + w)) = IF x + 1 <= x + w THEN x + w - (x + 1) + 1 ELSE 0
      /\ \A y \in 1 .. x + w - (x + 1) + 1 : SubSeq(src, x + 1, x + w)[y] = src[x + 1 + y - 1]
  BY <1>1, <1>2, SubSeqProperties
<1>4. x + w - (x + 1) + 1 = w /\ \A y \in 1 .. w : x + 1 + y - 1 = x + y
  OBVIOUS
<1>. QED BY <1>3, <1>4

\* The nibbles of the token at j.
Literal(src, j) == src[j + 1] \div Nibble
Matched(src, j) == src[j + 1] % Nibble

LEMMA OneSequenceIs ==
    ASSUME NEW src \in ByteStrings, NEW cap \in Nat, NEW j \in 0 .. Len(src), NEW o \in Seq(Int)
    PROVE  LET r == OneSequence(src, cap, j, o)
           IN /\ j = Len(src) => r = Bad(o)
              /\ j < Len(src) =>
                   /\ Literal(src, j) \in Nat /\ Matched(src, j) \in Nat
                   /\ WholeLength(src, Literal(src, j), j + 1) = {} => r = Bad(o)
                   /\ \A m \in WholeLength(src, Literal(src, j), j + 1) :
                        IF m.next + m.v > Len(src) \/ Len(o) + m.v > cap THEN r = Bad(o)
                        ELSE r = AfterLiterals(src, cap, Matched(src, j), m.next + m.v, o \o LiteralsOf(src, m))
<1>. DEFINE r == OneSequence(src, cap, j, o)
            nib == Literal(src, j)
<1>1. Len(src) \in Nat
  BY BytesOf
<1>2. j = Len(src) => r = Bad(o)
  BY DEF OneSequence
<1>3. ASSUME j < Len(src)
      PROVE  /\ nib \in Nat /\ Matched(src, j) \in Nat
             /\ WholeLength(src, nib, j + 1) = {} => r = Bad(o)
             /\ \A m \in WholeLength(src, nib, j + 1) :
                  IF m.next + m.v > Len(src) \/ Len(o) + m.v > cap THEN r = Bad(o)
                  ELSE r = AfterLiterals(src, cap, Matched(src, j), m.next + m.v, o \o LiteralsOf(src, m))
  <2>1. nib \in Nat /\ Matched(src, j) \in Nat
    <3>1. src[j + 1] \in Nat
      <4>1. j + 1 \in 1 .. Len(src)
        BY <1>1, <1>3
      <4>. QED BY <4>1, BytesOf
    <3>. QED BY <3>1, BlockAssumption, DivMod, SMTT(120) DEF Literal, Matched
  <2>2. r = IF \A m \in WholeLength(src, nib, j + 1) : m.next + m.v > Len(src) \/ Len(o) + m.v > cap THEN Bad(o)
            ELSE LET m == CHOOSE m \in WholeLength(src, nib, j + 1) : TRUE
                 IN AfterLiterals(src, cap, Matched(src, j), m.next + m.v, o \o LiteralsOf(src, m))
    <3>1. j # Len(src)
      BY <1>1, <1>3
    <3>. QED BY <3>1 DEF OneSequence, Literal, Matched, LiteralsOf
  <2>. HIDE DEF r, nib
  <2>3. WholeLength(src, nib, j + 1) = {} => r = Bad(o)
    BY <2>2
  <2>4. ASSUME NEW m \in WholeLength(src, nib, j + 1)
        PROVE  IF m.next + m.v > Len(src) \/ Len(o) + m.v > cap THEN r = Bad(o)
               ELSE r = AfterLiterals(src, cap, Matched(src, j), m.next + m.v, o \o LiteralsOf(src, m))
    <3>1. j + 1 \in 0 .. Len(src)
      BY <1>1, <1>3
    <3>2. \A other \in WholeLength(src, nib, j + 1) : other = m
      BY <2>1, <3>1, WholeLengthIs
    <3>3. (CHOOSE x \in WholeLength(src, nib, j + 1) : TRUE) = m
      BY <3>2
    <3>4. CASE m.next + m.v > Len(src) \/ Len(o) + m.v > cap
      BY <2>2, <3>2, <3>4
    <3>5. CASE ~(m.next + m.v > Len(src) \/ Len(o) + m.v > cap)
      <4>1. ~ \A x \in WholeLength(src, nib, j + 1) : x.next + x.v > Len(src) \/ Len(o) + x.v > cap
        BY <3>5
      <4>. QED BY <2>2, <3>3, <3>5, <4>1, Zenon
    <3>. QED BY <3>4, <3>5, Zenon
  <2>. QED BY <2>1, <2>3, <2>4 DEF r, nib
<1>. QED BY <1>2, <1>3

LEMMA SequenceFollows ==
    ASSUME NEW src \in ByteStrings, NEW cap \in Nat, NEW j \in 0 .. Len(src), NEW o \in Seq(Int)
    PROVE  Follows(src, j, o, OneSequence(src, cap, j, o))
<1>. PICK r : r = OneSequence(src, cap, j, o)
  OBVIOUS
<1>1. Len(src) \in Nat /\ src \in Seq(Int)
  BY BytesOf
<1>2. CASE j = Len(src) \/ WholeLength(src, Literal(src, j), j + 1) = {}
  <2>1. j = Len(src) \/ j < Len(src)
    BY <1>1
  <2>2. r = Bad(o)
    BY <1>2, <2>1, OneSequenceIs, Zenon
  <2>. QED BY <2>2, BadFollows
<1>3. ASSUME j # Len(src), NEW m \in WholeLength(src, Literal(src, j), j + 1)
      PROVE  Follows(src, j, o, r)
  <2>1. j < Len(src)
    BY <1>1, <1>3
  <2>2. CASE m.next + m.v > Len(src) \/ Len(o) + m.v > cap
    <3>1. r = Bad(o)
      BY <2>1, <2>2, OneSequenceIs, Zenon
    <3>. QED BY <3>1, BadFollows
  <2>3. CASE ~(m.next + m.v > Len(src) \/ Len(o) + m.v > cap)
    <3>. DEFINE t == o \o LiteralsOf(src, m)
    <3>1. r = AfterLiterals(src, cap, Matched(src, j), m.next + m.v, t)
      BY <2>1, <2>3, OneSequenceIs, Zenon
    <3>2. Literal(src, j) \in Nat /\ Matched(src, j) \in Nat
      BY <2>1, OneSequenceIs
    <3>3. m.v \in Nat /\ m.next \in j + 1 .. Len(src)
      <4>1. j + 1 \in 0 .. Len(src)
        BY <1>1, <2>1
      <4>. QED BY <3>2, <4>1, WholeLengthIs
    <3>4. m.next + m.v \in 0 .. Len(src) /\ m.next + m.v > j /\ m.next \in Nat /\ m.next + m.v <= Len(src)
      BY <1>1, <2>3, <3>3, SMTT(120)
    <3>5. LiteralsOf(src, m) \in Seq(Int)
      BY <1>1, <3>3, <3>4, PartIs DEF LiteralsOf
    <3>6. Begins(o, t) /\ t \in Seq(Int)
      BY <3>5, BeginsItself
    <3>. HIDE DEF t
    <3>7. Follows(src, m.next + m.v, t, r)
      BY <3>1, <3>2, <3>4, <3>6, AfterFollows
    <3>8. Begins(o, r.o)
      <4>1. r.o \in Seq(Int) /\ Begins(t, r.o)
        BY <3>7 DEF Follows, Stages
      <4>. QED BY <3>6, <4>1, BeginsOn
    <3>9. r.n = -2 => r.i > j
      <4>1. r.i \in 0 .. Len(src) /\ (r.n = -2 => r.i > m.next + m.v)
        BY <3>7 DEF Follows, Stages
      <4>. QED BY <1>1, <3>4, <4>1
    <3>. QED BY <3>7, <3>8, <3>9 DEF Follows
  <2>. QED BY <2>2, <2>3
<1>. QED BY <1>2, <1>3

\* g[m] is what the first m sequences of a block mean.
Goes(src, cap, r) == IF r.n # -2 THEN r ELSE OneSequence(src, cap, r.i, r.o)

Means(g, src, cap) ==
    /\ g \in [0 .. Len(src) + 1 -> Stages(src)]
    /\ g[0] = [i |-> 0, o |-> <<>>, n |-> -2]
    /\ \A m \in 1 .. Len(src) + 1 : g[m] = Goes(src, cap, g[m - 1])

LEMMA GoesStays ==
    ASSUME NEW src \in ByteStrings, NEW cap \in Nat, NEW r \in Stages(src)
    PROVE  Goes(src, cap, r) \in Stages(src) /\ Begins(r.o, Goes(src, cap, r).o)
<1>1. r.i \in 0 .. Len(src) /\ r.o \in Seq(Int)
  BY DEF Stages
<1>2. CASE r.n # -2
  BY <1>1, <1>2, BeginsItself DEF Goes
<1>3. CASE r.n = -2
  BY <1>1, <1>3, SequenceFollows DEF Goes, Follows
<1>. QED BY <1>2, <1>3

LEMMA MeaningIs ==
    ASSUME NEW src \in ByteStrings, NEW cap \in Nat
    PROVE  \E g : Means(g, src, cap) /\ Meaning(src, cap) = g[Len(src) + 1]
<1>. DEFINE n == Len(src) + 1
            first == [i |-> 0, o |-> <<>>, n |-> -2]
            V == Stages(src)
            go == [q \in (1 .. n) \X V |-> Goes(src, cap, q[2])]
            Next2(f, k) == IF k = 0 THEN first ELSE Goes(src, cap, f[k - 1])
            Is(f) == f = [k \in 0 .. n |-> Next2(f, k)]
<1>1. n \in Nat
  BY BytesOf
<1>2. first \in V
  BY <1>1 DEF Stages
<1>3. \A k \in 1 .. n, r \in V : go[<<k, r>>] = Goes(src, cap, r)
  OBVIOUS
<1>4. \A r \in V : Goes(src, cap, r) \in V
  BY GoesStays
<1>. HIDE DEF go, V, first, n
<1>5. StaysIn(go, V, n)
  BY <1>3, <1>4 DEF StaysIn
<1>6. PICK g : Unfolds(g, V, n, first, go)
  BY <1>1, <1>2, <1>5, RecursionExists
<1>7. g \in [0 .. n -> V] /\ g[0] = first /\ \A k \in 1 .. n : g[k] = Goes(src, cap, g[k - 1])
  <2>1. g \in [0 .. n -> V] /\ g[0] = first /\ \A k \in 1 .. n : g[k] = go[<<k, g[k - 1]>>]
    BY <1>6 DEF Unfolds
  <2>2. \A k \in 1 .. n : k - 1 \in 0 .. n
    BY <1>1
  <2>. QED BY <1>3, <2>1, <2>2
<1>8. Is(g)
  <2>1. \A k \in 0 .. n : g[k] = Next2(g, k)
    <3>1. \A k \in 0 .. n : k = 0 \/ k \in 1 .. n
      BY <1>1
    <3>. QED BY <1>7, <3>1
  <2>. HIDE DEF Next2
  <2>. QED BY <1>7, <2>1
<1>. DEFINE u == CHOOSE f : Is(f)
<1>9. Meaning(src, cap) = u[n]
  BY DEF Meaning, n, first, Goes
<1>. HIDE DEF Is
<1>10. Is(u)
  BY <1>8
<1>. HIDE DEF u
<1>11. u = [k \in 0 .. n |-> Next2(u, k)]
  BY <1>10 DEF Is
<1>12. u[0] = first /\ \A k \in 1 .. n : u[k] = Goes(src, cap, u[k - 1])
  <2>1. 0 \in 0 .. n /\ \A k \in 1 .. n : k \in 0 .. n /\ k # 0
    BY <1>1
  <2>. QED BY <1>11, <2>1
<1>13. \A k \in 0 .. n : u[k] \in V
  <2>. DEFINE S == {k \in Nat : k <= n => u[k] \in V}
  <2>1. 0 \in S
    BY <1>2, <1>12
  <2>2. \A k \in Nat : k \in S => k + 1 \in S
    <3>. SUFFICES ASSUME NEW k \in Nat, k \in S, k + 1 <= n PROVE u[k + 1] \in V
      OBVIOUS
    <3>1. u[k] \in V /\ k + 1 \in 1 .. n /\ (k + 1) - 1 = k
      BY <1>1
    <3>. QED BY <1>4, <1>12, <3>1
  <2>. HIDE DEF S
  <2>3. \A k \in Nat : k \in S
    BY <2>1, <2>2, SetInduction
  <2>. QED BY <2>3 DEF S
<1>14. u \in [0 .. n -> V]
  <2>. HIDE DEF Next2
  <2>. QED BY <1>11, <1>13
<1>. QED BY <1>9, <1>12, <1>14 DEF Means, n, V, first

\* r is what some of the first sequences of a block mean.
OnTheWay(src, cap, r) ==
    \E g, m : /\ Means(g, src, cap) /\ Meaning(src, cap) = g[Len(src) + 1]
              /\ m \in 0 .. Len(src) + 1 /\ g[m] = r

\* Where a sequence begins.
AtSequence(src, cap, j, o) == OnTheWay(src, cap, [i |-> j, o |-> o, n |-> -2])

LEMMA WayBegins ==
    ASSUME NEW src \in ByteStrings, NEW cap \in Nat, NEW r, OnTheWay(src, cap, r)
    PROVE  /\ r \in Stages(src) /\ Begins(r.o, Meaning(src, cap).o)
           /\ r.n # -2 => Meaning(src, cap) = r
<1>1. PICK g, m : /\ Means(g, src, cap) /\ Meaning(src, cap) = g[Len(src) + 1]
                  /\ m \in 0 .. Len(src) + 1 /\ g[m] = r
  BY DEF OnTheWay
<1>. DEFINE n == Len(src) + 1
<1>2. n \in Nat
  BY BytesOf
<1>3. /\ g \in [0 .. n -> Stages(src)] /\ \A k \in 1 .. n : g[k] = Goes(src, cap, g[k - 1])
      /\ m \in 0 .. n /\ Meaning(src, cap) = g[n]
  BY <1>1 DEF Means
<1>. HIDE DEF n
<1>4. r \in Stages(src) /\ r.o \in Seq(Int)
  BY <1>1, <1>3 DEF Stages
<1>. DEFINE S == {d \in Nat : m + d <= n => Begins(r.o, g[m + d].o) /\ (r.n # -2 => g[m + d] = r)}
<1>5. 0 \in S
  <2>1. m + 0 = m
    BY <1>2, <1>3
  <2>. QED BY <1>1, <1>4, <2>1, BeginsItself
<1>6. \A d \in Nat : d \in S => d + 1 \in S
  <2>. SUFFICES ASSUME NEW d \in Nat, d \in S, m + (d + 1) <= n
                PROVE  Begins(r.o, g[m + (d + 1)].o) /\ (r.n # -2 => g[m + (d + 1)] = r)
    OBVIOUS
  <2>1. Begins(r.o, g[m + d].o) /\ (r.n # -2 => g[m + d] = r)
    BY <1>2, <1>3
  <2>2. m + (d + 1) \in 1 .. n /\ (m + (d + 1)) - 1 = m + d /\ m + d \in 0 .. n
    BY <1>2, <1>3
  <2>3. g[m + (d + 1)] = Goes(src, cap, g[m + d]) /\ g[m + d] \in Stages(src) /\ g[m + (d + 1)] \in Stages(src)
    <3>1. m + (d + 1) \in 0 .. n
      BY <1>2, <2>2
    <3>. QED BY <1>3, <2>2, <3>1
  <2>4. Begins(g[m + d].o, g[m + (d + 1)].o)
    BY <2>3, GoesStays
  <2>5. g[m + d].o \in Seq(Int) /\ g[m + (d + 1)].o \in Seq(Int)
    BY <2>3 DEF Stages
  <2>6. Begins(r.o, g[m + (d + 1)].o)
    BY <1>4, <2>1, <2>4, <2>5, BeginsOn
  <2>7. ASSUME r.n # -2 PROVE g[m + (d + 1)] = r
    BY <2>1, <2>3, <2>7 DEF Goes
  <2>. QED BY <2>6, <2>7
<1>. HIDE DEF S
<1>7. n - m \in S /\ m + (n - m) = n /\ n <= n
  <2>1. n - m \in Nat /\ m + (n - m) = n /\ n <= n
    BY <1>2, <1>3
  <2>. QED BY <1>5, <1>6, <2>1, SetInduction
<1>8. Begins(r.o, g[n].o) /\ (r.n # -2 => g[n] = r)
  BY <1>7 DEF S
<1>. QED BY <1>3, <1>4, <1>8

LEMMA WayStarts ==
    ASSUME NEW src \in ByteStrings, NEW cap \in Nat
    PROVE  AtSequence(src, cap, 0, <<>>)
<1>1. PICK g : Means(g, src, cap) /\ Meaning(src, cap) = g[Len(src) + 1]
  BY MeaningIs
<1>2. g[0] = [i |-> 0, o |-> <<>>, n |-> -2]
  BY <1>1 DEF Means
<1>3. 0 \in 0 .. Len(src) + 1
  BY BytesOf
<1>. QED BY <1>1, <1>2, <1>3 DEF AtSequence, OnTheWay

\* Every sequence reads a byte, so the walk ends before its steps do.
LEMMA WayGoesOn ==
    ASSUME NEW src \in ByteStrings, NEW cap \in Nat, NEW j, NEW o, AtSequence(src, cap, j, o)
    PROVE  /\ j \in 0 .. Len(src) /\ o \in Seq(Int)
           /\ OnTheWay(src, cap, OneSequence(src, cap, j, o))
<1>1. PICK g, m : /\ Means(g, src, cap) /\ Meaning(src, cap) = g[Len(src) + 1]
                  /\ m \in 0 .. Len(src) + 1 /\ g[m] = [i |-> j, o |-> o, n |-> -2]
  BY DEF AtSequence, OnTheWay
<1>2. Len(src) \in Nat
  BY BytesOf
<1>3. /\ g \in [0 .. Len(src) + 1 -> Stages(src)]
      /\ \A k \in 1 .. Len(src) + 1 : g[k] = Goes(src, cap, g[k - 1])
  BY <1>1 DEF Means
<1>4. j \in 0 .. Len(src) /\ o \in Seq(Int)
  <2>1. [i |-> j, o |-> o, n |-> -2] \in Stages(src)
    BY <1>1, <1>3
  <2>2. PICK x \in 0 .. Len(src), y \in Seq(Int), z \in Int : [i |-> j, o |-> o, n |-> -2] = [i |-> x, o |-> y, n |-> z]
    BY <2>1 DEF Stages
  <2>. QED BY <2>2
<1>. DEFINE S == {k \in Nat : k <= Len(src) + 1 /\ g[k].n = -2 => g[k].i >= k}
<1>5. 0 \in S
  <2>1. g[0].i \in 0 .. Len(src)
    BY <1>2, <1>3 DEF Stages
  <2>. QED BY <2>1
<1>6. \A k \in Nat : k \in S => k + 1 \in S
  <2>. SUFFICES ASSUME NEW k \in Nat, k \in S, k + 1 <= Len(src) + 1, g[k + 1].n = -2
                PROVE  g[k + 1].i >= k + 1
    OBVIOUS
  <2>1. k + 1 \in 1 .. Len(src) + 1 /\ (k + 1) - 1 = k /\ k \in 0 .. Len(src) + 1 /\ k <= Len(src) + 1
        /\ k + 1 \in 0 .. Len(src) + 1
    BY <1>2
  <2>2. g[k + 1] = Goes(src, cap, g[k]) /\ g[k] \in Stages(src) /\ g[k + 1] \in Stages(src)
    BY <1>3, <2>1
  <2>3. g[k].n = -2
    BY <2>2 DEF Goes
  <2>4. g[k].i >= k
    BY <2>1, <2>3
  <2>5. g[k].i \in 0 .. Len(src) /\ g[k].o \in Seq(Int) /\ g[k + 1].i \in 0 .. Len(src)
    BY <2>2 DEF Stages
  <2>6. Follows(src, g[k].i, g[k].o, g[k + 1])
    BY <2>2, <2>3, <2>5, SequenceFollows DEF Goes
  <2>7. g[k + 1].i > g[k].i
    BY <2>6 DEF Follows
  <2>. QED BY <1>2, <2>4, <2>5, <2>7
<1>. HIDE DEF S
<1>7. m \in S
  BY <1>1, <1>2, <1>5, <1>6, SetInduction
<1>8. j >= m
  BY <1>1, <1>2, <1>7 DEF S
<1>9. m + 1 \in 1 .. Len(src) + 1 /\ m + 1 \in 0 .. Len(src) + 1 /\ (m + 1) - 1 = m
  BY <1>1, <1>2, <1>4, <1>8
<1>10. g[m + 1] = OneSequence(src, cap, j, o)
  <2>1. g[m + 1] = Goes(src, cap, g[m])
    BY <1>3, <1>9
  <2>. QED BY <1>1, <2>1 DEF Goes
<1>. QED BY <1>1, <1>4, <1>9, <1>10 DEF OnTheWay

-----------------------------------------------------------------------------
(* The invariant of block decoding.                                        *)

BlockStates ==
    [pc : {"token", "literalLength", "literals", "copyLiterals", "offset", "matchLength", "match", "copyMatch",
           "returned"},
     i : Nat, lit : Nat, match : Nat, offset : Nat, k : Nat]

BlockOut == [dst : Seq(Int), n : Int]

\* The token at j is read, and nothing of its sequence written.
TokenRead(j) ==
    /\ AtSequence(call.src, call.dcap, j, out.dst) /\ j < Len(call.src)
    /\ st.match = Matched(call.src, j) + MinMatch

InLiteralLength ==
    \E j \in Nat : /\ TokenRead(j) /\ Literal(call.src, j) = Nibble - 1
                   /\ LengthInPart(call.src, j + 1, st.i, st.lit)

InLiterals ==
    \E j \in Nat : /\ TokenRead(j)
                   /\ [v |-> st.lit, next |-> st.i] \in WholeLength(call.src, Literal(call.src, j), j + 1)

\* The first w of the literals are behind o.
WithLiterals(o, w) == o \o SubSeq(call.src, st.i + 1, st.i + w)

InCopyLiterals ==
    /\ st.i + st.lit <= Len(call.src) /\ st.k <= st.lit
    /\ \E o \in Seq(Int), nib \in Nat :
         /\ OnTheWay(call.src, call.dcap,
                     AfterLiterals(call.src, call.dcap, nib, st.i + st.lit, WithLiterals(o, st.lit)))
         /\ st.match = nib + MinMatch /\ out.dst = WithLiterals(o, st.k)

\* What is written is a sequence up to the end of its literals, at p.
LiteralsBehind(nib, p) == OnTheWay(call.src, call.dcap, AfterLiterals(call.src, call.dcap, nib, p, out.dst))

InOffset ==
    /\ st.i < Len(call.src)
    /\ \E nib \in Nat : LiteralsBehind(nib, st.i) /\ st.match = nib + MinMatch

OffsetRead(nib, p) ==
    /\ LiteralsBehind(nib, p) /\ p + 2 <= Len(call.src)
    /\ st.offset = call.src[p + 1] + Byte * call.src[p + 2] /\ st.offset \in 1 .. Len(out.dst)

InMatchLength ==
    \E p \in Nat : OffsetRead(Nibble - 1, p) /\ LengthInPart(call.src, p + 2, st.i, st.match - MinMatch)

InMatch ==
    \E nib \in Nat, p \in Nat :
        /\ OffsetRead(nib, p)
        /\ [v |-> st.match - MinMatch, next |-> st.i] \in WholeLength(call.src, nib, p + 2)

\* The first w bytes of the match are behind o.
WithMatch(o, w) == o \o CopyOf(o, st.offset, w)

InCopyMatch ==
    /\ st.k <= st.match
    /\ \E o \in Seq(Int) : /\ st.offset \in 1 .. Len(o)
                           /\ AtSequence(call.src, call.dcap, st.i, WithMatch(o, st.match))
                           /\ out.dst = WithMatch(o, st.k)

BlockEnded ==
    /\ out.n # -2
    /\ \E j \in Nat : OnTheWay(call.src, call.dcap, [i |-> j, o |-> out.dst, n |-> out.n])

BlockParts ==
    /\ call.src \in ByteStrings /\ call.dcap \in Nat /\ st \in BlockStates /\ out \in BlockOut
    /\ st.pc = "token" => AtSequence(call.src, call.dcap, st.i, out.dst)
    /\ st.pc = "literalLength" => InLiteralLength
    /\ st.pc = "literals" => InLiterals
    /\ st.pc = "copyLiterals" => InCopyLiterals
    /\ st.pc = "offset" => InOffset
    /\ st.pc = "matchLength" => InMatchLength
    /\ st.pc = "match" => InMatch
    /\ st.pc = "copyMatch" => InCopyMatch
    /\ st.pc = "returned" => BlockEnded

BlockIndInv == call.op = "lz4" => BlockParts

LEMMA BlockTypes ==
    ASSUME BlockParts
    PROVE  /\ call.src \in ByteStrings /\ call.src \in Seq(Int) /\ Len(call.src) \in Nat /\ call.dcap \in Nat
           /\ \A x \in 1 .. Len(call.src) : call.src[x] \in Nat /\ call.src[x] < Byte
           /\ st.i \in Nat /\ st.lit \in Nat /\ st.match \in Nat /\ st.offset \in Nat /\ st.k \in Nat
           /\ out.dst \in Seq(Int) /\ Len(out.dst) \in Nat /\ out.n \in Int
           /\ Nibble \in Nat /\ MinMatch \in Nat /\ Lane \in Nat /\ Lane >= 1
<1>1. call.src \in ByteStrings /\ call.dcap \in Nat /\ st \in BlockStates /\ out \in BlockOut
  BY DEF BlockParts
<1>2. out.dst \in Seq(Int) /\ out.n \in Int
  BY <1>1 DEF BlockOut
<1>3. st.i \in Nat /\ st.lit \in Nat /\ st.match \in Nat /\ st.offset \in Nat /\ st.k \in Nat
  BY <1>1 DEF BlockStates
<1>. QED BY <1>1, <1>2, <1>3, BytesOf, BlockAssumption

LEMMA BlockIndInvInit == ASSUME BlockInit PROVE BlockIndInv
<1>1. /\ call.src \in Blocks /\ call.dcap \in Rooms
      /\ st = [pc |-> "token", i |-> 0, lit |-> 0, match |-> 0, offset |-> 0, k |-> 0]
      /\ out = [dst |-> <<>>, n |-> 0]
  BY DEF BlockInit
<1>2. call.src \in ByteStrings /\ call.dcap \in Nat
  BY <1>1, BlockAssumption DEF ByteStrings
<1>3. AtSequence(call.src, call.dcap, 0, <<>>)
  BY <1>2, WayStarts
<1>4. st \in BlockStates
  BY <1>1 DEF BlockStates
<1>5. out \in BlockOut
  BY <1>1 DEF BlockOut
<1>. QED BY <1>1, <1>2, <1>3, <1>4, <1>5 DEF BlockIndInv, BlockParts

LEMMA ReadTokenInv == ASSUME BlockIndInv, ReadToken PROVE BlockIndInv'
<1>1. call.op = "lz4" /\ st.pc = "token" /\ Len(call.src) - st.i > 0 /\ call' = call /\ out' = out
  BY DEF ReadToken, In2, Sound, Unread
<1>2. BlockParts
  BY <1>1 DEF BlockIndInv
<1>3. PICK t : t = call.src[st.i + 1]
  OBVIOUS
<1>4. st' = [st EXCEPT !.pc = IF t \div Nibble = Nibble - 1 THEN "literalLength" ELSE "literals",
                       !.i = st.i + 1, !.lit = t \div Nibble, !.match = (t % Nibble) + MinMatch]
  BY <1>3 DEF ReadToken, At
<1>5. AtSequence(call.src, call.dcap, st.i, out.dst) /\ st \in BlockStates
  BY <1>1, <1>2 DEF BlockParts
<1>6. PICK j \in Nat : j = st.i /\ j < Len(call.src) /\ j + 1 \in 0 .. Len(call.src) /\ j \in 0 .. Len(call.src)
  <2>1. st.i \in Nat /\ Len(call.src) \in Nat
    BY <1>2, BlockTypes
  <2>. QED BY <1>1, <2>1
<1>7. /\ t \div Nibble = Literal(call.src, j) /\ Literal(call.src, j) \in Nat
      /\ t % Nibble = Matched(call.src, j) /\ Matched(call.src, j) \in Nat
  <2>1. Literal(call.src, j) \in Nat /\ Matched(call.src, j) \in Nat
    <3>1. call.src \in ByteStrings /\ call.dcap \in Nat /\ <<>> \in Seq(Int)
      BY <1>2, BlockTypes
    <3>. QED BY <1>6, <3>1, OneSequenceIs
  <2>. QED BY <1>3, <1>6, <2>1 DEF Literal, Matched
<1>8. PICK lit \in Nat, mat \in Nat : lit = Literal(call.src, j) /\ mat = Matched(call.src, j)
  BY <1>7
<1>9. /\ st'.pc = (IF lit = Nibble - 1 THEN "literalLength" ELSE "literals") /\ st'.i = j + 1
      /\ st'.lit = lit /\ st'.match = mat + MinMatch /\ st' \in BlockStates
  <2>1. st' = [st EXCEPT !.pc = IF lit = Nibble - 1 THEN "literalLength" ELSE "literals",
                         !.i = j + 1, !.lit = lit, !.match = mat + MinMatch]
    BY <1>4, <1>6, <1>7, <1>8
  <2>2. mat + MinMatch \in Nat /\ j + 1 \in Nat
    BY BlockAssumption
  <2>. QED BY <1>5, <2>1, <2>2 DEF BlockStates
<1>10. TokenRead(j)'
  <2>1. AtSequence(call'.src, call'.dcap, j, out'.dst) /\ j < Len(call'.src)
        /\ st'.match = Matched(call'.src, j) + MinMatch
    BY <1>1, <1>5, <1>6, <1>8, <1>9
  <2>. QED BY <2>1 DEF TokenRead
<1>11. CASE lit = Nibble - 1
  <2>1. LengthInPart(call'.src, j + 1, st'.i, st'.lit)
    <3>1. LengthInPart(call.src, j + 1, j + 1, lit)
      BY <1>2, <1>6, <1>11, BlockTypes, LengthStarts
    <3>. QED BY <1>1, <1>9, <3>1
  <2>2. InLiteralLength'
    BY <1>1, <1>8, <1>10, <1>11, <2>1 DEF InLiteralLength
  <2>. QED BY <1>1, <1>2, <1>9, <1>11, <2>2 DEF BlockIndInv, BlockParts
<1>12. CASE lit # Nibble - 1
  <2>1. [v |-> st'.lit, next |-> st'.i] \in WholeLength(call'.src, Literal(call'.src, j), j + 1)
    <3>1. [v |-> lit, next |-> j + 1] \in WholeLength(call.src, lit, j + 1)
      BY <1>2, <1>6, <1>12, BlockTypes, LengthStarts
    <3>. QED BY <1>1, <1>8, <1>9, <3>1
  <2>2. InLiterals'
    BY <1>10, <2>1 DEF InLiterals
  <2>. QED BY <1>1, <1>2, <1>9, <1>12, <2>2 DEF BlockIndInv, BlockParts
<1>. QED BY <1>11, <1>12

LEMMA LengthByteInv == ASSUME BlockIndInv, LengthByte PROVE BlockIndInv'
<1>1. /\ call.op = "lz4" /\ st.pc \in {"literalLength", "matchLength"} /\ Len(call.src) - st.i > 0
      /\ call' = call /\ out' = out
  BY DEF LengthByte, In2, Sound, Unread
<1>2. BlockParts
  BY <1>1 DEF BlockIndInv
<1>3. /\ st.i \in Nat /\ st.lit \in Nat /\ st.match \in Nat /\ Len(call.src) \in Nat /\ call.src \in ByteStrings
      /\ MinMatch \in Nat /\ st \in BlockStates
  BY <1>2, BlockTypes DEF BlockParts
<1>4. PICK x \in Nat, b \in Nat : x = st.i /\ b = call.src[x + 1] /\ x < Len(call.src)
  <2>1. st.i + 1 \in 1 .. Len(call.src) /\ st.i < Len(call.src)
    BY <1>1, <1>3
  <2>2. call.src[st.i + 1] \in Nat
    BY <1>2, <2>1, BlockTypes
  <2>. QED BY <1>3, <2>1, <2>2
<1>5. CASE st.pc = "literalLength"
  <2>0. PICK l \in Nat : l = st.lit + b
    BY <1>3
  <2>1. st' = [st EXCEPT !.i = x + 1, !.lit = l, !.pc = IF b = Byte - 1 THEN "literalLength" ELSE "literals"]
    BY <1>4, <1>5, <2>0 DEF LengthByte, At
  <2>2. /\ st'.pc = (IF b = Byte - 1 THEN "literalLength" ELSE "literals") /\ st'.i = x + 1
        /\ st'.lit = st.lit + b /\ st'.match = st.match /\ st' \in BlockStates
    <3>1. PICK c \in {"literalLength", "literals"} : c = IF b = Byte - 1 THEN "literalLength" ELSE "literals"
      OBVIOUS
    <3>2. st' = [st EXCEPT !.i = x + 1, !.lit = l, !.pc = c] /\ x + 1 \in Nat
      BY <2>1, <3>1
    <3>3. st'.pc = c /\ st'.i = x + 1 /\ st'.lit = l /\ st'.match = st.match /\ st' \in BlockStates
      BY <1>3, <3>2 DEF BlockStates
    <3>. QED BY <2>0, <3>1, <3>3
  <2>3. PICK j \in Nat : /\ TokenRead(j) /\ Literal(call.src, j) = Nibble - 1
                         /\ LengthInPart(call.src, j + 1, x, st.lit)
    BY <1>2, <1>4, <1>5 DEF BlockParts, InLiteralLength
  <2>4. TokenRead(j)'
    BY <1>1, <2>2, <2>3 DEF TokenRead
  <2>5. /\ b = Byte - 1 => LengthInPart(call.src, j + 1, x + 1, st.lit + b)
        /\ b # Byte - 1 => [v |-> st.lit + b, next |-> x + 1] \in WholeLength(call.src, Nibble - 1, j + 1)
    BY <1>3, <1>4, <2>3, LengthGoesOn
  <2>6. CASE b = Byte - 1
    <3>1. InLiteralLength'
      BY <1>1, <2>2, <2>3, <2>4, <2>5, <2>6 DEF InLiteralLength
    <3>. QED BY <1>1, <1>2, <2>2, <2>6, <3>1 DEF BlockIndInv, BlockParts
  <2>7. CASE b # Byte - 1
    <3>1. InLiterals'
      BY <1>1, <2>2, <2>3, <2>4, <2>5, <2>7 DEF InLiterals
    <3>. QED BY <1>1, <1>2, <2>2, <2>7, <3>1 DEF BlockIndInv, BlockParts
  <2>. QED BY <2>6, <2>7
<1>6. CASE st.pc = "matchLength"
  <2>0. PICK l \in Nat : l = st.match + b
    BY <1>3
  <2>1. st' = [st EXCEPT !.i = x + 1, !.match = l, !.pc = IF b = Byte - 1 THEN "matchLength" ELSE "match"]
    BY <1>4, <1>6, <2>0 DEF LengthByte, At
  <2>2. /\ st'.pc = (IF b = Byte - 1 THEN "matchLength" ELSE "match") /\ st'.i = x + 1
        /\ st'.match - MinMatch = (st.match - MinMatch) + b /\ st'.offset = st.offset /\ st' \in BlockStates
    <3>1. l - MinMatch = (st.match - MinMatch) + b
      BY <1>3, <2>0
    <3>2. /\ st'.pc = (IF b = Byte - 1 THEN "matchLength" ELSE "match") /\ st'.i = x + 1
          /\ st'.match = l /\ st'.offset = st.offset /\ st' \in BlockStates
      <4>1. PICK c \in {"matchLength", "match"} : c = IF b = Byte - 1 THEN "matchLength" ELSE "match"
        OBVIOUS
      <4>2. st' = [st EXCEPT !.i = x + 1, !.match = l, !.pc = c] /\ x + 1 \in Nat
        BY <2>1, <4>1
      <4>3. st'.pc = c /\ st'.i = x + 1 /\ st'.match = l /\ st'.offset = st.offset /\ st' \in BlockStates
        BY <1>3, <4>2 DEF BlockStates
      <4>. QED BY <4>1, <4>3
    <3>. QED BY <3>1, <3>2
  <2>3. PICK p \in Nat : OffsetRead(Nibble - 1, p) /\ LengthInPart(call.src, p + 2, x, st.match - MinMatch)
    BY <1>2, <1>4, <1>6 DEF BlockParts, InMatchLength
  <2>4. OffsetRead(Nibble - 1, p)'
    BY <1>1, <2>2, <2>3 DEF OffsetRead, LiteralsBehind
  <2>5. /\ b = Byte - 1 => LengthInPart(call.src, p + 2, x + 1, st'.match - MinMatch)
        /\ b # Byte - 1 => [v |-> st'.match - MinMatch, next |-> x + 1] \in WholeLength(call.src, Nibble - 1, p + 2)
    <3>1. p + 2 \in Nat
      OBVIOUS
    <3>2. /\ b = Byte - 1 => LengthInPart(call.src, p + 2, x + 1, (st.match - MinMatch) + b)
          /\ b # Byte - 1 => [v |-> (st.match - MinMatch) + b, next |-> x + 1] \in WholeLength(call.src, Nibble - 1, p + 2)
      BY <1>3, <1>4, <2>3, <3>1, LengthGoesOn
    <3>. QED BY <2>2, <3>2
  <2>6. CASE b = Byte - 1
    <3>1. InMatchLength'
      BY <1>1, <2>2, <2>4, <2>5, <2>6 DEF InMatchLength
    <3>. QED BY <1>1, <1>2, <2>2, <2>6, <3>1 DEF BlockIndInv, BlockParts
  <2>7. CASE b # Byte - 1
    <3>1. Nibble - 1 \in Nat
      BY BlockAssumption
    <3>2. InMatch'
      BY <1>1, <2>2, <2>4, <2>5, <2>7, <3>1 DEF InMatch
    <3>. QED BY <1>1, <1>2, <2>2, <2>7, <3>2 DEF BlockIndInv, BlockParts
  <2>. QED BY <2>6, <2>7
<1>. QED BY <1>1, <1>5, <1>6

\* A length that is whole, and what it says of where its part of the sequence ends.
LEMMA LiteralsRead ==
    ASSUME BlockParts, NEW j \in Nat, TokenRead(j),
           [v |-> st.lit, next |-> st.i] \in WholeLength(call.src, Literal(call.src, j), j + 1)
    PROVE  LET r == OneSequence(call.src, call.dcap, j, out.dst)
           IN /\ OnTheWay(call.src, call.dcap, r) /\ j \in 0 .. Len(call.src) /\ Matched(call.src, j) \in Nat
              /\ IF st.i + st.lit > Len(call.src) \/ Len(out.dst) + st.lit > call.dcap THEN r = Bad(out.dst)
                 ELSE r = AfterLiterals(call.src, call.dcap, Matched(call.src, j), st.i + st.lit, WithLiterals(out.dst, st.lit))
<1>1. call.src \in ByteStrings /\ call.dcap \in Nat
  BY DEF BlockParts
<1>2. PICK src \in ByteStrings, cap \in Nat : src = call.src /\ cap = call.dcap
  BY <1>1
<1>3. PICK o, m : o = out.dst /\ m = [v |-> st.lit, next |-> st.i]
  OBVIOUS
<1>4. AtSequence(src, cap, j, o) /\ j < Len(src) /\ m \in WholeLength(src, Literal(src, j), j + 1)
  BY <1>2, <1>3 DEF TokenRead
<1>5. j \in 0 .. Len(src) /\ o \in Seq(Int) /\ OnTheWay(src, cap, OneSequence(src, cap, j, o))
  BY <1>4, WayGoesOn
<1>6. /\ Matched(src, j) \in Nat
      /\ IF m.next + m.v > Len(src) \/ Len(o) + m.v > cap THEN OneSequence(src, cap, j, o) = Bad(o)
         ELSE OneSequence(src, cap, j, o)
              = AfterLiterals(src, cap, Matched(src, j), m.next + m.v, o \o LiteralsOf(src, m))
  BY <1>4, <1>5, OneSequenceIs
<1>7. m.v = st.lit /\ m.next = st.i
  BY <1>3
<1>8. o \o LiteralsOf(src, m) = WithLiterals(o, st.lit)
  BY <1>2, <1>7 DEF LiteralsOf, WithLiterals
<1>. QED BY <1>2, <1>3, <1>5, <1>6, <1>7, <1>8, Zenon

LEMMA MatchRead ==
    ASSUME BlockParts, NEW nib \in Nat, NEW p \in Nat, OffsetRead(nib, p),
           [v |-> st.match - MinMatch, next |-> st.i] \in WholeLength(call.src, nib, p + 2)
    PROVE  LET r == AfterLiterals(call.src, call.dcap, nib, p, out.dst)
           IN /\ OnTheWay(call.src, call.dcap, r) /\ st.offset \in 1 .. Len(out.dst)
              /\ IF Len(out.dst) + st.match > call.dcap THEN r = Bad(out.dst)
                 ELSE r = [i |-> st.i, o |-> WithMatch(out.dst, st.match), n |-> -2]
<1>1. /\ call.src \in ByteStrings /\ call.dcap \in Nat /\ out.dst \in Seq(Int) /\ Len(call.src) \in Nat
      /\ st.match \in Nat /\ MinMatch \in Nat /\ Len(out.dst) \in Nat
  BY BlockTypes
<1>2. PICK src \in ByteStrings, cap \in Nat, o \in Seq(Int) : src = call.src /\ cap = call.dcap /\ o = out.dst
  BY <1>1
<1>3. PICK m : m = [v |-> st.match - MinMatch, next |-> st.i]
  OBVIOUS
<1>4. /\ OnTheWay(src, cap, AfterLiterals(src, cap, nib, p, o)) /\ p + 2 <= Len(src)
      /\ st.offset = src[p + 1] + Byte * src[p + 2] /\ st.offset \in 1 .. Len(o)
      /\ m \in WholeLength(src, nib, p + 2)
  BY <1>2, <1>3 DEF OffsetRead, LiteralsBehind
<1>5. p \in 0 .. Len(src)
  BY <1>1, <1>2, <1>4
<1>6. PICK f \in 1 .. Len(o) : f = st.offset
  BY <1>4
<1>7. IF Len(o) + m.v + MinMatch > cap THEN AfterLiterals(src, cap, nib, p, o) = Bad(o)
      ELSE AfterLiterals(src, cap, nib, p, o)
           = [i |-> m.next, o |-> o \o CopyOf(o, f, m.v + MinMatch), n |-> -2]
  <2>1. IF Len(o) + m.v + MinMatch > cap THEN AfterLiterals(src, cap, nib, p, o) = Bad(o)
        ELSE src[p + 1] + Byte * src[p + 2] \in 1 .. Len(o) =>
             AfterLiterals(src, cap, nib, p, o)
             = [i |-> m.next, o |-> o \o CopyOf(o, src[p + 1] + Byte * src[p + 2], m.v + MinMatch), n |-> -2]
    <3>1. /\ src \in ByteStrings /\ cap \in Nat /\ nib \in Nat /\ p \in 0 .. Len(src) /\ o \in Seq(Int)
          /\ p + 2 <= Len(src) /\ m \in WholeLength(src, nib, p + 2)
      BY <1>4, <1>5
    <3>. QED BY ONLY <3>1, AfterWithLength, ZenonT(120)
  <2>2. src[p + 1] + Byte * src[p + 2] = f
    BY <1>4, <1>6
  <2>. QED BY <1>6, <2>1, <2>2
<1>8. m.v + MinMatch = st.match /\ m.next = st.i /\ Len(o) + m.v + MinMatch = Len(o) + st.match
  BY <1>1, <1>2, <1>3
<1>. QED BY <1>2, <1>4, <1>6, <1>7, <1>8, Zenon DEF WithMatch

\* Where the walk gives up, so does the meaning.
LEMMA MalformedIs ==
    ASSUME BlockParts, ~Sound
    PROVE  OnTheWay(call.src, call.dcap, Bad(out.dst))
<1>1. /\ call.src \in ByteStrings /\ call.dcap \in Nat /\ out.dst \in Seq(Int) /\ Len(out.dst) \in Nat
      /\ Len(call.src) \in Nat /\ st.i \in Nat /\ st.lit \in Nat /\ st.match \in Nat
  BY BlockTypes
<1>2. PICK src \in ByteStrings, cap \in Nat, o \in Seq(Int) : src = call.src /\ cap = call.dcap /\ o = out.dst
  BY <1>1
<1>3. CASE st.pc = "token" /\ ~(Unread > 0)
  <2>1. AtSequence(src, cap, st.i, o)
    BY <1>2, <1>3 DEF BlockParts
  <2>2. OnTheWay(src, cap, OneSequence(src, cap, st.i, o)) /\ st.i \in 0 .. Len(src)
    BY <2>1, WayGoesOn
  <2>3. st.i = Len(src)
    BY <1>1, <1>2, <1>3, <2>2 DEF Unread
  <2>4. OneSequence(src, cap, st.i, o) = Bad(o)
    BY <2>2, <2>3, OneSequenceIs
  <2>. QED BY <1>2, <2>2, <2>4
<1>4. CASE st.pc = "literalLength" /\ ~(Unread > 0)
  <2>1. PICK j \in Nat : TokenRead(j) /\ Literal(src, j) = Nibble - 1 /\ LengthInPart(src, j + 1, st.i, st.lit)
    BY <1>2, <1>4 DEF BlockParts, InLiteralLength
  <2>2. AtSequence(src, cap, j, o) /\ j < Len(src)
    BY <1>2, <2>1 DEF TokenRead
  <2>3. OnTheWay(src, cap, OneSequence(src, cap, j, o)) /\ j \in 0 .. Len(src)
    BY <2>2, WayGoesOn
  <2>4. st.i = Len(src)
    BY <1>1, <1>2, <1>4, <2>1 DEF Unread, LengthInPart
  <2>5. WholeLength(src, Literal(src, j), j + 1) = {}
    <3>1. j + 1 \in Nat
      OBVIOUS
    <3>. QED BY <2>1, <2>4, <3>1, LengthBreaksOff
  <2>6. OneSequence(src, cap, j, o) = Bad(o)
    BY <2>2, <2>3, <2>5, OneSequenceIs
  <2>. QED BY <1>2, <2>3, <2>6
<1>5. CASE st.pc = "matchLength" /\ ~(Unread > 0)
  <2>1. PICK p \in Nat : OffsetRead(Nibble - 1, p) /\ LengthInPart(src, p + 2, st.i, st.match - MinMatch)
    BY <1>2, <1>5 DEF BlockParts, InMatchLength
  <2>2. OnTheWay(src, cap, AfterLiterals(src, cap, Nibble - 1, p, o)) /\ p + 2 <= Len(src)
    BY <1>2, <2>1 DEF OffsetRead, LiteralsBehind
  <2>3. st.i = Len(src)
    BY <1>1, <1>2, <1>5, <2>1 DEF Unread, LengthInPart
  <2>4. WholeLength(src, Nibble - 1, p + 2) = {}
    <3>1. p + 2 \in Nat
      OBVIOUS
    <3>. QED BY <2>1, <2>3, <3>1, LengthBreaksOff
  <2>5. AfterLiterals(src, cap, Nibble - 1, p, o) = Bad(o)
    <3>1. p \in 0 .. Len(src) /\ Nibble - 1 \in Nat
      BY <1>1, <1>2, <2>2, BlockAssumption
    <3>. QED BY <2>2, <2>4, <3>1, AfterLiteralsIs
  <2>. QED BY <1>2, <2>2, <2>5
<1>6. CASE st.pc = "literals" /\ ~(st.lit <= Unread /\ st.lit <= DstFree)
  <2>1. PICK j \in Nat : /\ TokenRead(j)
                         /\ [v |-> st.lit, next |-> st.i] \in WholeLength(call.src, Literal(call.src, j), j + 1)
    BY <1>6 DEF BlockParts, InLiterals
  <2>2. st.i + st.lit > Len(call.src) \/ Len(out.dst) + st.lit > call.dcap
    BY <1>1, <1>6 DEF Unread, DstFree
  <2>. QED BY <2>1, <2>2, LiteralsRead, Zenon
<1>7. CASE st.pc = "offset" /\ ~(Unread >= 2 /\ OffsetAt(st.i) \in 1 .. Len(out.dst))
  <2>1. st.i < Len(src)
    BY <1>2, <1>7 DEF BlockParts, InOffset
  <2>2. PICK nib \in Nat : OnTheWay(src, cap, AfterLiterals(src, cap, nib, st.i, o))
    BY <1>2, <1>7 DEF BlockParts, InOffset, LiteralsBehind
  <2>3. st.i \in 0 .. Len(src)
    BY <1>1, <1>2, <2>1
  <2>4. AfterLiterals(src, cap, nib, st.i, o) = Bad(o)
    <3>1. CASE ~(Unread >= 2)
      <4>1. st.i + 1 = Len(src)
        BY <1>1, <1>2, <2>1, <3>1 DEF Unread
      <4>. QED BY <2>3, <4>1, AfterLiteralsIs
    <3>2. CASE Unread >= 2 /\ OffsetAt(st.i) \notin 1 .. Len(out.dst)
      <4>1. st.i + 2 <= Len(src)
        BY <1>1, <1>2, <3>2 DEF Unread
      <4>2. src[st.i + 1] + Byte * src[st.i + 2] \notin 1 .. Len(o)
        <5>1. st.i + 1 + 1 = st.i + 2
          BY <1>1
        <5>. QED BY <1>2, <3>2, <5>1 DEF OffsetAt, At
      <4>. QED BY <2>3, <4>1, <4>2, AfterLiteralsIs, SMTT(120)
    <3>. QED BY <1>7, <3>1, <3>2
  <2>. QED BY <1>2, <2>2, <2>4
<1>8. CASE st.pc = "match" /\ ~(st.match <= DstFree)
  <2>1. PICK nib \in Nat, p \in Nat :
          /\ OffsetRead(nib, p)
          /\ [v |-> st.match - MinMatch, next |-> st.i] \in WholeLength(call.src, nib, p + 2)
    BY <1>8 DEF BlockParts, InMatch
  <2>2. Len(out.dst) + st.match > call.dcap
    BY <1>1, <1>8 DEF DstFree
  <2>. QED BY <2>1, <2>2, MatchRead, Zenon
<1>. QED BY <1>3, <1>4, <1>5, <1>6, <1>7, <1>8 DEF Sound

LEMMA MalformedInv == ASSUME BlockIndInv, Malformed PROVE BlockIndInv'
<1>1. /\ call.op = "lz4" /\ ~Sound /\ call' = call /\ out' = [out EXCEPT !.n = -1]
      /\ st' = [st EXCEPT !.pc = "returned"]
  BY DEF Malformed, Return
<1>2. BlockParts
  BY <1>1 DEF BlockIndInv
<1>3. st' \in BlockStates /\ st'.pc = "returned"
  BY <1>1, <1>2 DEF BlockParts, BlockStates
<1>4. out' \in BlockOut /\ out'.n = -1 /\ out'.dst = out.dst
  BY <1>1, <1>2 DEF BlockParts, BlockOut
<1>5. OnTheWay(call.src, call.dcap, [i |-> 0, o |-> out.dst, n |-> -1])
  BY <1>1, <1>2, MalformedIs DEF Bad
<1>6. OnTheWay(call'.src, call'.dcap, [i |-> 0, o |-> out'.dst, n |-> out'.n]) /\ out'.n # -2
  BY <1>1, <1>4, <1>5
<1>7. BlockEnded'
  BY <1>6 DEF BlockEnded
<1>. QED BY <1>1, <1>2, <1>3, <1>4, <1>7 DEF BlockIndInv, BlockParts

\* The first bytes of a copy, and those that are put behind them.
LEMMA NoneYet ==
    ASSUME BlockParts, NEW o \in Seq(Int)
    PROVE  WithLiterals(o, 0) = o /\ WithMatch(o, 0) = o
<1>1. SubSeq(call.src, st.i + 1, st.i + 0) = <<>>
  <2>1. st.i + 1 \in Int /\ st.i + 0 \in Int /\ st.i + 0 < st.i + 1
    BY BlockTypes
  <2>. QED BY <2>1, SubSeqEmpty
<1>2. CopyOf(o, st.offset, 0) = <<>>
  BY DEF CopyOf
<1>3. o \o <<>> = o
  BY ConcatEmptySeq
<1>. QED BY <1>1, <1>2, <1>3 DEF WithLiterals, WithMatch

LEMMA StartCopyInv == ASSUME BlockIndInv, StartCopy PROVE BlockIndInv'
<1>1. /\ call.op = "lz4" /\ st.pc \in {"literals", "match"} /\ Sound /\ call' = call /\ out' = out
      /\ st' = [st EXCEPT !.pc = IF st.pc = "literals" THEN "copyLiterals" ELSE "copyMatch", !.k = 0]
  BY DEF StartCopy, In2
<1>2. BlockParts
  BY <1>1 DEF BlockIndInv
<1>3. /\ st' \in BlockStates /\ st'.pc = (IF st.pc = "literals" THEN "copyLiterals" ELSE "copyMatch") /\ st'.k = 0
      /\ st'.i = st.i /\ st'.lit = st.lit /\ st'.match = st.match /\ st'.offset = st.offset
  BY <1>1, <1>2 DEF BlockParts, BlockStates
<1>4. /\ st.i \in Nat /\ st.lit \in Nat /\ st.match \in Nat /\ Len(call.src) \in Nat /\ call.dcap \in Nat
      /\ Len(out.dst) \in Nat /\ out.dst \in Seq(Int)
  BY <1>2, BlockTypes
<1>5. WithLiterals(out.dst, 0) = out.dst /\ WithMatch(out.dst, 0) = out.dst
  BY <1>2, <1>4, NoneYet
<1>6. CASE st.pc = "literals"
  <2>1. PICK j \in Nat : /\ TokenRead(j)
                         /\ [v |-> st.lit, next |-> st.i] \in WholeLength(call.src, Literal(call.src, j), j + 1)
    BY <1>2, <1>6 DEF BlockParts, InLiterals
  <2>2. st.i + st.lit <= Len(call.src) /\ Len(out.dst) + st.lit <= call.dcap
    BY <1>1, <1>4, <1>6 DEF Sound, Unread, DstFree
  <2>3. ~(st.i + st.lit > Len(call.src) \/ Len(out.dst) + st.lit > call.dcap)
    BY <1>4, <2>2
  <2>4. PICK nib \in Nat : nib = Matched(call.src, j)
    BY <1>2, <2>1, LiteralsRead, Zenon
  <2>5. OnTheWay(call.src, call.dcap,
                 AfterLiterals(call.src, call.dcap, nib, st.i + st.lit, WithLiterals(out.dst, st.lit)))
    BY <1>2, <2>1, <2>3, <2>4, LiteralsRead, Zenon
  <2>6. st.match = nib + MinMatch
    BY <2>1, <2>4 DEF TokenRead
  <2>7. (\E o \in Seq(Int), c \in Nat :
           /\ OnTheWay(call.src, call.dcap,
                       AfterLiterals(call.src, call.dcap, c, st.i + st.lit, WithLiterals(o, st.lit)))
           /\ st.match = c + MinMatch /\ out.dst = WithLiterals(o, st.k))'
    BY <1>1, <1>3, <1>4, <1>5, <2>5, <2>6 DEF WithLiterals
  <2>8. InCopyLiterals'
    BY <1>1, <1>3, <1>4, <2>2, <2>7 DEF InCopyLiterals
  <2>. QED BY <1>1, <1>2, <1>3, <1>6, <2>8 DEF BlockIndInv, BlockParts
<1>7. CASE st.pc = "match"
  <2>1. PICK nib \in Nat, p \in Nat :
          /\ OffsetRead(nib, p)
          /\ [v |-> st.match - MinMatch, next |-> st.i] \in WholeLength(call.src, nib, p + 2)
    BY <1>2, <1>7 DEF BlockParts, InMatch
  <2>2. ~(Len(out.dst) + st.match > call.dcap)
    BY <1>1, <1>4, <1>7 DEF Sound, DstFree
  <2>3. st.offset \in 1 .. Len(out.dst) /\ AtSequence(call.src, call.dcap, st.i, WithMatch(out.dst, st.match))
    BY <1>2, <2>1, <2>2, MatchRead, Zenon DEF AtSequence
  <2>4. (\E o \in Seq(Int) : /\ st.offset \in 1 .. Len(o)
                             /\ AtSequence(call.src, call.dcap, st.i, WithMatch(o, st.match))
                             /\ out.dst = WithMatch(o, st.k))'
    BY <1>1, <1>3, <1>4, <1>5, <2>3 DEF WithMatch
  <2>5. InCopyMatch'
    BY <1>1, <1>3, <1>4, <2>4 DEF InCopyMatch
  <2>. QED BY <1>1, <1>2, <1>3, <1>7, <2>5 DEF BlockIndInv, BlockParts
<1>. QED BY <1>1, <1>6, <1>7

LEMMA LiteralsGoOn ==
    ASSUME BlockParts, NEW o \in Seq(Int), NEW w \in Nat, st.i + st.k + w <= Len(call.src)
    PROVE  LET more == SubSeq(call.src, st.i + st.k + 1, st.i + st.k + w)
           IN WithLiterals(o, st.k) \o more = WithLiterals(o, st.k + w) /\ Len(more) = w /\ more \in Seq(Int)
<1>1. PICK src \in Seq(Int), x \in Nat, k \in Nat : src = call.src /\ x = st.i /\ k = st.k
  BY BlockTypes
<1>2. Len(src) \in Nat /\ x + k + w <= Len(src)
  BY <1>1
<1>3. /\ SubSeq(src, x + k + 1, x + k + w) \in Seq(Int) /\ Len(SubSeq(src, x + k + 1, x + k + w)) = w
  <2>1. x + k \in Nat
    OBVIOUS
  <2>. QED BY <1>2, <2>1, PartIs
<1>4. SubSeq(src, x + 1, x + k) \in Seq(Int)
  <2>1. x + k <= Len(src)
    BY <1>2
  <2>. QED BY <2>1, PartIs
<1>5. SubSeq(src, x + 1, x + k) \o SubSeq(src, (x + k) + 1, x + k + w) = SubSeq(src, x + 1, x + k + w)
  <2>1. x + 1 \in 1 .. Len(src) + 1 /\ x + k \in (x + 1) - 1 .. Len(src) /\ x + k + w \in x + k .. Len(src)
    BY <1>2
  <2>. QED BY <2>1, ConcatAdjacentSubSeq
<1>6. x + (k + w) = x + k + w
  OBVIOUS
<1>7. (o \o SubSeq(src, x + 1, x + k)) \o SubSeq(src, x + k + 1, x + k + w)
      = o \o (SubSeq(src, x + 1, x + k) \o SubSeq(src, x + k + 1, x + k + w))
  BY <1>3, <1>4, Associates, ZenonT(120)
<1>. QED BY <1>1, <1>3, <1>5, <1>6, <1>7, Zenon DEF WithLiterals

LEMMA OneByte ==
    ASSUME NEW src \in Seq(Int), NEW x \in Nat, x + 1 <= Len(src)
    PROVE  <<src[x + 1]>> = SubSeq(src, x + 1, x + 1)
<1>1. /\ SubSeq(src, x + 1, x + 1) \in Seq(Int) /\ Len(SubSeq(src, x + 1, x + 1)) = 1
      /\ SubSeq(src, x + 1, x + 1)[1] = src[x + 1]
  BY PartIs
<1>2. src[x + 1] \in Int
  OBVIOUS
<1>3. <<src[x + 1]>> \in Seq(Int) /\ Len(<<src[x + 1]>>) = 1 /\ <<src[x + 1]>>[1] = src[x + 1]
  BY <1>2
<1>4. \A y \in 1 .. 1 : y = 1
  OBVIOUS
<1>. QED BY <1>1, <1>3, <1>4, SeqEqual

LEMMA CopyLiteralsInv == ASSUME BlockIndInv, CopyLiterals PROVE BlockIndInv'
<1>. DEFINE width == IF WideLiterals THEN Lane ELSE 1
            bytes == IF WideLiterals THEN SubSeq(call.src, st.i + st.k + 1, st.i + st.k + Lane)
                     ELSE <<At(st.i + st.k)>>
<1>1. /\ call.op = "lz4" /\ st.pc = "copyLiterals" /\ st.k < st.lit /\ call' = call
      /\ out' = [out EXCEPT !.dst = @ \o bytes] /\ st' = [st EXCEPT !.k = @ + Len(bytes)]
  BY DEF CopyLiterals, Put, In2
<1>2. BlockParts
  BY <1>1 DEF BlockIndInv
<1>3. /\ st.i \in Nat /\ st.lit \in Nat /\ st.match \in Nat /\ st.k \in Nat /\ Len(call.src) \in Nat
      /\ call.src \in Seq(Int) /\ out.dst \in Seq(Int) /\ Lane \in Nat
  BY <1>2, BlockTypes
<1>4. /\ st.i + st.lit <= Len(call.src)
      /\ \E o \in Seq(Int), nib \in Nat :
           /\ OnTheWay(call.src, call.dcap,
                       AfterLiterals(call.src, call.dcap, nib, st.i + st.lit, WithLiterals(o, st.lit)))
           /\ st.match = nib + MinMatch /\ out.dst = WithLiterals(o, st.k)
  BY <1>1, <1>2 DEF BlockParts, InCopyLiterals
<1>5. PICK o \in Seq(Int), nib \in Nat :
         /\ OnTheWay(call.src, call.dcap,
                     AfterLiterals(call.src, call.dcap, nib, st.i + st.lit, WithLiterals(o, st.lit)))
         /\ st.match = nib + MinMatch /\ out.dst = WithLiterals(o, st.k)
  BY <1>4
<1>6. PICK w \in Nat : w = width /\ st.k + w <= st.lit
  <2>1. width \in Nat /\ st.k + width <= st.lit
    BY <1>1, <1>3 DEF WideLiterals
  <2>. QED BY <2>1
<1>7. bytes = SubSeq(call.src, st.i + st.k + 1, st.i + st.k + w)
  <2>1. CASE WideLiterals
    BY <1>6, <2>1
  <2>2. CASE ~WideLiterals
    <3>1. st.i + st.k \in Nat /\ (st.i + st.k) + 1 <= Len(call.src)
      <4>1. st.k < st.lit /\ st.i + st.lit <= Len(call.src)
        BY <1>1, <1>4
      <4>. QED BY <1>3, <4>1, SMTT(120)
    <3>2. <<call.src[st.i + st.k + 1]>> = SubSeq(call.src, st.i + st.k + 1, st.i + st.k + 1)
      BY <1>3, <3>1, OneByte
    <3>. QED BY <1>6, <2>2, <3>2 DEF At
  <2>. QED BY <2>1, <2>2
<1>. HIDE DEF bytes, width
<1>8. out.dst \o bytes = WithLiterals(o, st.k + w) /\ Len(bytes) = w /\ bytes \in Seq(Int)
  <2>1. st.i + st.k + w <= Len(call.src)
    BY <1>3, <1>4, <1>6, SMTT(120)
  <2>. QED BY <1>2, <1>5, <1>7, <2>1, LiteralsGoOn
<1>9. PICK kk \in Nat : kk = st.k + w
  BY <1>3
<1>10. /\ st' = [st EXCEPT !.k = kk] /\ st' \in BlockStates /\ st'.pc = "copyLiterals" /\ st'.k = kk
       /\ st'.i = st.i /\ st'.lit = st.lit /\ st'.match = st.match
  <2>1. st' = [st EXCEPT !.k = kk]
    BY <1>1, <1>8, <1>9
  <2>. QED BY <1>1, <1>2, <2>1 DEF BlockParts, BlockStates
<1>11. out'.dst = WithLiterals(o, kk) /\ out' \in BlockOut
  <2>1. out.dst \o bytes \in Seq(Int)
    BY <1>3, <1>8, ConcatProperties
  <2>2. out \in BlockOut
    BY <1>2 DEF BlockParts
  <2>. QED BY <1>1, <1>8, <1>9, <2>1, <2>2 DEF BlockOut
<1>12. (\E oo \in Seq(Int), nn \in Nat :
         /\ OnTheWay(call.src, call.dcap,
                     AfterLiterals(call.src, call.dcap, nn, st.i + st.lit, WithLiterals(oo, st.lit)))
         /\ st.match = nn + MinMatch /\ out.dst = WithLiterals(oo, st.k))'
  <2>1. /\ OnTheWay(call'.src, call'.dcap,
                    AfterLiterals(call'.src, call'.dcap, nib, st'.i + st'.lit,
                                  o \o SubSeq(call'.src, st'.i + 1, st'.i + st'.lit)))
        /\ st'.match = nib + MinMatch
    BY <1>1, <1>5, <1>10, ZenonT(120) DEF WithLiterals
  <2>2. out'.dst = o \o SubSeq(call'.src, st'.i + 1, st'.i + st'.k)
    BY <1>1, <1>10, <1>11, ZenonT(120) DEF WithLiterals
  <2>. QED BY <1>5, <2>1, <2>2, ZenonT(120) DEF WithLiterals
<1>13. InCopyLiterals'
  BY <1>1, <1>4, <1>6, <1>9, <1>10, <1>12 DEF InCopyLiterals
<1>. QED BY <1>1, <1>2, <1>10, <1>11, <1>13 DEF BlockIndInv, BlockParts

LEMMA LiteralsCopiedInv == ASSUME BlockIndInv, LiteralsCopied PROVE BlockIndInv'
<1>1. call.op = "lz4" /\ st.pc = "copyLiterals" /\ st.k >= st.lit /\ call' = call
  BY DEF LiteralsCopied, In2
<1>2. BlockParts
  BY <1>1 DEF BlockIndInv
<1>3. /\ st.i \in Nat /\ st.lit \in Nat /\ st.match \in Nat /\ st.k \in Nat /\ Len(call.src) \in Nat
      /\ call.src \in ByteStrings /\ call.dcap \in Nat /\ out.dst \in Seq(Int) /\ Len(out.dst) \in Nat
      /\ st \in BlockStates /\ out \in BlockOut
  BY <1>2, BlockTypes DEF BlockParts
<1>4. /\ st.i + st.lit <= Len(call.src) /\ st.k <= st.lit
      /\ \E o \in Seq(Int), nib \in Nat :
           /\ OnTheWay(call.src, call.dcap,
                       AfterLiterals(call.src, call.dcap, nib, st.i + st.lit, WithLiterals(o, st.lit)))
           /\ st.match = nib + MinMatch /\ out.dst = WithLiterals(o, st.k)
  BY <1>1, <1>2 DEF BlockParts, InCopyLiterals
<1>5. PICK x \in Nat : x = st.i + st.lit /\ x \in 0 .. Len(call.src)
  BY <1>3, <1>4
<1>6. PICK nib \in Nat : LiteralsBehind(nib, x) /\ st.match = nib + MinMatch
  <2>1. st.k = st.lit
    BY <1>1, <1>3, <1>4
  <2>. QED BY <1>4, <1>5, <2>1 DEF LiteralsBehind
<1>7. CASE x = Len(call.src)
  <2>1. st' = [st EXCEPT !.i = x, !.pc = "returned"] /\ out' = [out EXCEPT !.n = Len(out.dst)]
    BY <1>5, <1>7 DEF LiteralsCopied
  <2>2. st' \in BlockStates /\ st'.pc = "returned"
    BY <1>3, <2>1 DEF BlockStates
  <2>3. out' \in BlockOut /\ out'.dst = out.dst /\ out'.n = Len(out.dst)
    BY <1>3, <2>1 DEF BlockOut
  <2>4. OnTheWay(call.src, call.dcap, [i |-> x, o |-> out.dst, n |-> Len(out.dst)])
    <3>1. AfterLiterals(call.src, call.dcap, nib, x, out.dst) = [i |-> x, o |-> out.dst, n |-> Len(out.dst)]
      <4>1. PICK src \in ByteStrings, cap \in Nat, o \in Seq(Int) : src = call.src /\ cap = call.dcap /\ o = out.dst
        BY <1>3
      <4>2. AfterLiterals(src, cap, nib, x, o) = [i |-> x, o |-> o, n |-> Len(o)]
        <5>1. x \in 0 .. Len(src) /\ x = Len(src)
          BY <1>5, <1>7, <4>1
        <5>. QED BY <5>1 DEF AfterLiterals
      <4>. QED BY <4>1, <4>2
    <3>. QED BY <1>6, <3>1 DEF LiteralsBehind
  <2>5. BlockEnded'
    <3>1. OnTheWay(call'.src, call'.dcap, [i |-> x, o |-> out'.dst, n |-> out'.n]) /\ out'.n # -2
      BY <1>1, <1>3, <2>3, <2>4
    <3>. QED BY <3>1 DEF BlockEnded
  <2>. QED BY <1>1, <1>2, <2>2, <2>3, <2>5 DEF BlockIndInv, BlockParts
<1>8. CASE x # Len(call.src)
  <2>1. st' = [st EXCEPT !.i = x, !.pc = "offset"] /\ out' = out
    BY <1>5, <1>8 DEF LiteralsCopied
  <2>2. st' \in BlockStates /\ st'.pc = "offset" /\ st'.i = x /\ st'.match = st.match
    BY <1>3, <2>1 DEF BlockStates
  <2>3. (\E n \in Nat : LiteralsBehind(n, st.i) /\ st.match = n + MinMatch)'
    BY <1>1, <1>6, <2>1, <2>2 DEF LiteralsBehind
  <2>4. InOffset'
    <3>1. st'.i < Len(call'.src)
      BY <1>1, <1>3, <1>5, <1>8, <2>2
    <3>. QED BY <2>3, <3>1 DEF InOffset
  <2>. QED BY <1>1, <1>2, <2>1, <2>2, <2>4 DEF BlockIndInv, BlockParts
<1>. QED BY <1>7, <1>8

LEMMA OffsetInv == ASSUME BlockIndInv, Offset PROVE BlockIndInv'
<1>1. call.op = "lz4" /\ st.pc = "offset" /\ Sound /\ call' = call /\ out' = out
  BY DEF Offset, In2
<1>2. BlockParts
  BY <1>1 DEF BlockIndInv
<1>3. /\ st.i \in Nat /\ st.match \in Nat /\ Len(call.src) \in Nat /\ call.src \in ByteStrings /\ MinMatch \in Nat
      /\ st \in BlockStates /\ Len(out.dst) \in Nat /\ Nibble \in Nat
  BY <1>2, BlockTypes DEF BlockParts
<1>4. PICK p \in Nat : p = st.i /\ p + 2 <= Len(call.src)
  BY <1>1, <1>3 DEF Sound, Unread
<1>5. PICK f \in Nat : f = OffsetAt(p) /\ f \in 1 .. Len(out.dst)
  BY <1>1, <1>3, <1>4 DEF Sound
<1>6. f = call.src[p + 1] + Byte * call.src[p + 2]
  <2>1. p + 1 + 1 = p + 2
    OBVIOUS
  <2>. QED BY <1>5, <2>1 DEF OffsetAt, At
<1>7. PICK nib \in Nat : LiteralsBehind(nib, p) /\ st.match = nib + MinMatch
  BY <1>1, <1>2, <1>4 DEF BlockParts, InOffset
<1>8. PICK c \in {"matchLength", "match"} : c = IF nib = Nibble - 1 THEN "matchLength" ELSE "match"
  OBVIOUS
<1>9. /\ st' \in BlockStates /\ st'.pc = c /\ st'.i = p + 2 /\ st'.offset = f /\ st'.match = st.match
  <2>1. st.match = Nibble - 1 + MinMatch <=> nib = Nibble - 1
    BY <1>3, <1>7
  <2>2. st' = [st EXCEPT !.offset = f, !.i = p + 2, !.pc = c]
    BY <1>4, <1>5, <1>8, <2>1 DEF Offset
  <2>3. p + 2 \in Nat
    OBVIOUS
  <2>. QED BY <1>3, <2>2, <2>3 DEF BlockStates
<1>10. OffsetRead(nib, p)'
  BY <1>1, <1>4, <1>5, <1>6, <1>7, <1>9 DEF OffsetRead, LiteralsBehind
<1>11. st'.match - MinMatch = nib
  BY <1>3, <1>7, <1>9
<1>12. /\ nib = Nibble - 1 => LengthInPart(call.src, p + 2, p + 2, nib)
       /\ nib # Nibble - 1 => [v |-> nib, next |-> p + 2] \in WholeLength(call.src, nib, p + 2)
  <2>1. p + 2 \in 0 .. Len(call.src)
    BY <1>3, <1>4
  <2>. QED BY <1>3, <2>1, LengthStarts
<1>13. CASE nib = Nibble - 1
  <2>1. InMatchLength'
    BY <1>1, <1>9, <1>10, <1>11, <1>12, <1>13 DEF InMatchLength
  <2>. QED BY <1>1, <1>2, <1>8, <1>9, <1>13, <2>1 DEF BlockIndInv, BlockParts
<1>14. CASE nib # Nibble - 1
  <2>1. InMatch'
    BY <1>1, <1>9, <1>10, <1>11, <1>12, <1>14 DEF InMatch
  <2>. QED BY <1>1, <1>2, <1>8, <1>9, <1>14, <2>1 DEF BlockIndInv, BlockParts
<1>. QED BY <1>13, <1>14

\* A match goes on behind any part of it as it began, so that it may repeat itself.
LEMMA MatchGoesOn ==
    ASSUME NEW o \in Seq(Int), NEW f \in 1 .. Len(o), NEW k \in Nat, NEW w \in Nat, w <= f
    PROVE  LET d == o \o CopyOf(o, f, k)
               more == SubSeq(d, Len(d) - f + 1, Len(d) - f + w)
           IN d \o more = o \o CopyOf(o, f, k + w) /\ Len(more) = w /\ more \in Seq(Int)
<1>. DEFINE c == CopyOf(o, f, k)
            e == CopyOf(o, f, k + w)
            d == o \o c
            n == Len(o)
            more == SubSeq(d, Len(d) - f + 1, Len(d) - f + w)
<1>1. n \in Nat /\ f \in Nat /\ f >= 1 /\ f <= n
  OBVIOUS
<1>2. c \in Seq(Int) /\ Len(c) = k /\ e \in Seq(Int) /\ Len(e) = k + w
  <2>1. k + w \in Nat
    OBVIOUS
  <2>. QED BY <2>1, CopyOfIs
<1>3. /\ \A y \in 1 .. k : c[y] = o[n - f + 1 + ((y - 1) % f)]
      /\ \A y \in 1 .. k + w : e[y] = o[n - f + 1 + ((y - 1) % f)]
  BY DEF CopyOf
<1>. HIDE DEF c, e, n
<1>4. /\ d \in Seq(Int) /\ Len(d) = n + k
      /\ \A y \in 1 .. n + k : d[y] = IF y <= n THEN o[y] ELSE c[y - n]
  BY <1>2, ConcatProperties DEF n
<1>. HIDE DEF d
<1>5. more \in Seq(Int) /\ Len(more) = w /\ \A y \in 1 .. w : more[y] = d[n + k - f + y]
  <2>1. PICK x \in Nat : x = n + k - f /\ x + w <= Len(d) /\ Len(d) - f + 1 = x + 1 /\ Len(d) - f + w = x + w
    BY <1>1, <1>4
  <2>2. more = SubSeq(d, x + 1, x + w)
    BY <2>1 DEF more
  <2>3. more \in Seq(Int) /\ Len(more) = w /\ \A y \in 1 .. w : more[y] = d[x + y]
    <3>1. d \in Seq(Int) /\ x + w <= Len(d)
      BY <1>4, <2>1
    <3>2. /\ SubSeq(d, x + 1, x + w) \in Seq(Int) /\ Len(SubSeq(d, x + 1, x + w)) = w
          /\ \A y \in 1 .. w : SubSeq(d, x + 1, x + w)[y] = d[x + y]
      BY <3>1, PartIs
    <3>. QED BY <2>2, <3>2, Zenon
  <2>. QED BY <2>1, <2>3
<1>. HIDE DEF more
<1>6. \A y \in 1 .. w : more[y] = e[k + y]
  <2>. TAKE y \in 1 .. w
  <2>1. PICK z \in Nat : z = k + y - 1
    OBVIOUS
  <2>2. e[k + y] = o[n - f + 1 + (z % f)]
    <3>1. k + y \in 1 .. k + w /\ (k + y) - 1 = z
      BY <2>1
    <3>. QED BY <1>3, <3>1
  <2>3. n + k - f + y \in 1 .. n + k /\ more[y] = d[n + k - f + y]
    BY <1>1, <1>5, SMTT(120)
  <2>4. CASE z < f
    <3>1. z % f = z
      <4>1. z = 0 * f + z
        BY <1>1
      <4>. QED BY <1>1, <2>4, <4>1, DivModOf
    <3>2. n + k - f + y <= n /\ n + k - f + y = n - f + 1 + z
      BY <1>1, <2>1, <2>4
    <3>. QED BY <1>4, <2>2, <2>3, <3>1, <3>2
  <2>5. CASE ~(z < f)
    <3>1. PICK x \in Nat : x = z - f /\ x + 1 \in 1 .. k /\ (n + k - f + y) - n = x + 1 /\ ~(n + k - f + y <= n)
      BY <1>1, <2>1, <2>5
    <3>2. d[n + k - f + y] = c[x + 1]
      BY <1>4, <2>3, <3>1
    <3>3. c[x + 1] = o[n - f + 1 + (x % f)]
      <4>1. (x + 1) - 1 = x
        OBVIOUS
      <4>. QED BY <1>3, <3>1, <4>1
    <3>4. z % f = x % f
      <4>1. PICK q \in Nat, r \in Nat : q = x \div f /\ r = x % f /\ r < f /\ x = q * f + r
        <5>1. x \div f \in Nat /\ x % f \in Nat /\ x % f < f /\ x = (x \div f) * f + (x % f)
          BY <1>1, DivMod
        <5>. QED BY <5>1, Zenon
      <4>2. z = (q + 1) * f + r
        <5>1. \A u, v, t \in Nat : u * v + t + v = (u + 1) * v + t
          OBVIOUS
        <5>2. z = x + f
          BY <1>1, <3>1
        <5>. QED BY <1>1, <4>1, <5>1, <5>2
      <4>3. z % f = r
        <5>1. PICK p \in Nat : p = q + 1
          OBVIOUS
        <5>2. z = p * f + r /\ r < f /\ f \in Nat
          BY <1>1, <4>1, <4>2, <5>1
        <5>. QED BY <5>2, DivModOf, Zenon
      <4>. QED BY <4>1, <4>3
    <3>. QED BY <2>2, <2>3, <3>2, <3>3, <3>4
  <2>. QED BY <2>4, <2>5
<1>7. /\ d \o more \in Seq(Int) /\ Len(d \o more) = (n + k) + w
      /\ \A y \in 1 .. (n + k) + w : (d \o more)[y] = IF y <= n + k THEN d[y] ELSE more[y - (n + k)]
  <2>1. d \in Seq(Int) /\ more \in Seq(Int) /\ Len(d) = n + k /\ Len(more) = w
    BY <1>4, <1>5
  <2>2. /\ d \o more \in Seq(Int) /\ Len(d \o more) = Len(d) + Len(more)
        /\ \A y \in 1 .. Len(d) + Len(more) : (d \o more)[y] = IF y <= Len(d) THEN d[y] ELSE more[y - Len(d)]
    BY <2>1, ConcatProperties
  <2>. QED BY <2>1, <2>2
<1>8. /\ o \o e \in Seq(Int) /\ Len(o \o e) = n + (k + w)
      /\ \A y \in 1 .. n + (k + w) : (o \o e)[y] = IF y <= n THEN o[y] ELSE e[y - n]
  <2>1. o \in Seq(Int) /\ e \in Seq(Int) /\ Len(o) = n /\ Len(e) = k + w
    BY <1>2 DEF n
  <2>2. /\ o \o e \in Seq(Int) /\ Len(o \o e) = Len(o) + Len(e)
        /\ \A y \in 1 .. Len(o) + Len(e) : (o \o e)[y] = IF y <= Len(o) THEN o[y] ELSE e[y - Len(o)]
    BY <2>1, ConcatProperties
  <2>. QED BY <2>1, <2>2
<1>9. \A y \in 1 .. (n + k) + w : (d \o more)[y] = (o \o e)[y]
  <2>. TAKE y \in 1 .. (n + k) + w
  <2>1. y \in 1 .. n + (k + w)
    BY <1>1
  <2>2. CASE y <= n
    <3>1. y <= n + k /\ y \in 1 .. n + k
      BY <1>1, <2>2
    <3>. QED BY <1>4, <1>7, <1>8, <2>1, <2>2, <3>1
  <2>3. CASE ~(y <= n) /\ y <= n + k
    <3>1. y \in 1 .. n + k /\ y - n \in 1 .. k /\ y - n \in 1 .. k + w
      BY <1>1, <2>3
    <3>2. c[y - n] = e[y - n]
      BY <1>3, <3>1
    <3>. QED BY <1>4, <1>7, <1>8, <2>1, <2>3, <3>1, <3>2
  <2>4. CASE ~(y <= n + k)
    <3>1. y - (n + k) \in 1 .. w /\ k + (y - (n + k)) = y - n /\ ~(y <= n)
      BY <1>1, <2>4
    <3>2. more[y - (n + k)] = e[y - n]
      BY <1>6, <3>1
    <3>. QED BY <1>7, <1>8, <2>1, <2>4, <3>1, <3>2
  <2>. QED BY <2>2, <2>3, <2>4
<1>10. d \o more = o \o e
  <2>1. (n + k) + w = n + (k + w)
    BY <1>1
  <2>. QED BY <1>7, <1>8, <1>9, <2>1, SeqEqual
<1>. QED BY <1>5, <1>10 DEF d, more, c, e

LEMMA MatchBegins ==
    ASSUME NEW o \in Seq(Int), NEW f \in 1 .. Len(o), NEW n \in Nat, NEW k \in 0 .. n
    PROVE  /\ o \o CopyOf(o, f, n) \in Seq(Int) /\ Begins(o \o CopyOf(o, f, k), o \o CopyOf(o, f, n))
<1>. DEFINE c == CopyOf(o, f, k)
            e == CopyOf(o, f, n)
<1>1. c \in Seq(Int) /\ Len(c) = k /\ e \in Seq(Int) /\ Len(e) = n /\ k \in Nat
  BY CopyOfIs
<1>2. \A y \in 1 .. k : c[y] = e[y]
  BY DEF CopyOf
<1>. HIDE DEF c, e
<1>3. PICK w \in Nat : w = n - k /\ k + w = n
  BY <1>1
<1>4. SubSeq(e, k + 1, k + w) \in Seq(Int) /\ SubSeq(e, 0 + 1, 0 + k) = c
  <2>1. SubSeq(e, k + 1, k + w) \in Seq(Int)
    BY <1>1, <1>3, PartIs
  <2>2. /\ SubSeq(e, 0 + 1, 0 + k) \in Seq(Int) /\ Len(SubSeq(e, 0 + 1, 0 + k)) = k
        /\ \A y \in 1 .. k : SubSeq(e, 0 + 1, 0 + k)[y] = e[0 + y]
    BY <1>1, PartIs
  <2>3. \A y \in 1 .. k : SubSeq(e, 0 + 1, 0 + k)[y] = c[y]
    BY <1>2, <2>2
  <2>. QED BY <1>1, <2>1, <2>2, <2>3, SeqEqual
<1>5. e = c \o SubSeq(e, k + 1, k + w)
  <2>1. SubSeq(e, 1, k) \o SubSeq(e, k + 1, n) = SubSeq(e, 1, n)
    <3>1. 1 \in 1 .. Len(e) + 1 /\ k \in 1 - 1 .. Len(e) /\ n \in k .. Len(e)
      BY <1>1
    <3>. QED BY <1>1, <3>1, ConcatAdjacentSubSeq
  <2>2. SubSeq(e, 1, n) = e
    BY <1>1, SubSeqFull
  <2>3. 0 + 1 = 1 /\ 0 + k = k
    BY <1>1
  <2>4. SubSeq(e, 1, k) = c /\ SubSeq(e, k + 1, n) = SubSeq(e, k + 1, k + w)
    BY <1>3, <1>4, <2>3, Zenon
  <2>. QED BY <2>1, <2>2, <2>4, Zenon
<1>6. PICK u \in Seq(Int) : e = c \o u
  BY <1>4, <1>5
<1>7. (o \o c) \o u = o \o (c \o u)
  BY <1>1, Associates
<1>8. o \o e \in Seq(Int)
  BY <1>1, ConcatProperties
<1>9. Begins(o \o c, o \o e)
  BY <1>6, <1>7 DEF Begins
<1>. QED BY <1>8, <1>9 DEF c, e

LEMMA CopyMatchInv == ASSUME BlockIndInv, CopyMatch PROVE BlockIndInv'
<1>. DEFINE width == IF WideMatch THEN Lane ELSE 1
            bytes == Behind(IF WideMatch THEN Lane ELSE 1)
<1>1. /\ call.op = "lz4" /\ st.pc = "copyMatch" /\ st.k < st.match /\ call' = call
      /\ out' = [out EXCEPT !.dst = @ \o bytes] /\ st' = [st EXCEPT !.k = @ + Len(bytes)]
  BY DEF CopyMatch, Put, In2
<1>2. BlockParts
  BY <1>1 DEF BlockIndInv
<1>3. /\ st.i \in Nat /\ st.match \in Nat /\ st.k \in Nat /\ out.dst \in Seq(Int) /\ Lane \in Nat
      /\ st.offset \in Nat /\ st \in BlockStates /\ out \in BlockOut
  BY <1>2, BlockTypes DEF BlockParts
<1>4. PICK o \in Seq(Int) : /\ st.offset \in 1 .. Len(o)
                            /\ AtSequence(call.src, call.dcap, st.i, WithMatch(o, st.match))
                            /\ out.dst = WithMatch(o, st.k)
  BY <1>1, <1>2 DEF BlockParts, InCopyMatch
<1>5. PICK w \in Nat : w = width /\ st.k + w <= st.match /\ w <= st.offset
  <2>1. st.offset >= 1
    BY <1>4
  <2>2. width \in Nat /\ st.k + width <= st.match /\ width <= st.offset
    BY <1>1, <1>3, <2>1 DEF WideMatch
  <2>. QED BY <2>2
<1>6. bytes = SubSeq(out.dst, Len(out.dst) - st.offset + 1, Len(out.dst) - st.offset + w)
  BY <1>5 DEF Behind
<1>. HIDE DEF bytes, width
<1>7. out.dst \o bytes = WithMatch(o, st.k + w) /\ Len(bytes) = w /\ bytes \in Seq(Int)
  <2>1. PICK f \in 1 .. Len(o), k \in Nat : f = st.offset /\ k = st.k
    BY <1>3, <1>4
  <2>. DEFINE d == o \o CopyOf(o, f, k)
              more == SubSeq(d, Len(d) - f + 1, Len(d) - f + w)
  <2>2. out.dst = d /\ bytes = more
    BY <1>4, <1>6, <2>1 DEF WithMatch
  <2>3. d \o more = o \o CopyOf(o, f, k + w) /\ Len(more) = w /\ more \in Seq(Int)
    BY <1>5, <2>1, MatchGoesOn, ZenonT(120)
  <2>. HIDE DEF d, more
  <2>. QED BY <2>1, <2>2, <2>3 DEF WithMatch
<1>8. PICK kk \in Nat : kk = st.k + w
  BY <1>3
<1>9. /\ st' \in BlockStates /\ st'.pc = "copyMatch" /\ st'.k = kk
      /\ st'.i = st.i /\ st'.offset = st.offset /\ st'.match = st.match
  <2>1. st' = [st EXCEPT !.k = kk]
    BY <1>1, <1>7, <1>8
  <2>. QED BY <1>1, <1>3, <2>1 DEF BlockStates
<1>10. out'.dst = WithMatch(o, kk) /\ out' \in BlockOut
  <2>1. out.dst \o bytes \in Seq(Int)
    BY <1>3, <1>7, ConcatProperties
  <2>. QED BY <1>1, <1>3, <1>7, <1>8, <2>1 DEF BlockOut
<1>11. (\E oo \in Seq(Int) : /\ st.offset \in 1 .. Len(oo)
                             /\ AtSequence(call.src, call.dcap, st.i, WithMatch(oo, st.match))
                             /\ out.dst = WithMatch(oo, st.k))'
  BY <1>1, <1>4, <1>9, <1>10 DEF WithMatch
<1>12. InCopyMatch'
  BY <1>5, <1>8, <1>9, <1>11 DEF InCopyMatch
<1>. QED BY <1>1, <1>2, <1>9, <1>10, <1>12 DEF BlockIndInv, BlockParts

LEMMA MatchCopiedInv == ASSUME BlockIndInv, MatchCopied PROVE BlockIndInv'
<1>1. /\ call.op = "lz4" /\ st.pc = "copyMatch" /\ st.k >= st.match /\ call' = call /\ out' = out
      /\ st' = [st EXCEPT !.pc = "token"]
  BY DEF MatchCopied, In2
<1>2. BlockParts
  BY <1>1 DEF BlockIndInv
<1>3. st.match \in Nat /\ st.k \in Nat /\ st \in BlockStates
  BY <1>2, BlockTypes DEF BlockParts
<1>4. st.k <= st.match /\ \E o \in Seq(Int) : /\ AtSequence(call.src, call.dcap, st.i, WithMatch(o, st.match))
                                              /\ out.dst = WithMatch(o, st.k)
  BY <1>1, <1>2 DEF BlockParts, InCopyMatch
<1>5. st.k = st.match
  BY <1>1, <1>3, <1>4
<1>6. AtSequence(call.src, call.dcap, st.i, out.dst)
  BY <1>4, <1>5
<1>7. st' \in BlockStates /\ st'.pc = "token" /\ st'.i = st.i
  BY <1>1, <1>3 DEF BlockStates
<1>. QED BY <1>1, <1>2, <1>6, <1>7 DEF BlockIndInv, BlockParts

\* The invariant of block decoding holds when a call starts,
LEMMA BlockIndInvStart == ColumnInit => BlockIndInv
<1>. SUFFICES ASSUME ColumnInit, call.op = "lz4" PROVE BlockIndInv
  BY DEF BlockIndInv
<1>1. BlockInit
  BY ColumnInitOp
<1>. QED BY <1>1, BlockIndInvInit

\* and every step of the columns keeps it.
LEMMA BlockIndInvNext == BlockIndInv /\ [ColumnNext]_vars => BlockIndInv'
<1>. SUFFICES ASSUME BlockIndInv, [ColumnNext]_vars PROVE BlockIndInv'
  OBVIOUS
<1>1. CASE ColumnNext
  <2>1. CASE call.op # "lz4"
    BY <1>1, <2>1, ColumnStep DEF BlockIndInv
  <2>2. CASE call.op = "lz4"
    <3>1. BlockNext
      BY <1>1, <2>2, ColumnStep
    <3>. QED BY <3>1, MalformedInv, ReadTokenInv, LengthByteInv, StartCopyInv, CopyLiteralsInv, LiteralsCopiedInv,
                OffsetInv, CopyMatchInv, MatchCopiedInv, Zenon DEF BlockNext
  <2>. QED BY <2>1, <2>2
<1>2. CASE UNCHANGED vars
  <2>1. call' = call /\ st' = st /\ out' = out
    BY <1>2 DEF vars
  <2>2. /\ InLiteralLength' <=> InLiteralLength
        /\ InLiterals' <=> InLiterals
    BY <2>1 DEF InLiteralLength, InLiterals, TokenRead
  <2>3. InCopyLiterals' <=> InCopyLiterals
    BY <2>1 DEF InCopyLiterals, WithLiterals
  <2>4. /\ InOffset' <=> InOffset
        /\ InMatchLength' <=> InMatchLength
        /\ InMatch' <=> InMatch
    BY <2>1 DEF InOffset, InMatchLength, InMatch, OffsetRead, LiteralsBehind
  <2>5. InCopyMatch' <=> InCopyMatch
    BY <2>1 DEF InCopyMatch, WithMatch
  <2>6. BlockEnded' <=> BlockEnded
    BY <2>1 DEF BlockEnded
  <2>. QED BY <2>1, <2>2, <2>3, <2>4, <2>5, <2>6 DEF BlockIndInv, BlockParts
<1>. QED BY <1>1, <1>2

\* What is written is where what some first sequences mean begins.
LEMMA WrittenOnTheWay ==
    ASSUME BlockParts, st.pc # "returned"
    PROVE  \E r : OnTheWay(call.src, call.dcap, r) /\ Begins(out.dst, r.o)
<1>1. /\ call.src \in ByteStrings /\ call.src \in Seq(Int) /\ call.dcap \in Nat /\ out.dst \in Seq(Int)
      /\ st.i \in Nat /\ st.lit \in Nat /\ st.k \in Nat /\ st.match \in Nat /\ Len(call.src) \in Nat
  BY BlockTypes
<1>2. PICK src \in ByteStrings, cap \in Nat, d \in Seq(Int) : src = call.src /\ cap = call.dcap /\ d = out.dst
  BY <1>1
<1>3. Begins(d, d)
  BY BeginsItself
<1>4. ASSUME NEW j, AtSequence(src, cap, j, d)
      PROVE  \E r : OnTheWay(src, cap, r) /\ Begins(d, r.o)
  BY <1>3, <1>4 DEF AtSequence
<1>5. ASSUME NEW nib \in Nat, NEW p \in 0 .. Len(src), NEW o \in Seq(Int), Begins(d, o),
             OnTheWay(src, cap, AfterLiterals(src, cap, nib, p, o))
      PROVE  \E r : OnTheWay(src, cap, r) /\ Begins(d, r.o)
  <2>1. PICK r : r = AfterLiterals(src, cap, nib, p, o)
    OBVIOUS
  <2>2. r.o \in Seq(Int) /\ Begins(o, r.o)
    BY <2>1, AfterFollows DEF Follows, Stages
  <2>3. Begins(d, r.o)
    BY <1>5, <2>2, BeginsOn
  <2>. QED BY <1>5, <2>1, <2>3
<1>6. CASE st.pc \in {"token", "literalLength", "literals"}
  <2>1. \E j : AtSequence(src, cap, j, d)
    BY <1>2, <1>6 DEF BlockParts, InLiteralLength, InLiterals, TokenRead
  <2>. QED BY <1>2, <1>4, <2>1
<1>7. CASE st.pc = "copyLiterals"
  <2>1. /\ st.i + st.lit <= Len(call.src) /\ st.k <= st.lit
        /\ \E o \in Seq(Int), nib \in Nat :
             /\ OnTheWay(src, cap, AfterLiterals(src, cap, nib, st.i + st.lit, WithLiterals(o, st.lit)))
             /\ d = WithLiterals(o, st.k)
    BY <1>2, <1>7 DEF BlockParts, InCopyLiterals
  <2>2. PICK o \in Seq(Int), nib \in Nat :
          /\ OnTheWay(src, cap, AfterLiterals(src, cap, nib, st.i + st.lit, WithLiterals(o, st.lit)))
          /\ d = WithLiterals(o, st.k)
    BY <2>1
  <2>3. PICK w \in Nat : st.k + w = st.lit /\ st.i + st.k + w <= Len(call.src)
    <3>1. PICK x \in Nat, k \in Nat, lit \in Nat, len \in Nat :
            x = st.i /\ k = st.k /\ lit = st.lit /\ len = Len(call.src)
      BY <1>1
    <3>2. x + lit <= len /\ k <= lit
      BY <2>1, <3>1
    <3>3. PICK w \in Nat : w = lit - k
      BY <3>2
    <3>4. k + w = lit /\ x + k + w <= len
      BY <3>2, <3>3
    <3>. QED BY <3>1, <3>4, Zenon
  <2>4. /\ WithLiterals(o, st.k) \o SubSeq(call.src, st.i + st.k + 1, st.i + st.k + w) = WithLiterals(o, st.k + w)
        /\ SubSeq(call.src, st.i + st.k + 1, st.i + st.k + w) \in Seq(Int)
    BY <2>3, LiteralsGoOn
  <2>5. Begins(d, WithLiterals(o, st.lit)) /\ WithLiterals(o, st.lit) \in Seq(Int)
    <3>1. PICK u \in Seq(Int) : d \o u = WithLiterals(o, st.lit)
      BY <2>2, <2>3, <2>4
    <3>. QED BY <3>1, BeginsItself
  <2>6. st.i + st.lit \in 0 .. Len(src)
    BY <1>1, <1>2, <2>1
  <2>. QED BY <1>2, <1>5, <2>2, <2>5, <2>6
<1>8. CASE st.pc \in {"offset", "matchLength", "match"}
  <2>1. PICK nib \in Nat, p \in 0 .. Len(src) : OnTheWay(src, cap, AfterLiterals(src, cap, nib, p, d))
    <3>1. CASE st.pc = "offset"
      <4>1. st.i \in 0 .. Len(src) /\ \E nib \in Nat : OnTheWay(src, cap, AfterLiterals(src, cap, nib, st.i, d))
        BY <1>1, <1>2, <3>1 DEF BlockParts, InOffset, LiteralsBehind
      <4>. QED BY <4>1
    <3>2. CASE st.pc \in {"matchLength", "match"}
      <4>1. PICK nib \in Nat, p \in Nat : OffsetRead(nib, p)
        <5>1. Nibble - 1 \in Nat
          BY BlockAssumption
        <5>. QED BY <3>2, <5>1 DEF BlockParts, InMatchLength, InMatch
      <4>2. p \in 0 .. Len(src) /\ OnTheWay(src, cap, AfterLiterals(src, cap, nib, p, d))
        BY <1>1, <1>2, <4>1 DEF OffsetRead, LiteralsBehind
      <4>. QED BY <4>2
    <3>. QED BY <1>8, <3>1, <3>2
  <2>. QED BY <1>2, <1>3, <1>5, <2>1
<1>9. CASE st.pc = "copyMatch"
  <2>1. st.k <= st.match /\ \E o \in Seq(Int) : /\ st.offset \in 1 .. Len(o)
                                                /\ AtSequence(src, cap, st.i, WithMatch(o, st.match))
                                                /\ d = WithMatch(o, st.k)
    BY <1>2, <1>9 DEF BlockParts, InCopyMatch
  <2>2. PICK o \in Seq(Int) : /\ st.offset \in 1 .. Len(o)
                              /\ AtSequence(src, cap, st.i, WithMatch(o, st.match))
                              /\ d = WithMatch(o, st.k)
    BY <2>1
  <2>3. Begins(d, WithMatch(o, st.match))
    <3>1. PICK f \in 1 .. Len(o), n \in Nat, k \in Nat : f = st.offset /\ n = st.match /\ k = st.k /\ k \in 0 .. n
      BY <1>1, <2>1, <2>2, SMTT(120)
    <3>2. Begins(o \o CopyOf(o, f, k), o \o CopyOf(o, f, n))
      BY <3>1, MatchBegins
    <3>. QED BY <2>2, <3>1, <3>2 DEF WithMatch
  <2>. QED BY <1>2, <2>2, <2>3 DEF AtSequence
<1>. QED BY <1>6, <1>7, <1>8, <1>9 DEF BlockParts, BlockStates

\* Whatever the bytes of a block and the room for it, and however wide a copy: what is written
\* is at every step where the meaning of its sequences begins, up to the first that is
\* malformed, and on return all of it, with its length or -1; so the wide copies write nothing
\* that those of a byte do not (lz4.go:3-7, csrc/lz4.c:1-12).
THEOREM BlockMeans == ColumnSpec => []BlockMeaning
<1>1. BlockIndInv => BlockMeaning
  <2>. SUFFICES ASSUME BlockIndInv, call.op = "lz4" PROVE BlockMeaning
    BY DEF BlockMeaning
  <2>1. BlockParts
    BY DEF BlockIndInv
  <2>2. PICK whole : whole = Meaning(call.src, call.dcap)
    OBVIOUS
  <2>3. call.src \in ByteStrings /\ call.dcap \in Nat /\ out.dst \in Seq(Int)
    BY <2>1, BlockTypes
  <2>4. CASE st.pc = "returned"
    <3>1. PICK j \in Nat : OnTheWay(call.src, call.dcap, [i |-> j, o |-> out.dst, n |-> out.n]) /\ out.n # -2
      BY <2>1, <2>4 DEF BlockParts, BlockEnded
    <3>2. whole = [i |-> j, o |-> out.dst, n |-> out.n]
      BY <2>2, <2>3, <3>1, WayBegins
    <3>3. Len(out.dst) <= Len(whole.o) /\ out.dst = SubSeq(whole.o, 1, Len(out.dst))
      <4>1. Begins(out.dst, whole.o)
        BY <2>3, <3>2, BeginsItself
      <4>. QED BY <2>3, <4>1, BeginsIs
    <3>. QED BY <2>2, <3>2, <3>3 DEF BlockMeaning
  <2>5. CASE st.pc # "returned"
    <3>1. PICK r : OnTheWay(call.src, call.dcap, r) /\ Begins(out.dst, r.o)
      BY <2>1, <2>5, WrittenOnTheWay
    <3>2. r \in Stages(call.src) /\ Begins(r.o, whole.o)
      BY <2>2, <2>3, <3>1, WayBegins
    <3>3. whole.o \in Seq(Int) /\ r.o \in Seq(Int)
      <4>1. r.o \in Seq(Int)
        BY <3>2 DEF Stages
      <4>2. PICK u \in Seq(Int) : whole.o = r.o \o u
        BY <3>2 DEF Begins
      <4>. QED BY <4>1, <4>2, ConcatProperties
    <3>4. Begins(out.dst, whole.o)
      BY <2>3, <3>1, <3>2, <3>3, BeginsOn
    <3>5. Len(out.dst) <= Len(whole.o) /\ out.dst = SubSeq(whole.o, 1, Len(out.dst))
      BY <2>3, <3>4, BeginsIs
    <3>. QED BY <2>2, <2>5, <3>5 DEF BlockMeaning, Returned
  <2>. QED BY <2>4, <2>5
<1>. QED BY BlockIndInvStart, BlockIndInvNext, <1>1, PTL DEF ColumnSpec

-----------------------------------------------------------------------------
(* Varints.                                                                *)

\* Byte j of the code of x.
CodeByte(x, j) == ((x \div GroupPower[j - 1]) % Group) + IF j < VarintLen(x) THEN Group ELSE 0

\* s is the first k values' codes, and w bytes of the next.
Coded(s, k, w) ==
    /\ Len(s) = SizeUpTo(k) + w
    /\ \A m \in 1 .. k : \A j \in 1 .. VarintLen(call.values[m]) :
         s[SizeUpTo(m - 1) + j] = CodeByte(call.values[m], j)
    /\ \A j \in 1 .. w : s[SizeUpTo(k) + j] = CodeByte(call.values[k + 1], j)

StreamTypes ==
    /\ call.op = "varint" /\ call.impl \in Implementations /\ call.raw \in BOOLEAN
    /\ ~call.raw => call.values \in Seq(0 .. Modulus - 1)
    /\ st \in [pc : {"encode", "receive", "decode", "returned"}, v : Nat, x : Nat, have : Nat,
               moved : BOOLEAN, base : Nat, i : Nat, room : Nat]
    /\ out \in [bytes : Seq(0 .. 2 * Group - 1), values : Seq(Nat)]

\* The encoder is in the middle of value st.v.
EncodePart ==
    /\ ~call.raw /\ st.v \in 1 .. Len(call.values) + 1 /\ out.values = <<>>
    /\ st.base = 0 /\ st.i = 0 /\ st.have = 0 /\ st.moved
    /\ IF st.v <= Len(call.values) THEN st.x < VarintLen(call.values[st.v]) ELSE st.x = 0
    /\ Coded(out.bytes, st.v - 1, st.x)

\* Where the decoder is in any stream.
DecodePart ==
    LET ends == WholeEnds(out.bytes)
        where == st.base + st.i
    IN /\ where <= st.have /\ st.have <= Len(out.bytes)
       /\ where \in ends \union {0}
       /\ Len(out.values) = Place(ends, where)
       /\ \A p \in ends : p <= where => out.values[Place(ends, p)] = WholeValue(out.bytes, p)
       /\ st.pc # "decode" => st.i = 0
       /\ st.pc = "decode" /\ st.i = 0 => st.room > 0
       /\ st.pc = "receive" /\ ~st.moved => st.base = st.have \/ Ends(MaxLen) = {}
       /\ Returned => \A p \in ends : p <= where

\* ... and in one that the encoder wrote.
ColumnPart ==
    /\ Coded(out.bytes, Len(call.values), 0)
    /\ LET n == Len(out.values)
       IN /\ n <= Len(call.values) /\ st.base + st.i = SizeUpTo(n)
          /\ \A k \in 1 .. n : out.values[k] = call.values[k]

StreamParts ==
    /\ StreamTypes
    /\ st.pc = "encode" => EncodePart
    /\ st.pc # "encode" => DecodePart
    /\ st.pc # "encode" /\ ~call.raw => ColumnPart

VarintIndInv == call.op = "varint" => StreamParts

LEMMA RunningSumsAre ==
    ASSUME NEW n \in Nat, NEW s, Len(s) = n, \A k \in 1 .. n : s[k] \in Nat
    PROVE  LET f == RunningSums(s)
           IN f \in [0 .. n -> Nat] /\ f[0] = 0 /\ \A k \in 1 .. n : f[k] = f[k - 1] + s[k]
<1>. DEFINE add == [q \in (1 .. n) \X Nat |-> q[2] + s[q[1]]]
            Is(f) == f = [x \in 0 .. Len(s) |-> IF x = 0 THEN 0 ELSE f[x - 1] + s[x]]
<1>1. \A k \in 1 .. n, m \in Nat : add[<<k, m>>] = m + s[k]
  OBVIOUS
<1>2. \A k \in 1 .. n, m \in Nat : m + s[k] \in Nat
  OBVIOUS
<1>. HIDE DEF add
<1>3. StaysIn(add, Nat, n)
  BY <1>1, <1>2 DEF StaysIn
<1>4. PICK g : Unfolds(g, Nat, n, 0, add)
  BY <1>3, RecursionExists
<1>5. g \in [0 .. n -> Nat] /\ g[0] = 0 /\ \A k \in 1 .. n : g[k] = add[<<k, g[k - 1]>>]
  BY <1>4 DEF Unfolds
<1>6. \A k \in 1 .. n : g[k] = g[k - 1] + s[k]
  <2>. TAKE k \in 1 .. n
  <2>1. g[k - 1] \in Nat
    <3>1. k - 1 \in 0 .. n
      OBVIOUS
    <3>. QED BY <1>5, <3>1
  <2>. QED BY <1>1, <1>5, <2>1
<1>7. Is(g)
  <2>. DEFINE e == [x \in 0 .. Len(s) |-> IF x = 0 THEN 0 ELSE g[x - 1] + s[x]]
  <2>1. \A k \in 0 .. n : g[k] = e[k]
    <3>. TAKE k \in 0 .. n
    <3>1. CASE k = 0
      BY <1>5, <3>1
    <3>2. CASE k \in 1 .. n
      <4>1. k \in 0 .. n /\ k # 0
        BY <3>2
      <4>2. e[k] = g[k - 1] + s[k]
        BY <4>1
      <4>. QED BY <1>6, <3>2, <4>2, Zenon
    <3>. QED BY <3>1, <3>2
  <2>2. g = e
    <3>1. g = [k \in 0 .. n |-> g[k]] /\ e = [k \in 0 .. n |-> e[k]]
      BY <1>5
    <3>. HIDE DEF e
    <3>. QED BY <2>1, <3>1
  <2>. QED BY <2>2
<1>. DEFINE u == CHOOSE f : Is(f)
<1>8. RunningSums(s) = u
  BY DEF RunningSums
<1>. HIDE DEF Is
<1>9. Is(u)
  BY <1>7
<1>. HIDE DEF u
<1>10. u = [x \in 0 .. n |-> IF x = 0 THEN 0 ELSE u[x - 1] + s[x]]
  BY <1>9 DEF Is
<1>11. u[0] = 0 /\ \A k \in 1 .. n : u[k] = u[k - 1] + s[k]
  <2>1. 0 \in 0 .. n /\ \A k \in 1 .. n : k \in 0 .. n /\ k # 0
    OBVIOUS
  <2>. QED BY <1>10, <2>1
<1>12. \A k \in 0 .. n : u[k] \in Nat
  <2>. DEFINE S == {k \in Nat : k <= n => u[k] \in Nat}
  <2>1. 0 \in S
    BY <1>11
  <2>2. \A k \in Nat : k \in S => k + 1 \in S
    <3>. SUFFICES ASSUME NEW k \in Nat, k \in S, k + 1 <= n PROVE u[k + 1] \in Nat
      OBVIOUS
    <3>1. u[k] \in Nat /\ k + 1 \in 1 .. n /\ (k + 1) - 1 = k
      OBVIOUS
    <3>2. u[k + 1] = u[k] + s[k + 1]
      BY <1>11, <3>1
    <3>. QED BY <1>2, <3>1, <3>2
  <2>. HIDE DEF S
  <2>3. \A k \in Nat : k \in S
    BY <2>1, <2>2, SetInduction
  <2>. QED BY <2>3 DEF S
<1>13. u \in [0 .. n -> Nat]
  BY <1>10, <1>12
<1>. QED BY <1>8, <1>11, <1>13

\* The powers of the base, up to the longest code.
LEMMA PowersAre ==
    /\ Group \in Nat /\ Group >= 2 /\ MaxLen \in Nat /\ MaxLen >= 1 /\ GroupPower[0] = 1
    /\ \A k \in 0 .. MaxLen : GroupPower[k] \in Nat /\ GroupPower[k] >= 1
    /\ \A k \in 1 .. MaxLen : GroupPower[k] = Group * GroupPower[k - 1]
<1>1. PICK g \in Nat, n \in Nat : g = Group /\ n = MaxLen /\ g >= 2 /\ n >= 1
  BY VarintAssumption
<1>. DEFINE times == [q \in (1 .. n) \X (Nat \ {0}) |-> g * q[2]]
            Is(f) == f = [k \in 0 .. MaxLen |-> IF k = 0 THEN 1 ELSE Group * f[k - 1]]
<1>2. \A k \in 1 .. n, m \in Nat \ {0} : times[<<k, m>>] = g * m
  OBVIOUS
<1>3. \A m \in Nat \ {0} : g * m \in Nat \ {0}
  <2>. TAKE m \in Nat \ {0}
  <2>1. g * m \in Nat /\ g * m >= m
    BY <1>1
  <2>. QED BY <2>1
<1>. HIDE DEF times
<1>4. StaysIn(times, Nat \ {0}, n)
  BY <1>2, <1>3 DEF StaysIn
<1>5. PICK p : Unfolds(p, Nat \ {0}, n, 1, times)
  BY <1>4, RecursionExists
<1>6. p \in [0 .. n -> Nat \ {0}] /\ p[0] = 1 /\ \A k \in 1 .. n : p[k] = times[<<k, p[k - 1]>>]
  BY <1>5 DEF Unfolds
<1>7. \A k \in 1 .. n : p[k] = g * p[k - 1]
  <2>. TAKE k \in 1 .. n
  <2>1. p[k - 1] \in Nat \ {0}
    <3>1. k - 1 \in 0 .. n
      OBVIOUS
    <3>. QED BY <1>6, <3>1
  <2>. QED BY <1>2, <1>6, <2>1
<1>8. Is(p)
  <2>. DEFINE e == [k \in 0 .. n |-> IF k = 0 THEN 1 ELSE g * p[k - 1]]
  <2>1. \A k \in 0 .. n : p[k] = e[k]
    <3>. TAKE k \in 0 .. n
    <3>1. CASE k = 0
      BY <1>6, <3>1
    <3>2. CASE k \in 1 .. n
      <4>1. e[k] = g * p[k - 1]
        BY <3>2
      <4>. QED BY <1>7, <3>2, <4>1, Zenon
    <3>. QED BY <3>1, <3>2
  <2>2. p = e
    <3>1. p = [k \in 0 .. n |-> p[k]] /\ e = [k \in 0 .. n |-> e[k]]
      BY <1>6
    <3>. HIDE DEF e
    <3>. QED BY <2>1, <3>1
  <2>. QED BY <1>1, <2>2
<1>9. Is(GroupPower)
  <2>. DEFINE u == CHOOSE f : Is(f)
  <2>1. GroupPower = u
    BY DEF GroupPower
  <2>. HIDE DEF Is
  <2>2. Is(u)
    BY <1>8
  <2>. QED BY <2>1, <2>2
<1>10. GroupPower = [k \in 0 .. n |-> IF k = 0 THEN 1 ELSE g * GroupPower[k - 1]]
  BY <1>1, <1>9
<1>. PICK u : u = GroupPower
  OBVIOUS
<1>11. u[0] = 1 /\ \A k \in 1 .. n : u[k] = g * u[k - 1]
  <2>1. 0 \in 0 .. n /\ \A k \in 1 .. n : k \in 0 .. n /\ k # 0
    OBVIOUS
  <2>. QED BY <1>10, <2>1
<1>12. \A k \in 0 .. n : u[k] \in Nat \ {0}
  <2>. DEFINE S == {k \in Nat : k <= n => u[k] \in Nat \ {0}}
  <2>1. 0 \in S
    BY <1>11
  <2>2. \A k \in Nat : k \in S => k + 1 \in S
    <3>. SUFFICES ASSUME NEW k \in Nat, k \in S, k + 1 <= n PROVE u[k + 1] \in Nat \ {0}
      OBVIOUS
    <3>1. u[k] \in Nat \ {0} /\ k + 1 \in 1 .. n /\ (k + 1) - 1 = k
      OBVIOUS
    <3>2. u[k + 1] = g * u[k]
      BY <1>11, <3>1
    <3>. QED BY <1>3, <3>1, <3>2
  <2>. HIDE DEF S
  <2>3. \A k \in Nat : k \in S
    BY <2>1, <2>2, SetInduction
  <2>. QED BY <2>3 DEF S
<1>. QED BY <1>1, <1>11, <1>12

LEMMA PowersGrow ==
    ASSUME NEW k \in 0 .. MaxLen, NEW m \in 0 .. MaxLen, k <= m
    PROVE  GroupPower[k] <= GroupPower[m] /\ (k < m => GroupPower[k] < GroupPower[m])
<1>. DEFINE S == {d \in Nat : \A x \in 0 .. MaxLen : x + d <= MaxLen =>
                                 /\ GroupPower[x] <= GroupPower[x + d]
                                 /\ d > 0 => GroupPower[x] < GroupPower[x + d]}
<1>1. 0 \in S
  BY PowersAre
<1>2. ASSUME NEW d \in Nat, d \in S PROVE d + 1 \in S
  <2>. SUFFICES ASSUME NEW x \in 0 .. MaxLen, x + (d + 1) <= MaxLen
                PROVE  GroupPower[x] < GroupPower[x + (d + 1)] /\ GroupPower[x] <= GroupPower[x + (d + 1)]
    OBVIOUS
  <2>0. MaxLen \in Nat
    BY PowersAre
  <2>1. x + d \in 0 .. MaxLen /\ x + (d + 1) \in 1 .. MaxLen /\ (x + (d + 1)) - 1 = x + d /\ x \in 0 .. MaxLen
    BY <2>0
  <2>2. PICK p \in Nat, q \in Nat, r \in Nat, g \in Nat :
           /\ p = GroupPower[x] /\ q = GroupPower[x + d] /\ r = GroupPower[x + (d + 1)] /\ g = Group
           /\ r = g * q /\ q >= 1 /\ g >= 2 /\ p <= q
    <3>1. x + (d + 1) \in 0 .. MaxLen
      BY <2>1
    <3>2. /\ GroupPower[x] \in Nat /\ GroupPower[x + d] \in Nat /\ GroupPower[x + (d + 1)] \in Nat
          /\ GroupPower[x + d] >= 1
      BY <2>1, <3>1, PowersAre
    <3>3. GroupPower[x + (d + 1)] = Group * GroupPower[x + d]
      BY <2>1, PowersAre
    <3>4. GroupPower[x] <= GroupPower[x + d]
      BY <1>2, <2>1
    <3>. QED BY <3>2, <3>3, <3>4, PowersAre
  <2>3. g * q >= 2 * q
    BY <2>2
  <2>4. p < r
    BY <2>2, <2>3
  <2>. QED BY <2>2, <2>4
<1>. HIDE DEF S
<1>3. m - k \in S
  <2>1. m - k \in Nat
    OBVIOUS
  <2>. QED BY <1>1, <1>2, <2>1, SetInduction
<1>4. k + (m - k) = m /\ (k < m => m - k > 0)
  OBVIOUS
<1>5. k + (m - k) <= MaxLen
  BY <1>4, PowersAre
<1>. QED BY <1>3, <1>4, <1>5 DEF S

\* How many bytes a value takes: as many groups as its highest needs.
LEMMA VarintLenIs ==
    ASSUME NEW x \in 0 .. Modulus - 1
    PROVE  /\ VarintLen(x) \in 1 .. MaxLen /\ VarintLen(x) \in Nat /\ x < GroupPower[VarintLen(x)]
           /\ \A k \in 1 .. VarintLen(x) - 1 : x >= GroupPower[k]
<1>1. PICK n \in Nat : n = MaxLen /\ n >= 1
  BY PowersAre
<1>2. Modulus \in Nat /\ Modulus <= GroupPower[n] /\ x \in Nat
  <2>1. GroupPower[Load] \in Nat /\ GroupPower[n] \in Nat
    <3>1. Load \in 0 .. n /\ n \in 0 .. n
      BY <1>1, VarintAssumption
    <3>. QED BY <1>1, <3>1, PowersAre
  <2>2. Modulus \in GroupPower[Load] .. GroupPower[n]
    BY <1>1, VarintAssumption
  <2>. QED BY <2>1, <2>2
<1>3. \A k \in 0 .. n : GroupPower[k] \in Nat
  BY <1>1, PowersAre
<1>. DEFINE T == {k \in Nat : k >= 1 /\ k <= n /\ x < GroupPower[k]}
<1>4. n \in T
  BY <1>1, <1>2, <1>3
<1>5. PICK m \in T : \A k \in T : m <= k
  BY <1>4, LeastNatural
<1>6. m \in 1 .. n /\ m \in Nat /\ x < GroupPower[m] /\ m - 1 \in Nat
  BY <1>5
<1>7. \A k \in 1 .. m - 1 : x >= GroupPower[k]
  <2>. SUFFICES ASSUME NEW k \in 1 .. m - 1, x < GroupPower[k] PROVE FALSE
    <3>1. \A k \in 1 .. m - 1 : k \in 0 .. n
      BY <1>6
    <3>. QED BY <1>2, <1>3, <3>1
  <2>1. k \in T
    BY <1>6
  <2>. QED BY <1>5, <1>6, <2>1
<1>8. {k \in 1 .. MaxLen - 1 : x >= GroupPower[k]} = 1 .. m - 1
  <2>1. ASSUME NEW k \in 1 .. n - 1, x >= GroupPower[k] PROVE k \in 1 .. m - 1
    <3>1. ~(m <= k)
      <4>. SUFFICES ASSUME m <= k PROVE FALSE
        OBVIOUS
      <4>1. GroupPower[m] <= GroupPower[k] /\ m \in 0 .. n /\ k \in 0 .. n
        <5>1. m \in 0 .. MaxLen /\ k \in 0 .. MaxLen
          BY <1>1, <1>6
        <5>. QED BY <1>1, <5>1, PowersGrow
      <4>2. GroupPower[m] \in Nat /\ GroupPower[k] \in Nat
        BY <1>3, <4>1
      <4>. QED BY <1>2, <1>6, <2>1, <4>1, <4>2
    <3>. QED BY <1>6, <3>1
  <2>2. \A k \in 1 .. m - 1 : k \in 1 .. n - 1
    BY <1>6
  <2>. QED BY <1>1, <1>7, <2>1, <2>2
<1>9. Cardinality(1 .. m - 1) = m - 1
  <2>1. 1 \in Int /\ m - 1 \in Int /\ 1 <= (m - 1) + 1
    BY <1>6
  <2>2. Cardinality(1 .. m - 1) = IF 1 > m - 1 THEN 0 ELSE (m - 1) - 1 + 1
    BY <2>1, FS_Interval
  <2>. QED BY <1>6, <2>2
<1>10. VarintLen(x) = m
  <2>1. VarintLen(x) = 1 + Cardinality(1 .. m - 1)
    BY <1>8, Zenon DEF VarintLen
  <2>. QED BY <1>6, <1>9, <2>1
<1>. QED BY <1>1, <1>6, <1>7, <1>10

\* A remainder and the group above it.
LEMMA OneMoreGroup ==
    ASSUME NEW x \in Nat, NEW k \in 0 .. MaxLen, k < MaxLen
    PROVE  /\ x % GroupPower[k + 1] = (x % GroupPower[k]) + ((x \div GroupPower[k]) % Group) * GroupPower[k]
           /\ x \div GroupPower[k] \in Nat
           /\ (x \div GroupPower[k]) % Group \in 0 .. Group - 1
           /\ x \div GroupPower[k] >= Group <=> x >= GroupPower[k + 1]
<1>1. PICK g \in Nat, p \in Nat, r \in Nat :
         g = Group /\ p = GroupPower[k] /\ r = GroupPower[k + 1] /\ g >= 2 /\ p >= 1 /\ r = g * p /\ r >= 1
  <2>1. k + 1 \in 0 .. MaxLen /\ k + 1 \in 1 .. MaxLen /\ (k + 1) - 1 = k
    BY PowersAre
  <2>2. GroupPower[k] \in Nat /\ GroupPower[k] >= 1 /\ GroupPower[k + 1] \in Nat /\ GroupPower[k + 1] >= 1
    BY <2>1, PowersAre
  <2>3. GroupPower[k + 1] = Group * GroupPower[k]
    BY <2>1, PowersAre
  <2>. QED BY <2>2, <2>3, PowersAre
<1>2. PICK q \in Nat, d \in Nat : q = x \div p /\ d = x % p /\ d < p /\ x = q * p + d
  <2>1. x \div p \in Nat /\ x % p \in Nat /\ x % p < p /\ x = (x \div p) * p + (x % p)
    BY <1>1, DivMod
  <2>. QED BY ONLY <2>1, Zenon
<1>3. PICK u \in Nat, e \in Nat : u = q \div g /\ e = q % g /\ e < g /\ q = u * g + e
  <2>1. g >= 1
    BY <1>1
  <2>. QED BY <2>1, DivMod
<1>4. x = u * r + (e * p + d)
  <2>1. q * p = (u * g) * p + e * p
    BY <1>3
  <2>2. (u * g) * p = u * (g * p)
    OBVIOUS
  <2>3. q * p = u * r + e * p
    BY <1>1, <2>1, <2>2
  <2>4. PICK y \in Nat, w \in Nat, z \in Nat : y = q * p /\ w = u * r /\ z = e * p
    OBVIOUS
  <2>5. x = y + d /\ y = w + z
    BY <1>2, <2>3, <2>4
  <2>6. x = w + (z + d)
    BY <2>5
  <2>. QED BY <2>4, <2>6
<1>5. e * p + d < r /\ e * p \in Nat
  <2>1. e + 1 <= g
    BY <1>3
  <2>2. (e + 1) * p <= g * p
    BY <2>1
  <2>3. (e + 1) * p = e * p + p /\ e * p \in Nat
    OBVIOUS
  <2>. QED BY <1>1, <1>2, <2>2, <2>3
<1>6. x % r = e * p + d
  <2>1. e * p + d \in Nat
    BY <1>5
  <2>2. PICK t \in Nat : t = e * p + d
    BY <2>1
  <2>3. x = u * r + t /\ t < r
    BY <1>4, <1>5, <2>2
  <2>4. x % r = t
    BY <1>1, <2>3, DivModOf, ZenonT(120)
  <2>. QED BY <2>2, <2>4
<1>7. q >= g <=> x >= r
  <2>1. CASE q >= g
    <3>1. q * p >= g * p
      BY <2>1
    <3>. QED BY <1>1, <1>2, <2>1, <3>1
  <2>2. CASE q < g
    <3>1. (q + 1) * p <= g * p
      BY <2>2, q + 1 <= g
    <3>2. (q + 1) * p = q * p + p
      OBVIOUS
    <3>3. x < r
      BY <1>1, <1>2, <3>1, <3>2
    <3>. QED BY <2>2, <3>3
  <2>. QED BY <2>1, <2>2
<1>8. x % r = d + e * p
  BY <1>5, <1>6
<1>9. e \in 0 .. g - 1
  BY <1>3
<1>. QED BY <1>1, <1>2, <1>3, <1>7, <1>8, <1>9

\* A byte of a code.
LEMMA CodeByteIs ==
    ASSUME NEW x \in 0 .. Modulus - 1, NEW j \in 1 .. VarintLen(x)
    PROVE  /\ CodeByte(x, j) \in 0 .. 2 * Group - 1 /\ x \in Nat /\ j - 1 \in 0 .. MaxLen /\ j - 1 < MaxLen
           /\ Continues(CodeByte(x, j)) <=> j < VarintLen(x)
           /\ CodeByte(x, j) % Group = (x \div GroupPower[j - 1]) % Group
           /\ j = VarintLen(x) => CodeByte(x, j) = x \div GroupPower[j - 1]
           /\ x \div GroupPower[j - 1] >= Group <=> j < VarintLen(x)
<1>1. VarintLen(x) \in 1 .. MaxLen /\ VarintLen(x) \in Nat /\ x \in Nat /\ MaxLen \in Nat
  <2>1. Modulus \in Int
    <3>1. GroupPower[Load] \in Nat /\ GroupPower[MaxLen] \in Nat
      <4>1. Load \in 0 .. MaxLen /\ MaxLen \in 0 .. MaxLen
        BY PowersAre, VarintAssumption
      <4>. QED BY <4>1, PowersAre
    <3>. QED BY <3>1, VarintAssumption
  <2>2. x \in Nat
    BY <2>1
  <2>. QED BY <2>2, VarintLenIs, PowersAre
<1>2. j - 1 \in 0 .. MaxLen /\ j - 1 < MaxLen /\ (j - 1) + 1 = j
  BY <1>1
<1>3. PICK g \in Nat, e \in Nat, q \in Nat : g = Group /\ g >= 2 /\ q = x \div GroupPower[j - 1] /\ e = q % g /\ e < g
  <2>1. x \div GroupPower[j - 1] \in Nat /\ (x \div GroupPower[j - 1]) % Group \in 0 .. Group - 1
    BY <1>1, <1>2, OneMoreGroup
  <2>. QED BY <2>1, PowersAre
<1>4. CodeByte(x, j) = e + IF j < VarintLen(x) THEN g ELSE 0
  BY <1>3 DEF CodeByte
<1>5. (e + g) % g = e /\ e % g = e
  <2>1. e + g = 1 * g + e /\ e = 0 * g + e
    OBVIOUS
  <2>2. e + g \in Nat /\ g >= 1
    BY <1>3
  <2>3. e < g
    BY <1>3
  <2>4. PICK m \in Nat : m = e + g
    BY <2>2
  <2>5. m % g = e
    BY ONLY <2>1, <2>3, <2>4, DivModOf, 1 \in Nat, g \in Nat, e \in Nat, m \in Nat
  <2>6. e % g = e
    BY ONLY <2>1, <2>3, DivModOf, 0 \in Nat, g \in Nat, e \in Nat
  <2>. QED BY <2>4, <2>5, <2>6
<1>6. CodeByte(x, j) \in 0 .. 2 * Group - 1 /\ (Continues(CodeByte(x, j)) <=> j < VarintLen(x))
  <2>1. CASE j < VarintLen(x)
    BY <1>3, <1>4, <2>1 DEF Continues
  <2>2. CASE ~(j < VarintLen(x))
    BY <1>3, <1>4, <2>2 DEF Continues
  <2>. QED BY <2>1, <2>2
<1>7. CodeByte(x, j) % Group = e
  <2>1. CASE j < VarintLen(x)
    BY <1>3, <1>4, <1>5, <2>1
  <2>2. CASE ~(j < VarintLen(x))
    <3>1. CodeByte(x, j) = e
      BY <1>4, <2>2
    <3>. QED BY <1>3, <1>5, <3>1
  <2>. QED BY <2>1, <2>2
<1>8. q >= g <=> j < VarintLen(x)
  <2>0. q >= g <=> x >= GroupPower[j]
    <3>1. x \div GroupPower[j - 1] >= Group <=> x >= GroupPower[(j - 1) + 1]
      BY <1>1, <1>2, OneMoreGroup
    <3>. QED BY <1>2, <1>3, <3>1
  <2>1. CASE j < VarintLen(x)
    <3>1. j \in 1 .. VarintLen(x) - 1
      BY <1>1, <2>1
    <3>. QED BY <2>0, <2>1, <3>1, VarintLenIs
  <2>2. CASE j = VarintLen(x)
    <3>1. x < GroupPower[j] /\ GroupPower[j] \in Nat
      <4>1. j \in 0 .. MaxLen
        BY <1>1
      <4>. QED BY <2>2, <4>1, VarintLenIs, PowersAre
    <3>. QED BY <1>1, <2>0, <2>2, <3>1
  <2>. QED BY <1>1, <2>1, <2>2
<1>9. j = VarintLen(x) => CodeByte(x, j) = q
  <2>. SUFFICES ASSUME j = VarintLen(x) PROVE CodeByte(x, j) = q
    OBVIOUS
  <2>1. q < g
    BY <1>1, <1>3, <1>8
  <2>2. q = 0 * g + q /\ g >= 1
    BY <1>3
  <2>3. e = q
    BY <1>3, <2>1, <2>2, DivModOf
  <2>. QED BY <1>1, <1>4, <2>3
<1>. QED BY <1>1, <1>2, <1>3, <1>6, <1>7, <1>8, <1>9

\* What the bytes of a code weigh, a group at a time.
LEMMA WeightsAre ==
    ASSUME NEW c, NEW n \in 0 .. MaxLen, Len(c) = n, \A k \in 1 .. n : c[k] \in Nat
    PROVE  \E f : /\ f \in [0 .. n -> Nat] /\ f[0] = 0 /\ Weighted(c) = f[n]
                  /\ \A k \in 1 .. n : f[k] = f[k - 1] + (c[k] % Group) * GroupPower[k - 1]
<1>. DEFINE t == [k \in 1 .. Len(c) |-> (c[k] % Group) * GroupPower[k - 1]]
<1>1. n \in Nat /\ \A k \in 1 .. n : (c[k] % Group) * GroupPower[k - 1] \in Nat
  <2>1. n \in Nat
    BY PowersAre
  <2>2. ASSUME NEW k \in 1 .. n PROVE (c[k] % Group) * GroupPower[k - 1] \in Nat
    <3>1. k - 1 \in 0 .. MaxLen
      BY PowersAre
    <3>2. GroupPower[k - 1] \in Nat /\ c[k] % Group \in Nat
      BY <3>1, PowersAre
    <3>3. \A a1, b1 \in Nat : a1 * b1 \in Nat
      OBVIOUS
    <3>. QED BY <3>2, <3>3
  <2>. QED BY <2>1, <2>2
<1>2. Len(t) = n /\ \A k \in 1 .. n : t[k] = (c[k] % Group) * GroupPower[k - 1]
  BY <1>1
<1>3. Weighted(c) = RunningSums(t)[n]
  BY DEF Weighted
<1>. HIDE DEF t
<1>4. PICK f : f = RunningSums(t)
  OBVIOUS
<1>5. \A k \in 1 .. n : t[k] \in Nat
  BY <1>1, <1>2
<1>6. f \in [0 .. n -> Nat] /\ f[0] = 0 /\ \A k \in 1 .. n : f[k] = f[k - 1] + t[k]
  BY <1>1, <1>2, <1>4, <1>5, RunningSumsAre
<1>7. \A k \in 1 .. n : f[k] = f[k - 1] + (c[k] % Group) * GroupPower[k - 1]
  BY <1>2, <1>6, Zenon
<1>. QED BY <1>3, <1>4, <1>6, <1>7, Zenon

\* Less than the weight of the group that would be next.
LEMMA WeightedSmall ==
    ASSUME NEW c, NEW n \in 0 .. MaxLen, Len(c) = n, \A k \in 1 .. n : c[k] \in Nat
    PROVE  Weighted(c) \in Nat /\ Weighted(c) < GroupPower[n]
<1>1. PICK f : /\ f \in [0 .. n -> Nat] /\ f[0] = 0 /\ Weighted(c) = f[n]
               /\ \A k \in 1 .. n : f[k] = f[k - 1] + (c[k] % Group) * GroupPower[k - 1]
  BY WeightsAre, ZenonT(120)
<1>. DEFINE S == {k \in Nat : k <= n => f[k] < GroupPower[k]}
<1>2. 0 \in S
  BY <1>1, PowersAre
<1>3. ASSUME NEW k \in Nat, k \in S PROVE k + 1 \in S
  <2>. SUFFICES ASSUME k + 1 <= n PROVE f[k + 1] < GroupPower[k + 1]
    OBVIOUS
  <2>1. k + 1 \in 1 .. n /\ (k + 1) - 1 = k /\ k \in 0 .. n /\ k + 1 \in 1 .. MaxLen /\ k \in 0 .. MaxLen /\ n \in Nat
    BY PowersAre
  <2>2. f[k + 1] = f[k] + (c[k + 1] % Group) * GroupPower[k] /\ f[k] \in Nat
    BY <1>1, <2>1
  <2>3. PICK g \in Nat, p \in Nat, d \in Nat, y \in Nat, r \in Nat :
           /\ g = Group /\ p = GroupPower[k] /\ d = c[k + 1] % Group /\ d < g /\ y = f[k] /\ y < p
           /\ r = GroupPower[k + 1] /\ r = g * p
    <3>1. GroupPower[k] \in Nat /\ GroupPower[k + 1] = Group * GroupPower[k] /\ GroupPower[k + 1] \in Nat
      <4>1. k + 1 \in 0 .. MaxLen
        BY <2>1
      <4>. QED BY <2>1, <4>1, PowersAre
    <3>2. f[k] < GroupPower[k]
      BY <1>3, <2>1
    <3>3. c[k + 1] \in Nat /\ c[k + 1] % Group \in Nat /\ c[k + 1] % Group < Group
      BY <2>1, PowersAre
    <3>. QED BY <2>2, <3>1, <3>2, <3>3, PowersAre
  <2>4. d + 1 <= g
    BY <2>3
  <2>5. (d + 1) * p <= g * p /\ (d + 1) * p = d * p + p
    BY <2>4
  <2>6. PICK z \in Nat : z = d * p
    OBVIOUS
  <2>7. z + p <= r /\ y < p
    BY <2>3, <2>5, <2>6
  <2>8. y + z < r
    BY ONLY <2>7, y \in Nat, z \in Nat, p \in Nat, r \in Nat
  <2>. QED BY <2>2, <2>3, <2>6, <2>8
<1>. HIDE DEF S
<1>4. n \in S /\ n \in Nat
  <2>1. n \in Nat
    BY PowersAre
  <2>. QED BY <1>2, <1>3, <2>1, SetInduction
<1>. QED BY <1>1, <1>4 DEF S

\* A code weighs what it is the code of.
LEMMA WeightedCode ==
    ASSUME NEW x \in 0 .. Modulus - 1, NEW c, Len(c) = VarintLen(x),
           \A j \in 1 .. VarintLen(x) : c[j] = CodeByte(x, j)
    PROVE  Weighted(c) = x
<1>1. PICK n \in Nat : n = VarintLen(x) /\ n \in 1 .. MaxLen /\ n \in 0 .. MaxLen
  BY VarintLenIs, PowersAre
<1>2. \A k \in 1 .. n : c[k] \in Nat
  <2>. TAKE k \in 1 .. n
  <2>1. CodeByte(x, k) \in 0 .. 2 * Group - 1
    BY <1>1, CodeByteIs
  <2>. QED BY <1>1, <2>1
<1>3. PICK f : /\ f \in [0 .. n -> Nat] /\ f[0] = 0 /\ Weighted(c) = f[n]
               /\ \A k \in 1 .. n : f[k] = f[k - 1] + (c[k] % Group) * GroupPower[k - 1]
  BY <1>1, <1>2, WeightsAre, ZenonT(120)
<1>. DEFINE S == {k \in Nat : k <= n => f[k] = x % GroupPower[k]}
<1>4. x \in Nat
  BY <1>1, CodeByteIs
<1>5. 0 \in S
  <2>1. x % 1 = 0
    BY <1>4
  <2>. QED BY <1>3, <2>1, PowersAre
<1>6. ASSUME NEW k \in Nat, k \in S PROVE k + 1 \in S
  <2>. SUFFICES ASSUME k + 1 <= n PROVE f[k + 1] = x % GroupPower[k + 1]
    OBVIOUS
  <2>1. k + 1 \in 1 .. n /\ (k + 1) - 1 = k /\ k \in 0 .. n /\ k \in 0 .. MaxLen /\ k < MaxLen
    BY <1>1, PowersAre
  <2>2. f[k + 1] = f[k] + (c[k + 1] % Group) * GroupPower[k]
    BY <1>3, <2>1
  <2>3. f[k] = x % GroupPower[k]
    BY <1>6, <2>1
  <2>4. CodeByte(x, k + 1) % Group = (x \div GroupPower[k]) % Group
    <3>1. CodeByte(x, k + 1) % Group = (x \div GroupPower[(k + 1) - 1]) % Group
      BY <1>1, <2>1, CodeByteIs
    <3>. QED BY <2>1, <3>1
  <2>5. c[k + 1] = CodeByte(x, k + 1)
    BY <1>1, <2>1
  <2>6. x % GroupPower[k + 1] = (x % GroupPower[k]) + ((x \div GroupPower[k]) % Group) * GroupPower[k]
    BY <1>4, <2>1, OneMoreGroup
  <2>. QED BY ONLY <2>2, <2>3, <2>4, <2>5, <2>6, Zenon
<1>. HIDE DEF S
<1>7. n \in S
  BY <1>5, <1>6, SetInduction
<1>8. f[n] = x % GroupPower[n]
  BY <1>7 DEF S
<1>9. x % GroupPower[n] = x
  <2>1. x < GroupPower[n] /\ GroupPower[n] \in Nat /\ GroupPower[n] >= 1
    BY <1>1, VarintLenIs, PowersAre
  <2>2. x = 0 * GroupPower[n] + x
    BY <1>4, <2>1
  <2>. QED BY <1>4, <2>1, <2>2, DivModOf
<1>. QED BY <1>3, <1>8, <1>9

\* The sizes of the values, one after the other.
LEMMA SizesAre ==
    ASSUME call.values \in Seq(0 .. Modulus - 1)
    PROVE  /\ Len(call.values) \in Nat /\ SizeUpTo(0) = 0
           /\ \A k \in 0 .. Len(call.values) : SizeUpTo(k) \in Nat
           /\ \A k \in 1 .. Len(call.values) :
                /\ call.values[k] \in 0 .. Modulus - 1
                /\ SizeUpTo(k) = SizeUpTo(k - 1) + VarintLen(call.values[k])
<1>. PICK vs : vs = call.values
  OBVIOUS
<1>. DEFINE t == [m \in 1 .. Len(vs) |-> VarintLen(vs[m])]
<1>1. PICK n \in Nat : n = Len(vs)
  OBVIOUS
<1>2. \A k \in 1 .. n : vs[k] \in 0 .. Modulus - 1
  BY <1>1, ElementOfSeq
<1>3. \A k \in 1 .. n : VarintLen(vs[k]) \in Nat
  BY <1>2, VarintLenIs
<1>4. Len(t) = n /\ \A k \in 1 .. n : t[k] = VarintLen(vs[k])
  <2>1. t = [m \in 1 .. n |-> VarintLen(vs[m])]
    BY <1>1
  <2>2. \A k \in 1 .. n : t[k] = VarintLen(vs[k])
    BY <2>1, Zenon
  <2>. HIDE DEF t
  <2>3. t \in Seq(Nat)
    BY <1>1, <1>3, <2>1
  <2>4. Len(t) = n
    BY <1>1, <2>1, <2>3
  <2>. QED BY <2>2, <2>4
<1>5. \A k : SizeUpTo(k) = RunningSums(t)[k]
  BY DEF SizeUpTo
<1>. HIDE DEF t
<1>6. PICK f : f = RunningSums(t)
  OBVIOUS
<1>7. \A k \in 1 .. n : t[k] \in Nat
  BY <1>3, <1>4
<1>8. f \in [0 .. n -> Nat] /\ f[0] = 0 /\ \A k \in 1 .. n : f[k] = f[k - 1] + t[k]
  BY <1>4, <1>6, <1>7, RunningSumsAre
<1>9. \A k \in 1 .. n : f[k] = f[k - 1] + VarintLen(vs[k])
  BY <1>4, <1>8, Zenon
<1>10. \A k \in 0 .. n : f[k] \in Nat
  BY <1>8
<1>. QED BY <1>1, <1>2, <1>5, <1>6, <1>8, <1>9, <1>10, Zenon

LEMMA SizesGrow ==
    ASSUME call.values \in Seq(0 .. Modulus - 1), NEW k \in 0 .. Len(call.values), NEW m \in 0 .. Len(call.values), k <= m
    PROVE  SizeUpTo(k) <= SizeUpTo(m) /\ (k < m => SizeUpTo(k) < SizeUpTo(m))
<1>1. PICK n \in Nat : n = Len(call.values)
  BY SizesAre
<1>2. \A x \in 0 .. n : SizeUpTo(x) \in Nat
  BY <1>1, SizesAre
<1>3. \A x \in 0 .. n : x + 1 <= n => SizeUpTo(x) < SizeUpTo(x + 1)
  <2>. SUFFICES ASSUME NEW x \in 0 .. n, x + 1 <= n PROVE SizeUpTo(x) < SizeUpTo(x + 1)
    OBVIOUS
  <2>1. x + 1 \in 1 .. n /\ (x + 1) - 1 = x /\ x + 1 \in 0 .. n
    OBVIOUS
  <2>2. SizeUpTo(x + 1) = SizeUpTo(x) + VarintLen(call.values[x + 1]) /\ call.values[x + 1] \in 0 .. Modulus - 1
    BY <1>1, <2>1, SizesAre
  <2>3. VarintLen(call.values[x + 1]) \in 1 .. MaxLen /\ MaxLen \in Nat
    BY <2>2, VarintLenIs, PowersAre
  <2>. QED BY <1>2, <2>1, <2>2, <2>3
<1>. DEFINE S == {d \in Nat : k + d <= n => SizeUpTo(k) <= SizeUpTo(k + d) /\ (d > 0 => SizeUpTo(k) < SizeUpTo(k + d))}
<1>4. 0 \in S
  BY <1>1, <1>2
<1>5. ASSUME NEW d \in Nat, d \in S PROVE d + 1 \in S
  <2>. SUFFICES ASSUME k + (d + 1) <= n PROVE SizeUpTo(k) < SizeUpTo(k + (d + 1)) /\ SizeUpTo(k) <= SizeUpTo(k + (d + 1))
    OBVIOUS
  <2>1. k + d \in 0 .. n /\ (k + d) + 1 <= n /\ k + (d + 1) = (k + d) + 1 /\ k \in 0 .. n /\ k + (d + 1) \in 0 .. n
    BY <1>1
  <2>2. SizeUpTo(k) <= SizeUpTo(k + d) /\ SizeUpTo(k + d) < SizeUpTo(k + (d + 1))
    BY <1>3, <1>5, <2>1
  <2>3. SizeUpTo(k) \in Nat /\ SizeUpTo(k + d) \in Nat /\ SizeUpTo(k + (d + 1)) \in Nat
    BY <1>2, <2>1
  <2>. QED BY <2>2, <2>3
<1>. HIDE DEF S
<1>6. m - k \in S /\ k + (m - k) = m /\ (k < m => m - k > 0)
  <2>1. m - k \in Nat
    BY <1>1
  <2>2. m - k \in S
    BY <1>4, <1>5, <2>1, SetInduction
  <2>. QED BY <1>1, <2>2
<1>. QED BY <1>1, <1>6 DEF S

LEMMA ModulusIs == Modulus \in Nat /\ Modulus >= 1 /\ GroupPower[Load] <= Modulus /\ Load \in 1 .. MaxLen /\ Load \in Nat
<1>1. Load \in 0 .. MaxLen /\ MaxLen \in 0 .. MaxLen /\ Load \in Nat
  BY PowersAre, VarintAssumption
<1>2. GroupPower[Load] \in Nat /\ GroupPower[Load] >= 1 /\ GroupPower[MaxLen] \in Nat
  BY <1>1, PowersAre
<1>. QED BY <1>1, <1>2, VarintAssumption

\* The streams, and where their values end.
Streams == Seq(0 .. 2 * Group - 1)

\* A code of l bytes begins at place p of s.
CodeAt(s, p, l) ==
    /\ p + l <= Len(s) /\ ~Continues(s[p + l])
    /\ \A k \in 1 .. l - 1 : Continues(s[p + k])

LEMMA EndsAre ==
    ASSUME NEW s \in Streams
    PROVE  /\ Len(s) \in Nat /\ WholeEnds(s) \in SUBSET Int /\ IsFiniteSet(WholeEnds(s))
           /\ \A p \in WholeEnds(s) : p \in 1 .. Len(s)
           /\ \A p \in Int : Place(WholeEnds(s), p) \in Nat
<1>1. Len(s) \in Nat /\ DOMAIN s = 1 .. Len(s)
  BY DEF Streams
<1>2. WholeEnds(s) \subseteq 1 .. Len(s)
  BY <1>1 DEF WholeEnds
<1>3. IsFiniteSet(WholeEnds(s))
  <2>1. IsFiniteSet(1 .. Len(s))
    BY <1>1, FS_Interval
  <2>. QED BY <1>2, <2>1, FS_Subset
<1>4. ASSUME NEW p \in Int PROVE Place(WholeEnds(s), p) \in Nat
  <2>. DEFINE L == {q \in WholeEnds(s) : q <= p}
  <2>1. L \subseteq WholeEnds(s)
    OBVIOUS
  <2>. HIDE DEF L
  <2>2. IsFiniteSet(L)
    BY <1>3, <2>1, FS_Subset
  <2>. QED BY <2>2, FS_CardinalityType DEF Place, L
<1>. QED BY <1>1, <1>2, <1>3, <1>4

LEMMA NoneAtZero ==
    ASSUME NEW s \in Streams
    PROVE  Place(WholeEnds(s), 0) = 0
<1>1. {q \in WholeEnds(s) : q <= 0} = {}
  BY EndsAre
<1>. QED BY <1>1, FS_EmptySet, Zenon DEF Place

\* Past an end, or at the start, the code that begins there is the next value.
LEMMA NextEnd ==
    ASSUME NEW s \in Streams, NEW p \in WholeEnds(s) \union {0}, NEW l \in 1 .. MaxLen, CodeAt(s, p, l)
    PROVE  /\ p \in Nat /\ p + l \in WholeEnds(s)
           /\ \A q \in WholeEnds(s) : q <= p \/ q >= p + l
           /\ Place(WholeEnds(s), p + l) = Place(WholeEnds(s), p) + 1
           /\ WholeValue(s, p + l) = Weighted(SubSeq(s, p + 1, p + l)) % Modulus
<1>. DEFINE ends == WholeEnds(s)
<1>1. /\ Len(s) \in Nat /\ p \in Nat /\ l \in Nat /\ l >= 1 /\ MaxLen \in Nat /\ l <= MaxLen
      /\ \A q \in ends : q \in 1 .. Len(s)
  <2>1. Len(s) \in Nat /\ \A q \in WholeEnds(s) : q \in 1 .. Len(s)
    BY EndsAre
  <2>2. p \in Nat
    BY <2>1
  <2>. QED BY <2>1, <2>2, PowersAre
<1>2. p + l <= Len(s) /\ ~Continues(s[p + l]) /\ \A k \in 1 .. l - 1 : Continues(s[p + k])
  BY Zenon DEF CodeAt
<1>3. p + l \in ends
  <2>1. ASSUME NEW q \in 1 .. (p + l) - MaxLen PROVE \E k \in q .. q + MaxLen - 1 : ~Continues(s[k])
    <3>1. q \in 1 .. p
      BY <1>1
    <3>2. p \in WholeEnds(s)
      BY <1>1, <3>1
    <3>3. CASE q + MaxLen - 1 >= p
      <4>1. p \in q .. q + MaxLen - 1
        BY <1>1, <3>1, <3>3
      <4>. QED BY <3>2, <4>1 DEF WholeEnds
    <3>4. CASE ~(q + MaxLen - 1 >= p)
      <4>1. q \in 1 .. p - MaxLen
        BY <1>1, <3>1, <3>4
      <4>. QED BY <3>2, <4>1 DEF WholeEnds
    <3>. QED BY <3>3, <3>4
  <2>2. p + l \in DOMAIN s
    BY <1>1, <1>2 DEF Streams
  <2>. QED BY <1>2, <2>1, <2>2 DEF WholeEnds
<1>4. ASSUME NEW q \in ends PROVE q <= p \/ q >= p + l
  <2>. SUFFICES ASSUME ~(q <= p), ~(q >= p + l) PROVE FALSE
    OBVIOUS
  <2>1. q - p \in 1 .. l - 1 /\ p + (q - p) = q
    BY <1>1
  <2>2. Continues(s[q])
    BY <1>2, <2>1
  <2>. QED BY <2>2 DEF WholeEnds
<1>. HIDE DEF ends
<1>. DEFINE L == {q \in ends : q <= p}
            M == {q \in ends : q <= p + l}
<1>5. M = L \union {p + l} /\ p + l \notin L
  BY <1>1, <1>3, <1>4
<1>6. IsFiniteSet(L)
  <2>1. L \subseteq WholeEnds(s)
    BY DEF ends
  <2>. QED BY <2>1, EndsAre, FS_Subset
<1>7. Place(ends, p) = Cardinality(L) /\ Place(ends, p + l) = Cardinality(M)
  BY DEF Place
<1>. DEFINE from == {q \in ends : q < p + l}
<1>8. from = L
  BY <1>1, <1>4
<1>. DEFINE start == IF from = {} THEN 0 ELSE CHOOSE q \in from : \A r \in from : r <= q
<1>9. WholeValue(s, p + l) = Weighted(SubSeq(s, start + 1, p + l)) % Modulus
  BY DEF WholeValue, ends
<1>10. start = p
  <2>1. CASE p = 0
    <3>1. L = {}
      BY <1>1, <2>1
    <3>. QED BY <1>8, <2>1, <3>1
  <2>2. CASE p # 0
    <3>1. p \in L
      BY <1>1, <2>2 DEF ends
    <3>2. \A r \in L : r <= p /\ r \in Int
      BY <1>1
    <3>3. \A q \in L : (\A r \in L : r <= q) => q = p
      BY <1>1, <3>1, <3>2
    <3>. HIDE DEF L
    <3>4. (CHOOSE q \in L : \A r \in L : r <= q) = p
      BY <3>1, <3>2, <3>3
    <3>. QED BY <1>8, <3>1, <3>4
  <2>. QED BY <2>1, <2>2
<1>. HIDE DEF L, M, from, start
<1>11. Cardinality(M) = Cardinality(L) + 1
  BY <1>5, <1>6, FS_AddElement
<1>. QED BY <1>1, <1>3, <1>4, <1>7, <1>9, <1>10, <1>11 DEF ends

\* ... and where none begins there is none further on.
LEMMA NoneBeyond ==
    ASSUME NEW s \in Streams, NEW p \in Nat, \A l \in 1 .. MaxLen : ~CodeAt(s, p, l)
    PROVE  \A q \in WholeEnds(s) : q <= p
<1>. SUFFICES ASSUME NEW q \in WholeEnds(s), ~(q <= p) PROVE FALSE
  OBVIOUS
<1>1. /\ Len(s) \in Nat /\ DOMAIN s = 1 .. Len(s) /\ MaxLen \in Nat /\ MaxLen >= 1 /\ q \in 1 .. Len(s)
      /\ ~Continues(s[q])
      /\ \A z \in 1 .. q - MaxLen : \E k \in z .. z + MaxLen - 1 : ~Continues(s[k])
  BY EndsAre, PowersAre DEF Streams, WholeEnds
<1>. DEFINE T == {m \in Nat : m > p /\ m <= Len(s) /\ ~Continues(s[m])}
<1>2. q \in T
  BY <1>1
<1>3. PICK m \in T : \A k \in T : m <= k
  BY <1>2, LeastNatural
<1>4. m \in Nat /\ m > p /\ m <= Len(s) /\ ~Continues(s[m]) /\ m <= q
  BY <1>2, <1>3
<1>5. \A k \in Nat : k > p /\ k < m => Continues(s[k])
  <2>. SUFFICES ASSUME NEW k \in Nat, k > p, k < m, ~Continues(s[k]) PROVE FALSE
    OBVIOUS
  <2>1. k \in T
    BY <1>1, <1>4
  <2>. QED BY <1>3, <1>4, <2>1
<1>. HIDE DEF T
<1>6. m - p \in Nat /\ m - p >= 1 /\ p + (m - p) = m
  BY <1>4
<1>7. CASE m - p <= MaxLen
  <2>1. \A k \in 1 .. (m - p) - 1 : p + k \in Nat /\ p + k > p /\ p + k < m
    BY <1>4
  <2>2. CodeAt(s, p, m - p)
    BY <1>4, <1>5, <1>6, <2>1 DEF CodeAt
  <2>. QED BY <1>1, <1>6, <1>7, <2>2
<1>8. CASE ~(m - p <= MaxLen)
  <2>1. p + 1 \in 1 .. q - MaxLen
    BY <1>1, <1>4, <1>8
  <2>2. PICK k \in p + 1 .. (p + 1) + MaxLen - 1 : ~Continues(s[k])
    BY <1>1, <2>1
  <2>3. k \in Nat /\ k > p /\ k < m
    BY <1>1, <1>4, <1>8
  <2>. QED BY <1>5, <2>2, <2>3
<1>. QED BY <1>7, <1>8

\* What of a stream is a value's word.
LEMMA CodeWeighs ==
    ASSUME NEW s \in Streams, NEW p \in Nat, NEW l \in 1 .. MaxLen, p + l <= Len(s)
    PROVE  LET c == SubSeq(s, p + 1, p + l)
           IN /\ Len(c) = l /\ \A y \in 1 .. l : c[y] = s[p + y]
              /\ Weighted(c) \in Nat /\ Weighted(c) < GroupPower[l]
<1>1. l \in Nat /\ l \in 0 .. MaxLen /\ Group \in Nat /\ MaxLen \in Nat
  BY PowersAre
<1>2. s \in Seq(Int) /\ \A k \in 1 .. Len(s) : s[k] \in Nat
  BY <1>1 DEF Streams
<1>. DEFINE c == SubSeq(s, p + 1, p + l)
<1>3. Len(c) = l /\ \A y \in 1 .. l : c[y] = s[p + y]
  BY <1>1, <1>2, PartIs
<1>. HIDE DEF c
<1>4. \A y \in 1 .. l : c[y] \in Nat
  <2>1. \A y \in 1 .. l : p + y \in 1 .. Len(s)
    BY <1>1
  <2>. QED BY <1>2, <1>3, <2>1
<1>5. Weighted(c) \in Nat /\ Weighted(c) < GroupPower[l]
  BY <1>1, <1>3, <1>4, WeightedSmall
<1>. QED BY <1>3, <1>5 DEF c

\* In what the encoder wrote the next code is the next value's.
LEMMA NextOfColumn ==
    ASSUME call.values \in Seq(0 .. Modulus - 1), NEW s \in Streams, Coded(s, Len(call.values), 0),
           NEW n \in 0 .. Len(call.values)
    PROVE  /\ SizeUpTo(n) \in Nat /\ n = Len(call.values) => SizeUpTo(n) = Len(s)
           /\ n < Len(call.values) =>
                /\ VarintLen(call.values[n + 1]) \in 1 .. MaxLen
                /\ CodeAt(s, SizeUpTo(n), VarintLen(call.values[n + 1]))
           /\ \A l \in 1 .. MaxLen : CodeAt(s, SizeUpTo(n), l) =>
                /\ n < Len(call.values) /\ SizeUpTo(n) + l = SizeUpTo(n + 1)
                /\ Weighted(SubSeq(s, SizeUpTo(n) + 1, SizeUpTo(n) + l)) = call.values[n + 1]
                /\ call.values[n + 1] \in Nat /\ call.values[n + 1] < Modulus
<1>1. PICK z \in Nat : z = Len(call.values)
  BY SizesAre
<1>2. PICK p \in Nat : p = SizeUpTo(n)
  BY <1>1, SizesAre
<1>3. /\ Len(s) = SizeUpTo(z) /\ Len(s) \in Nat
      /\ \A m \in 1 .. z : \A j \in 1 .. VarintLen(call.values[m]) :
           s[SizeUpTo(m - 1) + j] = CodeByte(call.values[m], j)
  <2>1. SizeUpTo(z) + 0 = SizeUpTo(z)
    BY <1>1, SizesAre
  <2>. QED BY <1>1, <2>1, EndsAre, Zenon DEF Coded
<1>4. n = z => p = Len(s)
  BY <1>2, <1>3
<1>5. ASSUME n < z
      PROVE  \E x \in Nat, b \in Nat :
               /\ x = call.values[n + 1] /\ b = VarintLen(x) /\ x \in 0 .. Modulus - 1 /\ b \in 1 .. MaxLen
               /\ p + b = SizeUpTo(n + 1) /\ p + b <= Len(s)
               /\ \A j \in 1 .. b : s[p + j] = CodeByte(x, j) /\ (Continues(s[p + j]) <=> j < b)
  <2>1. n + 1 \in 1 .. z /\ (n + 1) - 1 = n /\ n + 1 \in 0 .. z /\ z \in 0 .. z
    BY <1>1, <1>5
  <2>2. /\ call.values[n + 1] \in 0 .. Modulus - 1
        /\ SizeUpTo(n + 1) = SizeUpTo(n) + VarintLen(call.values[n + 1])
    <3>1. /\ call.values[n + 1] \in 0 .. Modulus - 1
          /\ SizeUpTo(n + 1) = SizeUpTo((n + 1) - 1) + VarintLen(call.values[n + 1])
      BY <1>1, <2>1, SizesAre, Zenon
    <3>. QED BY <2>1, <3>1, Zenon
  <2>3. PICK x \in 0 .. Modulus - 1 : x = call.values[n + 1]
    BY <2>2
  <2>4. PICK b \in Nat : b = VarintLen(x) /\ b \in 1 .. MaxLen
    BY VarintLenIs
  <2>5. SizeUpTo(n + 1) <= SizeUpTo(z)
    BY <1>1, <2>1, SizesGrow
  <2>6. p + b = SizeUpTo(n + 1) /\ p + b <= Len(s)
    BY <1>2, <1>3, <2>2, <2>3, <2>4, <2>5
  <2>7. \A j \in 1 .. b : s[p + j] = CodeByte(x, j)
    <3>1. \A j \in 1 .. VarintLen(call.values[n + 1]) : s[SizeUpTo((n + 1) - 1) + j] = CodeByte(call.values[n + 1], j)
      BY <1>3, <2>1, Zenon
    <3>. QED BY <1>2, <2>1, <2>3, <2>4, <3>1, Zenon
  <2>8. \A j \in 1 .. b : Continues(CodeByte(x, j)) <=> j < b
    BY <2>4, CodeByteIs
  <2>9. x \in Nat
    <3>1. 1 \in 1 .. VarintLen(x)
      BY <2>4, PowersAre
    <3>. QED BY <3>1, CodeByteIs
  <2>10. \A j \in 1 .. b : s[p + j] = CodeByte(x, j) /\ (Continues(s[p + j]) <=> j < b)
    BY <2>7, <2>8
  <2>. QED BY ONLY <2>3, <2>4, <2>6, <2>9, <2>10, Zenon
<1>6. n < z => VarintLen(call.values[n + 1]) \in 1 .. MaxLen /\ CodeAt(s, p, VarintLen(call.values[n + 1]))
  <2>. SUFFICES ASSUME n < z PROVE VarintLen(call.values[n + 1]) \in 1 .. MaxLen /\ CodeAt(s, p, VarintLen(call.values[n + 1]))
    OBVIOUS
  <2>1. PICK x \in Nat, b \in Nat :
               /\ x = call.values[n + 1] /\ b = VarintLen(x) /\ x \in 0 .. Modulus - 1 /\ b \in 1 .. MaxLen
               /\ p + b = SizeUpTo(n + 1) /\ p + b <= Len(s)
               /\ \A j \in 1 .. b : s[p + j] = CodeByte(x, j) /\ (Continues(s[p + j]) <=> j < b)
    BY <1>5, Zenon
  <2>2. b \in 1 .. b /\ \A k \in 1 .. b - 1 : k \in 1 .. b /\ k < b
    <3>1. b \in 1 .. MaxLen
      BY <2>1
    <3>2. b >= 1
      BY ONLY <3>1, b \in Nat
    <3>. QED BY ONLY <3>2, b \in Nat
  <2>3. CodeAt(s, p, b)
    BY <2>1, <2>2 DEF CodeAt
  <2>. QED BY <2>1, <2>3
<1>7. ASSUME NEW l \in 1 .. MaxLen, CodeAt(s, p, l)
      PROVE  /\ n < z /\ p + l = SizeUpTo(n + 1) /\ Weighted(SubSeq(s, p + 1, p + l)) = call.values[n + 1]
             /\ call.values[n + 1] \in Nat /\ call.values[n + 1] < Modulus
  <2>1. l \in Nat /\ l >= 1 /\ p + l <= Len(s) /\ ~Continues(s[p + l]) /\ \A k \in 1 .. l - 1 : Continues(s[p + k])
    BY <1>7, PowersAre DEF CodeAt
  <2>2. n < z
    BY <1>1, <1>3, <1>4, <2>1
  <2>3. PICK x \in Nat, b \in Nat :
               /\ x = call.values[n + 1] /\ b = VarintLen(x) /\ x \in 0 .. Modulus - 1 /\ b \in 1 .. MaxLen
               /\ p + b = SizeUpTo(n + 1) /\ p + b <= Len(s)
               /\ \A j \in 1 .. b : s[p + j] = CodeByte(x, j) /\ (Continues(s[p + j]) <=> j < b)
    BY <1>5, <2>2, Zenon
  <2>4. b >= 1 /\ b <= MaxLen /\ MaxLen \in Nat
    BY <2>3, PowersAre
  <2>5. ~(b < l)
    <3>. SUFFICES ASSUME b < l PROVE FALSE
      OBVIOUS
    <3>1. b \in 1 .. l - 1 /\ b \in 1 .. b /\ ~(b < b)
      BY <2>1, <2>4
    <3>. QED BY <2>1, <2>3, <3>1
  <2>6. ~(l < b)
    <3>. SUFFICES ASSUME l < b PROVE FALSE
      OBVIOUS
    <3>1. l \in 1 .. b
      BY <2>1
    <3>. QED BY <2>1, <2>3, <3>1
  <2>7. l = b
    BY <2>1, <2>5, <2>6
  <2>. DEFINE c == SubSeq(s, p + 1, p + b)
  <2>8. Len(c) = b /\ \A y \in 1 .. b : c[y] = s[p + y]
    <3>1. p + b <= Len(s) /\ b \in 1 .. MaxLen /\ s \in Streams /\ p \in Nat
      BY <2>3
    <3>. QED BY ONLY <3>1, CodeWeighs, ZenonT(120)
  <2>. HIDE DEF c
  <2>9. Weighted(c) = x
    <3>1. \A j \in 1 .. VarintLen(x) : c[j] = CodeByte(x, j)
      BY <2>3, <2>8
    <3>. QED BY <2>3, <2>8, <3>1, WeightedCode
  <2>10. x < Modulus
    <3>1. Modulus \in Int
      BY ModulusIs
    <3>. QED BY <2>3, <3>1, SMTT(120)
  <2>. QED BY <2>2, <2>3, <2>7, <2>9, <2>10 DEF c
<1>. QED BY <1>1, <1>2, <1>4, <1>6, <1>7, Zenon

\* A call's arguments do not change, nor what is said of them.
LEMMA SameColumn ==
    ASSUME call' = call
    PROVE  /\ \A k \in Nat : SizeUpTo(k)' = SizeUpTo(k)
           /\ \A s, k, w : Coded(s, k, w)' <=> Coded(s, k, w)
BY DEF SizeUpTo, Coded

LEMMA StreamStarts == VarintInit => StreamParts
<1>. SUFFICES ASSUME VarintInit PROVE StreamParts
  OBVIOUS
<1>1. call.op = "varint" /\ call.impl \in Implementations /\ call.raw \in BOOLEAN
  BY DEF VarintInit
<1>2. call.raw => call.values \in Streams
  BY VarintAssumption DEF VarintInit, Streams
<1>3. ~call.raw => call.values \in Seq(0 .. Modulus - 1)
  BY VarintAssumption DEF VarintInit
<1>4. /\ st = [pc |-> IF call.raw THEN "receive" ELSE "encode",
               v |-> 1, x |-> 0, have |-> 0, moved |-> TRUE, base |-> 0, i |-> 0, room |-> 0]
      /\ out = [bytes |-> IF call.raw THEN call.values ELSE <<>>, values |-> <<>>]
  BY DEF VarintInit
<1>5. StreamTypes
  <2>1. out.bytes \in Streams
    <3>1. <<>> \in Streams
      BY DEF Streams
    <3>2. out.bytes = IF call.raw THEN call.values ELSE <<>>
      BY <1>4
    <3>. QED BY <1>2, <3>1, <3>2
  <2>. QED BY <1>1, <1>3, <1>4, <2>1 DEF StreamTypes, Streams
<1>6. CASE call.raw
  <2>1. Len(out.bytes) \in Nat /\ Place(WholeEnds(out.bytes), 0) = 0 /\ \A p \in WholeEnds(out.bytes) : p \in 1 .. Len(out.bytes)
    BY <1>2, <1>4, <1>6, EndsAre, NoneAtZero
  <2>2. \A p \in WholeEnds(out.bytes) : ~(p <= 0)
    BY <2>1
  <2>3. /\ st.base + st.i = 0 /\ st.have = 0 /\ st.i = 0 /\ st.pc = "receive" /\ st.moved /\ ~Returned /\ 0 <= Len(out.bytes)
        /\ Len(out.values) = 0
    BY <1>4, <1>6, <2>1 DEF Returned
  <2>4. DecodePart
    BY <2>1, <2>2, <2>3 DEF DecodePart
  <2>. QED BY <1>5, <1>6, <2>3, <2>4 DEF StreamParts
<1>7. CASE ~call.raw
  <2>1. st.pc = "encode" /\ st.v = 1 /\ st.x = 0 /\ out.values = <<>> /\ st.base = 0 /\ st.i = 0 /\ st.have = 0 /\ st.moved
        /\ out.bytes = <<>>
    BY <1>4, <1>7
  <2>2. Len(call.values) \in Nat /\ SizeUpTo(0) = 0 /\ \A k \in 1 .. Len(call.values) : call.values[k] \in 0 .. Modulus - 1
    BY <1>3, <1>7, SizesAre
  <2>3. st.v \in 1 .. Len(call.values) + 1 /\ st.v - 1 = 0
    BY <2>1, <2>2
  <2>4. st.v <= Len(call.values) => st.x < VarintLen(call.values[st.v])
    <3>. SUFFICES ASSUME st.v <= Len(call.values) PROVE st.x < VarintLen(call.values[st.v])
      OBVIOUS
    <3>1. VarintLen(call.values[1]) \in 1 .. MaxLen /\ MaxLen \in Nat
      BY <2>1, <2>2, VarintLenIs, PowersAre
    <3>. QED BY <2>1, <3>1
  <2>5. Coded(<<>>, 0, 0)
    BY <2>2 DEF Coded
  <2>6. EncodePart
    BY <1>7, <2>1, <2>3, <2>4, <2>5 DEF EncodePart
  <2>. QED BY <1>5, <2>1, <2>6 DEF StreamParts
<1>. QED BY <1>6, <1>7

\* One byte more of a code, and a code that is complete.
LEMMA CodedMore ==
    ASSUME call.values \in Seq(0 .. Modulus - 1), NEW s \in Streams,
           NEW k \in Nat, k < Len(call.values), NEW w \in Nat, w < VarintLen(call.values[k + 1]), Coded(s, k, w),
           NEW t \in Streams, t = Append(s, CodeByte(call.values[k + 1], w + 1))
    PROVE  Coded(t, k, w + 1) /\ (w + 1 = VarintLen(call.values[k + 1]) => Coded(t, k + 1, 0))
<1>1. PICK z, x, b : z \in Nat /\ z = Len(call.values) /\ x = call.values[k + 1] /\ b = VarintLen(x) /\ k + 1 \in 1 .. z
  <2>1. Len(call.values) \in Nat
    BY SizesAre
  <2>2. k + 1 \in 1 .. Len(call.values)
    BY <2>1
  <2>. QED BY <2>1, <2>2
<1>2. PICK p \in Nat, n \in Nat : p = SizeUpTo(k) /\ n = Len(s) /\ n = p + w
  <2>1. k \in 0 .. Len(call.values)
    BY <1>1
  <2>. QED BY <2>1, SizesAre, EndsAre DEF Coded
<1>3. Len(t) = n + 1 /\ t[n + 1] = CodeByte(x, w + 1) /\ \A y \in 1 .. n : t[y] = s[y]
  <2>1. CodeByte(x, w + 1) \in 0 .. 2 * Group - 1
    <3>1. x \in 0 .. Modulus - 1
      BY <1>1, SizesAre
    <3>2. b \in Nat
      BY <1>1, <3>1, VarintLenIs
    <3>3. w + 1 \in 1 .. b
      BY <1>1, <3>2
    <3>. QED BY <1>1, <3>1, <3>3, CodeByteIs
  <2>2. CodeByte(x, w + 1) = t[Len(s) + 1] /\ Len(t) = Len(s) + 1 /\ \A y \in 1 .. Len(s) : t[y] = s[y]
    BY <1>1, <2>1, AppendProperties DEF Streams
  <2>. QED BY <1>2, <2>2
<1>4. \A m \in 1 .. k : \A j \in 1 .. VarintLen(call.values[m]) :
         t[SizeUpTo(m - 1) + j] = CodeByte(call.values[m], j)
  <2>. TAKE m \in 1 .. k
  <2>. TAKE j \in 1 .. VarintLen(call.values[m])
  <2>1. s[SizeUpTo(m - 1) + j] = CodeByte(call.values[m], j)
    BY DEF Coded
  <2>2. m \in 1 .. z /\ m - 1 \in 0 .. z /\ m \in 0 .. z /\ k \in 0 .. z /\ m <= k
    BY <1>1
  <2>3. call.values[m] \in 0 .. Modulus - 1 /\ SizeUpTo(m) = SizeUpTo(m - 1) + VarintLen(call.values[m])
        /\ SizeUpTo(m - 1) \in Nat /\ SizeUpTo(m) \in Nat
    BY <1>1, <2>2, SizesAre
  <2>4. SizeUpTo(m) <= p
    BY <1>1, <1>2, <2>2, SizesGrow
  <2>5. VarintLen(call.values[m]) \in Nat
    BY <2>3, VarintLenIs
  <2>6. SizeUpTo(m - 1) + j \in 1 .. n
    <3>1. PICK f \in Nat, g \in Nat, d \in Nat : f = SizeUpTo(m - 1) /\ g = SizeUpTo(m) /\ d = VarintLen(call.values[m])
      BY <2>3, <2>5
    <3>2. g = f + d /\ g <= p /\ j \in 1 .. d
      BY <2>3, <2>4, <3>1
    <3>3. f + j \in 1 .. n
      BY ONLY <1>2, <3>1, <3>2, n \in Nat, p \in Nat, w \in Nat
    <3>. QED BY <3>1, <3>3
  <2>. QED BY <1>3, <2>1, <2>6
<1>5. \A j \in 1 .. w + 1 : t[p + j] = CodeByte(x, j)
  <2>. TAKE j \in 1 .. w + 1
  <2>1. CASE j = w + 1
    BY <1>2, <1>3, <2>1, SMTT(120)
  <2>2. CASE j # w + 1
    <3>1. j \in 1 .. w /\ p + j \in 1 .. n
      BY <1>2, <2>2, SMTT(120)
    <3>2. s[p + j] = CodeByte(x, j)
      BY <1>1, <1>2, <3>1 DEF Coded
    <3>. QED BY <1>3, <3>1, <3>2
  <2>. QED BY <2>1, <2>2
<1>6. Coded(t, k, w + 1)
  <2>1. Len(t) = SizeUpTo(k) + (w + 1)
    BY <1>2, <1>3
  <2>. QED BY <1>1, <1>2, <1>4, <1>5, <2>1, Zenon DEF Coded
<1>7. ASSUME w + 1 = b PROVE Coded(t, k + 1, 0)
  <2>1. (k + 1) - 1 = k /\ SizeUpTo(k + 1) = SizeUpTo((k + 1) - 1) + VarintLen(call.values[k + 1])
    BY <1>1, SizesAre
  <2>2. Len(t) = SizeUpTo(k + 1) + 0
    BY <1>1, <1>2, <1>3, <1>7, <2>1
  <2>3. ASSUME NEW m \in 1 .. k + 1, NEW j \in 1 .. VarintLen(call.values[m])
        PROVE  t[SizeUpTo(m - 1) + j] = CodeByte(call.values[m], j)
    <3>1. CASE m \in 1 .. k
      BY <1>4, <3>1
    <3>2. CASE m = k + 1
      <4>1. j \in 1 .. w + 1
        BY <1>1, <1>7, <3>2
      <4>. QED BY <1>1, <1>2, <1>5, <2>1, <3>2, <4>1
    <3>3. m \in 1 .. k \/ m = k + 1
      OBVIOUS
    <3>. QED BY <3>1, <3>2, <3>3
  <2>4. \A j \in 1 .. 0 : t[SizeUpTo(k + 1) + j] = CodeByte(call.values[(k + 1) + 1], j)
    OBVIOUS
  <2>. QED BY <2>2, <2>3, <2>4, Zenon DEF Coded
<1>. QED BY <1>1, <1>6, <1>7

LEMMA EncodeByteInv == ASSUME StreamParts, EncodeByte PROVE StreamParts'
<1>1. /\ call.op = "varint" /\ st.pc = "encode" /\ st.v <= Len(call.values) /\ call' = call
  BY DEF EncodeByte, In
<1>2. StreamTypes /\ EncodePart
  BY <1>1 DEF StreamParts
<1>3. /\ call.values \in Seq(0 .. Modulus - 1) /\ ~call.raw /\ st.v \in Nat /\ st.v >= 1 /\ st.x \in Nat
      /\ st.x < VarintLen(call.values[st.v]) /\ Coded(out.bytes, st.v - 1, st.x) /\ out.bytes \in Streams
  BY <1>1, <1>2 DEF StreamTypes, EncodePart, Streams
<1>4. PICK k \in Nat, w \in Nat : k = st.v - 1 /\ st.v = k + 1 /\ w = st.x
  BY <1>3
<1>5. k < Len(call.values) /\ k + 1 \in 1 .. Len(call.values) /\ Len(call.values) \in Nat
  BY <1>1, <1>3, <1>4, SizesAre
<1>6. PICK x \in 0 .. Modulus - 1 : x = call.values[k + 1]
  BY <1>3, <1>5, SizesAre
<1>7. PICK b \in Nat : b = VarintLen(x) /\ b \in 1 .. MaxLen /\ w < b
  BY <1>3, <1>4, <1>6, VarintLenIs
<1>8. PICK q : q = x \div GroupPower[w]
  OBVIOUS
<1>9. /\ q >= Group <=> w + 1 < b
      /\ CodeByte(x, w + 1) = IF q >= Group THEN (q % Group) + Group ELSE q
      /\ CodeByte(x, w + 1) \in 0 .. 2 * Group - 1
  <2>1. w + 1 \in 1 .. VarintLen(x) /\ (w + 1) - 1 = w
    BY <1>7
  <2>2. /\ q >= Group <=> w + 1 < b
        /\ w + 1 = b => CodeByte(x, w + 1) = q
        /\ CodeByte(x, w + 1) \in 0 .. 2 * Group - 1
    BY <1>7, <1>8, <2>1, CodeByteIs
  <2>3. w + 1 < b => CodeByte(x, w + 1) = (q % Group) + Group
    BY <1>7, <1>8, <2>1 DEF CodeByte
  <2>4. w + 1 < b \/ w + 1 = b
    BY <1>7
  <2>. QED BY <2>2, <2>3, <2>4
<1>10. PICK t : t = Append(out.bytes, CodeByte(x, w + 1))
  OBVIOUS
<1>11. t \in Streams
  BY <1>3, <1>9, <1>10 DEF Streams
<1>12. Coded(t, k, w + 1) /\ (w + 1 = b => Coded(t, k + 1, 0))
  BY <1>3, <1>4, <1>5, <1>6, <1>7, <1>10, <1>11, CodedMore
<1>13. /\ out' = [out EXCEPT !.bytes = t]
       /\ st' = IF q >= Group THEN [st EXCEPT !.x = @ + 1] ELSE [st EXCEPT !.x = 0, !.v = @ + 1]
  <2>1. IF q >= Group
        THEN /\ out' = [out EXCEPT !.bytes = Append(@, (q % Group) + Group)]
             /\ st' = [st EXCEPT !.x = @ + 1]
        ELSE /\ out' = [out EXCEPT !.bytes = Append(@, q)]
             /\ st' = [st EXCEPT !.x = 0, !.v = @ + 1]
    <3>1. q = call.values[st.v] \div GroupPower[st.x]
      BY <1>4, <1>6, <1>8
    <3>. QED BY <3>1, Zenon DEF EncodeByte
  <2>2. out \in [bytes : Streams, values : Seq(Nat)]
    BY <1>2 DEF StreamTypes, Streams
  <2>3. CASE q >= Group
    BY <1>9, <1>10, <2>1, <2>2, <2>3
  <2>4. CASE ~(q >= Group)
    BY <1>9, <1>10, <2>1, <2>2, <2>4
  <2>. QED BY <2>3, <2>4
<1>14. out'.bytes = t /\ out'.values = <<>> /\ out' \in [bytes : Streams, values : Seq(Nat)]
  <2>1. out \in [bytes : Streams, values : Seq(Nat)] /\ out.values = <<>>
    BY <1>2 DEF StreamTypes, Streams, EncodePart
  <2>. QED BY <1>11, <1>13, <2>1
<1>. DEFINE States == [pc : {"encode", "receive", "decode", "returned"}, v : Nat, x : Nat, have : Nat,
                       moved : BOOLEAN, base : Nat, i : Nat, room : Nat]
<1>15. /\ st' \in States /\ st'.pc = "encode"
       /\ st'.base = 0 /\ st'.i = 0 /\ st'.have = 0 /\ st'.moved
       /\ IF w + 1 < b THEN st'.v = k + 1 /\ st'.x = w + 1 ELSE st'.v = k + 2 /\ st'.x = 0 /\ w + 1 = b
  <2>1. /\ st \in States /\ st.pc = "encode" /\ st.base = 0 /\ st.i = 0 /\ st.have = 0 /\ st.moved
        /\ st.v = k + 1 /\ st.x = w
    BY <1>1, <1>2, <1>4 DEF StreamTypes, EncodePart
  <2>2. CASE q >= Group
    <3>1. w + 1 < b
      BY <1>9, <2>2
    <3>. QED BY <1>13, <2>1, <2>2, <3>1
  <2>3. CASE ~(q >= Group)
    <3>1. ~(w + 1 < b) /\ w + 1 = b
      BY <1>7, <1>9, <2>3
    <3>2. st' = [st EXCEPT !.x = 0, !.v = st.v + 1]
      BY <1>13, <2>3
    <3>3. st.v + 1 = k + 2
      BY <2>1
    <3>4. st'.v = k + 2 /\ st'.x = 0
      BY <2>1, <3>2, <3>3
    <3>5. st' \in States /\ st'.pc = "encode" /\ st'.base = 0 /\ st'.i = 0 /\ st'.have = 0 /\ st'.moved
      <4>1. PICK y \in Nat : y = st.v + 1
        BY <3>3
      <4>2. st' = [st EXCEPT !.x = 0, !.v = y]
        BY <3>2, <4>1
      <4>. QED BY <2>1, <4>2
    <3>. QED BY <3>1, <3>4, <3>5
  <2>. QED BY <2>2, <2>3
<1>16. StreamTypes'
  BY <1>1, <1>2, <1>14, <1>15 DEF StreamTypes, Streams
<1>17. st'.v \in 1 .. Len(call.values) + 1
       /\ (IF st'.v <= Len(call.values) THEN st'.x < VarintLen(call.values[st'.v]) ELSE st'.x = 0)
       /\ Coded(t, st'.v - 1, st'.x)
  <2>1. CASE w + 1 < b
    <3>1. st'.v = k + 1 /\ st'.x = w + 1 /\ st'.v - 1 = k
      BY <1>15, <2>1
    <3>. QED BY <1>5, <1>6, <1>7, <1>12, <2>1, <3>1
  <2>2. CASE ~(w + 1 < b)
    <3>1. st'.v = k + 2 /\ st'.x = 0 /\ st'.v - 1 = k + 1 /\ w + 1 = b
      BY <1>15, <2>2
    <3>2. st'.v <= Len(call.values) => 0 < VarintLen(call.values[st'.v])
      <4>. SUFFICES ASSUME st'.v <= Len(call.values) PROVE 0 < VarintLen(call.values[st'.v])
        OBVIOUS
      <4>1. call.values[st'.v] \in 0 .. Modulus - 1
        <5>1. st'.v \in 1 .. Len(call.values)
          BY <1>5, <3>1
        <5>. QED BY <1>3, <5>1, SizesAre
      <4>2. VarintLen(call.values[st'.v]) \in 1 .. MaxLen /\ MaxLen \in Nat
        BY <4>1, VarintLenIs, PowersAre
      <4>. QED BY <4>2
    <3>3. st'.v \in 1 .. Len(call.values) + 1
      BY <1>5, <3>1
    <3>. QED BY <1>12, <3>1, <3>2, <3>3
  <2>. QED BY <2>1, <2>2
<1>18. EncodePart'
  <2>1. Coded(out.bytes, st.v - 1, st.x)'
    <3>1. (\A s, kk, ww : Coded(s, kk, ww))' <=> \A s, kk, ww : Coded(s, kk, ww)'
      OBVIOUS
    <3>. QED BY <1>1, <1>14, <1>17 DEF Coded, SizeUpTo
  <2>. QED BY <1>1, <1>3, <1>14, <1>15, <1>17, <2>1, Zenon DEF EncodePart
<1>. QED BY <1>15, <1>16, <1>18 DEF StreamParts

LEMMA EncodedInv == ASSUME StreamParts, Encoded PROVE StreamParts'
<1>1. /\ call.op = "varint" /\ st.pc = "encode" /\ st.v > Len(call.values) /\ call' = call /\ out' = out
      /\ st' = [st EXCEPT !.pc = "receive"]
  BY DEF Encoded, In
<1>2. StreamTypes /\ EncodePart
  BY <1>1 DEF StreamParts
<1>3. /\ call.values \in Seq(0 .. Modulus - 1) /\ ~call.raw /\ out.bytes \in Streams /\ out.values = <<>>
      /\ st.v \in 1 .. Len(call.values) + 1 /\ st.x = 0
      /\ st.base = 0 /\ st.i = 0 /\ st.have = 0 /\ st.moved /\ Coded(out.bytes, st.v - 1, st.x)
  BY <1>1, <1>2 DEF StreamTypes, EncodePart, Streams
<1>4. Len(call.values) \in Nat /\ SizeUpTo(0) = 0
  BY <1>3, SizesAre
<1>5. Coded(out.bytes, Len(call.values), 0)
  <2>1. st.v - 1 = Len(call.values)
    BY <1>1, <1>3, <1>4
  <2>. QED BY <1>3, <2>1
<1>6. /\ st'.pc = "receive" /\ st'.base = 0 /\ st'.i = 0 /\ st'.have = 0 /\ st'.moved
  BY <1>1, <1>2, <1>3 DEF StreamTypes
<1>7. StreamTypes'
  BY <1>1, <1>2 DEF StreamTypes
<1>8. Len(out.bytes) \in Nat /\ Place(WholeEnds(out.bytes), 0) = 0 /\ \A p \in WholeEnds(out.bytes) : ~(p <= 0)
  <2>1. \A p \in WholeEnds(out.bytes) : p \in 1 .. Len(out.bytes)
    BY <1>3, EndsAre
  <2>. QED BY <1>3, <2>1, EndsAre, NoneAtZero
<1>9. DecodePart'
  <2>1. (st.base + st.i)' = 0 /\ Len(out.values)' = 0 /\ st'.pc # "decode" /\ st'.pc # "returned"
    BY <1>1, <1>3, <1>6
  <2>. QED BY <1>1, <1>6, <1>8, <2>1 DEF DecodePart, Returned
<1>10. ColumnPart'
  <2>1. Coded(out.bytes, Len(call.values), 0)'
    BY <1>1, <1>5 DEF Coded, SizeUpTo
  <2>2. SizeUpTo(0)' = 0
    BY <1>1, <1>4 DEF SizeUpTo
  <2>3. Len(out.values)' = 0 /\ (st.base + st.i)' = 0
    BY <1>1, <1>3, <1>6
  <2>4. Len(call.values)' = Len(call.values)
    BY <1>1
  <2>. QED BY <1>4, <2>1, <2>2, <2>3, <2>4 DEF ColumnPart
<1>. QED BY <1>6, <1>7, <1>9, <1>10 DEF StreamParts

\* What is decoded stays so while only the receiver's own state changes.
LEMMA StillDecoded ==
    ASSUME StreamParts, st.pc # "encode", call' = call, out' = out,
           st' \in [pc : {"receive", "decode", "returned"}, v : Nat, x : Nat, have : Nat,
                    moved : BOOLEAN, base : Nat, i : Nat, room : Nat],
           st'.base + st'.i = st.base + st.i, st.have <= st'.have, st'.have <= Len(out.bytes),
           st'.pc # "decode" => st'.i = 0,
           st'.pc = "decode" /\ st'.i = 0 => st'.room > 0,
           st'.pc = "receive" /\ ~st'.moved => st'.base = st'.have \/ Ends(MaxLen)' = {},
           st'.pc = "returned" => \A p \in WholeEnds(out.bytes) : p <= st.base + st.i
    PROVE  StreamParts'
<1>1. StreamTypes /\ DecodePart /\ (~call.raw => ColumnPart)
  BY DEF StreamParts
<1>2. StreamTypes'
  BY <1>1 DEF StreamTypes
<1>3. st'.pc # "encode"
  OBVIOUS
<1>4. PICK w, ends : w = st.base + st.i /\ ends = WholeEnds(out.bytes)
  OBVIOUS
<1>5. (st.base + st.i)' = w /\ WholeEnds(out.bytes)' = ends
  BY <1>4
<1>6. /\ w <= st.have /\ st.have <= Len(out.bytes) /\ w \in ends \union {0} /\ Len(out.values) = Place(ends, w)
      /\ \A p \in ends : p <= w => out.values[Place(ends, p)] = WholeValue(out.bytes, p)
  BY <1>1, <1>4, Zenon DEF DecodePart
<1>7. w <= st'.have
  <2>1. w \in Nat /\ st.have \in Nat /\ st'.have \in Nat
    BY <1>1, <1>2, <1>4, SMTT(120) DEF StreamTypes
  <2>. QED BY <1>6, <2>1
<1>8. \A p \in ends : p <= w => out'.values[Place(ends, p)] = WholeValue(out'.bytes, p)
  BY <1>6
<1>9. DecodePart'
  <2>1. WholeEnds(out'.bytes) = ends /\ st'.base + st'.i = w /\ Len(out'.values) = Len(out.values) /\ out'.bytes = out.bytes
    BY <1>4
  <2>2. /\ w <= st'.have /\ st'.have <= Len(out'.bytes)
        /\ w \in ends \union {0}
        /\ Len(out'.values) = Place(ends, w)
        /\ \A p \in ends : p <= w => out'.values[Place(ends, p)] = WholeValue(out'.bytes, p)
    BY <1>6, <1>7, <1>8, <2>1
  <2>3. /\ st'.pc # "decode" => st'.i = 0
        /\ st'.pc = "decode" /\ st'.i = 0 => st'.room > 0
        /\ st'.pc = "receive" /\ ~st'.moved => st'.base = st'.have \/ Ends(MaxLen)' = {}
        /\ Returned' => \A p \in ends : p <= w
    BY <1>4 DEF Returned
  <2>. QED BY <1>5, <2>1, <2>2, <2>3, Zenon DEF DecodePart
<1>10. ~call.raw => ColumnPart'
  <2>. SUFFICES ASSUME ~call.raw PROVE ColumnPart'
    OBVIOUS
  <2>1. /\ Coded(out.bytes, Len(call.values), 0) /\ Len(out.values) <= Len(call.values)
        /\ st.base + st.i = SizeUpTo(Len(out.values))
        /\ \A k \in 1 .. Len(out.values) : out.values[k] = call.values[k]
    BY <1>1 DEF ColumnPart
  <2>2. Coded(out.bytes, Len(call.values), 0)'
    <3>1. Coded(out.bytes, Len(call.values), 0) /\ call' = call /\ out' = out
      BY <2>1
    <3>. QED BY ONLY <3>1 DEF Coded, SizeUpTo
  <2>3. SizeUpTo(Len(out.values))' = SizeUpTo(Len(out.values))
    BY DEF SizeUpTo
  <2>. QED BY <1>4, <1>5, <2>1, <2>2, <2>3 DEF ColumnPart
<1>. QED BY <1>2, <1>3, <1>9, <1>10 DEF StreamParts

LEMMA DecodedTypes ==
    ASSUME StreamParts, st.pc # "encode"
    PROVE  /\ call.op = "varint" /\ out.bytes \in Streams /\ out.values \in Seq(Nat) /\ Len(out.values) \in Nat
           /\ Len(out.bytes) \in Nat /\ st.base \in Nat /\ st.i \in Nat /\ st.have \in Nat /\ st.room \in Nat
           /\ st.moved \in BOOLEAN
           /\ st.base + st.i \in Nat /\ st.base + st.i <= st.have /\ st.have <= Len(out.bytes)
           /\ st.base + st.i \in WholeEnds(out.bytes) \union {0}
           /\ st \in [pc : {"receive", "decode", "returned"}, v : Nat, x : Nat, have : Nat,
                      moved : BOOLEAN, base : Nat, i : Nat, room : Nat]
<1>1. StreamTypes /\ DecodePart
  BY DEF StreamParts
<1>2. st.pc \in {"receive", "decode", "returned"}
  BY <1>1 DEF StreamTypes
<1>3. /\ st.base + st.i <= st.have /\ st.have <= Len(out.bytes) /\ st.base + st.i \in WholeEnds(out.bytes) \union {0}
  BY <1>1, Zenon DEF DecodePart
<1>. QED BY <1>1, <1>2, <1>3 DEF StreamTypes, Streams

LEMMA ReceiveSomeInv == ASSUME StreamParts, ReceiveSome PROVE StreamParts'
<1>1. PICK have \in 0 .. Len(out.bytes), room \in 1 .. MaxRoom :
         /\ have > st.have \/ (have = st.have /\ st.moved)
         /\ st' = [st EXCEPT !.pc = "decode", !.have = have, !.room = room, !.i = 0]
         /\ call' = call /\ out' = out
  BY DEF ReceiveSome, Receive
<1>2. st.pc = "receive"
  BY DEF ReceiveSome, In
<1>3. st.i = 0
  BY <1>2 DEF StreamParts, DecodePart
<1>4. have \in Nat /\ room \in Nat /\ room > 0 /\ have <= Len(out.bytes) /\ st.have <= have
  <2>1. Len(out.bytes) \in Nat /\ st.have \in Nat
    BY <1>2, DecodedTypes
  <2>2. MaxRoom \in Nat
    BY VarintAssumption
  <2>. QED BY <1>1, <2>1, <2>2
<1>5. /\ st' \in [pc : {"receive", "decode", "returned"}, v : Nat, x : Nat, have : Nat,
                  moved : BOOLEAN, base : Nat, i : Nat, room : Nat]
      /\ st'.pc = "decode" /\ st'.i = 0 /\ st'.base = st.base /\ st'.room = room /\ st'.have = have
  <2>1. st \in [pc : {"receive", "decode", "returned"}, v : Nat, x : Nat, have : Nat,
                moved : BOOLEAN, base : Nat, i : Nat, room : Nat]
    BY <1>2, DecodedTypes
  <2>. QED BY <1>1, <1>4, <2>1
<1>. QED BY <1>1, <1>2, <1>3, <1>4, <1>5, StillDecoded

\* Where the kernel's load has no whole value and no code begins, none begins in what is here.
LEMMA EndsBegin ==
    ASSUME StreamParts, st.pc # "encode", NEW reach \in 0 .. MaxLen, NEW l \in Ends(reach)
    PROVE  l \in 1 .. reach /\ l \in 1 .. MaxLen /\ st.base + st.i + l <= st.have /\ CodeAt(out.bytes, st.base + st.i, l)
<1>1. /\ st.base + st.i \in Nat /\ Len(out.bytes) \in Nat /\ st.have \in Nat /\ st.have <= Len(out.bytes) /\ MaxLen \in Nat
  BY DecodedTypes, PowersAre
<1>2. /\ l \in 1 .. reach /\ st.base + st.i + l <= st.have /\ ~Continues(out.bytes[st.base + st.i + l])
      /\ \A k \in 1 .. l - 1 : Continues(out.bytes[st.base + st.i + k])
  BY DEF Ends
<1>3. l \in 1 .. MaxLen /\ st.base + st.i + l <= Len(out.bytes)
  BY <1>1, <1>2
<1>. QED BY <1>2, <1>3, Zenon DEF CodeAt

LEMMA DecodeReturnInv == ASSUME StreamParts, DecodeReturn PROVE StreamParts'
<1>1. /\ call' = call /\ out' = out /\ st.pc = "decode"
      /\ st.room = 0 \/ Left = 0 \/ Ends(MaxLen) = {}
      /\ st' = [st EXCEPT !.pc = "receive", !.base = @ + st.i, !.moved = st.i > 0, !.i = 0]
  BY DEF DecodeReturn, In
<1>2. /\ st \in [pc : {"receive", "decode", "returned"}, v : Nat, x : Nat, have : Nat,
                 moved : BOOLEAN, base : Nat, i : Nat, room : Nat]
      /\ st.base + st.i \in Nat /\ st.base \in Nat /\ st.i \in Nat /\ st.have \in Nat /\ st.have <= Len(out.bytes)
  BY <1>1, DecodedTypes
<1>3. /\ st' \in [pc : {"receive", "decode", "returned"}, v : Nat, x : Nat, have : Nat,
                  moved : BOOLEAN, base : Nat, i : Nat, room : Nat]
      /\ st'.pc = "receive" /\ st'.i = 0 /\ st'.base = st.base + st.i /\ st'.have = st.have
      /\ (~st'.moved => st.i = 0) /\ st'.base + st'.i = st.base + st.i
  <2>1. PICK y \in Nat : y = st.base + st.i /\ y + 0 = y
    BY <1>2
  <2>2. PICK m \in BOOLEAN : st' = [st EXCEPT !.pc = "receive", !.base = y, !.moved = m, !.i = 0] /\ (~m => st.i = 0)
    <3>1. CASE st.i > 0
      <4>1. (st.i > 0) = TRUE
        BY <3>1
      <4>2. st' = [st EXCEPT !.pc = "receive", !.base = y, !.moved = TRUE, !.i = 0]
        BY ONLY <1>1, <2>1, <4>1
      <4>. QED BY <4>2
    <3>2. CASE ~(st.i > 0)
      <4>1. (st.i > 0) = FALSE /\ st.i = 0
        BY <1>2, <3>2
      <4>2. st' = [st EXCEPT !.pc = "receive", !.base = y, !.moved = FALSE, !.i = 0]
        BY ONLY <1>1, <2>1, <4>1
      <4>. QED BY <4>1, <4>2
    <3>. QED BY <3>1, <3>2
  <2>3. /\ st' \in [pc : {"receive", "decode", "returned"}, v : Nat, x : Nat, have : Nat,
                    moved : BOOLEAN, base : Nat, i : Nat, room : Nat]
        /\ st'.pc = "receive" /\ st'.i = 0 /\ st'.base = y /\ st'.have = st.have /\ st'.moved = m
    BY <1>2, <2>2
  <2>. QED BY <2>1, <2>2, <2>3
<1>4. ~st'.moved => st'.base = st'.have \/ Ends(MaxLen)' = {}
  <2>. SUFFICES ASSUME ~st'.moved PROVE st'.base = st'.have \/ Ends(MaxLen)' = {}
    OBVIOUS
  <2>1. st.i = 0
    BY <1>2, <1>3
  <2>2. st.room > 0
    BY <1>1, <2>1 DEF StreamParts, DecodePart
  <2>3. st.room # 0
    BY <1>1, <2>2, DecodedTypes
  <2>4. CASE Left = 0
    BY <1>2, <1>3, <2>1, <2>4 DEF Left
  <2>5. CASE Ends(MaxLen) = {}
    <3>1. Ends(MaxLen)' = Ends(MaxLen)
      BY <1>1, <1>3 DEF Ends
    <3>. QED BY <2>5, <3>1
  <2>. QED BY <1>1, <2>3, <2>4, <2>5
<1>. QED BY <1>1, <1>2, <1>3, <1>4, StillDecoded

LEMMA ReceiveEndInv == ASSUME StreamParts, ReceiveEnd PROVE StreamParts'
<1>1. /\ call' = call /\ out' = out /\ st.pc = "receive" /\ st.have = Len(out.bytes) /\ ~st.moved
      /\ st' = [st EXCEPT !.pc = "returned"]
  BY DEF ReceiveEnd, In, Return
<1>2. /\ st \in [pc : {"receive", "decode", "returned"}, v : Nat, x : Nat, have : Nat,
                 moved : BOOLEAN, base : Nat, i : Nat, room : Nat]
      /\ st.base + st.i \in Nat /\ st.base \in Nat /\ st.i \in Nat /\ st.have \in Nat /\ out.bytes \in Streams
  BY <1>1, DecodedTypes
<1>3. st.i = 0 /\ (st.base = st.have \/ Ends(MaxLen) = {})
  BY <1>1 DEF StreamParts, DecodePart
<1>4. \A p \in WholeEnds(out.bytes) : p <= st.base + st.i
  <2>1. CASE st.base = st.have
    <3>1. \A p \in WholeEnds(out.bytes) : p \in 1 .. Len(out.bytes)
      BY <1>2, EndsAre
    <3>. QED BY <1>1, <1>2, <1>3, <2>1, <3>1
  <2>2. CASE Ends(MaxLen) = {}
    <3>1. \A l \in 1 .. MaxLen : ~CodeAt(out.bytes, st.base + st.i, l)
      <4>. SUFFICES ASSUME NEW l \in 1 .. MaxLen, CodeAt(out.bytes, st.base + st.i, l) PROVE FALSE
        OBVIOUS
      <4>1. l \in Ends(MaxLen)
        BY <1>1, Zenon DEF Ends, CodeAt
      <4>. QED BY <2>2, <4>1
    <3>. QED BY <1>2, <3>1, NoneBeyond
  <2>. QED BY <1>3, <2>1, <2>2
<1>5. /\ st' \in [pc : {"receive", "decode", "returned"}, v : Nat, x : Nat, have : Nat,
                  moved : BOOLEAN, base : Nat, i : Nat, room : Nat]
      /\ st'.pc = "returned" /\ st'.i = 0 /\ st'.base = st.base /\ st'.have = st.have
  BY <1>1, <1>2, <1>3
<1>6. st'.base + st'.i = st.base + st.i /\ st.have <= st'.have /\ st'.have <= Len(out.bytes)
  BY <1>1, <1>2, <1>3, <1>5
<1>. QED BY <1>1, <1>4, <1>5, <1>6, StillDecoded

\* A value more: the code that begins where the decoder is.
LEMMA EmitInv ==
    ASSUME StreamParts, st.pc = "decode", st.room > 0, NEW l \in 1 .. MaxLen, st.base + st.i + l <= st.have,
           CodeAt(out.bytes, st.base + st.i, l), NEW value \in Nat, Emit(l, value),
           value = Weighted(SubSeq(out.bytes, st.base + st.i + 1, st.base + st.i + l)) % Modulus
    PROVE  StreamParts'
<1>1. /\ out' = [out EXCEPT !.values = Append(@, value)] /\ call' = call
      /\ st' = [st EXCEPT !.i = @ + l, !.room = @ - 1]
  BY DEF Emit
<1>2. StreamTypes /\ DecodePart /\ (~call.raw => ColumnPart)
  BY DEF StreamParts
<1>3. PICK s \in Streams, vs \in Seq(Nat), n \in Nat, w \in Nat :
        /\ s = out.bytes /\ vs = out.values /\ n = Len(vs) /\ w = st.base + st.i /\ w \in WholeEnds(s) \union {0}
        /\ w <= st.have /\ st.have <= Len(s)
  BY DecodedTypes
<1>4. PICK vv \in Seq(Nat) : vv = Append(vs, value) /\ Len(vv) = n + 1 /\ vv[n + 1] = value /\ \A k \in 1 .. n : vv[k] = vs[k]
  <2>1. /\ Append(vs, value) \in Seq(Nat) /\ Len(Append(vs, value)) = Len(vs) + 1
        /\ Append(vs, value)[Len(vs) + 1] = value /\ \A k \in 1 .. Len(vs) : Append(vs, value)[k] = vs[k]
    BY AppendProperties
  <2>. QED BY <1>3, <2>1
<1>5. out' = [bytes |-> s, values |-> vv]
  <2>1. out = [bytes |-> s, values |-> vs]
    BY <1>2, <1>3 DEF StreamTypes
  <2>. QED BY <1>1, <1>4, <2>1
<1>6. l \in Nat /\ l >= 1 /\ w + l \in Nat /\ Len(s) \in Nat
  <2>1. Len(s) \in Nat
    BY EndsAre
  <2>2. MaxLen \in Nat
    BY PowersAre
  <2>. QED BY ONLY <2>1, <2>2, l \in 1 .. MaxLen, w \in Nat
<1>7. /\ st' \in [pc : {"encode", "receive", "decode", "returned"}, v : Nat, x : Nat, have : Nat,
                  moved : BOOLEAN, base : Nat, i : Nat, room : Nat]
      /\ st'.pc = "decode" /\ st'.i # 0 /\ st'.base + st'.i = w + l /\ st'.have = st.have
  <2>1. /\ st \in [pc : {"encode", "receive", "decode", "returned"}, v : Nat, x : Nat, have : Nat,
                   moved : BOOLEAN, base : Nat, i : Nat, room : Nat]
    BY <1>2 DEF StreamTypes
  <2>2. st.base \in Nat /\ st.i \in Nat /\ st.room \in Nat
    BY <2>1
  <2>3. PICK y \in Nat, r \in Nat : y = st.i + l /\ r = st.room - 1 /\ y # 0 /\ st.base + y = w + l
    <3>1. st.room > 0 /\ w = st.base + st.i
      BY <1>3
    <3>2. /\ st.i + l \in Nat /\ st.room - 1 \in Nat /\ st.i + l # 0
          /\ st.base + (st.i + l) = (st.base + st.i) + l
      <4>1. PICK x \in Nat, y \in Nat, r \in Nat : x = st.base /\ y = st.i /\ r = st.room /\ r > 0
        BY <2>2, <3>1
      <4>2. y + l \in Nat /\ r - 1 \in Nat /\ y + l # 0 /\ x + (y + l) = (x + y) + l
        <5>1. \A u, t \in Nat : t >= 1 => u + t \in Nat /\ u + t # 0 /\ \A z \in Nat : z + (u + t) = (z + u) + t
          OBVIOUS
        <5>2. \A u \in Nat : u > 0 => u - 1 \in Nat
          OBVIOUS
        <5>3. l \in Nat /\ l >= 1
          BY <1>6
        <5>4. y + l \in Nat
          BY ONLY <5>1, <5>3, y \in Nat
        <5>5. y + l # 0
          BY ONLY <5>1, <5>3, y \in Nat
        <5>6. x + (y + l) = (x + y) + l
          BY ONLY <5>1, <5>3, y \in Nat, x \in Nat
        <5>7. r - 1 \in Nat
          BY <4>1, <5>2
        <5>. QED BY ONLY <5>4, <5>5, <5>6, <5>7
      <4>. QED BY <4>1, <4>2
    <3>. QED BY <3>1, <3>2
  <2>4. st' = [st EXCEPT !.i = y, !.room = r]
    BY <1>1, <2>3
  <2>5. /\ st' \in [pc : {"encode", "receive", "decode", "returned"}, v : Nat, x : Nat, have : Nat,
                    moved : BOOLEAN, base : Nat, i : Nat, room : Nat]
        /\ st'.pc = "decode" /\ st'.i = y /\ st'.base = st.base /\ st'.have = st.have
    BY <2>1, <2>4
  <2>. QED BY <2>3, <2>5
<1>8. StreamTypes'
  <2>1. out' \in [bytes : Seq(0 .. 2 * Group - 1), values : Seq(Nat)]
    BY <1>3, <1>5 DEF Streams
  <2>. QED BY <1>1, <1>2, <1>7, <2>1 DEF StreamTypes
<1>9. PICK ends : ends = WholeEnds(s)
  OBVIOUS
<1>10. /\ Place(ends, w) = n /\ \A p \in ends : p <= w => vs[Place(ends, p)] = WholeValue(s, p)
  BY <1>2, <1>3, <1>9, Zenon DEF DecodePart
<1>11. /\ w + l \in ends /\ \A q \in ends : q <= w \/ q >= w + l
       /\ Place(ends, w + l) = n + 1 /\ WholeValue(s, w + l) = value
  <2>1. CodeAt(s, w, l)
    BY <1>3
  <2>. QED BY <1>3, <1>9, <1>10, <2>1, NextEnd
<1>12. ASSUME NEW p \in ends, p <= w + l PROVE vv[Place(ends, p)] = WholeValue(s, p)
  <2>1. p \in 1 .. Len(s) /\ p \in Int /\ ends \in SUBSET Int /\ IsFiniteSet(ends)
    BY <1>6, <1>9, EndsAre
  <2>2. CASE p = w + l
    BY <1>4, <1>11, <2>2
  <2>3. CASE p # w + l
    <3>1. p <= w
      BY <1>3, <1>6, <1>11, <1>12, <2>1, <2>3
    <3>2. Place(ends, p) < Place(ends, w + l)
      <4>1. p < w + l
        BY <1>6, <1>12, <2>1, <2>3
      <4>. QED BY <1>11, <2>1, <4>1, PlaceGrows
    <3>3. Place(ends, p) \in 1 .. n
      <4>1. Place(ends, p) \in 1 .. Cardinality(ends)
        BY <2>1, PlaceOf
      <4>2. Cardinality(ends) \in Nat
        BY <2>1, FS_CardinalityType
      <4>. QED BY <1>11, <3>2, <4>1, <4>2
    <3>. QED BY <1>4, <1>10, <3>1, <3>3
  <2>. QED BY <2>2, <2>3
<1>13. w + l <= st.have
  BY <1>3
<1>14. DecodePart'
  <2>1. WholeEnds(out'.bytes) = ends /\ out'.bytes = s /\ out'.values = vv /\ Len(out'.values) = n + 1
    BY <1>4, <1>5, <1>9
  <2>2. /\ st'.base + st'.i <= st'.have /\ st'.have <= Len(out'.bytes)
        /\ st'.base + st'.i \in ends \union {0}
        /\ Len(out'.values) = Place(ends, st'.base + st'.i)
        /\ \A p \in ends : p <= st'.base + st'.i => out'.values[Place(ends, p)] = WholeValue(out'.bytes, p)
    BY <1>3, <1>7, <1>11, <1>12, <1>13, <2>1
  <2>3. st'.pc = "decode" /\ st'.i # 0 /\ ~Returned'
    BY <1>7 DEF Returned
  <2>. QED BY <2>1, <2>2, <2>3 DEF DecodePart
<1>15. ~call.raw => ColumnPart'
  <2>. SUFFICES ASSUME ~call.raw PROVE ColumnPart'
    OBVIOUS
  <2>1. /\ Coded(s, Len(call.values), 0) /\ n <= Len(call.values) /\ w = SizeUpTo(n)
        /\ \A k \in 1 .. n : vs[k] = call.values[k]
    BY <1>2, <1>3 DEF ColumnPart
  <2>2. call.values \in Seq(0 .. Modulus - 1)
    BY <1>2 DEF StreamTypes
  <2>3. n \in 0 .. Len(call.values) /\ Len(call.values) \in Nat
    BY <1>3, <2>1, <2>2
  <2>4. CodeAt(s, SizeUpTo(n), l)
    BY <1>3, <2>1
  <2>5. /\ n < Len(call.values) /\ w + l = SizeUpTo(n + 1)
        /\ Weighted(SubSeq(s, w + 1, w + l)) = call.values[n + 1]
        /\ call.values[n + 1] \in Nat /\ call.values[n + 1] < Modulus
    BY <2>1, <2>2, <2>3, <2>4, NextOfColumn
  <2>6. value = call.values[n + 1]
    <3>1. PICK c \in Nat : c = call.values[n + 1] /\ c < Modulus /\ value = c % Modulus
      BY <1>3, <2>5
    <3>2. c = 0 * Modulus + c /\ Modulus \in Nat
      BY ModulusIs
    <3>. QED BY <3>1, <3>2, DivModOf, SMTT(120)
  <2>7. \A k \in 1 .. n + 1 : vv[k] = call.values[k]
    <3>. TAKE k \in 1 .. n + 1
    <3>1. CASE k = n + 1
      BY <1>4, <2>6, <3>1
    <3>2. CASE k # n + 1
      <4>1. k \in 1 .. n
        BY <3>2
      <4>. QED BY <1>4, <2>1, <4>1
    <3>. QED BY <3>1, <3>2
  <2>8. /\ Coded(s, Len(call.values), 0)' /\ SizeUpTo(n + 1)' = SizeUpTo(n + 1) /\ Len(call.values)' = Len(call.values)
    BY ONLY <1>1, <2>1 DEF Coded, SizeUpTo
  <2>9. out'.bytes = s /\ out'.values = vv
    BY <1>5
  <2>10. Coded(out.bytes, Len(call.values), 0)'
    BY <2>8, <2>9 DEF Coded
  <2>11. (st.base + st.i)' = SizeUpTo(n + 1)' /\ Len(out.values)' = n + 1
    BY <1>4, <1>7, <2>5, <2>8, <2>9
  <2>12. SizeUpTo(Len(out.values))' = SizeUpTo(n + 1)'
    BY <2>11 DEF SizeUpTo
  <2>13. n + 1 <= Len(call.values)
    BY <2>3, <2>5
  <2>. QED BY <1>1, <2>7, <2>9, <2>10, <2>11, <2>12, <2>13 DEF ColumnPart
<1>. QED BY <1>1, <1>7, <1>8, <1>14, <1>15 DEF StreamParts

LEMMA DecodeLoadedInv == ASSUME StreamParts, DecodeLoaded PROVE StreamParts'
<1>1. st.pc = "decode" /\ st.room > 0
  BY DEF DecodeLoaded, Decoding, In
<1>2. PICK l \in Ends(Load) : Emit(l, Weighted(SubSeq(out.bytes, st.base + st.i + 1, st.base + st.i + l)))
  BY DEF DecodeLoaded
<1>3. l \in 1 .. Load /\ l \in 1 .. MaxLen /\ st.base + st.i + l <= st.have /\ CodeAt(out.bytes, st.base + st.i, l)
  <2>1. Load \in 0 .. MaxLen
    BY ModulusIs, PowersAre
  <2>. QED BY <1>1, <1>2, <2>1, EndsBegin
<1>4. PICK value : value = Weighted(SubSeq(out.bytes, st.base + st.i + 1, st.base + st.i + l))
  OBVIOUS
<1>5. value \in Nat /\ value < GroupPower[l]
  <2>1. out.bytes \in Streams /\ st.base + st.i \in Nat
    BY <1>1, DecodedTypes
  <2>2. st.base + st.i + l <= Len(out.bytes)
    BY <1>3, Zenon DEF CodeAt
  <2>. QED BY <1>3, <1>4, <2>1, <2>2, CodeWeighs
<1>6. value = value % Modulus
  <2>1. GroupPower[l] <= GroupPower[Load] /\ GroupPower[l] \in Nat /\ GroupPower[Load] \in Nat
    <3>1. l \in 0 .. MaxLen /\ Load \in 0 .. MaxLen /\ l <= Load
      BY <1>3, ModulusIs, PowersAre
    <3>. QED BY <3>1, PowersGrow, PowersAre
  <2>2. value < Modulus /\ Modulus \in Nat
    BY <1>5, <2>1, ModulusIs
  <2>3. value = 0 * Modulus + value
    BY <1>5, <2>2
  <2>. QED BY <1>5, <2>2, <2>3, DivModOf
<1>. QED BY <1>1, <1>2, <1>3, <1>4, <1>5, <1>6, EmitInv

LEMMA DecodeBytesInv == ASSUME StreamParts, DecodeBytes PROVE StreamParts'
<1>1. st.pc = "decode" /\ st.room > 0
  BY DEF DecodeBytes, Decoding, In
<1>2. PICK l \in Ends(MaxLen) :
         Emit(l, Weighted(SubSeq(out.bytes, st.base + st.i + 1, st.base + st.i + l)) % Modulus)
  BY DEF DecodeBytes
<1>3. l \in 1 .. MaxLen /\ st.base + st.i + l <= st.have /\ CodeAt(out.bytes, st.base + st.i, l)
  <2>1. MaxLen \in 0 .. MaxLen
    BY PowersAre
  <2>. QED BY <1>1, <1>2, <2>1, EndsBegin
<1>4. PICK value : value = Weighted(SubSeq(out.bytes, st.base + st.i + 1, st.base + st.i + l)) % Modulus
  OBVIOUS
<1>5. value \in Nat
  <2>1. out.bytes \in Streams /\ st.base + st.i \in Nat
    BY <1>1, DecodedTypes
  <2>2. st.base + st.i + l <= Len(out.bytes)
    BY <1>3, Zenon DEF CodeAt
  <2>3. Weighted(SubSeq(out.bytes, st.base + st.i + 1, st.base + st.i + l)) \in Nat
    BY <1>3, <2>1, <2>2, CodeWeighs
  <2>. QED BY <1>4, <2>3, ModulusIs, DivMod
<1>. QED BY <1>1, <1>2, <1>3, <1>4, <1>5, EmitInv

LEMMA StreamSays == ASSUME VarintIndInv PROVE ResumedIsWhole
<1>. SUFFICES ASSUME call.op = "varint" PROVE ResumedIsWhole
  BY DEF ResumedIsWhole
<1>1. StreamParts /\ StreamTypes
  BY DEF VarintIndInv, StreamParts
<1>2. ASSUME st.pc = "encode" PROVE ~call.raw /\ Len(out.bytes) <= VarintSize
  <2>1. EncodePart
    BY <1>1, <1>2 DEF StreamParts
  <2>2. /\ ~call.raw /\ call.values \in Seq(0 .. Modulus - 1) /\ st.v \in 1 .. Len(call.values) + 1 /\ st.x \in Nat
        /\ Len(out.bytes) = SizeUpTo(st.v - 1) + st.x
        /\ IF st.v <= Len(call.values) THEN st.x < VarintLen(call.values[st.v]) ELSE st.x = 0
    BY <1>1, <2>1 DEF StreamTypes, EncodePart, Coded
  <2>3. PICK n \in Nat, k \in Nat : n = Len(call.values) /\ k = st.v - 1 /\ k <= n /\ n \in 0 .. Len(call.values) /\ st.v = k + 1
    BY <2>2, SizesAre
  <2>4. SizeUpTo(k) \in Nat /\ SizeUpTo(n) \in Nat /\ VarintSize = SizeUpTo(n)
    BY <2>2, <2>3, SizesAre DEF VarintSize
  <2>5. CASE k < n
    <3>1. k + 1 \in 1 .. n /\ (k + 1) - 1 = k /\ k + 1 \in 0 .. n /\ k + 1 <= n
      BY <2>5
    <3>2. SizeUpTo(k + 1) = SizeUpTo((k + 1) - 1) + VarintLen(call.values[k + 1]) /\ call.values[k + 1] \in 0 .. Modulus - 1
      BY <2>2, <2>3, <3>1, SizesAre
    <3>3. SizeUpTo(k + 1) <= SizeUpTo(n)
      BY <2>2, <2>3, <3>1, SizesGrow
    <3>4. VarintLen(call.values[k + 1]) \in Nat
      BY <3>2, VarintLenIs
    <3>5. st.x < VarintLen(call.values[k + 1])
      BY <2>2, <2>3, <3>1
    <3>. QED BY <2>2, <2>3, <2>4, <3>1, <3>2, <3>3, <3>4, <3>5
  <2>6. CASE k = n
    BY <2>2, <2>3, <2>4, <2>6
  <2>. QED BY <2>2, <2>3, <2>5, <2>6
<1>3. ASSUME st.pc # "encode"
      PROVE  LET ends == WholeEnds(out.bytes)
                 where == st.base + st.i
                 n == Len(out.values)
             IN /\ where \in ends \union {0}
                /\ n = Place(ends, where)
                /\ \A p \in ends : p <= where => out.values[Place(ends, p)] = WholeValue(out.bytes, p)
                /\ Returned => \A p \in ends : p <= where
  BY <1>1, <1>3, Zenon DEF StreamParts, DecodePart
<1>4. ASSUME st.pc # "encode", ~call.raw
      PROVE  /\ Len(out.bytes) = VarintSize /\ Len(out.values) <= Len(call.values)
             /\ out.values = SubSeq(call.values, 1, Len(out.values))
             /\ Returned => out.values = call.values
  <2>1. /\ Coded(out.bytes, Len(call.values), 0) /\ Len(out.values) <= Len(call.values)
        /\ st.base + st.i = SizeUpTo(Len(out.values))
        /\ \A k \in 1 .. Len(out.values) : out.values[k] = call.values[k]
    BY <1>1, <1>4 DEF StreamParts, ColumnPart
  <2>2. call.values \in Seq(0 .. Modulus - 1) /\ out.values \in Seq(Nat) /\ out.bytes \in Streams
    BY <1>1, <1>4 DEF StreamTypes, Streams
  <2>3. PICK n \in Nat, z \in Nat : n = Len(out.values) /\ z = Len(call.values) /\ n <= z /\ n \in 0 .. z /\ z \in 0 .. z
    BY <2>1, <2>2
  <2>4. Len(out.bytes) = VarintSize
    <3>1. Len(out.bytes) = SizeUpTo(z) + 0 /\ SizeUpTo(z) \in Nat
      BY <2>1, <2>2, <2>3, SizesAre DEF Coded
    <3>. QED BY <2>3, <3>1 DEF VarintSize
  <2>5. out.values = SubSeq(call.values, 1, n)
    <3>1. call.values \in Seq(Int)
      <4>1. \A k \in 1 .. z : call.values[k] \in 0 .. Modulus - 1
        BY <2>2, <2>3, SizesAre
      <4>. QED BY <2>2, <2>3, <4>1, ModulusIs
    <3>. DEFINE c == SubSeq(call.values, 1, n)
    <3>2. c \in Seq(Int) /\ Len(c) = n /\ \A y \in 1 .. n : c[y] = call.values[y]
      <4>1. 0 + 1 = 1 /\ 0 + n = n /\ 0 + n <= Len(call.values) /\ \A y \in 1 .. n : 0 + y = y
        BY <2>3
      <4>2. /\ SubSeq(call.values, 0 + 1, 0 + n) \in Seq(Int) /\ Len(SubSeq(call.values, 0 + 1, 0 + n)) = n
            /\ \A y \in 1 .. n : SubSeq(call.values, 0 + 1, 0 + n)[y] = call.values[0 + y]
        BY <3>1, <4>1, PartIs
      <4>. QED BY <4>1, <4>2
    <3>. HIDE DEF c
    <3>3. \A y \in 1 .. n : out.values[y] = c[y]
      BY <2>1, <2>3, <3>2
    <3>4. out.values \in Seq(Int)
      BY <2>2
    <3>. QED BY <2>3, <3>2, <3>3, <3>4, SeqEqual DEF c
  <2>6. ASSUME Returned PROVE out.values = call.values
    <3>1. \A p \in WholeEnds(out.bytes) : p <= SizeUpTo(n)
      BY <1>3, <1>4, <2>1, <2>3, <2>6
    <3>2. n = z
      <4>. SUFFICES ASSUME n # z PROVE FALSE
        OBVIOUS
      <4>1. n < z
        BY <2>3
      <4>2. PICK b \in 1 .. MaxLen : CodeAt(out.bytes, SizeUpTo(n), b)
        BY <2>1, <2>2, <2>3, <4>1, NextOfColumn
      <4>3. SizeUpTo(n) + b \in WholeEnds(out.bytes)
        <5>1. SizeUpTo(n) \in WholeEnds(out.bytes) \union {0}
          BY <1>3, <1>4, <2>1, <2>3
        <5>. QED BY <2>2, <4>2, <5>1, NextEnd
      <4>4. SizeUpTo(n) \in Nat /\ MaxLen \in Nat
        BY <2>2, <2>3, SizesAre, PowersAre
      <4>. QED BY <3>1, <4>2, <4>3, <4>4
    <3>3. SubSeq(call.values, 1, Len(call.values)) = call.values
      BY <2>2
    <3>. QED BY <2>3, <2>5, <3>2, <3>3
  <2>. QED BY <2>1, <2>3, <2>4, <2>5, <2>6
<1>. QED BY <1>2, <1>3, <1>4 DEF ResumedIsWhole

LEMMA VarintIndInvStart == ColumnInit => VarintIndInv
<1>. SUFFICES ASSUME ColumnInit, call.op = "varint" PROVE VarintIndInv
  BY DEF VarintIndInv
<1>1. VarintInit
  BY ColumnInitOp
<1>. QED BY <1>1, StreamStarts DEF VarintIndInv

LEMMA VarintIndInvNext == VarintIndInv /\ [ColumnNext]_vars => VarintIndInv'
<1>. SUFFICES ASSUME VarintIndInv, [ColumnNext]_vars PROVE VarintIndInv'
  OBVIOUS
<1>1. CASE ColumnNext
  <2>1. CASE call.op # "varint"
    BY <1>1, <2>1, ColumnStep DEF VarintIndInv
  <2>2. CASE call.op = "varint"
    <3>1. VarintNext
      BY <1>1, <2>2, ColumnStep
    <3>2. StreamParts
      BY <2>2 DEF VarintIndInv
    <3>3. StreamParts'
      BY <3>1, <3>2, EncodeByteInv, EncodedInv, ReceiveSomeInv, DecodeLoadedInv, DecodeBytesInv, DecodeReturnInv,
         ReceiveEndInv, Zenon DEF VarintNext
    <3>. QED BY <3>3 DEF VarintIndInv
  <2>. QED BY <2>1, <2>2
<1>2. CASE UNCHANGED vars
  <2>1. call' = call /\ st' = st /\ out' = out
    BY <1>2 DEF vars
  <2>3. EncodePart' <=> EncodePart
    BY <2>1 DEF EncodePart, Coded, SizeUpTo
  <2>4. DecodePart' <=> DecodePart
    BY <2>1 DEF DecodePart, Ends, Returned
  <2>5. ColumnPart' <=> ColumnPart
    BY <2>1 DEF ColumnPart, Coded, SizeUpTo
  <2>6. StreamTypes' <=> StreamTypes
    BY <2>1 DEF StreamTypes
  <2>. QED BY <2>1, <2>3, <2>4, <2>5, <2>6, Zenon DEF VarintIndInv, StreamParts
<1>. QED BY <1>1, <1>2

\* The values of a stream are decoded whole and in order however it is cut and however small
\* the destinations, and what AppendVarints wrote into exactly VarintSize bytes comes back:
\* what VarintDecode promises of resuming past what was consumed (varint.go:104-108).
THEOREM ResumesWhole == ColumnSpec => []ResumedIsWhole
<1>1. ColumnInit => VarintIndInv
  BY VarintIndInvStart
<1>2. VarintIndInv /\ [ColumnNext]_vars => VarintIndInv'
  BY VarintIndInvNext
<1>3. VarintIndInv => ResumedIsWhole
  BY StreamSays
<1>. QED BY <1>1, <1>2, <1>3, PTL DEF ColumnSpec

-----------------------------------------------------------------------------
(* Rank and select.                                                        *)

VectorType == call.v \in Seq(SUBSET (0 .. WordBits - 1)) /\ call.p \in Int

\* The set bits below p, and from p on.
BitsBelow(p) == {x \in SetBits : x < p}
BitsFrom(p) == {x \in SetBits : x >= p}

\* The bits of word w, from 0, at their positions in the vector.
BitsOfWord(w) == {w * WordBits + b : b \in call.v[w + 1]}

\* A vector has a whole number of words, of at least one bit each.
LEMMA WordFacts ==
    ASSUME VectorType
    PROVE  /\ WordBits \in Nat /\ WordBits >= 1 /\ Words \in Nat /\ WordBits * Words \in Nat
           /\ \A w \in 0 .. Words - 1 : call.v[w + 1] \in SUBSET (0 .. WordBits - 1)
<1>1. WordBits \in Nat /\ WordBits >= 1
  BY WordBitsAssumption
<1>2. Words \in Nat /\ DOMAIN call.v = 1 .. Words
  BY DEF VectorType, Words
<1>3. \A w \in 0 .. Words - 1 : call.v[w + 1] \in SUBSET (0 .. WordBits - 1)
  <2>. TAKE w \in 0 .. Words - 1
  <2>1. w + 1 \in 1 .. Words
    BY <1>2
  <2>. QED BY <1>2, <2>1 DEF VectorType
<1>4. WordBits * Words \in Nat
  BY <1>1, <1>2
<1>. QED BY <1>1, <1>2, <1>3, <1>4

\* A set bit is one of its word's.
LEMMA BitPlace ==
    ASSUME VectorType, NEW x \in SetBits
    PROVE  /\ x \in Nat /\ x < WordBits * Words
           /\ x \div WordBits \in 0 .. Words - 1
           /\ x % WordBits \in call.v[(x \div WordBits) + 1]
           /\ x = (x \div WordBits) * WordBits + (x % WordBits)
           /\ x % WordBits \in 0 .. WordBits - 1
<1>1. x \in Nat /\ x < WordBits * Words /\ x % WordBits \in call.v[(x \div WordBits) + 1]
  BY WordFacts DEF SetBits
<1>2. PICK q \in Nat, r \in Nat : q = x \div WordBits /\ r = x % WordBits /\ r < WordBits /\ x = q * WordBits + r
  <2>1. /\ x \div WordBits \in Nat /\ x % WordBits \in Nat /\ x % WordBits < WordBits
        /\ x = (x \div WordBits) * WordBits + (x % WordBits)
    BY <1>1, WordFacts, DivMod
  <2>. QED BY <2>1, Zenon
<1>3. q < Words
  <2>. SUFFICES ASSUME Words <= q PROVE FALSE
    BY WordFacts
  <2>1. PICK d \in Nat, e \in Nat : d = WordBits /\ e = Words /\ e <= q
    BY WordFacts
  <2>2. d * e <= q * d
    <3>1. q * d = d * e + d * (q - e) /\ d * (q - e) \in Nat /\ d * e \in Nat
      BY <2>1
    <3>. QED BY <3>1
  <2>. QED BY <1>1, <1>2, <2>1, <2>2
<1>4. q \in 0 .. Words - 1 /\ r \in 0 .. WordBits - 1
  BY <1>2, <1>3, WordFacts
<1>. QED BY <1>1, <1>2, <1>4, Zenon

\* A bit of a word is a set bit, in that word.
LEMMA BitOfWord ==
    ASSUME VectorType, NEW w \in 0 .. Words - 1, NEW b \in call.v[w + 1]
    PROVE  /\ w * WordBits + b \in SetBits
           /\ b \in 0 .. WordBits - 1
           /\ (w * WordBits + b) \div WordBits = w /\ (w * WordBits + b) % WordBits = b
<1>1. PICK d \in Nat, e \in Nat : d = WordBits /\ e = Words /\ d >= 1
  BY WordFacts
<1>2. b \in Nat /\ b < d /\ w \in Nat /\ w + 1 <= e
  <2>1. b \in 0 .. WordBits - 1
    BY WordFacts
  <2>. QED BY <1>1, <2>1
<1>3. PICK x \in Nat : x = w * d + b
  BY <1>2
<1>4. x \div d = w /\ x % d = b
  BY <1>2, <1>3, DivModOf, Zenon
<1>5. x < d * e
  <2>1. d * e = w * d + d + d * (e - (w + 1)) /\ d * (e - (w + 1)) \in Nat /\ w * d \in Nat
    BY <1>2
  <2>. QED BY <1>2, <1>3, <2>1
<1>6. x \in SetBits
  <2>1. x \in 0 .. d * e - 1
    <3>1. d * e \in Nat
      OBVIOUS
    <3>. QED BY <1>3, <1>5, <3>1
  <2>. QED BY <1>1, <1>4, <2>1 DEF SetBits
<1>. QED BY <1>1, <1>2, <1>3, <1>4, <1>6

\* There are finitely many set bits.
LEMMA BitsFinite ==
    ASSUME VectorType
    PROVE  /\ IsFiniteSet(SetBits) /\ SetBits \subseteq Nat
           /\ \A p : /\ IsFiniteSet(BitsBelow(p)) /\ Cardinality(BitsBelow(p)) \in Nat
                     /\ Cardinality(BitsBelow(p)) <= Cardinality(SetBits)
<1>1. SetBits \subseteq 0 .. WordBits * Words - 1
  BY DEF SetBits
<1>2. IsFiniteSet(0 .. WordBits * Words - 1)
  BY WordFacts, FS_Interval
<1>3. IsFiniteSet(SetBits)
  BY <1>1, <1>2, FS_Subset
<1>4. SetBits \subseteq Nat
  BY <1>1, WordFacts
<1>5. ASSUME NEW p PROVE /\ IsFiniteSet(BitsBelow(p)) /\ Cardinality(BitsBelow(p)) \in Nat
                         /\ Cardinality(BitsBelow(p)) <= Cardinality(SetBits)
  <2>1. BitsBelow(p) \subseteq SetBits
    BY DEF BitsBelow
  <2>. QED BY <1>3, <2>1, FS_Subset, FS_CardinalityType
<1>. QED BY <1>3, <1>4, <1>5

\* The table is well defined: each entry is the one before it and the bits of a word.
LEMMA TableSteps ==
    ASSUME VectorType
    PROVE  /\ RankTable[0] = 0
           /\ \A w \in 1 .. Words : RankTable[w] = RankTable[w - 1] + Cardinality(call.v[w])
           /\ \A w \in 0 .. Words : RankTable[w] \in Nat
<1>1. \A w \in 1 .. Words : Cardinality(call.v[w]) \in Nat
  <2>. TAKE w \in 1 .. Words
  <2>1. call.v[w] \subseteq 0 .. WordBits - 1
    BY WordFacts, w - 1 \in 0 .. Words - 1
  <2>2. IsFiniteSet(0 .. WordBits - 1)
    <3>1. 0 \in Int /\ WordBits - 1 \in Int
      BY WordFacts
    <3>. QED BY <3>1, FS_Interval, Zenon
  <2>3. IsFiniteSet(call.v[w])
    BY <2>1, <2>2, FS_Subset
  <2>. QED BY <2>3, FS_CardinalityType
<1>. DEFINE turn == [q \in (1 .. Words) \X Nat |-> q[2] + Cardinality(call.v[q[1]])]
            Is(f) == f = [w \in 0 .. Words |-> IF w = 0 THEN 0 ELSE f[w - 1] + Cardinality(call.v[w])]
<1>2. \A w \in 1 .. Words, x \in Nat : turn[<<w, x>>] = x + Cardinality(call.v[w])
  OBVIOUS
<1>3. \A w \in 1 .. Words, x \in Nat : turn[<<w, x>>] \in Nat
  <2>. TAKE w \in 1 .. Words, x \in Nat
  <2>1. turn[<<w, x>>] = x + Cardinality(call.v[w]) /\ Cardinality(call.v[w]) \in Nat
    BY <1>1, <1>2, Zenon
  <2>. HIDE DEF turn
  <2>. QED BY <2>1
<1>. HIDE DEF turn
<1>4. PICK g \in [0 .. Words -> Nat] : g[0] = 0 /\ \A w \in 1 .. Words : g[w] = turn[<<w, g[w - 1]>>]
  <2>1. 0 \in Nat /\ Words \in Nat
    BY WordFacts
  <2>2. StaysIn(turn, Nat, Words)
    BY <1>3 DEF StaysIn
  <2>3. \E g : Unfolds(g, Nat, Words, 0, turn)
    BY <2>1, <2>2, RecursionExists
  <2>. QED BY <2>3 DEF Unfolds
<1>5. \A w \in 1 .. Words : g[w] = g[w - 1] + Cardinality(call.v[w])
  <2>. TAKE w \in 1 .. Words
  <2>1. g[w - 1] \in Nat
    BY WordFacts
  <2>. QED BY <2>1, <1>2, <1>4
<1>6. Is(g)
  <2>. DEFINE e == [w \in 0 .. Words |-> IF w = 0 THEN 0 ELSE g[w - 1] + Cardinality(call.v[w])]
  <2>1. \A w \in 0 .. Words : g[w] = e[w]
    <3>. TAKE w \in 0 .. Words
    <3>1. w = 0 \/ w \in 1 .. Words
      OBVIOUS
    <3>. QED BY <3>1, <1>4, <1>5
  <2>2. g = e
    BY <2>1
  <2>. QED BY <2>2
<1>7. RankTable = CHOOSE f : Is(f)
  BY DEF RankTable
<1>. HIDE DEF Is
<1>8. Is(RankTable)
  BY <1>6, <1>7
<1>. DEFINE R == RankTable
<1>. HIDE DEF R
<1>9. R = [w \in 0 .. Words |-> IF w = 0 THEN 0 ELSE R[w - 1] + Cardinality(call.v[w])]
  BY <1>8 DEF Is, R
<1>10. R[0] = 0 /\ \A w \in 1 .. Words : R[w] = R[w - 1] + Cardinality(call.v[w])
  BY <1>9, WordFacts
<1>11. \A w \in 0 .. Words : R[w] \in Nat
  <2>. DEFINE S == {m \in Nat : m <= Words => R[m] \in Nat}
  <2>1. 0 \in S
    BY <1>10
  <2>2. \A m \in Nat : m \in S => m + 1 \in S
    <3>. TAKE m \in Nat
    <3>. HAVE m \in S
    <3>. SUFFICES ASSUME m + 1 <= Words PROVE R[m + 1] \in Nat
      OBVIOUS
    <3>1. R[m] \in Nat /\ m + 1 \in 1 .. Words
      BY WordFacts
    <3>. QED BY <1>1, <1>10, <3>1
  <2>. HIDE DEF S
  <2>3. \A m \in Nat : m \in S
    BY <2>1, <2>2, SetInduction
  <2>. QED BY <2>3 DEF S
<1>. QED BY <1>10, <1>11 DEF R

\* An entry of the table counts the bits of the words before it.
LEMMA TableCounts ==
    ASSUME VectorType, NEW w \in 0 .. Words
    PROVE  RankTable[w] = Cardinality(BitsBelow(w * WordBits))
<1>. DEFINE S == {m \in Nat : m <= Words => RankTable[m] = Cardinality(BitsBelow(m * WordBits))}
<1>1. 0 \in S
  <2>1. BitsBelow(0 * WordBits) = {}
    BY BitsFinite, WordFacts DEF BitsBelow
  <2>. QED BY <2>1, TableSteps, FS_EmptySet
<1>2. \A m \in Nat : m \in S => m + 1 \in S
  <2>. TAKE m \in Nat
  <2>. HAVE m \in S
  <2>. SUFFICES ASSUME m + 1 <= Words PROVE RankTable[m + 1] = Cardinality(BitsBelow((m + 1) * WordBits))
    OBVIOUS
  <2>1. m \in 0 .. Words - 1 /\ m + 1 \in 1 .. Words /\ RankTable[m] = Cardinality(BitsBelow(m * WordBits))
    BY WordFacts
  <2>2. BitsBelow((m + 1) * WordBits) = BitsBelow(m * WordBits) \cup BitsOfWord(m)
    <3>1. PICK d \in Nat : d = WordBits /\ d >= 1
      BY WordFacts
    <3>2. (m + 1) * d = m * d + d /\ m * d \in Nat
      OBVIOUS
    <3>3. ASSUME NEW x \in BitsBelow((m + 1) * d) PROVE x \in BitsBelow(m * d) \/ x \in BitsOfWord(m)
      <4>1. x \in SetBits /\ x < (m + 1) * d
        BY <3>3 DEF BitsBelow
      <4>2. PICK q \in Nat, r \in Nat : /\ q = x \div d /\ r = x % d /\ r < d /\ x = q * d + r
                                        /\ r \in call.v[q + 1]
        <5>1. /\ x \div WordBits \in 0 .. Words - 1 /\ x % WordBits \in 0 .. WordBits - 1
              /\ x = (x \div WordBits) * WordBits + (x % WordBits)
              /\ x % WordBits \in call.v[(x \div WordBits) + 1]
          BY <4>1, BitPlace
        <5>2. \A a \in 0 .. Words - 1 : a \in Nat
          BY WordFacts
        <5>3. \A a \in 0 .. WordBits - 1 : a \in Nat /\ a < WordBits
          BY WordFacts
        <5>. QED BY <3>1, <5>1, <5>2, <5>3, Zenon
      <4>3. q < m + 1
        <5>. SUFFICES ASSUME m + 1 <= q PROVE FALSE
          OBVIOUS
        <5>1. q * d = (m + 1) * d + (q - (m + 1)) * d /\ (q - (m + 1)) * d \in Nat
          OBVIOUS
        <5>. QED BY <3>2, <4>1, <4>2, <5>1
      <4>4. CASE q = m
        BY <3>1, <4>2, <4>4 DEF BitsOfWord
      <4>5. CASE q + 1 <= m
        <5>1. m * d = q * d + d + (m - (q + 1)) * d /\ (m - (q + 1)) * d \in Nat /\ q * d \in Nat
          BY <4>5
        <5>. QED BY <3>2, <4>1, <4>2, <5>1 DEF BitsBelow
      <4>. QED BY <4>3, <4>4, <4>5
    <3>4. ASSUME NEW x \in BitsBelow(m * d) PROVE x \in BitsBelow((m + 1) * d)
      <4>1. x \in Nat /\ x \in SetBits /\ x < m * d
        BY BitsFinite DEF BitsBelow
      <4>. QED BY <3>2, <4>1 DEF BitsBelow
    <3>5. ASSUME NEW x \in BitsOfWord(m) PROVE x \in BitsBelow((m + 1) * d)
      <4>1. PICK b \in call.v[m + 1] : x = m * d + b
        BY <3>1 DEF BitsOfWord
      <4>2. x \in SetBits /\ b \in Nat /\ b < d
        BY <2>1, <3>1, <4>1, BitOfWord
      <4>. QED BY <3>2, <4>1, <4>2 DEF BitsBelow
    <3>. QED BY <3>1, <3>3, <3>4, <3>5
  <2>3. BitsBelow(m * WordBits) \cap BitsOfWord(m) = {}
    <3>1. PICK d \in Nat : d = WordBits
      BY WordFacts
    <3>2. ASSUME NEW x \in BitsOfWord(m) PROVE x >= m * d
      <4>1. PICK b \in call.v[m + 1] : x = m * d + b
        BY <3>1 DEF BitsOfWord
      <4>2. b \in Nat
        BY <2>1, <3>1, <4>1, BitOfWord
      <4>. QED BY <4>1, <4>2
    <3>3. ASSUME NEW x \in BitsBelow(m * d) PROVE x \in Nat /\ x < m * d
      BY BitsFinite DEF BitsBelow
    <3>4. m * d \in Nat
      OBVIOUS
    <3>. QED BY <3>1, <3>2, <3>3, <3>4
  <2>4. IsFiniteSet(BitsOfWord(m)) /\ Cardinality(BitsOfWord(m)) = Cardinality(call.v[m + 1])
    <3>1. call.v[m + 1] \subseteq 0 .. WordBits - 1 /\ m * WordBits \in Int /\ 0 .. WordBits - 1 \subseteq Int
      BY <2>1, WordFacts
    <3>2. IsFiniteSet(call.v[m + 1])
      <4>1. 0 \in Int /\ WordBits - 1 \in Int
        BY WordFacts
      <4>2. IsFiniteSet(0 .. WordBits - 1)
        BY <4>1, FS_Interval, Zenon
      <4>. QED BY <3>1, <4>2, FS_Subset
    <3>. QED BY <3>1, <3>2, MovedSize DEF BitsOfWord
  <2>5. Cardinality(BitsBelow(m * WordBits) \cup BitsOfWord(m))
        = Cardinality(BitsBelow(m * WordBits)) + Cardinality(BitsOfWord(m))
    BY <2>3, <2>4, BitsFinite, DisjointSize
  <2>6. RankTable[m + 1] = RankTable[m] + Cardinality(call.v[m + 1])
    BY <2>1, TableSteps
  <2>. QED BY <2>1, <2>2, <2>4, <2>5, <2>6
<1>. HIDE DEF S
<1>3. \A m \in Nat : m \in S
  BY <1>1, <1>2, SetInduction
<1>. QED BY <1>3 DEF S

\* More bits are below a position further on.
LEMMA BelowGrows ==
    ASSUME VectorType, NEW p \in Int, NEW q \in Int, p <= q
    PROVE  Cardinality(BitsBelow(p)) <= Cardinality(BitsBelow(q))
<1>1. BitsBelow(p) \subseteq BitsBelow(q)
  <2>1. \A x \in BitsBelow(p) : x \in Nat /\ x \in SetBits /\ x < p
    BY BitsFinite DEF BitsBelow
  <2>. QED BY <2>1 DEF BitsBelow
<1>. QED BY <1>1, BitsFinite, FS_Subset

\* The bits below a position are those of the words before it, and the lower ones of its word.
LEMMA SplitWord ==
    ASSUME VectorType, NEW w \in 0 .. Words - 1, NEW c \in 0 .. WordBits - 1
    PROVE  /\ Cardinality(BitsBelow(w * WordBits + c)) = RankTable[w] + Cardinality({y \in call.v[w + 1] : y < c})
           /\ IsFiniteSet({y \in call.v[w + 1] : y < c})
           /\ RankTable[w] \in Nat /\ Cardinality({y \in call.v[w + 1] : y < c}) \in Nat
<1>. DEFINE L == {y \in call.v[w + 1] : y < c}
            M == {w * WordBits + y : y \in L}
<1>1. PICK d \in Nat : d = WordBits /\ d >= 1
  BY WordFacts
<1>2. L \subseteq 0 .. d - 1 /\ L \subseteq call.v[w + 1] /\ \A y \in L : y < c
  BY <1>1, WordFacts
<1>3. IsFiniteSet(L) /\ w * WordBits \in Int /\ L \in SUBSET Int
  <2>1. 0 \in Int /\ d - 1 \in Int
    OBVIOUS
  <2>2. IsFiniteSet(0 .. d - 1)
    BY <2>1, FS_Interval, Zenon
  <2>3. w \in Int
    OBVIOUS
  <2>. QED BY <1>1, <1>2, <2>2, <2>3, FS_Subset
<1>. HIDE DEF L
<1>4. IsFiniteSet(M) /\ Cardinality(M) = Cardinality(L)
  BY <1>3, MovedSize
<1>. HIDE DEF M
<1>5. \A x \in M : \E y \in L : x = w * d + y
  BY <1>1 DEF M
<1>6. \A y \in L : w * d + y \in M /\ y \in Nat
  BY <1>1, <1>2 DEF M
<1>7. w * d \in Nat /\ c \in Nat /\ c < d /\ w \in Nat
  BY <1>1
<1>8. BitsBelow(w * WordBits + c) = BitsBelow(w * WordBits) \cup M
  <2>1. ASSUME NEW x \in BitsBelow(w * d + c) PROVE x \in BitsBelow(w * d) \/ x \in M
    <3>1. x \in SetBits /\ x < w * d + c
      BY <2>1 DEF BitsBelow
    <3>2. PICK q \in Nat, r \in Nat : r < d /\ x = q * d + r /\ r \in call.v[q + 1]
      <4>1. /\ x \div WordBits \in 0 .. Words - 1 /\ x % WordBits \in 0 .. WordBits - 1
            /\ x = (x \div WordBits) * WordBits + (x % WordBits)
            /\ x % WordBits \in call.v[(x \div WordBits) + 1]
        BY <3>1, BitPlace
      <4>2. \A a \in 0 .. Words - 1 : a \in Nat
        BY WordFacts
      <4>3. \A a \in 0 .. WordBits - 1 : a \in Nat /\ a < WordBits
        BY WordFacts
      <4>. QED BY <1>1, <4>1, <4>2, <4>3, Zenon
    <3>3. q <= w
      <4>. SUFFICES ASSUME w + 1 <= q PROVE FALSE
        BY <1>7
      <4>1. q * d = w * d + d + (q - (w + 1)) * d /\ (q - (w + 1)) * d \in Nat
        BY <1>7
      <4>. QED BY <1>7, <3>1, <3>2, <4>1
    <3>4. CASE q = w
      <4>1. r < c
        BY <1>7, <3>1, <3>2, <3>4
      <4>2. r \in L
        BY <3>2, <3>4, <4>1 DEF L
      <4>. QED BY <1>6, <3>2, <3>4, <4>2
    <3>5. CASE q + 1 <= w
      <4>1. w * d = q * d + d + (w - (q + 1)) * d /\ (w - (q + 1)) * d \in Nat /\ q * d \in Nat
        BY <1>7, <3>5
      <4>2. x < w * d
        BY <3>2, <4>1
      <4>. QED BY <3>1, <4>2 DEF BitsBelow
    <3>. QED BY <1>7, <3>3, <3>4, <3>5
  <2>2. ASSUME NEW x \in BitsBelow(w * d) PROVE x \in BitsBelow(w * d + c)
    <3>1. x \in Nat /\ x \in SetBits /\ x < w * d
      BY BitsFinite DEF BitsBelow
    <3>. QED BY <1>7, <3>1 DEF BitsBelow
  <2>3. ASSUME NEW x \in M PROVE x \in BitsBelow(w * d + c)
    <3>1. PICK y \in L : x = w * d + y
      BY <1>5
    <3>2. x \in SetBits
      BY <1>1, <1>2, <3>1, BitOfWord
    <3>3. y \in Nat /\ y < c
      BY <1>2, <1>6
    <3>. QED BY <1>7, <3>1, <3>2, <3>3 DEF BitsBelow
  <2>. QED BY <1>1, <2>1, <2>2, <2>3
<1>9. BitsBelow(w * WordBits) \cap M = {}
  <2>1. ASSUME NEW x \in M, x \in BitsBelow(w * d) PROVE FALSE
    <3>1. PICK y \in L : x = w * d + y
      BY <1>5
    <3>2. x < w * d /\ y \in Nat
      BY <1>6, <2>1 DEF BitsBelow
    <3>. QED BY <1>7, <3>1, <3>2
  <2>. QED BY <1>1, <2>1
<1>10. Cardinality(BitsBelow(w * WordBits) \cup M) = Cardinality(BitsBelow(w * WordBits)) + Cardinality(M)
  BY <1>4, <1>9, BitsFinite, DisjointSize
<1>11. RankTable[w] = Cardinality(BitsBelow(w * WordBits))
  <2>1. w \in 0 .. Words
    BY WordFacts
  <2>. QED BY <2>1, TableCounts
<1>12. RankTable[w] \in Nat /\ Cardinality(L) \in Nat
  BY <1>3, <1>11, BitsFinite, FS_CardinalityType
<1>. QED BY <1>3, <1>4, <1>8, <1>10, <1>11, <1>12 DEF L

\* The last entry of the table counts all of them.
LEMMA TableTotal ==
    ASSUME VectorType
    PROVE  RankTable[Words] = Cardinality(SetBits)
<1>1. BitsBelow(Words * WordBits) = SetBits
  <2>1. \A x \in SetBits : x < Words * WordBits
    BY BitPlace, WordFacts
  <2>. QED BY <2>1 DEF BitsBelow
<1>2. Words \in 0 .. Words
  BY WordFacts
<1>. QED BY <1>1, <1>2, TableCounts

\* Rank counts the set bits below a position, wherever that is.
LEMMA RankCounts ==
    ASSUME VectorType
    PROVE  Rank(call.p) = Cardinality(BitsBelow(call.p))
<1>. DEFINE p == call.p
<1>0. p \in Int
  BY DEF VectorType
<1>1. CASE p <= 0
  <2>1. BitsBelow(p) = {}
    <3>1. \A x \in SetBits : x \in Nat
      BY BitsFinite
    <3>. QED BY <1>0, <1>1, <3>1 DEF BitsBelow
  <2>. QED BY <1>1, <2>1, FS_EmptySet DEF Rank
<1>2. CASE p > 0
  <2>1. PICK w \in Nat, c \in Nat : w = p \div WordBits /\ c = p % WordBits /\ c < WordBits /\ p = w * WordBits + c
    <3>1. p \in Nat
      BY <1>0, <1>2
    <3>2. /\ p \div WordBits \in Nat /\ p % WordBits \in Nat /\ p % WordBits < WordBits
          /\ p = (p \div WordBits) * WordBits + (p % WordBits)
      BY <3>1, WordFacts, DivMod
    <3>. QED BY <3>2, Zenon
  <2>2. CASE w >= Words
    <3>1. BitsBelow(p) = SetBits
      <4>1. PICK d \in Nat, e \in Nat : d = WordBits /\ e = Words /\ e <= w
        BY WordFacts, <2>2
      <4>2. w * d = e * d + (w - e) * d /\ (w - e) * d \in Nat
        BY <4>1
      <4>3. \A x \in SetBits : x \in Nat /\ x < d * e
        BY <4>1, BitPlace
      <4>4. d * e <= p
        BY <2>1, <4>1, <4>2
      <4>5. \A x \in SetBits : x < p
        BY <1>0, <4>1, <4>3, <4>4
      <4>. QED BY <4>5 DEF BitsBelow
    <3>2. Rank(p) = RankTable[Words]
      <4>1. ~(p <= 0)
        BY <1>0, <1>2
      <4>2. p \div WordBits >= Words
        BY <2>1, <2>2, Zenon
      <4>. QED BY <4>1, <4>2, Zenon DEF Rank
    <3>. QED BY <3>1, <3>2, TableTotal
  <2>3. CASE w < Words
    <3>1. w \in 0 .. Words - 1 /\ c \in 0 .. WordBits - 1
      BY <2>1, <2>3, WordFacts
    <3>2. Cardinality(BitsBelow(w * WordBits + c)) = RankTable[w] + Cardinality({y \in call.v[w + 1] : y < c})
      BY <3>1, SplitWord
    <3>3. ~(p <= 0) /\ ~(p \div WordBits >= Words)
      <4>1. ~(p <= 0) /\ ~(w >= Words)
        BY <1>0, <1>2, <2>3, WordFacts
      <4>. QED BY <2>1, <4>1, Zenon
    <3>4. CASE c = 0
      <4>1. {y \in call.v[w + 1] : y < c} = {}
        <5>1. \A y \in call.v[w + 1] : y \in Nat
          BY <3>1, WordFacts
        <5>. QED BY <3>4, <5>1
      <4>2. RankTable[w] \in Nat
        BY <3>1, SplitWord
      <4>3. Cardinality(BitsBelow(p)) = RankTable[w]
        <5>1. Cardinality({y \in call.v[w + 1] : y < c}) = 0
          BY <4>1, FS_EmptySet, Zenon
        <5>2. Cardinality(BitsBelow(w * WordBits + c)) = RankTable[w] + 0
          BY <3>2, <5>1, Zenon
        <5>3. RankTable[w] + 0 = RankTable[w]
          BY <4>2
        <5>. QED BY <2>1, <5>2, <5>3, Zenon
      <4>4. Rank(p) = RankTable[w]
        BY <2>1, <3>3, <3>4, Zenon DEF Rank
      <4>. QED BY <4>3, <4>4
    <3>5. CASE c # 0
      <4>1. Rank(p) = RankTable[w] + Cardinality({y \in call.v[w + 1] : y < c})
        BY <2>1, <3>3, <3>5, Zenon DEF Rank
      <4>. QED BY <2>1, <3>2, <4>1
    <3>. QED BY <3>4, <3>5
  <2>. QED BY <2>1, <2>2, <2>3, WordFacts
<1>. QED BY <1>0, <1>1, <1>2

-----------------------------------------------------------------------------

\* The first set bit at or after the position asked about.
IsFirst(x) == x \in BitsFrom(call.p) /\ \A y \in BitsFrom(call.p) : x <= y

\* When fewer bits are below the position than there are, one of the others is the first.
LEMMA FirstFacts ==
    ASSUME VectorType
    PROVE  /\ \A x : IsFirst(x) => x \in SetBits /\ BitsBelow(x) = BitsBelow(call.p)
           /\ Cardinality(BitsBelow(call.p)) < Cardinality(SetBits) => \E x : IsFirst(x)
           /\ Cardinality(BitsBelow(call.p)) >= Cardinality(SetBits) => BitsFrom(call.p) = {}
<1>1. call.p \in Int /\ SetBits \subseteq Nat
  BY BitsFinite DEF VectorType
<1>2. ASSUME NEW x, IsFirst(x) PROVE x \in SetBits /\ BitsBelow(x) = BitsBelow(call.p)
  <2>1. x \in SetBits /\ x >= call.p
    BY <1>2 DEF IsFirst, BitsFrom
  <2>2. \A y \in SetBits : y < x <=> y < call.p
    <3>. TAKE y \in SetBits
    <3>1. x \in Nat /\ y \in Nat
      BY <1>1, <2>1
    <3>2. y >= call.p => x <= y
      BY <1>2 DEF IsFirst, BitsFrom
    <3>. QED BY <1>1, <2>1, <3>1, <3>2
  <2>. QED BY <2>1, <2>2 DEF BitsBelow
<1>3. ASSUME Cardinality(BitsBelow(call.p)) < Cardinality(SetBits) PROVE \E x : IsFirst(x)
  <2>1. BitsBelow(call.p) # SetBits
    <3>1. Cardinality(SetBits) \in Nat
      BY BitsFinite, FS_CardinalityType
    <3>. QED BY <1>3, <3>1
  <2>2. BitsFrom(call.p) # {} /\ BitsFrom(call.p) \subseteq Nat
    <3>1. PICK x \in SetBits : ~(x < call.p)
      BY <2>1 DEF BitsBelow
    <3>2. x \in BitsFrom(call.p)
      BY <1>1, <3>1 DEF BitsFrom
    <3>. QED BY <1>1, <3>2 DEF BitsFrom
  <2>3. \E x \in BitsFrom(call.p) : \A y \in BitsFrom(call.p) : x <= y
    BY <2>2, LeastNatural
  <2>. QED BY <2>3 DEF IsFirst
<1>4. ASSUME Cardinality(BitsBelow(call.p)) >= Cardinality(SetBits) PROVE BitsFrom(call.p) = {}
  <2>1. BitsBelow(call.p) \subseteq SetBits
    BY DEF BitsBelow
  <2>2. /\ Cardinality(BitsBelow(call.p)) \in Nat /\ Cardinality(SetBits) \in Nat
        /\ Cardinality(BitsBelow(call.p)) <= Cardinality(SetBits)
    BY BitsFinite, FS_CardinalityType
  <2>3. Cardinality(BitsBelow(call.p)) = Cardinality(SetBits)
    BY <1>4, <2>2
  <2>4. BitsBelow(call.p) = SetBits
    BY <2>1, <2>3, BitsFinite, FS_Subset
  <2>5. \A x \in SetBits : x < call.p /\ x \in Nat
    BY <1>1, <2>4 DEF BitsBelow
  <2>6. \A x \in SetBits : ~(x >= call.p)
    <3>. TAKE x \in SetBits
    <3>1. x \in Int /\ call.p \in Int /\ x < call.p
      BY <1>1, <2>5
    <3>. QED BY <3>1
  <2>. QED BY <2>6, Zenon DEF BitsFrom
<1>. QED BY <1>2, <1>3, <1>4

\* The word of the first bit is one of those the table leaves.
LEMMA FirstBetween ==
    ASSUME VectorType, NEW k, k = Cardinality(BitsBelow(call.p)), NEW x, IsFirst(x),
           NEW lo \in 0 .. Words, NEW hi \in 0 .. Words,
           RankTable[lo] <= k, hi < Words => k < RankTable[hi + 1]
    PROVE  x \div WordBits \in lo .. hi
<1>1. x \in SetBits /\ k = Cardinality(BitsBelow(x)) /\ k \in Nat
  BY FirstFacts, BitsFinite
<1>2. PICK q \in Nat, r \in Nat : q = x \div WordBits /\ r < WordBits /\ x = q * WordBits + r /\ q <= Words - 1 /\ x \in Nat
  <2>1. /\ x \div WordBits \in 0 .. Words - 1 /\ x % WordBits \in 0 .. WordBits - 1 /\ x \in Nat
        /\ x = (x \div WordBits) * WordBits + (x % WordBits)
    BY <1>1, BitPlace
  <2>2. \A a \in 0 .. Words - 1 : a \in Nat /\ a <= Words - 1
    BY WordFacts
  <2>3. \A a \in 0 .. WordBits - 1 : a \in Nat /\ a < WordBits
    BY WordFacts
  <2>. QED BY <2>1, <2>2, <2>3, Zenon
<1>3. PICK d \in Nat, e \in Nat : d = WordBits /\ e = Words /\ d >= 1
  BY WordFacts
<1>4. lo <= q
  <2>. SUFFICES ASSUME q + 1 <= lo PROVE FALSE
    BY <1>3
  <2>1. lo * d = q * d + d + (lo - (q + 1)) * d /\ (lo - (q + 1)) * d \in Nat
    BY <1>3
  <2>2. x + 1 <= lo * d /\ x + 1 \in Int /\ lo * d \in Int
    BY <1>2, <1>3, <2>1
  <2>3. Cardinality(BitsBelow(x + 1)) <= RankTable[lo]
    <3>1. Cardinality(BitsBelow(x + 1)) <= Cardinality(BitsBelow(lo * WordBits))
      BY <1>3, <2>2, BelowGrows
    <3>. QED BY <3>1, TableCounts
  <2>4. BitsBelow(x + 1) = BitsBelow(x) \cup {x} /\ x \notin BitsBelow(x)
    <3>1. \A y \in SetBits : y < x + 1 <=> y < x \/ y = x
      BY <1>2, BitsFinite
    <3>2. ~(x < x)
      BY <1>2
    <3>3. x \notin BitsBelow(x)
      BY <3>2 DEF BitsBelow
    <3>4. \A y : y \in BitsBelow(x + 1) <=> y \in BitsBelow(x) \cup {x}
      BY <1>1, <3>1 DEF BitsBelow
    <3>. QED BY <3>3, <3>4, Zenon
  <2>5. Cardinality(BitsBelow(x + 1)) = k + 1
    BY <1>1, <2>4, BitsFinite, FS_AddElement
  <2>6. RankTable[lo] \in Nat
    BY TableSteps
  <2>. QED BY <1>1, <2>3, <2>5, <2>6
<1>5. q <= hi
  <2>. SUFFICES ASSUME hi + 1 <= q PROVE FALSE
    BY <1>3
  <2>1. q * d = (hi + 1) * d + (q - (hi + 1)) * d /\ (q - (hi + 1)) * d \in Nat
    BY <1>3
  <2>2. (hi + 1) * d <= x /\ (hi + 1) * d \in Int
    BY <1>2, <1>3, <2>1
  <2>3. hi < Words /\ hi + 1 \in 0 .. Words
    BY <1>2, <1>3
  <2>4. RankTable[hi + 1] <= Cardinality(BitsBelow(x))
    <3>1. Cardinality(BitsBelow((hi + 1) * WordBits)) <= Cardinality(BitsBelow(x))
      BY <1>2, <1>3, <2>2, BelowGrows
    <3>. QED BY <2>3, <3>1, TableCounts
  <2>5. RankTable[hi + 1] \in Nat
    BY <2>3, TableSteps
  <2>. QED BY <1>1, <2>3, <2>4, <2>5
<1>. QED BY <1>2, <1>3, <1>4, <1>5

-----------------------------------------------------------------------------
(* The invariant of rank and select.                                       *)

\* The table leaves the words from lo to hi.
Bracketed ==
    /\ st.k = Cardinality(BitsBelow(call.p)) /\ st.k < RankTable[Words]
    /\ st.lo \in 0 .. Words /\ st.hi \in 0 .. Words /\ st.lo <= st.hi
    /\ RankTable[st.lo] <= st.k
    /\ st.hi < Words => st.k < RankTable[st.hi + 1]

\* The word is found, and the answer is the bit that left others of the word are below.
WordFound ==
    /\ st.lo \in 0 .. Words - 1 /\ st.word \subseteq call.v[st.lo + 1] /\ st.left \in Nat
    /\ \E b \in st.word : /\ IsFirst(st.lo * WordBits + b)
                          /\ Cardinality({y \in st.word : y < b}) = st.left

Answered == IF BitsFrom(call.p) = {} THEN out = -1 ELSE IsFirst(out)

RankStates ==
    [pc : {"rank", "select", "search", "walk", "returned"},
     k : Int, lo : Int, hi : Int, word : SUBSET Int, left : Int]

RankIndInv ==
    call.op = "rank" =>
    /\ VectorType
    /\ st \in RankStates
    /\ st.pc = "select" => st.k = Cardinality(BitsBelow(call.p))
    /\ st.pc = "search" => Bracketed
    /\ st.pc = "walk" => WordFound
    /\ Returned => Answered

\* A vector that has been given has a table, and nothing has been asked of it yet.
LEMMA RankIndInvInit == ASSUME RankInit PROVE RankIndInv
<1>1. call \in [op : {"rank"}, impl : {"ref"}, v : Vectors, p : Positions] /\ st.pc = "rank"
  BY DEF RankInit
<1>2. VectorType
  BY <1>1, VectorsAssumption DEF VectorType
<1>3. st \in RankStates
  BY DEF RankInit, RankStates
<1>. QED BY <1>1, <1>2, <1>3 DEF RankIndInv, Returned

\* Rank is asked for: what it returns counts the bits below the position.
LEMMA AskRankInv == ASSUME RankIndInv, AskRank PROVE RankIndInv'
<1>1. call.op = "rank" /\ VectorType /\ call' = call /\ st' = [st EXCEPT !.pc = "select", !.k = Rank(call.p)]
  BY DEF RankIndInv, AskRank, In
<1>2. Rank(call.p) = Cardinality(BitsBelow(call.p)) /\ Cardinality(BitsBelow(call.p)) \in Nat
  BY <1>1, RankCounts, BitsFinite
<1>3. st \in RankStates
  BY <1>1 DEF RankIndInv
<1>4. st' \in RankStates /\ st'.pc = "select" /\ st'.k = Rank(call.p)
  <2>1. PICK k \in Int : k = Rank(call.p)
    BY <1>2
  <2>2. st' = [st EXCEPT !.pc = "select", !.k = k]
    BY <1>1, <2>1, Zenon
  <2>3. st' \in RankStates /\ st'.pc = "select" /\ st'.k = k
    BY <1>3, <2>2 DEF RankStates
  <2>. QED BY <2>1, <2>3
<1>5. VectorType' /\ BitsBelow(call.p)' = BitsBelow(call.p)
  BY <1>1 DEF VectorType, BitsBelow, SetBits, Words
<1>. QED BY <1>1, <1>2, <1>4, <1>5 DEF RankIndInv, Returned

\* There is no bit of that rank: none is at or after the position.
LEMMA SelectNoneInv == ASSUME RankIndInv, SelectNone PROVE RankIndInv'
<1>1. call.op = "rank" /\ VectorType /\ call' = call /\ out' = -1 /\ st' = [st EXCEPT !.pc = "returned"]
      /\ st.k = Cardinality(BitsBelow(call.p)) /\ NoSuchBit
  BY DEF RankIndInv, SelectNone, In, Return
<1>2. st \in RankStates
  BY <1>1 DEF RankIndInv
<1>3. st' \in RankStates /\ st'.pc = "returned"
  <2>1. st' = [st EXCEPT !.pc = "returned"]
    BY <1>1
  <2>. QED BY <1>2, <2>1 DEF RankStates
<1>4. RankTable[Words] = Cardinality(SetBits) /\ st.k \in Nat /\ Cardinality(SetBits) \in Nat
  BY <1>1, TableTotal, BitsFinite, FS_CardinalityType
<1>5. st.k >= Cardinality(SetBits)
  <2>1. CASE Words = 0
    <3>1. RankTable[Words] = 0
      BY <1>1, <2>1, TableSteps
    <3>. QED BY <1>4, <3>1
  <2>2. CASE st.k < 0 \/ st.k >= RankTable[Words]
    BY <1>4, <2>2
  <2>. QED BY <1>1, <2>1, <2>2 DEF NoSuchBit
<1>6. BitsFrom(call.p) = {}
  BY <1>1, <1>5, FirstFacts
<1>7. VectorType' /\ BitsFrom(call.p)' = BitsFrom(call.p)
  BY <1>1 DEF VectorType, BitsFrom, SetBits, Words
<1>8. Answered'
  BY <1>1, <1>6, <1>7 DEF Answered
<1>. QED BY <1>3, <1>7, <1>8 DEF RankIndInv, Returned

\* What the table, the set bits and the first of them are depends on the call alone.
LEMMA SameVector ==
    ASSUME UNCHANGED call
    PROVE  /\ VectorType' = VectorType /\ Words' = Words /\ RankTable' = RankTable
           /\ BitsBelow(call.p)' = BitsBelow(call.p) /\ BitsFrom(call.p)' = BitsFrom(call.p)
           /\ \A x : IsFirst(x)' = IsFirst(x)
<1>1. Words' = Words /\ SetBits' = SetBits
  BY DEF Words, SetBits
<1>2. BitsBelow(call.p)' = BitsBelow(call.p) /\ BitsFrom(call.p)' = BitsFrom(call.p)
  BY <1>1 DEF BitsBelow, BitsFrom
<1>3. RankTable' = RankTable
  BY <1>1 DEF RankTable
<1>. QED BY <1>1, <1>2, <1>3 DEF VectorType, IsFirst

\* The search of the table starts with every word.
LEMMA SelectStartInv == ASSUME RankIndInv, SelectStart PROVE RankIndInv'
<1>1. call.op = "rank" /\ VectorType /\ call' = call
      /\ st' = [st EXCEPT !.pc = "search", !.lo = 0, !.hi = Words]
      /\ st.k = Cardinality(BitsBelow(call.p)) /\ ~NoSuchBit
  BY DEF RankIndInv, SelectStart, In
<1>2. st \in RankStates
  BY <1>1 DEF RankIndInv
<1>3. Words \in Nat
  BY <1>1, WordFacts
<1>4. /\ st' \in RankStates
      /\ st'.pc = "search" /\ st'.lo = 0 /\ st'.hi = Words /\ st'.k = st.k
  <2>1. PICK w \in Int, z \in Int : w = Words /\ z = 0
    BY <1>3
  <2>2. st' = [st EXCEPT !.pc = "search", !.lo = z, !.hi = w]
    BY <1>1, <2>1, Zenon
  <2>3. st' \in RankStates /\ st'.pc = "search" /\ st'.lo = z /\ st'.hi = w /\ st'.k = st.k
    BY <1>2, <2>2 DEF RankStates
  <2>. QED BY <2>1, <2>3
<1>5. RankTable[0] = 0 /\ RankTable[Words] \in Nat /\ st.k \in Nat
  BY <1>1, <1>3, TableSteps, BitsFinite
<1>6. st.k < RankTable[Words]
  BY <1>1, <1>5 DEF NoSuchBit
<1>7. Bracketed'
  BY <1>1, <1>3, <1>4, <1>5, <1>6, SameVector DEF Bracketed
<1>. QED BY <1>1, <1>4, <1>7, SameVector DEF RankIndInv, Returned

\* A turn of the search keeps the word inside what is left.
LEMMA SearchTurnInv == ASSUME RankIndInv, SearchTurn PROVE RankIndInv'
<1>1. call.op = "rank" /\ VectorType /\ call' = call /\ Bracketed /\ st.lo < st.hi
      /\ st' = (IF RankTable[Mid] <= st.k THEN [st EXCEPT !.lo = Mid] ELSE [st EXCEPT !.hi = Mid - 1])
      /\ st.pc = "search"
  BY Zenon DEF RankIndInv, SearchTurn, In
<1>2. st \in RankStates
  BY <1>1 DEF RankIndInv
<1>3. Words \in Nat /\ \A w \in 0 .. Words : RankTable[w] \in Nat
  BY <1>1, WordFacts, TableSteps
<1>4. PICK lo \in Nat, hi \in Nat, k \in Nat : lo = st.lo /\ hi = st.hi /\ k = st.k /\ lo < hi /\ hi <= Words
  <2>1. st.lo \in 0 .. Words /\ st.hi \in 0 .. Words /\ st.k \in Nat
    BY <1>1, BitsFinite DEF Bracketed
  <2>. QED BY <1>1, <1>3, <2>1
<1>5. Mid \in Nat /\ lo < Mid /\ Mid <= hi
  <2>1. Mid = (lo + hi + 1) \div 2
    BY <1>4 DEF Mid
  <2>. QED BY <1>4, <2>1
<1>6. CASE RankTable[Mid] <= st.k
  <2>1. st' \in RankStates /\ st'.pc = "search" /\ st'.lo = Mid /\ st'.hi = st.hi /\ st'.k = st.k
    <3>1. PICK m \in Int : m = Mid
      BY <1>5
    <3>2. st' = [st EXCEPT !.lo = m] /\ st.pc = "search"
      BY <1>1, <1>6, <3>1, Zenon
    <3>3. st' \in RankStates /\ st'.pc = "search" /\ st'.lo = m /\ st'.hi = st.hi /\ st'.k = st.k
      BY <1>2, <3>2 DEF RankStates
    <3>. QED BY <3>1, <3>3
  <2>2. Bracketed'
    BY <1>1, <1>3, <1>4, <1>5, <1>6, <2>1, SameVector DEF Bracketed
  <2>. QED BY <1>1, <2>1, <2>2, SameVector DEF RankIndInv, Returned
<1>7. CASE ~(RankTable[Mid] <= st.k)
  <2>1. st' \in RankStates /\ st'.pc = "search" /\ st'.lo = st.lo /\ st'.hi = Mid - 1 /\ st'.k = st.k
    <3>1. PICK m \in Int : m = Mid - 1
      BY <1>5
    <3>2. st' = [st EXCEPT !.hi = m] /\ st.pc = "search"
      BY <1>1, <1>7, <3>1, Zenon
    <3>3. st' \in RankStates /\ st'.pc = "search" /\ st'.lo = st.lo /\ st'.hi = m /\ st'.k = st.k
      BY <1>2, <3>2 DEF RankStates
    <3>. QED BY <3>1, <3>3
  <2>2. Mid \in 0 .. Words /\ RankTable[Mid] \in Nat /\ Mid - 1 + 1 = Mid
    BY <1>3, <1>4, <1>5
  <2>3. st.k < RankTable[Mid]
    BY <1>4, <1>7, <2>2
  <2>4. Bracketed'
    BY <1>1, <1>3, <1>4, <1>5, <2>1, <2>2, <2>3, SameVector DEF Bracketed
  <2>. QED BY <1>1, <2>1, <2>4, SameVector DEF RankIndInv, Returned
<1>. QED BY <1>6, <1>7

\* One word is left, and its own bits are counted down from the table's entry.
LEMMA SearchEndInv == ASSUME RankIndInv, SearchEnd PROVE RankIndInv'
<1>1. call.op = "rank" /\ VectorType /\ call' = call /\ Bracketed /\ st.lo >= st.hi
      /\ st' = [st EXCEPT !.pc = "walk", !.word = call.v[st.lo + 1], !.left = st.k - RankTable[st.lo]]
  BY DEF RankIndInv, SearchEnd, In
<1>2. st \in RankStates
  BY <1>1 DEF RankIndInv
<1>3. Words \in Nat /\ \A w \in 0 .. Words : RankTable[w] \in Nat
  BY <1>1, WordFacts, TableSteps
<1>4. PICK lo \in Nat, k \in Nat : /\ lo = st.lo /\ lo = st.hi /\ k = st.k /\ lo <= Words
                                   /\ k < RankTable[Words] /\ RankTable[lo] <= k
  <2>1. /\ st.lo \in 0 .. Words /\ st.hi \in 0 .. Words /\ st.k \in Nat /\ st.lo <= st.hi
        /\ st.k < RankTable[Words] /\ RankTable[st.lo] <= st.k
    BY <1>1, BitsFinite DEF Bracketed
  <2>. QED BY <1>1, <1>3, <2>1
<1>5. lo \in 0 .. Words - 1
  <2>1. lo # Words
    BY <1>3, <1>4
  <2>. QED BY <1>3, <1>4, <2>1
<1>6. PICK x : IsFirst(x)
  <2>1. Cardinality(BitsBelow(call.p)) < Cardinality(SetBits)
    BY <1>1, TableTotal DEF Bracketed
  <2>. QED BY <1>1, <2>1, FirstFacts
<1>7. x \in SetBits /\ x \div WordBits = lo /\ Cardinality(BitsBelow(x)) = k
  <2>1. x \div WordBits \in lo .. lo
    <3>1. lo \in 0 .. Words /\ k = Cardinality(BitsBelow(call.p)) /\ (lo < Words => k < RankTable[lo + 1])
      BY <1>1, <1>3, <1>4 DEF Bracketed
    <3>. QED BY <1>1, <1>4, <1>6, <3>1, FirstBetween
  <2>2. x \in SetBits /\ Cardinality(BitsBelow(x)) = k
    BY <1>1, <1>4, <1>6, FirstFacts DEF Bracketed
  <2>. QED BY <2>1, <2>2
<1>8. PICK b \in 0 .. WordBits - 1 : b \in call.v[lo + 1] /\ x = lo * WordBits + b
  BY <1>1, <1>7, BitPlace
<1>9. Cardinality({y \in call.v[lo + 1] : y < b}) = k - RankTable[lo] /\ k - RankTable[lo] \in Nat
  <2>1. /\ Cardinality(BitsBelow(lo * WordBits + b)) = RankTable[lo] + Cardinality({y \in call.v[lo + 1] : y < b})
        /\ RankTable[lo] \in Nat /\ Cardinality({y \in call.v[lo + 1] : y < b}) \in Nat
    BY <1>1, <1>5, SplitWord
  <2>2. PICK c \in Nat, t \in Nat : c = Cardinality({y \in call.v[lo + 1] : y < b}) /\ t = RankTable[lo]
    BY <2>1, Zenon
  <2>3. k = t + c
    BY <1>7, <1>8, <2>1, <2>2
  <2>4. k - t = c
    BY <2>2, <2>3
  <2>. QED BY <2>2, <2>4, Zenon
<1>10. call.v[lo + 1] \in SUBSET Int
  <2>1. call.v[lo + 1] \subseteq 0 .. WordBits - 1
    BY <1>1, <1>5, WordFacts
  <2>2. WordBits \in Int
    BY <1>1, WordFacts
  <2>. QED BY <2>1, <2>2
<1>11. /\ st' \in RankStates
       /\ st'.pc = "walk" /\ st'.lo = lo /\ st'.word = call.v[lo + 1] /\ st'.left = k - RankTable[lo]
  <2>1. PICK w \in SUBSET Int, rest \in Int : w = call.v[lo + 1] /\ rest = k - RankTable[lo]
    <3>1. k - RankTable[lo] \in Int
      BY <1>9
    <3>. QED BY <1>10, <3>1, Zenon
  <2>2. st' = [st EXCEPT !.pc = "walk", !.word = w, !.left = rest]
    BY <1>1, <1>4, <2>1, Zenon
  <2>3. st' \in RankStates /\ st'.pc = "walk" /\ st'.lo = st.lo /\ st'.word = w /\ st'.left = rest
    BY <1>2, <2>2 DEF RankStates
  <2>. QED BY <1>4, <2>1, <2>3, Zenon
<1>12. WordFound'
  <2>1. IsFirst(lo * WordBits + b)'
    BY <1>1, <1>6, <1>8, SameVector
  <2>2. Words' = Words /\ call'.v = call.v
    BY <1>1, SameVector
  <2>. QED BY <1>5, <1>8, <1>9, <1>11, <2>1, <2>2 DEF WordFound
<1>. QED BY <1>1, <1>11, <1>12, SameVector DEF RankIndInv, Returned

\* A word has a lowest bit.
LEMMA LowestIs ==
    ASSUME NEW word \in SUBSET Nat, word # {}
    PROVE  LowestBit(word) \in word /\ \A y \in word : LowestBit(word) <= y
<1>1. \E x \in word : \A y \in word : x <= y
  BY LeastNatural
<1>. QED BY <1>1 DEF LowestBit

\* The word that was found has the first bit, and the bits left to skip are below it.
LEMMA WordFoundFacts ==
    ASSUME VectorType, WordFound
    PROVE  st.word \in SUBSET Nat /\ IsFiniteSet(st.word) /\ st.lo \in 0 .. Words - 1
<1>1. st.lo \in 0 .. Words - 1 /\ st.word \subseteq call.v[st.lo + 1]
  BY DEF WordFound
<1>2. call.v[st.lo + 1] \subseteq 0 .. WordBits - 1
  BY <1>1, WordFacts
<1>3. IsFiniteSet(0 .. WordBits - 1)
  <2>1. 0 \in Int /\ WordBits - 1 \in Int
    BY WordFacts
  <2>. QED BY <2>1, FS_Interval, Zenon
<1>4. st.word \subseteq 0 .. WordBits - 1 /\ 0 .. WordBits - 1 \subseteq Nat
  BY <1>1, <1>2, WordFacts
<1>. QED BY <1>1, <1>3, <1>4, FS_Subset

\* Clearing the lowest bit leaves one bit less to skip.
LEMMA ClearLowestInv == ASSUME RankIndInv, ClearLowest PROVE RankIndInv'
<1>1. call.op = "rank" /\ VectorType /\ call' = call /\ WordFound /\ st.left > 0 /\ st.pc = "walk"
      /\ st' = [st EXCEPT !.word = @ \ {LowestBit(st.word)}, !.left = @ - 1]
  BY DEF RankIndInv, ClearLowest, In
<1>2. st \in RankStates
  BY <1>1 DEF RankIndInv
<1>3. st.word \in SUBSET Nat /\ IsFiniteSet(st.word) /\ st.lo \in 0 .. Words - 1
  BY <1>1, WordFoundFacts
<1>. DEFINE low == LowestBit(st.word)
<1>4. PICK b \in st.word : /\ IsFirst(st.lo * WordBits + b)
                           /\ Cardinality({y \in st.word : y < b}) = st.left
  BY <1>1 DEF WordFound
<1>5. low \in st.word /\ \A y \in st.word : low <= y
  BY <1>3, <1>4, LowestIs
<1>. HIDE DEF low
<1>6. low < b
  <2>1. {y \in st.word : y < b} # {}
    BY <1>1, <1>4, FS_EmptySet
  <2>2. PICK y \in st.word : y < b
    BY <2>1
  <2>3. low \in Nat /\ y \in Nat /\ b \in Nat /\ low <= y
    BY <1>3, <1>4, <1>5, <2>2
  <2>. QED BY <2>2, <2>3
<1>7. {y \in st.word \ {low} : y < b} = {y \in st.word : y < b} \ {low}
  OBVIOUS
<1>8. Cardinality({y \in st.word \ {low} : y < b}) = st.left - 1 /\ st.left - 1 \in Nat
  <2>1. {y \in st.word : y < b} \subseteq st.word /\ low \in {y \in st.word : y < b}
    BY <1>5, <1>6
  <2>2. IsFiniteSet({y \in st.word : y < b})
    BY <1>3, <2>1, FS_Subset
  <2>3. Cardinality({y \in st.word : y < b} \ {low}) = Cardinality({y \in st.word : y < b}) - 1
    BY <2>1, <2>2, WithoutOne
  <2>4. st.left \in Nat
    BY <1>1 DEF WordFound
  <2>5. Cardinality({y \in st.word \ {low} : y < b}) = st.left - 1
    BY <1>4, <1>7, <2>3, Zenon
  <2>6. st.left - 1 \in Nat
    BY <1>1, <2>4
  <2>. QED BY <2>5, <2>6
<1>9. /\ st' \in RankStates
      /\ st'.pc = "walk" /\ st'.lo = st.lo /\ st'.word = st.word \ {low} /\ st'.left = st.left - 1
  <2>1. PICK w \in SUBSET Int, x \in Int : w = st.word \ {low} /\ x = st.left - 1
    <3>1. st.word \ {low} \in SUBSET Int
      BY <1>3
    <3>2. st.left - 1 \in Int
      BY <1>8
    <3>. QED BY <3>1, <3>2, Zenon
  <2>2. st' = [st EXCEPT !.word = w, !.left = x] /\ st.pc = "walk"
    BY <1>1, <2>1, Zenon DEF low
  <2>3. st' \in RankStates /\ st'.pc = "walk" /\ st'.lo = st.lo /\ st'.word = w /\ st'.left = x
    BY <1>2, <2>2 DEF RankStates
  <2>. QED BY <2>1, <2>3, Zenon
<1>10. WordFound'
  <2>1. IsFirst(st.lo * WordBits + b)'
    BY <1>1, <1>4, SameVector
  <2>2. b \in st.word \ {low}
    <3>1. low \in Nat
      BY <1>3, <1>5
    <3>2. low # b
      BY <1>6, <3>1
    <3>. QED BY <1>4, <3>2
  <2>3. Words' = Words /\ call'.v = call.v
    BY <1>1, SameVector
  <2>4. st.word \subseteq call.v[st.lo + 1]
    BY <1>1 DEF WordFound
  <2>. QED BY <1>3, <1>8, <1>9, <2>1, <2>2, <2>3, <2>4 DEF WordFound
<1>. QED BY <1>1, <1>9, <1>10, SameVector DEF RankIndInv, Returned

\* With none left to skip, the lowest bit is the first.
LEMMA SelectBitInv == ASSUME RankIndInv, SelectBit PROVE RankIndInv'
<1>1. call.op = "rank" /\ VectorType /\ call' = call /\ WordFound /\ st.left = 0
      /\ out' = st.lo * WordBits + LowestBit(st.word) /\ st' = [st EXCEPT !.pc = "returned"]
  BY DEF RankIndInv, SelectBit, In, Return
<1>2. st \in RankStates
  BY <1>1 DEF RankIndInv
<1>3. st.word \in SUBSET Nat /\ IsFiniteSet(st.word)
  BY <1>1, WordFoundFacts
<1>4. PICK b \in st.word : /\ IsFirst(st.lo * WordBits + b)
                           /\ Cardinality({y \in st.word : y < b}) = 0
  BY <1>1 DEF WordFound
<1>5. LowestBit(st.word) = b
  <2>1. IsFiniteSet({y \in st.word : y < b})
    BY <1>3, FS_Subset
  <2>2. {y \in st.word : y < b} = {}
    BY <1>4, <2>1, FS_EmptySet
  <2>3. LowestBit(st.word) \in st.word /\ LowestBit(st.word) <= b
    BY <1>3, <1>4, LowestIs
  <2>4. ~(LowestBit(st.word) < b)
    BY <2>2, <2>3
  <2>5. LowestBit(st.word) \in Nat /\ b \in Nat
    BY <1>3, <2>3
  <2>. QED BY <2>3, <2>4, <2>5
<1>6. st' \in RankStates /\ st'.pc = "returned"
  <2>1. st' = [st EXCEPT !.pc = "returned"]
    BY <1>1
  <2>. QED BY <1>2, <2>1 DEF RankStates
<1>7. Answered'
  <2>1. BitsFrom(call.p)' = BitsFrom(call.p)
    BY <1>1, SameVector
  <2>2. IsFirst(out)'
    BY <1>1, <1>4, <1>5, <2>1 DEF IsFirst
  <2>3. BitsFrom(call.p) # {}
    BY <1>4 DEF IsFirst
  <2>. QED BY <2>1, <2>2, <2>3 DEF Answered
<1>. QED BY <1>1, <1>6, <1>7, SameVector DEF RankIndInv, Returned

\* The invariant of rank and select holds when a call starts,
LEMMA RankIndInvStart == ColumnInit => RankIndInv
<1>. SUFFICES ASSUME ColumnInit, call.op = "rank" PROVE RankIndInv
  BY DEF RankIndInv
<1>1. RankInit
  BY ColumnInitOp
<1>. QED BY <1>1, RankIndInvInit

\* and every step of the columns keeps it.
LEMMA RankIndInvNext == RankIndInv /\ [ColumnNext]_vars => RankIndInv'
<1>. SUFFICES ASSUME RankIndInv, [ColumnNext]_vars PROVE RankIndInv'
  OBVIOUS
<1>1. CASE ColumnNext
  <2>1. CASE call.op # "rank"
    BY <1>1, <2>1, ColumnStep DEF RankIndInv
  <2>2. CASE call.op = "rank"
    <3>1. RankNext
      BY <1>1, <2>2, ColumnStep
    <3>. QED BY <3>1, AskRankInv, SelectNoneInv, SelectStartInv, SearchTurnInv, SearchEndInv, ClearLowestInv,
                SelectBitInv, Zenon DEF RankNext
  <2>. QED BY <2>1, <2>2
<1>2. CASE UNCHANGED vars
  <2>1. call' = call /\ st' = st /\ out' = out
    BY <1>2 DEF vars
  <2>2. Bracketed' = Bracketed
    BY <2>1, SameVector DEF Bracketed
  <2>3. WordFound' = WordFound
    BY <2>1, SameVector DEF WordFound
  <2>4. Answered' = Answered
    BY <2>1, SameVector DEF Answered, IsFirst
  <2>. QED BY <2>1, <2>2, <2>3, <2>4, SameVector DEF RankIndInv, Returned
<1>. QED BY <1>1, <1>2

\* However wide a word is, whatever the bits of the vector and wherever the position: Select of
\* Rank is the first set bit at or after it, or -1, and the binary search never leaves the
\* word that holds it (bitvector.go:53-56).
THEOREM SelectOfRank == ColumnSpec => []SelectInvertsRank
<1>1. RankIndInv => SelectInvertsRank
  <2>. SUFFICES ASSUME RankIndInv, call.op = "rank" PROVE SelectInvertsRank
    BY DEF SelectInvertsRank
  <2>1. VectorType /\ (st.pc = "search" => Bracketed) /\ (Returned => Answered)
    BY DEF RankIndInv
  <2>2. ASSUME st.pc = "search"
        PROVE  \E x \in BitsFrom(call.p) : /\ \A y \in BitsFrom(call.p) : x <= y
                                           /\ (x \div WordBits) \in st.lo .. st.hi
    <3>1. Bracketed
      BY <2>1, <2>2
    <3>2. PICK x : IsFirst(x)
      <4>1. Cardinality(BitsBelow(call.p)) < Cardinality(SetBits)
        BY <2>1, <3>1, TableTotal DEF Bracketed
      <4>. QED BY <2>1, <4>1, FirstFacts
    <3>3. (x \div WordBits) \in st.lo .. st.hi
      BY <2>1, <3>1, <3>2, FirstBetween DEF Bracketed
    <3>. QED BY <3>2, <3>3 DEF IsFirst
  <2>. QED BY <2>1, <2>2 DEF SelectInvertsRank, BitsFrom, Answered, IsFirst
<1>. QED BY RankIndInvStart, RankIndInvNext, <1>1, PTL DEF ColumnSpec

-----------------------------------------------------------------------------
(* JSON: the bits of a block and of a word of levels.                      *)

JsonArgs == call.op = "json" /\ call.doc \in Documents

LEMMA TextIs ==
    ASSUME JsonArgs
    PROVE  /\ text \in Seq(Chars) /\ Size \in Nat /\ Len(text) = Size /\ call.doc.room \in Nat
           /\ \A p \in 0 .. Size - 1 : Char(p) \in Chars
<1>1. text \in Seq(Chars) /\ call.doc.room \in Nat
  BY JsonAssumption DEF JsonArgs, text
<1>2. Size \in Nat /\ Len(text) = Size
  BY <1>1 DEF Size
<1>3. ASSUME NEW p \in 0 .. Size - 1 PROVE Char(p) \in Chars
  <2>1. p + 1 \in 1 .. Len(text)
    BY <1>2
  <2>. QED BY <1>1, <2>1 DEF Char
<1>. QED BY <1>1, <1>2, <1>3

LEMMA BitsAre ==
    /\ BlockBits \in Nat /\ BlockBits >= 2 /\ BlockBits % 2 = 0 /\ LevelBits \in Nat /\ LevelBits >= 1
    /\ Places = 0 .. BlockBits - 1
BY JsonAssumption DEF Places

LEMMA BitWeights ==
    /\ Weight[0] = 1 /\ \A x \in 0 .. BlockBits + LevelBits : Weight[x] \in Nat /\ Weight[x] >= 1
    /\ \A x \in 1 .. BlockBits + LevelBits : Weight[x] = 2 * Weight[x - 1]
<1>1. PICK n \in Nat : n = BlockBits + LevelBits
  BY BitsAre
<1>. DEFINE twice == [q \in (1 .. n) \X (Nat \ {0}) |-> 2 * q[2]]
            Is(f) == f = [x \in 0 .. BlockBits + LevelBits |-> IF x = 0 THEN 1 ELSE 2 * f[x - 1]]
<1>2. \A k \in 1 .. n, m \in Nat \ {0} : twice[<<k, m>>] = 2 * m /\ 2 * m \in Nat \ {0}
  OBVIOUS
<1>3. StaysIn(twice, Nat \ {0}, n)
  BY <1>2 DEF StaysIn
<1>. HIDE DEF twice
<1>4. PICK f : Unfolds(f, Nat \ {0}, n, 1, twice)
  BY <1>3, RecursionExists
<1>5. f \in [0 .. n -> Nat \ {0}] /\ f[0] = 1 /\ \A k \in 1 .. n : f[k] = 2 * f[k - 1]
  <2>1. f \in [0 .. n -> Nat \ {0}] /\ f[0] = 1 /\ \A k \in 1 .. n : f[k] = twice[<<k, f[k - 1]>>]
    BY <1>4 DEF Unfolds
  <2>2. \A k \in 1 .. n : f[k - 1] \in Nat \ {0}
    BY <2>1
  <2>. QED BY <1>2, <2>1, <2>2
<1>6. Is(f)
  <2>1. \A x \in 0 .. n : f[x] = IF x = 0 THEN 1 ELSE 2 * f[x - 1]
    BY <1>5
  <2>2. DOMAIN f = 0 .. n
    BY <1>5
  <2>. QED BY <1>1, <1>5, <2>1, <2>2
<1>7. Is(Weight)
  BY <1>6, Zenon DEF Weight
<1>8. Weight[0] = 1 /\ \A x \in 1 .. n : Weight[x] = 2 * Weight[x - 1]
  BY <1>1, <1>7
<1>. DEFINE S == {x \in Nat : x <= n => Weight[x] \in Nat \ {0}}
<1>9. 0 \in S
  BY <1>8
<1>10. ASSUME NEW x \in Nat, x \in S PROVE x + 1 \in S
  <2>. SUFFICES ASSUME x + 1 <= n PROVE Weight[x + 1] \in Nat \ {0}
    OBVIOUS
  <2>1. Weight[x + 1] = 2 * Weight[x] /\ Weight[x] \in Nat \ {0}
    BY <1>8, <1>10
  <2>. QED BY <2>1
<1>. HIDE DEF S
<1>11. \A x \in Nat : x \in S
  BY <1>9, <1>10, SetInduction
<1>. QED BY <1>1, <1>8, <1>11 DEF S

\* A weight is a multiple of every smaller one.
LEMMA WeightsDivide ==
    ASSUME NEW x \in Nat, NEW d \in Nat, x + d <= BlockBits + LevelBits
    PROVE  \E m \in Nat : m >= 1 /\ Weight[x + d] = m * Weight[x]
<1>1. PICK n \in Nat : n = BlockBits + LevelBits
  BY BitsAre
<1>. DEFINE S == {k \in Nat : x + k <= n => \E m \in Nat : m >= 1 /\ Weight[x + k] = m * Weight[x]}
<1>2. 0 \in S
  <2>1. x <= n => Weight[x + 0] = 1 * Weight[x]
    BY <1>1, BitWeights
  <2>. QED BY <2>1
<1>3. ASSUME NEW k \in Nat, k \in S PROVE k + 1 \in S
  <2>. SUFFICES ASSUME x + (k + 1) <= n PROVE \E m \in Nat : m >= 1 /\ Weight[x + (k + 1)] = m * Weight[x]
    OBVIOUS
  <2>1. PICK m \in Nat : m >= 1 /\ Weight[x + k] = m * Weight[x]
    BY <1>3
  <2>2. Weight[x + (k + 1)] = 2 * Weight[x + k] /\ Weight[x] \in Nat
    BY <1>1, BitWeights
  <2>3. PICK w \in Nat : w = Weight[x]
    BY <2>2
  <2>4. 2 * (m * w) = (2 * m) * w /\ 2 * m \in Nat /\ 2 * m >= 1
    BY <2>1
  <2>. QED BY <2>1, <2>2, <2>3, <2>4
<1>. HIDE DEF S
<1>4. d \in S
  BY <1>2, <1>3, SetInduction
<1>. QED BY <1>1, <1>4 DEF S

-----------------------------------------------------------------------------
(* Backslashes: a byte is escaped when the one before it is a backslash    *)
(* that is not.                                                            *)

LEMMA EscapedNext ==
    ASSUME JsonArgs, NEW p \in Nat, p < Size
    PROVE  EscapedAt(p + 1) <=> Char(p) = "bs" /\ ~EscapedAt(p)
<1>. DEFINE From(j, q) == j \in 0 .. q - 1 /\ (\A x \in j .. q - 1 : Char(x) = "bs") /\ (j > 0 => Char(j - 1) # "bs")
\* EscapedAt with the place at which the run begins.
<1>1. ASSUME NEW q \in Nat PROVE EscapedAt(q) <=> \E j \in 0 .. q - 1 : From(j, q) /\ (q - 1 - j) % 2 = 0
  <2>1. ASSUME EscapedAt(q) PROVE \E j \in 0 .. q - 1 : From(j, q) /\ (q - 1 - j) % 2 = 0
    <3>1. PICK k \in 0 .. q - 1 : /\ k % 2 = 0 /\ \A x \in q - 1 - k .. q - 1 : Char(x) = "bs"
                                  /\ q - 1 - k > 0 => Char(q - 2 - k) # "bs"
      BY <2>1 DEF EscapedAt
    <3>2. PICK j \in 0 .. q - 1 : j = q - 1 - k /\ q - 1 - j = k /\ j - 1 = q - 2 - k
      OBVIOUS
    <3>. QED BY <3>1, <3>2
  <2>2. ASSUME NEW j \in 0 .. q - 1, From(j, q), (q - 1 - j) % 2 = 0 PROVE EscapedAt(q)
    <3>1. PICK k \in 0 .. q - 1 : j = q - 1 - k /\ q - 1 - j = k /\ j - 1 = q - 2 - k
      OBVIOUS
    <3>. QED BY <2>2, <3>1 DEF EscapedAt
  <2>. QED BY <2>1, <2>2
<1>2. ASSUME EscapedAt(p + 1) PROVE Char(p) = "bs" /\ ~EscapedAt(p)
  <2>1. PICK j \in 0 .. p : From(j, p + 1) /\ (p - j) % 2 = 0
    <3>1. PICK j \in 0 .. (p + 1) - 1 : From(j, p + 1) /\ ((p + 1) - 1 - j) % 2 = 0
      BY <1>1, <1>2
    <3>2. (p + 1) - 1 = p
      OBVIOUS
    <3>. QED BY <3>1, <3>2
  <2>2. (\A x \in j .. p : Char(x) = "bs") /\ (j > 0 => Char(j - 1) # "bs")
    BY <2>1
  <2>3. ASSUME EscapedAt(p) PROVE FALSE
    <3>1. PICK i2 \in 0 .. p - 1 : From(i2, p) /\ (p - 1 - i2) % 2 = 0
      BY <1>1, <2>3
    <3>2. (\A x \in i2 .. p - 1 : Char(x) = "bs") /\ (i2 > 0 => Char(i2 - 1) # "bs")
      BY <3>1
    <3>3. j # i2
      BY <2>1, <3>1
    <3>4. CASE j < i2
      <4>1. i2 - 1 \in j .. p /\ i2 > 0
        BY <3>4
      <4>. QED BY <2>2, <3>2, <4>1
    <3>5. CASE i2 < j
      <4>1. j - 1 \in i2 .. p - 1 /\ j > 0
        BY <3>5
      <4>. QED BY <2>2, <3>2, <4>1
    <3>. QED BY <3>3, <3>4, <3>5
  <2>. QED BY <2>2, <2>3
<1>3. ASSUME Char(p) = "bs", ~EscapedAt(p) PROVE EscapedAt(p + 1)
  <2>. DEFINE T == {j \in 0 .. p : \A x \in j .. p : Char(x) = "bs"}
  <2>1. p \in T /\ T \subseteq Nat
    BY <1>3
  <2>2. PICK j \in T : \A x \in T : j <= x
    BY <2>1, LeastNatural
  <2>3. j \in 0 .. p /\ \A x \in j .. p : Char(x) = "bs"
    BY <2>2
  <2>4. j > 0 => Char(j - 1) # "bs"
    <3>. SUFFICES ASSUME j > 0, Char(j - 1) = "bs" PROVE FALSE
      OBVIOUS
    <3>1. j - 1 \in T
      <4>1. j - 1 \in 0 .. p
        BY <2>3
      <4>2. \A x \in j - 1 .. p : x = j - 1 \/ x \in j .. p
        BY <2>3
      <4>. QED BY <2>3, <4>1, <4>2
    <3>. QED BY <2>2, <3>1, <2>3
  <2>. HIDE DEF T
  <2>5. (p - j) % 2 = 0
    <3>. SUFFICES ASSUME (p - j) % 2 # 0 PROVE FALSE
      OBVIOUS
    <3>1. p - j >= 1 /\ (p - 1 - j) % 2 = 0 /\ j \in 0 .. p - 1
      BY <2>3
    <3>2. From(j, p)
      BY <2>3, <2>4, <3>1
    <3>. QED BY <1>1, <1>3, <3>1, <3>2
  <2>6. From(j, p + 1) /\ j \in 0 .. (p + 1) - 1 /\ ((p + 1) - 1 - j) % 2 = 0
    BY <2>3, <2>4, <2>5
  <2>. HIDE DEF From
  <2>. QED BY <1>1, <2>6
<1>. QED BY <1>2, <1>3

LEMMA NoneEscaped == ~EscapedAt(0)
BY DEF EscapedAt

-----------------------------------------------------------------------------
(* A word as a number.                                                     *)

\* f[x] is what the bits below x weigh.
Weighs(f, S) ==
    /\ f \in [0 .. BlockBits -> Nat] /\ f[0] = 0
    /\ \A x \in 1 .. BlockBits : f[x] = f[x - 1] + IF x - 1 \in S THEN Weight[x - 1] ELSE 0

LEMMA NumberIs ==
    ASSUME NEW S
    PROVE  \E f : Weighs(f, S) /\ AsNumber(S) = f[BlockBits]
<1>1. PICK n \in Nat : n = BlockBits
  BY BitsAre
<1>. DEFINE add == [q \in (1 .. n) \X Nat |-> q[2] + IF q[1] - 1 \in S THEN Weight[q[1] - 1] ELSE 0]
            Is(f) == f = [x \in 0 .. BlockBits |-> IF x = 0 THEN 0 ELSE f[x - 1] + IF x - 1 \in S THEN Weight[x - 1] ELSE 0]
<1>2. ASSUME NEW k \in 1 .. n, NEW m \in Nat
      PROVE  /\ add[<<k, m>>] = m + IF k - 1 \in S THEN Weight[k - 1] ELSE 0
             /\ m + (IF k - 1 \in S THEN Weight[k - 1] ELSE 0) \in Nat
  <2>1. Weight[k - 1] \in Nat
    BY <1>1, BitsAre, BitWeights
  <2>. QED BY <2>1
<1>3. StaysIn(add, Nat, n)
  BY <1>2 DEF StaysIn
<1>. HIDE DEF add
<1>4. PICK f : Unfolds(f, Nat, n, 0, add)
  BY <1>3, RecursionExists
<1>5. f \in [0 .. n -> Nat] /\ f[0] = 0 /\ \A k \in 1 .. n : f[k] = f[k - 1] + IF k - 1 \in S THEN Weight[k - 1] ELSE 0
  <2>1. f \in [0 .. n -> Nat] /\ f[0] = 0 /\ \A k \in 1 .. n : f[k] = add[<<k, f[k - 1]>>]
    BY <1>4 DEF Unfolds
  <2>2. \A k \in 1 .. n : f[k - 1] \in Nat
    BY <2>1
  <2>. QED BY <1>2, <2>1, <2>2
<1>6. Is(f)
  <2>1. \A x \in 0 .. n : f[x] = IF x = 0 THEN 0 ELSE f[x - 1] + IF x - 1 \in S THEN Weight[x - 1] ELSE 0
    BY <1>5
  <2>2. DOMAIN f = 0 .. n
    BY <1>5
  <2>. QED BY <1>1, <1>5, <2>1, <2>2
<1>. DEFINE g == CHOOSE e : Is(e)
<1>7. Is(g) /\ AsNumber(S) = g[BlockBits]
  BY <1>6, Zenon DEF AsNumber
<1>. HIDE DEF g
<1>8. g[0] = 0 /\ \A x \in 1 .. n : g[x] = g[x - 1] + IF x - 1 \in S THEN Weight[x - 1] ELSE 0
  BY <1>1, <1>7
<1>. DEFINE T == {x \in Nat : x <= n => g[x] = f[x]}
<1>9. 0 \in T
  BY <1>5, <1>8
<1>10. ASSUME NEW x \in Nat, x \in T PROVE x + 1 \in T
  <2>. SUFFICES ASSUME x + 1 <= n PROVE g[x + 1] = f[x + 1]
    OBVIOUS
  <2>1. x + 1 \in 1 .. n /\ (x + 1) - 1 = x /\ g[x] = f[x]
    BY <1>10
  <2>. QED BY <1>5, <1>8, <2>1
<1>. HIDE DEF T
<1>11. n \in T
  BY <1>9, <1>10, SetInduction
<1>12. g[n] = f[n]
  BY <1>11 DEF T
<1>. QED BY <1>1, <1>5, <1>7, <1>12 DEF Weighs

\* The bits below x weigh less than x does.
LEMMA WeighsLess ==
    ASSUME NEW f, NEW S, Weighs(f, S)
    PROVE  \A x \in 0 .. BlockBits : f[x] \in Nat /\ f[x] < Weight[x]
<1>1. PICK n \in Nat : n = BlockBits
  BY BitsAre
<1>2. f \in [0 .. n -> Nat] /\ f[0] = 0 /\ \A x \in 1 .. n : f[x] = f[x - 1] + IF x - 1 \in S THEN Weight[x - 1] ELSE 0
  BY <1>1 DEF Weighs
<1>. DEFINE T == {x \in Nat : x <= n => f[x] < Weight[x]}
<1>3. 0 \in T
  BY <1>2, BitWeights
<1>4. ASSUME NEW x \in Nat, x \in T PROVE x + 1 \in T
  <2>. SUFFICES ASSUME x + 1 <= n PROVE f[x + 1] < Weight[x + 1]
    OBVIOUS
  <2>1. x + 1 \in 1 .. n /\ (x + 1) - 1 = x /\ f[x] < Weight[x] /\ f[x] \in Nat
    BY <1>2, <1>4
  <2>2. Weight[x] \in Nat /\ Weight[x + 1] = 2 * Weight[x]
    BY <1>1, <2>1, BitsAre, BitWeights
  <2>3. f[x + 1] = f[x] + IF x \in S THEN Weight[x] ELSE 0
    BY <1>2, <2>1
  <2>. QED BY <2>1, <2>2, <2>3
<1>. HIDE DEF T
<1>5. \A x \in Nat : x \in T
  BY <1>3, <1>4, SetInduction
<1>. QED BY <1>1, <1>2, <1>5 DEF T

\* The bits from x on weigh a multiple of x.
LEMMA WeighsAbove ==
    ASSUME NEW f, NEW S, Weighs(f, S), NEW x \in Nat, NEW d \in Nat, x + d <= BlockBits
    PROVE  \E high \in Nat : f[x + d] = f[x] + high * Weight[x]
<1>1. PICK n \in Nat : n = BlockBits
  BY BitsAre
<1>2. f \in [0 .. n -> Nat] /\ f[0] = 0 /\ \A k \in 1 .. n : f[k] = f[k - 1] + IF k - 1 \in S THEN Weight[k - 1] ELSE 0
  BY <1>1 DEF Weighs
<1>3. PICK w \in Nat : w = Weight[x]
  BY <1>1, BitsAre, BitWeights
<1>. DEFINE T == {k \in Nat : x + k <= n => \E high \in Nat : f[x + k] = f[x] + high * w}
<1>4. 0 \in T
  <2>. SUFFICES ASSUME x <= n PROVE \E high \in Nat : f[x + 0] = f[x] + high * w
    OBVIOUS
  <2>1. f[x] \in Nat /\ x + 0 = x /\ f[x] = f[x] + 0 * w
    BY <1>2
  <2>. QED BY <2>1
<1>5. ASSUME NEW k \in Nat, k \in T PROVE k + 1 \in T
  <2>. SUFFICES ASSUME x + (k + 1) <= n PROVE \E high \in Nat : f[x + (k + 1)] = f[x] + high * w
    OBVIOUS
  <2>1. PICK high \in Nat : f[x + k] = f[x] + high * w
    BY <1>5
  <2>2. PICK m \in Nat : Weight[x + k] = m * w
    <3>1. x + k <= BlockBits + LevelBits
      BY <1>1, BitsAre
    <3>2. \E m \in Nat : m >= 1 /\ Weight[x + k] = m * Weight[x]
      BY <3>1, WeightsDivide
    <3>. QED BY <1>3, <3>2
  <2>3. f[x + (k + 1)] = f[x + k] + IF x + k \in S THEN m * w ELSE 0
    <3>1. x + (k + 1) \in 1 .. n /\ (x + (k + 1)) - 1 = x + k
      OBVIOUS
    <3>. QED BY <1>2, <2>2, <3>1
  <2>4. f[x] \in Nat
    BY <1>2
  <2>5. CASE x + k \in S
    <3>1. f[x] + high * w + m * w = f[x] + (high + m) * w /\ high + m \in Nat
      BY <2>4
    <3>. QED BY <2>1, <2>3, <2>5, <3>1
  <2>6. CASE x + k \notin S
    <3>1. f[x] + high * w + 0 = f[x] + high * w
      BY <2>4
    <3>. QED BY <2>1, <2>3, <2>6, <3>1
  <2>. QED BY <2>5, <2>6
<1>. HIDE DEF T
<1>6. d \in T
  BY <1>4, <1>5, SetInduction
<1>. QED BY <1>1, <1>3, <1>6 DEF T

\* The bits of a number are the word's, whatever is carried out of it.
LEMMA BitsOf ==
    ASSUME NEW f, NEW S, Weighs(f, S), NEW c \in {0, 1}, NEW v \in Nat, v = f[BlockBits] + c * Weight[BlockBits]
    PROVE  /\ \A x \in Places : (v \div Weight[x]) % 2 = 1 <=> x \in S
           /\ v >= Weight[BlockBits] <=> c = 1
<1>1. PICK n \in Nat : n = BlockBits
  BY BitsAre
<1>2. ASSUME NEW x \in 0 .. n - 1 PROVE (v \div Weight[x]) % 2 = 1 <=> x \in S
  <2>1. PICK w \in Nat, u \in Nat : w = Weight[x] /\ w >= 1 /\ u = Weight[x + 1] /\ u = 2 * w
    <3>1. x \in 0 .. BlockBits + LevelBits /\ x + 1 \in 1 .. BlockBits + LevelBits /\ (x + 1) - 1 = x
      BY <1>1, BitsAre
    <3>2. Weight[x] \in Nat /\ Weight[x] >= 1 /\ Weight[x + 1] = 2 * Weight[x]
      BY <3>1, BitWeights
    <3>. QED BY <3>2
  <2>2. PICK y \in Nat : y = f[x] /\ y < w
    BY <1>1, <2>1, WeighsLess
  <2>3. f[x + 1] = y + IF x \in S THEN w ELSE 0
    <3>1. x + 1 \in 1 .. n /\ (x + 1) - 1 = x
      OBVIOUS
    <3>. QED BY <1>1, <2>1, <2>2, <3>1 DEF Weighs
  <2>4. PICK d \in Nat : x + 1 + d = n
    OBVIOUS
  <2>5. PICK high \in Nat : f[n] = f[x + 1] + high * u
    <3>1. PICK z \in Nat : z = x + 1 /\ z + d = n /\ z + d <= BlockBits
      BY <1>1, <2>4
    <3>2. \E high \in Nat : f[z + d] = f[z] + high * Weight[z]
      BY <3>1, WeighsAbove
    <3>. QED BY <2>1, <3>1, <3>2
  <2>6. PICK m \in Nat : Weight[n] = m * u
    <3>1. x + 1 \in Nat /\ (x + 1) + d <= BlockBits + LevelBits
      BY <1>1, <2>4, BitsAre
    <3>2. \E m \in Nat : m >= 1 /\ Weight[(x + 1) + d] = m * Weight[x + 1]
      BY <3>1, WeightsDivide
    <3>. QED BY <2>1, <2>4, <3>2
  <2>7. PICK b \in {0, 1} : b = IF x \in S THEN 1 ELSE 0
    OBVIOUS
  <2>8. PICK q \in Nat : q = 2 * (high + c * m) + b
    OBVIOUS
  <2>9. v = q * w + y
    <3>1. v = y + b * w + high * (2 * w) + c * (m * (2 * w))
      BY <1>1, <2>1, <2>3, <2>5, <2>6, <2>7
    <3>2. y + b * w + high * (2 * w) + c * (m * (2 * w)) = (2 * (high + c * m) + b) * w + y
      OBVIOUS
    <3>. QED BY <2>8, <3>1, <3>2
  <2>10. v \div w = q
    <3>1. v \in Nat /\ q \in Nat /\ y \in Nat /\ w \in Nat /\ v = q * w + y /\ y < w
      BY <2>2, <2>9
    <3>. QED BY <3>1, DivModOf, Zenon
  <2>11. q % 2 = b
    <3>1. PICK e \in Nat : e = high + c * m
      OBVIOUS
    <3>2. q = 2 * e + b
      BY <2>8, <3>1
    <3>. QED BY <3>2
  <2>. QED BY <2>1, <2>7, <2>10, <2>11
<1>3. v >= Weight[n] <=> c = 1
  <2>1. f[n] \in Nat /\ f[n] < Weight[n] /\ Weight[n] \in Nat
    BY <1>1, WeighsLess, BitWeights, BitsAre
  <2>. QED BY <1>1, <2>1
<1>. QED BY <1>1, <1>2, <1>3, BitsAre

\* Adding to the runs of b those bits at which some of them begin: D, the bits of those runs,
\* go out, and one bit behind each of the runs comes in.
LEMMA RunsCarry ==
    ASSUME NEW b, NEW D, NEW O, D \subseteq b, b \subseteq Places,
           \A x \in Places : x \in O <=> x \in D /\ x - 1 \notin b,
           \A x \in Places : x \in b /\ x - 1 \in b => (x \in D <=> x - 1 \in D)
    PROVE  LET sum == AsNumber(O) + AsNumber(b)
           IN /\ AsWord(sum) = {x \in Places : (x \in b /\ x \notin D) \/ (x \notin b /\ x - 1 \in D)}
              /\ sum >= Weight[BlockBits] <=> BlockBits - 1 \in D
<1>. DEFINE sum == AsNumber(O) + AsNumber(b)
            W == {x \in Places : (x \in b /\ x \notin D) \/ (x \notin b /\ x - 1 \in D)}
<1>1. PICK n \in Nat : n = BlockBits /\ Places = 0 .. n - 1
  BY BitsAre
<1>2. PICK f : Weighs(f, O) /\ AsNumber(O) = f[n]
  BY <1>1, NumberIs
<1>3. PICK g : Weighs(g, b) /\ AsNumber(b) = g[n]
  BY <1>1, NumberIs
<1>4. PICK t : Weighs(t, W)
  BY NumberIs
<1>5. ASSUME NEW x \in 0 .. n - 1
      PROVE  /\ f[x] \in Nat /\ g[x] \in Nat /\ t[x] \in Nat /\ Weight[x] \in Nat /\ Weight[x + 1] = 2 * Weight[x]
             /\ f[x + 1] = f[x] + IF x \in O THEN Weight[x] ELSE 0
             /\ g[x + 1] = g[x] + IF x \in b THEN Weight[x] ELSE 0
             /\ t[x + 1] = t[x] + IF x \in W THEN Weight[x] ELSE 0
  <2>1. x + 1 \in 1 .. n /\ (x + 1) - 1 = x
    OBVIOUS
  <2>. HIDE DEF W
  <2>2. f[x + 1] = f[x] + (IF x \in O THEN Weight[x] ELSE 0) /\ f[x] \in Nat
    BY <1>1, <1>2, <2>1 DEF Weighs
  <2>3. g[x + 1] = g[x] + (IF x \in b THEN Weight[x] ELSE 0) /\ g[x] \in Nat
    BY <1>1, <1>3, <2>1 DEF Weighs
  <2>4. t[x + 1] = t[x] + (IF x \in W THEN Weight[x] ELSE 0) /\ t[x] \in Nat
    BY <1>1, <1>4, <2>1 DEF Weighs
  <2>5. Weight[x] \in Nat /\ Weight[x + 1] = 2 * Weight[x]
    BY <1>1, <2>1, BitWeights, BitsAre
  <2>. QED BY <2>2, <2>3, <2>4, <2>5
<1>. DEFINE T == {x \in Nat : x <= n => f[x] + g[x] = t[x] + IF x - 1 \in D THEN Weight[x] ELSE 0}
<1>6. 0 \in T
  <2>1. f[0] = 0 /\ g[0] = 0 /\ t[0] = 0
    BY <1>2, <1>3, <1>4 DEF Weighs
  <2>2. 0 - 1 \notin D
    BY <1>1
  <2>. QED BY <2>1, <2>2
<1>7. ASSUME NEW x \in Nat, x \in T PROVE x + 1 \in T
  <2>. SUFFICES ASSUME x + 1 <= n PROVE f[x + 1] + g[x + 1] = t[x + 1] + IF x \in D THEN Weight[x + 1] ELSE 0
    OBVIOUS
  <2>1. x \in 0 .. n - 1 /\ x \in Places
    BY <1>1
  <2>2. PICK w \in Nat : w = Weight[x] /\ Weight[x + 1] = 2 * w
    BY <1>5, <2>1
  <2>3. f[x] \in Nat /\ g[x] \in Nat /\ t[x] \in Nat
    BY <1>5, <2>1
  <2>4. f[x] + g[x] = t[x] + IF x - 1 \in D THEN w ELSE 0
    BY <1>7, <2>2
  <2>5. /\ f[x + 1] = f[x] + IF x \in O THEN w ELSE 0
        /\ g[x + 1] = g[x] + IF x \in b THEN w ELSE 0
        /\ t[x + 1] = t[x] + IF x \in W THEN w ELSE 0
    BY <1>5, <2>1, <2>2
  <2>6. x \in W <=> (x \in b /\ x \notin D) \/ (x \notin b /\ x - 1 \in D)
    BY <2>1
  <2>7. x \in O <=> x \in D /\ x - 1 \notin b
    BY <2>1
  <2>8. x \in b /\ x - 1 \in b => (x \in D <=> x - 1 \in D)
    BY <2>1
  <2>9. x \in D => x \in b
    OBVIOUS
  <2>10. x - 1 \in D => x - 1 \in b
    OBVIOUS
  <2>. HIDE DEF W, T
  <2>11. CASE x \in D
    BY <2>2, <2>3, <2>4, <2>5, <2>6, <2>7, <2>8, <2>9, <2>10, <2>11
  <2>12. CASE x \notin D /\ x \in b
    BY <2>2, <2>3, <2>4, <2>5, <2>6, <2>7, <2>8, <2>9, <2>10, <2>12
  <2>13. CASE x \notin b
    BY <2>2, <2>3, <2>4, <2>5, <2>6, <2>7, <2>8, <2>9, <2>10, <2>13
  <2>. QED BY <2>11, <2>12, <2>13
<1>. HIDE DEF T
<1>8. f[n] + g[n] = t[n] + IF n - 1 \in D THEN Weight[n] ELSE 0
  <2>1. n \in T
    BY <1>6, <1>7, SetInduction
  <2>. QED BY <2>1 DEF T
<1>9. PICK c \in {0, 1} : c = IF n - 1 \in D THEN 1 ELSE 0
  OBVIOUS
<1>10. sum \in Nat /\ sum = t[BlockBits] + c * Weight[BlockBits]
  <2>1. t[n] \in Nat /\ f[n] \in Nat /\ g[n] \in Nat /\ Weight[n] \in Nat
    <3>. HIDE DEF W
    <3>1. f \in [0 .. n -> Nat] /\ g \in [0 .. n -> Nat] /\ t \in [0 .. n -> Nat]
      BY <1>1, <1>2, <1>3, <1>4, Zenon DEF Weighs
    <3>2. n \in 0 .. n /\ Weight[n] \in Nat
      BY <1>1, BitWeights, BitsAre
    <3>. QED BY <3>1, <3>2, Zenon
  <2>2. sum = f[n] + g[n]
    BY <1>2, <1>3
  <2>. QED BY <1>1, <1>8, <1>9, <2>1, <2>2
<1>. HIDE DEF sum, W
<1>11. /\ \A x \in Places : (sum \div Weight[x]) % 2 = 1 <=> x \in W
       /\ sum >= Weight[BlockBits] <=> c = 1
  BY <1>4, <1>10, BitsOf
<1>12. AsWord(sum) = W
  BY <1>11 DEF AsWord, W
<1>13. sum >= Weight[BlockBits] <=> BlockBits - 1 \in D
  BY <1>1, <1>9, <1>11
<1>. QED BY <1>12, <1>13 DEF sum, W
=============================================================================
