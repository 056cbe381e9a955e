------------------------------ MODULE MultiSearch ------------------------------
(***************************************************************************)
(* MultiSearcher (multi.go): the compiled set of needles, and Index, one   *)
(* turn of its loop at a time: the scan for the needles' rarest bytes, or  *)
(* the search for one needle after the other.                              *)
(*                                                                         *)
(* Positions are the code's, from 0; a needle is its place in the list,    *)
(* from 1.                                                                 *)
(***************************************************************************)
EXTENDS Integers, Sequences

CONSTANTS Bytes,
          Queries,       \* records: the needles and the haystack, sequences of bytes
          Ranks,         \* the tables byteRank may be
          MultiLoopMax   \* multiLoopMax

ASSUME QueriesAssumption ==
    \A q \in Queries : q.needles \in Seq(Seq(Bytes)) /\ q.hay \in Seq(Bytes)
ASSUME RanksAssumption == \A rank \in Ranks : rank \in [Bytes -> Nat]
ASSUME LoopMaxAssumption == MultiLoopMax \in Nat

VARIABLES query,      \* what is searched for, and where; never assigned
          anchors,    \* the searcher: for each needle the offset of its rarest byte,
          maxAnchor,  \* and the greatest of them
          at,         \* the scan's position
          i,          \* how many needles indexLoop has searched for
          best, bestWhich,
          pc          \* "index", "scan", "loop" or "returned"; "none" when nothing is searched

searchVars == <<query, anchors, maxAnchor, at, i, best, bestWhich, pc>>

needles == query.needles
h == query.hay
Which == 1 .. Len(needles)

-----------------------------------------------------------------------------
(* NewMultiSearcher.                                                       *)

\* The offset of the rarest byte of a needle, the earliest one winning.
Rarest(rank, s) ==
    CHOOSE j \in 0 .. Len(s) - 1 : \A x \in 0 .. Len(s) - 1 :
        rank[s[x + 1]] < rank[s[j + 1]] \/ (rank[s[x + 1]] = rank[s[j + 1]] /\ j <= x)

Empties == {w \in Which : needles[w] = <<>>}

Anchors(rank) == [w \in Which |-> IF w \in Empties THEN 0 ELSE Rarest(rank, needles[w])]

GreatestOf(a) ==
    CHOOSE m \in {a[w] : w \in Which} \union {0} : \A w \in Which : a[w] <= m

\* byteRank is a heuristic: the search must not depend on it.
SearchInit ==
    /\ query \in Queries
    /\ \E rank \in Ranks : anchors = Anchors(rank)
    /\ maxAnchor = GreatestOf(anchors)
    /\ at = 0 /\ i = 0
    /\ best = -1 /\ bestWhich = -1
    /\ pc = "index"

-----------------------------------------------------------------------------
(* Index.                                                                  *)

\* Needle w begins at position s of the haystack.
MatchAt(w, s) ==
    /\ s >= 0 /\ s + Len(needles[w]) <= Len(h)
    /\ \A x \in 1 .. Len(needles[w]) : h[s + x] = needles[w][x]

\* Position first, needle order second.
NotAfter(c, d) == c[1] < d[1] \/ (c[1] = d[1] /\ c[2] <= d[2])

Found == IF best < 0 THEN {} ELSE {<<best, bestWhich>>}

\* Wrong on purpose: the first match found is kept.
KeepFirst(new) ==
    IF Found \union new = {}
    THEN UNCHANGED <<best, bestWhich>>
    ELSE \E c \in IF Found = {} THEN new ELSE Found :
           /\ \A d \in new : Found # {} \/ NotAfter(c, d)
           /\ best' = c[1] /\ bestWhich' = c[2]

\* The best of what was found before and what is found now.
Keep(new) ==
    IF Found \union new = {}
    THEN UNCHANGED <<best, bestWhich>>
    ELSE \E c \in Found \union new :
           /\ \A d \in Found \union new : NotAfter(c, d)
           /\ best' = c[1] /\ bestWhich' = c[2]

EmptyNeedle ==
    /\ pc = "index" /\ Empties # {}
    /\ best' = 0
    /\ bestWhich' \in Empties /\ \A w \in Empties : bestWhich' <= w
    /\ pc' = "returned"
    /\ UNCHANGED <<query, anchors, maxAnchor, at, i>>

Hopeless == \A w \in Which : Len(h) < Len(needles[w])

NoMatchPossible ==
    /\ pc = "index" /\ Empties = {} /\ Hopeless
    /\ pc' = "returned"
    /\ UNCHANGED <<query, anchors, maxAnchor, at, i, best, bestWhich>>

Start ==
    /\ pc = "index" /\ Empties = {} /\ ~Hopeless
    /\ pc' = IF Len(needles) <= MultiLoopMax THEN "loop" ELSE "scan"
    /\ UNCHANGED <<query, anchors, maxAnchor, at, i, best, bestWhich>>

\* indexLoop: the first match of the next needle.
LoopTurn ==
    /\ pc = "loop" /\ i < Len(needles)
    /\ i' = i + 1
    /\ Keep({<<s, i + 1>> : s \in {p \in 0 .. Len(h) : MatchAt(i + 1, p) /\
                                     \A q \in 0 .. Len(h) : MatchAt(i + 1, q) => p <= q}})
    /\ UNCHANGED <<query, anchors, maxAnchor, at, pc>>

LoopEnd ==
    /\ pc = "loop" /\ i = Len(needles)
    /\ pc' = "returned"
    /\ UNCHANGED <<query, anchors, maxAnchor, at, i, best, bestWhich>>

AnchorByte(w) == needles[w][anchors[w] + 1]

\* The positions not scanned yet that hold a byte of the set.
Hits == {p \in at .. Len(h) - 1 : \E w \in Which : h[p + 1] = AnchorByte(w)}

\* The needles of which the byte at p is the anchor, where they match around it.
Verified(p) ==
    {c \in {<<p - anchors[w], w>> : w \in Which} :
        h[p + 1] = AnchorByte(c[2]) /\ MatchAt(c[2], c[1])}

\* Wrong on purpose: the cut-off is the match, not the farthest anchor of one as early.
PastCutOffEarly == best' >= 0 /\ at' > best'

PastCutOff == best' >= 0 /\ at' > best' + maxAnchor

ScanTurn ==
    /\ pc = "scan"
    /\ \E p \in Hits :
         /\ \A q \in Hits : p <= q
         /\ Keep(Verified(p))
         /\ at' = p + 1
    /\ pc' = IF PastCutOff THEN "returned" ELSE "scan"
    /\ UNCHANGED <<query, anchors, maxAnchor, i>>

ScanEnd ==
    /\ pc = "scan" /\ Hits = {}
    /\ pc' = "returned"
    /\ UNCHANGED <<query, anchors, maxAnchor, at, i, best, bestWhich>>

-----------------------------------------------------------------------------
(* Properties.                                                             *)

\* Every variable has its type, and a needle's anchor is one of its bytes.
TypeOK ==
    /\ query \in Queries \/ pc = "none"
    /\ DOMAIN anchors = Which
    /\ \A w \in Which : anchors[w] \in Nat /\ anchors[w] <= maxAnchor
                        /\ (needles[w] # <<>> => anchors[w] < Len(needles[w]))
    /\ maxAnchor \in Nat
    /\ at \in 0 .. Len(h)
    /\ i \in 0 .. Len(needles)
    /\ \/ best = -1 /\ bestWhich = -1
       \/ best \in 0 .. Len(h) /\ bestWhich \in Which
    /\ pc \in {"index", "scan", "loop", "returned", "none"}

\* What is returned for the matches that are pairs of M: the earliest by position, then
\* by needle.
IsEarliest(M) ==
    IF best = -1 THEN M = {} ELSE <<best, bestWhich>> \in M /\ \A c \in M : NotAfter(<<best, bestWhich>>, c)

Matches == {c \in (0 .. Len(h)) \X Which : MatchAt(c[2], c[1])}

\* multi.go:174-175: "Earliest is by position first and by needle order second, so the
\* result does not depend on which needle the scan happened to find first", nor on which
\* byte of it was thought the rarest.
EarliestReturned == pc = "returned" /\ Empties = {} => IsEarliest(Matches)

\* multi.go:129-131, and the code does not keep it: "duplicate needles are kept, and the
\* earliest-listed one wins a tie", when a needle listed before the first empty one is at 0.
TiesByNeedleOrder == pc = "returned" => IsEarliest(Matches)

\* When it has scanned, the best match is the earliest of those whose anchor has been passed:
\* an earlier match can be ahead, with its anchor, and none is behind.
SettledBehind ==
    at > 0 => IsEarliest({c \in Matches : c[1] + anchors[c[2]] < at})

\* At every turn the best match is the earliest behind the scan, and each anchor a byte of
\* its needle (multi.go:202-233).
ScanInv == TypeOK /\ SettledBehind
=============================================================================
