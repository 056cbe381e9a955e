----------------------------- MODULE RankSelect ------------------------------
(***************************************************************************)
(* The rank and select queries over a bit vector (bitvector.go), asked one *)
(* after the other as their documentation does: Select of Rank.            *)
(*                                                                         *)
(* The vector is a sequence of words, a word the set of its bits, from 0.  *)
(***************************************************************************)
EXTENDS Calls, FiniteSets

CONSTANTS WordBits,  \* 64 in the code
          Vectors,   \* the bit vectors
          Positions  \* those asked about, on either side of a vector as well

ASSUME WordBitsAssumption == WordBits \in Nat \ {0}
ASSUME VectorsAssumption ==
    /\ \A v \in Vectors : v \in Seq(SUBSET (0 .. WordBits - 1))
    /\ Positions \subseteq Int

Words == Len(call.v)

\* RankTableInto: entry i, from 0, counts the bits of the words before word i.
RankTable ==
    LET f[i \in 0 .. Words] == IF i = 0 THEN 0 ELSE f[i - 1] + Cardinality(call.v[i])
    IN f

RankInit ==
    /\ call \in [op : {"rank"}, impl : {"ref"}, v : Vectors, p : Positions]
    /\ st = [pc |-> "rank", k |-> 0, lo |-> 0, hi |-> 0, word |-> {}, left |-> 0]
    /\ out = -1

\* Wrong on purpose: the bit at p is counted too.
RankInclusive(p) ==
    LET w == p \div WordBits
        off == p % WordBits
    IN IF p <= 0 THEN 0
       ELSE IF w >= Words THEN RankTable[Words]
       ELSE RankTable[w] + Cardinality({x \in call.v[w + 1] : x <= off})

\* Rank: the set bits strictly below p.
Rank(p) ==
    LET w == p \div WordBits
        off == p % WordBits
    IN IF p <= 0 THEN 0
       ELSE IF w >= Words THEN RankTable[Words]
       ELSE IF off = 0 THEN RankTable[w]
       ELSE RankTable[w] + Cardinality({x \in call.v[w + 1] : x < off})

AskRank ==
    /\ In("rank", "rank")
    /\ st' = [st EXCEPT !.pc = "select", !.k = Rank(call.p)]
    /\ UNCHANGED <<call, out>>

NoSuchBit == st.k < 0 \/ Words = 0 \/ st.k >= RankTable[Words]

SelectNone ==
    /\ In("rank", "select") /\ NoSuchBit
    /\ out' = -1
    /\ Return
    /\ UNCHANGED call

SelectStart ==
    /\ In("rank", "select") /\ ~NoSuchBit
    /\ st' = [st EXCEPT !.pc = "search", !.lo = 0, !.hi = Words]
    /\ UNCHANGED <<call, out>>

\* Wrong on purpose: the middle is rounded down, and can be lo itself.
MidDown == (st.lo + st.hi) \div 2

Mid == (st.lo + st.hi + 1) \div 2

\* One halving of the table.
SearchTurn ==
    /\ In("rank", "search") /\ st.lo < st.hi
    /\ st' = IF RankTable[Mid] <= st.k THEN [st EXCEPT !.lo = Mid] ELSE [st EXCEPT !.hi = Mid - 1]
    /\ UNCHANGED <<call, out>>

SearchEnd ==
    /\ In("rank", "search") /\ st.lo >= st.hi
    /\ st' = [st EXCEPT !.pc = "walk", !.word = call.v[st.lo + 1], !.left = st.k - RankTable[st.lo]]
    /\ UNCHANGED <<call, out>>

LowestBit(word) == CHOOSE x \in word : \A y \in word : x <= y

ClearLowest ==
    /\ In("rank", "walk") /\ st.left > 0
    /\ st' = [st EXCEPT !.word = @ \ {LowestBit(st.word)}, !.left = @ - 1]
    /\ UNCHANGED <<call, out>>

SelectBit ==
    /\ In("rank", "walk") /\ st.left = 0
    /\ out' = st.lo * WordBits + LowestBit(st.word)
    /\ Return
    /\ UNCHANGED call

RankNext ==
    AskRank \/ SelectNone \/ SelectStart \/ SearchTurn \/ SearchEnd \/ ClearLowest \/ SelectBit

-----------------------------------------------------------------------------
(* Properties.                                                             *)

SetBits == {x \in 0 .. WordBits * Words - 1 : (x % WordBits) \in call.v[(x \div WordBits) + 1]}

\* bitvector.go:53-56, "Select(v, t, Rank(v, t, p)) is the first set bit at or after p", and
\* -1 where there is none.  While it searches, the word that holds the answer stays between
\* lo and hi, the empty words around it notwithstanding.
SelectInvertsRank ==
    call.op = "rank" =>
    LET after == {x \in SetBits : x >= call.p} IN
    /\ st.pc = "search" => \E x \in after : /\ \A y \in after : x <= y
                                            /\ (x \div WordBits) \in st.lo .. st.hi
    /\ Returned => IF after = {} THEN out = -1 ELSE out \in after /\ \A x \in after : out <= x
=============================================================================
