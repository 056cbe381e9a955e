----------------------------- MODULE SortedMerge -----------------------------
(***************************************************************************)
(* MergeSortedUint32 (merge.go): the two-cursor merge of the reference,    *)
(* and the kernel of csrc/merge.c, which passes blocks through a bitonic   *)
(* network and drains what is left three ways.                             *)
(***************************************************************************)
EXTENDS Calls, FiniteSets

CONSTANTS MergeRounds,  \* rounds of exchanges after the first, 3 in the code
          Ascending     \* the sequences that are merged

\* How far apart two lanes are that are exchanged, from the last round back, and the
\* elements of a vector: 8 in the code.
Stride[k \in 0 .. MergeRounds] == IF k = 0 THEN 1 ELSE 2 * Stride[k - 1]

MergeBlock == Stride[MergeRounds]

ASSUME MergeAssumption ==
    /\ MergeRounds \in Nat
    /\ \A a \in Ascending : a \in Seq(Nat) /\ \A x, y \in DOMAIN a : x <= y => a[x] <= a[y]

Lesser(x, y) == IF x <= y THEN x ELSE y
Greater(x, y) == IF x <= y THEN y ELSE x

\* The kernel is given slices that are long enough; its wrapper asks for more of a, and for
\* room.
Blocked == call.impl = "kernel" /\ Len(call.a) >= 2 * MergeBlock /\ Len(call.b) >= 2 * MergeBlock

\* The block at x, from 0.
BlockAt(s, x) == SubSeq(s, x + 1, x + MergeBlock)

MergeInit ==
    /\ call \in [op : {"merge"}, impl : Implementations, a : Ascending, b : Ascending]
    /\ st = IF Blocked
            THEN [pc |-> "blocks", i |-> MergeBlock, j |-> 0, rest |-> BlockAt(call.a, 0)]
            ELSE [pc |-> "drain", i |-> 0, j |-> 0, rest |-> <<>>]
    /\ out = <<>>

-----------------------------------------------------------------------------
(* bmerge8.                                                                *)

\* Lane k, from 0, of two vectors after the shuffle with stride s.
ShuffledLow(s, l, h) ==
    [k \in 1 .. MergeBlock |-> IF ((k - 1) \div s) % 2 = 0 THEN l[k] ELSE h[k - s]]
ShuffledHigh(s, l, h) ==
    [k \in 1 .. MergeBlock |-> IF ((k - 1) \div s) % 2 = 0 THEN l[k + s] ELSE h[k]]

Exchange(v) ==
    [l |-> [k \in 1 .. MergeBlock |-> Lesser(v.l[k], v.h[k])],
     h |-> [k \in 1 .. MergeBlock |-> Greater(v.l[k], v.h[k])]]

Shuffled(s, v) == Exchange([l |-> ShuffledLow(s, v.l, v.h), h |-> ShuffledHigh(s, v.l, v.h)])

\* The two vectors in order: rounds of exchanges with strides that halve, the second vector
\* reversed before, the two interleaved after.
Network(lo, hi) ==
    LET f[r \in 0 .. MergeRounds] ==
          IF r = 0
          THEN Exchange([l |-> lo, h |-> [k \in 1 .. MergeBlock |-> hi[MergeBlock + 1 - k]]])
          ELSE Shuffled(Stride[MergeRounds - r], f[r - 1])
        v == f[MergeRounds]
    IN [x \in 1 .. 2 * MergeBlock |-> IF x % 2 = 1 THEN v.l[(x + 1) \div 2] ELSE v.h[x \div 2]]

-----------------------------------------------------------------------------
(* mergeCore.                                                              *)

MoreBlocks == st.i + MergeBlock <= Len(call.a) /\ st.j + MergeBlock <= Len(call.b)

FromA == call.a[st.i + 1] <= call.b[st.j + 1]

\* The block of the side whose head is smaller meets the block that is carried.
MergeBlocks ==
    /\ In("merge", "blocks") /\ MoreBlocks
    /\ LET next == IF FromA THEN BlockAt(call.a, st.i) ELSE BlockAt(call.b, st.j)
           both == Network(st.rest, next)
       IN /\ out' = out \o BlockAt(both, 0)
          /\ st' = [st EXCEPT !.rest = BlockAt(both, MergeBlock),
                              !.i = IF FromA THEN @ + MergeBlock ELSE @,
                              !.j = IF FromA THEN @ ELSE @ + MergeBlock]
    /\ UNCHANGED call

BlocksEnd ==
    /\ In("merge", "blocks") /\ ~MoreBlocks
    /\ st' = [st EXCEPT !.pc = "drain"]
    /\ UNCHANGED <<call, out>>

\* What is left of the carried block and of the two sides, in the order in which ties are
\* settled.
Waiting ==
    <<st.rest, SubSeq(call.a, st.i + 1, Len(call.a)), SubSeq(call.b, st.j + 1, Len(call.b))>>

TakeFrom(k) ==
    /\ out' = Append(out, Head(Waiting[k]))
    /\ st' = [st EXCEPT !.rest = IF k = 1 THEN Tail(@) ELSE @,
                        !.i = IF k = 2 THEN @ + 1 ELSE @,
                        !.j = IF k = 3 THEN @ + 1 ELSE @]
    /\ UNCHANGED call

\* Wrong on purpose: the tails are looked at only when the carried block is used up.
DrainRestFirst ==
    /\ In("merge", "drain")
    /\ \E k \in 1 .. 3 : /\ Waiting[k] # <<>>
                         /\ \A m \in 1 .. k - 1 : Waiting[m] = <<>>
                         /\ TakeFrom(k)

\* The least head goes out, and the two-cursor merge is this with nothing carried.
DrainLeast ==
    /\ In("merge", "drain")
    /\ \E k \in 1 .. 3 :
         /\ Waiting[k] # <<>>
         /\ \A m \in 1 .. 3 : Waiting[m] # <<>> =>
              IF m < k THEN Head(Waiting[k]) < Head(Waiting[m]) ELSE Head(Waiting[k]) <= Head(Waiting[m])
         /\ TakeFrom(k)

MergeEnd ==
    /\ In("merge", "drain")
    /\ \A k \in 1 .. 3 : Waiting[k] = <<>>
    /\ Return
    /\ UNCHANGED <<call, out>>

MergeNext == MergeBlocks \/ BlocksEnd \/ DrainLeast \/ MergeEnd

-----------------------------------------------------------------------------
(* Properties.                                                             *)

Times(s, v) == Cardinality({x \in DOMAIN s : s[x] = v})
Elements(s) == {s[x] : x \in DOMAIN s}

Remaining == Waiting[1] \o Waiting[2] \o Waiting[3]

\* merge.go:3-8: at every step what is written is in order and nothing left is below it, so
\* that no element can come too late; and no element is lost, repeated or written past
\* len(a) + len(b).
MergesInOrder ==
    call.op = "merge" =>
    /\ \A x, y \in DOMAIN out : x <= y => out[x] <= out[y]
    /\ \A x \in DOMAIN out, y \in DOMAIN Remaining : out[x] <= Remaining[y]
    /\ \A v \in Elements(call.a) \union Elements(call.b) :
         Times(out, v) + Times(Remaining, v) = Times(call.a, v) + Times(call.b, v)
    /\ Len(out) + Len(Remaining) = Len(call.a) + Len(call.b)
    /\ Returned => Remaining = <<>>
=============================================================================
