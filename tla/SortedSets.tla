----------------------------- MODULE SortedSets ------------------------------
(***************************************************************************)
(* IntersectInto and DifferenceInto (sets.go) over sorted slices without   *)
(* duplicates: the two-cursor walks of the reference, and the tiles of     *)
(* csrc/sets.c, in which a block of one meets a block of the other.        *)
(*                                                                         *)
(* The destination has the room the two functions ask for; a shorter one   *)
(* they refuse at once.                                                    *)
(***************************************************************************)
EXTENDS Calls, Ordered

CONSTANTS SetBlock,  \* SET_BLOCK, 8 in the code
          Sets       \* what is intersected and subtracted, as increasing sequences

ASSUME SetsAssumption ==
    /\ SetBlock \in Nat \ {0}
    /\ \A a \in Sets : a \in Seq(Nat) /\ \A x, y \in DOMAIN a : x < y => a[x] < a[y]

SetsInit ==
    /\ call \in [op : {"intersect", "difference"}, impl : Implementations, a : Sets, b : Sets]
    /\ st = [pc |-> IF call.impl = "kernel" THEN "tiles" ELSE "cursors",
             i |-> 0, j |-> 0, p |-> 1, hit |-> {}]
    /\ out = <<>>

SetsIn(op, pc) == In(op, pc) /\ UNCHANGED call

A(x) == call.a[x + 1]
B(x) == call.b[x + 1]

\* What IntersectInto and DifferenceInto make sure the destination has.
Required ==
    IF call.op = "difference" \/ Len(call.a) <= Len(call.b) THEN Len(call.a) ELSE Len(call.b)

-----------------------------------------------------------------------------
(* The tiles.                                                              *)

ATile == st.i + SetBlock <= Len(call.a)
Tile == ATile /\ st.j + SetBlock <= Len(call.b)

\* The lanes of a's block that the block of b has.
TileHits == {p \in 1 .. SetBlock : \E q \in 1 .. SetBlock : call.a[st.i + p] = call.b[st.j + q]}

\* The elements of a's block in the lanes P, in order.
LanesOf(P) == [x \in 1 .. Cardinality(P) |-> call.a[st.i + Nth(P, x)]]

LastA == A(st.i + SetBlock - 1)
LastB == B(st.j + SetBlock - 1)

\* The blocks that can match nothing more make way.
Advanced == [st EXCEPT !.i = IF LastA <= LastB THEN @ + SetBlock ELSE @,
                       !.j = IF LastB <= LastA THEN @ + SetBlock ELSE @]

IntersectTile ==
    /\ SetsIn("intersect", "tiles") /\ Tile
    /\ out' = out \o LanesOf(TileHits)
    /\ st' = Advanced

\* An element is written when its block retires: a later block of b may still have it.
DifferenceTile ==
    /\ SetsIn("difference", "tiles") /\ Tile
    /\ LET hits == st.hit \union TileHits IN
         IF LastA <= LastB
         THEN /\ out' = out \o LanesOf(1 .. SetBlock \ hits)
              /\ st' = [Advanced EXCEPT !.hit = {}]
         ELSE /\ out' = out
              /\ st' = [Advanced EXCEPT !.hit = hits]

\* Wrong on purpose: the block of a that is pending is left to the cursors.
TilesEndUnflushed ==
    /\ call.op \in {"intersect", "difference"} /\ SetsIn(call.op, "tiles") /\ ~Tile
    /\ st' = [st EXCEPT !.pc = "cursors"]
    /\ UNCHANGED out

TilesEnd ==
    /\ call.op \in {"intersect", "difference"} /\ SetsIn(call.op, "tiles") /\ ~Tile
    /\ st' = [st EXCEPT !.pc = IF call.op = "difference" /\ ATile THEN "pending" ELSE "cursors"]
    /\ UNCHANGED out

\* The block of a that was pending, a lane at a time, its hits still counting.
PendingLane ==
    /\ SetsIn("difference", "pending") /\ st.p <= SetBlock
    /\ LET x == A(st.i + st.p - 1)
           j == CHOOSE j \in st.j .. Len(call.b) :
                  /\ j < Len(call.b) => B(j) >= x
                  /\ \A k \in st.j .. j - 1 : B(k) < x
           met == j < Len(call.b) /\ B(j) = x
       IN /\ st' = [st EXCEPT !.p = @ + 1, !.j = IF met THEN j + 1 ELSE j]
          /\ out' = IF met \/ st.p \in st.hit THEN out ELSE Append(out, x)

PendingEnd ==
    /\ SetsIn("difference", "pending") /\ st.p > SetBlock
    /\ st' = [st EXCEPT !.i = @ + SetBlock, !.pc = "cursors"]
    /\ UNCHANGED out

-----------------------------------------------------------------------------
(* The two cursors: the reference, and what the tiles leave over.          *)

Room == call.impl = "kernel" \/ Len(out) < Required

\* One turn of the intersection: the smaller head is passed, or both.
IntersectCursors ==
    /\ SetsIn("intersect", "cursors")
    /\ st.i < Len(call.a) /\ st.j < Len(call.b) /\ Room
    /\ st' = [st EXCEPT !.i = IF A(st.i) <= B(st.j) THEN @ + 1 ELSE @,
                        !.j = IF B(st.j) <= A(st.i) THEN @ + 1 ELSE @]
    /\ out' = IF A(st.i) = B(st.j) THEN Append(out, A(st.i)) ELSE out

\* One turn of the difference: b's cursor moves up to a's head or past it.
DifferenceCursors ==
    /\ SetsIn("difference", "cursors")
    /\ st.i < Len(call.a) /\ Room
    /\ IF st.j < Len(call.b) /\ B(st.j) <= A(st.i)
       THEN /\ st' = [st EXCEPT !.j = @ + 1, !.i = IF B(st.j) = A(st.i) THEN @ + 1 ELSE @]
            /\ out' = out
       ELSE /\ st' = [st EXCEPT !.i = @ + 1]
            /\ out' = Append(out, A(st.i))

CursorsEnd ==
    /\ call.op \in {"intersect", "difference"} /\ SetsIn(call.op, "cursors")
    /\ st.i >= Len(call.a) \/ (call.op = "intersect" /\ st.j >= Len(call.b)) \/ ~Room
    /\ Return
    /\ UNCHANGED out

SetsNext ==
    \/ IntersectTile \/ DifferenceTile \/ TilesEnd \/ PendingLane \/ PendingEnd
    \/ IntersectCursors \/ DifferenceCursors \/ CursorsEnd

-----------------------------------------------------------------------------
(* Properties.                                                             *)

Members(s) == {s[x] : x \in DOMAIN s}

Answer ==
    IF call.op = "intersect" THEN Members(call.a) \intersect Members(call.b)
    ELSE Members(call.a) \ Members(call.b)

\* sets.go:34-58, and csrc/sets.c:108-120 on the block left pending when b runs out of
\* whole blocks: what is written is always the least elements of the answer, each once and
\* in order, with no store past the room asked for; and in the end it is all of it.
SetsExact ==
    call.op \in {"intersect", "difference"} =>
    /\ \A x, y \in DOMAIN out : x < y => out[x] < out[y]
    /\ Len(out) <= Required
    /\ Members(out) \subseteq Answer
    /\ \A v \in Answer \ Members(out) : \A w \in Members(out) : w < v
    /\ Returned => Members(out) = Answer
=============================================================================
