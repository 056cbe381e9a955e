----------------------------- MODULE Accumulator -----------------------------
(***************************************************************************)
(* Accumulator[T] (stream.go), the resumable floating-point sum, one loop  *)
(* iteration at a time.                                                    *)
(*                                                                         *)
(* Floating-point addition is not associative, so a lane's value stands    *)
(* for the list of the elements added to it, oldest first: two lanes hold  *)
(* the same bits for every input exactly when the lists are equal.  An     *)
(* element is named by its position in the stream since the last Reset.    *)
(***************************************************************************)
EXTENDS Integers, Sequences

CONSTANTS SumLanes,  \* kernel.SumLanes, 16 in the code
          MaxChunk,  \* bounds the length of a chunk
          MaxTotal   \* bounds the length of the stream

ASSUME LanesAssumption == SumLanes \in Nat \ {0}
ASSUME BoundsAssumption == MaxChunk \in Nat /\ MaxTotal \in Nat

VARIABLES acc,   \* the lanes
          n,     \* the number of elements seen
          pc,    \* "idle", or the part of Add that is running
          len,   \* len(a) of the chunk in hand
          i,     \* how much of it has been consumed
          done,  \* how much of the body the SumLanes kernel has added
          fed    \* history: the length of the stream before this chunk

vars == <<acc, n, pc, len, i, done, fed>>

Lanes == 0 .. SumLanes - 1

\* Element x of the chunk in hand, as a position in the stream.
Element(x) == fed + x

Empty == [j \in Lanes |-> <<>>]

Init ==
    /\ acc = Empty
    /\ n = 0
    /\ pc = "idle"
    /\ len = 0 /\ i = 0 /\ done = 0
    /\ fed = 0

Call(k) ==
    /\ pc = "idle"
    /\ n + k <= MaxTotal
    /\ pc' = "head"
    /\ len' = k /\ i' = 0 /\ done' = 0
    /\ UNCHANGED <<acc, n, fed>>

\* The lane the next element belongs to.
Lane == n % SumLanes

\* acc[n%SumLanes] += a[i]; n++
AddOne ==
    /\ acc' = [acc EXCEPT ![Lane] = Append(acc[Lane], Element(i))]
    /\ n' = n + 1
    /\ i' = i + 1

\* Finish the block the previous chunk left partly filled.
HeadStep ==
    /\ pc = "head"
    /\ i < len /\ n % SumLanes # 0
    /\ AddOne
    /\ UNCHANGED <<pc, len, done, fed>>

HeadDone ==
    /\ pc = "head"
    /\ ~(i < len /\ n % SumLanes # 0)
    /\ pc' = "body"
    /\ UNCHANGED <<acc, n, len, i, done, fed>>

\* The whole blocks left in the chunk, in elements.
Blocks == ((len - i) \div SumLanes) * SumLanes

\* One turn of the SumLanes kernel: a block is added to the lanes in place.
BodyStep ==
    /\ pc = "body"
    /\ done < Blocks
    /\ acc' = [j \in Lanes |-> Append(acc[j], Element(i + done + j))]
    /\ done' = done + SumLanes
    /\ UNCHANGED <<n, pc, len, i, fed>>

\* Wrong on purpose: the count is not moved past the blocks.
BodyDoneUncounted ==
    /\ pc = "body"
    /\ done >= Blocks
    /\ i' = i + Blocks
    /\ pc' = "tail"
    /\ UNCHANGED <<acc, n, len, done, fed>>

\* Wrong on purpose: what is left goes back to the head instead of a tail.
BodyDoneLooping ==
    /\ pc = "body"
    /\ done >= Blocks
    /\ i' = i + Blocks
    /\ n' = n + Blocks
    /\ done' = 0
    /\ pc' = IF i + Blocks < len THEN "head" ELSE "tail"
    /\ UNCHANGED <<acc, len, fed>>

\* i += blocks; s.n += blocks
BodyDone ==
    /\ pc = "body"
    /\ done >= Blocks
    /\ i' = i + Blocks
    /\ n' = n + Blocks
    /\ pc' = "tail"
    /\ UNCHANGED <<acc, len, done, fed>>

TailStep ==
    /\ pc = "tail"
    /\ i < len
    /\ AddOne
    /\ UNCHANGED <<pc, len, done, fed>>

Return ==
    /\ pc = "tail"
    /\ i >= len
    /\ pc' = "idle"
    /\ fed' = fed + len
    /\ UNCHANGED <<acc, n, len, i, done>>

Reset ==
    /\ pc = "idle"
    /\ acc' = Empty
    /\ n' = 0
    /\ fed' = 0
    /\ UNCHANGED <<pc, len, i, done>>

Next ==
    \/ \E k \in 0 .. MaxChunk : Call(k)
    \/ HeadStep \/ HeadDone \/ BodyStep \/ BodyDone \/ TailStep \/ Return
    \/ Reset

\* A call that has begun runs on to its end.
Adding == HeadStep \/ HeadDone \/ BodyStep \/ BodyDone \/ TailStep \/ Return

Spec == Init /\ [][Next]_vars /\ WF_vars(Adding)

-----------------------------------------------------------------------------
(* What the whole-slice reduction does (internal/ref/ref.go, sumFloat).    *)

\* The turns lane j gets in a slice of m elements: one per whole block, and one
\* more if the remainder reaches it.
Turns(m, j) == m \div SumLanes + IF j < m % SumLanes THEN 1 ELSE 0

\* The elements of the first t turns of lane j.
LaneList(t, j) == [q \in 1 .. t |-> (q - 1) * SumLanes + j]

\* The lanes as sumFloat hands them to kernel.CombineTree, whose fixed tree makes
\* Sum() a function of them.
WholeLanes(m) == [j \in Lanes |-> LaneList(Turns(m, j), j)]

-----------------------------------------------------------------------------
(* Properties.                                                             *)

\* Every variable has its type.
TypeOK ==
    /\ acc \in [Lanes -> Seq(Nat)]
    /\ n \in Nat
    /\ pc \in {"idle", "head", "body", "tail"}
    /\ len \in Nat /\ i \in Nat /\ done \in Nat
    /\ fed \in Nat

\* stream.go:18-21: "A chunked result equals the whole-slice result, bit for
\* bit, whatever the chunk boundaries", at every point a caller may read it.
ChunkingInvisible ==
    pc = "idle" => acc = WholeLanes(fed) /\ n = fed

\* stream.go:67-68: "the head and tail are at most fifteen elements each per
\* call"; and the body the kernel gets starts on lane zero.
OnlyTheBodyIsLong ==
    /\ pc = "head" => i < SumLanes
    /\ pc = "body" => i = len \/ n % SumLanes = 0
    /\ pc = "tail" => len - i < SumLanes

\* The elements folded into the lanes so far: n lags behind while the kernel runs.
Folded == IF pc = "body" THEN n + done ELSE n

\* The inductive invariant: at every step the lanes are those of the prefix
\* folded so far, and the head stops at the end of the block it found.
IndInv ==
    /\ TypeOK
    /\ acc = WholeLanes(Folded)
    /\ n = IF pc = "idle" THEN fed ELSE fed + i
    /\ i <= len
    /\ pc = "head" => i = 0 \/ (fed % SumLanes # 0 /\ (fed % SumLanes) + i <= SumLanes)
    /\ pc \in {"head", "body"} => done % SumLanes = 0 /\ done <= Blocks
    /\ pc = "head" => done = 0
    /\ pc = "body" => i = len \/ n % SumLanes = 0
    /\ pc = "tail" => len - i < SumLanes

\* A lane's additions are never regrouped: until a Reset, every step leaves each
\* lane's list alone or extends it by the next element of that lane.
LanesOnlyGrow ==
    [][pc # "idle" =>
         \A j \in Lanes : acc'[j] \in {acc[j], Append(acc[j], Len(acc[j]) * SumLanes + j)}]_vars

\* Every Add returns.
AddReturns == pc # "idle" ~> pc = "idle"
=============================================================================
