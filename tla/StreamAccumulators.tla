-------------------------- MODULE StreamAccumulators --------------------------
(***************************************************************************)
(* The two accumulators of stream.go, each fed its own stream: a behaviour *)
(* is the life of one of them.                                             *)
(***************************************************************************)
EXTENDS Accumulator, FloatMinMax

CONSTANT MinMaxChunk  \* bounds the length of a chunk for the MinMaxAccumulator

ASSUME MinMaxChunkAssumption == MinMaxChunk \in Nat

VARIABLES kind,  \* which accumulator lives
          min, max, seen, elems

sumVars == <<acc, n, pc, len, i, done, fed>>
minMaxVars == <<min, max, seen, elems>>
streamVars == <<kind, sumVars, minMaxVars>>

M == INSTANCE MinMaxAccumulator WITH MaxChunk <- MinMaxChunk

StreamInit ==
    /\ kind \in {"Accumulator", "MinMaxAccumulator"}
    /\ Init
    /\ M!Init

\* A step of one accumulator or the other.
OfSum(A) == kind = "Accumulator" /\ A /\ UNCHANGED <<kind, minMaxVars>>
OfMinMax(A) == kind = "MinMaxAccumulator" /\ A /\ UNCHANGED <<kind, sumVars>>

StreamNext ==
    \/ \E k \in 0 .. MaxChunk : OfSum(Call(k))
    \/ OfSum(HeadStep) \/ OfSum(HeadDone) \/ OfSum(BodyStep) \/ OfSum(BodyDone)
    \/ OfSum(TailStep) \/ OfSum(Return) \/ OfSum(Reset)
    \/ \E a \in M!Chunks : OfMinMax(M!AddNothing(a))
    \/ \E a \in M!Chunks \ {<<>>} : \E r \in {RefMinMax(a), KernelMinMax(a)} : OfMinMax(M!AddFirst(a, r))
    \/ \E a \in M!Chunks \ {<<>>} : \E r \in {RefMinMax(a), KernelMinMax(a)} : OfMinMax(M!AddMore(a, r))
    \/ OfMinMax(M!Reset)

\* An Add runs on to its end; nothing says that another call is made.
StreamSpec == StreamInit /\ [][StreamNext]_streamVars /\ WF_streamVars(OfSum(Adding))

-----------------------------------------------------------------------------
(* Properties: those of the sum are Accumulator's.                         *)

\* stream.go:108-153: the accumulated minimum and maximum are those of the whole stream,
\* however it was cut and whichever kernel reduced each chunk.
WholeMinMax == M!WholeMinMax

\* stream.go:139-146: a result only moves outwards until a Reset, and an infinity stays.
NeverNarrows == M!NeverNarrows
=============================================================================
