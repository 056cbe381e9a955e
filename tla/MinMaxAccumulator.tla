-------------------------- MODULE MinMaxAccumulator --------------------------
(***************************************************************************)
(* MinMaxAccumulator[T] (stream.go), the resumable minimum and maximum.    *)
(* Each chunk is reduced by the reference or by the vector kernel,         *)
(* whichever the tier has.                                                 *)
(***************************************************************************)
EXTENDS FloatMinMax

CONSTANT MaxChunk  \* bounds the length of a chunk

VARIABLES min, max, seen,
          elems  \* history: the values in the stream since the last Reset

vars == <<min, max, seen, elems>>

Chunks == UNION {[1 .. k -> Values] : k \in 0 .. MaxChunk}

Init ==
    /\ min = "posZero" /\ max = "posZero"
    /\ seen = FALSE
    /\ elems = {}

AddNothing(a) ==
    /\ a = <<>>
    /\ UNCHANGED vars

AddFirst(a, r) ==
    /\ a # <<>> /\ ~seen
    /\ min' = r[1] /\ max' = r[2]
    /\ seen' = TRUE
    /\ elems' = {a[x] : x \in DOMAIN a}

\* Wrong on purpose: the chunk's results replace the accumulated ones.
AddMoreReplacing(a, r) ==
    /\ a # <<>> /\ seen
    /\ min' = r[1] /\ max' = r[2]
    /\ elems' = elems \union {a[x] : x \in DOMAIN a}
    /\ UNCHANGED seen

AddMore(a, r) ==
    /\ a # <<>> /\ seen
    /\ min' = MathMin(min, r[1])
    /\ max' = MathMax(max, r[2])
    /\ elems' = elems \union {a[x] : x \in DOMAIN a}
    /\ UNCHANGED seen

Reset ==
    /\ min' = "posZero" /\ max' = "posZero"
    /\ seen' = FALSE
    /\ elems' = {}

Next ==
    \/ \E a \in Chunks :
         \/ AddNothing(a)
         \/ a # <<>> /\ \E r \in {RefMinMax(a), KernelMinMax(a)} : AddFirst(a, r) \/ AddMore(a, r)
    \/ Reset

Spec == Init /\ [][Next]_vars

-----------------------------------------------------------------------------
(* What a minimum and a maximum are: reduce.go, Min and Max.               *)

\* -0 sorts below +0.
Below(x, y) == Less(x, y) \/ (x = "negZero" /\ y = "posZero")

\* The minimum of a non-empty set of values, in which a NaN propagates.
Least(S) == IF "NaN" \in S THEN "NaN" ELSE CHOOSE x \in S : \A y \in S \ {x} : Below(x, y)
Greatest(S) == IF "NaN" \in S THEN "NaN" ELSE CHOOSE x \in S : \A y \in S \ {x} : Below(y, x)

-----------------------------------------------------------------------------
(* Properties.                                                             *)

\* Every variable has its type, and before the first chunk both results are zero.
TypeOK ==
    /\ min \in Values /\ max \in Values
    /\ seen \in BOOLEAN
    /\ elems \subseteq Values
    /\ ~seen => min = "posZero" /\ max = "posZero"

\* The accumulated minimum and maximum are those of the whole stream, however it
\* was cut and whichever kernel reduced each chunk, except that a NaN may have
\* given way to the infinity that is the other candidate.
WholeMinMax ==
    /\ seen <=> elems # {}
    /\ seen => /\ min = Least(elems) \/ ({"NaN", "negInf"} \subseteq elems /\ min = "negInf")
               /\ max = Greatest(elems) \/ ({"NaN", "posInf"} \subseteq elems /\ max = "posInf")

\* Until a Reset a result only moves outwards: the minimum goes down or becomes
\* NaN, and leaves NaN for -Inf alone (the maximum likewise).  So an infinity,
\* once seen, decides its result for good.
NeverNarrows ==
    [][seen /\ seen' =>
         /\ min' \in {min, "NaN"} \/ Below(min', min) \/ (min = "NaN" /\ min' = "negInf")
         /\ max' \in {max, "NaN"} \/ Below(max, max') \/ (max = "NaN" /\ max' = "posInf")
         /\ min = "negInf" => min' = "negInf"
         /\ max = "posInf" => max' = "posInf"]_vars

\* stream.go:124-125: "a NaN anywhere in the input makes both results NaN, and it
\* cannot be un-seen by a later chunk".
NaNSticky == "NaN" \in elems => min = "NaN" /\ max = "NaN"
=============================================================================
