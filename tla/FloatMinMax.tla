----------------------------- MODULE FloatMinMax -----------------------------
(***************************************************************************)
(* The minimum and maximum of floating-point values: the two-operand forms *)
(* of internal/ref and csrc/minmax.h, the whole-slice reduction built from *)
(* them, its vector kernel, and the math.Min and math.Max the accumulator  *)
(* uses between chunks.                                                    *)
(*                                                                         *)
(* Six values are all these functions tell apart: NaN, the infinities, the *)
(* two zeros and a finite number.  Which NaN it is is left out.            *)
(***************************************************************************)
EXTENDS Integers, Sequences

CONSTANT ArgLanes  \* ARG_LANES of csrc/argreduce.c

ASSUME ArgLanesAssumption == ArgLanes \in Nat \ {0}

Number == [negInf |-> -1, negZero |-> 0, posZero |-> 0, one |-> 1, posInf |-> 2]
Numbers == DOMAIN Number
Values == Numbers \union {"NaN"}

\* The comparison of the hardware: false when either operand is a NaN.
Less(x, y) == x \in Numbers /\ y \in Numbers /\ Number[x] < Number[y]

SignBit(x) == x \in {"negInf", "negZero"}

\* Wrong on purpose: a NaN on the right compares false and is dropped.
Min2Compared(x, y) ==
    CASE x = "NaN" -> x
      [] Less(y, x) -> y
      [] OTHER -> x

\* min2Float
Min2(x, y) ==
    CASE x = "NaN" -> x
      [] x # "NaN" /\ y = "NaN" -> y
      [] Less(x, y) -> x
      [] Less(y, x) -> y
      [] OTHER -> IF SignBit(x) THEN x ELSE y

\* max2Float
Max2(x, y) ==
    CASE x = "NaN" -> x
      [] x # "NaN" /\ y = "NaN" -> y
      [] Less(y, x) -> x
      [] Less(x, y) -> y
      [] OTHER -> IF SignBit(x) THEN y ELSE x

\* What op makes of s[1], ..., s[k], from the left.
LeftFold(op(_, _), s) ==
    LET upTo[k \in 1 .. Len(s)] == IF k = 1 THEN s[1] ELSE op(upTo[k - 1], s[k])
    IN  upTo[Len(s)]

\* minFloat, maxFloat
RefMinMax(a) == <<LeftFold(Min2, a), LeftFold(Max2, a)>>

\* simd_minmax: every lane starts from a[0] and takes one element of each whole
\* block; the lanes are folded from lane 0 up, then what is left of the chunk.
KernelFold(op(_, _), a) ==
    LET blocks == Len(a) \div ArgLanes
        lane(j) == LeftFold(op, <<a[1]>> \o [b \in 1 .. blocks |-> a[(b - 1) * ArgLanes + j]])
        rest == SubSeq(a, blocks * ArgLanes + 1, Len(a))
    IN  LeftFold(op, [j \in 1 .. ArgLanes |-> lane(j)] \o rest)

KernelMinMax(a) == <<KernelFold(Min2, a), KernelFold(Max2, a)>>

\* Go's math.Min: "Min(x, -Inf) = Min(-Inf, x) = -Inf" comes before the NaN case.
MathMin(x, y) ==
    CASE x = "negInf" \/ y = "negInf" -> "negInf"
      [] "negInf" \notin {x, y} /\ "NaN" \in {x, y} -> "NaN"
      [] OTHER -> Min2(x, y)

\* Go's math.Max, with +Inf before the NaN case.
MathMax(x, y) ==
    CASE x = "posInf" \/ y = "posInf" -> "posInf"
      [] "posInf" \notin {x, y} /\ "NaN" \in {x, y} -> "NaN"
      [] OTHER -> Max2(x, y)
=============================================================================
