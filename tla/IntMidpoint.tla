----------------------------- MODULE IntMidpoint -----------------------------
(***************************************************************************)
(* The integer arithmetic of Median and Quantile (sort.go, compare.go,     *)
(* internal/ref/compare.go), on the order statistics a selection finds.    *)
(*                                                                         *)
(* A caller fills a table of quantiles of one slice, for ascending q, and  *)
(* asks for the median on the way.  The calls reorder the slice, which     *)
(* does not change its order statistics: the model keeps the slice sorted. *)
(*                                                                         *)
(* A float64 is the whole number of Unit-ths it stands for.  It has few    *)
(* enough significant bits when it is a multiple of the ulp that goes with *)
(* its size; a result that is not is rounded to the nearest that is, to    *)
(* the even one of two.  For float64 Top is 2^53, Unit is 2^1074, and Ulps *)
(* has the powers of two below 2^2045.  Each operation rounds on its own,  *)
(* as on amd64: a target whose compiler fuses the product of pos into the  *)
(* subtraction of frac is left out, and so is a q that is a NaN.           *)
(***************************************************************************)
EXTENDS Integers, Sequences

CONSTANTS Inputs,  \* records: least and greatest of the type, and the sorted slice a
          Qs,      \* the quantiles asked for, as floats, in ascending order
          Unit,    \* the floats are multiples of 1/Unit
          Top,     \* the first whole number of too many bits to be a significand
          Ulps     \* the distances between floats, in Unit-ths

ASSUME InputsAssumption ==
    \A in \in Inputs :
      /\ in.least \in Int /\ in.greatest \in Int
      /\ in.least <= 0 /\ 0 < in.greatest
      /\ in.a \in Seq(in.least .. in.greatest) /\ in.a # <<>> /\ Len(in.a) <= Top
      /\ \A i, j \in DOMAIN in.a : i <= j => in.a[i] <= in.a[j]
      /\ \E u \in Ulps : 2 * (in.greatest - in.least) * Unit <= Top * u

ASSUME QsAssumption == Qs \in Seq(Int) /\ \A i, j \in DOMAIN Qs : i <= j => Qs[i] <= Qs[j]

\* Ulps has the powers of two up to one of them; so is Unit, and a multiple of Top and of two.
ASSUME FloatsAssumption ==
    /\ Top \in Nat /\ Top >= 2 /\ Top % 2 = 0
    /\ Ulps \subseteq Nat \ {0} /\ 1 \in Ulps
    /\ \A u \in Ulps : u # 1 => u % 2 = 0 /\ u \div 2 \in Ulps
    /\ \A u, v \in Ulps : u < v => v % (2 * u) = 0
    /\ Unit \in Ulps /\ \E u \in Ulps : Unit = Top * u

VARIABLES input,   \* the slice and its type
          table,   \* Quantile's results so far
          median   \* <<>>, or Median's result

vars == <<input, table, median>>

Least == input.least
Greatest == input.greatest
a == input.a
n == Len(a)

\* A sum or a difference, in the type's width.
Wrap(z) == Least + ((z - Least) % (Greatest - Least + 1))

\* Integer division and conversion from float, both toward zero.
TowardZero(z, d) == IF z >= 0 THEN z \div d ELSE -((-z) \div d)

\* Wrong on purpose: half the sum.
AverageOfSum(lo, hi) == TowardZero(Wrap(lo + hi), 2)

Average(lo, hi) == Wrap(lo + TowardZero(Wrap(hi - lo), 2))

\* The distance between the floats about z.
Ulp(z) ==
    LET Wide(u) == -(Top * u) < z /\ z < Top * u
    IN  CHOOSE u \in Ulps : Wide(u) /\ \A v \in Ulps : Wide(v) => u <= v

\* The nearest float, of two the even one.
Round(z) ==
    LET u == Ulp(z)
        k == z \div u
        above == 2 * (z % u)
    IN  IF above > u \/ (above = u /\ k % 2 = 1) THEN (k + 1) * u ELSE k * u

\* float64(g) and the product of two floats.  A float of an integer is one: the division leaves
\* nothing.
Float(g) == Round(g * Unit)
Product(f, g) == Round((f * g) \div Unit)

\* x + T(frac*float64(y-x))
Interpolate(x, y, frac) == Wrap(x + TowardZero(Product(frac, Float(Wrap(y - x))), Unit))

\* q clamped to [0, 1].
Clamp(q) == IF q < 0 THEN 0 ELSE IF q > Unit THEN Unit ELSE q

\* pos = q*float64(n-1)
Pos(q) == Round(Clamp(q) * (n - 1))

\* Wrong on purpose: the nearest index.
WholeNearest(q) == (Pos(q) + Unit \div 2) \div Unit

\* lo = int(pos), and frac = pos - float64(lo).
Whole(q) == Pos(q) \div Unit
Fraction(q) == Round(Pos(q) - Whole(q) * Unit)

\* Wrong on purpose: the greatest of the tail.
UpperGreatest(lo) == a[n]

\* The least of a[lo+1:].
Upper(lo) == a[lo + 2]

Quantile(q) ==
    IF Whole(q) >= n - 1 THEN a[n]
    ELSE IF Fraction(q) = 0 THEN a[Whole(q) + 1]
    ELSE Interpolate(a[Whole(q) + 1], Upper(Whole(q)), Fraction(q))

Median == IF n % 2 = 1 THEN a[n \div 2 + 1] ELSE Average(a[n \div 2], a[n \div 2 + 1])

Init ==
    /\ input \in Inputs
    /\ table = <<>>
    /\ median = <<>>

AskQuantile ==
    /\ Len(table) < Len(Qs)
    /\ table' = Append(table, Quantile(Qs[Len(table) + 1]))
    /\ UNCHANGED <<input, median>>

AskMedian ==
    /\ median = <<>>
    /\ median' = <<Median>>
    /\ UNCHANGED <<input, table>>

Next == AskQuantile \/ AskMedian

Spec == Init /\ [][Next]_vars

-----------------------------------------------------------------------------
(* Properties.                                                             *)

\* Every variable has its type.
TypeOK ==
    /\ input \in Inputs
    /\ table \in Seq(Least .. Greatest) /\ Len(table) <= Len(Qs)
    /\ median \in Seq(Least .. Greatest) /\ Len(median) <= 1

\* What stands next to each other in the slice is no further apart than the greatest value
\* of the type.  So it is in every slice of an unsigned type.
GapsFit == \A k \in 1 .. n - 1 : a[k + 1] - a[k] <= Greatest

\* The order statistics around the exact q*(n-1).
Below(q) == a[(Clamp(q) * (n - 1)) \div Unit + 1]
Above(q) == LET lo == (Clamp(q) * (n - 1)) \div Unit IN IF lo < n - 1 THEN a[lo + 2] ELSE a[n]

\* compare.go:251-252: a quantile lies between the two order statistics around the exact
\* q*(n-1), although the position, the fraction, the gap and their product are each rounded:
\* a gap rounded up never carries it past the upper one, nor a position rounded up to the next
\* index.  The median is the exact mean of the middle two, rounded down.
StaysBetween ==
    GapsFit =>
      /\ \A i \in DOMAIN table : Below(Qs[i]) <= table[i] /\ table[i] <= Above(Qs[i])
      /\ (median # <<>> /\ n % 2 = 0) =>
           LET e == a[n \div 2] + a[n \div 2 + 1] IN 2 * median[1] <= e /\ e < 2 * (median[1] + 1)

\* A larger q never gives a smaller quantile, also across the order statistics where the
\* interpolation changes its two values, and whatever is rounded on the way.
RisesWithQ == GapsFit => \A i, j \in DOMAIN table : i <= j => table[i] <= table[j]

\* compare.go:250: the quantile at 0.5 is "the median".  The two are computed by different
\* arithmetic.  They agree, whatever wraps, when the gap of the middle two is a float, as it is
\* in every type of up to 32 bits; otherwise they differ by half of what the gap is rounded by,
\* and at most one more.
MedianIsHalfQuantile ==
    \A i \in DOMAIN table :
      (median # <<>> /\ 2 * Qs[i] = Unit) =>
        LET x == a[(n + 1) \div 2]
            y == a[n \div 2 + 1]
            gap == Wrap(y - x) * Unit
            off == IF Round(gap) >= gap THEN Round(gap) - gap ELSE gap - Round(gap)
        IN  /\ off = 0 => table[i] = median[1]
            /\ y - x <= Greatest => /\ 2 * Unit * (table[i] - median[1]) < off + 2 * Unit
                                   /\ 2 * Unit * (median[1] - table[i]) < off + 2 * Unit

\* sort.go:395-397: the halved gap "cannot overflow because hi is never less than lo".
GapCannotOverflow ==
    median # <<>> => a[1] <= median[1] /\ median[1] <= a[n]

\* compare.go:255-256: "For integer types the interpolated value truncates toward zero", here
\* of halves, which are exact.
TruncatesTowardZero ==
    GapsFit => \A i \in DOMAIN table :
      (2 * Qs[i] = Unit /\ n = 2 /\ a[2] - a[1] < Top) => table[i] = TowardZero(a[1] + a[2], 2)

-----------------------------------------------------------------------------
(* The inputs of the runs: types of four bits, every sorted slice of up to *)
(* five of the values at the ends and in the middle of the type's range,   *)
(* and the floats of three bits from below 0 to above 1.                   *)

SortedOf(values) ==
    {s \in UNION {[1 .. l -> values] : l \in 1 .. 5} :
       \A i, j \in DOMAIN s : i <= j => s[i] <= s[j]}

SlicesOf(least, greatest, values) == [least : {least}, greatest : {greatest}, a : SortedOf(values)]

FourBitInputs ==
    SlicesOf(0, 15, {0, 1, 8, 11, 15}) \union SlicesOf(-8, 7, {-8, -7, -3, 0, 7})

ThreeBitFloats == <<-1, 0, 1, 2, 3, 4, 5, 6, 7, 8, 10, 12, 14, 16, 20, 24, 28, 32, 40>>
=============================================================================
