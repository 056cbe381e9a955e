------------------------------- MODULE NaNLast -------------------------------
(***************************************************************************)
(* The order the sorting and selecting functions of the package share: <,  *)
(* with every NaN after every number; and the two helpers of sort.go that  *)
(* they share, the partition and the fallback to the standard library.     *)
(*                                                                         *)
(* A value is a name.  Number gives the names that are not NaNs the number *)
(* that < and == compare, so the two zeros are two names of one number.    *)
(***************************************************************************)
EXTENDS Ordered, SequencesExt

CONSTANTS Number, NaNs,
          DepthPerBit  \* the 2 in 2*bitsLen(len(a)), of the sort and of the select

ASSUME NumberAssumption == \A x \in DOMAIN Number : Number[x] \in Int
ASSUME NaNAssumption == NaNs \intersect DOMAIN Number = {}
ASSUME DepthAssumption == DepthPerBit \in Nat

Values == DOMAIN Number \union NaNs

IsNaN(x) == x \in NaNs
Lt(x, y) == ~IsNaN(x) /\ ~IsNaN(y) /\ Number[x] < Number[y]
Eq(x, y) == ~IsNaN(x) /\ ~IsNaN(y) /\ Number[x] = Number[y]

\* The order of Sort, Median and Quantile, and the order of cmp.Less.
LessNaNLast(x, y) == Lt(x, y) \/ (~IsNaN(x) /\ IsNaN(y))
LessNaNFirst(x, y) == Lt(x, y) \/ (IsNaN(x) /\ ~IsNaN(y))

AtMost(x, y) == ~LessNaNLast(y, x)
Same(x, y) == AtMost(x, y) /\ AtMost(y, x)

\* a[lo:hi] of the code, and a with that window replaced.
Window(a, lo, hi) == SubSeq(a, lo + 1, hi)
Put(a, lo, hi, w) == SubSeq(a, 1, lo) \o w \o SubSeq(a, hi + 1, Len(a))

Below(pivot) == {v \in Values : Lt(v, pivot)}
EqualTo(pivot) == {v \in Values : Eq(v, pivot)}

\* partitionOut: the elements below the pivot, then the others, both in order.
Partition(s, pivot) ==
    [n |-> Cardinality(Keeping(s, Below(pivot))),
     out |-> Kept(s, Below(pivot)) \o Kept(s, Values \ Below(pivot))]

\* medianOfThree: its three comparisons, in their order, each with the bare <.
MedianOfThree(s) ==
    LET x == s[1]  y == s[Len(s) \div 2 + 1]  z == s[Len(s)]
        low == IF Lt(y, x) THEN y ELSE x
        mid == IF Lt(y, x) THEN x ELSE y
        capped == IF Lt(z, mid) THEN z ELSE mid
    IN  IF Lt(capped, low) THEN low ELSE capped

\* The standard library's sort, NaNs first: an element goes behind those below it, and
\* behind the equal ones given before it.
SortedPlace(s, x) ==
    Cardinality({y \in DOMAIN s : IF y <= x THEN ~LessNaNFirst(s[x], s[y]) ELSE LessNaNFirst(s[y], s[x])})
SlicesSort(s) == [p \in 1 .. Len(s) |-> s[CHOOSE x \in DOMAIN s : SortedPlace(s, x) = p]]

\* rotateLeft: what its three reversals come to.
RotateLeft(s, k) == SubSeq(s, k + 1, Len(s)) \o SubSeq(s, 1, k)

\* Wrong on purpose: the NaNs stay where the library puts them.
SortFallbackUnrotated(s) == SlicesSort(s)

\* sortFallback
SortFallback(s) ==
    LET t == SlicesSort(s)
        n == Cardinality(Keeping(t, NaNs))
    IN  IF n \in {0, Len(s)} THEN t ELSE RotateLeft(t, n)

\* bitsLen
BitsLen(n) ==
    LET bits[i \in 0 .. n] == IF i = 0 THEN 0 ELSE 1 + bits[i \div 2]
    IN  bits[n]

-----------------------------------------------------------------------------
(* What a sort and a selection promise.                                    *)

Ascending(s) == \A i \in 1 .. Len(s) - 1 : AtMost(s[i], s[i + 1])

\* Element n, counted from 0, is where the sorted slice has it.
PlacedAt(s, n) ==
    /\ \A p \in 1 .. n : AtMost(s[p], s[n + 1])
    /\ \A p \in n + 2 .. Len(s) : AtMost(s[n + 1], s[p])

\* a[lo:hi] holds what belongs there: what is before it is at most, and what is after it at
\* least, each element of it.
Apart(s, lo, hi) ==
    \A p \in lo .. hi - 1 :
      /\ \A q \in 0 .. lo - 1 : AtMost(s[q + 1], s[p + 1])
      /\ \A q \in hi .. Len(s) - 1 : AtMost(s[p + 1], s[q + 1])

CountOf(s, x) == Cardinality({i \in DOMAIN s : Same(s[i], x)})

\* The same elements, the zeros and the NaNs each counted together.
SameElements(s, t) == Len(s) = Len(t) /\ \A x \in Values : CountOf(s, x) = CountOf(t, x)
=============================================================================
