------------------------------ MODULE SelectKth ------------------------------
(***************************************************************************)
(* The two quickselects: selectKthInto (sort.go), around the out-of-place  *)
(* partition kernel, one turn of its loop at a time, and selectKth         *)
(* (internal/ref/compare.go), portable and in place, one swap at a time.   *)
(* Indices are the code's, from 0.                                         *)
(***************************************************************************)
EXTENDS NaNLast

CONSTANT SelectCutoff  \* selectCutoff

ASSUME CutoffAssumption == SelectCutoff \in Nat \ {0}

VARIABLES slice, k,  \* the arguments
          lo, hi,    \* the live window: hi is past its end in selectKthInto, its end in selectKth
          depth,     \* selectKthInto's budget of turns
          i, j,      \* the indices of selectKth's partition, while it runs
          at         \* "idle", "loop", "scan" or "returned"

selectVars == <<slice, k, lo, hi, depth, i, j, at>>

NotSelecting ==
    /\ slice = <<>> /\ k = 0 /\ lo = 0 /\ hi = 0 /\ depth = 0 /\ i = 0 /\ j = 0
    /\ at = "idle"

\* The call is over and what it computed with is gone.
SelectReturns ==
    /\ at = "returned"
    /\ slice' = <<>> /\ k' = 0 /\ lo' = 0 /\ hi' = 0 /\ depth' = 0 /\ i' = 0 /\ j' = 0
    /\ at' = "idle"

-----------------------------------------------------------------------------
(* selectKthInto.                                                          *)

KernelCall(s, index) ==
    /\ at = "idle"
    /\ slice' = s /\ k' = index
    /\ lo' = 0 /\ hi' = Len(s)
    /\ depth' = DepthPerBit * BitsLen(Len(s))
    /\ at' = "loop"
    /\ UNCHANGED <<i, j>>

Live == Window(slice, lo, hi)

GoesOn == hi - lo >= SelectCutoff /\ depth > 0

\* The one split of the window.
Parts == UNION {{Partition(w, pivot) : pivot \in {MedianOfThree(w)}} : w \in {Live}}

\* What is after the loop.
SortLive(s) ==
    /\ slice' = Put(slice, lo, hi, SortFallback(s))
    /\ at' = "returned"
    /\ UNCHANGED <<lo, hi, depth>>

\* Wrong on purpose: the partition stays in the scratch slice.
NarrowUncopied(s) ==
    /\ GoesOn /\ s.n \notin {0, hi - lo}
    /\ IF k - lo < s.n THEN hi' = lo + s.n /\ UNCHANGED lo ELSE lo' = lo + s.n /\ UNCHANGED hi
    /\ depth' = depth - 1
    /\ UNCHANGED <<slice, at>>

\* Partition the window and keep the side that k is on.
Narrow(s) ==
    /\ GoesOn /\ s.n \notin {0, hi - lo}
    /\ slice' = Put(slice, lo, hi, s.out)
    /\ IF k - lo < s.n THEN hi' = lo + s.n /\ UNCHANGED lo ELSE lo' = lo + s.n /\ UNCHANGED hi
    /\ depth' = depth - 1
    /\ UNCHANGED at

\* No progress: everything is on one side.
GiveUp(s) ==
    /\ GoesOn /\ s.n \in {0, hi - lo}
    /\ SortLive(s.out)

\* Wrong on purpose: what is left is not sorted.
LoopDoneUnsorted ==
    /\ ~GoesOn
    /\ at' = "returned"
    /\ UNCHANGED <<slice, lo, hi, depth>>

LoopDone ==
    /\ ~GoesOn
    /\ \E w \in {Live} : SortLive(w)

KernelTurn ==
    /\ at = "loop"
    /\ (\E s \in Parts : Narrow(s) \/ GiveUp(s)) \/ LoopDone
    /\ UNCHANGED <<k, i, j>>

-----------------------------------------------------------------------------
(* selectKth.                                                              *)

PortableCall(s, index) ==
    /\ at = "idle"
    /\ slice' = s /\ k' = index
    /\ lo' = 0 /\ hi' = Len(s) - 1
    /\ i' = 0 /\ j' = 0
    /\ at' = "loop"
    /\ UNCHANGED depth

Swap(s, x, y) == [s EXCEPT ![x + 1] = s[y + 1], ![y + 1] = s[x + 1]]
Ordered(s, x, y) == IF LessNaNLast(s[y + 1], s[x + 1]) THEN Swap(s, x, y) ELSE s

Mid == lo + (hi - lo) \div 2
Pivot == slice[hi]

\* A range of one or two elements.
Settle ==
    /\ at = "loop" /\ hi - lo < 2
    /\ slice' = IF lo < hi THEN Ordered(slice, lo, hi) ELSE slice
    /\ at' = "returned"
    /\ UNCHANGED <<lo, hi, i, j>>

\* partition: order the three, park the median before the last.
Park ==
    /\ at = "loop" /\ hi - lo >= 2
    /\ slice' = Swap(Ordered(Ordered(Ordered(slice, lo, Mid), lo, hi), Mid, hi), Mid, hi - 1)
    /\ i' = lo /\ j' = hi - 1
    /\ at' = "scan"
    /\ UNCHANGED <<lo, hi>>

\* Where the two inner loops can stop; past the ends of the slice they would panic.
StopsUp == {x \in i + 1 .. Len(slice) - 1 : ~LessNaNLast(slice[x + 1], Pivot)}
StopsDown == {y \in 0 .. j - 1 : ~LessNaNLast(Pivot, slice[y + 1])}
Up == Min(StopsUp)
Down == Max(StopsDown)

Exchange ==
    /\ at = "scan" /\ Up < Down
    /\ slice' = Swap(slice, Up, Down)
    /\ i' = Up /\ j' = Down
    /\ UNCHANGED <<lo, hi, at>>

\* The pivot goes to its place and the loop to the side that k is on, if any.
Descend ==
    /\ at = "scan" /\ Up >= Down
    /\ slice' = Swap(slice, Up, hi - 1)
    /\ IF k < Up THEN hi' = Up - 1 ELSE UNCHANGED hi
    /\ IF k > Up THEN lo' = Up + 1 ELSE UNCHANGED lo
    /\ at' = IF k = Up THEN "returned" ELSE "loop"
    /\ UNCHANGED <<i, j>>

PortableTurn == (Settle \/ Park \/ Exchange \/ Descend) /\ UNCHANGED <<k, depth>>

-----------------------------------------------------------------------------
(* Properties.                                                             *)

\* Every variable of a selection has its type, and the live window never loses the
\* position asked for.
KernelTypeOK ==
    /\ slice \in Seq(Values)
    /\ at \in {"idle", "loop", "returned"}
    /\ at # "idle" =>
         /\ k \in Nat /\ lo \in 0 .. k /\ hi \in k + 1 .. Len(slice)
         /\ depth \in 0 .. DepthPerBit * BitsLen(Len(slice))

PortableTypeOK ==
    /\ slice \in Seq(Values)
    /\ at \in {"idle", "loop", "scan", "returned"}
    /\ at # "idle" =>
         /\ k \in Nat /\ lo \in 0 .. k /\ hi \in k .. Len(slice) - 1
         /\ i \in 0 .. Len(slice) - 1 /\ j \in 0 .. Len(slice) - 1

\* sort.go:335-341: "everything left of the live window is less than or equal to every
\* element in it, and everything right is greater than or equal", at every turn.
KernelFenced == Apart(slice, lo, hi)

\* The same of the range of the portable select.
PortableFenced == Apart(slice, lo, hi + 1)

\* internal/ref/compare.go:154: "park the pivot at hi-1 so the loop cannot run off either
\* end": both inner loops, which have no bound of their own, stop inside the range.
ScanStaysInRange ==
    at = "scan" =>
      /\ \E x \in StopsUp : x <= hi - 1
      /\ \E y \in StopsDown : y >= lo

\* During a partition, what the indices have passed is on its side of the pivot.
ScannedSides ==
    at = "scan" => /\ \A p \in lo .. i : AtMost(slice[p + 1], Pivot)
                   /\ \A p \in j .. hi : AtMost(Pivot, slice[p + 1])
=============================================================================
