------------------------------ MODULE QuickSort ------------------------------
(***************************************************************************)
(* Sort, SortInto and the quicksort under them (sort.go), one turn of a    *)
(* call's loop at a time.  The recursion is an explicit stack of frames;   *)
(* a frame is a call of quicksort with the window of the slice it is at.   *)
(*                                                                         *)
(* The scratch slice is left out: no step reads what an earlier one left   *)
(* in it.                                                                  *)
(***************************************************************************)
EXTENDS NaNLast

CONSTANTS Inputs,         \* the slices to sort
          SortCutoff,     \* sortCutoff
          SortSkewLimit   \* sortSkewLimit

ASSUME SortAssumption == SortCutoff \in Nat \ {0} /\ SortSkewLimit \in Nat \ {0}
ASSUME InputsAssumption == Inputs \subseteq Seq(Values)

VARIABLES a,      \* the slice
          stack,  \* the calls of quicksort, the running one last
          pc,     \* "call", "sorting" or "returned"
          input   \* history: the slice the caller passed

vars == <<a, stack, pc, input>>

\* A frame is in its loop, or about to make the second call after extractEqual, or
\* about to return.
Frame(at, lo, hi, depth) == [at |-> at, lo |-> lo, hi |-> hi, depth |-> depth]
Running == Last(stack)
Depth == DepthPerBit * BitsLen(Len(input))

Init ==
    /\ input \in Inputs
    /\ a = input
    /\ stack = <<>>
    /\ pc = "call"

\* The early returns of Sort and SortInto.
FallsBack(entry, scratch, kernel) ==
    \/ ~kernel
    \/ entry = "Sort" /\ Len(a) < SortCutoff
    \/ entry = "SortInto" /\ scratch < Len(a)

Call ==
    /\ pc = "call"
    /\ \E entry \in {"Sort", "SortInto"}, scratch \in {Len(a) - 1, Len(a)}, kernel \in BOOLEAN :
         IF FallsBack(entry, scratch, kernel)
         THEN a' = SortFallback(a) /\ pc' = "returned" /\ UNCHANGED stack
         ELSE stack' = <<Frame("loop", 0, Len(a), Depth)>> /\ pc' = "sorting" /\ UNCHANGED a
    /\ UNCHANGED input

\* The loop condition of quicksort.
Continues(f) == f.hi - f.lo >= SortCutoff /\ f.depth > 0

\* lo == 0 || hi/lo >= sortSkewLimit, the quotient of two naturals
Skewed(n, m) ==
    LET lo == IF n > m THEN m ELSE n
        hi == IF n > m THEN n ELSE m
    IN  lo = 0 \/ hi >= SortSkewLimit * lo

\* extractEqual of the high side: nothing is done to too short a run, nor to one that
\* is the whole side; any other is filled with the pivot itself.
ExtractEqual(high, pivot) ==
    LET eq == Cardinality(Keeping(high, EqualTo(pivot)))
        rest == Kept(high, Values \ EqualTo(pivot))
    IN  CASE eq = 0 \/ eq * 4 < Len(high) -> [eq |-> 0, out |-> high]
          [] eq > 0 /\ eq = Len(high) -> [eq |-> eq, out |-> high]
          [] OTHER -> [eq |-> eq, out |-> [i \in 1 .. eq |-> pivot] \o rest]

\* The running frame becomes g and calls quicksort on [lo, hi).
CallFrom(g, lo, hi, depth) == stack' = Append(Front(stack), g) \o <<Frame("loop", lo, hi, depth)>>
Pop == stack' = Front(stack)

\* Wrong on purpose: the windows are divided one off.
DivideOff(f, n) ==
    IF n < f.hi - f.lo - n
    THEN CallFrom(Frame("loop", f.lo + n + 1, f.hi, f.depth - 1), f.lo, f.lo + n + 1, f.depth - 1)
    ELSE CallFrom(Frame("loop", f.lo, f.lo + n + 1, f.depth - 1), f.lo + n + 1, f.hi, f.depth - 1)

\* Recurse on the smaller side, loop on the larger.
Divide(f, n) ==
    IF n < f.hi - f.lo - n
    THEN CallFrom(Frame("loop", f.lo + n, f.hi, f.depth - 1), f.lo, f.lo + n, f.depth - 1)
    ELSE CallFrom(Frame("loop", f.lo, f.lo + n, f.depth - 1), f.lo + n, f.hi, f.depth - 1)

\* Partition, copy back and divide.
SplitTurn(f) ==
    /\ Continues(f)
    /\ \E w \in {Window(a, f.lo, f.hi)} : \E pivot \in {MedianOfThree(w)} : \E s \in {Partition(w, pivot)} :
         /\ ~Skewed(s.n, Len(s.out) - s.n)
         /\ a' = Put(a, f.lo, f.hi, s.out)
         /\ Divide(f, s.n)

\* A skewed split: take the run of pivots out and call for what is on either side of
\* it, or hand the window to the fallback.
SkewedTurn(f) ==
    /\ Continues(f)
    /\ \E w \in {Window(a, f.lo, f.hi)} : \E pivot \in {MedianOfThree(w)} : \E s \in {Partition(w, pivot)} :
         /\ Skewed(s.n, Len(s.out) - s.n)
         /\ \E x \in {ExtractEqual(SubSeq(s.out, s.n + 1, Len(s.out)), pivot)} :
              \/ /\ x.eq > 0
                 /\ a' = Put(a, f.lo, f.hi, SubSeq(s.out, 1, s.n) \o x.out)
                 /\ CallFrom(Frame("second", f.lo + s.n + x.eq, f.hi, f.depth), f.lo, f.lo + s.n, f.depth - 1)
              \/ /\ x.eq = 0
                 /\ a' = Put(a, f.lo, f.hi, SortFallback(s.out))
                 /\ Pop

\* Wrong on purpose: the call does not return after it.
SecondCallAgain(f) ==
    /\ CallFrom(f, f.lo, f.hi, f.depth - 1)
    /\ UNCHANGED a

SecondCall(f) ==
    /\ CallFrom(Frame("return", f.hi, f.hi, f.depth), f.lo, f.hi, f.depth - 1)
    /\ UNCHANGED a

\* The loop is over: sortFallback and return.
LastTurn(f) ==
    /\ ~Continues(f)
    /\ \E w \in {Window(a, f.lo, f.hi)} : a' = Put(a, f.lo, f.hi, SortFallback(w))
    /\ Pop

Return ==
    /\ Pop
    /\ UNCHANGED a

Step ==
    /\ pc = "sorting" /\ stack # <<>>
    /\ \/ Running.at = "loop" /\ (SplitTurn(Running) \/ SkewedTurn(Running) \/ LastTurn(Running))
       \/ Running.at = "second" /\ SecondCall(Running)
       \/ Running.at = "return" /\ Return
    /\ UNCHANGED <<pc, input>>

Finish ==
    /\ pc = "sorting" /\ stack = <<>>
    /\ pc' = "returned"
    /\ UNCHANGED <<a, stack, input>>

Returned ==
    /\ pc = "returned"
    /\ UNCHANGED vars

Next == Call \/ Step \/ Finish \/ Returned

\* A goroutine that is in Sort runs on.
Spec == Init /\ [][Next]_vars /\ WF_vars(Next)

-----------------------------------------------------------------------------
(* Properties.                                                             *)

\* Positions are the code's, from 0.
At(p) == a[p + 1]
Positions == 0 .. Len(a) - 1
Pending(p) == \E i \in DOMAIN stack : stack[i].lo <= p /\ p < stack[i].hi

Frames == [at : {"loop", "second", "return"}, lo : 0 .. Len(a), hi : 0 .. Len(a), depth : Nat]

\* Every variable has its type; a window is one of the slice, and empty when nothing is
\* left but to return; only a running sort has calls.
TypeOK ==
    /\ a \in Seq(Values) /\ input \in Seq(Values)
    /\ stack \in Seq(Frames)
    /\ \A i \in DOMAIN stack :
         /\ stack[i].lo <= stack[i].hi
         /\ stack[i].at = "return" => stack[i].lo = stack[i].hi
    /\ pc \in {"call", "sorting", "returned"}
    /\ pc # "sorting" => stack = <<>>

\* sort.go:99-103: the caller gets its elements back in ascending order, NaNs last.
ReturnsSorted == pc = "returned" => Ascending(a)

\* At no point is an element lost or doubled: "a partition with a subtle bug still
\* produces a permutation" (internal/ref/sort.go:12-15) is no help if it does not.
KeepsElements == SameElements(a, input)

\* No two calls have work left on one element.
WindowsDisjoint ==
    \A i, j \in DOMAIN stack :
      i < j => stack[i].hi <= stack[j].lo \/ stack[j].hi <= stack[i].lo

\* Each window holds exactly the elements that belong there: what is before it is at
\* most, and what is after it at least, each of them.
Fenced ==
    \A i \in DOMAIN stack : \A p \in stack[i].lo .. stack[i].hi - 1 :
      /\ \A q \in 0 .. stack[i].lo - 1 : AtMost(At(q), At(p))
      /\ \A q \in stack[i].hi .. Len(a) - 1 : AtMost(At(p), At(q))

\* An element that no call will move any more is where the sorted slice has it.
Settled ==
    pc # "call" =>
      \A p \in Positions : ~Pending(p) =>
        \A q \in Positions : (q < p => AtMost(At(q), At(p))) /\ (q > p => AtMost(At(p), At(q)))

\* sort.go:156-158: the depth that is left bounds the recursion whatever the pivots; a
\* call that makes its second call has some left.
DepthBoundsStack ==
    \A i \in DOMAIN stack :
      /\ stack[i].depth + (i - 1) <= Depth
      /\ stack[i].at = "second" => stack[i].depth > 0

\* At every turn the slice is a rearrangement of the caller's, the windows that wait are
\* apart, fenced (sort.go:182-205) and no deeper than the budget allows, and what no
\* window holds is final.
SortInv == TypeOK /\ KeepsElements /\ WindowsDisjoint /\ Fenced /\ Settled /\ DepthBoundsStack

\* sort.go:154-155: "recurses on the smaller side and loops on the larger, which
\* bounds the stack at log2(n) frames", not counting the first.
StackIsLogarithmic == stack # <<>> => 2 ^ (Len(stack) - 1) <= Len(a)

\* sort.go:202: extractEqual moves the elements equal to the pivot, so a slice ends
\* with the very values it began with.
SameBits == \A x \in Values : Cardinality(Keeping(a, {x})) = Cardinality(Keeping(input, {x}))

\* Every call returns, on every input.
Returns == <>(pc = "returned")
=============================================================================
