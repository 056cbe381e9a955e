---------------------------- MODULE OrderStatistics ----------------------------
(***************************************************************************)
(* What Median, Quantile, TopKInto and BottomKInto make of a selection.    *)
(* The selection is the abstract one: any rearrangement that puts the k-th *)
(* smallest at k with its fence, which is all either quickselect promises. *)
(* SelectedStatistics is the same with the quickselects.                   *)
(*                                                                         *)
(* A median or a quantile is left as the values it is interpolated from;   *)
(* the arithmetic on them is IntMidpoint's subject.                        *)
(***************************************************************************)
EXTENDS NaNLast

CONSTANT Slices  \* the slices, none of them empty

ASSUME SlicesAssumption == Slices \subseteq Seq(Values) \ {<<>>}

VARIABLES data,    \* the caller's slice
          call,    \* the operation and its argument
          phase,   \* "call", "deliver" or "returned"
          result,  \* what is returned, or written to dst
          passed   \* history: the slice the caller passed

orderVars == <<data, call, phase, result, passed>>

\* A Quantile's argument is the index below its position, and whether the position is
\* between two; a Median's is len(a)/2; of the others the length of the result, from
\* which they compute the index.
Calls ==
    [op : {"Median"}, k : {Len(passed) \div 2}, between : {Len(passed) % 2 = 0}]
      \union [op : {"Quantile"}, k : 0 .. Len(passed) - 1, between : BOOLEAN]
      \union [op : {"TopK", "BottomK"}, k : -1 .. Len(passed) + 1, between : {FALSE}]

OrderInit ==
    /\ passed \in Slices
    /\ data = passed
    /\ call \in Calls
    /\ phase = "call"
    /\ result = <<>>

Length == IF call.k > Len(data) THEN Len(data) ELSE call.k
First(n) == SubSeq(data, 1, n)
LastOnes(n) == SubSeq(data, Len(data) - n + 1, Len(data))

\* The index each operation selects.
Target ==
    CASE call.op = "TopK" -> Len(data) - Length
      [] call.op = "BottomK" -> Length - 1
      [] OTHER -> call.k

\* Nothing is asked for.
ReturnNothing ==
    /\ phase = "call" /\ call.op \in {"TopK", "BottomK"} /\ Length <= 0
    /\ phase' = "returned"
    /\ UNCHANGED <<data, result>>

\* All of it is sorted, whatever is asked for.
SortAll ==
    /\ phase = "call" /\ call.op \in {"TopK", "BottomK"} /\ Length > 0
    /\ data' = SortFallback(data)
    /\ result' = IF call.op = "TopK" THEN Reverse(SubSeq(data', Len(data) - Length + 1, Len(data)))
                 ELSE SubSeq(data', 1, Length)
    /\ phase' = "returned"

\* medianFloat of one or two elements, with the NaN-propagating minimum and maximum.
MedianShort ==
    /\ phase = "call" /\ call.op = "Median" /\ Len(data) < 3
    /\ result' = CASE Len(data) = 1 -> data
                   [] Len(data) = 2 /\ \E x \in Range(data) : IsNaN(x) ->
                        LET nan == CHOOSE x \in Range(data) : IsNaN(x) IN <<nan, nan>>
                   [] OTHER -> SlicesSort(data)
    /\ phase' = "returned"
    /\ UNCHANGED data

Selects ==
    /\ call.op \in {"TopK", "BottomK"} => Length \in 1 .. Len(data) - 1
    /\ call.op = "Median" => Len(data) >= 3

Select ==
    /\ phase = "call" /\ Selects
    /\ data' \in Seq(Values) /\ PlacedAt(data', Target) /\ SameElements(data', data)
    /\ phase' = "deliver"
    /\ UNCHANGED result

\* Wrong on purpose: the element after k is taken for the next one.
DeliverAdjacent ==
    /\ phase = "deliver" /\ call.op \in {"Median", "Quantile"}
    /\ result' = IF call.op = "Median" /\ call.between THEN <<data[call.k], data[call.k + 1]>>
                 ELSE IF call.between /\ call.k < Len(data) - 1 THEN <<data[call.k + 1], data[call.k + 2]>>
                 ELSE <<data[call.k + 1]>>
    /\ phase' = "returned"
    /\ UNCHANGED data

\* maxNaNLast and minNaNLast of a slice that is not empty.
Greatest(s) == CHOOSE x \in Range(s) : \A y \in Range(s) : AtMost(y, x)
Least(s) == CHOOSE x \in Range(s) : \A y \in Range(s) : AtMost(x, y)

\* MedianInto and QuantileInto: the other value is the nearest on its side.
DeliverStatistic ==
    /\ phase = "deliver" /\ call.op \in {"Median", "Quantile"}
    /\ result' = CASE ~call.between \/ (call.op = "Quantile" /\ call.k = Len(data) - 1) -> <<data[call.k + 1]>>
                   [] call.between /\ call.op = "Median" -> <<Greatest(First(call.k)), data[call.k + 1]>>
                   [] OTHER -> <<data[call.k + 1], Least(LastOnes(Len(data) - call.k - 1))>>
    /\ phase' = "returned"
    /\ UNCHANGED data

\* The k on that side are sorted in place, then written, the largest first in a TopK.
DeliverTopK ==
    /\ phase = "deliver" /\ call.op = "TopK"
    /\ \E w \in {LastOnes(Length)} :
         /\ data' = First(Len(data) - Length) \o SortFallback(w)
         /\ result' = Reverse(SortFallback(w))
    /\ phase' = "returned"

DeliverBottomK ==
    /\ phase = "deliver" /\ call.op = "BottomK"
    /\ \E w \in {First(Length)} : result' = SortFallback(w)
    /\ data' = result' \o LastOnes(Len(data) - Length)
    /\ phase' = "returned"

OrderNext ==
    \/ /\ ReturnNothing \/ SortAll \/ MedianShort \/ Select \/ DeliverStatistic \/ DeliverTopK \/ DeliverBottomK
       /\ UNCHANGED <<call, passed>>
    \/ phase = "returned" /\ UNCHANGED orderVars

\* Every call returns: no selection goes on for ever.
EveryCallReturns == <>(phase = "returned")

OrderSpec == OrderInit /\ [][OrderNext]_orderVars /\ EveryCallReturns

-----------------------------------------------------------------------------
(* Properties.                                                             *)

\* Every variable has its type, and the slice is only ever rearranged.
OrderTypeOK ==
    /\ SameElements(data, passed)
    /\ call \in Calls
    /\ phase \in {"call", "deliver", "returned"}
    /\ result \in Seq(Values)

Expected == SortFallback(passed)
Agrees(s, t) == Len(s) = Len(t) /\ \A p \in DOMAIN s : Same(s[p], t[p])

\* Whatever arrangement the selection leaves, a median and a quantile come of the values
\* that the sorted slice has in that place and, if the position is between two, of its
\* neighbour.  With a NaN for one of two values, a median may come of that NaN alone.
StatisticsOfSorted ==
    phase = "returned" /\ call.op \in {"Median", "Quantile"} =>
      LET low == IF call.op = "Median" /\ call.between THEN call.k ELSE call.k + 1
          high == IF call.between /\ low < Len(passed) THEN low + 1 ELSE low
      IN  \/ Agrees(result, SubSeq(Expected, low, high))
          \/ Len(passed) = 2 /\ IsNaN(Expected[2]) /\ Agrees(result, <<Expected[2], Expected[2]>>)

\* wrangle.go:7-8, 57: the k largest in descending, or smallest in ascending, order, on
\* either path.
EndsOfSorted ==
    phase = "returned" =>
      /\ call.op = "TopK" /\ Length > 0 => Agrees(result, Reverse(SubSeq(Expected, Len(data) - Length + 1, Len(data))))
      /\ call.op = "BottomK" /\ Length > 0 => Agrees(result, SubSeq(Expected, 1, Length))

\* wrangle.go:16-17: of a TopK "NaNs are the last thing returned and only when k reaches
\* them".
NaNsLastReturned ==
    phase = "returned" /\ call.op = "TopK" =>
      \A p \in DOMAIN result : IsNaN(result[p]) => \A q \in p .. Len(result) : IsNaN(result[q])
=============================================================================
