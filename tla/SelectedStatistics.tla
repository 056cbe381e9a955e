-------------------------- MODULE SelectedStatistics --------------------------
(***************************************************************************)
(* MedianInto, QuantileInto, TopKInto and BottomKInto with the quickselect *)
(* each of them runs: the one around the partition kernel where the tier   *)
(* has such a kernel, the scratch slice is long enough and the slice is    *)
(* not short, and otherwise the portable one, or no selection at all.      *)
(***************************************************************************)
EXTENDS OrderStatistics, SelectKth

CONSTANT SelectMinLen  \* selectMinLen

ASSUME MinLenAssumption == SelectMinLen \in Nat /\ SelectMinLen >= 3

VARIABLE accelerated  \* whether there is a kernel and enough scratch

statisticsVars == <<orderVars, accelerated, selectVars>>

UsesKernel == accelerated /\ Len(data) >= SelectMinLen

StatisticsInit ==
    /\ OrderInit
    /\ accelerated \in BOOLEAN
    /\ NotSelecting

\* TopKInto and BottomKInto have no portable selection.
SortsAll == Length = Len(data) \/ ~UsesKernel

\* The ways out that need no selection.
AtOnce ==
    /\ at = "idle"
    /\ ReturnNothing \/ (SortsAll /\ SortAll) \/ MedianShort
    /\ UNCHANGED <<call, passed, accelerated, selectVars>>

StartSelect ==
    /\ phase = "call" /\ at = "idle" /\ Selects
    /\ call.op \in {"TopK", "BottomK"} => ~SortsAll
    /\ IF UsesKernel THEN KernelCall(data, Target) ELSE PortableCall(data, Target)
    /\ UNCHANGED <<orderVars, accelerated>>

SelectTurn ==
    /\ IF UsesKernel THEN KernelTurn ELSE PortableTurn
    /\ UNCHANGED <<orderVars, accelerated>>

\* The selection was made in the caller's slice.
EndSelect ==
    /\ SelectReturns
    /\ data' = slice
    /\ phase' = "deliver"
    /\ UNCHANGED <<call, result, passed, accelerated>>

Deliver ==
    /\ DeliverStatistic \/ DeliverTopK \/ DeliverBottomK
    /\ UNCHANGED <<call, passed, accelerated, selectVars>>

StatisticsNext == AtOnce \/ StartSelect \/ SelectTurn \/ EndSelect \/ Deliver

StatisticsSpec == StatisticsInit /\ [][StatisticsNext]_statisticsVars /\ WF_statisticsVars(StatisticsNext)

-----------------------------------------------------------------------------
(* Properties.                                                             *)

\* Every variable has its type, and the caller's slice is only ever rearranged.
StatisticsTypeOK ==
    /\ OrderTypeOK
    /\ accelerated \in BOOLEAN
    /\ IF UsesKernel THEN KernelTypeOK ELSE PortableTypeOK

\* Neither select loses its place or runs out of its range, whichever the machine has: the
\* live window is fenced at every turn, holds the position asked for, and the scans of the
\* portable one leave each side what belongs there (sort.go:335-341, compare.go:154-170).
SelectInv ==
    /\ StatisticsTypeOK
    /\ UsesKernel => KernelFenced
    /\ ~UsesKernel => PortableFenced /\ ScanStaysInRange /\ ScannedSides

\* compare.go:185-300 and wrangle.go:7-8, 57: on every path, a median and a quantile come of
\* the values that the sorted slice has in that place and next to it, and the k largest in
\* descending, or smallest in ascending, order are the ends of it.
ResultsOfSorted == StatisticsOfSorted /\ EndsOfSorted

\* The operations need no more of a selection, and both selections give no less, than
\* OrderStatistics says: in one step, the k-th smallest at k, nothing greater before it and
\* nothing less after it, and no element lost; and every call returns, because each turn of
\* either select makes the window shorter or ends it.
ImplementsOrderStatistics == OrderSpec

=============================================================================
