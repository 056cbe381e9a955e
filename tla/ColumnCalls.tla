----------------------------- MODULE ColumnCalls -----------------------------
(***************************************************************************)
(* The functions that take one column or two and write another: varints,   *)
(* run lengths, LZ4 blocks, the sorted merge, the sorted sets, and rank    *)
(* and select.  They share no state, so a behaviour is one call of one of  *)
(* them, and every call has to come to an end.                             *)
(***************************************************************************)
EXTENDS VarintStream, RunLength, Lz4Block, SortedMerge, SortedSets, RankSelect

ColumnInit == VarintInit \/ RunsInit \/ BlockInit \/ MergeInit \/ SetsInit \/ RankInit

ColumnNext == VarintNext \/ RunsNext \/ BlockNext \/ MergeNext \/ SetsNext \/ RankNext

\* A call is not interrupted; its caller takes in what has arrived.
ColumnSpec == ColumnInit /\ [][ColumnNext]_vars /\ WF_vars(ColumnNext)

-----------------------------------------------------------------------------
(* Properties.                                                             *)

\* Every call returns: no turn of a loop leaves its cursors where they are, and the receiver
\* of varints stops asking when everything is here and nothing moves.
ColumnCallReturns == <>Returned
=============================================================================
