------------------------------ MODULE MCNaryFold ------------------------------
(* Up to ten sources, in every one of which: all as long as dst or one of   *)
(* them shorter, and none of them dst or one of them.                       *)
EXTENDS NaryFold

MaxSources == 10

Sources(n, short, shared) ==
    [j \in 1 .. n |-> [len |-> IF j = short THEN 1 ELSE 3, dst |-> j = shared]]

MCCalls ==
    [dlen : {2}, srcs : {Sources(n, short, shared) :
                           n \in 0 .. MaxSources, short \in 0 .. MaxSources, shared \in 0 .. MaxSources}]
      \union [dlen : {0}, srcs : {Sources(n, 0, 0) : n \in 0 .. MaxSources}]

\* Calls for SixteenInFour.
MCSixteen == [dlen : {2}, srcs : {Sources(16, short, 0) : short \in 0 .. 16}]
=============================================================================
