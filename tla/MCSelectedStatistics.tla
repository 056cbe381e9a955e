------------------------- MODULE MCSelectedStatistics -------------------------
(* Every slice of up to four values out of NaN, the two zeros and another   *)
(* number, of five out of three values, and orders of six different ones.   *)
EXTENDS SelectedStatistics, Functions

MCNumber == [negOne |-> -1, negZero |-> 0, posZero |-> 0, one |-> 1, two |-> 2, three |-> 3]
MCNaNs == {"NaN"}

Mixed == UNION {[1 .. n -> {"NaN", "negZero", "posZero", "one"}] : n \in 1 .. 4}
FewDistinct == [1 .. 5 -> {"NaN", "posZero", "one"}]
Distinct == {s \in [1 .. 6 -> {"NaN", "posZero", "negOne", "one", "two", "three"}] :
               s[1] = "posZero" /\ IsInjective(s)}
MCSlices == Mixed \union FewDistinct \union Distinct
=============================================================================
