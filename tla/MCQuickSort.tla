----------------------------- MODULE MCQuickSort -----------------------------
(* Every slice of up to four values out of NaN, the two zeros and two      *)
(* other numbers; of six out of three values, so that runs are extracted;  *)
(* and of six different ones, so that the depth runs out.                  *)
EXTENDS QuickSort

MCNumber == [negOne |-> -1, negZero |-> 0, posZero |-> 0, one |-> 1, two |-> 2, three |-> 3]
MCNaNs == {"NaN"}

Mixed == UNION {[1 .. n -> {"NaN", "negZero", "posZero", "negOne", "one"}] : n \in 0 .. 4}
FewDistinct == [1 .. 6 -> {"NaN", "posZero", "negOne"}]
Distinct == {s \in [1 .. 6 -> {"NaN", "posZero", "negOne", "one", "two", "three"}] : IsInjective(s)}
MCInputs == Mixed \union FewDistinct \union Distinct

\* Inputs for StackIsLogarithmic: four pairs of equal values, in any order.
MCPairs ==
    {s \in [1 .. 8 -> {"negOne", "posZero", "one", "two"}] :
        \A x \in {"negOne", "posZero", "one", "two"} : Cardinality(Keeping(s, {x})) = 2}
=============================================================================
