------------------------------ MODULE MCDispatch ------------------------------
(* Every machine and environment; three goroutines where amd64's avx512 is  *)
(* in use.  The reference has Exp and Sum but no Partition, as sort.go and  *)
(* compare.go test; the tier in use has Sum and Partition but no Exp; no    *)
(* one has a Div for this element type; one tier has no table.              *)
EXTENDS Dispatch, TLC

CONSTANTS g1, g2, g3

MCGoroutines == {g1, g2, g3}
MCFields == {"Exp", "Sum", "Partition", "Div"}
MCKernels == {"refExp", "refSum", "sse2Exp", "sse2Sum", "avx512Sum", "avx512Partition"}
None == [f \in MCFields |-> "nil"]
MCBase == [None EXCEPT !["Exp"] = "refExp", !["Sum"] = "refSum"]
MCPartial ==
    (1 :> [None EXCEPT !["Exp"] = "sse2Exp", !["Sum"] = "sse2Sum"])
      @@ (3 :> [None EXCEPT !["Sum"] = "avx512Sum", !["Partition"] = "avx512Partition"])
=============================================================================
