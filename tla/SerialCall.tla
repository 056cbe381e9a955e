----------------------------- MODULE SerialCall -----------------------------
(***************************************************************************)
(* What a caller of MatMulParallelInto or GemvParallelInto may rely on:    *)
(* the call returns once, and the destination then holds what the serial   *)
(* call would have left there.  Nobody may look at it in between.          *)
(***************************************************************************)
EXTENDS RowProduct

CONSTANT Calls

VARIABLES call, returned, result

vars == <<call, returned, result>>

Init ==
    /\ call \in Calls
    /\ returned = FALSE
    /\ result = [i \in Rows(call) |-> Old]

Run ==
    /\ ~returned
    /\ returned' = TRUE
    /\ result' = Product(call)
    /\ UNCHANGED call

\* Two negative dimensions hide from the length checks behind their product;
\* such a call may end the program and is not promised to return.
Promised == call.k >= 0 \/ call.n >= 0

Spec == Init /\ [][Run]_vars /\ WF_vars(Promised /\ Run)
=============================================================================
