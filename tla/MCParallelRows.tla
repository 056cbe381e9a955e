--------------------------- MODULE MCParallelRows ---------------------------
(* ParallelRows on every small shape that the code treats differently.     *)
EXTENDS ParallelRows

CONSTANTS MaxRows, MaxProcs

\* Slices exactly as long as the dimensions ask for.
Fits(op, m, k, n, procs) ==
    [op |-> op, m |-> m, k |-> k, n |-> n, procs |-> procs,
     dst |-> IF m * n > 0 THEN m * n ELSE 0,
     a   |-> IF m * k > 0 THEN m * k ELSE 0,
     b   |-> IF k * n > 0 THEN k * n ELSE 0]

\* One slice an element short, or all of them empty.
Malformed(c) == {[c EXCEPT !.dst = @ - 1], [c EXCEPT !.a = @ - 1],
                 [c EXCEPT !.b = @ - 1], [c EXCEPT !.dst = 0, !.a = 0, !.b = 0]}

Shapes == {Fits("matmul", m, 2, 2, procs) : m \in 1 .. MaxRows, procs \in 1 .. MaxProcs}
    \cup {Fits("gemv", m, 2, 1, procs) : m \in 1 .. MaxRows, procs \in 1 .. MaxProcs}

\* Dimensions that are zero, or one of them negative: no product reaches the
\* threshold.
Degenerate == {Fits("matmul", 3, k, 2, 2) : k \in {0, -2}}
    \cup {Fits("matmul", m, 2, 2, 2) : m \in {0, -3}}

\* Two negative dimensions have a positive product.
TwoNegative == {Fits("matmul", 2, -2, -2, 2)}

MCCalls == Shapes \cup Degenerate \cup TwoNegative
                  \cup Malformed(Fits("matmul", 4, 2, 2, 2))
                  \cup Malformed(Fits("gemv", 4, 2, 1, 2))

=============================================================================
