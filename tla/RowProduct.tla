----------------------------- MODULE RowProduct -----------------------------
(***************************************************************************)
(* What one row-wise linear-algebra call computes: MatMulInto (dst is m*n, *)
(* a is m*k, b is k*n) and GemvInto (dst is m, a is m*k, x is k), which is *)
(* the same shape with n = 1.                                              *)
(*                                                                         *)
(* All the columns of an output row see the same terms in the same order,  *)
(* so a row's value is the list of the terms p that were accumulated into  *)
(* it, oldest first.  Floating-point addition is not associative: two rows *)
(* hold the same bits for every input exactly when their lists are equal.  *)
(* The term -1 stands for what the destination held before the call.       *)
(***************************************************************************)
EXTENDS Integers, Sequences

\* A call: its name, its dimensions, the lengths of its three slices (the
\* third is b, or x for gemv) and the value runtime.GOMAXPROCS(0) returns.
Call == [op : {"matmul", "gemv"}, m : Int, k : Int, n : Int,
         dst : Nat, a : Nat, b : Nat, procs : Nat \ {0}]

Rows(c) == 0 .. c.m - 1

Old == <<-1>>

\* The terms 0, ..., p-1 in ascending order.
Upto(p) == [q \in 1 .. p |-> q - 1]

\* len(dst) < m*n || len(a) < m*k || len(b) < k*n, for the given row count.
Short(c, dst, a, b, rows) == dst < rows * c.n \/ a < rows * c.k \/ b < c.k * c.n

\* The kernel acts at all only on positive dimensions and long enough slices.
Sized(c, dst, a, b, rows) ==
    rows > 0 /\ c.k > 0 /\ c.n > 0 /\ ~Short(c, dst, a, b, rows)

\* The destination after the serial call.
Product(c) ==
    [i \in Rows(c) |-> IF Sized(c, c.dst, c.a, c.b, c.m) THEN Upto(c.k) ELSE Old]
=============================================================================
