------------------------------- MODULE NaryFold -------------------------------
(***************************************************************************)
(* AddAll and MulAll (nary.go): naryFold, one kernel call at a time.       *)
(*                                                                         *)
(* The operation is not associative, so a value is written as the term     *)
(* that computes it, in prefix notation: Op stands for the operation, j    *)
(* for an element of the j-th source, Old for what dst held before the     *)
(* call.  Two terms are the same bits for every input exactly when they    *)
(* are equal.  A source may be dst itself.                                 *)
(***************************************************************************)
EXTENDS Integers, Sequences

CONSTANT Calls  \* records: dlen = len(dst) and srcs, the sources' lengths and whether they are dst

Op == 0
Old == -1
Identity == -2

ASSUME CallsAssumption ==
    \A c \in Calls : /\ c.dlen \in Nat
                     /\ c.srcs \in Seq([len : Nat, dst : BOOLEAN])

VARIABLES call,    \* the arguments; never assigned
          dst,
          used,    \* how many sources have been folded into dst
          passes,  \* how many kernels have been called
          group    \* the next group, "first" or "rest", or "returned"

foldVars == <<call, dst, used, passes, group>>

srcs == call.srcs
Indices == 0 .. call.dlen - 1

FoldInit ==
    /\ call \in Calls
    /\ dst = [i \in 0 .. call.dlen - 1 |-> <<Old>>]
    /\ used = 0 /\ passes = 0
    /\ group = "first"

-----------------------------------------------------------------------------
(* The kernels, each bounded by its shortest operand.                      *)

Apply(x, y) == <<Op>> \o x \o y

\* Element i of source j, and of dst as an operand.
Elem(j, i) == IF srcs[j].dst THEN dst[i] ELSE <<j>>
Reaches(J, i) == \A j \in J : i < srcs[j].len

Two(i, j) == Apply(dst[i], Elem(j, i))
Three(i, j) == Apply(Two(i, j), Elem(j + 1, i))
Four(i, j) == Apply(Three(i, j), Elem(j + 2, i))

\* The first group has no dst among its operands.
FirstTwo(i) == Apply(Elem(1, i), Elem(2, i))
FirstThree(i) == Apply(FirstTwo(i), Elem(3, i))
FirstFour(i) == Apply(FirstThree(i), Elem(4, i))

Write(J, Value(_)) ==
    /\ dst' = [i \in Indices |-> IF Reaches(J, i) THEN Value(i) ELSE dst[i]]
    /\ passes' = passes + 1

-----------------------------------------------------------------------------

NoSources ==
    /\ group = "first" /\ Len(srcs) = 0
    /\ dst' = [i \in Indices |-> <<Identity>>]
    /\ group' = "returned"
    /\ UNCHANGED <<call, used, passes>>

Copy ==
    /\ group = "first" /\ Len(srcs) = 1
    /\ dst' = [i \in Indices |-> IF Reaches({1}, i) THEN Elem(1, i) ELSE dst[i]]
    /\ used' = 1
    /\ group' = "returned"
    /\ UNCHANGED <<call, passes>>

\* Wrong on purpose: the fourth source does not bound the first group.
FirstGroupUnbounded ==
    /\ group = "first"
    /\ \/ Len(srcs) = 2 /\ Write(1 .. 2, FirstTwo) /\ used' = 2
       \/ Len(srcs) = 3 /\ Write(1 .. 3, FirstThree) /\ used' = 3
       \/ Len(srcs) >= 4 /\ Write(1 .. 3, FirstFour) /\ used' = 4
    /\ group' = IF Len(srcs) <= 4 THEN "returned" ELSE "rest"
    /\ UNCHANGED call

FirstGroup ==
    /\ group = "first"
    /\ \/ Len(srcs) = 2 /\ Write(1 .. 2, FirstTwo) /\ used' = 2
       \/ Len(srcs) = 3 /\ Write(1 .. 3, FirstThree) /\ used' = 3
       \/ Len(srcs) >= 4 /\ Write(1 .. 4, FirstFour) /\ used' = 4
    /\ group' = IF Len(srcs) <= 4 THEN "returned" ELSE "rest"
    /\ UNCHANGED call

Rest == Len(srcs) - used

ThreeMore ==
    /\ group = "rest" /\ Rest >= 3
    /\ Write(used + 1 .. used + 3, LAMBDA i : Four(i, used + 1))
    /\ used' = used + 3
    /\ UNCHANGED <<call, group>>

\* Wrong on purpose: the last two sources are added to each other first.
LastGroupRegrouped ==
    /\ group = "rest" /\ Rest < 3
    /\ \/ Rest = 2 /\ Write(used + 1 .. used + 2,
                            LAMBDA i : Apply(dst[i], Apply(Elem(used + 1, i), Elem(used + 2, i))))
       \/ Rest = 1 /\ Write({used + 1}, LAMBDA i : Two(i, used + 1))
       \/ Rest = 0 /\ UNCHANGED <<dst, passes>>
    /\ used' = Len(srcs)
    /\ group' = "returned"
    /\ UNCHANGED call

LastGroup ==
    /\ group = "rest" /\ Rest < 3
    /\ \/ Rest = 2 /\ Write(used + 1 .. used + 2, LAMBDA i : Three(i, used + 1))
       \/ Rest = 1 /\ Write({used + 1}, LAMBDA i : Two(i, used + 1))
       \/ Rest = 0 /\ UNCHANGED <<dst, passes>>
    /\ used' = Len(srcs)
    /\ group' = "returned"
    /\ UNCHANGED call

FoldNext == NoSources \/ Copy \/ FirstGroup \/ ThreeMore \/ LastGroup

FoldSpec == FoldInit /\ [][FoldNext]_foldVars

-----------------------------------------------------------------------------
(* Properties.                                                             *)

Terms == Seq(-2 .. Len(srcs))

\* Every variable has its type, and no more sources are folded than there are.
FoldTypeOK ==
    /\ call \in Calls
    /\ dst \in [Indices -> Terms]
    /\ used \in 0 .. Len(srcs)
    /\ passes \in Nat
    /\ group \in {"first", "rest", "returned"}

\* What source j holds before the call.
Given(j) == IF srcs[j].dst THEN Old ELSE j

\* The first n sources combined from left to right: n - 1 operations, then the operands.
Left(n) == [x \in 1 .. 2 * n - 1 |-> IF x < n THEN Op ELSE Given(x - n + 1)]

\* naryFold reads a source of a later group after it has written dst.
ReadsWhatItWrote == \E j \in 5 .. Len(srcs) : srcs[j].dst

\* nary.go:57-60 and 62: element for element the answer is the one of the binary calls
\* from left to right, of what the sources held before the call, as far as the shortest
\* slice goes.  dst may be one of the first four sources.
LeftToRight ==
    ~ReadsWhatItWrote =>
      \A i \in Indices : used > 0 /\ Reaches(1 .. Len(srcs), i) => dst[i] = Left(used)

\* nary.go:104-111: three sources are folded by every call after the first, and dst is
\* passed over no more often than that takes.
PassesAreThirds ==
    group = "returned" /\ Len(srcs) >= 2 => passes = (Len(srcs) + 1) \div 3

\* nary.go:62: "The work is bounded by the shortest slice, dst included".
BoundedByShortest ==
    \A i \in Indices : Len(srcs) > 0 /\ ~Reaches(1 .. Len(srcs), i) => dst[i] = <<Old>>

\* Of up to four sources it is true: one kernel call sees them all.
FourBoundedByShortest == Len(srcs) <= 4 => BoundedByShortest

\* nary.go:65-66: "a sixteen-way sum is four passes rather than fifteen".
SixteenInFour == group = "returned" /\ Len(srcs) = 16 => passes = 4
=============================================================================
