------------------------------- MODULE Ordered -------------------------------
(***************************************************************************)
(* What several modules pick out in order: the members of a set of         *)
(* numbers, and the elements of a list.                                    *)
(***************************************************************************)
EXTENDS Integers, Sequences, FiniteSets

\* How many of S are no greater than p.
Place(S, p) == Cardinality({q \in S : q <= p})

\* The x-th of S, from the least.
Nth(S, x) == CHOOSE p \in S : Place(S, p) = x

\* Where the elements of s are that are in P, and those elements, in the order of s.
Keeping(s, P) == {k \in DOMAIN s : s[k] \in P}
Kept(s, P) == [x \in 1 .. Cardinality(Keeping(s, P)) |-> s[Nth(Keeping(s, P), x)]]
=============================================================================
