---------------------------- MODULE CounterRandom ----------------------------
(***************************************************************************)
(* RandomInto (random.go, RandomU64 in internal/ref/ref.go), called by two *)
(* goroutines with one seed, each for its part of one slice, an element at *)
(* a time.                                                                 *)
(*                                                                         *)
(* splitmix64's finalizer is a bijection of the 64-bit words, so an        *)
(* element stands for the counter it is computed from: two elements are    *)
(* equal exactly when their counters are.                                  *)
(***************************************************************************)
EXTENDS Integers

CONSTANTS Modulus,  \* 2^64
          Gamma,    \* splitmixGamma
          Seeds,    \* the seeds the caller uses
          Length    \* len(dst) of the whole slice

VARIABLES dst,   \* the slice
          at,    \* each goroutine's index into its part
          cut,   \* where the second part begins
          seed   \* the seed both calls are given

randomVars == <<dst, at, cut, seed>>

Goroutines == {"first", "second"}
Unfilled == -1

\* What RandomInto(s, seed) puts at index i of s.
Element(i) == (seed + i * Gamma) % Modulus

From(w) == IF w = "first" THEN 0 ELSE cut
To(w) == IF w = "first" THEN cut ELSE Length

RandomInit ==
    /\ dst = [p \in 0 .. Length - 1 |-> Unfilled]
    /\ at = [w \in Goroutines |-> 0]
    /\ cut \in 0 .. Length
    /\ seed \in Seeds

\* One turn of a call's loop: the index is one of the part the call was given.
Fill(w) ==
    /\ From(w) + at[w] < To(w)
    /\ dst' = [dst EXCEPT ![From(w) + at[w]] = Element(at[w])]
    /\ at' = [at EXCEPT ![w] = @ + 1]
    /\ UNCHANGED <<cut, seed>>

RandomNext == \E w \in Goroutines : Fill(w)

RandomSpec == RandomInit /\ [][RandomNext]_randomVars

-----------------------------------------------------------------------------
(* Properties.                                                             *)

\* random.go:29-30: "Splittable. Two goroutines filling disjoint halves produce exactly what
\* one goroutine filling the whole would."
Splittable == \A p \in DOMAIN dst : dst[p] # Unfilled => dst[p] = Element(p)
=============================================================================
