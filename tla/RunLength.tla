------------------------------ MODULE RunLength ------------------------------
(***************************************************************************)
(* Run-length coding (rle.go): RunLengthEncodeInt32 writes the runs of a   *)
(* column, until it runs out of scratch or of room for them, and           *)
(* RunLengthDecodeInt32 expands what was written into a destination.       *)
(***************************************************************************)
EXTENDS Calls

CONSTANTS Encodings,   \* records: a, and the rooms scratch, vroom, lroom and dcap
          Expansions,  \* records: values, counts and dcap, from no encoder
          Splat        \* elements of one wide store, 8 in the code

ASSUME SplatAssumption == Splat \in Nat \ {0}
ASSUME RunsAssumption ==
    /\ Encodings \subseteq [a : Seq(Int), scratch : Nat, vroom : Nat, lroom : Nat, dcap : Nat]
    /\ Expansions \subseteq [values : Seq(Int), counts : Seq(Int), dcap : Nat]

Least2(x, y) == IF x < y THEN x ELSE y

Limit(args) == Least2(Len(args.a), args.scratch)

RunsInit ==
    \/ /\ \E impl \in Implementations, args \in Encodings :
            call = [op |-> "rle", impl |-> impl, raw |-> FALSE, args |-> args]
       /\ st = [pc |-> "encode", start |-> 0, i |-> 1, k |-> 1, c |-> 0, j |-> 0]
       /\ out = [values |-> <<>>, counts |-> <<>>, dst |-> <<>>]
    \/ /\ \E impl \in Implementations, args \in Expansions :
            call = [op |-> "rle", impl |-> impl, raw |-> TRUE, args |-> args]
       /\ st = [pc |-> "expand", start |-> 0, i |-> 1, k |-> 1, c |-> 0, j |-> 0]
       /\ out = [values |-> call.args.values, counts |-> call.args.counts, dst |-> <<>>]

-----------------------------------------------------------------------------
(* RunLengthEncodeInt32.                                                   *)

\* The mask the kernel writes into scratch: element i differs from the one before it.
RunStarts(i) == i = 0 \/ call.args.a[i + 1] # call.args.a[i]

\* No run ends before element st.i.
InsideRun ==
    /\ In("rle", "encode") /\ st.i < Limit(call.args) /\ ~RunStarts(st.i)
    /\ st' = [st EXCEPT !.i = @ + 1]
    /\ UNCHANGED <<call, out>>

RunEnds == st.i <= Limit(call.args) /\ (st.i < Limit(call.args) => RunStarts(st.i))
RunsFull == Len(out.values) >= call.args.vroom \/ Len(out.counts) >= call.args.lroom

\* Wrong on purpose: the room for values alone is looked at.
WriteRunUnchecked ==
    /\ In("rle", "encode") /\ RunEnds /\ Len(out.values) < call.args.vroom
    /\ out' = [out EXCEPT !.values = Append(@, call.args.a[st.start + 1]),
                          !.counts = IF Len(@) < call.args.lroom THEN Append(@, st.i - st.start) ELSE @]
    /\ st' = [st EXCEPT !.start = st.i, !.i = @ + 1]
    /\ UNCHANGED call

WriteRun ==
    /\ In("rle", "encode") /\ RunEnds /\ ~RunsFull
    /\ out' = [out EXCEPT !.values = Append(@, call.args.a[st.start + 1]),
                          !.counts = Append(@, st.i - st.start)]
    /\ st' = [st EXCEPT !.start = st.i, !.i = @ + 1]
    /\ UNCHANGED call

\* Every run is written, or there is no room for the next: the runs written are expanded.
EncodeEnd ==
    /\ In("rle", "encode")
    /\ st.i > Limit(call.args) \/ (RunEnds /\ RunsFull)
    /\ st' = [st EXCEPT !.pc = "expand"]
    /\ UNCHANGED <<call, out>>

-----------------------------------------------------------------------------
(* RunLengthDecodeInt32.                                                   *)

Pairs == Least2(Len(out.values), Len(out.counts))
WideStores == call.impl = "kernel" /\ Len(out.values) = Len(out.counts)

\* How much of the destination is left.
DstLeft == call.args.dcap - Len(out.dst)

SkipRun ==
    /\ In("rle", "expand") /\ st.k <= Pairs /\ DstLeft > 0
    /\ out.counts[st.k] <= 0
    /\ st' = [st EXCEPT !.k = @ + 1]
    /\ UNCHANGED <<call, out>>

\* The run's length, cut to what is left of the destination.
ExpandRun ==
    /\ In("rle", "expand") /\ st.k <= Pairs /\ DstLeft > 0
    /\ out.counts[st.k] > 0
    /\ st' = [st EXCEPT !.pc = "store", !.c = Least2(out.counts[st.k], DstLeft), !.j = 0]
    /\ UNCHANGED <<call, out>>

\* One store of the run's value into the next elements.
Store(width) ==
    /\ out' = [out EXCEPT !.dst = @ \o [x \in 1 .. width |-> out.values[st.k]]]
    /\ st' = [st EXCEPT !.j = @ + width]
    /\ UNCHANGED call

StoreWide ==
    /\ In("rle", "store") /\ WideStores /\ st.j + Splat <= st.c
    /\ Store(Splat)

StoreOne ==
    /\ In("rle", "store") /\ st.j < st.c
    /\ ~(WideStores /\ st.j + Splat <= st.c)
    /\ Store(1)

RunStored ==
    /\ In("rle", "store") /\ st.j >= st.c
    /\ st' = [st EXCEPT !.pc = "expand", !.k = @ + 1]
    /\ UNCHANGED <<call, out>>

ExpandEnd ==
    /\ In("rle", "expand") /\ (st.k > Pairs \/ DstLeft <= 0)
    /\ Return
    /\ UNCHANGED <<call, out>>

RunsNext ==
    \/ InsideRun \/ WriteRun \/ EncodeEnd
    \/ SkipRun \/ ExpandRun \/ StoreWide \/ StoreOne \/ RunStored \/ ExpandEnd

-----------------------------------------------------------------------------
(* Properties.                                                             *)

\* What the first m pairs of values and counts stand for.
Expanded(values, counts, m) ==
    LET f[k \in 0 .. m] ==
          IF k = 0 THEN <<>> ELSE f[k - 1] \o [x \in 1 .. counts[k] |-> values[k]]
    IN f[m]

Prefix(s, n) == SubSeq(s, 1, n)

\* rle.go:47-50, "It stops early if they are shorter, returning the number of runs
\* written": the runs written are whole runs of the column, no two of them mergeable, they
\* expand to the part of it they were taken from, and stop short for want of room alone;
\* what is expanded is all there is of that, or what the destination holds, and no store
\* goes past either.
RunsRoundTrip ==
    call.op = "rle" =>
    /\ ~call.raw =>
         /\ Len(out.values) = Len(out.counts)
         /\ Expanded(out.values, out.counts, Pairs) = Prefix(call.args.a, st.start)
         /\ \A k \in 1 .. Pairs : out.counts[k] > 0 /\ (k > 1 => out.values[k] # out.values[k - 1])
         /\ Len(out.values) <= call.args.vroom /\ Len(out.counts) <= call.args.lroom
         /\ st.pc # "encode" /\ st.start < Limit(call.args) =>
              Pairs = Least2(call.args.vroom, call.args.lroom)
    /\ LET whole == Expanded(out.values, out.counts, Pairs)
       IN /\ Len(out.dst) <= call.args.dcap
          /\ Len(out.dst) <= Len(whole) /\ out.dst = Prefix(whole, Len(out.dst))
          /\ Returned => Len(out.dst) = Least2(call.args.dcap, Len(whole))
=============================================================================
