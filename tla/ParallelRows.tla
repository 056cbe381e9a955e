---------------------------- MODULE ParallelRows ----------------------------
(***************************************************************************)
(* MatMulParallelInto and GemvParallelInto (parallel.go): the caller       *)
(* splits the output rows into blocks, starts one goroutine per block and  *)
(* waits for them on a sync.WaitGroup; each goroutine runs the serial      *)
(* kernel (internal/ref/compare.go) on its slices of dst and a.            *)
(*                                                                         *)
(* A goroutine is identified by the first row of its block.  The serial    *)
(* path runs the same kernel in the caller, as the worker Main.            *)
(* Integers are unbounded: the int products m*n, m*k and k*n are taken not *)
(* to wrap.                                                                *)
(***************************************************************************)
EXTENDS RowProduct, FiniteSets

CONSTANTS Calls,          \* the calls a caller may make
          MatMulMinWork,  \* matMulParallelMinWork
          GemvMinWork     \* gemvParallelMinWork

ASSUME CallsAssumption == Calls \subseteq Call
ASSUME MinWorkAssumption == MatMulMinWork \in Nat \ {0} /\ GemvMinWork \in Nat \ {0}

VARIABLES call,   \* the arguments; never assigned
          pc,     \* where the caller is
          r0,     \* the caller's loop variable
          wg,     \* the WaitGroup's counter
          work,   \* the state of each worker
          dst     \* the destination's rows

vars == <<call, pc, r0, wg, work, dst>>

Main == -1
Workers == {Main} \cup Rows(call)
Lo(w) == IF w = Main THEN 0 ELSE w

Smaller(x, y) == IF x < y THEN x ELSE y

-----------------------------------------------------------------------------
(* The caller.                                                             *)

MinWork(c) == IF c.op = "matmul" THEN MatMulMinWork ELSE GemvMinWork

NumWorkers(c) == Smaller(c.procs, c.m)

\* Wrong on purpose: the slice lengths are left to the kernel.
SplitsUnchecked(c) == NumWorkers(c) >= 2 /\ c.m * c.n * c.k >= MinWork(c)

\* The call is worth splitting and its slices are long enough to be split.
Splits(c) ==
    /\ NumWorkers(c) >= 2
    /\ c.m * c.n * c.k >= MinWork(c)
    /\ ~Short(c, c.dst, c.a, c.b, c.m)

\* Wrong on purpose: rows per block rounded down.
RowsPerFloor(c) == c.m \div NumWorkers(c)

RowsPer(c) == (c.m + NumWorkers(c) - 1) \div NumWorkers(c)

\* Wrong on purpose: the end taken to be inclusive; the
\* last row forgotten.
BlockEndInclusive(r) == Smaller(r + RowsPer(call) + 1, call.m)
BlockEndShort(r) == Smaller(r + RowsPer(call), call.m - 1)

\* The end of the block that starts at row r.
BlockEnd(r) == Smaller(r + RowsPer(call), call.m)

\* A worker that has not been started, and one about to run rows lo .. hi-1.
NotStarted == [at |-> "none", hi |-> 0, i |-> 0, p |-> 0]
Ready(lo, hi) == [at |-> "ready", hi |-> hi, i |-> lo, p |-> 0]

Init ==
    /\ call \in Calls
    /\ pc = "start"
    /\ r0 = 0
    /\ wg = 0
    /\ work = [w \in Workers |-> NotStarted]
    /\ dst = [i \in Rows(call) |-> Old]

\* A malformed or small call is handed over whole to the serial kernel.
Decide ==
    /\ pc = "start"
    /\ IF Splits(call)
         THEN pc' = "spawn" /\ UNCHANGED work
         ELSE /\ pc' = "serial"
              /\ work' = [work EXCEPT ![Main] = Ready(0, call.m)]
    /\ UNCHANGED <<call, r0, wg, dst>>

\* wg.Add(1) and the go statement.
Spawn ==
    /\ pc = "spawn"
    /\ r0 < call.m
    /\ wg' = wg + 1
    /\ work' = [work EXCEPT ![r0] = Ready(r0, BlockEnd(r0))]
    /\ r0' = r0 + RowsPer(call)
    /\ UNCHANGED <<call, pc, dst>>

AllSpawned ==
    /\ pc = "spawn"
    /\ r0 >= call.m
    /\ pc' = "wait"
    /\ UNCHANGED <<call, r0, wg, work, dst>>

\* Wrong on purpose: the caller does not wait.
WaitForNobody ==
    /\ pc = "wait"
    /\ pc' = "returned"
    /\ UNCHANGED <<call, r0, wg, work, dst>>

\* wg.Wait() returns only when the counter is zero.
Wait ==
    /\ pc = "wait"
    /\ wg = 0
    /\ pc' = "returned"
    /\ UNCHANGED <<call, r0, wg, work, dst>>

-----------------------------------------------------------------------------
(* A worker: the slice expressions, then the kernel, then wg.Done().       *)

\* Only a crash stops a goroutine; one the caller did not wait for runs on.
Running == pc # "crashed"

\* s[lo:hi] panics unless 0 <= lo <= hi <= cap(s); here cap(s) is len(s).
SliceOK(lo, hi, len) == 0 <= lo /\ lo <= hi /\ hi <= len

\* dst[r0*n:r1*n] and a[r0*k:r1*k]; the serial call slices nothing.
SlicesOK(w) ==
    w = Main \/ /\ SliceOK(w * call.n, work[w].hi * call.n, call.dst)
                /\ SliceOK(w * call.k, work[w].hi * call.k, call.a)

\* The size test at the top of the kernel, on the slices it was handed.
KernelActs(w) ==
    IF w = Main
      THEN Sized(call, call.dst, call.a, call.b, call.m)
      ELSE LET rows == work[w].hi - w
           IN  Sized(call, rows * call.n, rows * call.k, call.b, rows)

FirstStep == IF call.op = "matmul" THEN "zero" ELSE "dot"

Begin(w) ==
    /\ work[w].at = "ready"
    /\ SlicesOK(w)
    /\ work' = [work EXCEPT ![w].at = IF KernelActs(w) THEN FirstStep ELSE "exit"]
    /\ UNCHANGED <<call, pc, r0, wg, dst>>

\* A panic in a goroutine that nothing recovers ends the program.
Panic(w) ==
    /\ work[w].at = "ready"
    /\ ~SlicesOK(w)
    /\ pc' = "crashed"
    /\ UNCHANGED <<call, r0, wg, work, dst>>

LastRow(w) == work[w].i + 1 = work[w].hi

\* matMul clears its whole destination before it accumulates anything.
Zero(w) ==
    /\ work[w].at = "zero"
    /\ dst' = [dst EXCEPT ![work[w].i] = <<>>]
    /\ work' = [work EXCEPT ![w] =
                  IF LastRow(w) THEN [work[w] EXCEPT !.at = "mul", !.i = Lo(w)]
                                ELSE [work[w] EXCEPT !.i = work[w].i + 1]]
    /\ UNCHANGED <<call, pc, r0, wg>>

\* One pass of the p loop: term p is added to every column of row i.
MulAdd(w) ==
    /\ work[w].at = "mul"
    /\ dst' = [dst EXCEPT ![work[w].i] = Append(dst[work[w].i], work[w].p)]
    /\ work' = [work EXCEPT ![w] =
                  IF work[w].p + 1 < call.k THEN [work[w] EXCEPT !.p = work[w].p + 1]
                  ELSE IF LastRow(w) THEN [work[w] EXCEPT !.at = "exit"]
                  ELSE [work[w] EXCEPT !.i = work[w].i + 1, !.p = 0]]
    /\ UNCHANGED <<call, pc, r0, wg>>

\* gemv assigns each element the finished dot product of its row.
Dot(w) ==
    /\ work[w].at = "dot"
    /\ dst' = [dst EXCEPT ![work[w].i] = Upto(call.k)]
    /\ work' = [work EXCEPT ![w] =
                  IF LastRow(w) THEN [work[w] EXCEPT !.at = "exit"]
                                ELSE [work[w] EXCEPT !.i = work[w].i + 1]]
    /\ UNCHANGED <<call, pc, r0, wg>>

\* The deferred wg.Done() of a goroutine; the serial call just returns.
Exit(w) ==
    /\ work[w].at = "exit"
    /\ work' = [work EXCEPT ![w].at = "done"]
    /\ IF w = Main THEN pc' = "returned" /\ UNCHANGED wg
                   ELSE wg' = wg - 1 /\ UNCHANGED pc
    /\ UNCHANGED <<call, r0, dst>>

Caller == Decide \/ Spawn \/ AllSpawned \/ Wait

Worker(w) == Running /\ (Begin(w) \/ Panic(w) \/ Zero(w) \/ MulAdd(w) \/ Dot(w) \/ Exit(w))

\* The call is over: it has returned, or the program has died.
Finished == pc \in {"returned", "crashed"} /\ UNCHANGED vars

Next == Caller \/ (\E w \in Workers : Worker(w)) \/ Finished

\* The Go scheduler runs every runnable goroutine eventually.
AnyWorker == {Main} \cup UNION {Rows(c) : c \in Calls}
Fairness == WF_vars(Caller) /\ \A w \in AnyWorker : WF_vars(w \in Workers /\ Worker(w))

Spec == Init /\ [][Next]_vars /\ Fairness

-----------------------------------------------------------------------------
(* Properties.                                                             *)

WorkerState == [at : {"none", "ready", "zero", "mul", "dot", "exit", "done"},
                hi : Int, i : Int, p : Int]

\* Every variable has its type; in particular the WaitGroup's counter never
\* goes negative, which sync.WaitGroup answers with a panic.
TypeOK ==
    /\ call \in Calls
    /\ pc \in {"start", "spawn", "wait", "serial", "returned", "crashed"}
    /\ r0 \in Nat
    /\ wg \in Nat
    /\ work \in [Workers -> WorkerState]
    /\ dst \in [Rows(call) -> Seq(Int)]

Started == {w \in Workers : work[w].at # "none"}
Live == {w \in Workers : work[w].at \notin {"none", "done"}}

Block(w) == Lo(w) .. work[w].hi - 1

\* No output row is ever within reach of two workers that have not finished:
\* the row split of parallel.go:79-88 is what makes unsynchronised writes to
\* dst race-free, for every row count and every GOMAXPROCS.
NoSharedRow ==
    \A v, w \in Live : v # w => Block(v) \cap Block(w) = {}

\* "It uses up to GOMAXPROCS goroutines" (parallel.go:53), however the rounding
\* of rowsPer falls.
AtMostProcs == Cardinality(Started) <= call.procs

\* The WaitGroup counts exactly the goroutines that have not called Done, so
\* Wait can neither return early nor wait for a goroutine that never existed.
WaitGroupCounts == wg = Cardinality(Live \ {Main})

\* When the call returns the destination is the serial call's, bit for bit, and
\* a call the serial kernel ignores has changed nothing (parallel.go:49-51).
ReturnsProduct == pc = "returned" => dst = Product(call)

\* Nothing writes to the destination after the call has returned.
NoLateWrite == [][pc = "returned" => UNCHANGED dst]_vars

\* The caller's view is the serial call's: nothing, then the whole result, in
\* the end, unless k and n are both negative.
Serial == INSTANCE SerialCall WITH
            returned <- pc = "returned",
            result   <- IF pc = "returned" THEN dst ELSE [i \in Rows(call) |-> Old]

ImplementsSerialCall == Serial!Spec

\* The checks of parallel.go:67-68 leave the workers nothing to panic about,
\* whatever the slice lengths, unless k and n are both negative.
OnlyNegativesPanic == pc = "crashed" => call.k < 0 /\ call.n < 0

\* parallel.go:69-74: a call the serial kernel would ignore must not raise "any
\* future panic ... inside a worker where it would take the program down".
NoWorkerPanic == pc # "crashed"

-----------------------------------------------------------------------------
(* The inductive invariant behind the safety properties.                   *)

TypeInv ==
    /\ call \in Calls
    /\ pc \in {"start", "spawn", "wait", "serial", "returned", "crashed"}
    /\ r0 \in Nat
    /\ wg \in Int
    /\ work \in [Workers -> WorkerState]
    /\ dst \in [Rows(call) -> Seq(Int)]

\* Either the caller runs the kernel itself, or the call may be split.
PhaseInv ==
    /\ pc \in {"start", "serial"} => r0 = 0
    /\ pc = "start" => Started = {}
    /\ pc = "serial" => work[Main].at \notin {"none", "done"}
    /\ pc \in {"spawn", "wait", "crashed"} => Splits(call) /\ Main \notin Started
    /\ Main \in Started => r0 = 0 /\ work[Main].hi = call.m
    /\ pc = "returned" =>
         \/ work[Main].at = "done"
         \/ /\ Splits(call) /\ Main \notin Started
            /\ \A r \in Rows(call) : r < r0
            /\ Live = {}
    /\ pc = "wait" => \A r \in Rows(call) : r < r0

\* The blocks started so far lie one after the other below r0 and leave no gap.
BlockInv ==
    /\ \A w \in Started \ {Main} :
         Splits(call) /\ w < work[w].hi /\ work[w].hi <= call.m /\ work[w].hi <= r0
    /\ \A v, w \in Started \ {Main} : v < w => work[v].hi <= w
    /\ \A r \in Rows(call) : r < r0 => \E w \in Started \ {Main} : r \in Block(w)

\* How far the kernel of worker w has come.
KernelOK(w) ==
    /\ work[w].at \in {"zero", "mul", "dot"} =>
         KernelActs(w) /\ work[w].i \in Block(w) /\ work[w].p \in 0 .. call.k - 1
    /\ work[w].at \in {"ready", "zero", "dot"} => work[w].p = 0
    /\ work[w].at = "ready" => work[w].i = Lo(w)
    /\ work[w].at \in {"exit", "done"} /\ w # Main => KernelActs(w)

KernelInv == \A w \in Started : KernelOK(w)

\* What worker w has left in row i of its block.
RowOf(w, i) ==
    CASE work[w].at = "ready" -> Old
      [] work[w].at = "zero"  -> IF i < work[w].i THEN <<>> ELSE Old
      [] work[w].at = "mul"   -> IF i < work[w].i THEN Upto(call.k)
                                 ELSE IF i = work[w].i THEN Upto(work[w].p) ELSE <<>>
      [] work[w].at = "dot"   -> IF i < work[w].i THEN Upto(call.k) ELSE Old
      [] OTHER                -> IF KernelActs(w) THEN Upto(call.k) ELSE Old

RowInv ==
    /\ \A w \in Started : \A i \in Block(w) : dst[i] = RowOf(w, i)
    /\ \A i \in Rows(call) : (\A w \in Started : i \notin Block(w)) => dst[i] = Old

CountInv == wg = Cardinality(Live \ {Main})

\* The reachable states as far as the properties above need them: which blocks
\* exist, how far each kernel is, and so what every row holds.
IndInv == TypeInv /\ PhaseInv /\ BlockInv /\ KernelInv /\ RowInv /\ CountInv
=============================================================================
