------------------------- MODULE ParallelRowsProofs -------------------------
(* Proofs of the safety properties of ParallelRows, for every set of calls *)
(* and every threshold.                                                    *)
EXTENDS ParallelRows, FiniteSetTheorems, TLAPS

-----------------------------------------------------------------------------
(* Arithmetic.                                                             *)

\* Multiplying by a non-negative number keeps an order.
LEMMA TimesKeepsOrder ==
    ASSUME NEW x \in Int, NEW y \in Int, NEW z \in Nat, x <= y
    PROVE  x * z <= y * z
  OBVIOUS

\* The rounded-up quotient is at least one.
LEMMA RowsPerPositive ==
    ASSUME NEW c \in Call, NumWorkers(c) >= 1
    PROVE  RowsPer(c) \in Nat /\ RowsPer(c) >= 1
<1>1. NumWorkers(c) \in Nat /\ c.m \in Int /\ c.m >= NumWorkers(c)
  BY DEF NumWorkers, Smaller, Call
<1>2. DEFINE q == NumWorkers(c)
             x == c.m + q - 1
<1>3. q \in Nat /\ q >= 1 /\ x \in Nat /\ x >= q
  BY <1>1
<1>4. x \div q \in Nat /\ x \div q >= 1
  <2>. HIDE DEF q, x
  <2>. QED BY <1>3
<1>. QED BY <1>4 DEF RowsPer

\* A call that is split has two rows or more, and its inner dimensions have the
\* same sign.
LEMMA SplitsFacts ==
    ASSUME NEW c \in Calls, Splits(c)
    PROVE  /\ c.m >= 2
           /\ RowsPer(c) \in Nat /\ RowsPer(c) >= 1
           /\ c.m * c.n <= c.dst /\ c.m * c.k <= c.a /\ c.k * c.n <= c.b
           /\ (c.k > 0 /\ c.n > 0) \/ (c.k < 0 /\ c.n < 0)
<1>1. c \in Call /\ c.m \in Int /\ c.k \in Int /\ c.n \in Int
  BY CallsAssumption DEF Call
<1>2. c.m >= 2
  BY <1>1 DEF Splits, NumWorkers, Smaller, Call
<1>3. RowsPer(c) \in Nat /\ RowsPer(c) >= 1
  <2>1. NumWorkers(c) >= 1
    BY <1>1 DEF Splits, NumWorkers, Smaller, Call
  <2>. QED BY <1>1, <2>1, RowsPerPositive
<1>4. c.m * c.n <= c.dst /\ c.m * c.k <= c.a /\ c.k * c.n <= c.b
  BY <1>1 DEF Splits, Short, Call
<1>5. (c.k > 0 /\ c.n > 0) \/ (c.k < 0 /\ c.n < 0)
  <2>1. c.m * c.n * c.k > 0
    BY <1>1, MinWorkAssumption DEF Splits, MinWork
  <2>. QED BY <1>1, <1>2, <2>1
<1>. QED BY <1>2, <1>3, <1>4, <1>5
-----------------------------------------------------------------------------
(* The steps that only read their own worker.                              *)

USE DEF WorkerState, NotStarted, Ready, Workers, Main, Rows, Lo

LEMMA InitInv == Init => IndInv
<1>. SUFFICES ASSUME Init PROVE IndInv
  OBVIOUS
<1>1. Started = {} /\ Live = {}
  BY DEF Init, Started, Live
<1>2. call \in Call /\ Old \in Seq(Int)
  BY CallsAssumption DEF Init, Old
<1>3. TypeInv
  BY <1>2 DEF TypeInv, Init
<1>4. PhaseInv /\ BlockInv /\ KernelInv
  BY <1>1, <1>2 DEF Init, PhaseInv, BlockInv, KernelInv
<1>5. RowInv
  BY <1>1 DEF RowInv, Init
<1>6. CountInv
  BY <1>1, FS_EmptySet DEF CountInv, Init
<1>. QED BY <1>3, <1>4, <1>5, <1>6 DEF IndInv

LEMMA DecideInv == IndInv /\ Decide => IndInv'
<1>. SUFFICES ASSUME IndInv, Decide PROVE IndInv'
  OBVIOUS
<1>1. call \in Call /\ call' = call /\ r0' = r0 /\ wg' = wg /\ dst' = dst /\ r0 = 0
  BY CallsAssumption DEF IndInv, TypeInv, PhaseInv, Decide
<1>2. work' \in [Workers -> WorkerState] => TypeInv'
  BY <1>1 DEF IndInv, TypeInv, Decide
<1>3. Started = {} /\ Live = {}
  BY DEF IndInv, PhaseInv, Decide, Live, Started
<1>4. CASE Splits(call)
  <2>1. pc' = "spawn" /\ work' = work
    BY <1>4 DEF Decide
  <2>2. Started' = {} /\ Live' = {}
    BY <1>1, <1>3, <2>1 DEF Started, Live
  <2>3. PhaseInv'
    BY <1>1, <2>1, <2>2, <1>4 DEF PhaseInv, Splits
  <2>4. BlockInv' /\ KernelInv'
    BY <1>1, <2>2 DEF BlockInv, KernelInv, Call
  <2>5. RowInv' /\ CountInv'
    BY <1>1, <1>3, <2>2 DEF IndInv, RowInv, CountInv
  <2>. QED BY <1>2, <2>1, <2>3, <2>4, <2>5 DEF IndInv, TypeInv
<1>5. CASE ~Splits(call)
  <2>1. pc' = "serial" /\ work' = [work EXCEPT ![Main] = Ready(0, call.m)]
    BY <1>5 DEF Decide
  <2>2. Started' = {Main} /\ Live' = {Main}
    BY <1>1, <1>3, <2>1 DEF Started, Live, IndInv, TypeInv
  <2>3. work'[Main] = Ready(0, call.m)
    BY <2>1 DEF IndInv, TypeInv
  <2>4. PhaseInv'
    BY <1>1, <2>1, <2>2, <2>3 DEF PhaseInv
  <2>5. BlockInv' /\ KernelInv'
    BY <1>1, <2>2, <2>3 DEF BlockInv, KernelInv, KernelOK, Call
  <2>6. RowInv'
    <3>1. \A i \in Rows(call) : dst[i] = Old
      BY <1>3 DEF IndInv, RowInv
    <3>2. \A i \in Block(Main)' : RowOf(Main, i)' = Old /\ i \in Rows(call)
      BY <1>1, <2>3 DEF RowOf, Block
    <3>. QED BY <1>1, <2>2, <3>1, <3>2 DEF RowInv
  <2>7. CountInv'
    <3>1. Live' \ {Main} = {} /\ Live \ {Main} = {}
      BY <1>3, <2>2
    <3>. QED BY <1>1, <3>1 DEF IndInv, CountInv
  <2>8. work' \in [Workers -> WorkerState]
    <3>1. Ready(0, call.m) \in WorkerState
      BY <1>1 DEF Call
    <3>. QED BY <2>1, <3>1 DEF IndInv, TypeInv
  <2>. QED BY <1>2, <2>4, <2>5, <2>6, <2>7, <2>8 DEF IndInv
<1>. QED BY <1>4, <1>5

LEMMA LiveFinite == TypeInv => IsFiniteSet(Live)
<1>. SUFFICES ASSUME TypeInv PROVE IsFiniteSet(Live)
  OBVIOUS
<1>1. call.m - 1 \in Int
  BY CallsAssumption DEF TypeInv, Call
<1>2. IsFiniteSet(0 .. call.m - 1) /\ IsFiniteSet(Workers)
  <2>1. IsFiniteSet(0 .. call.m - 1)
    BY <1>1, FS_Interval
  <2>2. IsFiniteSet((0 .. call.m - 1) \cup {Main})
    BY <2>1, FS_AddElement
  <2>3. Workers = (0 .. call.m - 1) \cup {Main}
    OBVIOUS
  <2>. QED BY <2>1, <2>2, <2>3
<1>. QED BY <1>2, FS_Subset DEF Live

LEMMA SpawnInv == IndInv /\ Spawn => IndInv'
<1>. SUFFICES ASSUME IndInv, Spawn PROVE IndInv'
  OBVIOUS
<1>. PICK b \in Nat, e \in Int : b = r0 /\ e = BlockEnd(r0)
  <2>1. call \in Call /\ r0 \in Nat /\ Splits(call)
    BY CallsAssumption DEF IndInv, TypeInv, PhaseInv, Spawn
  <2>2. RowsPer(call) \in Nat /\ call.m \in Int
    BY <2>1, SplitsFacts DEF Call, IndInv, TypeInv
  <2>. QED BY <2>1, <2>2 DEF BlockEnd, Smaller
<1>1. /\ call \in Call /\ call' = call /\ pc' = pc /\ dst' = dst /\ wg' = wg + 1
      /\ r0 \in Nat /\ wg \in Int /\ work \in [Workers -> WorkerState]
      /\ pc = "spawn" /\ Splits(call) /\ Main \notin Started
  BY CallsAssumption DEF IndInv, TypeInv, PhaseInv, Spawn
<1>2. b \in Rows(call) /\ r0 = b /\ call.m \in Int /\ call.m >= 2
  BY <1>1, SplitsFacts DEF Spawn, IndInv, TypeInv, Call
<1>3. e \in Int /\ b < e /\ e <= call.m /\ e <= r0' /\ r0' \in Nat
      /\ \A r \in Rows(call) : r < r0' => r < e
  <2>. PICK d \in Nat : d = RowsPer(call) /\ d >= 1
    BY <1>1, SplitsFacts DEF IndInv, TypeInv
  <2>1. r0' = b + d /\ e = Smaller(b + d, call.m) /\ b < call.m
    BY <1>2 DEF Spawn, BlockEnd
  <2>. QED BY <1>2, <2>1 DEF Smaller
<1>4. b \notin Started
  BY <1>2, <1>1 DEF IndInv, BlockInv
<1>5. /\ work' = [work EXCEPT ![b] = Ready(b, e)]
      /\ work'[b] = Ready(b, e)
      /\ \A w \in Workers : w # b => work'[w] = work[w]
  BY <1>1, <1>2 DEF Spawn
<1>6. Started' = Started \cup {b} /\ Live' = Live \cup {b} /\ b \notin Live
  BY <1>1, <1>2, <1>4, <1>5 DEF Started, Live
<1>7. TypeInv'
  <2>1. Ready(b, e) \in WorkerState
    BY <1>1, <1>3
  <2>2. work' \in [Workers -> WorkerState]
    BY <1>1, <1>5, <2>1
  <2>. QED BY <1>1, <1>3, <2>2 DEF IndInv, TypeInv
<1>8. PhaseInv'
  BY <1>1, <1>2, <1>5, <1>6 DEF PhaseInv
<1>9. BlockInv'
  <2>1. \A w \in Started : w \in Rows(call) /\ work'[w] = work[w] /\ w # b /\ work[w].hi \in Int
    BY <1>1, <1>4, <1>5 DEF Started
  <2>2. \A w \in Started' \ {Main} :
           Splits(call) /\ w < work'[w].hi /\ work'[w].hi <= call.m /\ work'[w].hi <= r0'
    BY <1>1, <1>2, <1>3, <1>5, <1>6, <2>1 DEF IndInv, BlockInv
  <2>3. \A v, w \in Started' \ {Main} : v < w => work'[v].hi <= w
    BY <1>1, <1>2, <1>3, <1>5, <1>6, <2>1 DEF IndInv, BlockInv
  <2>4. ASSUME NEW r \in Rows(call), r < r0'
        PROVE  \E w \in Started' \ {Main} : r \in Block(w)'
    <3>1. CASE r < b
      <4>1. PICK w \in Started \ {Main} : r \in Block(w)
        BY <3>1 DEF IndInv, BlockInv
      <4>. QED BY <4>1, <1>6, <2>1 DEF Block
    <3>2. CASE r >= b
      <4>1. r \in Block(b)'
        BY <1>1, <1>2, <1>3, <1>5, <2>4, <3>2 DEF Block
      <4>. QED BY <4>1, <1>2, <1>6
    <3>. QED BY <3>1, <3>2, <1>1
  <2>. QED BY <1>1, <2>2, <2>3, <2>4 DEF BlockInv
<1>10. KernelInv'
  <2>1. KernelOK(b)'
    BY <1>1, <1>2, <1>5 DEF KernelOK
  <2>2. ASSUME NEW w \in Started PROVE KernelOK(w)'
    <3>1. work'[w] = work[w]
      BY <1>4, <1>5 DEF Started
    <3>. QED BY <1>1, <3>1 DEF IndInv, KernelInv, KernelOK, Block, KernelActs
  <2>. QED BY <1>6, <2>1, <2>2 DEF KernelInv
<1>11. RowInv'
  <2>1. ASSUME NEW w \in Started
        PROVE  Block(w)' = Block(w) /\ \A i \in Block(w) : dst'[i] = RowOf(w, i)'
    <3>1. work'[w] = work[w]
      BY <1>4, <1>5 DEF Started
    <3>2. Block(w)' = Block(w) /\ \A i \in Block(w) : RowOf(w, i)' = RowOf(w, i)
      BY <1>1, <3>1 DEF Block, RowOf, KernelActs
    <3>. QED BY <1>1, <3>2 DEF IndInv, RowInv
  <2>2. ASSUME NEW i \in Block(b)'
        PROVE  dst'[i] = RowOf(b, i)'
    <3>1. i \in Rows(call) /\ i >= b
      BY <1>2, <1>3, <1>5, <1>1 DEF Block
    <3>2. \A w \in Started : i \notin Block(w)
      BY <3>1, <1>1 DEF IndInv, BlockInv, Block, Started
    <3>3. dst[i] = Old
      BY <3>1, <3>2 DEF IndInv, RowInv
    <3>. QED BY <3>3, <1>1, <1>5 DEF RowOf
  <2>3. ASSUME NEW i \in Rows(call), \A w \in Started' : i \notin Block(w)'
        PROVE  dst'[i] = Old
    BY <1>1, <1>6, <2>1, <2>3 DEF IndInv, RowInv
  <2>. QED BY <1>1, <1>6, <2>1, <2>2, <2>3 DEF RowInv
<1>12. CountInv'
  <2>1. Live' \ {Main} = (Live \ {Main}) \cup {b} /\ b \notin Live \ {Main}
    BY <1>2, <1>6
  <2>2. IsFiniteSet(Live \ {Main})
    BY LiveFinite, FS_Subset DEF IndInv
  <2>3. Cardinality(Live' \ {Main}) = Cardinality(Live \ {Main}) + 1
    BY <2>1, <2>2, FS_AddElement
  <2>. QED BY <1>1, <2>3 DEF IndInv, CountInv
<1>. QED BY <1>7, <1>8, <1>9, <1>10, <1>11, <1>12 DEF IndInv

LEMMA AllSpawnedInv == IndInv /\ AllSpawned => IndInv'
<1>. SUFFICES ASSUME IndInv, AllSpawned PROVE IndInv'
  OBVIOUS
<1>1. /\ UNCHANGED <<call, r0, wg, work, dst>> /\ pc = "spawn" /\ pc' = "wait"
      /\ call \in Call /\ r0 \in Nat
  BY CallsAssumption DEF AllSpawned, IndInv, TypeInv
<1>2. \A r \in Rows(call) : r < r0
  BY <1>1 DEF AllSpawned, Call
<1>3. Started' = Started /\ Live' = Live
  BY <1>1 DEF Started, Live
<1>4. TypeInv' /\ PhaseInv'
  BY <1>1, <1>2, <1>3 DEF IndInv, TypeInv, PhaseInv
<1>5. BlockInv' /\ KernelInv' /\ RowInv' /\ CountInv'
  BY <1>1, <1>3 DEF IndInv, BlockInv, KernelInv, KernelOK, Block, KernelActs, RowInv, RowOf, CountInv
<1>. QED BY <1>4, <1>5 DEF IndInv

LEMMA WaitInv == IndInv /\ Wait => IndInv'
<1>. SUFFICES ASSUME IndInv, Wait PROVE IndInv'
  OBVIOUS
<1>1. UNCHANGED <<call, r0, wg, work, dst>> /\ pc = "wait" /\ pc' = "returned" /\ wg = 0
  BY DEF Wait
<1>2. Live = {}
  <2>1. Main \notin Live /\ IsFiniteSet(Live \ {Main})
    BY <1>1, LiveFinite, FS_Subset DEF IndInv, PhaseInv, Started, Live
  <2>. QED BY <1>1, <2>1, FS_EmptySet DEF IndInv, CountInv
<1>3. Started' = Started /\ Live' = Live
  BY <1>1 DEF Started, Live
<1>4. TypeInv' /\ PhaseInv'
  BY <1>1, <1>2, <1>3 DEF IndInv, TypeInv, PhaseInv
<1>5. BlockInv' /\ KernelInv' /\ RowInv' /\ CountInv'
  BY <1>1, <1>3 DEF IndInv, BlockInv, KernelInv, KernelOK, Block, KernelActs, RowInv, RowOf, CountInv
<1>. QED BY <1>4, <1>5 DEF IndInv

-----------------------------------------------------------------------------
(* The steps of a worker.                                                  *)

\* No two started workers have a row in common.
LEMMA BlocksDisjoint ==
    ASSUME IndInv, NEW v \in Started, NEW w \in Started, v # w
    PROVE  Block(v) \cap Block(w) = {}
<1>1. /\ call.m \in Int /\ work \in [Workers -> WorkerState] /\ r0 \in Nat
      /\ Main \in Started => r0 = 0
  BY CallsAssumption DEF IndInv, TypeInv, PhaseInv, Call
<1>2. \A u \in Started \ {Main} : u \in Rows(call) /\ u < work[u].hi /\ work[u].hi <= r0
  BY DEF IndInv, BlockInv, Started
<1>3. v # Main /\ w # Main
  BY <1>1, <1>2
<1>4. (v < w => work[v].hi <= w) /\ (w < v => work[w].hi <= v)
  BY <1>3 DEF IndInv, BlockInv
<1>. QED BY <1>1, <1>2, <1>3, <1>4 DEF Block

\* A block lies inside the destination.
LEMMA BlockInRows ==
    ASSUME IndInv, NEW w \in Started
    PROVE  Block(w) \subseteq Rows(call)
<1>1. call.m \in Int /\ work \in [Workers -> WorkerState] /\ w \in Workers
  BY CallsAssumption DEF IndInv, TypeInv, Call, Started
<1>2. work[w].hi <= call.m /\ work[w].hi \in Int
  BY <1>1 DEF IndInv, PhaseInv, BlockInv
<1>. QED BY <1>1, <1>2 DEF Block

\* A step of worker w that moves w on, keeps the bounds of its block and writes
\* only rows of that block leaves everything about the others as it was.
LEMMA WorkerFrame ==
    ASSUME IndInv, NEW w \in Started, NEW s \in WorkerState,
           UNCHANGED <<call, r0>>, pc' \in {"spawn", "wait", "serial", "returned", "crashed"},
           wg' \in Int,
           work' = [work EXCEPT ![w] = s], s.hi = work[w].hi, s.at # "none",
           dst' \in [Rows(call) -> Seq(Int)],
           \A i \in Rows(call) \ Block(w) : dst'[i] = dst[i],
           KernelOK(w)',
           \A i \in Block(w) : dst'[i] = RowOf(w, i)'
    PROVE  /\ TypeInv' /\ BlockInv' /\ KernelInv' /\ RowInv'
           /\ Started' = Started /\ work'[w] = s /\ Block(w)' = Block(w)
           /\ \A v \in Workers \ {w} : work'[v] = work[v]
<1>1. work \in [Workers -> WorkerState] /\ w \in Workers
  BY DEF IndInv, TypeInv, Started
<1>2. work'[w] = s /\ \A v \in Workers \ {w} : work'[v] = work[v]
  BY <1>1
<1>3. Started' = Started
  BY <1>1, <1>2 DEF Started
<1>4. \A v \in Workers : work'[v].hi = work[v].hi /\ Block(v)' = Block(v)
  BY <1>2 DEF Block
<1>5. TypeInv'
  <2>1. work' \in [Workers -> WorkerState]
    BY <1>1
  <2>. QED BY <2>1 DEF IndInv, TypeInv
<1>6. BlockInv'
  <2>1. \A v \in Started : v \in Workers
    BY DEF Started
  <2>2. \A v \in Started \ {Main} :
          Splits(call) /\ v < work'[v].hi /\ work'[v].hi <= call.m /\ work'[v].hi <= r0
    BY <1>4, <2>1 DEF IndInv, BlockInv
  <2>3. \A u, v \in Started \ {Main} : u < v => work'[u].hi <= v
    BY <1>4, <2>1 DEF IndInv, BlockInv
  <2>4. \A r \in Rows(call) : r < r0 => \E v \in Started \ {Main} : r \in Block(v)'
    BY <1>4, <2>1 DEF IndInv, BlockInv
  <2>. QED BY <1>3, <2>2, <2>3, <2>4 DEF BlockInv
<1>7. KernelInv'
  <2>1. ASSUME NEW v \in Started, v # w PROVE KernelOK(v)'
    <3>1. work'[v] = work[v] /\ KernelOK(v)
      BY <1>2, <2>1 DEF IndInv, KernelInv, Started
    <3>. QED BY <3>1 DEF KernelOK, Block, KernelActs
  <2>. QED BY <1>3, <2>1 DEF KernelInv
<1>8. RowInv'
  <2>1. ASSUME NEW v \in Started, NEW i \in Block(v)' PROVE dst'[i] = RowOf(v, i)'
    <3>1. CASE v = w
      BY <1>4, <2>1, <3>1, <1>1
    <3>2. CASE v # w
      <4>1. work'[v] = work[v] /\ i \in Block(v)
        BY <1>2, <1>4, <3>2 DEF Started
      <4>2. i \in Rows(call) \ Block(w)
        BY <4>1, <3>2, BlocksDisjoint, BlockInRows
      <4>3. RowOf(v, i)' = RowOf(v, i)
        BY <4>1 DEF RowOf, KernelActs
      <4>. QED BY <4>1, <4>2, <4>3 DEF IndInv, RowInv
    <3>. QED BY <3>1, <3>2
  <2>2. ASSUME NEW i \in Rows(call), \A v \in Started : i \notin Block(v)'
        PROVE  dst'[i] = Old
    <3>1. \A v \in Started : i \notin Block(v)
      BY <1>4, <2>2 DEF Started
    <3>. QED BY <3>1 DEF IndInv, RowInv
  <2>. QED BY <1>3, <2>1, <2>2 DEF RowInv
<1>. QED BY <1>1, <1>2, <1>3, <1>4, <1>5, <1>6, <1>7, <1>8

\* If the worker is still live after such a step, nothing the caller waits for
\* has changed either.
LEMMA LiveFrame ==
    ASSUME IndInv, NEW w \in Live, UNCHANGED <<call, pc, r0, wg>>, pc # "crashed",
           \A v \in Workers \ {w} : work'[v] = work[v],
           work'[w].at \notin {"none", "done"}, work'[w].hi = work[w].hi
    PROVE  PhaseInv' /\ CountInv'
<1>1. w \in Workers /\ w \in Started
  BY DEF Live, Started
<1>2. Started' = Started /\ Live' = Live
  BY <1>1 DEF Started, Live
<1>3. /\ work'[Main].hi = work[Main].hi
      /\ work[Main].at \in {"none", "done"} => work'[Main] = work[Main]
      /\ work[Main].at \notin {"none", "done"} => work'[Main].at \notin {"none", "done"}
  BY <1>1 DEF Live
<1>4. PhaseInv'
  <2>1. PhaseInv
    BY DEF IndInv
  <2>. QED BY <1>2, <1>3, <2>1 DEF PhaseInv
<1>. QED BY <1>2, <1>4 DEF IndInv, CountInv

\* What is known of a worker that is about to take a step.
LEMMA LiveFacts ==
    ASSUME IndInv, NEW w \in Live
    PROVE  /\ w \in Started /\ w \in Workers /\ work[w] \in WorkerState
           /\ work \in [Workers -> WorkerState] /\ dst \in [Rows(call) -> Seq(Int)]
           /\ call \in Call /\ call.m \in Int /\ call.k \in Int /\ call.n \in Int
           /\ wg \in Int /\ KernelOK(w) /\ \A i \in Block(w) : dst[i] = RowOf(w, i)
           /\ pc \in {"spawn", "wait", "serial", "returned", "crashed"}
           /\ pc = "returned" => FALSE
<1>1. TypeInv /\ PhaseInv /\ w \in Started /\ w \in Workers
  BY DEF IndInv, Live, Started
<1>2. pc # "returned"
  <2>. SUFFICES ASSUME pc = "returned" PROVE FALSE
    OBVIOUS
  <2>1. work[Main].at = "done"
    BY <1>1 DEF PhaseInv
  <2>2. w \in Rows(call) /\ r0 = 0
    BY <1>1, <2>1 DEF Live, Started, PhaseInv
  <2>. QED BY <1>1, <2>2 DEF IndInv, BlockInv, TypeInv
<1>3. pc # "start"
  BY <1>1 DEF PhaseInv
<1>. QED BY <1>1, <1>2, <1>3, CallsAssumption DEF IndInv, TypeInv, KernelInv, RowInv, Call

\* A goroutine whose slice expressions do not panic hands the kernel sizes it
\* acts on.
LEMMA GoroutineActs ==
    ASSUME IndInv, NEW w \in Started \ {Main}, SlicesOK(w)
    PROVE  KernelActs(w)
<1>1. /\ call \in Calls /\ call \in Call /\ Splits(call) /\ w \in Nat
      /\ work[w].hi \in Int /\ w < work[w].hi
  BY CallsAssumption DEF IndInv, TypeInv, BlockInv, Started
<1>2. call.k \in Int /\ call.n \in Int /\ call.b \in Nat /\ call.k * call.n <= call.b
  BY <1>1, SplitsFacts DEF Call
<1>3. call.k > 0 /\ call.n > 0
  <2>1. w * call.n <= work[w].hi * call.n
    BY <1>1 DEF SlicesOK, SliceOK
  <2>2. ~(call.n < 0)
    BY <1>1, <1>2, <2>1
  <2>. QED BY <1>1, <2>2, SplitsFacts
<1>4. work[w].hi - w > 0
  BY <1>1
<1>. QED BY <1>1, <1>2, <1>3, <1>4 DEF KernelActs, Sized, Short

LEMMA BeginInv == ASSUME IndInv, Running, NEW w \in Workers, Begin(w) PROVE IndInv'
<1>1. w \in Live /\ work[w].at = "ready"
  BY DEF Begin, Live
<1>2. w \in Started /\ work[w] \in WorkerState /\ KernelOK(w) /\ work \in [Workers -> WorkerState]
      /\ pc \in {"spawn", "wait", "serial"} /\ wg \in Int /\ dst \in [Rows(call) -> Seq(Int)]
      /\ call.m \in Int
  BY <1>1, LiveFacts DEF Running
<1>. DEFINE next == IF KernelActs(w) THEN FirstStep ELSE "exit"
            s == [work[w] EXCEPT !.at = next]
<1>3. UNCHANGED <<call, pc, r0, wg, dst>> /\ work' = [work EXCEPT ![w] = s]
  BY <1>2 DEF Begin
<1>4. next \in {"zero", "dot", "exit"} /\ s \in WorkerState
      /\ s.at = next /\ s.hi = work[w].hi /\ s.i = Lo(w) /\ s.p = 0 /\ work'[w] = s
  BY <1>1, <1>2, <1>3 DEF KernelOK, FirstStep
<1>. HIDE DEF next, s
<1>5. KernelActs(w)' = KernelActs(w) /\ Block(w)' = Block(w)
  BY <1>2, <1>3, <1>4 DEF KernelActs, Block
<1>6. next = "exit" => w = Main /\ ~KernelActs(w)
  BY <1>1, <1>2, GoroutineActs DEF Begin, next, FirstStep
<1>7. KernelActs(w) => Lo(w) \in Block(w) /\ 0 \in 0 .. call.k - 1
  <2>1. call.k \in Int /\ call.n \in Int /\ work[w].hi \in Int
    BY <1>1, <1>2, LiveFacts
  <2>2. w = Main => work[w].hi = call.m
    BY <1>2 DEF IndInv, PhaseInv
  <2>. QED BY <1>2, <2>1, <2>2 DEF KernelActs, Sized, Block
<1>8. KernelOK(w)'
  <2>1. next # "exit" => KernelActs(w)
    BY DEF next
  <2>. QED BY <1>3, <1>4, <1>5, <1>6, <1>7, <2>1 DEF KernelOK
<1>9. ASSUME NEW i \in Block(w) PROVE dst'[i] = RowOf(w, i)'
  <2>1. dst[i] = Old
    BY <1>1, LiveFacts DEF RowOf
  <2>2. i >= Lo(w) /\ i \in Int
    BY <1>2, <1>9 DEF Block
  <2>3. RowOf(w, i)' = Old
    BY <1>4, <1>5, <1>6, <2>2 DEF RowOf
  <2>. QED BY <1>3, <2>1, <2>3
<1>10. TypeInv' /\ BlockInv' /\ KernelInv' /\ RowInv' /\ \A v \in Workers \ {w} : work'[v] = work[v]
  BY <1>2, <1>3, <1>4, <1>8, <1>9, WorkerFrame
<1>11. PhaseInv' /\ CountInv'
  BY <1>1, <1>2, <1>3, <1>4, <1>10, LiveFrame
<1>. QED BY <1>10, <1>11 DEF IndInv

\* Only a goroutine panics, so the caller was spawning or waiting.
LEMMA PanicInv == ASSUME IndInv, Running, NEW w \in Workers, Panic(w) PROVE IndInv'
<1>1. w \in Live /\ w # Main /\ UNCHANGED <<call, r0, wg, work, dst>> /\ pc' = "crashed"
  BY DEF Panic, Live, SlicesOK
<1>2. w \in Started /\ pc \in {"spawn", "wait", "serial"}
  BY <1>1, LiveFacts DEF Running
<1>3. Splits(call) /\ Main \notin Started
  <2>1. w \in Rows(call) /\ Splits(call)
    BY <1>1, <1>2 DEF IndInv, BlockInv
  <2>2. r0 # 0
    BY <1>1, <1>2 DEF IndInv, BlockInv, TypeInv
  <2>. QED BY <2>1, <2>2 DEF IndInv, PhaseInv
<1>4. Started' = Started /\ Live' = Live
  BY <1>1 DEF Started, Live
<1>5. TypeInv' /\ PhaseInv'
  BY <1>1, <1>3, <1>4 DEF IndInv, TypeInv, PhaseInv
<1>6. BlockInv' /\ KernelInv' /\ RowInv' /\ CountInv'
  BY <1>1, <1>4 DEF IndInv, BlockInv, KernelInv, KernelOK, Block, KernelActs, RowInv, RowOf, CountInv
<1>. QED BY <1>5, <1>6 DEF IndInv

\* One term more.
LEMMA UptoAppend == \A p \in Nat : Append(Upto(p), p) = Upto(p + 1)
  BY DEF Upto

LEMMA UptoSeq == \A p \in Nat : Upto(p) \in Seq(Int) /\ Upto(0) = <<>>
  BY DEF Upto

\* What a worker at a kernel step knows of its own block.
LEMMA KernelFacts ==
    ASSUME IndInv, Running, NEW w \in Workers, work[w].at \in {"zero", "mul", "dot"}
    PROVE  /\ w \in Live /\ w \in Started /\ KernelActs(w)
           /\ work[w].i \in Block(w) /\ work[w].i \in Rows(call)
           /\ work[w].p \in 0 .. call.k - 1 /\ call.k \in Int /\ call.m \in Int
           /\ work[w].i \in Int /\ work[w].hi \in Int /\ Lo(w) \in Int /\ Lo(w) <= work[w].i
           /\ work[w].i < work[w].hi /\ Upto(call.k) \in Seq(Int) /\ call.k > 0
<1>1. w \in Live /\ w \in Started
  BY DEF Live, Started
<1>2. /\ KernelActs(w) /\ work[w].i \in Block(w) /\ work[w].p \in 0 .. call.k - 1
      /\ work[w] \in WorkerState /\ call.k \in Int /\ call.m \in Int
  BY <1>1, LiveFacts DEF KernelOK
<1>3. call.k \in Nat /\ call.k > 0
  BY <1>2
<1>4. Upto(call.k) \in Seq(Int)
  BY <1>3, UptoSeq
<1>. QED BY <1>1, <1>2, <1>3, <1>4, BlockInRows DEF Block

LEMMA ZeroInv == ASSUME IndInv, Running, NEW w \in Workers, Zero(w) PROVE IndInv'
<1>. PICK j \in Int : j = work[w].i
  BY KernelFacts DEF Zero
<1>1. /\ w \in Live /\ w \in Started /\ work[w].at = "zero" /\ work[w].p = 0
      /\ work[w] \in WorkerState /\ work \in [Workers -> WorkerState]
      /\ pc \in {"spawn", "wait", "serial"} /\ wg \in Int /\ dst \in [Rows(call) -> Seq(Int)]
      /\ UNCHANGED <<call, pc, r0, wg>>
  BY KernelFacts, LiveFacts DEF Zero, Running, KernelOK
<1>. DEFINE s == IF LastRow(w) THEN [work[w] EXCEPT !.at = "mul", !.i = Lo(w)]
                               ELSE [work[w] EXCEPT !.i = work[w].i + 1]
<1>2. work' = [work EXCEPT ![w] = s] /\ dst' = [dst EXCEPT ![j] = <<>>]
  BY <1>1 DEF Zero
<1>3. /\ s \in WorkerState /\ s.hi = work[w].hi /\ s.p = 0 /\ work'[w] = s
      /\ s.at = IF LastRow(w) THEN "mul" ELSE "zero"
      /\ s.i = IF LastRow(w) THEN Lo(w) ELSE j + 1
  <2>1. Lo(w) \in Int /\ work[w].i + 1 \in Int
    BY <1>1, KernelFacts
  <2>2. CASE LastRow(w)
    BY <1>1, <1>2, <2>1, <2>2
  <2>3. CASE ~LastRow(w)
    BY <1>1, <1>2, <2>1, <2>3
  <2>. QED BY <2>2, <2>3
<1>. HIDE DEF s
<1>4. /\ j \in Block(w) /\ j \in Rows(call) /\ KernelActs(w) /\ 0 \in 0 .. call.k - 1
      /\ \A i \in Block(w) : i \in Int /\ Lo(w) <= i /\ i < work[w].hi
      /\ Lo(w) \in Int /\ Lo(w) <= j /\ work[w].hi \in Int /\ call.k \in Int
  BY <1>1, KernelFacts DEF Block
<1>5. KernelActs(w)' /\ Block(w)' = Block(w)
  BY <1>1, <1>3, <1>4 DEF KernelActs, Block
<1>6. KernelOK(w)'
  <2>1. s.i \in Block(w)
    BY <1>3, <1>4 DEF LastRow, Block
  <2>. QED BY <1>1, <1>3, <1>4, <1>5, <2>1 DEF KernelOK
<1>7. dst' \in [Rows(call) -> Seq(Int)] /\ \A i \in Rows(call) \ Block(w) : dst'[i] = dst[i]
  BY <1>1, <1>2, <1>4
<1>8. ASSUME NEW i \in Block(w) PROVE dst'[i] = RowOf(w, i)'
  <2>0. i \in Int /\ j \in Int /\ Lo(w) <= i /\ (LastRow(w) => i <= j)
    <3>1. i \in Int /\ j \in Int /\ work[w].hi \in Int /\ i < work[w].hi /\ Lo(w) <= i
      BY <1>4
    <3>. QED BY <3>1 DEF LastRow
  <2>1. dst[i] = IF i < j THEN <<>> ELSE Old
    BY <1>1, LiveFacts DEF RowOf
  <2>2. dst'[i] = IF i <= j THEN <<>> ELSE Old
    BY <1>1, <1>2, <1>4, <2>1, BlockInRows
  <2>3. CASE LastRow(w)
    <3>1. i <= j /\ ~(i < Lo(w))
      <4>1. Lo(w) \in Int
        BY <1>4
      <4>. QED BY <2>0, <2>3, <4>1
    <3>2. RowOf(w, i)' = <<>>
      BY <1>3, <2>3, <3>1, UptoSeq DEF RowOf
    <3>. QED BY <2>2, <3>1, <3>2
  <2>4. CASE ~LastRow(w)
    <3>1. RowOf(w, i)' = IF i < j + 1 THEN <<>> ELSE Old
      BY <1>3, <2>4 DEF RowOf
    <3>2. (i < j + 1) <=> (i <= j)
      BY <2>0
    <3>. QED BY <2>2, <3>1, <3>2
  <2>. QED BY <2>3, <2>4
<1>9. TypeInv' /\ BlockInv' /\ KernelInv' /\ RowInv' /\ \A v \in Workers \ {w} : work'[v] = work[v]
  BY <1>1, <1>2, <1>3, <1>6, <1>7, <1>8, WorkerFrame
<1>10. PhaseInv' /\ CountInv'
  BY <1>1, <1>3, <1>9, LiveFrame
<1>. QED BY <1>9, <1>10 DEF IndInv

LEMMA MulAddInv == ASSUME IndInv, Running, NEW w \in Workers, MulAdd(w) PROVE IndInv'
<1>. PICK j \in Int, p \in Nat : j = work[w].i /\ p = work[w].p
  BY KernelFacts DEF MulAdd
<1>1. /\ w \in Live /\ w \in Started /\ work[w].at = "mul" /\ p < call.k
      /\ work[w] \in WorkerState /\ work \in [Workers -> WorkerState]
      /\ pc \in {"spawn", "wait", "serial"} /\ wg \in Int /\ dst \in [Rows(call) -> Seq(Int)]
      /\ UNCHANGED <<call, pc, r0, wg>>
  <2>1. w \in Live /\ w \in Started /\ p < call.k /\ work[w].at = "mul"
    BY KernelFacts DEF MulAdd
  <2>. QED BY <2>1, LiveFacts DEF MulAdd, Running
<1>. DEFINE s == IF work[w].p + 1 < call.k THEN [work[w] EXCEPT !.p = work[w].p + 1]
                 ELSE IF LastRow(w) THEN [work[w] EXCEPT !.at = "exit"]
                 ELSE [work[w] EXCEPT !.i = work[w].i + 1, !.p = 0]
<1>2. work' = [work EXCEPT ![w] = s] /\ dst' = [dst EXCEPT ![j] = Append(dst[j], p)]
  BY <1>1 DEF MulAdd
<1>3. /\ s \in WorkerState /\ s.hi = work[w].hi /\ work'[w] = s
      /\ s.at = IF p + 1 < call.k \/ ~LastRow(w) THEN "mul" ELSE "exit"
      /\ s.i = IF p + 1 < call.k \/ LastRow(w) THEN j ELSE j + 1
      /\ p + 1 < call.k => s.p = p + 1
      /\ p + 1 >= call.k /\ ~LastRow(w) => s.p = 0
  <2>1. work[w].i + 1 \in Int /\ call.k \in Int /\ p + 1 \in Int
    BY <1>1, LiveFacts
  <2>2. CASE p + 1 < call.k
    BY <1>1, <1>2, <2>1, <2>2
  <2>3. CASE ~(p + 1 < call.k) /\ LastRow(w)
    BY <1>1, <1>2, <2>1, <2>3
  <2>4. CASE ~(p + 1 < call.k) /\ ~LastRow(w)
    <3>1. s = [work[w] EXCEPT !.i = work[w].i + 1, !.p = 0]
      BY <2>4
    <3>. HIDE DEF s
    <3>2. s \in WorkerState /\ s.at = "mul" /\ s.i = j + 1 /\ s.p = 0 /\ s.hi = work[w].hi
      <4>1. PICK x \in Int : x = work[w].i + 1
        BY <2>1
      <4>2. s = [work[w] EXCEPT !.i = x, !.p = 0]
        BY <3>1, <4>1
      <4>3. s \in WorkerState
        <5>1. s = [at |-> work[w].at, hi |-> work[w].hi, i |-> x, p |-> 0]
          BY <1>1, <4>2
        <5>. QED BY <1>1, <5>1
      <4>. QED BY <1>1, <4>1, <4>2, <4>3
    <3>3. work'[w] = s
      BY <1>1, <1>2
    <3>. QED BY <2>1, <2>4, <3>2, <3>3
  <2>. QED BY <2>2, <2>3, <2>4
<1>. HIDE DEF s
<1>4. /\ j \in Block(w) /\ j \in Rows(call) /\ KernelActs(w) /\ 0 \in 0 .. call.k - 1
      /\ \A i \in Block(w) : i \in Int /\ Lo(w) <= i /\ i < work[w].hi
      /\ Lo(w) \in Int /\ Lo(w) <= j /\ j < work[w].hi /\ work[w].hi \in Int /\ call.k \in Int
  BY <1>1, KernelFacts DEF Block
<1>5. KernelActs(w)' /\ Block(w)' = Block(w)
  BY <1>1, <1>3, <1>4 DEF KernelActs, Block
<1>6. KernelOK(w)'
  <2>1. s.i \in Block(w)
    BY <1>3, <1>4 DEF LastRow, Block
  <2>2. s.at = "mul" => s.p \in 0 .. call.k - 1
    BY <1>1, <1>3, <1>4
  <2>. QED BY <1>1, <1>3, <1>4, <1>5, <2>1, <2>2 DEF KernelOK
<1>7. /\ dst[j] = Upto(p) /\ dst'[j] = Upto(p + 1)
      /\ dst' \in [Rows(call) -> Seq(Int)] /\ \A i \in Rows(call) \ {j} : dst'[i] = dst[i]
  <2>1. dst[j] = Upto(p)
    BY <1>1, <1>4, LiveFacts DEF RowOf
  <2>2. p + 1 \in Nat /\ Upto(p + 1) \in Seq(Int)
    <3>1. p + 1 \in Nat
      OBVIOUS
    <3>. QED BY <3>1, UptoSeq
  <2>3. dst' = [dst EXCEPT ![j] = Upto(p + 1)]
    BY <1>2, <1>4, <2>1, UptoAppend
  <2>. QED BY <1>1, <1>4, <2>1, <2>2, <2>3
<1>8. ASSUME NEW i \in Block(w) PROVE dst'[i] = RowOf(w, i)'
  <2>0. i \in Int /\ j \in Int /\ Lo(w) <= i /\ (LastRow(w) => i <= j)
    <3>1. i \in Int /\ j \in Int /\ work[w].hi \in Int /\ i < work[w].hi /\ Lo(w) <= i
      BY <1>4
    <3>. QED BY <3>1 DEF LastRow
  <2>1. i # j => dst[i] = IF i < j THEN Upto(call.k) ELSE <<>>
    BY <1>1, <1>4, LiveFacts DEF RowOf
  <2>2. dst'[i] = IF i < j THEN Upto(call.k) ELSE IF i = j THEN Upto(p + 1) ELSE <<>>
    <3>1. i \in Rows(call)
      BY <1>1, BlockInRows
    <3>2. i # j => dst'[i] = dst[i]
      BY <1>7, <3>1
    <3>. QED BY <2>0, <1>7, <2>1, <3>2
  <2>3. CASE p + 1 < call.k
    <3>1. work'[w].at = "mul" /\ work'[w].i = j /\ work'[w].p = p + 1
      BY <1>3, <2>3
    <3>. QED BY <1>1, <2>2, <3>1 DEF RowOf
  <2>4. CASE p + 1 >= call.k /\ LastRow(w)
    <3>1. p + 1 = call.k /\ i <= j
      BY <1>1, <1>4, <2>0, <2>4
    <3>2. work'[w].at = "exit"
      BY <1>3, <1>4, <2>4
    <3>3. RowOf(w, i)' = Upto(call.k)
      BY <1>1, <1>5, <3>2 DEF RowOf
    <3>4. i < j \/ i = j
      BY <2>0, <3>1
    <3>. QED BY <2>2, <3>1, <3>3, <3>4
  <2>5. CASE p + 1 >= call.k /\ ~LastRow(w)
    <3>1. p + 1 = call.k
      BY <1>1, <1>4, <2>5
    <3>2. RowOf(w, i)' = IF i < j + 1 THEN Upto(call.k) ELSE <<>>
      BY <1>1, <1>3, <2>5, UptoSeq DEF RowOf
    <3>3. (i < j + 1) <=> (i < j \/ i = j)
      BY <2>0
    <3>. QED BY <2>2, <3>1, <3>2, <3>3
  <2>. QED BY <1>1, <1>4, <2>3, <2>4, <2>5
<1>9. TypeInv' /\ BlockInv' /\ KernelInv' /\ RowInv' /\ \A v \in Workers \ {w} : work'[v] = work[v]
  BY <1>1, <1>2, <1>3, <1>4, <1>6, <1>7, <1>8, WorkerFrame, ZenonT(120)
<1>10. PhaseInv' /\ CountInv'
  BY <1>1, <1>3, <1>9, LiveFrame
<1>. QED BY <1>9, <1>10 DEF IndInv

LEMMA DotInv == ASSUME IndInv, Running, NEW w \in Workers, Dot(w) PROVE IndInv'
<1>. PICK j \in Int : j = work[w].i
  BY KernelFacts DEF Dot
<1>1. /\ w \in Live /\ w \in Started /\ work[w].at = "dot" /\ work[w].p = 0
      /\ work[w] \in WorkerState /\ work \in [Workers -> WorkerState]
      /\ pc \in {"spawn", "wait", "serial"} /\ wg \in Int /\ dst \in [Rows(call) -> Seq(Int)]
      /\ UNCHANGED <<call, pc, r0, wg>>
  <2>1. w \in Live /\ work[w].at = "dot"
    BY KernelFacts DEF Dot
  <2>. QED BY <2>1, LiveFacts DEF Dot, Running, KernelOK
<1>. DEFINE s == IF LastRow(w) THEN [work[w] EXCEPT !.at = "exit"]
                               ELSE [work[w] EXCEPT !.i = work[w].i + 1]
<1>2. work' = [work EXCEPT ![w] = s] /\ dst' = [dst EXCEPT ![j] = Upto(call.k)]
  BY <1>1 DEF Dot
<1>3. /\ s \in WorkerState /\ s.hi = work[w].hi /\ s.p = 0 /\ work'[w] = s
      /\ s.at = IF LastRow(w) THEN "exit" ELSE "dot"
      /\ s.i = IF LastRow(w) THEN j ELSE j + 1
  <2>1. work[w].i + 1 \in Int
    BY <1>1
  <2>2. CASE LastRow(w)
    BY <1>1, <1>2, <2>1, <2>2
  <2>3. CASE ~LastRow(w)
    BY <1>1, <1>2, <2>1, <2>3
  <2>. QED BY <2>2, <2>3
<1>. HIDE DEF s
<1>4. /\ j \in Block(w) /\ j \in Rows(call) /\ KernelActs(w) /\ 0 \in 0 .. call.k - 1
      /\ \A i \in Block(w) : i \in Int /\ Lo(w) <= i /\ i < work[w].hi
      /\ Lo(w) \in Int /\ Lo(w) <= j /\ work[w].hi \in Int
      /\ call.k \in Int /\ Upto(call.k) \in Seq(Int)
  BY <1>1, KernelFacts DEF Block
<1>5. KernelActs(w)' /\ Block(w)' = Block(w)
  BY <1>1, <1>3, <1>4 DEF KernelActs, Block
<1>6. KernelOK(w)'
  <2>1. s.i \in Block(w)
    BY <1>3, <1>4 DEF LastRow, Block
  <2>. QED BY <1>1, <1>3, <1>4, <1>5, <2>1 DEF KernelOK
<1>7. /\ dst' \in [Rows(call) -> Seq(Int)] /\ dst'[j] = Upto(call.k)
      /\ \A i \in Rows(call) \ {j} : dst'[i] = dst[i]
  BY <1>1, <1>2, <1>4
<1>8. ASSUME NEW i \in Block(w) PROVE dst'[i] = RowOf(w, i)'
  <2>0. i \in Int /\ j \in Int /\ Lo(w) <= i /\ (LastRow(w) => i <= j)
    <3>1. i \in Int /\ j \in Int /\ work[w].hi \in Int /\ i < work[w].hi /\ Lo(w) <= i
      BY <1>4
    <3>. QED BY <3>1 DEF LastRow
  <2>1. dst[i] = IF i < j THEN Upto(call.k) ELSE Old
    BY <1>1, LiveFacts DEF RowOf
  <2>2. dst'[i] = IF i <= j THEN Upto(call.k) ELSE Old
    <3>1. i \in Rows(call)
      BY <1>1, BlockInRows
    <3>2. i # j => dst'[i] = dst[i]
      BY <1>7, <3>1
    <3>. QED BY <2>0, <1>7, <2>1, <3>2
  <2>3. CASE LastRow(w)
    <3>1. i <= j
      BY <2>0, <2>3
    <3>2. RowOf(w, i)' = Upto(call.k)
      BY <1>1, <1>3, <1>5, <2>3 DEF RowOf
    <3>. QED BY <2>2, <3>1, <3>2
  <2>4. CASE ~LastRow(w)
    <3>1. RowOf(w, i)' = IF i < j + 1 THEN Upto(call.k) ELSE Old
      BY <1>1, <1>3, <2>4 DEF RowOf
    <3>2. (i < j + 1) <=> (i <= j)
      BY <2>0
    <3>. QED BY <2>2, <3>1, <3>2
  <2>. QED BY <2>3, <2>4
<1>9. TypeInv' /\ BlockInv' /\ KernelInv' /\ RowInv' /\ \A v \in Workers \ {w} : work'[v] = work[v]
  BY <1>1, <1>2, <1>3, <1>4, <1>6, <1>7, <1>8, WorkerFrame, ZenonT(120)
<1>10. PhaseInv' /\ CountInv'
  BY <1>1, <1>3, <1>9, LiveFrame
<1>. QED BY <1>9, <1>10 DEF IndInv

LEMMA ExitInv == ASSUME IndInv, Running, NEW w \in Workers, Exit(w) PROVE IndInv'
<1>1. /\ w \in Live /\ w \in Started /\ work[w].at = "exit" /\ KernelOK(w)
      /\ work[w] \in WorkerState /\ work \in [Workers -> WorkerState]
      /\ pc \in {"spawn", "wait", "serial"} /\ wg \in Int /\ dst \in [Rows(call) -> Seq(Int)]
      /\ UNCHANGED <<call, r0, dst>>
  <2>1. w \in Live
    BY DEF Exit, Live
  <2>. QED BY <2>1, LiveFacts DEF Exit, Running
<1>. DEFINE s == [work[w] EXCEPT !.at = "done"]
<1>2. /\ work' = [work EXCEPT ![w] = s] /\ s \in WorkerState /\ s.hi = work[w].hi
      /\ s.at = "done" /\ work'[w] = s /\ wg' \in Int
      /\ pc' \in {"spawn", "wait", "serial", "returned", "crashed"}
  <2>1. s \in WorkerState /\ s.hi = work[w].hi /\ s.at = "done"
    BY <1>1
  <2>2. work' = [work EXCEPT ![w] = s]
    BY DEF Exit
  <2>3. work'[w] = s
    BY <1>1, <2>2
  <2>4. wg' \in Int /\ pc' \in {"spawn", "wait", "serial", "returned", "crashed"}
    BY <1>1 DEF Exit
  <2>. QED BY <2>1, <2>2, <2>3, <2>4
<1>. HIDE DEF s
<1>3. KernelActs(w)' = KernelActs(w) /\ Block(w)' = Block(w)
  BY <1>1, <1>2 DEF KernelActs, Block
<1>4. KernelOK(w)'
  BY <1>1, <1>2, <1>3 DEF KernelOK
<1>5. ASSUME NEW i \in Block(w) PROVE dst'[i] = RowOf(w, i)'
  <2>1. dst[i] = RowOf(w, i)
    BY <1>1, LiveFacts
  <2>. QED BY <1>1, <1>2, <1>3, <2>1 DEF RowOf
<1>6. TypeInv' /\ BlockInv' /\ KernelInv' /\ RowInv' /\ Started' = Started
      /\ \A v \in Workers \ {w} : work'[v] = work[v]
  BY <1>1, <1>2, <1>4, <1>5, WorkerFrame
<1>7. Live' = Live \ {w}
  BY <1>1, <1>2, <1>6 DEF Live
<1>8. CASE w = Main
  <2>1. pc' = "returned" /\ wg' = wg /\ r0 = 0
    BY <1>1, <1>8 DEF Exit, IndInv, PhaseInv
  <2>2. PhaseInv'
    BY <1>1, <1>2, <1>6, <1>8, <2>1 DEF PhaseInv, IndInv
  <2>3. CountInv'
    BY <1>7, <1>8, <2>1 DEF CountInv, IndInv
  <2>. QED BY <1>6, <2>2, <2>3 DEF IndInv
<1>9. CASE w # Main
  <2>1. pc' = pc /\ wg' = wg - 1 /\ w \in Rows(call)
    BY <1>1, <1>9 DEF Exit
  <2>2. work'[Main] = work[Main]
    BY <1>6, <1>9
  <2>3. PhaseInv'
    BY <1>1, <1>6, <2>1, <2>2 DEF PhaseInv, IndInv
  <2>4. CountInv'
    <3>1. IsFiniteSet(Live \ {Main}) /\ w \in Live \ {Main}
      BY <1>1, <1>9, LiveFinite, FS_Subset DEF IndInv
    <3>2. Cardinality((Live \ {Main}) \ {w}) = Cardinality(Live \ {Main}) - 1
      BY <3>1, FS_RemoveElement
    <3>3. Live' \ {Main} = (Live \ {Main}) \ {w}
      BY <1>7
    <3>. QED BY <2>1, <3>2, <3>3 DEF CountInv, IndInv
  <2>. QED BY <1>6, <2>3, <2>4 DEF IndInv
<1>. QED BY <1>8, <1>9

-----------------------------------------------------------------------------
(* The theorems.                                                           *)

LEMMA StutterInv == IndInv /\ UNCHANGED vars => IndInv'
  BY DEF vars, IndInv, TypeInv, PhaseInv, BlockInv, KernelInv, KernelOK, RowInv, RowOf,
         CountInv, Started, Live, Block, KernelActs

LEMMA NextInv == IndInv /\ [Next]_vars => IndInv'
<1>. SUFFICES ASSUME IndInv, [Next]_vars PROVE IndInv'
  OBVIOUS
<1>1. CASE Decide
  BY <1>1, DecideInv
<1>2. CASE Spawn
  BY <1>2, SpawnInv
<1>3. CASE AllSpawned
  BY <1>3, AllSpawnedInv
<1>4. CASE Wait
  BY <1>4, WaitInv
<1>5. ASSUME NEW w \in Workers, Worker(w) PROVE IndInv'
  BY <1>5, BeginInv, PanicInv, ZeroInv, MulAddInv, DotInv, ExitInv DEF Worker
<1>6. CASE UNCHANGED vars
  BY <1>6, StutterInv
<1>. QED BY <1>1, <1>2, <1>3, <1>4, <1>5, <1>6 DEF Next, Caller, Finished

\* The inductive invariant holds in every reachable state.
THEOREM Invariance == Spec => []IndInv
<1>. QED BY InitInv, NextInv, PTL DEF Spec

\* Every variable keeps its type, and the WaitGroup's counter is never negative.
THEOREM TypeCorrect == Spec => []TypeOK
<1>1. IndInv => TypeOK
  <2>. SUFFICES ASSUME IndInv PROVE TypeOK
    OBVIOUS
  <2>1. IsFiniteSet(Live \ {Main})
    BY LiveFinite, FS_Subset DEF IndInv
  <2>2. wg \in Nat
    BY <2>1, FS_CardinalityType DEF IndInv, CountInv
  <2>. QED BY <2>2 DEF IndInv, TypeInv, TypeOK
<1>. QED BY <1>1, Invariance, PTL

\* No two unfinished workers own a row, whatever the dimensions and GOMAXPROCS.
THEOREM RaceFree == Spec => []NoSharedRow
<1>1. IndInv => NoSharedRow
  <2>1. Live \subseteq Started
    BY DEF Live, Started
  <2>. QED BY <2>1, BlocksDisjoint DEF NoSharedRow
<1>. QED BY <1>1, Invariance, PTL

\* The WaitGroup counts the goroutines that have not finished.
THEOREM CountCorrect == Spec => []WaitGroupCounts
<1>1. IndInv => WaitGroupCounts
  BY DEF IndInv, CountInv, WaitGroupCounts
<1>. QED BY <1>1, Invariance, PTL

\* The destination a caller gets back is the serial call's.
THEOREM ProductReturned == Spec => []ReturnsProduct
<1>1. IndInv => ReturnsProduct
  <2>. SUFFICES ASSUME IndInv, pc = "returned", NEW i \in Rows(call)
                PROVE  dst[i] = Product(call)[i]
    BY DEF ReturnsProduct, Product, IndInv, TypeInv
  <2>1. call \in Call /\ call.m \in Int
    BY CallsAssumption DEF IndInv, TypeInv, Call
  <2>2. CASE work[Main].at = "done"
    <3>1. Main \in Started /\ work[Main].hi = call.m
      BY <2>2 DEF Started, IndInv, PhaseInv
    <3>2. i \in Block(Main)
      BY <2>1, <3>1 DEF Block
    <3>3. dst[i] = RowOf(Main, i)
      BY <3>1, <3>2 DEF IndInv, RowInv
    <3>. QED BY <2>2, <3>3 DEF RowOf, KernelActs, Product
  <2>3. CASE work[Main].at # "done"
    <3>1. Splits(call) /\ i < r0 /\ Live = {}
      BY <2>3 DEF IndInv, PhaseInv
    <3>2. PICK w \in Started \ {Main} : i \in Block(w)
      BY <3>1 DEF IndInv, BlockInv
    <3>3. work[w].at = "done" /\ KernelActs(w)
      BY <3>1, <3>2 DEF Live, Started, IndInv, KernelInv, KernelOK
    <3>4. dst[i] = Upto(call.k)
      BY <3>2, <3>3 DEF IndInv, RowInv, RowOf
    <3>5. Sized(call, call.dst, call.a, call.b, call.m)
      BY <2>1, <3>1, <3>2, <3>3 DEF KernelActs, Sized, Splits
    <3>. QED BY <3>4, <3>5 DEF Product
  <2>. QED BY <2>2, <2>3
<1>. QED BY <1>1, Invariance, PTL

LEMMA ReturnedIsQuiet ==
    ASSUME IndInv, pc = "returned", [Next]_vars
    PROVE  UNCHANGED <<call, pc, dst>>
<1>1. Live = {}
  BY LiveFacts
<1>2. \A w \in Workers : ~Worker(w)
  BY <1>1 DEF Live, Worker, Begin, Panic, Zero, MulAdd, Dot, Exit
<1>. QED BY <1>2 DEF Next, Caller, Decide, Spawn, AllSpawned, Wait, Finished, vars

\* The destination is left alone once the call has returned.
THEOREM QuietAfterReturn == Spec => NoLateWrite
<1>1. IndInv /\ [Next]_vars => [pc = "returned" => UNCHANGED dst]_vars
  BY ReturnedIsQuiet
<1>. QED BY <1>1, Invariance, PTL DEF Spec, NoLateWrite

\* Every step of the parallel call is a step of the serial call or no step at
\* all to whoever waits for it: the safety half of ImplementsSerialCall.
THEOREM SafeRefinement == Spec => Serial!Init /\ [][Serial!Run]_(Serial!vars)
<1>1. Init => Serial!Init
  BY DEF Init, Serial!Init, Serial!Rows, Serial!Old, Old
<1>2. IndInv /\ ReturnsProduct' /\ [Next]_vars => [Serial!Run]_(Serial!vars)
  <2>. SUFFICES ASSUME IndInv, ReturnsProduct', [Next]_vars
                PROVE  [Serial!Run]_(Serial!vars)
    OBVIOUS
  <2>1. call' = call
    BY DEF Next, Caller, Decide, Spawn, AllSpawned, Wait, Finished, vars,
           Worker, Begin, Panic, Zero, MulAdd, Dot, Exit
  <2>2. CASE pc = "returned"
    BY <2>2, ReturnedIsQuiet DEF Serial!vars
  <2>3. CASE pc # "returned" /\ pc' = "returned"
    BY <2>1, <2>3 DEF Serial!Run, ReturnsProduct, Product, Serial!Product, Sized, Short, Upto, Old,
       Serial!Sized, Serial!Short, Serial!Upto, Serial!Old, Serial!Rows
  <2>4. CASE pc # "returned" /\ pc' # "returned"
    BY <2>1, <2>4 DEF Serial!vars
  <2>. QED BY <2>2, <2>3, <2>4
<1>. QED BY <1>1, <1>2, Invariance, ProductReturned, PTL DEF Spec

\* What the length checks promise about the workers' slice expressions.
THEOREM PanicOnlyOnNegatives == Spec => []OnlyNegativesPanic
<1>1. Init => OnlyNegativesPanic
  BY DEF Init, OnlyNegativesPanic
<1>2. IndInv /\ OnlyNegativesPanic /\ [Next]_vars => OnlyNegativesPanic'
  <2>. SUFFICES ASSUME IndInv, OnlyNegativesPanic, [Next]_vars, pc # "crashed", pc' = "crashed"
                PROVE  call'.k < 0 /\ call'.n < 0
    BY DEF OnlyNegativesPanic, Next, Caller, Decide, Spawn, AllSpawned, Wait, Finished, vars,
           Worker, Running
  <2>1. PICK w \in Workers : Panic(w) /\ call' = call
    BY DEF Next, Caller, Decide, Spawn, AllSpawned, Wait, Finished, vars,
           Worker, Begin, Panic, Zero, MulAdd, Dot, Exit
  <2>2. w \in Started \ {Main} /\ ~SlicesOK(w)
    BY <2>1 DEF Panic, Started, SlicesOK
  <2>3. /\ call \in Calls /\ call \in Call /\ Splits(call) /\ w \in Nat
        /\ work[w].hi \in Int /\ w < work[w].hi /\ work[w].hi <= call.m
    BY <2>2, CallsAssumption DEF IndInv, TypeInv, BlockInv, Started
  <2>4. call.k > 0 /\ call.n > 0 => SlicesOK(w)
    <3>. SUFFICES ASSUME call.k > 0, call.n > 0 PROVE SlicesOK(w)
      OBVIOUS
    <3>1. call.k \in Nat /\ call.n \in Nat /\ call.m \in Int /\ call.dst \in Int /\ call.a \in Int
      BY <2>3 DEF Call
    <3>2. call.m * call.n <= call.dst /\ call.m * call.k <= call.a
      BY <2>3, SplitsFacts
    <3>3. w * call.n <= work[w].hi * call.n /\ work[w].hi * call.n <= call.m * call.n
      BY <2>3, <3>1, TimesKeepsOrder
    <3>4. w * call.k <= work[w].hi * call.k /\ work[w].hi * call.k <= call.m * call.k
      BY <2>3, <3>1, TimesKeepsOrder
    <3>5. 0 <= w * call.n /\ 0 <= w * call.k
      BY <2>3, <3>1
    <3>. QED BY <2>3, <3>1, <3>2, <3>3, <3>4, <3>5 DEF SlicesOK, SliceOK
  <2>. QED BY <2>1, <2>2, <2>3, <2>4, SplitsFacts
<1>. QED BY <1>1, <1>2, Invariance, PTL DEF Spec

-----------------------------------------------------------------------------
(* How many goroutines there are.                                          *)

Spawned == Started \ {Main}

\* The loop has taken Cardinality(Spawned) turns, the last of them from a row
\* below m.
TurnsInv ==
    Splits(call) =>
      LET q == Cardinality(Spawned)
      IN  r0 = q * RowsPer(call) /\ (q > 0 => (q - 1) * RowsPer(call) < call.m)

LEMMA SpawnedFinite == IndInv => IsFiniteSet(Started) /\ IsFiniteSet(Spawned)
<1>. SUFFICES ASSUME IndInv PROVE IsFiniteSet(Started) /\ IsFiniteSet(Spawned)
  OBVIOUS
<1>1. call.m - 1 \in Int
  BY CallsAssumption DEF IndInv, TypeInv, Call
<1>2. IsFiniteSet(0 .. call.m - 1)
  BY <1>1, FS_Interval
<1>3. IsFiniteSet((0 .. call.m - 1) \cup {Main})
  BY <1>2, FS_AddElement
<1>4. Started \subseteq (0 .. call.m - 1) \cup {Main}
  BY DEF Started
<1>. QED BY <1>3, <1>4, FS_Subset DEF Spawned

\* Rounding up leaves room for every row.
LEMMA RoundedUpCovers ==
    ASSUME NEW c \in Call, NumWorkers(c) >= 1
    PROVE  c.m <= NumWorkers(c) * RowsPer(c)
<1>1. NumWorkers(c) \in Nat /\ c.m \in Int /\ c.m >= NumWorkers(c)
  BY DEF NumWorkers, Smaller, Call
<1>. DEFINE q == NumWorkers(c)
            x == c.m + q - 1
<1>2. q \in Nat /\ q >= 1 /\ x \in Nat
  BY <1>1
<1>3. x \div q \in Int /\ x < q * (x \div q) + q
  <2>. HIDE DEF q, x
  <2>. QED BY <1>2
<1>. QED BY <1>1, <1>3 DEF RowsPer

LEMMA TurnsStep == IndInv /\ TurnsInv /\ [Next]_vars => TurnsInv'
<1>. SUFFICES ASSUME IndInv, TurnsInv, [Next]_vars, Splits(call) PROVE TurnsInv'
  BY DEF TurnsInv, Next, Caller, Decide, Spawn, AllSpawned, Wait, Finished, vars,
         Worker, Begin, Panic, Zero, MulAdd, Dot, Exit
<1>1. call \in Calls /\ call \in Call /\ call.m \in Int /\ RowsPer(call) \in Nat
  BY CallsAssumption, SplitsFacts DEF IndInv, TypeInv, Call
<1>2. IsFiniteSet(Spawned) /\ Cardinality(Spawned) \in Nat
  BY SpawnedFinite, FS_CardinalityType
<1>3. CASE Spawn
  <2>. PICK b \in Nat : b = r0
    BY DEF IndInv, TypeInv
  <2>1. b \in Rows(call) /\ call' = call /\ r0' = b + RowsPer(call) /\ b < call.m
    BY <1>1, <1>3 DEF Spawn
  <2>2. b \notin Started
    <3>1. work \in [Workers -> WorkerState]
      BY DEF IndInv, TypeInv
    <3>2. b # Main /\ b \in Started => b < work[b].hi /\ work[b].hi <= b
      BY DEF IndInv, BlockInv
    <3>. QED BY <3>1, <3>2 DEF Started
  <2>3. Spawned' = Spawned \cup {b} /\ b \notin Spawned
    BY <1>3, <2>1, <2>2 DEF Spawn, Spawned, Started, IndInv, TypeInv
  <2>4. Cardinality(Spawned') = Cardinality(Spawned) + 1
    BY <1>2, <2>3, FS_AddElement
  <2>. DEFINE q == Cardinality(Spawned)
              d == RowsPer(call)
  <2>5. b = q * d /\ q \in Nat /\ d \in Nat
    BY <1>1, <1>2 DEF TurnsInv
  <2>6. (q + 1) * d = b + d /\ (q + 1 - 1) * d = b
    <3>. HIDE DEF q, d
    <3>. QED BY <2>5
  <2>. QED BY <2>1, <2>4, <2>6, <1>2 DEF TurnsInv, RowsPer, NumWorkers, Splits
<1>4. CASE UNCHANGED <<call, r0>> /\ Spawned' = Spawned
  BY <1>4 DEF TurnsInv, RowsPer, NumWorkers, Splits
<1>5. CASE Decide
  <2>1. UNCHANGED <<call, r0, work>>
    BY <1>5 DEF Decide
  <2>. QED BY <2>1, <1>4 DEF Spawned, Started
<1>6. CASE AllSpawned \/ Wait \/ UNCHANGED vars
  <2>1. UNCHANGED <<call, r0, work>>
    BY <1>6 DEF AllSpawned, Wait, vars
  <2>. QED BY <2>1, <1>4 DEF Spawned, Started
<1>7. ASSUME NEW w \in Workers, Worker(w) PROVE TurnsInv'
  <2>1. UNCHANGED <<call, r0>>
    BY <1>7 DEF Worker, Begin, Panic, Zero, MulAdd, Dot, Exit
  <2>2. Spawned' = Spawned
    <3>1. work \in [Workers -> WorkerState]
      BY DEF IndInv, TypeInv
    <3>2. \A v \in Workers \ {w} : work'[v] = work[v]
      BY <1>7, <3>1 DEF Worker, Begin, Panic, Zero, MulAdd, Dot, Exit
    <3>3. ASSUME Begin(w) PROVE work[w].at # "none" /\ work'[w].at # "none"
      BY <3>1, <3>3 DEF Begin, FirstStep
    <3>4. ASSUME Panic(w) PROVE work[w].at # "none" /\ work'[w].at # "none"
      BY <3>4 DEF Panic
    <3>5. ASSUME Zero(w) PROVE work[w].at # "none" /\ work'[w].at # "none"
      BY <3>1, <3>5 DEF Zero
    <3>6. ASSUME MulAdd(w) PROVE work[w].at # "none" /\ work'[w].at # "none"
      BY <3>1, <3>6 DEF MulAdd
    <3>7. ASSUME Dot(w) PROVE work[w].at # "none" /\ work'[w].at # "none"
      BY <3>1, <3>7 DEF Dot
    <3>8. ASSUME Exit(w) PROVE work[w].at # "none" /\ work'[w].at # "none"
      BY <3>1, <3>8 DEF Exit
    <3>9. work[w].at # "none" /\ work'[w].at # "none"
      BY <1>7, <3>3, <3>4, <3>5, <3>6, <3>7, <3>8 DEF Worker
    <3>. QED BY <2>1, <3>2, <3>9 DEF Spawned, Started
  <2>. QED BY <1>4, <2>1, <2>2
<1>. QED BY <1>3, <1>5, <1>6, <1>7 DEF Next, Caller, Finished

\* Never more goroutines than GOMAXPROCS, however the division rounds.
THEOREM ProcsBound == Spec => []AtMostProcs
<1>1. Init => TurnsInv
  <2>. SUFFICES ASSUME Init, Splits(call) PROVE TurnsInv
    BY DEF TurnsInv
  <2>1. Spawned = {} /\ r0 = 0
    BY DEF Init, Spawned, Started
  <2>2. RowsPer(call) \in Nat
    BY SplitsFacts DEF Init
  <2>. QED BY <2>1, <2>2, FS_EmptySet DEF TurnsInv
<1>2. IndInv /\ TurnsInv => AtMostProcs
  <2>. SUFFICES ASSUME IndInv, TurnsInv PROVE AtMostProcs
    OBVIOUS
  <2>1. call \in Calls /\ call \in Call /\ call.procs \in Nat /\ call.procs >= 1
    BY CallsAssumption DEF IndInv, TypeInv, Call
  <2>2. CASE Main \in Started
    <3>1. Started = {Main}
      BY <2>2 DEF IndInv, PhaseInv, BlockInv, Started, TypeInv
    <3>. QED BY <2>1, <3>1, FS_Singleton DEF AtMostProcs
  <2>3. CASE Started = {}
    BY <2>1, <2>3, FS_EmptySet DEF AtMostProcs
  <2>4. CASE Main \notin Started /\ Started # {}
    <3>1. Splits(call) /\ Spawned = Started
      BY <2>4 DEF IndInv, BlockInv, Spawned
    <3>. DEFINE q == Cardinality(Spawned)
                d == RowsPer(call)
                n == NumWorkers(call)
    <3>2. q \in Nat /\ d \in Nat /\ call.m \in Int /\ n \in Int /\ n >= 1 /\ n <= call.procs
      <4>1. q \in Nat
        BY SpawnedFinite, FS_CardinalityType
      <4>2. d \in Nat /\ call.m \in Int
        BY <2>1, <3>1, SplitsFacts DEF Call
      <4>3. n \in Int /\ n >= 1 /\ n <= call.procs
        BY <2>1, <3>1, <4>2 DEF NumWorkers, Smaller, Splits
      <4>. QED BY <4>1, <4>2, <4>3
    <3>3. q > 0 => (q - 1) * d < n * d
      BY <2>1, <3>1, <3>2, RoundedUpCovers DEF TurnsInv
    <3>4. q <= n
      <4>. HIDE DEF q, d, n
      <4>. QED BY <3>2, <3>3
    <3>. QED BY <2>1, <3>1, <3>2, <3>4 DEF AtMostProcs
  <2>. QED BY <2>2, <2>3, <2>4
<1>. QED BY <1>1, <1>2, TurnsStep, Invariance, PTL DEF Spec
=============================================================================
