# Models and proofs of simd

`simd` is a Go library of data-parallel operations: each operation has a portable
reference in `internal/ref`, kernels compiled from `csrc/` for every architecture, and a
dispatcher that picks between them when the process starts. Most of it is arithmetic with
no state. What this directory models is the rest, the code in which the *order* of steps
matters: goroutines, caches filled on first use, calls that go on from where the last one
stopped, in-place algorithms, and the boundaries at which one algorithm gives way to
another.

Paths below are those of the repository. `PROJECT.json` lists the runs, which definition
stands for which lines, the hazards and the theorems. Where a comment of the code is quoted
as the reason for a property, the property's own comment gives the line.

- [Components](#components)
- [Modules and the code](#modules-and-the-code)
- [Runs](#runs)
- [Where the code and its words differ](#where-the-code-and-its-words-differ)
- [Proofs](#proofs)
- [Not modelled](#not-modelled)
- [Plan](#plan)

## Components

For each part: what state it keeps, its operations, whom it calls or shares with, what is
hard about it, and what makes it correct.

**Parallel matrix product** (`parallel.go`). State: the output slice, shared by up to
GOMAXPROCS goroutines, and a WaitGroup. Operations: `MatMulParallelInto`,
`GemvParallelInto`. Calls the serial kernels, through the kernel dispatch. Hard: which
goroutine writes what, and when the caller may look; a panic in a goroutine ends the
program. Correct when it is the serial call, to the bit, for every schedule.

**Stream accumulators** (`stream.go`). State: sixteen lanes and a count; a minimum, a
maximum and a flag. Operations: `Add`, `Sum`, `MinMax`, `Reset`. Calls the `SumLanes` and
`MinMax` kernels. Hard: a chunk may start anywhere in the rotation of the lanes, and NaN
must survive any order of chunks. Correct when how a stream was cut cannot be told from
the result.

**CPU tier selection** (`internal/cpu`, `backend_*.go`). State: the package's `Selection`,
made once, from hardware feature bits and two environment variables. Hard: the
combinations. Correct when no instruction runs that the machine lacks, a pin is obeyed or
explained, and the strongest tier that is allowed is taken.

**Kernel dispatch** (`dispatch.go`). State: `tierIdx`; per element type a cache of merged
kernel groups behind a `sync.Once`. Every operation goes through it. Hard: goroutines that
make their first call together. Correct when all get the one complete group and nobody
reads a slot that is being stored. Fields may be empty, in the reference as in the tables:
`Partition` is one that callers test for nil.

**Sorting** (`sort.go`). State: the slice, the recursion, a scratch slice. Operations:
`Sort`, `SortInto`, `Argsort`, `SortedIndex`. Uses the `Partition` kernel and, when it is
small or deep, the standard library. Hard: windows, runs of equal values, NaN, two zeros,
adversarial inputs. Correct when sorted, a rearrangement of the input, and of bounded
depth.

**Selection** (`sort.go` `selectKthInto`, `internal/ref/compare.go` `selectKth`). Two
quickselects behind one promise. Hard: one has scans with no bounds check. Correct when
the k-th smallest is at k and separates the rest.

**Order statistics** (`compare.go`, `wrangle.go`). `Median`, `Quantile`, `TopK`,
`BottomK`, over a selection, and integer interpolation in the element type. Hard: even
lengths, ends of the range, NaN, overflow, and a position rounded in float64. Correct when they agree with the sorted slice.

**Several-source sums** (`nary.go`). `AddAll` and `MulAll` fold any number of sources into
one slice in groups of four, each group reading what the last one wrote. Hard: slices of
different lengths and a source that is the destination. Correct when the result is that
of the binary calls from left to right.

**Multi-needle search** (`multi.go`). State: the compiled needles, immutable. `Index`
scans for the rarest bytes and goes on after a match as far as an earlier one can be.
Correct when the earliest match is returned whatever the byte ranking.

**Counter-based random numbers** (`random.go`). No state between calls: an element is a
function of the seed and its index in the slice the call is given. Correct when a slice
filled in parts is the whole, as the comment over `RandomInto` says; it is not.

**Varints** (`varint.go`, its reference, `csrc/convert.c`). `AppendVarints` writes values
of up to ten bytes into a buffer sized beforehand; `VarintDecode` reads as many as both
slices have room for and says how far it came, and its caller goes on from there. Hard: a
value cut by the end of the buffer, and one that never ends. Correct when any cut of the
stream gives the same values.

**Run lengths, LZ4 blocks** (`rle.go`, `lz4.go`, references, `csrc/scan.c`, `csrc/lz4.c`).
State: an index into each buffer. Hard: three buffers that may each end first; matches that
overlap what they write, lengths that go on byte by byte, wide copies beside a bound.
Correct when what is written is a prefix of what the input means, and nothing else is.

**Sorted merge and set operations** (`merge.go`, `sets.go`, `csrc/merge.c`,
`csrc/sets.c`). Two cursors; the kernels carry a block from turn to turn. Hard: what is
still carried when one side runs out. Correct when nothing is lost, repeated or late.

**Bit vectors, rank and select** (`bitvector.go`). A table of the bits before each word;
`Select` searches it. Hard: empty words repeat an entry. Correct when it inverts `Rank`.

**JSON validation** (`text.go`, `internal/ref/text.go`). State: three carries from block to
block, a word of nesting bits, a stack of full words, a grammar state. Hard: a string, a
run of backslashes or a number that crosses a block; a push and a pop on either side of a
spill. Correct when the answer is that of the grammar, or that the stack is full.

**Transcoding** (`utf16.go`). UTF-8 to UTF-16 or runes and back, in runs of ASCII and single
runes. Hard: it advances by what a kernel returns. Correct when nothing is lost where a turn
ends, and it ends.

**Compress, expand, base64, numbers as text** (`compress.go`, `columnar.go`, `escape.go`,
`parsefloat.go`, `dtoa.go`): one cursor or none; arithmetic on words.

**Signal processing, statistics, elementwise kernels** (`fft.go`, `convolve.go`,
`stats.go`, `math.go`, `convert.go` and others): functions of their elements.

**C kernels, generated assembly and tables, tools.** What the dispatcher selects from,
and how it is built and measured.

Who calls whom: every operation takes its kernel from *kernel dispatch*, which took its
slot from *tier selection*. *Order statistics* call *selection*; *selection* and *sorting*
share the partition kernel. The *parallel matrix product* runs the serial kernels in
goroutines. *Accumulators*, *sums*, *searches*, the *columns* and the *texts* are called by one goroutine at a time
with whatever it has in hand.

## Modules and the code

Each module names the functions of the code in its actions. One action is one turn of a
loop, one call of a kernel, or one step between which another goroutine can act. Floating
point appears as far as its order of operations: a sum is the list, or the term, of what
was added to what. Addition is not associative, so two results are the same bits for every
input exactly when their lists are the same, and a regrouping that no test with friendly
numbers would notice is a different state.

| module | code | state and actions |
|---|---|---|
| `RowProduct` | shape of `MatMulInto`, `GemvInto` | operators only: a row's value is the list of terms added to it |
| `SerialCall` | what a caller is promised | `Run`: the call returns once, with the serial product |
| `ParallelRows` | `parallel.go`, kernels of `internal/ref/compare.go` | `Decide` (the guards and the serial path), `Spawn` (`wg.Add`, `go`), `AllSpawned`, `Wait`; per goroutine `Begin` and `Panic` (its slice expressions), `Zero`, `MulAdd`, `Dot`, `Exit` (`wg.Done`, or the serial return) |
| `Accumulator` | `Accumulator[T]` | `Call`, `HeadStep`, `HeadDone`, `BodyStep`, `BodyDone`, `TailStep`, `Return`, `Reset`: the scalar head, the kernel's body and the tail of `Add` |
| `FloatMinMax` | `internal/ref`, `csrc/minmax.h`, `math.Min` | operators only: the two-operand minima, the reference fold and the lane-wise kernel |
| `MinMaxAccumulator` | `MinMaxAccumulator[T]` | `AddNothing`, `AddFirst`, `AddMore`, `Reset`, with either reduction |
| `StreamAccumulators` | `stream.go` | the life of one accumulator or the other |
| `TierSelect` | `internal/cpu`, `tierIndexFor`, `tierIndexOf`, backends | `InitCpu`, `InitSimd`: package initialization in the order Go does it |
| `Ordered` | | operators only: the place of a member of a set of numbers, and what a list keeps of another |
| `OpsCache` | `opsCache.get`, `groupCache`, `overlayAny` | per goroutine `Call`, the fast read, `Lock`, `Recheck`, `BuildSlot`, `Store`, unlock, `Read` |
| `Dispatch` | `dispatch.go`, `internal/cpu` | `Next` of `TierSelect`, then `Operation` and `Get` of the goroutines |
| `NaNLast` | helpers of `sort.go` | operators only: the order, the partition's contract, the fallback |
| `QuickSort` | `Sort`, `quicksort`, `extractEqual` | a stack of frames; `Call`, `Step` (one turn of the running frame), `Finish` |
| `OrderStatistics` | `MedianInto`, `QuantileInto`, `TopKInto`, `BottomKInto` | the ways out before the selection, `Select` (the abstract one: any slice a selection may leave), the deliveries |
| `SelectKth` | `selectKthInto`; `selectKth`, `partition`, `medianOfThree` | both quickselects, on variables of their own: `KernelCall` and `KernelTurn` (`Narrow`, `GiveUp`, `LoopDone`), `PortableCall` and `PortableTurn` (`Settle`, `Park`, `Exchange`, `Descend`, a swap at a time); `SelectReturns` |
| `SelectedStatistics` | the four operations with the selections they call | `AtOnce`, `StartSelect`, `SelectTurn`, `EndSelect`, `Deliver`: the operations of `OrderStatistics`, with a quickselect for its `Select` |
| `IntMidpoint` | `midpoint`, `lerp` of integers, both copies | `AskQuantile`, `AskMedian`: a table of quantiles and the median, in the width of the type, with every float64 operation rounded |
| `CounterRandom` | `RandomInto`, `RandomU64` | `Fill`: two goroutines with one seed, an element per step |
| `NaryFold` | `naryFold`, the kernels of `internal/ref/nary.go` | one kernel call per action |
| `MultiSearch` | `NewMultiSearcher`, `index`, `indexLoop` | a turn of the scan, or of the loop over the needles |
| `JsonValid` | `jsonValid`, `stage1Escaped`, `refNumberEnd` | `StartBlock` (the masks, the carries and the checks in their order), `EndBlock`, `Finish`; an action for each way a significant byte is taken: `Colon`, `Key`, `Comma`, `String`, `Open`, `TooDeep`, `Close`, `NumberLast`, `NumberHere`, `NumberOn` (the loop lands in a later block), `Reject` |
| `Transcode` | `utf16.go` | a turn is a run of ASCII or a rune: `CopyRun`, `WidenRune`, `NarrowRune`; `BackToUTF8` is a second call on what the first wrote |
| `TextCalls` | | one call of `MultiSearch`, `JsonValid` or `Transcode` |
| `Calls` | | the variables a call is made of: arguments, locals, what it has written |
| `VarintStream` | `AppendVarints`, `VarintDecode`, `simd_varint_decode_u64` | `EncodeByte`, `Encoded`; the receiver's `ReceiveSome` and `ReceiveEnd`; `DecodeLoaded` (a value out of one load), `DecodeBytes`, `DecodeReturn` |
| `RunLength` | `RunLengthEncodeInt32`, `RLEDecodeInt32`, `simd_rle_decode_i32` | `InsideRun`, `WriteRun`, `EncodeEnd`; `SkipRun`, `ExpandRun`, `StoreWide`, `StoreOne`, `RunStored`, `ExpandEnd` |
| `Lz4Block` | `LZ4BlockDecode`, `simd_lz4_block_decode` | `ReadToken`, `LengthByte`, `StartCopy`, `CopyLiterals`, `LiteralsCopied`, `Offset`, `CopyMatch` (a byte or a vector), `MatchCopied`, `Malformed` |
| `SortedMerge` | `internal/ref/merge.go`, `csrc/merge.c` | `MergeBlocks` (a block in, the lower half of two out), `BlocksEnd`, `DrainLeast`, `MergeEnd` |
| `SortedSets` | `sets.go`, `csrc/sets.c`, the reference's cursors | `IntersectTile`, `DifferenceTile`, `TilesEnd`, `PendingLane`, `PendingEnd`, `IntersectCursors`, `DifferenceCursors`, `CursorsEnd` |
| `RankSelect` | `bitvector.go` | `AskRank`, `SelectNone`, `SelectStart`, `SearchTurn`, `SearchEnd`, `ClearLowest`, `SelectBit` |
| `ColumnCalls` | | one call of one of the six modules above, by the reference or by the kernel |

Modules called `MC...` give the constants small values; a module whose configuration needs
no definition for that is run directly, and `IntMidpoint` brings its inputs (`FourBitInputs`)
itself. Modules called `...Proofs` hold theorems; `NaturalFacts` holds the lemmas several of
them need. Operators marked "Wrong on purpose" are not used by the specification: each is a
definition with a plausible slip in it, and stands beside the right one to show that some
property tells them apart.

Composition: `ParallelRows` implements `SerialCall`. `SelectedStatistics` composes the
four operations with the two quickselects of `SelectKth`, each on the path the code takes it
on, and implements `OrderStatistics`, where a selection is one step that may leave any
rearrangement with the k-th smallest at k and the rest on its sides. `IntMidpoint` starts
from the two values `OrderStatistics` delivers. `Dispatch` is a
process that `TierSelect` initializes and whose goroutines then call `OpsCache`, of which
the slot chosen is the constant `TierIdx`. `StreamAccumulators`,
`ColumnCalls` and `TextCalls` put side by side what shares no state: a behaviour is the
life, or the call, of one of their parts. Within it calls meet where callers make them meet:
what `AppendVarints` wrote arrives in pieces at `VarintDecode`, what was encoded in runs is
expanded, `Rank`'s answer is `Select`'s question, and what became UTF-16 goes back.

Choices of abstraction worth knowing:

- The partition kernel is the reference's stable split; that the kernels keep to it is for
  the repository's differential tests. `sync.Once`, `sync.WaitGroup` and the standard sort are modelled
  from what Go documents of them, `Once` down to its flag and its mutex.
- Go's `int` products are taken not to wrap in `ParallelRows`. `IntMidpoint` does wrap: it
  is about that.
- In `IntMidpoint` a float64 is a whole multiple of the smallest one, and the position, the
  fraction, the gap and their product are each rounded to the nearest float, ties to even,
  with a precision that is a constant. A NaN for q is left out, and so are targets whose
  compiler fuses the product into the subtraction that follows it.
- A group of `OpsCache` has empty fields wherever the constants say so; that callers test
  them, or have no use for them, is for their own code.
- Names in `SIMD_DISABLE` that no tier of the architecture has mask nothing; one name, `junk`,
  stands for them in `TierSelect`.
- A block, a word, a vector, a base-128 group or a nibble is a few bits wide, by a constant.
  The kernels of `csrc` are modelled where they do not go the reference's way; a vector
  store is one step. The escape masks of `JsonValid` are computed as the code does, by an
  addition that carries out of the word, and its properties say byte by byte what they mean.
- Text is made of classes: of bytes in `JsonValid`, of characters in `Transcode`. What the
  standard library does with one rune is external; the run kernel is taken to find all of a
  run, some of it or nothing, since the code does not trust it.
- `CounterRandom` takes the finalizer as a bijection, which is what it is, so that an
  element stands for its counter.

## Runs

Passing runs. `PROJECT.json` names for every property a definition and a "wrong on purpose"
neighbour of it; put in its place, the neighbour violates the property.

Where a component has an invariant that holds the rest together it is one conjunction of
named parts, each with its own comment: `SortInv`, `SelectInv`, `ScanInv`, `NestingKept` and
`SelectionInv`, which the runs check, with the type invariant among the parts. `SortInv` is
inductive as it stands. The inductive invariants of the other proofs (`IndInv` of
`ParallelRows` and `Accumulator`, `CacheInv` of `OpsCache`, those of the proof modules) are
proved, so that no run repeats them.

| run | what it asks | bounds, and why they are enough |
|---|---|---|
| `parallel_rows` | no row has two writers (`NoSharedRow`), at most GOMAXPROCS goroutines (`AtMostProcs`), the caller gets the serial product, bit for bit (`ReturnsProduct`), a goroutine panics only when k and n are both negative (`OnlyNegativesPanic`), and all of it implements `SerialCall`: the call returns once and nothing is written afterwards | up to 5 rows and 4 processors: rows that divide by the workers, that leave a short last block, and that make fewer blocks than workers; thresholds of 8 and 4 put shapes on both sides; zero, one and two negative dimensions, and slices one element short |
| `streams` | any cut into chunks leaves the lanes of the whole (`ChunkingInvisible`), every `Add` returns (`AddReturns`); minimum and maximum are those of the whole stream, short of an infinity meeting a NaN between chunks (`WholeMinMax`), and the range never narrows (`NeverNarrows`) | 4 lanes for 16; chunks to 11, streams to 22: every phase of the rotation meets an empty, a short and a two-block body. 2 lanes and chunks of up to 5 of the six values that can be told apart, in any order, with any tier for each chunk |
| `dispatch` | an unsupported tier is never run (`NeverUnsupported`), a pin is obeyed or falls to the reference and without one the strongest built tier is taken (`PinnedOrStrongest`), a pin not followed is explained and the list is in order (`SelectionInv`); then nobody is handed a slot not stored yet or a group that lacks a kernel somebody has (`ReturnsMergedGroup`), the merge is done once (`OnePointer`), no slot is read while stored (`NoRace`), every call returns (`GetReturns`) | every architecture, with and without assembly, every set of features and every pin; every mask, from none to all of the architecture's tiers, with and without a name that is not one of them. Where they end on AVX-512, 3 goroutines (one builds, one waits, one reads fast), 4 tiers, 4 fields: one that both have, one only the reference, one only the tier, one neither |
| `quicksort` | what is returned is sorted (`ReturnsSorted`); at every turn the slice is a rearrangement, the windows that wait are apart and fenced, the depth is bounded by the budget and the rest is final (`SortInv`); `Sort` returns | all slices of up to 4 out of 5 values with NaN and both zeros, longer ones that extract runs and exhaust the depth; cutoff 2 so that short slices recurse |
| `selected_statistics` | at every turn of either quickselect what lies outside its window belongs there and the k-th smallest is still inside, and the portable scans stay in range without a check (`SelectInv`); the values delivered are those of the sorted slice, TopK and BottomK its ends (`ResultsOfSorted`); all of it implements `OrderStatistics`, and returns | slices of up to 4 out of 4 values, NaN and both zeros among them, of 5 out of 3 values, and 120 orders of 6 different ones, with every k; the kernel path from 4 elements on, and its cutoff at 2, so that short slices go both ways |
| `int_midpoint` | a quantile lies between the order statistics around its exact position and the median is the exact mean rounded down (`StaysBetween`), quantiles rise with q (`RisesWithQ`), and the half quantile is the median up to the rounding of the gap (`MedianIsHalfQuantile`) | 4-bit types, signed and unsigned, with floats of 3 bits: the gaps from 9 on are not all floats, as 64-bit gaps are not; slices of up to 5, positions that round up to the next index; q from below 0 to above 1 |
| `nary_fold` | the left-to-right fold (`LeftToRight`), nothing written past the shortest of up to four (`FourBoundedByShortest`) | 0 to 10 sources: every remainder after the first group, twice; one short source in each place, one that is `dst` in each place |
| `text_calls` | the earliest match, by position and then by needle (`EarliestReturned`), with everything behind the scan settled (`ScanInv`); a text is valid when the grammar says so, or too deep for the stack (`ValidIsDocument`), and in every state the nesting and the carries are those of the bytes seen so far (`NestingKept`); what is transcoded is the encoding of what was consumed, and comes back (`Transcodes`); every call returns (`Returns`) | up to 3 needles out of 7 strings with anchors at every offset, haystacks of up to 6 bytes, two rankings, loop up to 2 needles and scan above. Blocks of 4 bytes and words of 2 levels: all texts of 3 bytes, strings of up to 6 with every run of backslashes, numbers over three blocks, all values of 11 tokens (five levels deep, of which a stack of one word holds four) and those of 7 with a token lost or replaced, with and without such a stack. Texts of up to 5 characters with a floor of 3, and kernels that find all, one or none of a run |
| `columns` | a resumed decoder gives the values of the whole (`ResumedIsWhole`); runs expand to what they were taken from, as far as the rooms go (`RunsRoundTrip`); a block's output is its meaning, a prefix of it at every step (`BlockMeaning`); nothing comes late in a merge (`MergesInOrder`); the sets are exact (`SetsExact`); `Select` inverts `Rank` (`SelectInvertsRank`); every call returns (`ColumnCallReturns`) | two-bit groups and five-bit words, three bytes to a value and loads of two, every cut and rooms of up to two values; columns of up to five elements with every room short or not; all blocks of four bytes and longer ones around a match, offsets from 0 past the start; merges with both sides over two blocks of four, sets of 1..6 in tiles of two; up to three words of three bits, empty ones among them |

Thresholds (`sortCutoff`, `multiLoopMax`, `matMulMinWork` and the like) are constants set
small so that both sides of each are reached by short inputs; none of the properties
depends on their values, and the theorems leave them open.

Deadlock is checked wherever a model goes on for ever or ends in an explicit step that
leaves everything as it is. It is off where a single call is modelled and ends.

**Fairness.** Go's scheduler runs every runnable goroutine, so each goroutine's next step
is weakly fair (`ParallelRows`, `OpsCache`). `sync.Mutex` hands itself to
a waiter that has starved for a millisecond, so taking the lock is strongly fair
(`OpsCache`). A function that has been called runs on (`Accumulator`, `QuickSort`,
`SelectedStatistics`, `TextCalls`, `ColumnCalls`); that anybody *calls* is never assumed.

## Where the code and its words differ

Each of these sentences is a definition, in the module named, and the code does not keep
it: TLC refutes it. Three are runs of their own, which end in that violation: `minmax_nan`,
`int_median_gap` and `counter_random`; `PROJECT.json` quotes their sentences. The others are not among the invariants of the passing
runs; to see a counterexample, name the definition as the one INVARIANT of the module's
configuration (with `Calls <- MCSixteen` for `SixteenInFour`, and
`Inputs <- MCPairs` for `StackIsLogarithmic`).

| definition | the sentence | the code |
|---|---|---|
| `NaNSticky` (`MinMaxAccumulator`) | `stream.go`: a NaN anywhere makes both results NaN | across chunks, `math.Min(-Inf, NaN)` is -Inf |
| `NoWorkerPanic` (`ParallelRows`) | `parallel.go:69-74`: no panic inside a worker that the serial call never had | two negative dimensions make a positive product: the call splits, and its goroutines panic where the serial call returns |
| `StackIsLogarithmic` (`QuickSort`) | `sort.go:154-155`: the stack is bounded by log2(n) frames | the branch behind `extractEqual` recurses on the larger side too; what bounds it is the depth budget, `DepthBoundsStack` |
| `SameBits` (`QuickSort`) | `sort.go:202-203`: `extractEqual` moves elements | a run of equal values is written as one of them, and the zeros of both signs are equal |
| `NaNsLastReturned` (`SelectedStatistics`) | `wrangle.go:16-17`: NaNs are the last thing `TopK` returns | they are the first |
| `GapCannotOverflow` (`IntMidpoint`) | `sort.go:395-397`: `hi-lo` cannot overflow | for signed types it can: the `int8` median of -128 and 0 is 64 |
| `TruncatesTowardZero` (`IntMidpoint`) | `compare.go:256`: integer quantiles truncate toward zero | they are rounded down from the lower neighbour: between -3 and 0, a half is -2 |
| `Splittable` (`CounterRandom`) | `random.go:29-30`: two goroutines filling halves fill the whole | both start at counter 0: the second part repeats the first |
| `BoundedByShortest` (`NaryFold`) | `nary.go:62`: work is bounded by the shortest slice | with more than four sources, each group is bounded by its own |
| `SixteenInFour` (`NaryFold`) | `nary.go:65-66`: a sixteen-way sum is four passes | five: only the first takes four sources |
| `TiesByNeedleOrder` (`MultiSearch`) | `multi.go:129-131`: the earliest-listed needle wins a tie | an empty needle is returned before one listed earlier that matches at 0 |

Three more were met while reading and have no definition here. `utf16.go:126-128` says that
sizing a buffer for `AppendUTF16` with `len(s)` is never more than a factor of two too large;
a text of three-byte runes needs a third. The comment over `simd_rle_decode_i32`
(`csrc/scan.c:336-340`) promises -1 when the total would pass the destination, and the kernel
stops there, as the reference does. `convolve.go:45-46` says that nothing happens when `dst`
overlaps an input; nothing compares the addresses.

## Proofs

What TLC finds on a small instance, these theorems say for every value of the constants.
All of it is proved from the named assumptions on the constants, which the runs evaluate.
Each proof is the usual three facts: the invariant holds at the start, every action keeps it
(one lemma for an action, one step for a conjunct it can disturb), and it implies the
property.

**`ParallelRowsProofs`.** For any set of calls and any positive thresholds: no two
goroutines write one row, at most GOMAXPROCS are started, the WaitGroup counts them, the
caller gets the product with its terms in order, nothing is written after the return, the
initial state and every step are those of `SerialCall` (without its fairness), and only
a negative k with a negative n panics. None of these is inductive. `IndInv` adds what the blocks have
in common with the loop variable (they lie one after the other below it and leave no gap),
and for each goroutine the exact contents of its rows as a function of how far it is;
that a row is final when its goroutine has left is then a matter of looking it up. For
the bound on goroutines a second invariant counts the turns of the loop, for which blocks
rounded up must cover the rows.

**`AccumulatorProofs`.** For any number of lanes and any bounds: after any sequence of chunks
the lanes are those of one chunk. `IndInv` says what the lanes hold in the middle of a call:
in the body, block `b` of lane `j` is the element `i + SumLanes*b + j`, which is that lane's
next element only because the head has brought the count to a multiple of the lanes. The
sums being lists, the lemmas are about the elements of a stream that belong to one lane.
The second half is about both accumulators as `StreamAccumulators` runs them: whatever
the lanes of the kernel and wherever the stream is cut, minimum and maximum are those of the
whole, short of an infinity that met a NaN, and no `Add` narrows them. Either reduction of a
chunk gives its first value in a total order of the six that can be told apart (NaN, then the
infinity, and -0 before +0 or after it), because every element of the chunk is in a lane of
the kernel or in its tail; what is accumulated is then the first of everything seen.

The third part is `NaryFold`, for any number of sources and any lengths: the left-to-right
fold as far as the shortest source reaches, if no source after the fourth is the
destination; the bound by the shortest up to four sources; and the number of passes. The
invariant is the fold of the sources used so far, with as many passes as they take.

**`SliceProofs`.** Of `QuickSort`, for every slice, cutoff, skew limit and budget: at every turn the slice is a
rearrangement of the caller's, the windows still to be sorted are apart from each other
and fenced (what lies left of one is not greater than anything in it, what lies right not
less), a call is no deeper than its budget, and whatever is in no window is where it
belongs. `SortInv` is inductive. A turn of `quicksort` replaces the running window by two
that the pivot separates, or by what `extractEqual` leaves, and rewriting one window keeps
the fences of the others; when no window is left the slice is sorted. That nothing is lost
is a statement on the number of elements equal to each value, which adds up over the parts
of a slice; the two zeros count as one value, the code being free to write one for the other.

Of selection, for every slice, cutoff, budget and index: both quickselects keep what
they have been given, the live window stays fenced and the position asked for stays in it.
`SelectIndInv` adds to `SelectInv` where the two indices of the portable partition are,
`lo <= i < j < hi`, because that is what stops its loops: `a[j]` is not below the pivot and
`a[i]` not above it, so neither loop can pass the other's start. At the end of a partition
everything left of the pivot's place is at most the pivot and everything right of it at
least, and so both halves are fenced, by the same lemmas that serve the sort. Then, of
`OrderStatistics`: whichever arrangement a selection leaves, what is delivered is what the
sorted slice has there. Two rearrangements in order agree in every place (at the first place
where they did not, one would hold fewer of the smaller value), the two sides of the selected
element sorted each on its own are the whole slice sorted, and the neighbour wanted is the
greatest of one side or the least of the other. Every step with a quickselect is a step of
`OrderStatistics` or leaves its variables alone, so the results carry over to either select.

**`DispatchProofs`.** Of the cache, for any goroutines, fields and kernels, and any reference
and tables, with whatever empty fields: no call returns the nil pointer of a slot not yet
stored, what it returns has every kernel the tier or the reference has, there is no race, the
pointer is always the same, and no slot is stored twice. `CacheInv`: only the holder of the mutex builds, the flag is up only when all the
slots are stored, and while one builds exactly those below its index are. Of tier selection, for any
architecture, features, build, pin and set of masked tiers: no tier runs that the machine lacks, a pin is
obeyed or gives way to the portable code, without one nothing stronger was allowed, and a
pin that is not followed is explained. `Dispatch` is shown to be both (`BothInOne`).

**`CodecProofs`.** One invariant for each function, which says nothing of a call of another:
`ColumnStep` shows that a step of `ColumnNext` is one of the function that was called.

- A text that is widened and turned back is itself with its malformed bytes replaced, the
  two lengths are those of what would be written, and `len(s)` elements are enough. The
  invariant: the text is what is done followed by what is not, no surrogate pair is cut
  between them, and what is written is the done part in the other encoding. One more symbol
  changes no character before it unless it completes a pair, so a turn adds
  to what is written what the consumed run is by itself; whatever part of
  a run of ASCII a kernel claims, some of it is consumed and all of that is ASCII. The way back
  is by induction over the text.
- The runs of a column are whole runs of the part they were taken from, no two of them
  mergeable, and expand to it; the encoder stops early for want of room alone. What
  is expanded is in every state where the meaning of the pairs begins, and on return all of it
  that fits, also for pairs from no encoder, with counts of zero and below.
- What is decoded of an LZ4 block is at every step a beginning of what the format says the
  block means before the first sequence that is malformed or does not fit, and on return all
  of that, with its length or the error. The invariant says in which sequence the walk is, how
  far its lengths, its literals and its match have come, and that this is a stage the
  definition of the meaning goes through. Every sequence takes a byte at least, so the
  definition has stages enough; and a match that overlaps its own copy may be
  copied in parts because what is `offset` back in any of them is what comes next.
- A stream of varints gives the same values however it is cut, and what was encoded comes
  back. The assumption is that the modulus of a word lies between what one load holds and
  what the longest code can say. In any stream, whoever wrote it, the decoder stands
  behind a whole value, and the values are those of the ends it has passed, in their order;
  the value that one load cuts out is what the bytes would add up to, one by one. The loop ends early only when
  there is no whole value left in what it was given, and the receiver when more bytes could not
  make one. In a stream the encoder wrote the ends are the running sums of the code
  lengths, because a code has its continuation bit in every byte but the last, and a code
  weighs what it encodes.
- `Select` of `Rank` is the first set bit at or after a position. The table counts the bits
  before each word, the search keeps the answer's word between its bounds although empty
  words repeat an entry, and inside the word each turn clears a bit below the answer.
- Last, for the proof about JSON, what a word weighs and what an addition carries in it,
  place by place.

**`SearchProofs`.**

- The multi-needle search returns the leftmost match and, at one place, the needle given
  first, whatever the ranking of bytes, the anchors and the thresholds. Until it returns,
  no match before the cursor less the anchor's offset has been passed over.
- Intersection and difference write their answer exactly, by cursors or by tiles of any
  width, in every state its beginning. The invariant says which members of the tile of `a`
  are known to be in `b`, which cannot be, and which may be: behind the cursor in `b` no
  partner is left. The block pending when `b` runs out has to be emptied before
  the cursors go on.
- In a merge nothing comes too late and nothing is lost, for vectors of any power of two.
  First the network: of the numbers above some `z` it is enough to know in which lanes they
  are. A block in order behind the other one reversed changes between above and not above
  at most twice; an exchange folds such a row into two halves which change no more often, and one of
  which is above or not above `z` throughout. So after each round
  the lanes are rows half as wide, every earlier row below every later one, and after the last
  round a row is one lane. That lanes are only moved is a bijection each round adds to. Then
  the walk: nothing in the carried vector is above the last element loaded of one side, so of
  the carried block and the one with the smaller head, the lower half is not above
  anything that waits. The drain takes the least of three heads, and the two-cursor merge is the
  drain with nothing carried.
- Whatever the width of a block and of a word of levels, and whatever the document, the three carries into
  a block are what the bytes before it make them, and the word and its stack hold the kinds of the
  containers open at the byte that is reached (`NestingKept`). The masks come from additions, and
  a byte is escaped when the one before it is a backslash that is not. So first, by
  induction over a block: what the lower part of the sum of the runs and of their odd
  starts is, and what it carries, can be told place by place. It carries
  exactly while a run that begins at an odd place goes on, so that the bit after the run, which meets the even
  places, marks the byte that is escaped; the carry out of the word is that of a
  run that goes on in the next block. The parity of the quotation marks up to a place, with the carry of the
  block before, says whether the byte is in a string. Then the walk: `JsonInv` says that
  the bytes still to be walked are the significant ones from a place on, that between two
  blocks the carries are those of the end of the first, that the byte reached does not continue a number,
  so that what the walk takes is one token and what it skips none, and how each level is a bit of the word or of a word on the stack. Opening a level doubles
  the word, and the bits this pushes out of it are of levels already spilled; closing one
  halves it, or takes the spilled word back.
- The answer is 1 for a document and for nothing else, and -1 just when a text that is
  sound so far goes deeper than the word and the stack can hold (`ValidIsDocument`). The
  invariant, `AnswerInv`, joins to `JsonInv` what a walk that has not answered knows: the tokens
  so far begin a document, the state of the grammar says exactly what may follow the last of
  them, none of them was too deep, and no string in the blocks whose masks have been taken has a
  byte that may not be there. The reference says which token may follow which by looking at the whole
  beginning; a lemma says it by the last token, the innermost open container and whether a
  string is a key, which is what the six states tell apart. So a token that does not fit
  leaves no continuation that is a document; the first opening that does not fit the stack is
  the first deep place; and at the end of the text, be it a token or a number that runs on to it,
  the beginning is a document just when a value has ended and nothing is open.

**`ArithmeticProofs`.** Of `IntMidpoint`, for every integer type, every sorted slice and every
precision: as long as the gaps between neighbours are values of the type, quantiles lie
between the order statistics around their exact position and rise with q, and the median is
the exact mean rounded down. It rests on what rounding to nearest keeps: the
order, and every number that is a float already. A whole number of few enough bits is one, so
a position does not pass the next index, though it may be rounded up to it. A gap is a
float or is rounded to one that may be above it; but a fraction below 1 is below it by at
least half an ulp, and the product with the rounded gap, rounded again, is cut to no more than the
gap. The half quantile and the median come from different arithmetic: they agree, whatever
wraps, where the middle gap is a float, as it is in types of up to 32 bits, and
differ by at most half of what the gap was rounded by, and one, where it is not: for
`[0, 2^53+3]` they are 2^53 + 4 halved and 2^53 + 3 halved.

**`NaturalFacts`.** The library's induction theorems take a predicate, which the installed
provers cannot instantiate. Induction is done on sets instead: a set of natural numbers that
is not empty has a least element, and a set that has 0 and the successor of each of its members has
them all. From this come the place of a member in a finite set of numbers, quotient and
remainder for a divisor that is not a literal, and that a function defined by recursion on
`0 .. n` exists and obeys its equations, without which nothing can be said of a fold.

**Only model-checked:** everything that must *eventually* happen, which depends on fairness and is out of the
provers' reach: that calls return (`AddReturns`, `GetReturns`, `EveryCallReturns` and their
like), and the fairness of `SerialCall` and of `OrderStatistics`. Every safety invariant
of a passing run is stated by a theorem.

## Not modelled

- Floating-point rounding outside `IntMidpoint`, and elementwise kernels in general. They are functions of
  their inputs; their risk is in bits and ulps, for which the repository has differential
  tests against the reference.
- The generated assembly, its wrappers and the tables: some 1.7 million lines written by a
  program, nearly all of the repository's text. Models take each kernel by the reference it
  must match, or by its C source where that goes another way (`FloatMinMax` and the modules
  of `ColumnCalls`). The definitions here stand for a few thousand lines of hand-written code,
  and so for a small share of the whole.
- The kernels of the JSON pass, which handle two words in a turn, and `JSONStage1` with
  `JSONValidTokens`, which make the same pass in two calls. In `JsonValid` signs, fractions,
  exponents, leading zeros and the three names are left out: they are spelled out within one token.
- Compress and expand by mask, the library sort under `Argsort`, convolution over slices that
  share an array, histogram bins and the buffered random fill.
- `IntAccumulator`: one wrapping addition per element, and every grouping of those is
  equal.
- Overflow of `int` products of slice lengths, and exhaustion of memory.
- Tools, benchmarks and the site.

The components the plan has not reached are listed in `PROJECT.json` with their reason.

## Plan

Modelled so far, in this order, most important first: the goroutines of the parallel
product; the accumulators; tier selection and the kernel cache; sorting, selection and the
statistics on them; random numbers; the several-source fold; the multi-needle search; the
columns, that is varints, runs, blocks, merge, sets and rank; JSON and transcoding.

What is left to model, each joined to a run that exists as a component of it: compress and
expand with a short or shared destination; `Argsort` and `SortedIndex` on the partition
contract of `NaNLast`; the state the buffered random fill leaves after a tail; the index
arithmetic of the FFT and the convolution; the second overlay of the `Fast` fields in
`OpsCache`.

Nothing is left to prove of the safety of what is modelled; each of the modules to come is
written, as these are, without RECURSIVE operators, so that it can be proved about as well as
checked.
