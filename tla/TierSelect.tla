------------------------------ MODULE TierSelect ------------------------------
(***************************************************************************)
(* How a process comes to the tier it runs: internal/cpu detects and       *)
(* selects when it is initialized, and the dispatcher, initialized after   *)
(* it, takes the strongest selected tier the build has tables for.         *)
(*                                                                         *)
(* A tier is its name; "junk" is a name that ParseTier does not know, and  *)
(* in SIMD_DISABLE also a tier this architecture never has: neither masks  *)
(* anything.                                                               *)
(***************************************************************************)
EXTENDS Ordered, SequencesExt

\* The tier constants, weakest to strongest within an architecture.
TierOrder ==
    <<"scalar", "sse2", "avx2", "avx512", "neon", "sve2", "rvv", "vx", "vxe", "lsx", "lasx", "vsx">>

Tiers == Range(TierOrder)
Strength(t) == CHOOSE i \in DOMAIN TierOrder : TierOrder[i] = t

\* What detect() can find on each architecture: the tiers it always lists, and
\* those that each depend on a feature bit of their own.
Baseline == [amd64 |-> <<"scalar", "sse2">>, arm64 |-> <<"scalar", "neon">>, riscv64 |-> <<"scalar">>,
             s390x |-> <<"scalar">>, loong64 |-> <<"scalar">>, ppc64le |-> <<"scalar">>,
             ppc64 |-> <<"scalar">>, other |-> <<"scalar">>]
Optional == [amd64 |-> <<"avx2", "avx512">>, arm64 |-> <<"sve2">>, riscv64 |-> <<"rvv">>,
             s390x |-> <<"vx", "vxe">>, loong64 |-> <<"lsx", "lasx">>, ppc64le |-> <<"vsx">>,
             ppc64 |-> <<"vsx">>, other |-> <<>>]
Archs == DOMAIN Baseline
Detected(arch, features) == Baseline[arch] \o Kept(Optional[arch], features)

\* dispatchTiers, one array per architecture that has generated kernels.
GeneratedTiers ==
    [amd64 |-> <<"scalar", "sse2", "avx2", "avx512">>, arm64 |-> <<"scalar", "neon", "sve2">>,
     riscv64 |-> <<"scalar", "rvv">>, s390x |-> <<"scalar", "vx">>, loong64 |-> <<"scalar", "lasx">>,
     ppc64le |-> <<"scalar", "vsx">>]

VARIABLES
    arch, features, purego,  \* the machine and the build
    gosimd, disable,         \* the environment; "" is a GOSIMD that is not set
    pc,                      \* the package whose initialization is next, or "running"
    selection,               \* internal/cpu's Selection
    tierIdx,                 \* the dispatcher's index, from 0
    backendTier              \* internal/cpu's copy of the tier in use

vars == <<arch, features, purego, gosimd, disable, pc, selection, tierIdx, backendTier>>
machine == <<arch, features, purego, gosimd, disable>>

\* The array this build is compiled with: a purego build, and an architecture
\* without kernels, have the fallback's.
DispatchTiers == IF purego \/ arch \notin DOMAIN GeneratedTiers THEN <<"scalar">> ELSE GeneratedTiers[arch]

Init ==
    /\ arch \in Archs
    /\ features \in SUBSET Range(Optional[arch])
    /\ purego \in BOOLEAN
    /\ gosimd \in Tiers \union {"", "junk"}
    /\ disable \in SUBSET (Range(Baseline[arch]) \union Range(Optional[arch]) \union {"junk"})
    /\ pc = "cpu"
    /\ selection = [tier |-> "scalar", available |-> <<>>, forced |-> FALSE, reason |-> "", disabled |-> {}]
    /\ tierIdx = 0
    /\ backendTier = ""

\* Wrong on purpose: scalar can be masked like any tier.
AvailableUnfloored == Kept(Detected(arch, features), Tiers \ disable)

\* What SIMD_DISABLE leaves.
Available == Kept(Detected(arch, features), (Tiers \ disable) \union {"scalar"})

\* What selectTier returns once the mask is applied.
Outcome(tier, forced, reason) ==
    [tier |-> tier, available |-> Available, forced |-> forced, reason |-> reason,
     disabled |-> Range(Detected(arch, features)) \ Range(Available)]

Detection == Outcome(Last(Available), FALSE, "")

\* Wrong on purpose: a pinned tier is not looked up among the available ones.
SelectTierTrusting ==
    CASE gosimd = "" -> Detection
      [] gosimd \in Tiers -> Outcome(gosimd, TRUE, "")
      [] OTHER -> Outcome("scalar", TRUE, "unknown tier")

\* selectTier
SelectTier ==
    CASE gosimd = "" -> Detection
      [] Contains(Available, gosimd) -> Outcome(gosimd, TRUE, "")
      [] gosimd \in Tiers \ Range(Available) -> Outcome("scalar", TRUE, "not available")
      [] OTHER -> Outcome("scalar", TRUE, "unknown tier")

\* internal/cpu's init()
InitCpu ==
    /\ pc = "cpu"
    /\ selection' = SelectTier
    /\ pc' = "simd"
    /\ UNCHANGED <<machine, tierIdx, backendTier>>

\* tierIndexOf: the first table of that name, or the reference.
TierIndexOf(name) ==
    IF Contains(DispatchTiers, name) THEN Min({i \in DOMAIN DispatchTiers : DispatchTiers[i] = name}) - 1 ELSE 0

\* The tiers the walk down the available ones can stop at, and where it does.
Usable ==
    {t \in Range(selection.available) : Strength(t) <= Strength(selection.tier) /\ TierIndexOf(t) > 0}
Strongest(ts) == CHOOSE t \in ts : \A u \in ts : Strength(u) <= Strength(t)

\* Wrong on purpose: a pinned tier without tables gives way to a neighbour.
TierIndexForNear ==
    IF purego \/ Usable = {} THEN 0 ELSE TierIndexOf(Strongest(Usable))

\* tierIndexFor: a pinned tier exactly; else the strongest that has tables.
TierIndexFor ==
    CASE purego -> 0
      [] ~purego /\ selection.forced -> TierIndexOf(selection.tier)
      [] ~purego /\ ~selection.forced -> IF Usable = {} THEN 0 ELSE TierIndexOf(Strongest(Usable))

\* dispatch.go's init()
InitSimd ==
    /\ pc = "simd"
    /\ tierIdx' = TierIndexFor
    /\ backendTier' = DispatchTiers[tierIdx' + 1]
    /\ pc' = "running"
    /\ UNCHANGED <<machine, selection>>

Running ==
    /\ pc = "running"
    /\ UNCHANGED vars

Next == InitCpu \/ InitSimd \/ Running

Spec == Init /\ [][Next]_vars

-----------------------------------------------------------------------------
(* Properties.                                                             *)

Selected == pc # "cpu"
Chosen == pc = "running"

\* Tier(): the tables the process reads.
Tier == DispatchTiers[tierIdx + 1]

\* What the two initializers leave has its type: the dispatcher's index is an index
\* of the tables this build has.
TypeOK ==
    /\ pc \in {"cpu", "simd", "running"}
    /\ selection \in [tier : Tiers, available : Seq(Tiers), forced : BOOLEAN, disabled : SUBSET Tiers,
                      reason : {"", "not available", "unknown tier"}]
    /\ tierIdx \in 0 .. Len(DispatchTiers) - 1
    /\ backendTier \in Tiers \union {""}

\* internal/cpu/cpu.go:136-138: a process never runs kernels the CPU cannot decode, whatever the
\* environment says, nor, the portable code apart, a tier the user masked out.
NeverUnsupported ==
    Chosen => /\ Contains(Detected(arch, features), Tier)
              /\ Tier \in disable => Tier = "scalar"

\* dispatch.go:41-46: "When GOSIMD has pinned a tier, that exact tier is used or
\* the reference is"; without a pin, no tier that the CPU, the mask and the build allow
\* is stronger than the one in use.
PinnedOrStrongest ==
    Chosen =>
      IF gosimd # "" THEN Tier \in {gosimd, "scalar"}
      ELSE \A t \in Range(DispatchTiers) :
             Contains(Detected(arch, features), t) /\ t \notin disable => Strength(t) <= Strength(Tier)

\* Describe shows the backend when it is not the selected tier, and the reason:
\* whenever the tier in use is not the one pinned, one of the two says so.
Explained ==
    Chosen /\ gosimd # "" /\ Tier # gosimd =>
      selection.reason # "" \/ (backendTier # "" /\ backendTier # selection.tier)

\* AvailableTiers: weakest first, beginning with scalar, whatever is masked.
AvailableOrdered ==
    Selected => /\ Len(selection.available) > 0 /\ selection.available[1] = "scalar"
                /\ \A i \in 2 .. Len(selection.available) :
                     Strength(selection.available[i - 1]) < Strength(selection.available[i])

\* What internal/cpu leaves behind for Describe and AvailableTiers is well formed and says
\* why a pin was not followed (internal/cpu/cpu.go:119-170).
SelectionInv == TypeOK /\ Explained /\ AvailableOrdered
=============================================================================
