------------------------------- MODULE OpsCache -------------------------------
(***************************************************************************)
(* opsCache[T] and groupCache[G] (dispatch.go): the kernel group of one    *)
(* element type, merged for every tier on first use, by goroutines that    *)
(* may all come to it at once.  sync.Once is the standard library's: an    *)
(* atomic flag read first, then a mutex and the flag again.                *)
(*                                                                         *)
(* A kernel is the name of the code behind a function field; "nil" is the  *)
(* empty field.  The reference leaves fields empty too: Partition and      *)
(* Compress, which only tiers have and their callers test for nil, and     *)
(* those an element type has no use for.  A merged group is kept with the  *)
(* goroutine that built it, which tells one pointer from another; a nil    *)
(* pointer is built by nobody.                                             *)
(***************************************************************************)
EXTENDS Integers, FiniteSets

CONSTANTS Goroutines,
          Fields,   \* the function fields of the group
          Kernels,  \* what they can hold, apart from "nil"
          Base,     \* the reference group
          NTiers,   \* len(dispatchTiers)
          Partial,  \* the tables' partial groups: a function on the slots that hold one
          TierIdx   \* tierIdx, which TierSelect assigns before any of this runs

Nobody == "free"

ASSUME GroupAssumption ==
    /\ NTiers \in Nat /\ TierIdx \in 0 .. NTiers - 1
    /\ "nil" \notin Kernels
    /\ Base \in [Fields -> Kernels \union {"nil"}]
    /\ \A t \in DOMAIN Partial : Partial[t] \in [Fields -> Kernels \union {"nil"}]

ASSUME NobodyAssumption == Nobody \notin Goroutines

Slots == 0 .. NTiers - 1

VARIABLES
    done,   \* the flag of the Once
    mutex,  \* the goroutine holding its mutex, or "free"
    tiers,  \* the slots
    at,     \* where each goroutine is in get
    slot,   \* the slot the loop is at
    got     \* the pointers get has returned to each goroutine

cacheVars == <<done, mutex, tiers, at, slot, got>>

Empty == [by |-> Nobody, group |-> [f \in Fields |-> "nil"]]

CacheInit ==
    /\ done = FALSE
    /\ mutex = Nobody
    /\ tiers = [i \in Slots |-> Empty]
    /\ at = [g \in Goroutines |-> "idle"]
    /\ slot = [g \in Goroutines |-> 0]
    /\ got = [g \in Goroutines |-> {}]

Goto(g, from, to) == at[g] = from /\ at' = [at EXCEPT ![g] = to]

Call(g) ==
    /\ Goto(g, "idle", "fast")
    /\ UNCHANGED <<done, mutex, tiers, slot, got>>

\* Once.Do: the atomic load.
FastPath(g) ==
    /\ Goto(g, "fast", IF done THEN "read" ELSE "lock")
    /\ UNCHANGED <<done, mutex, tiers, slot, got>>

\* Wrong on purpose: the mutex is not taken.
LockFree(g) ==
    /\ Goto(g, "lock", "check")
    /\ UNCHANGED <<done, mutex, tiers, slot, got>>

Lock(g) ==
    /\ mutex = Nobody
    /\ mutex' = g
    /\ Goto(g, "lock", "check")
    /\ UNCHANGED <<done, tiers, slot, got>>

\* Wrong on purpose: the flag is not read again under the mutex.
RecheckForgotten(g) ==
    /\ Goto(g, "check", "build")
    /\ slot' = [slot EXCEPT ![g] = 0]
    /\ UNCHANGED <<done, mutex, tiers, got>>

Recheck(g) ==
    /\ Goto(g, "check", IF done THEN "unlock" ELSE "build")
    /\ slot' = [slot EXCEPT ![g] = 0]
    /\ UNCHANGED <<done, mutex, tiers, got>>

\* Wrong on purpose: every field of the table is copied, the empty ones too.
OverlayBlind(i) == IF i \in DOMAIN Partial THEN Partial[i] ELSE Base

\* The reference group with the non-nil fields of the tier's table over it.
Overlay(i) ==
    IF i \in DOMAIN Partial
    THEN [f \in Fields |-> IF Partial[i][f] # "nil" THEN Partial[i][f] ELSE Base[f]]
    ELSE Base

\* One turn of the loop.  The copy is private until its address is stored.
BuildSlot(g) ==
    /\ slot[g] < NTiers
    /\ Goto(g, "build", "build")
    /\ tiers' = [tiers EXCEPT ![slot[g]] = [by |-> g, group |-> Overlay(slot[g])]]
    /\ slot' = [slot EXCEPT ![g] = slot[g] + 1]
    /\ UNCHANGED <<done, mutex, got>>

\* The function has returned: the flag is stored, still under the mutex.
Store(g) ==
    /\ slot[g] >= NTiers
    /\ Goto(g, "build", "unlock")
    /\ done' = TRUE
    /\ UNCHANGED <<mutex, tiers, slot, got>>

\* Wrong on purpose: the mutex is kept.
UnlockForgotten(g) ==
    /\ Goto(g, "unlock", "read")
    /\ UNCHANGED mutex
    /\ UNCHANGED <<done, tiers, slot, got>>

Unlock(g) ==
    /\ Goto(g, "unlock", "read")
    /\ mutex' = Nobody
    /\ UNCHANGED <<done, tiers, slot, got>>

\* return c.tiers[tierIdx]
Read(g) ==
    /\ Goto(g, "read", "idle")
    /\ got' = [got EXCEPT ![g] = @ \union {tiers[TierIdx]}]
    /\ UNCHANGED <<done, mutex, tiers, slot>>

Get(g) == FastPath(g) \/ Lock(g) \/ Recheck(g) \/ BuildSlot(g) \/ Store(g) \/ Unlock(g) \/ Read(g)

CacheNext == \E g \in Goroutines : Call(g) \/ Get(g)

\* A goroutine in get runs on; the mutex goes to each waiter in the end.
CacheSpec ==
    /\ CacheInit /\ [][CacheNext]_cacheVars
    /\ \A g \in Goroutines : WF_cacheVars(Get(g)) /\ SF_cacheVars(Lock(g))

-----------------------------------------------------------------------------
(* Properties.                                                             *)

PCs == {"idle", "fast", "lock", "check", "build", "unlock", "read"}
Pointers == [by : Goroutines, group : [Fields -> Kernels \union {"nil"}]] \union {Empty}

\* Every variable has its type.
CacheTypeOK ==
    /\ done \in BOOLEAN
    /\ mutex \in Goroutines \union {Nobody}
    /\ tiers \in [Slots -> Pointers]
    /\ at \in [Goroutines -> PCs]
    /\ slot \in [Goroutines -> 0 .. NTiers]
    /\ got \in [Goroutines -> SUBSET Pointers]

\* No goroutine is ever handed the nil pointer of a slot not stored yet, nor a group that
\* lacks a kernel somebody has: each field is the tier's own where its table has one and
\* the reference's elsewhere, so that only a field empty in both is empty (dispatch.go:74-80).
ReturnsMergedGroup ==
    \A g \in Goroutines : \A p \in got[g] :
      /\ p.by # Nobody
      /\ \A f \in Fields :
           LET own == IF TierIdx \in DOMAIN Partial THEN Partial[TierIdx][f] ELSE "nil"
           IN  p.group[f] = IF own # "nil" THEN own ELSE Base[f]

\* The read needs no synchronization of its own: while one goroutine stores slots,
\* no other stores or reads them.
NoRace ==
    \A g, h \in Goroutines :
      g # h /\ at[g] = "build" => at[h] \notin {"build", "read"}

\* The merge is done once: however many come before the flag is set, all callers
\* get one and the same pointer, at every call.
OnePointer ==
    \A g, h \in Goroutines : \A p \in got[g], q \in got[h] : p = q

\* A slot is stored once and never again, so a pointer handed out stays the one in
\* the table.
SlotsStay ==
    [][\A i \in Slots : tiers[i] # Empty => tiers'[i] = tiers[i]]_cacheVars

\* Every get returns, however the goroutines contend.
GetReturns == \A g \in Goroutines : at[g] # "idle" ~> at[g] = "idle"

\* Parts of the inductive invariant: what the mutex and the flag say of the callers ...
Holder == \A g \in Goroutines : at[g] \in {"check", "build", "unlock"} => mutex = g
BuildsFirst == \A g \in Goroutines : at[g] = "build" => ~done
SeesDone == \A g \in Goroutines : at[g] \in {"unlock", "read"} => done
\* ... and which slots are stored.
Merged == \A i \in Slots : tiers[i] # Empty => tiers[i].group = Overlay(i)
AllStored == done => \A i \in Slots : tiers[i] # Empty
StoredSoFar == \A g \in Goroutines : at[g] = "build" => \A i \in Slots : tiers[i] # Empty <=> i < slot[g]
NoneStored == ~done /\ (\A g \in Goroutines : at[g] # "build") => \A i \in Slots : tiers[i] = Empty
GotTheSlot == \A g \in Goroutines : \A p \in got[g] : done /\ p = tiers[TierIdx]

\* The inductive invariant: only the holder of the mutex builds, at most one ever
\* does, and the slots it has stored are those below the one it is at.
CacheInv ==
    /\ CacheTypeOK
    /\ Holder /\ BuildsFirst /\ SeesDone
    /\ Merged /\ AllStored /\ StoredSoFar /\ NoneStored /\ GotTheSlot
=============================================================================
