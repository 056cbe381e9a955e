------------------------------- MODULE Dispatch -------------------------------
(***************************************************************************)
(* A process from its start: internal/cpu and then the dispatcher are      *)
(* initialized, after which goroutines call operations, and each call asks *)
(* for its kernel group.                                                   *)
(*                                                                         *)
(* get reads the slot that initialization chose.  In OpsCache that slot is *)
(* the constant TierIdx: the calls of a process that ended on another slot *)
(* are not followed.                                                       *)
(***************************************************************************)
EXTENDS TierSelect, OpsCache

dispatchVars == <<vars, cacheVars>>

DispatchInit == Init /\ CacheInit

\* A goroutine calls an operation; packages are initialized before any can.
Operation(g) ==
    /\ pc = "running" /\ tierIdx = TierIdx
    /\ Call(g)

DispatchNext ==
    \/ Next /\ UNCHANGED cacheVars
    \/ \E g \in Goroutines : (Operation(g) \/ Get(g)) /\ UNCHANGED vars

\* The fairness is that of get.
DispatchSpec ==
    /\ DispatchInit /\ [][DispatchNext]_dispatchVars
    /\ \A g \in Goroutines : WF_cacheVars(Get(g)) /\ SF_cacheVars(Lock(g))
=============================================================================
