----------------------------- MODULE WorkBatch -----------------------------
(***************************************************************************)
(* run_work_batch and WorkBatchReport::outcome                             *)
(* (cpp/include/mqb/orchestration/BoundedWorkBatch.hpp) over the admission *)
(* scheduler they call. The batch keeps one preallocated slot per index,   *)
(* which is the scheduler model's `attempt`; what it adds is the verdict   *)
(* drawn from the slots and the scheduler's report, and the failure to     *)
(* set the dispatch up at all.                                             *)
(***************************************************************************)
EXTENDS AdmissionScheduler

Dispatch == [kind |-> "exception"]

\* attempts.resize(item_count) runs only under a valid limit, and may throw.
BatchSize == IF limit = 0 \/ result = Dispatch THEN 0 ELSE items

\* The stop source, the slots or the callable cannot be allocated.
DispatchThrows ==
    /\ main = "entry"
    /\ result' = Dispatch
    /\ main' = "returned"
    /\ UNCHANGED <<callVars, flagVars, spawn, workVars, stopVars>>

Completed == {i \in 0 .. BatchSize - 1 : attempt[i] = "ok"}

Outcome ==
    IF \/ result.kind # "summary"
       \/ BatchSize # items
       \/ \E i \in 0 .. BatchSize - 1 : attempt[i] \in {"error", "threw"}
       \/ Cardinality(Completed) # result.started
    THEN "failed"
    ELSE IF result.observed THEN "cancelled"
    ELSE IF Cardinality(Completed) = items /\ ~result.stop /\ ~result.before
    THEN "succeeded"
    ELSE "failed"

BatchNext == Next \/ DispatchThrows

BatchSpec == Init /\ [][BatchNext]_vars /\ Fairness
-----------------------------------------------------------------------------
MainStates ==
    {"entry", "register", "regClose", "regFlag", "regObserve", "spawn", "start",
     "failClose", "failFlag", "run", "join", "deregister", "report", "returned"}

WorkerStates ==
    {"absent", "load", "cas", "count", "work", "threw", "close", "flag", "exit"}

\* The range of every variable; in particular next_index never passes item_count,
\* which is what makes the saturated compare-exchange safe for any item_count.
TypeOK ==
    /\ items \in 0 .. MaxItems
    /\ limit \in 0 .. MaxLimit
    /\ next \in 0 .. items
    /\ started \in Nat
    /\ stopFlag \in BOOLEAN /\ observed \in BOOLEAN
    /\ threw \in BOOLEAN /\ startFailed \in BOOLEAN
    /\ main \in MainStates
    /\ spawn \in 1 .. MaxLimit
    /\ pc \in [Workers -> WorkerStates]
    /\ idx \in [Workers -> 0 .. MaxItems]
    /\ attempt \in [Indices -> {"none", "ok", "error", "threw"}]
    /\ token \in BOOLEAN
    /\ stopper \in {"idle", "close", "flag", "observe", "done"}

\* "Work indices are assigned monotonically": whatever the workers' loads and
\* compare-exchanges interleave to, no index is owned twice or run again, and the
\* claimed indices are the first ones, with no hole.
ExactlyOnce ==
    /\ \A t, u \in Workers : Owning(t) /\ Owning(u) /\ t # u => idx[t] # idx[u]
    /\ \A t \in Workers : Owning(t) => attempt[idx[t]] = "none"
    /\ Claimed = 0 .. Cardinality(Claimed) - 1

\* "All admitted callbacks finish and all workers join before return": when the
\* call is back nobody can touch its locals any more, neither a worker nor a stop
\* callback in flight, and the count it reports is the callbacks that finished.
DrainedAtReturn ==
    main = "returned" =>
        /\ \A t \in Workers : pc[t] \in {"absent", "exit"}
        /\ stopper \in {"idle", "done"}
        /\ result.kind = "summary" => result.started = Cardinality(Finished)

\* The verdict of a batch: failed exactly when something failed, succeeded only
\* when every item ran and no stop closed admission, cancelled only by the token.
OutcomeFaithful ==
    main = "returned" =>
        /\ (Outcome = "failed") <=>
              \/ limit = 0 \/ result = Dispatch \/ startFailed
              \/ \E i \in Indices : attempt[i] \in {"error", "threw"}
        /\ Outcome = "succeeded" => \A i \in 0 .. items - 1 : attempt[i] = "ok"
        /\ Outcome = "cancelled" => token

\* Under fair scheduling and callbacks that return, the call returns: no closing of
\* admission, failed start or concurrent stop leaves the caller waiting.
CallReturns == <>(main = "returned")

Abstract ==
    INSTANCE BoundedWork WITH
        ceiling <- limit,
        admitted <- Claimed,
        running <- Owned,
        closed <- (items # 0 /\ next = items),
        returned <- (main = "returned")

\* The scheduler implements one dispatch: in particular admission never reopens,
\* the ceiling holds at every claim, and nothing is claimed after it closed.
ImplementsBoundedWork == Abstract!ASpec
=============================================================================
