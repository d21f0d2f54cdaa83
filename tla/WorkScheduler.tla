--------------------------- MODULE WorkScheduler ---------------------------
(***************************************************************************)
(* BoundedWorkScheduler::run, the path every build wave takes              *)
(* (cpp/src/orchestration/scheduling/BoundedWorkScheduler.cpp). It differs *)
(* from the admission-stop path: an inline loop for one worker, an index   *)
(* counter that fetch_add moves past the end, a stop flag the workers      *)
(* poll, and std::thread, whose destructor ends the process when the       *)
(* creation of a later thread throws.                                      *)
(***************************************************************************)
EXTENDS Integers, FiniteSets

CONSTANTS
    MaxItems,    \* largest item_count of a call
    MaxLimit,    \* largest max_workers of a call
    Word         \* number of values of std::size_t: the counter wraps there

\* The counter has room for one overshooting fetch_add of every worker.
ASSUME BoundsAssumption ==
    /\ MaxItems \in Nat
    /\ MaxLimit \in Nat \ {0}
    /\ Word \in Nat /\ Word > MaxItems + MaxLimit

VARIABLES
    items,       \* item_count
    limit,       \* max_workers
    next,        \* next_index
    started,     \* started_count
    stopFlag,    \* stop_requested
    threw,       \* callback_threw
    main,        \* where the calling thread is
    spawn,       \* loop index of the thread-creation loop
    pc,          \* where each worker is; worker 0 is the calling thread
    idx,         \* each worker's local `index`
    attempt,     \* what the callback of each index did
    result       \* what the call returned

callVars == <<items, limit>>
flagVars == <<next, started, stopFlag, threw>>
mainVars == <<main, spawn, result>>
workVars == <<pc, idx, attempt>>
vars == <<callVars, flagVars, mainVars, workVars>>

Indices == 0 .. MaxItems - 1
Workers == 0 .. MaxLimit - 1
Background == Workers \ {0}

WorkerCount == IF items < limit THEN items ELSE limit

Pending == [kind |-> "pending"]
Failure(code) == [kind |-> "error", code |-> code]
Summary(w, n, s, b) ==
    [kind |-> "summary", workers |-> w, started |-> n, stop |-> s, before |-> b]

Owning(t) == pc[t] \in {"count", "work", "inlineWork"}
Owned == {idx[t] : t \in {u \in Workers : Owning(u)}}
Finished == {i \in Indices : attempt[i] # "none"}
Claimed == Owned \cup Finished

Init ==
    /\ items \in 0 .. MaxItems
    /\ limit \in 0 .. MaxLimit
    /\ next = 0 /\ started = 0 /\ stopFlag = FALSE /\ threw = FALSE
    /\ main = "entry" /\ spawn = 1 /\ result = Pending
    /\ pc = [t \in Workers |-> "absent"]
    /\ idx = [t \in Workers |-> 0]
    /\ attempt = [i \in Indices |-> "none"]

Goto(t, from, to) == pc[t] = from /\ pc' = [pc EXCEPT ![t] = to]
-----------------------------------------------------------------------------
(* The calling thread *)

EarlyReturn ==
    /\ main = "entry"
    /\ \/ limit = 0 /\ result' = Failure("invalid_worker_count")
       \/ limit # 0 /\ items = 0 /\ result' = Summary(0, 0, FALSE, FALSE)
    /\ main' = "returned"
    /\ UNCHANGED <<callVars, flagVars, spawn, workVars>>

\* One logical worker runs on the caller alone, with no atomics.
Begin ==
    /\ main = "entry"
    /\ limit # 0 /\ items # 0
    /\ IF WorkerCount = 1
       THEN main' = "inline" /\ pc' = [pc EXCEPT ![0] = "inlineTest"]
       ELSE main' = "spawn" /\ UNCHANGED pc
    /\ UNCHANGED <<callVars, flagVars, spawn, result, idx, attempt>>

InlineTake ==
    /\ idx[0] < items
    /\ Goto(0, "inlineTest", "inlineWork")
    /\ started' = started + 1
    /\ UNCHANGED <<callVars, next, stopFlag, threw, mainVars, idx, attempt>>

InlineCallback ==
    /\ \/ /\ Goto(0, "inlineWork", "inlineTest")
          /\ attempt' = [attempt EXCEPT ![idx[0]] = "ok"]
          /\ idx' = [idx EXCEPT ![0] = idx[0] + 1]
       \/ /\ Goto(0, "inlineWork", "inlineStop")
          /\ attempt' = [attempt EXCEPT ![idx[0]] = "error"]
          /\ UNCHANGED idx
       \/ /\ Goto(0, "inlineWork", "inlineThrew")
          /\ attempt' = [attempt EXCEPT ![idx[0]] = "threw"]
          /\ UNCHANGED idx
    /\ UNCHANGED <<callVars, flagVars, mainVars>>

InlineReturn ==
    /\ \/ /\ idx[0] = items
          /\ Goto(0, "inlineTest", "exit")
          /\ result' = Summary(1, started, FALSE, FALSE)
       \/ /\ Goto(0, "inlineStop", "exit")
          /\ result' = Summary(1, started, TRUE, started < items)
       \/ /\ Goto(0, "inlineThrew", "exit")
          /\ result' = Failure("callback_threw")
    /\ main' = "returned"
    /\ UNCHANGED <<callVars, flagVars, spawn, idx, attempt>>

\* Mutant of StartWorker: one background thread too many.
StartWorkerExtra ==
    /\ main = "spawn"
    /\ IF spawn <= WorkerCount
       THEN pc' = [pc EXCEPT ![spawn] = "test"] /\ spawn' = spawn + 1 /\ UNCHANGED main
       ELSE pc' = [pc EXCEPT ![0] = "test"] /\ main' = "run" /\ UNCHANGED spawn
    /\ UNCHANGED <<callVars, flagVars, result, idx, attempt>>

\* The remaining thread of the ceiling is the caller itself.
StartWorker ==
    /\ main = "spawn"
    /\ IF spawn < WorkerCount
       THEN pc' = [pc EXCEPT ![spawn] = "test"] /\ spawn' = spawn + 1 /\ UNCHANGED main
       ELSE pc' = [pc EXCEPT ![0] = "test"] /\ main' = "run" /\ UNCHANGED spawn
    /\ UNCHANGED <<callVars, flagVars, result, idx, attempt>>

\* emplace_back throws: the first time the exception leaves run(); later on the
\* vector destroys joinable threads and std::terminate ends the process.
StartFails ==
    /\ main = "spawn"
    /\ spawn < WorkerCount
    /\ main' = IF spawn = 1 THEN "raised" ELSE "terminated"
    /\ UNCHANGED <<callVars, flagVars, spawn, result, workVars>>

CallerDone ==
    /\ main = "run"
    /\ pc[0] = "exit"
    /\ main' = "join"
    /\ UNCHANGED <<callVars, flagVars, spawn, result, workVars>>

Join ==
    /\ main = "join"
    /\ \A t \in Background : pc[t] \in {"absent", "exit"}
    /\ main' = "report"
    /\ UNCHANGED <<callVars, flagVars, spawn, result, workVars>>

Report ==
    /\ main = "report"
    /\ result' = IF threw THEN Failure("callback_threw")
                 ELSE Summary(WorkerCount, started, stopFlag, started < items)
    /\ main' = "returned"
    /\ UNCHANGED <<callVars, flagVars, spawn, workVars>>
-----------------------------------------------------------------------------
(* worker_loop, on every worker *)

\* while (!stop_requested)
TestStop(t) ==
    /\ Goto(t, "test", IF stopFlag THEN "exit" ELSE "claim")
    /\ UNCHANGED <<callVars, flagVars, mainVars, idx, attempt>>

\* Mutant of ClaimIndex: off by one at the end.
ClaimIndexPastEnd(t) ==
    /\ idx' = [idx EXCEPT ![t] = next]
    /\ next' = (next + 1) % Word
    /\ Goto(t, "claim", IF next > items THEN "exit" ELSE "count")
    /\ UNCHANGED <<callVars, started, stopFlag, threw, mainVars, attempt>>

\* index = next_index.fetch_add(1): it advances past the end too.
ClaimIndex(t) ==
    /\ idx' = [idx EXCEPT ![t] = next]
    /\ next' = (next + 1) % Word
    /\ Goto(t, "claim", IF next >= items THEN "exit" ELSE "count")
    /\ UNCHANGED <<callVars, started, stopFlag, threw, mainVars, attempt>>

CountStart(t) ==
    /\ Goto(t, "count", "work")
    /\ started' = started + 1
    /\ UNCHANGED <<callVars, next, stopFlag, threw, mainVars, idx, attempt>>

RunCallback(t) ==
    /\ \/ /\ Goto(t, "work", "test")
          /\ attempt' = [attempt EXCEPT ![idx[t]] = "ok"]
       \/ /\ Goto(t, "work", "quench")
          /\ attempt' = [attempt EXCEPT ![idx[t]] = "error"]
       \/ /\ Goto(t, "work", "threw")
          /\ attempt' = [attempt EXCEPT ![idx[t]] = "threw"]
    /\ UNCHANGED <<callVars, flagVars, mainVars, idx>>

RecordThrow(t) ==
    /\ Goto(t, "threw", "quench")
    /\ threw' = TRUE
    /\ UNCHANGED <<callVars, next, started, stopFlag, mainVars, idx, attempt>>

\* Mutant of Quench: only the flag stops dispatch.
QuenchNothing(t) ==
    /\ Goto(t, "quench", "flag")
    /\ UNCHANGED <<callVars, flagVars, mainVars, idx, attempt>>

\* request_stop: quench future dispatch, then publish the flag.
Quench(t) ==
    /\ Goto(t, "quench", "flag")
    /\ next' = items
    /\ UNCHANGED <<callVars, started, stopFlag, threw, mainVars, idx, attempt>>

PublishStop(t) ==
    /\ Goto(t, "flag", "test")
    /\ stopFlag' = TRUE
    /\ UNCHANGED <<callVars, next, started, threw, mainVars, idx, attempt>>
-----------------------------------------------------------------------------
\* A terminated process takes no step on any thread.
Next ==
    /\ main # "terminated"
    /\ \/ EarlyReturn \/ Begin \/ InlineTake \/ InlineCallback \/ InlineReturn
       \/ StartWorker \/ StartFails \/ CallerDone \/ Join \/ Report
       \/ \E t \in Workers :
             \/ TestStop(t) \/ ClaimIndex(t) \/ CountStart(t) \/ RunCallback(t)
             \/ RecordThrow(t) \/ Quench(t) \/ PublishStop(t)

Spec == Init /\ [][Next]_vars
-----------------------------------------------------------------------------
\* The ranges of the code's integers; no fetch_add comes near the wrap.
TypeOK ==
    /\ items \in 0 .. MaxItems
    /\ limit \in 0 .. MaxLimit
    /\ next \in 0 .. items + WorkerCount
    /\ started \in 0 .. items
    /\ stopFlag \in BOOLEAN /\ threw \in BOOLEAN
    /\ spawn \in 1 .. MaxLimit
    /\ idx \in [Workers -> 0 .. items + WorkerCount]
    /\ attempt \in [Indices -> {"none", "ok", "error", "threw"}]

\* The comment on request_stop: once the stop flag is published, not even a worker
\* that read it before claims another index.
NoDispatchAfterStop == [][stopFlag => Claimed' = Claimed]_vars

Abstract ==
    INSTANCE BoundedWork WITH
        ceiling <- limit,
        admitted <- Claimed,
        running <- Owned,
        closed <- \/ items # 0 /\ next >= items
                  \/ pc[0] \in {"inlineStop", "inlineThrew"}
                  \/ main \in {"inline", "returned"} /\ WorkerCount = 1
                        /\ (\/ pc[0] = "exit"
                            \/ pc[0] = "inlineWork" /\ idx[0] + 1 = items
                            \/ pc[0] = "inlineTest" /\ idx[0] = items),
        returned <- (main \in {"returned", "raised"})

\* This path too implements one dispatch: ceiling, order, closing and drain.
ImplementsBoundedWork == Abstract!ASpec
=============================================================================
