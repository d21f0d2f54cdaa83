------------------------- MODULE AdmissionScheduler -------------------------
(***************************************************************************)
(* BoundedWorkScheduler::run_with_admission_stop for a stoppable token     *)
(* (cpp/src/orchestration/scheduling/BoundedWorkScheduler.cpp).            *)
(*                                                                         *)
(* The calling thread registers a stop callback, starts background         *)
(* workers, becomes worker 0 itself, joins the others and deregisters the  *)
(* callback; another thread may request the stop at any moment. Every      *)
(* atomic operation of the code is a step of its own.                      *)
(***************************************************************************)
EXTENDS Integers, FiniteSets

CONSTANTS
    MaxItems,    \* largest item_count of a call
    MaxLimit     \* largest max_workers of a call

ASSUME BoundsAssumption == MaxItems \in Nat /\ MaxLimit \in Nat \ {0}

VARIABLES
    items,       \* item_count
    limit,       \* max_workers
    next,        \* next_index
    started,     \* started_count
    stopFlag,    \* stop_requested
    observed,    \* admission_stop_observed
    threw,       \* callback_threw
    startFailed, \* worker_start_failed
    main,        \* where the calling thread is
    spawn,       \* loop index of the thread-creation loop
    pc,          \* where each worker is; worker 0 is the calling thread
    idx,         \* each worker's local `index`
    attempt,     \* what the callback of each index did (the batch's slots)
    token,       \* a stop was requested on the caller's token
    stopper,     \* where the thread that requested the stop is
    result       \* what the call returned

callVars == <<items, limit>>
flagVars == <<next, started, stopFlag, observed, threw, startFailed>>
mainVars == <<main, spawn, result>>
workVars == <<pc, idx, attempt>>
stopVars == <<token, stopper>>
vars == <<callVars, flagVars, mainVars, workVars, stopVars>>

Indices == 0 .. MaxItems - 1
Workers == 0 .. MaxLimit - 1
Background == Workers \ {0}

WorkerCount == IF items < limit THEN items ELSE limit

Pending == [kind |-> "pending"]
Failure(code) == [kind |-> "error", code |-> code]
Summary(w, n, s, b, o) ==
    [kind |-> "summary", workers |-> w, started |-> n, stop |-> s,
     before |-> b, observed |-> o]

\* A worker that owns an index: it has claimed it and not finished its callback.
Owning(t) == pc[t] \in {"count", "work"}
Owned == {idx[t] : t \in {u \in Workers : Owning(u)}}
Finished == {i \in Indices : attempt[i] # "none"}
Claimed == Owned \cup Finished

\* The stop callback exists, so a stop request runs it.
Registered == main \in {"spawn", "start", "failClose", "failFlag", "run", "join",
                        "deregister"}

Init ==
    /\ items \in 0 .. MaxItems
    /\ limit \in 0 .. MaxLimit
    /\ next = 0 /\ started = 0
    /\ stopFlag = FALSE /\ observed = FALSE /\ threw = FALSE /\ startFailed = FALSE
    /\ main = "entry" /\ spawn = 1 /\ result = Pending
    /\ pc = [t \in Workers |-> "absent"]
    /\ idx = [t \in Workers |-> 0]
    /\ attempt = [i \in Indices |-> "none"]
    /\ token \in BOOLEAN
    /\ stopper = IF token THEN "done" ELSE "idle"
-----------------------------------------------------------------------------
(* The calling thread *)

\* The three early returns, in the order of the code's tests.
EarlyReturn ==
    /\ main = "entry"
    /\ \/ /\ limit = 0
          /\ result' = Failure("invalid_worker_count")
       \/ /\ limit # 0 /\ items = 0
          /\ result' = Summary(0, 0, FALSE, FALSE, FALSE)
       \/ /\ limit # 0 /\ items # 0 /\ token
          /\ result' = Summary(0, 0, TRUE, TRUE, TRUE)
    /\ main' = "returned"
    /\ UNCHANGED <<callVars, flagVars, spawn, workVars, stopVars>>

Begin ==
    /\ main = "entry"
    /\ limit # 0 /\ items # 0 /\ ~token
    /\ main' = "register"
    /\ UNCHANGED <<callVars, flagVars, spawn, result, workVars, stopVars>>

\* Constructing std::stop_callback runs it in place when the stop came first.
Register ==
    /\ main = "register"
    /\ main' = IF token THEN "regClose" ELSE "spawn"
    /\ UNCHANGED <<callVars, flagVars, spawn, result, workVars, stopVars>>

RegisterClose ==
    /\ main = "regClose"
    /\ next' = items
    /\ main' = "regFlag"
    /\ UNCHANGED <<callVars, started, stopFlag, observed, threw, startFailed, spawn,
                   result, workVars, stopVars>>

RegisterFlag ==
    /\ main = "regFlag"
    /\ stopFlag' = TRUE
    /\ main' = "regObserve"
    /\ UNCHANGED <<callVars, next, started, observed, threw, startFailed, spawn,
                   result, workVars, stopVars>>

RegisterObserve ==
    /\ main = "regObserve"
    /\ observed' = TRUE
    /\ main' = "spawn"
    /\ UNCHANGED <<callVars, next, started, stopFlag, threw, startFailed, spawn,
                   result, workVars, stopVars>>

\* Enter the caller's own worker loop.
BecomeWorker ==
    /\ main' = "run"
    /\ pc' = [pc EXCEPT ![0] = "load"]
    /\ UNCHANGED spawn

\* Mutant of SpawnTest: one worker too many, the caller not counted as one.
SpawnTestExtra ==
    /\ main = "spawn"
    /\ IF spawn <= WorkerCount /\ next # items
       THEN main' = "start" /\ UNCHANGED <<spawn, pc>>
       ELSE BecomeWorker
    /\ UNCHANGED <<callVars, flagVars, result, idx, attempt, stopVars>>

SpawnTest ==
    /\ main = "spawn"
    /\ IF spawn < WorkerCount /\ next # items
       THEN main' = "start" /\ UNCHANGED <<spawn, pc>>
       ELSE BecomeWorker
    /\ UNCHANGED <<callVars, flagVars, result, idx, attempt, stopVars>>

StartWorker ==
    /\ main = "start"
    /\ pc' = [pc EXCEPT ![spawn] = "load"]
    /\ spawn' = spawn + 1
    /\ main' = "spawn"
    /\ UNCHANGED <<callVars, flagVars, result, idx, attempt, stopVars>>

\* Reserving the threads or constructing one throws: the caller never enters the
\* worker loop.
StartFails ==
    /\ main = "start" \/ (main = "spawn" /\ spawn = 1 /\ WorkerCount > 1)
    /\ startFailed' = TRUE
    /\ main' = "failClose"
    /\ UNCHANGED <<callVars, next, started, stopFlag, observed, threw, spawn, result,
                   workVars, stopVars>>

StartFailClose ==
    /\ main = "failClose"
    /\ next' = items
    /\ main' = "failFlag"
    /\ UNCHANGED <<callVars, started, stopFlag, observed, threw, startFailed, spawn,
                   result, workVars, stopVars>>

StartFailFlag ==
    /\ main = "failFlag"
    /\ stopFlag' = TRUE
    /\ main' = "join"
    /\ UNCHANGED <<callVars, next, started, observed, threw, startFailed, spawn,
                   result, workVars, stopVars>>

CallerDone ==
    /\ main = "run"
    /\ pc[0] = "exit"
    /\ main' = "join"
    /\ UNCHANGED <<callVars, flagVars, spawn, result, workVars, stopVars>>

\* Mutant of JoinAll: waits for every possible worker, started or not.
JoinAllPossible ==
    /\ main = "join"
    /\ \A t \in Background : pc[t] = "exit"
    /\ main' = "deregister"
    /\ UNCHANGED <<callVars, flagVars, spawn, result, workVars, stopVars>>

\* background_workers.clear() joins every jthread that was started.
JoinAll ==
    /\ main = "join"
    /\ \A t \in Background : pc[t] \in {"absent", "exit"}
    /\ main' = "deregister"
    /\ UNCHANGED <<callVars, flagVars, spawn, result, workVars, stopVars>>

\* Mutant of Deregister: does not wait for a callback in flight.
DeregisterAtOnce ==
    /\ main = "deregister"
    /\ main' = "report"
    /\ UNCHANGED <<callVars, flagVars, spawn, result, workVars, stopVars>>

\* ~stop_callback waits for a callback that is executing on another thread.
Deregister ==
    /\ main = "deregister"
    /\ stopper \in {"idle", "done"}
    /\ main' = "report"
    /\ UNCHANGED <<callVars, flagVars, spawn, result, workVars, stopVars>>

\* Mutant of Report: leaves the external stop out of the summary.
ReportNoStop ==
    /\ main = "report"
    /\ result' = IF startFailed THEN Failure("worker_start_failed")
                 ELSE IF threw THEN Failure("callback_threw")
                 ELSE Summary(WorkerCount, started, stopFlag, started < items, FALSE)
    /\ main' = "returned"
    /\ UNCHANGED <<callVars, flagVars, spawn, workVars, stopVars>>

Report ==
    /\ main = "report"
    /\ result' = IF startFailed THEN Failure("worker_start_failed")
                 ELSE IF threw THEN Failure("callback_threw")
                 ELSE Summary(WorkerCount, started, stopFlag, started < items, observed)
    /\ main' = "returned"
    /\ UNCHANGED <<callVars, flagVars, spawn, workVars, stopVars>>
-----------------------------------------------------------------------------
(* worker_loop, on every worker *)

Goto(t, from, to) == pc[t] = from /\ pc' = [pc EXCEPT ![t] = to]

\* Mutant of LoadIndex: leaves only past the end, as after a fetch_add.
LoadIndexPastEnd(t) ==
    /\ idx' = [idx EXCEPT ![t] = next]
    /\ Goto(t, "load", IF next > items THEN "exit" ELSE "cas")
    /\ UNCHANGED <<callVars, flagVars, mainVars, attempt, stopVars>>

\* index = next_index.load(); leave when admission is closed or exhausted.
LoadIndex(t) ==
    /\ idx' = [idx EXCEPT ![t] = next]
    /\ Goto(t, "load", IF next = items THEN "exit" ELSE "cas")
    /\ UNCHANGED <<callVars, flagVars, mainVars, attempt, stopVars>>

\* Mutant of ClaimIndex: stores the next index without comparing.
ClaimIndexBlind(t) ==
    /\ Goto(t, "cas", "count")
    /\ next' = idx[t] + 1
    /\ UNCHANGED <<callVars, started, stopFlag, observed, threw, startFailed, mainVars,
                   idx, attempt, stopVars>>

\* compare_exchange_weak: claim `index`, or reload it and test it again. A
\* spurious failure reloads the same value and is a stutter.
ClaimIndex(t) ==
    /\ pc[t] = "cas"
    /\ IF next = idx[t]
       THEN next' = next + 1 /\ Goto(t, "cas", "count") /\ UNCHANGED idx
       ELSE /\ idx' = [idx EXCEPT ![t] = next]
            /\ Goto(t, "cas", IF next = items THEN "exit" ELSE "cas")
            /\ UNCHANGED next
    /\ UNCHANGED <<callVars, started, stopFlag, observed, threw, startFailed, mainVars,
                   attempt, stopVars>>

CountStart(t) ==
    /\ Goto(t, "count", "work")
    /\ started' = started + 1
    /\ UNCHANGED <<callVars, next, stopFlag, observed, threw, startFailed, mainVars,
                   idx, attempt, stopVars>>

\* The callback of the claimed index: it succeeds, reports an error or throws.
RunCallback(t) ==
    /\ \/ /\ Goto(t, "work", "load")
          /\ attempt' = [attempt EXCEPT ![idx[t]] = "ok"]
       \/ /\ Goto(t, "work", "close")
          /\ attempt' = [attempt EXCEPT ![idx[t]] = "error"]
       \/ /\ Goto(t, "work", "threw")
          /\ attempt' = [attempt EXCEPT ![idx[t]] = "threw"]
    /\ UNCHANGED <<callVars, flagVars, mainVars, idx, stopVars>>

RecordThrow(t) ==
    /\ Goto(t, "threw", "close")
    /\ threw' = TRUE
    /\ UNCHANGED <<callVars, next, started, stopFlag, observed, startFailed, mainVars,
                   idx, attempt, stopVars>>

WorkerClose(t) ==
    /\ Goto(t, "close", "flag")
    /\ next' = items
    /\ UNCHANGED <<callVars, started, stopFlag, observed, threw, startFailed, mainVars,
                   idx, attempt, stopVars>>

WorkerFlag(t) ==
    /\ Goto(t, "flag", "load")
    /\ stopFlag' = TRUE
    /\ UNCHANGED <<callVars, next, started, observed, threw, startFailed, mainVars,
                   idx, attempt, stopVars>>

WorkerStep(t) ==
    \/ LoadIndex(t) \/ ClaimIndex(t) \/ CountStart(t) \/ RunCallback(t)
    \/ RecordThrow(t) \/ WorkerClose(t) \/ WorkerFlag(t)
-----------------------------------------------------------------------------
(* The thread that requests the stop *)

\* request_stop(): the first request runs the callback if it is registered.
RequestStop ==
    /\ ~token
    /\ token' = TRUE
    /\ stopper' = IF Registered THEN "close" ELSE "done"
    /\ UNCHANGED <<callVars, flagVars, mainVars, workVars>>

StopClose ==
    /\ stopper = "close"
    /\ next' = items
    /\ stopper' = "flag"
    /\ UNCHANGED <<callVars, started, stopFlag, observed, threw, startFailed, mainVars,
                   workVars, token>>

StopSetFlag ==
    /\ stopper = "flag"
    /\ stopFlag' = TRUE
    /\ stopper' = "observe"
    /\ UNCHANGED <<callVars, next, started, observed, threw, startFailed, mainVars,
                   workVars, token>>

StopObserve ==
    /\ stopper = "observe"
    /\ observed' = TRUE
    /\ stopper' = "done"
    /\ UNCHANGED <<callVars, next, started, stopFlag, threw, startFailed, mainVars,
                   workVars, token>>
-----------------------------------------------------------------------------
CallerStep ==
    \/ EarlyReturn \/ Begin \/ Register \/ RegisterClose \/ RegisterFlag
    \/ RegisterObserve \/ SpawnTest \/ StartWorker \/ StartFails \/ StartFailClose
    \/ StartFailFlag \/ CallerDone \/ JoinAll \/ Deregister \/ Report

StopperStep == StopClose \/ StopSetFlag \/ StopObserve

Next ==
    \/ CallerStep
    \/ \E t \in Workers : WorkerStep(t)
    \/ RequestStop
    \/ StopperStep

\* Threads the operating system schedules keep running, and callbacks return
\* (the header requires work to own its completion). Nobody has to request a stop.
Fairness ==
    /\ WF_vars(CallerStep)
    /\ \A t \in Workers : WF_vars(WorkerStep(t))
    /\ WF_vars(StopperStep)

Spec == Init /\ [][Next]_vars
FairSpec == Spec /\ Fairness
=============================================================================
