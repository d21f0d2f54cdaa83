-------------------------- MODULE SchedulerProofs --------------------------
(***************************************************************************)
(* What BoundedWorkScheduler::run guarantees for every number of items and *)
(* of workers, proved of Spec: its integers stay in range although         *)
(* fetch_add runs past the end, nothing is dispatched after a stop, and it *)
(* implements BoundedWork, as run_with_admission_stop does.                *)
(***************************************************************************)
EXTENDS WorkScheduler, FiniteSetTheorems, TLAPS

InlineStates == {"inlineTest", "inlineWork", "inlineStop", "inlineThrew"}
WorkerStates == {"absent", "test", "claim", "count", "work", "threw", "quench", "flag",
                 "inlineTest", "inlineWork", "inlineStop", "inlineThrew", "exit"}
MainStates == {"entry", "inline", "spawn", "run", "join", "report", "returned", "raised",
               "terminated"}

\* The ranges, with no bound yet on what the counters may overshoot.
TypeInv ==
    /\ items \in 0 .. MaxItems /\ limit \in 0 .. MaxLimit
    /\ next \in Nat /\ started \in Nat
    /\ stopFlag \in BOOLEAN /\ threw \in BOOLEAN
    /\ main \in MainStates /\ spawn \in 1 .. MaxLimit
    /\ pc \in [Workers -> WorkerStates] /\ idx \in [Workers -> Nat]
    /\ attempt \in [Indices -> {"none", "ok", "error", "threw"}]
    /\ \A t \in Workers : Owning(t) => idx[t] < items

\* Which path the call takes, and where its threads may be on it.
PlaceInv ==
    /\ main \in {"entry", "raised"} => \A t \in Workers : pc[t] = "absent"
    /\ main = "entry" => next = 0 /\ started = 0 /\ idx[0] = 0 /\ spawn = 1
    /\ main = "inline" => WorkerCount = 1 /\ pc[0] \in InlineStates /\ next = 0
    /\ \A t \in Workers : pc[t] \in InlineStates => t = 0 /\ main = "inline"
    /\ main \in {"spawn", "run", "join", "report"} => WorkerCount > 1
    /\ main = "spawn" => spawn <= WorkerCount /\ \A t \in Workers :
                             pc[t] # "absent" => 0 < t /\ t < spawn
    /\ main = "spawn" /\ spawn = 1 => next = 0
    /\ main = "run" => pc[0] # "absent"
    /\ main \in {"join", "report"} => pc[0] = "exit"
    /\ main \in {"report", "returned"} => \A t \in Workers : pc[t] \in {"absent", "exit"}
    /\ \A t \in Workers : pc[t] # "absent" => t < WorkerCount
    /\ \A t \in Workers : pc[t] \in {"count", "work"} =>
           main \in {"spawn", "run", "join", "terminated"}

Gone == {t \in Workers : pc[t] = "exit"}

\* A fetch_add past the end is a worker's last.
OverInv ==
    /\ next <= items + Cardinality(Gone)
    /\ \A t \in Workers : idx[t] <= items + WorkerCount

\* Dispatch has ended when the flag is up and when a worker leaves.
CloseInv ==
    /\ stopFlag => next >= items /\ items # 0 /\ main \notin {"entry", "inline"}
    /\ \A t \in Workers : pc[t] = "flag" => next >= items
    /\ main # "inline" /\ (\E t \in Workers : pc[t] = "exit") /\ WorkerCount > 1 => next >= items

\* No two workers own an index, and none owns one whose callback has run.
OwnInv ==
    /\ \A t, u \in Workers : Owning(t) /\ Owning(u) /\ idx[t] = idx[u] => t = u
    /\ \A t \in Workers : Owning(t) => attempt[idx[t]] = "none"

\* The claimed indices are an initial run: below the counter, or below the index of
\* the inline loop.
RunInv ==
    /\ main \in {"entry", "raised"} => Finished = {}
    /\ main \in {"spawn", "run", "join", "report"} /\ next < items => Claimed = 0 .. next - 1
    /\ pc[0] = "inlineTest" => Claimed = 0 .. idx[0] - 1 /\ idx[0] <= items
    /\ pc[0] = "inlineWork" => Claimed = 0 .. idx[0]

ClaimInv == OwnInv /\ RunInv

----------------------------------------------------------------------------
(* What the steps of the inline loop do, whichever way they go *)

\* Worker 0, the calling thread, is a worker whatever the limit.
LEMMA Caller == 0 \in Workers
  BY BoundsAssumption DEF Workers

\* What the end of an inline callback changes.
LEMMA InlineEnds ==
    ASSUME InlineCallback
    PROVE  /\ pc[0] = "inlineWork"
           /\ \E a \in {"ok", "error", "threw"} : attempt' = [attempt EXCEPT ![idx[0]] = a]
           /\ \/ pc' = [pc EXCEPT ![0] = "inlineTest"] /\ idx' = [idx EXCEPT ![0] = idx[0] + 1]
              \/ pc' = [pc EXCEPT ![0] = "inlineStop"] /\ idx' = idx
              \/ pc' = [pc EXCEPT ![0] = "inlineThrew"] /\ idx' = idx
           /\ UNCHANGED <<items, limit, next, started, stopFlag, threw, main, spawn, result>>
  BY DEF InlineCallback, Goto, callVars, flagVars, mainVars

\* What the return of the inline loop changes.
LEMMA InlineReturns ==
    ASSUME InlineReturn
    PROVE  /\ \/ pc[0] = "inlineTest" /\ idx[0] = items
              \/ pc[0] \in {"inlineStop", "inlineThrew"}
           /\ pc' = [pc EXCEPT ![0] = "exit"] /\ main' = "returned"
           /\ UNCHANGED <<items, limit, next, started, stopFlag, threw, spawn, idx, attempt>>
  BY DEF InlineReturn, Goto, callVars, flagVars

----------------------------------------------------------------------------
(* Types *)

\* The call starts with every counter at zero.
LEMMA TypeInit == ASSUME Init PROVE TypeInv
<1>1. /\ pc \in [Workers -> WorkerStates] /\ idx \in [Workers -> Nat]
      /\ attempt \in [Indices -> {"none", "ok", "error", "threw"}]
  BY DEF Init, WorkerStates
<1>2. \A t \in Workers : ~ Owning(t)
  BY DEF Init, Owning
<1>3. /\ items \in 0 .. MaxItems /\ limit \in 0 .. MaxLimit /\ next \in Nat
      /\ started \in Nat /\ main \in MainStates /\ spawn \in 1 .. MaxLimit
  BY BoundsAssumption DEF Init, MainStates
<1>4. stopFlag \in BOOLEAN /\ threw \in BOOLEAN
  BY DEF Init
<1> QED
  BY <1>1, <1>2, <1>3, <1>4 DEF TypeInv

\* The counter has room: a worker that is about to claim has not yet gone.
LEMMA Room ==
    ASSUME TypeInv, PlaceInv, OverInv, NEW t \in Workers, pc[t] # "exit", pc[t] # "absent"
    PROVE  /\ items \in Nat /\ WorkerCount \in Nat
           /\ next < items + WorkerCount /\ (next + 1) % Word = next + 1
           /\ IsFiniteSet(Gone) /\ Cardinality(Gone) \in Nat
           /\ Cardinality(Gone \cup {t}) = Cardinality(Gone) + 1
<1>1. items \in Nat /\ WorkerCount \in Nat /\ items + WorkerCount < Word
      /\ Word \in Nat /\ next \in Nat
  BY BoundsAssumption DEF TypeInv, WorkerCount
<1>2. Gone \cup {t} \subseteq 0 .. WorkerCount - 1
  BY <1>1, BoundsAssumption DEF Gone, PlaceInv, TypeInv, Workers
<1>3. IsFiniteSet(0 .. WorkerCount - 1) /\ Cardinality(0 .. WorkerCount - 1) = WorkerCount
  BY <1>1, FS_Interval
<1>4. IsFiniteSet(Gone \cup {t}) /\ Cardinality(Gone \cup {t}) <= WorkerCount
  BY <1>2, <1>3, FS_Subset
<1>5. IsFiniteSet(Gone) /\ t \notin Gone
  BY <1>4, FS_Subset DEF Gone
<1>6. Cardinality(Gone \cup {t}) = Cardinality(Gone) + 1 /\ Cardinality(Gone) \in Nat
  BY <1>5, FS_AddElement, FS_CardinalityType
<1>7. next < items + WorkerCount
  BY <1>1, <1>4, <1>6 DEF OverInv
<1>8. (next + 1) % Word = next + 1
  BY <1>1, <1>7
<1> QED
  BY <1>1, <1>5, <1>6, <1>7, <1>8

\* What a fetch_add does.
LEMMA FetchAdd ==
    ASSUME TypeInv, PlaceInv, OverInv, NEW t \in Workers, ClaimIndex(t)
    PROVE  /\ pc[t] = "claim" /\ idx' = [idx EXCEPT ![t] = next] /\ next' = next + 1
           /\ next >= items => pc' = [pc EXCEPT ![t] = "exit"]
           /\ next < items => pc' = [pc EXCEPT ![t] = "count"]
           /\ UNCHANGED <<items, limit, started, stopFlag, threw, main, spawn, result, attempt>>
<1>1. pc[t] = "claim" /\ next' = (next + 1) % Word
      /\ pc' = [pc EXCEPT ![t] = IF next >= items THEN "exit" ELSE "count"]
      /\ idx' = [idx EXCEPT ![t] = next]
  BY DEF ClaimIndex, Goto
<1>2. UNCHANGED <<items, limit, started, stopFlag, threw, main, spawn, result, attempt>>
  BY DEF ClaimIndex, callVars, mainVars
<1>3. next' = next + 1
  BY <1>1, Room
<1>4. CASE next >= items
  <2>1. pc' = [pc EXCEPT ![t] = "exit"] /\ ~ (next < items)
    BY <1>1, <1>4 DEF TypeInv
  <2> QED
    BY <1>1, <1>2, <1>3, <2>1
<1>5. CASE ~ (next >= items)
  <2>1. pc' = [pc EXCEPT ![t] = "count"]
    BY <1>1, <1>5
  <2> QED
    BY <1>1, <1>2, <1>3, <1>5, <2>1
<1> QED
  BY <1>4, <1>5

\* Every step keeps the types; the one that could leave them is a fetch_add.
LEMMA TypeStep == ASSUME TypeInv, PlaceInv, OverInv, [Next]_vars PROVE TypeInv'
<1> USE BoundsAssumption DEF TypeInv, PlaceInv, Owning, Workers, Indices, WorkerCount,
           MainStates, WorkerStates, InlineStates, Goto, callVars, flagVars, mainVars, workVars
<1>1. CASE EarlyReturn
  BY <1>1 DEF EarlyReturn
<1>2. CASE Begin
  BY <1>2 DEF Begin
<1>3. CASE InlineTake
  BY <1>3 DEF InlineTake
<1>4. CASE InlineCallback
  <2>1. attempt' \in [Indices -> {"none", "ok", "error", "threw"}]
    BY <1>4, InlineEnds
  <2>2. /\ pc' \in [Workers -> WorkerStates] /\ idx' \in [Workers -> Nat]
        /\ \A t \in Workers : Owning(t)' => Owning(t) /\ idx'[t] = idx[t]
    <3>1. CASE pc' = [pc EXCEPT ![0] = "inlineTest"] /\ idx' = [idx EXCEPT ![0] = idx[0] + 1]
      BY <3>1, Caller
    <3>2. CASE /\ idx' = idx
               /\ \/ pc' = [pc EXCEPT ![0] = "inlineStop"]
                  \/ pc' = [pc EXCEPT ![0] = "inlineThrew"]
      BY <3>2, Caller
    <3> QED
      BY <1>4, <3>1, <3>2, InlineEnds
  <2>3. UNCHANGED <<items, limit, next, started, stopFlag, threw, main, spawn>>
    BY <1>4, InlineEnds
  <2> QED
    BY <2>1, <2>2, <2>3
<1>5. CASE InlineReturn
  BY <1>5 DEF InlineReturn
<1>6. CASE StartWorker
  BY <1>6, SMTT(30) DEF StartWorker
<1>7. CASE StartFails
  BY <1>7 DEF StartFails
<1>8. CASE CallerDone
  BY <1>8 DEF CallerDone
<1>9. CASE Join
  BY <1>9 DEF Join
<1>10. CASE Report
  BY <1>10 DEF Report
<1>11. ASSUME NEW t \in Workers, TestStop(t) PROVE TypeInv'
  BY <1>11 DEF TestStop
<1>12. ASSUME NEW t \in Workers, ClaimIndex(t) PROVE TypeInv'
  BY <1>12, Room DEF ClaimIndex
<1>13. ASSUME NEW t \in Workers, CountStart(t) PROVE TypeInv'
  BY <1>13 DEF CountStart
<1>14. ASSUME NEW t \in Workers, RunCallback(t) PROVE TypeInv'
  BY <1>14 DEF RunCallback
<1>15. ASSUME NEW t \in Workers, RecordThrow(t) PROVE TypeInv'
  BY <1>15 DEF RecordThrow
<1>16. ASSUME NEW t \in Workers, Quench(t) PROVE TypeInv'
  BY <1>16 DEF Quench
<1>17. ASSUME NEW t \in Workers, PublishStop(t) PROVE TypeInv'
  BY <1>17 DEF PublishStop
<1>18. CASE UNCHANGED vars
  BY <1>18 DEF vars
<1> QED
  BY <1>1, <1>2, <1>3, <1>4, <1>5, <1>6, <1>7, <1>8, <1>9,
     <1>10, <1>11, <1>12, <1>13, <1>14, <1>15, <1>16, <1>17, <1>18 DEF Next

----------------------------------------------------------------------------
(* Where the threads are *)

\* Nothing has started before the call.
LEMMA PlaceInit == Init => PlaceInv
  BY BoundsAssumption DEF Init, PlaceInv, InlineStates, Workers

\* Every step leaves each thread where the phase of the call allows it.
LEMMA PlaceStep == ASSUME TypeInv, PlaceInv, [Next]_vars PROVE PlaceInv'
<1> USE BoundsAssumption DEF TypeInv, PlaceInv, Workers, WorkerCount,
           MainStates, WorkerStates, InlineStates, Goto, callVars, flagVars, mainVars, workVars
<1>1. CASE EarlyReturn
  BY <1>1 DEF EarlyReturn
<1>2. CASE Begin
  BY <1>2 DEF Begin
<1>3. CASE InlineTake
  BY <1>3 DEF InlineTake
<1>4. CASE InlineCallback
  BY <1>4 DEF InlineCallback
<1>5. CASE InlineReturn
  <2>1. pc[0] \in InlineStates /\ main = "inline" /\ WorkerCount = 1
    BY <1>5, InlineReturns, Caller
  <2>2. \A t \in Workers : t # 0 => pc[t] = "absent"
    BY <2>1
  <2> QED
    BY <1>5, <2>1, <2>2, InlineReturns, Caller, SMTT(30)
<1>6. CASE StartWorker
  BY <1>6 DEF StartWorker
<1>7. CASE StartFails
  BY <1>7 DEF StartFails
<1>8. CASE CallerDone
  BY <1>8 DEF CallerDone
<1>9. CASE Join
  BY <1>9 DEF Join, Background
<1>10. CASE Report
  BY <1>10 DEF Report
<1>11. ASSUME NEW t \in Workers, TestStop(t) PROVE PlaceInv'
  BY <1>11 DEF TestStop
<1>12. ASSUME NEW t \in Workers, ClaimIndex(t) PROVE PlaceInv'
  BY <1>12 DEF ClaimIndex
<1>13. ASSUME NEW t \in Workers, CountStart(t) PROVE PlaceInv'
  BY <1>13 DEF CountStart
<1>14. ASSUME NEW t \in Workers, RunCallback(t) PROVE PlaceInv'
  BY <1>14 DEF RunCallback
<1>15. ASSUME NEW t \in Workers, RecordThrow(t) PROVE PlaceInv'
  BY <1>15 DEF RecordThrow
<1>16. ASSUME NEW t \in Workers, Quench(t) PROVE PlaceInv'
  BY <1>16 DEF Quench
<1>17. ASSUME NEW t \in Workers, PublishStop(t) PROVE PlaceInv'
  BY <1>17 DEF PublishStop
<1>18. CASE UNCHANGED vars
  BY <1>18 DEF vars
<1> QED
  BY <1>1, <1>2, <1>3, <1>4, <1>5, <1>6, <1>7, <1>8, <1>9,
     <1>10, <1>11, <1>12, <1>13, <1>14, <1>15, <1>16, <1>17, <1>18 DEF Next

----------------------------------------------------------------------------
(* The overshoot of the counter *)

\* A worker that has left does not come back, and the call does not change.
LEMMA Steady ==
    ASSUME TypeInv, PlaceInv, [Next]_vars
    PROVE  items' = items /\ limit' = limit /\ \A t \in Workers : pc[t] = "exit" => pc'[t] = "exit"
<1> USE BoundsAssumption DEF TypeInv, PlaceInv, Workers, InlineStates, Goto,
           callVars, flagVars, mainVars, workVars
<1>1. CASE EarlyReturn
  BY <1>1 DEF EarlyReturn
<1>2. CASE Begin
  BY <1>2 DEF Begin
<1>3. CASE InlineTake
  BY <1>3 DEF InlineTake
<1>4. CASE InlineCallback
  BY <1>4, InlineEnds
<1>5. CASE InlineReturn
  BY <1>5, InlineReturns
<1>6. CASE StartWorker
  BY <1>6 DEF StartWorker
<1>7. CASE StartFails
  BY <1>7 DEF StartFails
<1>8. CASE CallerDone
  BY <1>8 DEF CallerDone
<1>9. CASE Join
  BY <1>9 DEF Join
<1>10. CASE Report
  BY <1>10 DEF Report
<1>11. ASSUME NEW t \in Workers, TestStop(t) PROVE  /\ items' = items /\ limit' = limit
          /\ \A u \in Workers : pc[u] = "exit" => pc'[u] = "exit"
  BY <1>11 DEF TestStop
<1>12. ASSUME NEW t \in Workers, ClaimIndex(t) PROVE  /\ items' = items /\ limit' = limit
          /\ \A u \in Workers : pc[u] = "exit" => pc'[u] = "exit"
  BY <1>12 DEF ClaimIndex
<1>13. ASSUME NEW t \in Workers, CountStart(t) PROVE  /\ items' = items /\ limit' = limit
          /\ \A u \in Workers : pc[u] = "exit" => pc'[u] = "exit"
  BY <1>13 DEF CountStart
<1>14. ASSUME NEW t \in Workers, RunCallback(t) PROVE  /\ items' = items /\ limit' = limit
          /\ \A u \in Workers : pc[u] = "exit" => pc'[u] = "exit"
  BY <1>14 DEF RunCallback
<1>15. ASSUME NEW t \in Workers, RecordThrow(t) PROVE  /\ items' = items /\ limit' = limit
          /\ \A u \in Workers : pc[u] = "exit" => pc'[u] = "exit"
  BY <1>15 DEF RecordThrow
<1>16. ASSUME NEW t \in Workers, Quench(t) PROVE  /\ items' = items /\ limit' = limit
          /\ \A u \in Workers : pc[u] = "exit" => pc'[u] = "exit"
  BY <1>16 DEF Quench
<1>17. ASSUME NEW t \in Workers, PublishStop(t) PROVE  /\ items' = items /\ limit' = limit
          /\ \A u \in Workers : pc[u] = "exit" => pc'[u] = "exit"
  BY <1>17 DEF PublishStop
<1>18. CASE UNCHANGED vars
  BY <1>18 DEF vars
<1> QED
  BY <1>1, <1>2, <1>3, <1>4, <1>5, <1>6, <1>7, <1>8, <1>9,
     <1>10, <1>11, <1>12, <1>13, <1>14, <1>15, <1>16, <1>17, <1>18 DEF Next

\* No worker has overshot the counter at the start.
LEMMA OverInit == Init => OverInv
<1> SUFFICES ASSUME Init PROVE OverInv
  OBVIOUS
<1>1. Gone = {} /\ Cardinality(Gone) = 0
  BY FS_EmptySet DEF Init, Gone
<1> QED
  BY <1>1, BoundsAssumption DEF Init, OverInv, WorkerCount

\* A counter that does not overshoot further, on workers of which none came back.
LEMMA OverKept ==
    ASSUME TypeInv, PlaceInv, OverInv, items' = items, limit' = limit,
           \A t \in Workers : pc[t] = "exit" => pc'[t] = "exit",
           next' \in Nat, next' <= next \/ next' <= items,
           \A t \in Workers : idx'[t] <= items + WorkerCount
    PROVE  OverInv'
<1>1. Gone \subseteq Gone' /\ Gone' \subseteq 0 .. MaxLimit - 1
  BY DEF Gone, Workers
<1>2. IsFiniteSet(0 .. MaxLimit - 1)
  BY BoundsAssumption, FS_Interval
<1>3. /\ IsFiniteSet(Gone') /\ Cardinality(Gone') \in Nat
      /\ Cardinality(Gone) \in Nat /\ Cardinality(Gone) <= Cardinality(Gone')
  BY <1>1, <1>2, FS_Subset, FS_CardinalityType
<1>4. Cardinality(Gone)' = Cardinality(Gone') /\ WorkerCount' = WorkerCount
  BY DEF WorkerCount
<1>5. next' <= items + Cardinality(Gone')
  BY <1>3 DEF OverInv, TypeInv
<1> QED
  BY <1>4, <1>5 DEF OverInv

\* The counter passes the end by at most one for each worker that saw it there.
LEMMA OverStep == ASSUME TypeInv, PlaceInv, OverInv, [Next]_vars PROVE OverInv'
<1> USE DEF TypeInv
<1>1. items' = items /\ limit' = limit /\ \A t \in Workers : pc[t] = "exit" => pc'[t] = "exit"
  BY Steady
<1>2. ASSUME NEW t \in Workers, ClaimIndex(t) PROVE OverInv'
  <2>1. /\ idx' = [idx EXCEPT ![t] = next] /\ next' = next + 1 /\ pc[t] = "claim"
        /\ next >= items => pc' = [pc EXCEPT ![t] = "exit"]
    BY <1>2, FetchAdd
  <2>2. next < items + WorkerCount /\ Cardinality(Gone) \in Nat /\ WorkerCount \in Nat
        /\ Cardinality(Gone \cup {t}) = Cardinality(Gone) + 1
    BY <2>1, Room
  <2>3. \A u \in Workers : idx'[u] <= items + WorkerCount
    BY <2>1, <2>2 DEF OverInv
  <2>4. CASE next < items
    <3>1. next' \in Nat /\ next' <= items
      BY <2>1, <2>4
    <3> QED
      BY <1>1, <2>3, <3>1, OverKept
  <2>5. CASE next >= items
    <3>1. Gone' = Gone \cup {t}
      <4>1. pc' = [pc EXCEPT ![t] = "exit"]
        BY <2>1, <2>5
      <4> QED
        BY <4>1 DEF Gone
    <3>2. next' <= items + Cardinality(Gone')
      BY <2>1, <2>2, <3>1 DEF OverInv
    <3>3. WorkerCount' = WorkerCount /\ Cardinality(Gone)' = Cardinality(Gone')
      BY <1>1 DEF WorkerCount
    <3> QED
      BY <1>1, <2>3, <3>2, <3>3 DEF OverInv
  <2> QED
    BY <2>4, <2>5
<1>3. CASE InlineCallback
  <2>1. idx[0] < items
    BY <1>3, InlineEnds, Caller DEF Owning
  <2>2. \A t \in Workers : idx'[t] <= items + WorkerCount
    BY <1>3, <2>1, InlineEnds, Caller, BoundsAssumption DEF OverInv, WorkerCount
  <2> QED
    BY <1>1, <1>3, <2>2, InlineEnds, OverKept
<1>4. CASE (\E t \in Workers : Quench(t)) /\ ~ \E t \in Workers : ClaimIndex(t)
  BY <1>1, <1>4, OverKept DEF Quench, workVars, OverInv
<1>5. CASE ~ InlineCallback /\ ~ \E t \in Workers : ClaimIndex(t) \/ Quench(t)
  <2>1. next' = next /\ idx' = idx
    BY <1>5 DEF Next, EarlyReturn, Begin, InlineTake, InlineReturn, StartWorker, StartFails,
        CallerDone, Join, Report, TestStop, CountStart, RunCallback, RecordThrow, PublishStop,
        vars, flagVars, workVars
  <2> QED
    BY <1>1, <2>1, OverKept DEF OverInv
<1> QED
  BY <1>2, <1>3, <1>4, <1>5

----------------------------------------------------------------------------
(* The end of dispatch *)

\* The stop flag is down at the start.
LEMMA CloseInit == Init => CloseInv
  BY DEF Init, CloseInv

\* A counter at its end stays there, and the flag goes up only after it.
LEMMA CloseStep == ASSUME TypeInv, PlaceInv, OverInv, CloseInv, [Next]_vars PROVE CloseInv'
<1> USE BoundsAssumption DEF TypeInv, PlaceInv, CloseInv, Workers, WorkerCount,
           InlineStates, Goto, callVars, flagVars, mainVars, workVars
<1>1. CASE EarlyReturn
  BY <1>1 DEF EarlyReturn
<1>2. CASE Begin
  BY <1>2 DEF Begin
<1>3. CASE InlineTake
  BY <1>3 DEF InlineTake
<1>4. CASE InlineCallback
  BY <1>4, InlineEnds, Caller
<1>5. CASE InlineReturn
  BY <1>5, InlineReturns, Caller
<1>6. CASE StartWorker
  BY <1>6 DEF StartWorker
<1>7. CASE StartFails
  BY <1>7 DEF StartFails
<1>8. CASE CallerDone
  BY <1>8 DEF CallerDone
<1>9. CASE Join
  BY <1>9 DEF Join
<1>10. CASE Report
  BY <1>10 DEF Report
<1>11. ASSUME NEW t \in Workers, TestStop(t) PROVE CloseInv'
  BY <1>11 DEF TestStop
<1>12. ASSUME NEW t \in Workers, ClaimIndex(t) PROVE CloseInv'
  <2>1. CASE next >= items
    <3>1. pc' = [pc EXCEPT ![t] = "exit"] /\ next' >= items
      BY <1>12, <2>1, FetchAdd, SMTT(30)
    <3> QED
      BY <1>12, <3>1, FetchAdd
  <2>2. CASE next < items
    <3>1. pc' = [pc EXCEPT ![t] = "count"]
      BY <1>12, <2>2, FetchAdd
    <3> QED
      BY <1>12, <2>2, <3>1, FetchAdd
  <2> QED
    BY <2>1, <2>2
<1>13. ASSUME NEW t \in Workers, CountStart(t) PROVE CloseInv'
  BY <1>13 DEF CountStart
<1>14. ASSUME NEW t \in Workers, RunCallback(t) PROVE CloseInv'
  BY <1>14 DEF RunCallback
<1>15. ASSUME NEW t \in Workers, RecordThrow(t) PROVE CloseInv'
  BY <1>15 DEF RecordThrow
<1>16. ASSUME NEW t \in Workers, Quench(t) PROVE CloseInv'
  BY <1>16 DEF Quench
<1>17. ASSUME NEW t \in Workers, PublishStop(t) PROVE CloseInv'
  BY <1>17 DEF PublishStop
<1>18. CASE UNCHANGED vars
  BY <1>18 DEF vars
<1> QED
  BY <1>1, <1>2, <1>3, <1>4, <1>5, <1>6, <1>7, <1>8, <1>9,
     <1>10, <1>11, <1>12, <1>13, <1>14, <1>15, <1>16, <1>17, <1>18 DEF Next

----------------------------------------------------------------------------
(* What has been claimed *)

\* Nothing is claimed at the start.
LEMMA ClaimInit == ASSUME Init PROVE ClaimInv
<1>1. /\ \A t \in Workers : ~ Owning(t)
      /\ Finished = {} /\ main = "entry" /\ pc[0] = "absent"
  BY Caller DEF Init, Owning, Finished
<1> QED
  BY <1>1 DEF ClaimInv, OwnInv, RunInv

\* A step that changes neither who owns what nor the slots.
LEMMA ClaimSame ==
    ASSUME TypeInv, OwnInv, attempt' = attempt,
           \A t \in Workers : Owning(t)' <=> Owning(t),
           \A t \in Workers : Owning(t) => idx'[t] = idx[t]
    PROVE  OwnInv' /\ Claimed' = Claimed /\ Owned' = Owned /\ Finished' = Finished
<1>1. Owned' = Owned /\ Finished' = Finished
  BY DEF Owned, Finished
<1> QED
  BY <1>1 DEF Claimed, OwnInv

\* A thread takes an index that nobody has claimed.
LEMMA ClaimTakes ==
    ASSUME TypeInv, OwnInv, NEW t \in Workers, NEW i \in Indices, i \notin Claimed,
           ~ Owning(t), NEW to \in {"count", "inlineWork"},
           pc' = [pc EXCEPT ![t] = to], idx' = [idx EXCEPT ![t] = i], attempt' = attempt
    PROVE  OwnInv' /\ Claimed' = Claimed \cup {i} /\ Owned' = Owned \cup {i}
<1>1. /\ \A u \in Workers : Owning(u)' <=> (Owning(u) \/ u = t)
      /\ \A u \in Workers \ {t} : idx'[u] = idx[u]
      /\ idx'[t] = i
  BY DEF Owning, TypeInv
<1>2. Owned' = Owned \cup {i}
  <2>1. Owned' \subseteq Owned \cup {i}
    BY <1>1 DEF Owned
  <2>2. ASSUME NEW u \in Workers, Owning(u) PROVE idx[u] \in Owned'
    BY <1>1, <2>2 DEF Owned
  <2>3. i \in Owned'
    BY <1>1 DEF Owned
  <2> QED
    BY <2>1, <2>2, <2>3 DEF Owned
<1>3. Finished' = Finished
  BY DEF Finished
<1>4. \A u \in Workers : Owning(u) => idx[u] # i
  BY DEF Claimed, Owned
<1>5. attempt[i] = "none"
  BY DEF Claimed, Finished
<1>6. OwnInv'
  BY <1>1, <1>4, <1>5 DEF OwnInv
<1> QED
  BY <1>2, <1>3, <1>6 DEF Claimed

\* A finished callback hands its index over from its owner to its slot.
LEMMA ClaimEnds ==
    ASSUME TypeInv, OwnInv, NEW t \in Workers, Owning(t),
           NEW a \in {"ok", "error", "threw"}, attempt' = [attempt EXCEPT ![idx[t]] = a],
           NEW to \in WorkerStates \ {"count", "work", "inlineWork"},
           pc' = [pc EXCEPT ![t] = to],
           \A u \in Workers \ {t} : idx'[u] = idx[u]
    PROVE  /\ OwnInv' /\ idx[t] \in Owned /\ Claimed' = Claimed
           /\ Owned' = Owned \ {idx[t]} /\ Finished' = Finished \cup {idx[t]}
<1>1. idx[t] \in Indices
  BY BoundsAssumption DEF TypeInv, Indices
<1>2. \A u \in Workers : Owning(u)' <=> (Owning(u) /\ u # t)
  BY DEF Owning, TypeInv
<1>3. idx[t] \in Owned
  BY DEF Owned
<1>4. Owned' = Owned \ {idx[t]}
  BY <1>2 DEF Owned, OwnInv
<1>5. Finished' = Finished \cup {idx[t]}
  BY <1>1 DEF Finished, TypeInv
<1>6. \A u \in Workers : Owning(u)' => idx'[u] # idx[t] /\ idx'[u] = idx[u]
  BY <1>2 DEF OwnInv
<1>7. \A i \in Indices : i # idx[t] => attempt'[i] = attempt[i]
  BY DEF TypeInv
<1>8. \A u \in Workers : Owning(u) => idx[u] \in Indices
  BY BoundsAssumption DEF TypeInv, Indices
<1>9. OwnInv'
  BY <1>2, <1>6, <1>7, <1>8 DEF OwnInv
<1> QED
  BY <1>3, <1>4, <1>5, <1>9 DEF Claimed

\* The steps that take an index.
Takes == InlineTake \/ \E t \in Workers : ClaimIndex(t) /\ next < items

\* The steps that end a callback.
Ends == InlineCallback \/ \E t \in Workers : RunCallback(t)

\* The inline loop takes the next index of the run, holding none.
LEMMA TakenInline ==
    ASSUME TypeInv, PlaceInv, ClaimInv, InlineTake
    PROVE  /\ Claimed' = Claimed \cup {idx[0]} /\ Owned' = Owned \cup {idx[0]}
           /\ Claimed = 0 .. idx[0] - 1 /\ Owned = {} /\ ClaimInv'
<1> USE Caller
<1>1. /\ pc[0] = "inlineTest" /\ pc' = [pc EXCEPT ![0] = "inlineWork"] /\ idx[0] < items
      /\ UNCHANGED <<idx, attempt, next, main, items>>
  BY DEF InlineTake, Goto, callVars, mainVars
<1>2. idx' = [idx EXCEPT ![0] = idx[0]]
  BY <1>1 DEF TypeInv
<1>3. Claimed = 0 .. idx[0] - 1 /\ idx[0] \in Nat
  BY <1>1 DEF ClaimInv, RunInv, TypeInv
<1>4. idx[0] \in Indices /\ idx[0] \notin Claimed
  BY <1>1, <1>3, BoundsAssumption DEF Indices, TypeInv
<1>5. ~ Owning(0)
  BY <1>1 DEF Owning
<1>6. OwnInv' /\ Claimed' = Claimed \cup {idx[0]} /\ Owned' = Owned \cup {idx[0]}
  BY <1>1, <1>2, <1>4, <1>5, ClaimTakes DEF ClaimInv
<1>7. main = "inline" /\ \A u \in Workers : u # 0 => pc[u] = "absent"
  BY <1>1, BoundsAssumption DEF PlaceInv, InlineStates, Workers
<1>8. Owned = {}
  BY <1>5, <1>7 DEF Owned, Owning
<1>9. pc'[0] = "inlineWork" /\ Claimed' = 0 .. idx'[0]
  BY <1>1, <1>2, <1>3, <1>6 DEF TypeInv
<1>10. RunInv'
  BY <1>1, <1>7, <1>9 DEF RunInv
<1> QED
  BY <1>3, <1>6, <1>8, <1>10 DEF ClaimInv

\* A fetch_add below the end takes the next index of the run.
LEMMA TakenByWorker ==
    ASSUME TypeInv, PlaceInv, OverInv, ClaimInv, NEW t \in Workers, ClaimIndex(t), next < items,
           main # "terminated"
    PROVE  /\ Claimed' = Claimed \cup {next} /\ Owned' = Owned \cup {next}
           /\ Claimed = 0 .. next - 1 /\ next' = next + 1 /\ ClaimInv'
           /\ main \in {"spawn", "run", "join"} /\ WorkerCount > 1
<1>1. /\ pc[t] = "claim" /\ pc' = [pc EXCEPT ![t] = "count"]
      /\ idx' = [idx EXCEPT ![t] = next] /\ UNCHANGED <<attempt, main, items>>
  BY FetchAdd
<1>2. next' = next + 1
  BY FetchAdd
<1>3. main \in {"spawn", "run", "join"} /\ WorkerCount > 1
  BY <1>1, BoundsAssumption DEF PlaceInv, InlineStates, Workers, TypeInv, MainStates
<1>4. Claimed = 0 .. next - 1
  BY <1>3 DEF ClaimInv, RunInv
<1>5. next \in Indices /\ next \notin Claimed
  BY <1>4, BoundsAssumption DEF Indices, TypeInv
<1>6. ~ Owning(t)
  BY <1>1 DEF Owning
<1>7. OwnInv' /\ Claimed' = Claimed \cup {next} /\ Owned' = Owned \cup {next}
  BY <1>1, <1>5, <1>6, ClaimTakes DEF ClaimInv
<1>8. Claimed' = 0 .. next' - 1
  BY <1>2, <1>4, <1>7 DEF TypeInv
<1>9. pc'[0] \notin {"inlineTest", "inlineWork"}
  BY <1>1, <1>3, Caller DEF PlaceInv, InlineStates, TypeInv
<1>10. RunInv'
  BY <1>1, <1>3, <1>8, <1>9 DEF RunInv
<1> QED
  BY <1>2, <1>3, <1>4, <1>7, <1>10 DEF ClaimInv

\* The callback of worker t ends: its index stays claimed and is owned no more.
EndsAt(t) ==
    /\ idx[t] \in Owned /\ Claimed' = Claimed
    /\ Owned' = Owned \ {idx[t]} /\ Finished' = Finished \cup {idx[t]}
    /\ \A u \in Workers \ {t} : pc'[u] = pc[u] /\ idx'[u] = idx[u]
    /\ pc'[t] \in WorkerStates \ {"count", "work", "inlineWork"}

\* An inline callback that ends lets go of its index.
LEMMA EndedInline ==
    ASSUME TypeInv, PlaceInv, ClaimInv, InlineCallback
    PROVE  EndsAt(0) /\ ClaimInv'
<1> USE Caller
<1>1. pc[0] = "inlineWork" /\ Owning(0) /\ UNCHANGED <<items, next, main>>
  BY InlineEnds DEF Owning
<1>2. PICK a \in {"ok", "error", "threw"} : attempt' = [attempt EXCEPT ![idx[0]] = a]
  BY InlineEnds
<1>3. PICK to \in {"inlineTest", "inlineStop", "inlineThrew"} :
           /\ pc' = [pc EXCEPT ![0] = to]
           /\ to = "inlineTest" => idx' = [idx EXCEPT ![0] = idx[0] + 1]
           /\ to # "inlineTest" => idx' = idx
  BY InlineEnds
<1>4. \A u \in Workers \ {0} : pc'[u] = pc[u] /\ idx'[u] = idx[u]
  BY <1>3 DEF TypeInv
<1>5. to \in WorkerStates \ {"count", "work", "inlineWork"} /\ pc'[0] = to
  BY <1>3 DEF WorkerStates, TypeInv
<1>6. /\ OwnInv' /\ idx[0] \in Owned /\ Claimed' = Claimed
      /\ Owned' = Owned \ {idx[0]} /\ Finished' = Finished \cup {idx[0]}
  BY <1>1, <1>2, <1>3, <1>4, <1>5, ClaimEnds DEF ClaimInv
<1>7. main = "inline"
  BY <1>1 DEF PlaceInv, InlineStates
<1>8. Claimed = 0 .. idx[0] /\ idx[0] < items /\ idx[0] \in Nat /\ items \in Nat
  BY <1>1 DEF ClaimInv, RunInv, TypeInv
<1>9. to = "inlineTest" => idx'[0] = idx[0] + 1
  BY <1>3 DEF TypeInv
<1>10. to = "inlineTest" => Claimed' = 0 .. idx'[0] - 1 /\ idx'[0] <= items
  BY <1>6, <1>8, <1>9
<1>11. RunInv'
  BY <1>1, <1>3, <1>5, <1>7, <1>10 DEF RunInv
<1> QED
  BY <1>4, <1>5, <1>6, <1>11 DEF ClaimInv, EndsAt

\* A worker's callback that ends lets go of its index.
LEMMA EndedByWorker ==
    ASSUME TypeInv, PlaceInv, ClaimInv, NEW t \in Workers, RunCallback(t)
    PROVE  EndsAt(t) /\ ClaimInv'
<1>1. pc[t] = "work" /\ Owning(t) /\ UNCHANGED <<items, next, main, idx>>
  BY DEF RunCallback, Goto, Owning, callVars, flagVars, mainVars
<1>2. PICK a \in {"ok", "error", "threw"}, to \in {"test", "quench", "threw"} :
           attempt' = [attempt EXCEPT ![idx[t]] = a] /\ pc' = [pc EXCEPT ![t] = to]
  BY DEF RunCallback, Goto
<1>3. to \in WorkerStates \ {"count", "work", "inlineWork"} /\ pc'[t] = to
  BY <1>2 DEF WorkerStates, TypeInv
<1>4. \A u \in Workers \ {t} : pc'[u] = pc[u] /\ idx'[u] = idx[u]
  BY <1>1, <1>2 DEF TypeInv
<1>5. /\ OwnInv' /\ idx[t] \in Owned /\ Claimed' = Claimed
      /\ Owned' = Owned \ {idx[t]} /\ Finished' = Finished \cup {idx[t]}
  BY <1>1, <1>2, <1>3, <1>4, ClaimEnds DEF ClaimInv
<1>6. main \notin {"entry", "raised"} /\ pc[0] \notin {"inlineTest", "inlineWork"}
  BY <1>1, Caller DEF PlaceInv, InlineStates
<1>7. pc'[0] \notin {"inlineTest", "inlineWork"}
  BY <1>2, <1>3, <1>4, <1>6, Caller DEF TypeInv
<1>8. RunInv'
  BY <1>1, <1>5, <1>6, <1>7 DEF RunInv, ClaimInv
<1> QED
  BY <1>3, <1>4, <1>5, <1>8 DEF ClaimInv, EndsAt

\* Every other step leaves the claims alone.
LEMMA ClaimRest ==
    ASSUME TypeInv, PlaceInv, OverInv, ClaimInv, [Next]_vars, ~ Takes, ~ Ends
    PROVE  ClaimInv' /\ Claimed' = Claimed /\ Owned' = Owned /\ Finished' = Finished
<1> USE DEF TypeInv
<1>1. attempt' = attempt /\ items' = items
  BY Steady DEF Next, Takes, Ends, EarlyReturn, Begin, InlineReturn, StartWorker, StartFails,
      CallerDone, Join, Report, TestStop, ClaimIndex, CountStart, RecordThrow, Quench,
      PublishStop, vars, workVars
<1>2. /\ \A t \in Workers : Owning(t)' <=> Owning(t)
      /\ \A t \in Workers : Owning(t) => idx'[t] = idx[t]
  <2> USE BoundsAssumption DEF Owning, PlaceInv, Workers, Goto, workVars, InlineStates
  <2>1. CASE EarlyReturn
    BY <2>1 DEF EarlyReturn
  <2>2. CASE Begin
    BY <2>2 DEF Begin
  <2>3. CASE InlineReturn
    BY <2>3 DEF InlineReturn
  <2>4. CASE StartWorker
    BY <2>4 DEF StartWorker
  <2>5. CASE StartFails
    BY <2>5 DEF StartFails
  <2>6. CASE CallerDone
    BY <2>6 DEF CallerDone
  <2>7. CASE Join
    BY <2>7 DEF Join
  <2>8. CASE Report
    BY <2>8 DEF Report
  <2>9. CASE \E t \in Workers : TestStop(t)
    BY <2>9 DEF TestStop
  <2>10. CASE \E t \in Workers : ClaimIndex(t) /\ next >= items
    BY <2>10 DEF ClaimIndex
  <2>11. CASE \E t \in Workers : CountStart(t)
    BY <2>11 DEF CountStart
  <2>12. CASE \E t \in Workers : RecordThrow(t)
    BY <2>12 DEF RecordThrow
  <2>13. CASE \E t \in Workers : Quench(t)
    BY <2>13 DEF Quench
  <2>14. CASE \E t \in Workers : PublishStop(t)
    BY <2>14 DEF PublishStop
  <2>15. CASE UNCHANGED vars
    BY <2>15 DEF vars
  <2> QED
    BY <2>1, <2>2, <2>3, <2>4, <2>5, <2>6, <2>7, <2>8,
       <2>9, <2>10, <2>11, <2>12, <2>13, <2>14, <2>15 DEF Next, Takes, Ends
<1>3. OwnInv' /\ Claimed' = Claimed /\ Owned' = Owned /\ Finished' = Finished
  BY <1>1, <1>2, ClaimSame DEF ClaimInv
<1>4. RunInv'
  <2> USE <1>1, <1>3 DEF ClaimInv, RunInv
  <2>1. CASE EarlyReturn
    BY <2>1, Caller DEF EarlyReturn, PlaceInv, workVars
  <2>2. CASE Begin
    <3>1. /\ main = "entry" /\ next' = next /\ next = 0 /\ items # 0 /\ idx' = idx /\ idx[0] = 0
          /\ pc[0] = "absent" /\ pc'[0] \in {"absent", "inlineTest"} /\ main' \in {"inline", "spawn"}
      BY <2>2, Caller DEF Begin, PlaceInv, flagVars
    <3>2. Claimed = {}
      BY <3>1 DEF Claimed, Owned, Owning, PlaceInv
    <3> QED
      BY <3>1, <3>2
  <2>3. CASE InlineReturn
    BY <2>3, InlineReturns, Caller
  <2>4. CASE StartFails
    <3>1. CASE spawn = 1
      <4>1. /\ main = "spawn" /\ main' = "raised" /\ next' = next /\ pc' = pc /\ idx' = idx
            /\ next = 0 /\ items # 0
        BY <2>4, <3>1, BoundsAssumption DEF StartFails, flagVars, workVars, PlaceInv, WorkerCount
      <4>2. Claimed = {}
        BY <4>1
      <4>3. pc[0] = "absent"
        BY <4>1, Caller DEF PlaceInv
      <4> QED
        BY <4>1, <4>2, <4>3 DEF Claimed
    <3>2. CASE spawn # 1
      BY <2>4, <3>2, Caller DEF StartFails, workVars
    <3> QED
      BY <3>1, <3>2
  <2>5. CASE StartWorker
    <3>1. /\ main = "spawn" /\ main' \in {"spawn", "run"} /\ next' = next
          /\ pc[0] = "absent" /\ pc'[0] \in {"absent", "test"}
      BY <2>5, BoundsAssumption DEF StartWorker, flagVars, PlaceInv, Workers
    <3> QED
      BY <3>1
  <2>6. CASE CallerDone \/ Join \/ Report
    BY <2>6 DEF CallerDone, Join, Report, flagVars, workVars
  <2>7. ASSUME NEW t \in Workers,
               \/ TestStop(t) \/ (ClaimIndex(t) /\ next >= items) \/ CountStart(t)
               \/ RecordThrow(t) \/ Quench(t) \/ PublishStop(t)
        PROVE  RunInv'
    <3>1. /\ pc[t] \in {"test", "claim", "count", "threw", "quench", "flag"} /\ main' = main
          /\ \E to \in {"exit", "claim", "work", "quench", "flag", "test"} :
                pc' = [pc EXCEPT ![t] = to]
      <4>1. CASE TestStop(t)
        BY <4>1 DEF TestStop, Goto, mainVars
      <4>2. CASE ClaimIndex(t) /\ next >= items
        BY <4>2, FetchAdd
      <4>3. CASE CountStart(t) \/ RecordThrow(t) \/ Quench(t) \/ PublishStop(t)
        BY <4>3 DEF CountStart, RecordThrow, Quench, PublishStop, Goto, mainVars
      <4> QED
        BY <2>7, <4>1, <4>2, <4>3
    <3>2. pc'[0] \notin {"inlineTest", "inlineWork"}
      <4>1. main # "inline"
        BY <3>1, BoundsAssumption DEF PlaceInv, InlineStates, Workers
      <4>2. pc[0] \notin {"inlineTest", "inlineWork"}
        BY <4>1, Caller DEF PlaceInv, InlineStates
      <4> QED
        BY <3>1, <4>2, Caller
    <3>3. next' = next \/ next' >= items
      <4>1. CASE ClaimIndex(t) /\ next >= items
        BY <4>1, FetchAdd
      <4>2. CASE TestStop(t) \/ CountStart(t) \/ RecordThrow(t) \/ Quench(t) \/ PublishStop(t)
        BY <2>7, <4>2 DEF TestStop, CountStart, RecordThrow, Quench, PublishStop, flagVars
      <4> QED
        BY <2>7, <4>1, <4>2
    <3>4. next' \in Nat
      BY TypeStep
    <3> QED
      BY <3>1, <3>2, <3>3, <3>4
  <2>8. CASE UNCHANGED vars
    BY <2>8 DEF vars, flagVars, mainVars, workVars
  <2> QED
    BY <2>1, <2>2, <2>3, <2>4, <2>5, <2>6, <2>7, <2>8 DEF Next, Takes, Ends
<1> QED
  BY <1>3, <1>4 DEF ClaimInv

\* Claims stay an initial run of the indices, each with one owner.
LEMMA ClaimStep == ASSUME TypeInv, PlaceInv, OverInv, ClaimInv, [Next]_vars PROVE ClaimInv'
<1>1. CASE InlineTake
  BY <1>1, TakenInline
<1>2. CASE InlineCallback
  BY <1>2, EndedInline
<1>3. ASSUME NEW t \in Workers, RunCallback(t) PROVE ClaimInv'
  BY <1>3, EndedByWorker
<1>4. ASSUME NEW t \in Workers, ClaimIndex(t), next < items, Next PROVE ClaimInv'
  BY <1>4, TakenByWorker DEF Next
<1>5. CASE UNCHANGED vars
  BY <1>5 DEF ClaimInv, OwnInv, RunInv, Owning, Claimed, Owned, Finished, vars, callVars, flagVars,
              mainVars, workVars
<1>6. CASE Next /\ ~ Takes /\ ~ Ends
  BY <1>6, ClaimRest
<1> QED
  BY <1>1, <1>2, <1>3, <1>4, <1>5, <1>6 DEF Takes, Ends

----------------------------------------------------------------------------
(* Counting the callbacks *)

Working == {idx[t] : t \in {u \in Workers : pc[u] \in {"work", "inlineWork"}}}
Begun == Finished \cup Working

\* started_count counts the callbacks that have begun.
CountInv ==
    /\ Begun \subseteq 0 .. items - 1
    /\ started = Cardinality(Begun)

\* No callback is counted at the start.
LEMMA CountInit == ASSUME Init PROVE CountInv
<1>1. Begun = {}
  BY DEF Init, Begun, Finished, Working
<1> QED
  BY <1>1, FS_EmptySet DEF CountInv, Init

\* One more callback begins.
LEMMA CountBegins ==
    ASSUME TypeInv, CountInv, items' = items, NEW i \in 0 .. items - 1, i \notin Begun,
           Begun' = Begun \cup {i}, started' = started + 1
    PROVE  CountInv'
<1>1. IsFiniteSet(Begun)
  <2>1. 0 \in Int /\ items - 1 \in Int
    BY DEF TypeInv
  <2>2. IsFiniteSet(0 .. items - 1)
    BY <2>1, FS_Interval
  <2> QED
    BY <2>2, FS_Subset DEF CountInv
<1>2. Cardinality(Begun') = Cardinality(Begun) + 1
  BY <1>1, FS_AddElement
<1>3. Cardinality(Begun)' = Cardinality(Begun')
  OBVIOUS
<1> QED
  BY <1>2, <1>3 DEF CountInv

\* A callback that ends was begun.
LEMMA CountEnds ==
    ASSUME TypeInv, CountInv, items' = items, started' = started,
           NEW t \in Workers, pc[t] \in {"work", "inlineWork"}, EndsAt(t)
    PROVE  CountInv'
<1>1. idx[t] \in Working
  BY DEF Working
<1>2. Working \subseteq Working' \cup {idx[t]}
  BY DEF Working, EndsAt
<1>3. Working' \subseteq Working
  BY DEF Working, EndsAt
<1>4. Finished' = Finished \cup {idx[t]}
  BY DEF EndsAt
<1>5. Begun' = Begun
  BY <1>1, <1>2, <1>3, <1>4 DEF Begun
<1> QED
  BY <1>5 DEF CountInv

\* started_count counts the claims whose worker has passed the increment.
LEMMA CountStep ==
    ASSUME TypeInv, PlaceInv, OverInv, ClaimInv, CountInv, [Next]_vars PROVE CountInv'
<1>0. items' = items
  BY Steady
<1>1. CASE InlineTake
  <2> USE Caller
  <2>1. /\ pc[0] = "inlineTest" /\ pc' = [pc EXCEPT ![0] = "inlineWork"] /\ idx[0] < items
        /\ UNCHANGED <<idx, attempt>> /\ started' = started + 1
    BY <1>1 DEF InlineTake, Goto
  <2>2. idx[0] \in 0 .. items - 1
    BY <2>1 DEF TypeInv
  <2>3. Working' = Working \cup {idx[0]} /\ Finished' = Finished
    BY <2>1 DEF Working, Finished, TypeInv
  <2>4. idx[0] \notin Claimed
    BY <1>1, <2>2, TakenInline
  <2>5. Begun \subseteq Claimed
    BY DEF Begun, Working, Claimed, Owned, Owning
  <2> QED
    BY <1>0, <2>1, <2>2, <2>3, <2>4, <2>5, CountBegins DEF Begun
<1>2. ASSUME NEW t \in Workers, CountStart(t) PROVE CountInv'
  <2>1. /\ pc[t] = "count" /\ pc' = [pc EXCEPT ![t] = "work"]
        /\ UNCHANGED <<idx, attempt>> /\ started' = started + 1
    BY <1>2 DEF CountStart, Goto
  <2>2. Owning(t) /\ idx[t] \in 0 .. items - 1
    BY <2>1 DEF TypeInv, Owning
  <2>3. Working' = Working \cup {idx[t]} /\ Finished' = Finished
    BY <2>1 DEF Working, Finished, TypeInv
  <2>4. idx[t] \notin Working
    BY <2>1, <2>2 DEF Working, ClaimInv, OwnInv, Owning
  <2>5. idx[t] \notin Finished
    BY <2>2 DEF Finished, ClaimInv, OwnInv
  <2> QED
    BY <1>0, <2>1, <2>2, <2>3, <2>4, <2>5, CountBegins DEF Begun
<1>3. CASE InlineCallback
  BY <1>0, <1>3, Caller, InlineEnds, EndedInline, CountEnds
<1>4. ASSUME NEW t \in Workers, RunCallback(t) PROVE CountInv'
  <2>1. pc[t] = "work" /\ started' = started
    BY <1>4 DEF RunCallback, Goto, flagVars
  <2> QED
    BY <1>0, <1>4, <2>1, EndedByWorker, CountEnds
<1>5. CASE ~ InlineTake /\ ~ InlineCallback /\ ~ \E t \in Workers : CountStart(t) \/ RunCallback(t)
  <2>1. started' = started /\ attempt' = attempt
    BY <1>5 DEF Next, EarlyReturn, Begin, InlineReturn, StartWorker, StartFails, CallerDone, Join,
        Report, TestStop, ClaimIndex, RecordThrow, Quench, PublishStop, vars, flagVars, workVars
  <2>2. /\ \A t \in Workers : pc'[t] \in {"work", "inlineWork"} <=> pc[t] \in {"work", "inlineWork"}
        /\ \A t \in Workers : pc[t] \in {"work", "inlineWork"} => idx'[t] = idx[t]
    <3> USE BoundsAssumption DEF PlaceInv, Workers, Goto, workVars, InlineStates, TypeInv
    <3>1. CASE EarlyReturn
      BY <3>1 DEF EarlyReturn
    <3>2. CASE Begin
      BY <3>2 DEF Begin
    <3>3. CASE InlineReturn
      BY <3>3 DEF InlineReturn
    <3>4. CASE StartWorker
      BY <3>4 DEF StartWorker
    <3>5. CASE StartFails
      BY <3>5 DEF StartFails
    <3>6. CASE CallerDone
      BY <3>6 DEF CallerDone
    <3>7. CASE Join
      BY <3>7 DEF Join
    <3>8. CASE Report
      BY <3>8 DEF Report
    <3>9. CASE \E t \in Workers : TestStop(t)
      BY <3>9 DEF TestStop
    <3>10. CASE \E t \in Workers : ClaimIndex(t)
      BY <3>10 DEF ClaimIndex
    <3>11. CASE \E t \in Workers : RecordThrow(t)
      BY <3>11 DEF RecordThrow
    <3>12. CASE \E t \in Workers : Quench(t)
      BY <3>12 DEF Quench
    <3>13. CASE \E t \in Workers : PublishStop(t)
      BY <3>13 DEF PublishStop
    <3>14. CASE UNCHANGED vars
      BY <3>14 DEF vars
    <3> QED
      BY <1>5, <3>1, <3>2, <3>3, <3>4, <3>5, <3>6, <3>7, <3>8,
         <3>9, <3>10, <3>11, <3>12, <3>13, <3>14 DEF Next
  <2>3. Begun' = Begun
    BY <2>1, <2>2 DEF Begun, Finished, Working
  <2> QED
    BY <1>0, <2>1, <2>3 DEF CountInv
<1> QED
  BY <1>1, <1>2, <1>3, <1>4, <1>5

----------------------------------------------------------------------------
IInv == TypeInv /\ PlaceInv /\ OverInv /\ CloseInv /\ ClaimInv /\ CountInv

\* The invariant the theorems below rest on: TypeInv and OverInv hold each other up,
\* for the types need the room the overshoot leaves.
THEOREM SchedulerInvariant == Spec => []IInv
<1>1. Init => IInv
  BY TypeInit, PlaceInit, OverInit, CloseInit, ClaimInit, CountInit DEF IInv
<1>2. IInv /\ [Next]_vars => IInv'
  BY TypeStep, PlaceStep, OverStep, CloseStep, ClaimStep, CountStep DEF IInv
<1> QED
  BY <1>1, <1>2, PTL DEF Spec

\* next_index passes item_count by at most one fetch_add of each worker, and never
\* comes near the wrap of std::size_t; started_count never passes item_count.
THEOREM SchedulerTypes == Spec => []TypeOK
<1>1. ASSUME IInv PROVE TypeOK
  <2> USE <1>1 DEF IInv
  <2>1. items \in Nat /\ WorkerCount \in Nat
    BY BoundsAssumption DEF TypeInv, WorkerCount
  <2>2. Gone \subseteq 0 .. WorkerCount - 1
    BY <2>1, BoundsAssumption DEF Gone, PlaceInv, Workers, TypeInv
  <2>3. Cardinality(Gone) \in Nat /\ Cardinality(Gone) <= WorkerCount
    <3>1. IsFiniteSet(0 .. WorkerCount - 1) /\ Cardinality(0 .. WorkerCount - 1) = WorkerCount
      BY <2>1, FS_Interval
    <3> QED
      BY <2>2, <3>1, FS_Subset, FS_CardinalityType
  <2>4. next \in 0 .. items + WorkerCount
    BY <2>1, <2>3 DEF TypeInv, OverInv
  <2>5. started \in 0 .. items
    <3>1. IsFiniteSet(0 .. items - 1) /\ Cardinality(0 .. items - 1) = items
      BY <2>1, FS_Interval
    <3>2. Cardinality(Begun) <= items
      BY <3>1, FS_Subset DEF CountInv
    <3> QED
      BY <2>1, <3>2 DEF CountInv, TypeInv
  <2>6. idx \in [Workers -> 0 .. items + WorkerCount]
    BY <2>1 DEF TypeInv, OverInv
  <2> QED
    BY <2>4, <2>5, <2>6 DEF TypeInv, TypeOK
<1> QED
  BY <1>1, SchedulerInvariant, PTL

\* What was claimed when the stop flag went up is all that is ever claimed: a worker
\* that read the flag before finds the counter at its end.
THEOREM StopStopsDispatch == Spec => NoDispatchAfterStop
<1>1. ASSUME IInv, [Next]_vars PROVE [stopFlag => Claimed' = Claimed]_vars
  <2> USE <1>1 DEF IInv
  <2>1. ASSUME stopFlag, Next PROVE Claimed' = Claimed
    <3>1. next >= items /\ main # "inline" /\ next \in Nat /\ items \in Nat
      BY <2>1 DEF CloseInv, TypeInv
    <3>2. ~ Takes
      BY <3>1, Caller DEF Takes, InlineTake, Goto, PlaceInv, InlineStates
    <3>3. CASE InlineCallback
      BY <3>3, EndedInline DEF EndsAt
    <3>4. ASSUME NEW t \in Workers, RunCallback(t) PROVE Claimed' = Claimed
      BY <3>4, EndedByWorker DEF EndsAt
    <3>5. CASE ~ Ends
      BY <3>2, <3>5, ClaimRest
    <3> QED
      BY <3>3, <3>4, <3>5 DEF Ends
  <2> QED
    BY <2>1
<1> QED
  BY <1>1, SchedulerInvariant, PTL DEF Spec, NoDispatchAfterStop

----------------------------------------------------------------------------
(* The refinement of BoundedWork *)

\* What BoundedWork is told of admission and of the return, as in WorkScheduler.
Closed ==
    \/ items # 0 /\ next >= items
    \/ pc[0] \in {"inlineStop", "inlineThrew"}
    \/ main \in {"inline", "returned"} /\ WorkerCount = 1
          /\ (\/ pc[0] = "exit"
              \/ pc[0] = "inlineWork" /\ idx[0] + 1 = items
              \/ pc[0] = "inlineTest" /\ idx[0] = items)
Over == main \in {"returned", "raised"}

\* The steps of BoundedWork, in terms of the claims.
LEMMA AbstractAdmit ==
    ASSUME NEW i \in 0 .. items - 1, ~ Closed, ~ Over, Claimed = 0 .. i - 1,
           Cardinality(Owned) < limit, Owned' = Owned \cup {i}, Claimed' = Claimed \cup {i},
           Closed' <=> (i + 1 = items), items' = items, limit' = limit, Over' <=> Over
    PROVE  Abstract!ANext
<1>1. Abstract!Cardinality(Owned) < limit
  <2>1. Abstract!Cardinality(Owned) = Cardinality(Owned)
    BY Zenon DEF Abstract!Cardinality, Cardinality
  <2> QED
    BY <2>1
<1>2. (\/ items # 0 /\ next >= items
       \/ pc[0] \in {"inlineStop", "inlineThrew"}
       \/ main \in {"inline", "returned"} /\ WorkerCount = 1
             /\ (\/ pc[0] = "exit"
                 \/ pc[0] = "inlineWork" /\ idx[0] + 1 = items
                 \/ pc[0] = "inlineTest" /\ idx[0] = items))' = (i + 1 = items)
  BY Zenon DEF Closed
<1>3. (main \in {"returned", "raised"})' = (main \in {"returned", "raised"})
  BY SMT DEF Over
<1>4. Abstract!Admit(i)
  BY <1>1, <1>2, <1>3, Zenon DEF Abstract!Admit, Closed, Over
<1> QED
  BY <1>4 DEF Abstract!ANext

\* The end of a callback is a Complete of BoundedWork.
LEMMA AbstractComplete ==
    ASSUME NEW i \in Owned, Owned' = Owned \ {i}, Claimed' = Claimed, Closed => Closed',
           items' = items, limit' = limit, Over' <=> Over
    PROVE  Abstract!ANext
<1>1. Abstract!Complete(i)
  BY DEF Abstract!Complete, Closed, Over
<1> QED
  BY <1>1 DEF Abstract!ANext

\* Admission that closes is a Close of BoundedWork.
LEMMA AbstractClose ==
    ASSUME ~ Over, ~ Over', Closed', Claimed' = Claimed, Owned' = Owned, items' = items,
           limit' = limit
    PROVE  Abstract!ANext
<1>1. Abstract!Close
  BY DEF Abstract!Close, Closed, Over
<1> QED
  BY <1>1 DEF Abstract!ANext

\* A drained return is a Return of BoundedWork.
LEMMA AbstractReturn ==
    ASSUME ~ Over, Over', Owned = {}, Closed \/ Claimed = {}, Closed' <=> Closed,
           Claimed' = Claimed, Owned' = Owned, items' = items, limit' = limit
    PROVE  Abstract!ANext
<1>1. Abstract!Return
  BY DEF Abstract!Return, Closed, Over
<1> QED
  BY <1>1 DEF Abstract!ANext

\* A step that moves no claim, not admission and not the return is unseen.
LEMMA AbstractStutter ==
    ASSUME Closed' <=> Closed, Over' <=> Over, Claimed' = Claimed, Owned' = Owned,
           items' = items, limit' = limit
    PROVE  UNCHANGED Abstract!avars
  BY DEF Abstract!avars, Closed, Over

\* The call starts as a dispatch of BoundedWork does.
LEMMA RefinementInit == ASSUME Init PROVE Abstract!AInit
<1>1. Owned = {} /\ Claimed = {}
  BY DEF Init, Owned, Owning, Claimed, Finished
<1>2. ~ Closed /\ ~ Over /\ items \in Nat /\ limit \in Nat
  BY BoundsAssumption, Caller DEF Init, Closed, Over
<1> QED
  BY <1>1, <1>2 DEF Abstract!AInit, Closed, Over

\* A worker about to claim is one of at most `limit`, and owns nothing yet.
LEMMA BelowCeiling ==
    ASSUME TypeInv, PlaceInv, NEW t \in Workers, pc[t] = "claim"
    PROVE  Cardinality(Owned) < limit
<1> DEFINE Owners == {u \in Workers : Owning(u)}
           Others == (0 .. limit - 1) \ {t}
<1>1. limit \in Nat /\ t \in 0 .. limit - 1
  BY BoundsAssumption DEF TypeInv, PlaceInv, WorkerCount, Workers
<1>2. IsFiniteSet(0 .. limit - 1) /\ Cardinality(0 .. limit - 1) = limit
  BY <1>1, FS_Interval
<1>3. IsFiniteSet(Others) /\ Cardinality(Others) = limit - 1
  BY <1>1, <1>2, FS_RemoveElement
<1>4. Owners \subseteq Others
  BY BoundsAssumption DEF TypeInv, PlaceInv, WorkerCount, Workers, Owning
<1>5. IsFiniteSet(Owners) /\ Cardinality(Owners) <= limit - 1
  BY <1>3, <1>4, FS_Subset
<1>6. [u \in Owners |-> idx[u]] \in Surjection(Owners, Owned)
  BY DEF Owned, Surjection
<1>7. IsFiniteSet(Owned) /\ Cardinality(Owned) <= Cardinality(Owners)
  BY <1>5, <1>6, FS_Surjection
<1> QED
  BY <1>1, <1>5, <1>7, FS_CardinalityType

\* On the parallel path admission is closed by the counter alone.
LEMMA ClosedParallel ==
    ASSUME TypeInv, PlaceInv, WorkerCount > 1
    PROVE  Closed <=> next >= items
<1>1. items # 0 /\ WorkerCount # 1
  BY BoundsAssumption DEF WorkerCount, TypeInv
<1>2. main # "inline"
  BY <1>1 DEF PlaceInv
<1>3. pc[0] \notin {"inlineStop", "inlineThrew"}
  BY <1>2, Caller DEF PlaceInv, InlineStates
<1> QED
  BY <1>1, <1>3 DEF Closed

\* The same after a step, which leaves the path as it was.
LEMMA ClosedParallelNext ==
    ASSUME TypeInv, PlaceInv, OverInv, [Next]_vars, WorkerCount > 1
    PROVE  Closed' <=> next' >= items'
<1>1. TypeInv' /\ PlaceInv' /\ WorkerCount' = WorkerCount
  BY TypeStep, PlaceStep, Steady DEF WorkerCount
<1>2. items' # 0 /\ WorkerCount' # 1
  BY <1>1, BoundsAssumption DEF WorkerCount, TypeInv
<1>3. main' # "inline"
  BY <1>1, <1>2 DEF PlaceInv
<1>4. pc'[0] \notin {"inlineStop", "inlineThrew"}
  BY <1>1, <1>3, Caller DEF PlaceInv, InlineStates
<1> QED
  BY <1>2, <1>4 DEF Closed

\* Before any worker exists nothing is claimed, and admission is open.
LEMMA NothingYet ==
    ASSUME TypeInv, PlaceInv, ClaimInv,
           main = "entry" \/ (main = "spawn" /\ spawn = 1)
    PROVE  /\ Owned = {} /\ Claimed = {} /\ next = 0 /\ pc[0] = "absent" /\ ~ Closed
<1>1. \A t \in Workers : pc[t] = "absent"
  BY DEF PlaceInv, TypeInv, Workers
<1>2. Owned = {} /\ next = 0 /\ pc[0] = "absent"
  BY <1>1, Caller DEF Owned, Owning, PlaceInv
<1>3. Claimed = {}
  <2>1. CASE main = "entry"
    BY <1>2, <2>1 DEF ClaimInv, RunInv, Claimed
  <2>2. CASE main = "spawn"
    <3>1. items > 0
      BY <2>2, BoundsAssumption DEF PlaceInv, WorkerCount, TypeInv
    <3> QED
      BY <1>2, <2>2, <3>1 DEF ClaimInv, RunInv
  <2> QED
    BY <2>1, <2>2
<1>4. ~ Closed
  BY <1>2 DEF Closed, TypeInv
<1> QED
  BY <1>2, <1>3, <1>4

\* The steps of the inline loop, on the calling thread alone.
LEMMA RefinementInline ==
    ASSUME TypeInv, PlaceInv, ClaimInv, InlineTake \/ InlineCallback \/ InlineReturn
    PROVE  Abstract!ANext
<1> USE Caller
<1>0. /\ main = "inline" /\ WorkerCount = 1 /\ next = 0 /\ items \in Nat \ {0}
      /\ limit \in Nat \ {0} /\ idx[0] \in Nat
  <2>1. pc[0] \in InlineStates
    BY InlineEnds, InlineReturns DEF InlineTake, Goto, InlineStates
  <2>2. main = "inline" /\ WorkerCount = 1 /\ next = 0
    BY <2>1 DEF PlaceInv
  <2> QED
    BY <2>2, BoundsAssumption DEF WorkerCount, TypeInv
<1>1. CASE InlineTake
  <2>1. /\ pc[0] = "inlineTest" /\ pc' = [pc EXCEPT ![0] = "inlineWork"] /\ idx[0] < items
        /\ UNCHANGED <<items, limit, next, main, idx>>
    BY <1>1 DEF InlineTake, Goto, callVars, mainVars
  <2>2. /\ Claimed' = Claimed \cup {idx[0]} /\ Owned' = Owned \cup {idx[0]}
        /\ Claimed = 0 .. idx[0] - 1 /\ Owned = {}
    BY <1>1, TakenInline
  <2>3. pc'[0] = "inlineWork" /\ WorkerCount' = WorkerCount
    BY <2>1 DEF TypeInv, WorkerCount
  <2>4. ~ Closed
    BY <1>0, <2>1 DEF Closed
  <2>5. Closed' <=> (idx[0] + 1 = items)
    BY <1>0, <2>1, <2>3 DEF Closed
  <2>6. Cardinality(Owned) < limit
    BY <1>0, <2>2, FS_EmptySet
  <2>7. ~ Over /\ ~ Over' /\ idx[0] \in 0 .. items - 1
    BY <1>0, <2>1 DEF Over
  <2> QED
    BY <2>1, <2>2, <2>4, <2>5, <2>6, <2>7, AbstractAdmit
<1>2. CASE InlineCallback
  <2>1. /\ pc[0] = "inlineWork" /\ UNCHANGED <<items, limit, next, main>>
        /\ \/ pc' = [pc EXCEPT ![0] = "inlineTest"] /\ idx' = [idx EXCEPT ![0] = idx[0] + 1]
           \/ pc' = [pc EXCEPT ![0] = "inlineStop"] /\ idx' = idx
           \/ pc' = [pc EXCEPT ![0] = "inlineThrew"] /\ idx' = idx
    BY <1>2, InlineEnds
  <2>2. /\ idx[0] \in Owned /\ Owned' = Owned \ {idx[0]} /\ Claimed' = Claimed
    BY <1>2, EndedInline DEF EndsAt
  <2>3. ~ Over /\ ~ Over' /\ WorkerCount' = WorkerCount
    BY <1>0, <2>1 DEF Over, WorkerCount
  <2>4. Closed => Closed'
    <3>1. \/ pc'[0] = "inlineTest" /\ idx'[0] = idx[0] + 1
          \/ pc'[0] \in {"inlineStop", "inlineThrew"}
      BY <2>1 DEF TypeInv
    <3> QED
      BY <1>0, <2>1, <2>3, <3>1 DEF Closed
  <2> QED
    BY <2>1, <2>2, <2>3, <2>4, AbstractComplete
<1>3. CASE InlineReturn
  <2>1. /\ \/ pc[0] = "inlineTest" /\ idx[0] = items
           \/ pc[0] \in {"inlineStop", "inlineThrew"}
        /\ pc' = [pc EXCEPT ![0] = "exit"] /\ main' = "returned"
        /\ UNCHANGED <<items, limit, next, idx, attempt>>
    BY <1>3, InlineReturns
  <2>2. \A t \in Workers : t # 0 => pc[t] = "absent"
    BY <1>0, BoundsAssumption DEF PlaceInv, Workers
  <2>3. \A t \in Workers : ~ Owning(t) /\ ~ Owning(t)'
    BY <2>1, <2>2 DEF Owning, TypeInv
  <2>4. Owned = {} /\ Owned' = {} /\ Claimed' = Claimed
    BY <2>1, <2>3 DEF Owned, Claimed, Finished
  <2>5. Closed /\ Closed'
    BY <1>0, <2>1 DEF Closed, WorkerCount, TypeInv
  <2>6. ~ Over /\ Over'
    BY <1>0, <2>1 DEF Over
  <2> QED
    BY <2>1, <2>4, <2>5, <2>6, AbstractReturn
<1> QED
  BY <1>1, <1>2, <1>3

\* A worker that is in its loop is one of the parallel path.
LEMMA OnParallelPath ==
    ASSUME TypeInv, PlaceInv, main # "terminated", NEW t \in Workers,
           pc[t] \in {"test", "claim", "count", "work", "threw", "quench", "flag"}
    PROVE  main \in {"spawn", "run", "join"} /\ WorkerCount > 1 /\ ~ Over
  BY BoundsAssumption DEF PlaceInv, InlineStates, Workers, TypeInv, MainStates, Over

\* A fetch_add below the end admits the next index, under the ceiling.
LEMMA RefinementTake ==
    ASSUME TypeInv, PlaceInv, OverInv, ClaimInv, Next, NEW t \in Workers, ClaimIndex(t),
           next < items
    PROVE  Abstract!ANext
<1>1. /\ pc[t] = "claim" /\ UNCHANGED <<items, limit, main>> /\ main # "terminated"
  BY FetchAdd DEF Next
<1>2. WorkerCount > 1 /\ ~ Over /\ ~ Over'
  BY <1>1, OnParallelPath DEF Over
<1>3. /\ Claimed' = Claimed \cup {next} /\ Owned' = Owned \cup {next}
      /\ Claimed = 0 .. next - 1 /\ next' = next + 1
  BY <1>1, TakenByWorker
<1>4. Cardinality(Owned) < limit
  BY <1>1, BelowCeiling
<1>5. next \in 0 .. items - 1
  BY DEF TypeInv
<1>6. ~ Closed
  BY <1>2, <1>5, ClosedParallel DEF TypeInv
<1>7. Closed' <=> next + 1 >= items
  BY <1>1, <1>2, <1>3, ClosedParallelNext
<1>8. Closed' <=> (next + 1 = items)
  BY <1>5, <1>7 DEF TypeInv
<1> QED
  BY <1>1, <1>2, <1>3, <1>4, <1>5, <1>6, <1>8, AbstractAdmit

\* A callback of a worker that ends completes its index.
LEMMA RefinementEnds ==
    ASSUME TypeInv, PlaceInv, OverInv, ClaimInv, Next, NEW t \in Workers, RunCallback(t)
    PROVE  Abstract!ANext
<1>1. /\ pc[t] = "work" /\ UNCHANGED <<items, limit, main, next>> /\ main # "terminated"
  BY DEF Next, RunCallback, Goto, callVars, mainVars, flagVars
<1>2. WorkerCount > 1 /\ ~ Over /\ ~ Over'
  BY <1>1, OnParallelPath DEF Over
<1>3. idx[t] \in Owned /\ Owned' = Owned \ {idx[t]} /\ Claimed' = Claimed
  BY EndedByWorker DEF EndsAt
<1>4. Closed => Closed'
  BY <1>1, <1>2, ClosedParallel, ClosedParallelNext
<1> QED
  BY <1>1, <1>2, <1>3, <1>4, AbstractComplete

\* The other steps return, close admission or are not seen.
LEMMA RefinementRest ==
    ASSUME TypeInv, PlaceInv, OverInv, CloseInv, ClaimInv, [Next]_vars, ~ Takes, ~ Ends,
           ~ InlineReturn
    PROVE  [Abstract!ANext]_(Abstract!avars)
<1>1. Claimed' = Claimed /\ Owned' = Owned /\ items' = items /\ limit' = limit
  BY ClaimRest, Steady
<1>2. WorkerCount' = WorkerCount /\ items \in Nat /\ next \in Nat
  BY <1>1 DEF WorkerCount, TypeInv
<1>3. CASE EarlyReturn
  <2>1. main = "entry" /\ main' = "returned" /\ UNCHANGED <<next, pc, idx>>
    BY <1>3 DEF EarlyReturn, flagVars, workVars
  <2>2. Owned = {} /\ Claimed = {} /\ pc[0] = "absent" /\ next = 0 /\ ~ Closed
    BY <2>1, NothingYet
  <2>3. ~ Closed'
    BY <1>1, <2>1, <2>2 DEF Closed, TypeInv
  <2>4. ~ Over /\ Over'
    BY <2>1 DEF Over
  <2> QED
    BY <1>1, <2>2, <2>3, <2>4, AbstractReturn
<1>4. CASE Begin
  <2>1. main = "entry" /\ main' \in {"inline", "spawn"} /\ UNCHANGED <<next, idx>> /\ items # 0
    BY <1>4 DEF Begin, flagVars
  <2>2. next = 0 /\ ~ Closed /\ idx[0] = 0
    BY <2>1, NothingYet DEF PlaceInv
  <2>3. pc'[0] \in {"absent", "inlineTest"}
    BY <1>4, <2>1, NothingYet, Caller DEF Begin, TypeInv
  <2>4. ~ Closed'
    BY <1>1, <1>2, <2>1, <2>2, <2>3 DEF Closed
  <2>5. ~ Over /\ ~ Over'
    BY <2>1 DEF Over
  <2> QED
    BY <1>1, <2>2, <2>4, <2>5, AbstractStutter
<1>5. CASE StartFails /\ spawn = 1
  <2>1. main = "spawn" /\ main' = "raised" /\ UNCHANGED <<next, pc, idx>>
    BY <1>5 DEF StartFails, flagVars, workVars
  <2>2. Owned = {} /\ Claimed = {} /\ pc[0] = "absent" /\ next = 0 /\ ~ Closed
    BY <1>5, <2>1, NothingYet
  <2>3. ~ Closed'
    BY <1>1, <2>1, <2>2 DEF Closed, TypeInv
  <2>4. ~ Over /\ Over'
    BY <2>1 DEF Over
  <2> QED
    BY <1>1, <2>2, <2>3, <2>4, AbstractReturn
<1>6. CASE Report
  <2>1. main = "report" /\ main' = "returned" /\ next' = next
    BY <1>6 DEF Report, flagVars
  <2>2. WorkerCount > 1 /\ pc[0] = "exit" /\ \A t \in Workers : pc[t] \in {"absent", "exit"}
    BY <2>1 DEF PlaceInv
  <2>3. Owned = {}
    BY <2>2 DEF Owned, Owning
  <2>4. next >= items
    BY <2>1, <2>2, Caller DEF CloseInv
  <2>5. Closed /\ Closed'
    BY <1>1, <2>1, <2>2, <2>4, ClosedParallel, ClosedParallelNext
  <2>6. ~ Over /\ Over'
    BY <2>1 DEF Over
  <2> QED
    BY <1>1, <2>3, <2>5, <2>6, AbstractReturn
<1>7. CASE StartWorker \/ CallerDone \/ Join \/ (StartFails /\ spawn # 1)
  <2>1. main \in {"spawn", "run", "join"} /\ next' = next
    BY <1>7 DEF StartWorker, CallerDone, Join, StartFails, flagVars
  <2>2. ~ Over /\ ~ Over'
    BY <1>7 DEF StartWorker, CallerDone, Join, StartFails, Over
  <2>3. WorkerCount > 1
    BY <2>1 DEF PlaceInv
  <2>4. Closed' <=> Closed
    BY <1>1, <2>1, <2>3, ClosedParallel, ClosedParallelNext
  <2> QED
    BY <1>1, <2>2, <2>4, AbstractStutter
<1>8. ASSUME Next, NEW t \in Workers,
             \/ TestStop(t) \/ (ClaimIndex(t) /\ next >= items) \/ CountStart(t)
             \/ RecordThrow(t) \/ Quench(t) \/ PublishStop(t)
      PROVE  [Abstract!ANext]_(Abstract!avars)
  <2>1. /\ pc[t] \in {"test", "claim", "count", "threw", "quench", "flag"}
        /\ main' = main /\ main # "terminated"
    BY <1>8 DEF Next, TestStop, ClaimIndex, CountStart, RecordThrow, Quench, PublishStop, Goto,
                mainVars
  <2>2. WorkerCount > 1 /\ ~ Over /\ ~ Over'
    BY <2>1, OnParallelPath DEF Over
  <2>3. next' = next \/ next' >= items
    <3>1. CASE ClaimIndex(t) /\ next >= items
      BY <1>2, <3>1, FetchAdd
    <3>2. CASE TestStop(t) \/ CountStart(t) \/ RecordThrow(t) \/ Quench(t) \/ PublishStop(t)
      BY <1>2, <3>2 DEF TestStop, CountStart, RecordThrow, Quench, PublishStop, flagVars
    <3> QED
      BY <1>8, <3>1, <3>2
  <2>4. CASE Closed'
    BY <1>1, <2>2, <2>4, AbstractClose
  <2>5. CASE ~ Closed'
    <3>1. ~ Closed
      BY <1>1, <2>2, <2>3, <2>5, ClosedParallel, ClosedParallelNext
    <3> QED
      BY <1>1, <2>2, <2>5, <3>1, AbstractStutter
  <2> QED
    BY <2>4, <2>5
<1>9. CASE UNCHANGED vars
  <2>1. (Closed' <=> Closed) /\ (Over' <=> Over)
    BY <1>9 DEF Closed, Over, WorkerCount, vars, callVars, flagVars, mainVars, workVars
  <2> QED
    BY <1>1, <2>1, AbstractStutter
<1>10. CASE Next
  <2>1. ASSUME NEW t \in Workers, ClaimIndex(t) PROVE next >= items
    BY <1>2, <2>1 DEF Takes
  <2>2. ~ InlineTake /\ ~ InlineCallback /\ \A t \in Workers : ~ RunCallback(t)
    BY DEF Takes, Ends
  <2>4. PICK t \in Workers :
           \/ EarlyReturn \/ Begin \/ StartWorker \/ StartFails \/ CallerDone \/ Join \/ Report
           \/ TestStop(t) \/ ClaimIndex(t) \/ CountStart(t) \/ RecordThrow(t) \/ Quench(t)
           \/ PublishStop(t)
    BY <1>10, <2>2, Caller DEF Next
  <2>5. CASE EarlyReturn \/ Begin \/ Report
    BY <1>3, <1>4, <1>6, <2>5
  <2>6. CASE StartWorker \/ CallerDone \/ Join \/ StartFails
    BY <1>5, <1>7, <2>6
  <2>7. CASE TestStop(t) \/ ClaimIndex(t) \/ CountStart(t) \/ RecordThrow(t) \/ Quench(t)
             \/ PublishStop(t)
    BY <1>8, <1>10, <2>1, <2>7
  <2> QED
    BY <2>4, <2>5, <2>6, <2>7
<1> QED
  BY <1>9, <1>10

\* Every step is one of BoundedWork or none.
LEMMA RefinementStep ==
    ASSUME IInv, [Next]_vars PROVE [Abstract!ANext]_(Abstract!avars)
<1> USE DEF IInv
<1>1. CASE InlineTake \/ InlineCallback \/ InlineReturn
  BY <1>1, RefinementInline
<1>2. ASSUME Next, NEW t \in Workers, ClaimIndex(t), next < items
      PROVE  Abstract!ANext
  BY <1>2, RefinementTake
<1>3. ASSUME Next, NEW t \in Workers, RunCallback(t) PROVE Abstract!ANext
  BY <1>3, RefinementEnds
<1>4. CASE ~ Takes /\ ~ Ends /\ ~ InlineReturn
  BY <1>4, RefinementRest
<1>5. CASE UNCHANGED vars
  <2>1. ~ Takes /\ ~ Ends /\ ~ InlineReturn
    BY <1>5, Caller, InlineEnds, InlineReturns DEF Takes, Ends, InlineTake, ClaimIndex,
       RunCallback, Goto, vars, mainVars, workVars, TypeInv
  <2> QED
    BY <2>1, RefinementRest
<1> QED
  BY <1>1, <1>2, <1>3, <1>4, <1>5 DEF Takes, Ends

\* run, like run_with_admission_stop, is one dispatch of BoundedWork: its ceiling, its
\* order, its closing and its drain, on the inline and on the parallel path.
THEOREM SchedulerImplements == Spec => ImplementsBoundedWork
<1>1. IInv /\ [Next]_vars => [Abstract!ANext]_(Abstract!avars)
  BY RefinementStep
<1> QED
  BY <1>1, RefinementInit, SchedulerInvariant, PTL
     DEF Spec, ImplementsBoundedWork, Abstract!ASpec

=============================================================================
