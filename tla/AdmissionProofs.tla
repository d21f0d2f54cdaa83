-------------------------- MODULE AdmissionProofs --------------------------
(***************************************************************************)
(* What run_with_admission_stop and the batch above it guarantee for every *)
(* number of items and workers, proved of BatchSpec, and that it           *)
(* implements BoundedWork.                                                 *)
(***************************************************************************)
EXTENDS WorkBatch, FiniteSetTheorems, TLAPS

\* An index a worker holds to claim, or has claimed, is below item_count.
IndexBound == \A t \in Workers : pc[t] \in {"cas", "count", "work"} => idx[t] < items

\* The thread-creation loop stays below the number of workers.
SpawnBound == main = "start" => spawn < WorkerCount

TypeInv == TypeOK /\ IndexBound /\ SpawnBound

\* The initial states have the types and bounds.
LEMMA TypeInit == Init => TypeInv
<1> SUFFICES ASSUME Init PROVE TypeInv
  OBVIOUS
<1> USE BoundsAssumption DEF Init
<1>1. /\ items \in 0 .. MaxItems /\ limit \in 0 .. MaxLimit /\ next \in 0 .. items
      /\ started \in Nat /\ main \in MainStates /\ spawn \in 1 .. MaxLimit
  BY DEF MainStates
<1>2. /\ pc \in [Workers -> WorkerStates]
      /\ idx \in [Workers -> 0 .. MaxItems]
      /\ attempt \in [Indices -> {"none", "ok", "error", "threw"}]
  BY DEF WorkerStates, Workers, Indices
<1>3. /\ stopFlag \in BOOLEAN /\ observed \in BOOLEAN /\ threw \in BOOLEAN
      /\ startFailed \in BOOLEAN /\ token \in BOOLEAN
      /\ stopper \in {"idle", "close", "flag", "observe", "done"}
  OBVIOUS
<1>4. IndexBound /\ SpawnBound
  BY DEF IndexBound, SpawnBound
<1> QED
  BY <1>1, <1>2, <1>3, <1>4 DEF TypeInv, TypeOK

\* Every step of the calling thread keeps the types and bounds.
LEMMA TypeCaller == TypeInv /\ CallerStep => TypeInv'
<1> SUFFICES ASSUME TypeInv, CallerStep PROVE TypeInv'
  OBVIOUS
<1> USE BoundsAssumption DEF TypeInv, TypeOK, IndexBound, SpawnBound, Workers, Indices,
        callVars, flagVars, workVars, stopVars, WorkerCount, MainStates, WorkerStates
<1>1. CASE EarlyReturn
  BY <1>1 DEF EarlyReturn
<1>2. CASE Begin
  BY <1>2 DEF Begin
<1>3. CASE Register
  BY <1>3 DEF Register
<1>4. CASE RegisterClose
  BY <1>4 DEF RegisterClose
<1>5. CASE RegisterFlag
  BY <1>5 DEF RegisterFlag
<1>6. CASE RegisterObserve
  BY <1>6 DEF RegisterObserve
<1>7. CASE SpawnTest
  BY <1>7 DEF SpawnTest, BecomeWorker
<1>8. CASE StartWorker
  BY <1>8 DEF StartWorker
<1>9. CASE StartFails
  BY <1>9 DEF StartFails
<1>10. CASE StartFailClose
  BY <1>10 DEF StartFailClose
<1>11. CASE StartFailFlag
  BY <1>11 DEF StartFailFlag
<1>12. CASE CallerDone
  BY <1>12 DEF CallerDone
<1>13. CASE JoinAll
  BY <1>13 DEF JoinAll
<1>14. CASE Deregister
  BY <1>14 DEF Deregister
<1>15. CASE Report
  BY <1>15 DEF Report
<1> QED
  BY <1>1, <1>2, <1>3, <1>4, <1>5, <1>6, <1>7, <1>8, <1>9, <1>10, <1>11, <1>12,
     <1>13, <1>14, <1>15 DEF CallerStep

\* Every step of a worker keeps them: a claim succeeds only on an index below
\* item_count, so next_index cannot pass it.
LEMMA TypeWorker == ASSUME TypeInv, NEW t \in Workers, WorkerStep(t) PROVE TypeInv'
<1> USE BoundsAssumption DEF TypeInv, TypeOK, IndexBound, SpawnBound, Workers, Indices,
        callVars, flagVars, mainVars, workVars, stopVars, WorkerCount, WorkerStates, Goto
<1>1. CASE LoadIndex(t)
  BY <1>1 DEF LoadIndex
<1>2. CASE ClaimIndex(t)
  <2>1. CASE next = idx[t]
    BY <1>2, <2>1, SMTT(30) DEF ClaimIndex
  <2>2. CASE next # idx[t]
    <3>1. /\ UNCHANGED <<items, limit, next, started, stopFlag, observed, threw, startFailed,
                         main, spawn, result, attempt, token, stopper>>
          /\ idx' = [idx EXCEPT ![t] = next]
          /\ pc' = [pc EXCEPT ![t] = IF next = items THEN "exit" ELSE "cas"]
      BY <1>2, <2>2 DEF ClaimIndex
    <3>2. pc' \in [Workers -> WorkerStates]
      BY <3>1
    <3>3. idx' \in [Workers -> 0 .. MaxItems]
      BY <3>1
    <3>4. IndexBound'
      BY <3>1
    <3> QED BY <3>1, <3>2, <3>3, <3>4
  <2> QED BY <2>1, <2>2
<1>3. CASE CountStart(t)
  BY <1>3 DEF CountStart
<1>4. CASE RunCallback(t)
  <2>1. /\ idx[t] \in Indices
        /\ \E r \in {"ok", "error", "threw"} : attempt' = [attempt EXCEPT ![idx[t]] = r]
    BY <1>4 DEF RunCallback
  <2>2. attempt' \in [Indices -> {"none", "ok", "error", "threw"}]
    BY <2>1
  <2>3. pc[t] = "work" /\ \E to \in {"load", "close", "threw"} : pc' = [pc EXCEPT ![t] = to]
    BY <1>4 DEF RunCallback
  <2>4. pc' \in [Workers -> WorkerStates] /\ IndexBound'
    BY <1>4, <2>3 DEF RunCallback
  <2> QED BY <1>4, <2>2, <2>4 DEF RunCallback
<1>5. CASE RecordThrow(t)
  BY <1>5 DEF RecordThrow
<1>6. CASE WorkerClose(t)
  BY <1>6 DEF WorkerClose
<1>7. CASE WorkerFlag(t)
  BY <1>7 DEF WorkerFlag
<1> QED
  BY <1>1, <1>2, <1>3, <1>4, <1>5, <1>6, <1>7 DEF WorkerStep

\* So do a stop request, its callback, and a dispatch that cannot be set up.
LEMMA TypeOthers ==
    TypeInv /\ (RequestStop \/ StopperStep \/ DispatchThrows \/ UNCHANGED vars) => TypeInv'
<1> SUFFICES ASSUME TypeInv, RequestStop \/ StopperStep \/ DispatchThrows \/ UNCHANGED vars
             PROVE TypeInv'
  OBVIOUS
<1> USE BoundsAssumption DEF TypeInv, TypeOK, IndexBound, SpawnBound, Workers, Indices,
        callVars, flagVars, mainVars, workVars, WorkerCount
<1>1. CASE RequestStop
  BY <1>1 DEF RequestStop
<1>2. CASE StopClose
  BY <1>2 DEF StopClose
<1>3. CASE StopSetFlag
  BY <1>3 DEF StopSetFlag
<1>4. CASE StopObserve
  BY <1>4 DEF StopObserve
<1>5. CASE DispatchThrows
  BY <1>5 DEF DispatchThrows, stopVars, MainStates
<1>6. CASE UNCHANGED vars
  BY <1>6 DEF vars, stopVars
<1> QED
  BY <1>1, <1>2, <1>3, <1>4, <1>5, <1>6 DEF StopperStep

\* The types and bounds are an invariant of the batch.
THEOREM TypeInvariant == BatchSpec => []TypeInv
<1>1. TypeInv /\ [BatchNext]_vars => TypeInv'
  BY TypeCaller, TypeWorker, TypeOthers DEF BatchNext, Next
<1> QED
  BY <1>1, TypeInit, PTL DEF BatchSpec

\* Type correctness, in particular that next_index never passes item_count.
THEOREM TypeCorrect == BatchSpec => []TypeOK
  BY TypeInvariant, PTL DEF TypeInv
-----------------------------------------------------------------------------
(* Where the threads can be *)

\* No worker exists before the callback is registered, none above the loop index
\* while threads are being created, and none runs once they have been joined.
PlaceInv ==
    /\ main \in {"entry", "register", "regClose", "regFlag", "regObserve"} =>
          \A t \in Workers : pc[t] = "absent"
    /\ main \in {"spawn", "start"} => \A t \in Workers : t >= spawn => pc[t] = "absent"
    /\ main \in {"spawn", "start", "failClose", "failFlag"} => pc[0] = "absent"
    /\ main = "join" => pc[0] \in {"absent", "exit"}
    /\ main \in {"deregister", "report", "returned"} =>
          \A t \in Workers : pc[t] \in {"absent", "exit"}
    /\ main \notin {"entry", "returned"} => items # 0 /\ limit # 0
    /\ \A t \in Workers : pc[t] # "absent" => t < WorkerCount
    /\ stopper \in {"close", "flag", "observe"} => Registered

\* Before the call nobody is anywhere.
LEMMA PlaceInit == Init => PlaceInv
  BY BoundsAssumption DEF Init, PlaceInv, Workers, Registered

\* The calling thread creates workers in order, and leaves a stage only when the
\* workers it depends on are gone.
LEMMA PlaceCaller == TypeInv /\ PlaceInv /\ CallerStep => PlaceInv'
<1> SUFFICES ASSUME TypeInv, PlaceInv, CallerStep PROVE PlaceInv'
  OBVIOUS
<1> USE BoundsAssumption DEF TypeInv, TypeOK, SpawnBound, PlaceInv, Workers, WorkerCount,
        callVars, flagVars, workVars, stopVars, Registered
<1>1. CASE EarlyReturn
  BY <1>1 DEF EarlyReturn
<1>2. CASE Begin
  BY <1>2 DEF Begin
<1>3. CASE Register
  BY <1>3 DEF Register
<1>4. CASE RegisterClose
  BY <1>4 DEF RegisterClose
<1>5. CASE RegisterFlag
  BY <1>5 DEF RegisterFlag
<1>6. CASE RegisterObserve
  BY <1>6 DEF RegisterObserve
<1>7. CASE SpawnTest
  BY <1>7 DEF SpawnTest, BecomeWorker
<1>8. CASE StartWorker
  BY <1>8 DEF StartWorker
<1>9. CASE StartFails
  BY <1>9 DEF StartFails
<1>10. CASE StartFailClose
  BY <1>10 DEF StartFailClose
<1>11. CASE StartFailFlag
  BY <1>11 DEF StartFailFlag
<1>12. CASE CallerDone
  BY <1>12 DEF CallerDone
<1>13. CASE JoinAll
  BY <1>13 DEF JoinAll, Background
<1>14. CASE Deregister
  BY <1>14 DEF Deregister
<1>15. CASE Report
  BY <1>15 DEF Report
<1> QED
  BY <1>1, <1>2, <1>3, <1>4, <1>5, <1>6, <1>7, <1>8, <1>9, <1>10, <1>11, <1>12,
     <1>13, <1>14, <1>15 DEF CallerStep

\* A worker that takes a step is neither absent nor gone, and does not become absent.
LEMMA WorkerMoves ==
    ASSUME TypeInv, NEW t \in Workers, WorkerStep(t)
    PROVE  /\ pc[t] \notin {"absent", "exit"}
           /\ \E s \in WorkerStates \ {"absent"} : pc' = [pc EXCEPT ![t] = s]
           /\ UNCHANGED <<items, limit, main, spawn, result, token, stopper>>
  BY DEF TypeInv, TypeOK, WorkerStep, LoadIndex, ClaimIndex, CountStart, RunCallback,
         RecordThrow, WorkerClose, WorkerFlag, Goto, WorkerStates, callVars, mainVars,
         stopVars

\* A worker that moves stays among the started ones, and exits at most.
LEMMA PlaceWorker ==
    ASSUME TypeInv, PlaceInv, NEW t \in Workers, WorkerStep(t) PROVE PlaceInv'
<1>1. /\ pc[t] \notin {"absent", "exit"}
      /\ UNCHANGED <<items, limit, main, spawn, stopper>>
  BY WorkerMoves
<1>2. PICK s \in WorkerStates \ {"absent"} : pc' = [pc EXCEPT ![t] = s]
  BY WorkerMoves
<1> QED
  BY <1>1, <1>2, BoundsAssumption
     DEF TypeInv, TypeOK, PlaceInv, Workers, WorkerCount, Registered

\* Neither the token, nor its callback, nor a dispatch that throws moves a worker.
LEMMA PlaceOthers ==
    TypeInv /\ PlaceInv /\ (RequestStop \/ StopperStep \/ DispatchThrows \/ UNCHANGED vars)
        => PlaceInv'
<1> SUFFICES ASSUME TypeInv, PlaceInv,
                    RequestStop \/ StopperStep \/ DispatchThrows \/ UNCHANGED vars
             PROVE PlaceInv'
  OBVIOUS
<1> USE DEF PlaceInv, WorkerCount, Registered, callVars, mainVars, workVars
<1>1. CASE RequestStop
  BY <1>1 DEF RequestStop
<1>2. CASE StopperStep
  BY <1>2 DEF StopperStep, StopClose, StopSetFlag, StopObserve
<1>3. CASE DispatchThrows
  BY <1>3 DEF DispatchThrows, stopVars
<1>4. CASE UNCHANGED vars
  BY <1>4 DEF vars, stopVars
<1> QED
  BY <1>1, <1>2, <1>3, <1>4

\* The calling thread and its workers keep to those places.
THEOREM PlaceInvariant == BatchSpec => []PlaceInv
<1>1. TypeInv /\ PlaceInv /\ [BatchNext]_vars => PlaceInv'
  BY PlaceCaller, PlaceWorker, PlaceOthers DEF BatchNext, Next
<1> QED
  BY <1>1, TypeInvariant, PlaceInit, PTL DEF BatchSpec
-----------------------------------------------------------------------------
(* Claims *)

UniqueOwner ==
    \A t, u \in Workers : Owning(t) /\ Owning(u) /\ t # u => idx[t] # idx[u]

FreshOwned == \A t \in Workers : Owning(t) => attempt[idx[t]] = "none"

\* The claimed indices are the first c; until admission closes, c is next_index.
ClaimedFirst(c) == Claimed = 0 .. c - 1 /\ (next # items => c = next)

ClaimInv == UniqueOwner /\ FreshOwned /\ \E c \in 0 .. items : ClaimedFirst(c)

\* At first nothing is claimed.
LEMMA ClaimInit == Init => ClaimInv
<1> SUFFICES ASSUME Init PROVE ClaimInv
  OBVIOUS
<1>1. \A t \in Workers : ~Owning(t)
  BY DEF Init, Owning
<1>2. Claimed = {}
  BY <1>1 DEF Claimed, Owned, Finished, Init
<1>3. ClaimedFirst(0) /\ 0 \in 0 .. items
  BY <1>2, BoundsAssumption DEF ClaimedFirst, Init
<1> QED
  BY <1>1, <1>3 DEF ClaimInv, UniqueOwner, FreshOwned

\* A step that changes neither who owns what nor the slots, and moves next_index to
\* its end if at all, keeps the claims.
LEMMA ClaimSame ==
    ASSUME TypeInv, ClaimInv,
           \A t \in Workers : Owning(t)' <=> Owning(t),
           \A t \in Workers : Owning(t) => idx'[t] = idx[t],
           attempt' = attempt, items' = items, next' \in {next, items}
    PROVE  ClaimInv' /\ Claimed' = Claimed /\ Owned' = Owned
<1>1. Owned' = Owned /\ Finished' = Finished
  BY DEF Owned, Finished
<1>2. Claimed' = Claimed
  BY <1>1 DEF Claimed
<1>3. UniqueOwner' /\ FreshOwned'
  BY DEF ClaimInv, UniqueOwner, FreshOwned
<1>4. PICK c \in 0 .. items : ClaimedFirst(c)
  BY DEF ClaimInv
<1>5. ClaimedFirst(c)'
  BY <1>2, <1>4 DEF ClaimedFirst
<1> QED
  BY <1>1, <1>2, <1>3, <1>4, <1>5 DEF ClaimInv

\* The calling thread claims nothing: it creates workers that own nothing.
LEMMA ClaimCaller ==
    ASSUME TypeInv, PlaceInv, ClaimInv, CallerStep
    PROVE  ClaimInv' /\ Claimed' = Claimed /\ Owned' = Owned
<1>1. attempt' = attempt /\ idx' = idx /\ items' = items
  BY DEF CallerStep, EarlyReturn, Begin, Register, RegisterClose, RegisterFlag,
         RegisterObserve, SpawnTest, StartWorker, StartFails, StartFailClose,
         StartFailFlag, CallerDone, JoinAll, Deregister, Report, workVars, callVars
<1>2. next' \in {next, items}
  BY DEF CallerStep, EarlyReturn, Begin, Register, RegisterClose, RegisterFlag,
         RegisterObserve, SpawnTest, StartWorker, StartFails, StartFailClose,
         StartFailFlag, CallerDone, JoinAll, Deregister, Report, flagVars
<1>3. \/ pc' = pc
      \/ \E w \in Workers : pc[w] = "absent" /\ pc' = [pc EXCEPT ![w] = "load"]
  <2>1. CASE SpawnTest
    BY <2>1, BoundsAssumption DEF SpawnTest, BecomeWorker, PlaceInv, Workers
  <2>2. CASE StartWorker
    <3>1. spawn \in Workers
      BY <2>2, BoundsAssumption
         DEF StartWorker, Workers, TypeInv, TypeOK, SpawnBound, WorkerCount
    <3>2. pc[spawn] = "absent"
      BY <2>2, <3>1 DEF StartWorker, PlaceInv, Workers, TypeInv, TypeOK
    <3> QED
      BY <2>2, <3>1, <3>2 DEF StartWorker
  <2>3. CASE ~SpawnTest /\ ~StartWorker
    BY <2>3 DEF CallerStep, EarlyReturn, Begin, Register, RegisterClose, RegisterFlag,
         RegisterObserve, StartFails, StartFailClose, StartFailFlag, CallerDone,
         JoinAll, Deregister, Report, workVars
  <2> QED
    BY <2>1, <2>2, <2>3
<1>4. \A t \in Workers : Owning(t)' <=> Owning(t)
  BY <1>3 DEF Owning, TypeInv, TypeOK
<1> QED
  BY <1>1, <1>2, <1>4, ClaimSame

\* A successful compare-exchange claims next_index, which nobody has claimed.
LEMMA ClaimSucceeds ==
    ASSUME TypeInv, ClaimInv, NEW t \in Workers, ClaimIndex(t), next = idx[t]
    PROVE  /\ ClaimInv'
           /\ Claimed = 0 .. next - 1
           /\ Owned' = Owned \cup {next} /\ Claimed' = Claimed \cup {next}
<1> USE DEF TypeInv, TypeOK
<1>1. /\ pc[t] = "cas" /\ pc' = [pc EXCEPT ![t] = "count"]
      /\ idx' = idx /\ attempt' = attempt /\ items' = items
      /\ next' = next + 1 /\ next < items /\ next \in Indices
  BY BoundsAssumption DEF ClaimIndex, Goto, IndexBound, callVars, Indices
<1>2. Claimed = 0 .. next - 1
  <2>1. PICK c \in 0 .. items : ClaimedFirst(c)
    BY DEF ClaimInv
  <2> QED
    BY <1>1, <2>1 DEF ClaimedFirst
<1>3. next \notin Claimed
  BY <1>2
<1>4. \A u \in Workers : Owning(u)' <=> (Owning(u) \/ u = t)
  BY <1>1 DEF Owning
<1>5. Owned' = Owned \cup {next} /\ Finished' = Finished
  BY <1>1, <1>4 DEF Owned, Finished
<1>6. Claimed' = Claimed \cup {next}
  BY <1>5 DEF Claimed
<1>7. \A u \in Workers : Owning(u) => idx[u] # next
  BY <1>3 DEF Claimed, Owned
<1>8. attempt[next] = "none"
  BY <1>1, <1>3 DEF Claimed, Finished
<1>9. UniqueOwner' /\ FreshOwned'
  BY <1>1, <1>4, <1>7, <1>8 DEF ClaimInv, UniqueOwner, FreshOwned
<1>10. Claimed' = 0 .. next' - 1 /\ next' \in 0 .. items'
  BY <1>1, <1>2, <1>6
<1>11. \E c \in 0 .. items' : ClaimedFirst(c)'
  BY <1>10 DEF ClaimedFirst
<1> QED
  BY <1>1, <1>2, <1>5, <1>6, <1>9, <1>11 DEF ClaimInv

\* A finished callback hands its index over from its owner to its slot.
LEMMA ClaimFinishes ==
    ASSUME TypeInv, ClaimInv, NEW t \in Workers, RunCallback(t)
    PROVE  /\ ClaimInv'
           /\ idx[t] \in Owned
           /\ Owned' = Owned \ {idx[t]} /\ Claimed' = Claimed
           /\ Finished' = Finished \cup {idx[t]}
<1> USE DEF TypeInv, TypeOK
<1>1. /\ pc[t] = "work" /\ idx' = idx /\ items' = items /\ next' = next
      /\ \E s \in {"load", "close", "threw"} : pc' = [pc EXCEPT ![t] = s]
  BY DEF RunCallback, Goto, callVars, flagVars
<1>2. \E a \in {"ok", "error", "threw"} : attempt' = [attempt EXCEPT ![idx[t]] = a]
  BY DEF RunCallback
<1>3. idx[t] \in Indices
  BY <1>1, BoundsAssumption DEF IndexBound, Indices
<1>4. \A u \in Workers : Owning(u)' <=> (Owning(u) /\ u # t)
  BY <1>1 DEF Owning
<1>5. Owning(t)
  BY <1>1 DEF Owning
<1>6. Owned' = Owned \ {idx[t]} /\ idx[t] \in Owned
  BY <1>1, <1>4, <1>5 DEF Owned, ClaimInv, UniqueOwner
<1>7. Finished' = Finished \cup {idx[t]}
  BY <1>2, <1>3 DEF Finished
<1>8. Claimed' = Claimed
  BY <1>6, <1>7 DEF Claimed
<1>9. UniqueOwner'
  BY <1>1, <1>4 DEF ClaimInv, UniqueOwner
<1>10. FreshOwned'
  BY <1>1, <1>2, <1>4, <1>5 DEF ClaimInv, UniqueOwner, FreshOwned
<1>11. PICK c \in 0 .. items : ClaimedFirst(c)
  BY DEF ClaimInv
<1>12. ClaimedFirst(c)'
  BY <1>1, <1>8, <1>11 DEF ClaimedFirst
<1> QED
  BY <1>1, <1>6, <1>7, <1>8, <1>9, <1>10, <1>11, <1>12 DEF ClaimInv

\* Every other step of a worker leaves the claims alone.
LEMMA ClaimWorkerSame ==
    ASSUME TypeInv, ClaimInv, NEW t \in Workers, WorkerStep(t), ~RunCallback(t),
           ~(ClaimIndex(t) /\ next = idx[t])
    PROVE  ClaimInv' /\ Claimed' = Claimed /\ Owned' = Owned
<1> USE DEF TypeInv, TypeOK
<1>1. attempt' = attempt /\ items' = items /\ next' \in {next, items}
  BY DEF WorkerStep, LoadIndex, ClaimIndex, CountStart, RecordThrow, WorkerClose,
         WorkerFlag, callVars, flagVars
<1>2. /\ \A u \in Workers : Owning(u)' <=> Owning(u)
      /\ \A u \in Workers : Owning(u) => idx'[u] = idx[u]
  BY DEF WorkerStep, LoadIndex, ClaimIndex, CountStart, RecordThrow, WorkerClose,
         WorkerFlag, Goto, Owning
<1> QED
  BY <1>1, <1>2, ClaimSame

\* The stop callback closes admission and claims nothing.
LEMMA ClaimOthers ==
    ASSUME TypeInv, ClaimInv,
           RequestStop \/ StopperStep \/ DispatchThrows \/ UNCHANGED vars
    PROVE  ClaimInv' /\ Claimed' = Claimed /\ Owned' = Owned
<1>1. /\ pc' = pc /\ idx' = idx /\ attempt' = attempt /\ items' = items
      /\ next' \in {next, items}
  BY DEF RequestStop, StopperStep, StopClose, StopSetFlag, StopObserve, DispatchThrows,
         vars, callVars, flagVars, workVars
<1>2. \A t \in Workers : Owning(t)' <=> Owning(t)
  BY <1>1 DEF Owning
<1> QED
  BY <1>1, <1>2, ClaimSame

\* The claims keep that shape in every reachable state.
THEOREM ClaimInvariant == BatchSpec => []ClaimInv
<1>1. TypeInv /\ PlaceInv /\ ClaimInv /\ [BatchNext]_vars => ClaimInv'
  BY ClaimCaller, ClaimSucceeds, ClaimFinishes, ClaimWorkerSame, ClaimOthers
     DEF BatchNext, Next
<1> QED
  BY <1>1, TypeInvariant, PlaceInvariant, ClaimInit, PTL DEF BatchSpec

\* No index is dispatched twice, and those dispatched are the first ones.
THEOREM DispatchedOnce == BatchSpec => []ExactlyOnce
<1>1. TypeInv /\ ClaimInv => ExactlyOnce
  <2> SUFFICES ASSUME TypeInv, ClaimInv PROVE ExactlyOnce
    OBVIOUS
  <2>1. PICK c \in 0 .. items : ClaimedFirst(c)
    BY DEF ClaimInv
  <2>2. c \in Nat /\ Cardinality(0 .. c - 1) = c
    BY <2>1, FS_Interval, BoundsAssumption DEF TypeInv, TypeOK
  <2> QED
    BY <2>1, <2>2 DEF ClaimInv, ExactlyOnce, ClaimedFirst, UniqueOwner, FreshOwned
<1> QED
  BY <1>1, TypeInvariant, ClaimInvariant, PTL
-----------------------------------------------------------------------------
(* Counting the callbacks *)

Working == {idx[t] : t \in {u \in Workers : pc[u] = "work"}}
Begun == Finished \cup Working

\* started_count is the number of callbacks begun, and what a summary reports.
CountInv ==
    /\ main = "entry" => started = 0
    /\ started = Cardinality(Begun)
    /\ main = "returned" /\ result.kind = "summary" => result.started = started

\* Only indices below the bound can have been begun.
LEMMA BegunFinite == TypeInv => IsFiniteSet(Begun)
<1> SUFFICES ASSUME TypeInv PROVE IsFiniteSet(Begun)
  OBVIOUS
<1>1. Begun \subseteq Indices
  BY BoundsAssumption
     DEF TypeInv, TypeOK, IndexBound, Begun, Finished, Working, Indices, Workers
<1>2. IsFiniteSet(Indices)
  BY BoundsAssumption, FS_Interval DEF Indices
<1> QED
  BY <1>1, <1>2, FS_Subset

\* At first no callback has begun.
LEMMA CountInit == Init => CountInv
<1> SUFFICES ASSUME Init PROVE CountInv
  OBVIOUS
<1>1. Begun = {}
  BY DEF Init, Begun, Finished, Working
<1> QED
  BY <1>1, FS_EmptySet DEF Init, CountInv

\* Counting a start adds an index no callback has begun.
LEMMA CountStarts ==
    ASSUME TypeInv, PlaceInv, ClaimInv, CountInv, NEW t \in Workers, CountStart(t)
    PROVE  CountInv'
<1> USE DEF TypeInv, TypeOK
<1>1. /\ pc[t] = "count" /\ pc' = [pc EXCEPT ![t] = "work"] /\ started' = started + 1
      /\ idx' = idx /\ attempt' = attempt /\ main' = main /\ result' = result
  BY DEF CountStart, Goto, mainVars
<1>2. main \notin {"entry", "returned"}
  BY <1>1 DEF PlaceInv
<1>3. Working' = Working \cup {idx[t]} /\ Finished' = Finished
  BY <1>1 DEF Working, Finished
<1>4. Begun' = Begun \cup {idx[t]}
  BY <1>3 DEF Begun
<1>5. idx[t] \notin Working
  BY <1>1 DEF Working, ClaimInv, UniqueOwner, Owning
<1>6. idx[t] \notin Finished
  BY <1>1 DEF Finished, ClaimInv, FreshOwned, Owning
<1>7. Cardinality(Begun') = Cardinality(Begun) + 1
  BY <1>4, <1>5, <1>6, BegunFinite, FS_AddElement DEF Begun
<1> QED
  BY <1>1, <1>2, <1>7 DEF CountInv

\* No other step of a worker begins a callback.
LEMMA CountWorkerSame ==
    ASSUME TypeInv, PlaceInv, ClaimInv, CountInv, NEW t \in Workers, WorkerStep(t),
           ~CountStart(t)
    PROVE  CountInv'
<1> USE DEF TypeInv, TypeOK
<1>1. pc[t] \notin {"absent", "exit"} /\ main' = main /\ result' = result
  BY WorkerMoves
<1>2. main \notin {"entry", "returned"}
  BY <1>1 DEF PlaceInv
<1>3. started' = started
  BY DEF WorkerStep, LoadIndex, ClaimIndex, RunCallback, RecordThrow, WorkerClose,
         WorkerFlag, flagVars
<1>4. Begun' = Begun
  <2>1. CASE RunCallback(t)
    <3>1. pc[t] = "work" /\ idx' = idx /\ \E a \in {"load", "close", "threw"} :
                                             pc' = [pc EXCEPT ![t] = a]
      BY <2>1 DEF RunCallback, Goto
    <3>2. Working = Working' \cup {idx[t]}
      BY <3>1 DEF Working
    <3>3. Finished' = Finished \cup {idx[t]}
      BY <2>1, ClaimFinishes
    <3> QED
      BY <3>2, <3>3 DEF Begun
  <2>2. CASE ~RunCallback(t)
    <3>1. attempt' = attempt
      BY <2>2 DEF WorkerStep, LoadIndex, ClaimIndex, RecordThrow, WorkerClose, WorkerFlag
    <3>2. /\ \A u \in Workers : pc'[u] = "work" <=> pc[u] = "work"
          /\ \A u \in Workers : pc[u] = "work" => idx'[u] = idx[u]
      BY <2>2 DEF WorkerStep, LoadIndex, ClaimIndex, RecordThrow, WorkerClose,
                  WorkerFlag, Goto
    <3> QED
      BY <3>1, <3>2 DEF Begun, Finished, Working
  <2> QED
    BY <2>1, <2>2
<1> QED
  BY <1>1, <1>2, <1>3, <1>4 DEF CountInv

\* The calling thread and the stopping one leave the count alone; a summary is made
\* from it, or before any callback has begun.
LEMMA CountOthers ==
    ASSUME TypeInv, PlaceInv, CountInv,
           CallerStep \/ RequestStop \/ StopperStep \/ DispatchThrows \/ UNCHANGED vars
    PROVE  CountInv'
<1> USE DEF TypeInv, TypeOK
<1>1. started' = started /\ attempt' = attempt /\ idx' = idx
  BY DEF CallerStep, EarlyReturn, Begin, Register, RegisterClose, RegisterFlag,
         RegisterObserve, SpawnTest, StartWorker, StartFails, StartFailClose,
         StartFailFlag, CallerDone, JoinAll, Deregister, Report, RequestStop,
         StopperStep, StopClose, StopSetFlag, StopObserve, DispatchThrows,
         vars, flagVars, workVars
<1>2. \A u \in Workers : pc'[u] = "work" <=> pc[u] = "work"
  <2>1. CASE SpawnTest
    BY <2>1, BoundsAssumption DEF SpawnTest, BecomeWorker, PlaceInv, Workers
  <2>2. CASE StartWorker
    BY <2>2, BoundsAssumption DEF StartWorker, PlaceInv, Workers
  <2>3. CASE ~SpawnTest /\ ~StartWorker
    BY <2>3 DEF CallerStep, EarlyReturn, Begin, Register, RegisterClose, RegisterFlag,
         RegisterObserve, StartFails, StartFailClose, StartFailFlag, CallerDone,
         JoinAll, Deregister, Report, RequestStop, StopperStep, StopClose, StopSetFlag,
         StopObserve, DispatchThrows, vars, workVars
  <2> QED
    BY <2>1, <2>2, <2>3
<1>3. Begun' = Begun
  BY <1>1, <1>2 DEF Begun, Finished, Working
<1>4. /\ main' = "entry" => main = "entry"
      /\ main' = "returned" /\ result'.kind = "summary" => result'.started = started
  <2> USE DEF CountInv
  <2>1. CASE EarlyReturn
    BY <2>1 DEF EarlyReturn, Summary, Failure
  <2>2. CASE Report
    BY <2>2 DEF Report, Summary, Failure
  <2>3. CASE DispatchThrows
    BY <2>3 DEF DispatchThrows, Dispatch
  <2>4. CASE ~EarlyReturn /\ ~Report /\ ~DispatchThrows
    BY <2>4 DEF CallerStep, Begin, Register, RegisterClose, RegisterFlag,
         RegisterObserve, SpawnTest, BecomeWorker, StartWorker, StartFails,
         StartFailClose, StartFailFlag, CallerDone, JoinAll, Deregister, RequestStop,
         StopperStep, StopClose, StopSetFlag, StopObserve, vars, mainVars
  <2> QED
    BY <2>1, <2>2, <2>3, <2>4
<1> QED
  BY <1>1, <1>3, <1>4 DEF CountInv

\* started_count (cpp:227) is the number of callbacks begun, in every reachable state.
THEOREM CountInvariant == BatchSpec => []CountInv
<1>1. TypeInv /\ PlaceInv /\ ClaimInv /\ CountInv /\ [BatchNext]_vars => CountInv'
  BY CountStarts, CountWorkerSame, CountOthers DEF BatchNext, Next
<1> QED
  BY <1>1, TypeInvariant, PlaceInvariant, ClaimInvariant, CountInit, PTL DEF BatchSpec

\* A call that returned left nobody behind, and reports what it ran.
THEOREM ReturnsDrained == BatchSpec => []DrainedAtReturn
<1>1. TypeInv /\ PlaceInv /\ CountInv => DrainedAtReturn
  <2> SUFFICES ASSUME TypeInv, PlaceInv, CountInv, main = "returned"
               PROVE  /\ \A t \in Workers : pc[t] \in {"absent", "exit"}
                      /\ stopper \in {"idle", "done"}
                      /\ result.kind = "summary" => result.started = Cardinality(Finished)
    BY DEF DrainedAtReturn
  <2>1. \A t \in Workers : pc[t] \in {"absent", "exit"}
    BY DEF PlaceInv
  <2>2. stopper \in {"idle", "done"}
    BY DEF PlaceInv, Registered, TypeInv, TypeOK
  <2>3. Begun = Finished
    BY <2>1 DEF Begun, Working
  <2> QED
    BY <2>1, <2>2, <2>3 DEF CountInv
<1> QED
  BY <1>1, TypeInvariant, PlaceInvariant, CountInvariant, PTL
-----------------------------------------------------------------------------
(* The implementation of BoundedWork *)

\* A worker leaves only when admission is closed, so a join begins after it closed.
CloseInv ==
    /\ \A t \in Workers : pc[t] = "exit" => next = items
    /\ main \in {"failFlag", "join", "deregister", "report"} => next = items
    /\ main = "entry" => Finished = {}

\* No worker has left before the call.
LEMMA CloseInit == Init => CloseInv
  BY DEF Init, CloseInv, Finished

\* The caller joins, and gives up starting workers, only after closing admission.
LEMMA CloseCaller == TypeInv /\ PlaceInv /\ CloseInv /\ CallerStep => CloseInv'
<1> SUFFICES ASSUME TypeInv, PlaceInv, CloseInv, CallerStep PROVE CloseInv'
  OBVIOUS
<1> USE BoundsAssumption DEF TypeInv, TypeOK, CloseInv, Workers, Finished, callVars,
        flagVars, workVars
<1>1. CASE EarlyReturn \/ Begin \/ Register
  BY <1>1 DEF EarlyReturn, Begin, Register
<1>2. CASE RegisterClose \/ RegisterFlag \/ RegisterObserve
  BY <1>2 DEF RegisterClose, RegisterFlag, RegisterObserve
<1>3. CASE SpawnTest
  BY <1>3 DEF SpawnTest, BecomeWorker
<1>4. CASE StartWorker
  BY <1>4 DEF StartWorker
<1>5. CASE StartFails \/ StartFailClose \/ StartFailFlag
  BY <1>5 DEF StartFails, StartFailClose, StartFailFlag
<1>6. CASE CallerDone
  BY <1>6 DEF CallerDone
<1>7. CASE JoinAll \/ Deregister \/ Report
  BY <1>7 DEF JoinAll, Deregister, Report
<1> QED
  BY <1>1, <1>2, <1>3, <1>4, <1>5, <1>6, <1>7 DEF CallerStep

\* A worker leaves only past the end of next_index, which nothing moves back.
LEMMA CloseWorker ==
    ASSUME TypeInv, PlaceInv, CloseInv, NEW t \in Workers, WorkerStep(t) PROVE CloseInv'
<1>1. main' = main /\ items' = items /\ main # "entry"
  BY WorkerMoves DEF PlaceInv
<1>2. next = items => next' = items
  BY DEF WorkerStep, LoadIndex, ClaimIndex, CountStart, RunCallback, RecordThrow,
         WorkerClose, WorkerFlag, flagVars, TypeInv, TypeOK, IndexBound
<1>3. \A u \in Workers : pc'[u] = "exit" => pc[u] = "exit" \/ next' = items
  BY DEF WorkerStep, LoadIndex, ClaimIndex, CountStart, RunCallback, RecordThrow,
         WorkerClose, WorkerFlag, Goto, flagVars, TypeInv, TypeOK
<1> QED
  BY <1>1, <1>2, <1>3 DEF CloseInv

\* The token and its callback only close admission.
LEMMA CloseOthers ==
    CloseInv /\ (RequestStop \/ StopperStep \/ DispatchThrows \/ UNCHANGED vars)
        => CloseInv'
  BY DEF CloseInv, Finished, RequestStop, StopperStep, StopClose, StopSetFlag, StopObserve,
         DispatchThrows, vars, callVars, flagVars, mainVars, workVars

\* Admission is closed from the first exit on.
THEOREM CloseInvariant == BatchSpec => []CloseInv
<1>1. TypeInv /\ PlaceInv /\ CloseInv /\ [BatchNext]_vars => CloseInv'
  BY CloseCaller, CloseWorker, CloseOthers DEF BatchNext, Next
<1> QED
  BY <1>1, TypeInvariant, PlaceInvariant, CloseInit, PTL DEF BatchSpec
-----------------------------------------------------------------------------
(* The ceiling *)

\* A worker about to claim is one of at most `limit`, and owns nothing yet.
LEMMA BelowCeiling ==
    ASSUME TypeInv, PlaceInv, NEW t \in Workers, pc[t] = "cas"
    PROVE  IsFiniteSet(Owned) /\ Cardinality(Owned) < limit
<1> DEFINE Owners == {u \in Workers : Owning(u)}
           Others == (0 .. limit - 1) \ {t}
<1>1. limit \in Nat /\ t \in 0 .. limit - 1
  BY BoundsAssumption DEF TypeInv, TypeOK, PlaceInv, WorkerCount, Workers
<1>2. IsFiniteSet(0 .. limit - 1) /\ Cardinality(0 .. limit - 1) = limit
  BY <1>1, FS_Interval
<1>3. IsFiniteSet(Others) /\ Cardinality(Others) = limit - 1
  BY <1>1, <1>2, FS_RemoveElement
<1>4. Owners \subseteq Others
  BY BoundsAssumption DEF TypeInv, TypeOK, PlaceInv, WorkerCount, Workers, Owning
<1>5. IsFiniteSet(Owners) /\ Cardinality(Owners) <= limit - 1
  BY <1>3, <1>4, FS_Subset
<1>6. [u \in Owners |-> idx[u]] \in Surjection(Owners, Owned)
  BY DEF Owned, Surjection
<1>7. IsFiniteSet(Owned) /\ Cardinality(Owned) <= Cardinality(Owners)
  BY <1>5, <1>6, FS_Surjection
<1> QED
  BY <1>1, <1>5, <1>7, FS_CardinalityType
-----------------------------------------------------------------------------
(* The refinement *)

\* The initial states map to initial states.
LEMMA RefinementInit == Init => Abstract!AInit
<1> SUFFICES ASSUME Init PROVE Abstract!AInit
  OBVIOUS
<1>1. Owned = {} /\ Finished = {}
  BY DEF Init, Owned, Owning, Finished
<1> QED
  BY <1>1, BoundsAssumption DEF Init, Abstract!AInit, Claimed

\* A step that leaves the claims alone and at most closes admission, during the call.
LEMMA ClosesOrStutters ==
    ASSUME TypeInv, items' = items, limit' = limit, Claimed' = Claimed, Owned' = Owned,
           next' \in {next, items}, main # "returned", main' # "returned",
           next' # next => items # 0
    PROVE  [Abstract!ANext]_(Abstract!avars)
<1>1. CASE next' = next
  BY <1>1 DEF Abstract!avars
<1>2. CASE next' # next
  <2>1. Abstract!Close
    BY <1>2 DEF Abstract!Close
  <2> QED
    BY <2>1 DEF Abstract!ANext
<1> QED
  BY <1>1, <1>2

\* The only steps of the calling thread that are seen are closing admission and
\* returning; it returns drained and closed, or before it admitted anything.
LEMMA RefinementCaller ==
    ASSUME TypeInv, PlaceInv, ClaimInv, CloseInv, CallerStep
    PROVE  [Abstract!ANext]_(Abstract!avars)
<1> USE DEF TypeInv, TypeOK
<1>1. Claimed' = Claimed /\ Owned' = Owned
  BY ClaimCaller
<1>2. items' = items /\ limit' = limit
  BY DEF CallerStep, EarlyReturn, Begin, Register, RegisterClose, RegisterFlag,
         RegisterObserve, SpawnTest, StartWorker, StartFails, StartFailClose,
         StartFailFlag, CallerDone, JoinAll, Deregister, Report, callVars
<1>3. CASE EarlyReturn
  <2>1. main = "entry" /\ main' = "returned" /\ next' = next
    BY <1>3 DEF EarlyReturn, flagVars
  <2>2. Owned = {}
    BY <2>1 DEF PlaceInv, Owned, Owning
  <2>3. Claimed = {}
    BY <2>1, <2>2 DEF CloseInv, Claimed
  <2> QED
    BY <1>1, <1>2, <2>1, <2>2, <2>3 DEF Abstract!Return, Abstract!ANext
<1>4. CASE Report
  <2>1. main = "report" /\ main' = "returned" /\ next' = next /\ next = items /\ items # 0
    BY <1>4 DEF Report, flagVars, CloseInv, PlaceInv
  <2>2. Owned = {}
    BY <2>1 DEF PlaceInv, Owned, Owning
  <2> QED
    BY <1>1, <1>2, <2>1, <2>2 DEF Abstract!Return, Abstract!ANext
<1>5. CASE ~EarlyReturn /\ ~Report
  <2>1. /\ main # "returned" /\ main' # "returned"
        /\ next' \in {next, items} /\ (next' # next => main # "entry")
    BY <1>5 DEF CallerStep, Begin, Register, RegisterClose, RegisterFlag,
         RegisterObserve, SpawnTest, BecomeWorker, StartWorker, StartFails,
         StartFailClose, StartFailFlag, CallerDone, JoinAll, Deregister, flagVars
  <2>2. next' # next => items # 0
    BY <2>1 DEF PlaceInv
  <2> QED
    BY <1>1, <1>2, <2>1, <2>2, ClosesOrStutters
<1> QED
  BY <1>3, <1>4, <1>5

\* A successful compare-exchange admits the next index, under the ceiling.
LEMMA RefinementClaim ==
    ASSUME TypeInv, PlaceInv, ClaimInv, NEW t \in Workers, ClaimIndex(t), next = idx[t]
    PROVE  Abstract!ANext
<1>1. /\ pc[t] = "cas" /\ next < items /\ next' = next + 1
      /\ items' = items /\ limit' = limit /\ main' = main
      /\ next \in Nat /\ items \in Nat
  BY BoundsAssumption
     DEF ClaimIndex, Goto, callVars, mainVars, IndexBound, TypeInv, TypeOK
<1>2. main # "returned"
  BY <1>1 DEF PlaceInv
<1>3. Claimed = 0 .. next - 1 /\ Owned' = Owned \cup {next} /\ Claimed' = Claimed \cup {next}
  BY ClaimSucceeds
<1>4. Abstract!Cardinality(Owned) < limit
  <2>1. Cardinality(Owned) < limit
    BY <1>1, BelowCeiling
  <2>2. Abstract!Cardinality(Owned) = Cardinality(Owned)
    BY Zenon DEF Abstract!Cardinality, Cardinality
  <2> QED
    BY <2>1, <2>2
<1>5. next \in 0 .. items - 1 /\ items # 0 /\ next # items
  BY <1>1
<1>6. (items' # 0 /\ next' = items') = (next + 1 = items)
  BY <1>1
<1>7. Abstract!Admit(next)
  BY <1>1, <1>2, <1>3, <1>4, <1>5, <1>6 DEF Abstract!Admit
<1> QED
  BY <1>5, <1>7 DEF Abstract!ANext

\* A callback that ends completes its index; the rest closes admission or is unseen.
LEMMA RefinementWorker ==
    ASSUME TypeInv, PlaceInv, ClaimInv, NEW t \in Workers, WorkerStep(t)
    PROVE  [Abstract!ANext]_(Abstract!avars)
<1>1. /\ pc[t] \notin {"absent", "exit"}
      /\ items' = items /\ limit' = limit /\ main' = main
  BY WorkerMoves
<1>2. main \notin {"entry", "returned"} /\ items # 0
  BY <1>1 DEF PlaceInv
<1>3. CASE ClaimIndex(t) /\ next = idx[t]
  BY <1>3, RefinementClaim
<1>4. CASE RunCallback(t)
  <2>1. idx[t] \in Owned /\ Owned' = Owned \ {idx[t]} /\ Claimed' = Claimed
    BY <1>4, ClaimFinishes
  <2>2. next' = next
    BY <1>4 DEF RunCallback, flagVars
  <2>3. Abstract!Complete(idx[t])
    BY <1>1, <2>1, <2>2 DEF Abstract!Complete
  <2> QED
    BY <2>1, <2>3 DEF Abstract!ANext
<1>5. CASE ~RunCallback(t) /\ ~(ClaimIndex(t) /\ next = idx[t])
  <2>1. Claimed' = Claimed /\ Owned' = Owned
    BY <1>5, ClaimWorkerSame
  <2>2. next' \in {next, items}
    BY <1>5 DEF WorkerStep, LoadIndex, ClaimIndex, CountStart, RecordThrow, WorkerClose,
         WorkerFlag, callVars, flagVars
  <2> QED
    BY <1>1, <1>2, <2>1, <2>2, ClosesOrStutters
<1> QED
  BY <1>3, <1>4, <1>5

\* The token stutters; its callback closes admission or stutters.
LEMMA RefinementOthers ==
    ASSUME TypeInv, PlaceInv, ClaimInv, CloseInv,
           RequestStop \/ StopperStep \/ DispatchThrows \/ UNCHANGED vars
    PROVE  [Abstract!ANext]_(Abstract!avars)
<1>1. Claimed' = Claimed /\ Owned' = Owned
  BY ClaimOthers
<1>2. items' = items /\ limit' = limit
  BY DEF RequestStop, StopperStep, StopClose, StopSetFlag, StopObserve, DispatchThrows,
         vars, callVars
<1>3. CASE DispatchThrows
  <2>1. main = "entry" /\ main' = "returned" /\ next' = next
    BY <1>3 DEF DispatchThrows, flagVars
  <2>2. Owned = {} /\ Claimed = {}
    BY <2>1 DEF PlaceInv, CloseInv, Owned, Owning, Claimed
  <2> QED
    BY <1>1, <1>2, <2>1, <2>2 DEF Abstract!Return, Abstract!ANext
<1>4. CASE StopClose
  <2>1. stopper = "close" /\ next' = items /\ main' = main
    BY <1>4 DEF StopClose, mainVars
  <2>2. main \notin {"entry", "returned"} /\ items # 0
    BY <2>1 DEF PlaceInv, Registered
  <2> QED
    BY <1>1, <1>2, <2>1, <2>2, ClosesOrStutters
<1>5. CASE ~DispatchThrows /\ ~StopClose
  <2>1. next' = next /\ main' = main
    BY <1>5 DEF RequestStop, StopperStep, StopSetFlag, StopObserve, vars, flagVars, mainVars
  <2> QED
    BY <1>1, <1>2, <2>1 DEF Abstract!avars
<1> QED
  BY <1>3, <1>4, <1>5

\* run_with_admission_stop implements the dispatch its header promises.
THEOREM Refinement == BatchSpec => ImplementsBoundedWork
<1>1. TypeInv /\ PlaceInv /\ ClaimInv /\ CloseInv /\ [BatchNext]_vars
         => [Abstract!ANext]_(Abstract!avars)
  BY RefinementCaller, RefinementWorker, RefinementOthers DEF BatchNext, Next
<1> QED
  BY <1>1, RefinementInit, TypeInvariant, PlaceInvariant, ClaimInvariant, CloseInvariant,
     PTL DEF BatchSpec, ImplementsBoundedWork, Abstract!ASpec

-----------------------------------------------------------------------------
(* The verdict of a batch says what happened: whatever closed admission left a mark *)
(* the verdict is drawn from.                                                       *)

Bad == \E i \in Indices : attempt[i] \in {"error", "threw"}

\* The stop callback has run next_index to its end, or has finished.
StopClosed == observed \/ stopper \in {"flag", "observe"} \/ main \in {"regFlag", "regObserve"}

\* Where a cause is recorded: a stop on the token, an exception in a slot, and for
\* every early end of admission a stop, a failed start or a failed slot.
BlameInv ==
    /\ observed => token
    /\ stopper # "idle" => token
    /\ main \in {"regClose", "regFlag", "regObserve"} => token
    /\ \A t \in Workers : pc[t] = "threw" => \E i \in Indices : attempt[i] = "threw"
    /\ \A t \in Workers : pc[t] \in {"close", "flag"} => Bad
    /\ threw => \E i \in Indices : attempt[i] = "threw"
    /\ next = items /\ Claimed # 0 .. items - 1 => StopClosed \/ startFailed \/ Bad
    /\ stopFlag => \/ observed \/ stopper = "observe" \/ main = "regObserve"
                   \/ startFailed \/ Bad
    /\ main \in {"failClose", "failFlag"} => startFailed
    /\ main = "entry" => ~startFailed /\ ~observed /\ ~threw

\* At first nothing is to blame.
LEMMA BlameInit == Init => BlameInv
<1> SUFFICES ASSUME Init PROVE BlameInv
  OBVIOUS
<1>1. Claimed = {}
  BY DEF Init, Claimed, Owned, Owning, Finished
<1>2. /\ ~observed /\ ~threw /\ ~stopFlag /\ main = "entry" /\ ~startFailed
      /\ next = 0 /\ items \in Nat /\ \A t \in Workers : pc[t] = "absent"
  BY BoundsAssumption DEF Init
<1>3. stopper # "idle" => token
  BY DEF Init
<1>4. next = items => Claimed = 0 .. items - 1
  BY <1>1, <1>2
<1> QED
  BY <1>2, <1>3, <1>4 DEF BlameInv

\* The calling thread closes admission only after a stop or a failed start.
LEMMA BlameCaller ==
    ASSUME TypeInv, PlaceInv, ClaimInv, BlameInv, CallerStep PROVE BlameInv'
<1>1. Claimed' = Claimed
  BY ClaimCaller
<1> USE <1>1, BoundsAssumption
    DEF TypeInv, TypeOK, BlameInv, Bad, StopClosed, Workers, callVars, flagVars, workVars, stopVars
<1>2. CASE EarlyReturn \/ Begin
  <2>1. /\ UNCHANGED <<items, next, stopFlag, observed, threw, startFailed>>
        /\ UNCHANGED <<pc, attempt, token, stopper>>
        /\ main = "entry" /\ main' \in {"returned", "register"}
    BY <1>2 DEF EarlyReturn, Begin
  <2> QED
    BY <2>1
<1>3. CASE Register
  BY <1>3 DEF Register
<1>4. CASE RegisterClose
  BY <1>4 DEF RegisterClose
<1>5. CASE RegisterFlag
  BY <1>5 DEF RegisterFlag
<1>6. CASE RegisterObserve
  BY <1>6 DEF RegisterObserve
<1>7. CASE SpawnTest
  BY <1>7 DEF SpawnTest, BecomeWorker
<1>8. CASE StartWorker
  BY <1>8 DEF StartWorker
<1>9. CASE StartFails
  BY <1>9 DEF StartFails
<1>10. CASE StartFailClose
  BY <1>10 DEF StartFailClose
<1>11. CASE StartFailFlag
  BY <1>11 DEF StartFailFlag
<1>12. CASE CallerDone \/ JoinAll \/ Deregister \/ Report
  BY <1>12 DEF CallerDone, JoinAll, Deregister, Report
<1> QED
  BY <1>2, <1>3, <1>4, <1>5, <1>6, <1>7, <1>8, <1>9, <1>10, <1>11, <1>12 DEF CallerStep

\* A worker closes admission only after a callback of its own failed; the last claim
\* that succeeds has claimed everything.
LEMMA BlameWorker ==
    ASSUME TypeInv, PlaceInv, ClaimInv, BlameInv, NEW t \in Workers, WorkerStep(t)
    PROVE  BlameInv'
<1>1. /\ pc[t] \notin {"absent", "exit"}
      /\ UNCHANGED <<items, limit, main, spawn, result, token, stopper>>
  BY WorkerMoves
<1>2. main # "entry"
  BY <1>1 DEF PlaceInv
<1>3. CASE ClaimIndex(t) /\ next = idx[t]
  <2>1. /\ pc[t] = "cas" /\ pc' = [pc EXCEPT ![t] = "count"] /\ next' = next + 1
        /\ attempt' = attempt
        /\ UNCHANGED <<stopFlag, observed, threw, startFailed>>
    BY <1>3 DEF ClaimIndex, Goto
  <2>2. Claimed' = 0 .. next' - 1
    <3>1. Claimed = 0 .. next - 1 /\ Claimed' = Claimed \cup {next}
      BY <1>3, ClaimSucceeds
    <3>2. next \in Nat
      BY BoundsAssumption DEF TypeInv, TypeOK
    <3> QED
      BY <2>1, <3>1, <3>2
  <2>3. /\ Bad' <=> Bad
        /\ (\E i \in Indices : attempt'[i] = "threw") <=> \E i \in Indices : attempt[i] = "threw"
    BY <2>1 DEF Bad
  <2>4. next' = items' => Claimed' = 0 .. items' - 1
    BY <1>1, <2>2
  <2>5. \A u \in Workers : pc'[u] \in {"threw", "close", "flag"} => pc'[u] = pc[u]
    BY <2>1 DEF TypeInv, TypeOK
  <2> QED
    BY <1>1, <1>2, <2>1, <2>3, <2>4, <2>5, Zenon DEF BlameInv, StopClosed
<1>4. CASE RunCallback(t)
  <2>1. Claimed' = Claimed
    BY <1>4, ClaimFinishes
  <2>2. idx[t] \in Indices /\ attempt[idx[t]] = "none"
    BY <1>4, BoundsAssumption DEF RunCallback, Goto, TypeInv, TypeOK, IndexBound,
       Indices, ClaimInv, FreshOwned, Owning
  <2>3. /\ Bad => Bad'
        /\ (\E i \in Indices : attempt[i] = "threw") => \E i \in Indices : attempt'[i] = "threw"
        /\ pc'[t] = "close" => Bad'
        /\ pc'[t] = "threw" => \E i \in Indices : attempt'[i] = "threw"
        /\ pc'[t] # "flag"
    BY <1>4, <2>2 DEF RunCallback, Goto, TypeInv, TypeOK, Bad
  <2>4. /\ UNCHANGED <<next, stopFlag, observed, threw, startFailed>>
        /\ \A u \in Workers : u # t => pc'[u] = pc[u]
    BY <1>4 DEF RunCallback, Goto, flagVars, TypeInv, TypeOK
  <2> QED
    BY <1>1, <1>2, <2>1, <2>3, <2>4 DEF BlameInv, StopClosed
<1>5. CASE ~RunCallback(t) /\ ~(ClaimIndex(t) /\ next = idx[t])
  <2>1. Claimed' = Claimed
    BY <1>5, ClaimWorkerSame
  <2> USE <1>1, <1>2, <2>1 DEF BlameInv, Bad, StopClosed, TypeInv, TypeOK, Goto, flagVars
  <2>2. CASE LoadIndex(t)
    BY <2>2 DEF LoadIndex
  <2>3. CASE ClaimIndex(t)
    BY <1>5, <2>3 DEF ClaimIndex
  <2>4. CASE CountStart(t)
    BY <2>4 DEF CountStart
  <2>5. CASE RecordThrow(t)
    BY <2>5 DEF RecordThrow
  <2>6. CASE WorkerClose(t)
    BY <2>6 DEF WorkerClose
  <2>7. CASE WorkerFlag(t)
    BY <2>7 DEF WorkerFlag
  <2> QED
    BY <1>5, <2>2, <2>3, <2>4, <2>5, <2>6, <2>7 DEF WorkerStep
<1> QED
  BY <1>3, <1>4, <1>5

\* A stop callback that closes admission leaves its own mark.
LEMMA BlameOthers ==
    ASSUME TypeInv, PlaceInv, ClaimInv, BlameInv,
           RequestStop \/ StopperStep \/ DispatchThrows \/ UNCHANGED vars
    PROVE  BlameInv'
<1>1. Claimed' = Claimed
  BY ClaimOthers
<1> USE <1>1 DEF BlameInv, Bad, StopClosed, TypeInv, TypeOK, callVars, flagVars, mainVars, workVars
<1>2. CASE RequestStop
  BY <1>2 DEF RequestStop
<1>3. CASE StopClose
  BY <1>3 DEF StopClose
<1>4. CASE StopSetFlag
  BY <1>4 DEF StopSetFlag
<1>5. CASE StopObserve
  BY <1>5 DEF StopObserve, PlaceInv, Registered
<1>6. CASE DispatchThrows
  BY <1>6 DEF DispatchThrows, stopVars
<1>7. CASE UNCHANGED vars
  BY <1>7 DEF vars, stopVars
<1> QED
  BY <1>2, <1>3, <1>4, <1>5, <1>6, <1>7 DEF StopperStep

\* Every early end of admission has its mark.
THEOREM BlameInvariant == BatchSpec => []BlameInv
<1>1. TypeInv /\ PlaceInv /\ ClaimInv /\ BlameInv /\ [BatchNext]_vars => BlameInv'
  BY BlameCaller, BlameWorker, BlameOthers DEF BatchNext, Next
<1> QED
  BY <1>1, TypeInvariant, PlaceInvariant, ClaimInvariant, BlameInit, PTL DEF BatchSpec
-----------------------------------------------------------------------------
(* What the call returned *)

ErrorResult == result.kind = "error" /\ (limit = 0 \/ startFailed \/ threw)

EmptyResult == result = Summary(0, 0, FALSE, FALSE, FALSE) /\ items = 0

RefusedResult == result = Summary(0, 0, TRUE, TRUE, TRUE) /\ token

FullResult ==
    /\ result = Summary(WorkerCount, started, stopFlag, started < items, observed)
    /\ next = items

\* A call that returned failed for a recorded reason, or reports its counters.
ResultInv ==
    main = "returned" =>
        \/ result = Dispatch
        \/ ErrorResult
        \/ limit # 0 /\ ~startFailed /\ (EmptyResult \/ RefusedResult \/ FullResult)

\* At first the call has not returned.
LEMMA ResultInit == Init => ResultInv
  BY DEF Init, ResultInv

\* After the call has returned only the token can change.
LEMMA ReturnedStable ==
    ASSUME TypeInv, PlaceInv, [BatchNext]_vars, main = "returned"
    PROVE  /\ UNCHANGED <<callVars, flagVars, mainVars, workVars>>
           /\ token => token'
<1>1. /\ \A t \in Workers : pc[t] \in {"absent", "exit"}
      /\ stopper \notin {"close", "flag", "observe"}
  BY DEF PlaceInv, Registered
<1>2. \A t \in Workers : ~WorkerStep(t)
  BY <1>1, WorkerMoves
<1>3. ~CallerStep /\ ~DispatchThrows
  BY DEF CallerStep, EarlyReturn, Begin, Register, RegisterClose, RegisterFlag,
         RegisterObserve, SpawnTest, StartWorker, StartFails, StartFailClose,
         StartFailFlag, CallerDone, JoinAll, Deregister, Report, DispatchThrows
<1>4. ~StopperStep
  BY <1>1 DEF StopperStep, StopClose, StopSetFlag, StopObserve
<1>5. RequestStop \/ UNCHANGED vars
  BY <1>2, <1>3, <1>4 DEF BatchNext, Next
<1>6. CASE RequestStop
  BY <1>6 DEF RequestStop
<1>7. CASE UNCHANGED vars
  BY <1>7 DEF vars, stopVars
<1> QED
  BY <1>5, <1>6, <1>7

\* A step that returns draws the result from the marks; a later one changes nothing.
LEMMA ResultStep ==
    ASSUME TypeInv, PlaceInv, CloseInv, BlameInv, ResultInv, [BatchNext]_vars
    PROVE  ResultInv'
<1>1. CASE main = "returned"
  <2>1. /\ UNCHANGED <<callVars, flagVars, mainVars, workVars>>
        /\ token => token'
    BY <1>1, ReturnedStable
  <2>2. /\ UNCHANGED <<items, limit, next, started, stopFlag, observed, threw, startFailed>>
        /\ UNCHANGED <<main, result, WorkerCount>>
    BY <2>1 DEF callVars, flagVars, mainVars, WorkerCount
  <2>3. ErrorResult' <=> ErrorResult
    BY <2>2 DEF ErrorResult
  <2>4. EmptyResult' <=> EmptyResult
    BY <2>2 DEF EmptyResult
  <2>5. RefusedResult => RefusedResult'
    BY <2>1, <2>2 DEF RefusedResult
  <2>6. FullResult' <=> FullResult
    BY <2>2 DEF FullResult
  <2> QED
    BY <1>1, <2>2, <2>3, <2>4, <2>5, <2>6 DEF ResultInv
<1>2. CASE EarlyReturn
  <2>1. /\ main = "entry" /\ limit' = limit /\ items' = items /\ token' = token
        /\ startFailed' = startFailed
    BY <1>2 DEF EarlyReturn, callVars, flagVars, stopVars
  <2>2. ~startFailed
    BY <2>1 DEF BlameInv
  <2>3. CASE limit = 0 /\ result' = Failure("invalid_worker_count")
    BY <2>1, <2>3 DEF ResultInv, ErrorResult, Failure
  <2>4. CASE limit # 0 /\ items = 0 /\ result' = Summary(0, 0, FALSE, FALSE, FALSE)
    BY <2>1, <2>2, <2>4 DEF ResultInv, EmptyResult
  <2>5. CASE limit # 0 /\ token /\ result' = Summary(0, 0, TRUE, TRUE, TRUE)
    BY <2>1, <2>2, <2>5 DEF ResultInv, RefusedResult
  <2> QED
    BY <1>2, <2>3, <2>4, <2>5 DEF EarlyReturn
<1>3. CASE Report
  <2>1. /\ main = "report"
        /\ result' = IF startFailed THEN Failure("worker_start_failed")
                     ELSE IF threw THEN Failure("callback_threw")
                     ELSE Summary(WorkerCount, started, stopFlag, started < items, observed)
        /\ UNCHANGED <<items, limit, next, started, stopFlag, observed, threw, startFailed>>
    BY <1>3 DEF Report, callVars, flagVars
  <2>2. limit # 0 /\ next = items
    BY <2>1 DEF PlaceInv, CloseInv
  <2>3. CASE startFailed
    BY <2>1, <2>3 DEF ResultInv, ErrorResult, Failure
  <2>4. CASE ~startFailed /\ threw
    BY <2>1, <2>4 DEF ResultInv, ErrorResult, Failure
  <2>5. CASE ~startFailed /\ ~threw
    <3>1. WorkerCount' = WorkerCount
      BY <2>1 DEF WorkerCount
    <3>2. FullResult'
      BY <2>1, <2>2, <2>5, <3>1 DEF FullResult
    <3> QED
      BY <2>1, <2>2, <2>5, <3>2 DEF ResultInv
  <2> QED
    BY <2>3, <2>4, <2>5
<1>4. CASE DispatchThrows
  BY <1>4 DEF DispatchThrows, ResultInv
<1>5. CASE main # "returned" /\ ~EarlyReturn /\ ~Report /\ ~DispatchThrows
  <2>1. main' # "returned"
    <3>1. CASE \E t \in Workers : WorkerStep(t)
      BY <1>5, <3>1, WorkerMoves
    <3>2. CASE ~ \E t \in Workers : WorkerStep(t)
      BY <1>5, <3>2 DEF BatchNext, Next, CallerStep, Begin, Register, RegisterClose,
         RegisterFlag, RegisterObserve, SpawnTest, BecomeWorker, StartWorker, StartFails,
         StartFailClose, StartFailFlag, CallerDone, JoinAll, Deregister, RequestStop,
         StopperStep, StopClose, StopSetFlag, StopObserve, vars, mainVars
    <3> QED
      BY <3>1, <3>2
  <2> QED
    BY <2>1 DEF ResultInv
<1> QED
  BY <1>1, <1>2, <1>3, <1>4, <1>5

\* What the call returned keeps that shape in every reachable state.
THEOREM ResultInvariant == BatchSpec => []ResultInv
<1>1. TypeInv /\ PlaceInv /\ CloseInv /\ BlameInv /\ ResultInv /\ [BatchNext]_vars => ResultInv'
  BY ResultStep
<1> QED
  BY <1>1, ResultInit, TypeInvariant, PlaceInvariant, CloseInvariant, BlameInvariant,
     PTL DEF BatchSpec
-----------------------------------------------------------------------------
(* The verdict *)

\* At the return the finished callbacks are the first `started` ones.
LEMMA ReturnedCounts ==
    ASSUME TypeInv, PlaceInv, ClaimInv, CountInv, main = "returned"
    PROVE  /\ Claimed = Finished
           /\ started \in 0 .. items /\ Finished = 0 .. started - 1
           /\ Cardinality(Finished) = started
           /\ result.kind = "summary" => result.started = started
<1>1. Owned = {} /\ Working = {}
  BY DEF PlaceInv, Owned, Owning, Working
<1>2. Claimed = Finished /\ Begun = Finished
  BY <1>1 DEF Claimed, Begun
<1>3. PICK c \in 0 .. items : Finished = 0 .. c - 1
  BY <1>2 DEF ClaimInv, ClaimedFirst
<1>4. c \in Nat /\ Cardinality(0 .. c - 1) = c
  BY <1>3, FS_Interval, BoundsAssumption DEF TypeInv, TypeOK
<1> QED
  BY <1>2, <1>3, <1>4 DEF CountInv

\* The verdict of a call that failed before or outside its callbacks.
LEMMA FailureVerdict ==
    ASSUME TypeInv, BlameInv, result = Dispatch \/ ErrorResult
    PROVE  /\ Outcome = "failed"
           /\ limit = 0 \/ result = Dispatch \/ startFailed \/ Bad
<1>1. result.kind # "summary"
  BY DEF Dispatch, ErrorResult
<1>2. Outcome = "failed"
  BY <1>1 DEF Outcome
<1>3. threw => Bad
  BY DEF BlameInv, Bad
<1> QED
  BY <1>2, <1>3 DEF ErrorResult

\* The verdict drawn from a summary.
LEMMA SummaryVerdict ==
    ASSUME TypeInv, PlaceInv, ClaimInv, CountInv, BlameInv, main = "returned",
           limit # 0, ~startFailed, EmptyResult \/ RefusedResult \/ FullResult
    PROVE  /\ result # Dispatch
           /\ (Outcome = "failed") <=> Bad
           /\ Outcome = "succeeded" => \A i \in 0 .. items - 1 : attempt[i] = "ok"
           /\ Outcome = "cancelled" => token
<1>1. result.kind = "summary" /\ result # Dispatch
  BY DEF EmptyResult, RefusedResult, FullResult, Summary, Dispatch
<1>2. BatchSize = items /\ items \in Nat /\ 0 .. items - 1 \subseteq Indices
  BY <1>1, BoundsAssumption DEF BatchSize, TypeInv, TypeOK, Indices
<1>3. /\ Claimed = Finished /\ started \in 0 .. items /\ Finished = 0 .. started - 1
      /\ Cardinality(Finished) = started /\ result.started = started
  BY <1>1, ReturnedCounts
<1>4. CASE Bad
  <2>1. \E i \in 0 .. BatchSize - 1 : attempt[i] \in {"error", "threw"}
    BY <1>2, <1>3, <1>4 DEF Bad, Finished
  <2>2. Outcome = "failed"
    BY <2>1 DEF Outcome
  <2> QED
    BY <1>1, <1>4, <2>2
<1>5. CASE ~Bad
  <2>1. \A i \in 0 .. items - 1 : attempt[i] \notin {"error", "threw"}
    BY <1>2, <1>5 DEF Bad
  <2>2. \A i \in 0 .. items - 1 : attempt[i] = "ok" <=> i \in Finished
    BY <1>2, <2>1 DEF Finished, TypeInv, TypeOK
  <2>3. Completed = Finished
    BY <1>2, <1>3, <2>2 DEF Completed
  <2>4. Outcome = IF result.observed THEN "cancelled"
                  ELSE IF started = items /\ ~result.stop /\ ~result.before
                  THEN "succeeded" ELSE "failed"
    BY <1>1, <1>2, <1>3, <2>1, <2>3 DEF Outcome
  <2>5. CASE EmptyResult
    <3>1. ~result.observed /\ ~result.stop /\ ~result.before /\ items = 0 /\ started = items
      BY <1>3, <2>5 DEF EmptyResult, Summary
    <3>2. Outcome = "succeeded"
      BY <2>4, <3>1
    <3> QED
      BY <1>1, <1>5, <3>1, <3>2
  <2>6. CASE RefusedResult
    <3>1. result.observed /\ token
      BY <2>6 DEF RefusedResult, Summary
    <3>2. Outcome = "cancelled"
      BY <2>4, <3>1
    <3> QED
      BY <1>1, <1>5, <3>1, <3>2
  <2>7. CASE FullResult
    <3>1. /\ result.observed = observed /\ result.stop = stopFlag
          /\ result.before = (started < items) /\ next = items
      BY <2>7 DEF FullResult, Summary
    <3>2. CASE observed
      <4>1. Outcome = "cancelled"
        BY <2>4, <3>1, <3>2
      <4>2. token
        BY <3>2 DEF BlameInv
      <4> QED
        BY <1>1, <1>5, <4>1, <4>2
    <3>3. CASE ~observed
      <4>1. ~StopClosed /\ stopper # "observe"
        BY <3>3 DEF StopClosed, PlaceInv, Registered
      <4>2. Finished = 0 .. items - 1
        BY <1>3, <1>5, <3>1, <4>1 DEF BlameInv
      <4>3. started = items
        <5>1. Cardinality(0 .. items - 1) = items
          BY <1>2, FS_Interval
        <5> QED
          BY <1>3, <4>2, <5>1
      <4>4. ~stopFlag
        BY <1>5, <3>3, <4>1 DEF BlameInv
      <4>5. ~result.before
        <5>1. ~(started < items)
          BY <1>2, <4>3
        <5> QED
          BY <3>1, <5>1, Zenon
      <4>6. Outcome = "succeeded"
        BY <2>4, <3>1, <3>3, <4>3, <4>4, <4>5
      <4> QED
        BY <1>1, <1>5, <2>2, <4>2, <4>6
    <3> QED
      BY <3>2, <3>3
  <2> QED
    BY <2>5, <2>6, <2>7
<1> QED
  BY <1>4, <1>5

\* The verdict of a batch is what happened to its callbacks, its workers and its token.
THEOREM VerdictFaithful == BatchSpec => []OutcomeFaithful
<1>1. TypeInv /\ PlaceInv /\ ClaimInv /\ CountInv /\ BlameInv /\ ResultInv
         => OutcomeFaithful
  <2> SUFFICES ASSUME TypeInv, PlaceInv, ClaimInv, CountInv, BlameInv, ResultInv,
                      main = "returned"
               PROVE  /\ (Outcome = "failed") <=>
                             (limit = 0 \/ result = Dispatch \/ startFailed \/ Bad)
                      /\ Outcome = "succeeded" => \A i \in 0 .. items - 1 : attempt[i] = "ok"
                      /\ Outcome = "cancelled" => token
    BY DEF OutcomeFaithful, Bad
  <2>1. CASE result = Dispatch \/ ErrorResult
    BY <2>1, FailureVerdict
  <2>2. CASE limit # 0 /\ ~startFailed /\ (EmptyResult \/ RefusedResult \/ FullResult)
    BY <2>2, SummaryVerdict
  <2> QED
    BY <2>1, <2>2 DEF ResultInv
<1> QED
  BY <1>1, TypeInvariant, PlaceInvariant, ClaimInvariant, CountInvariant, BlameInvariant,
     ResultInvariant, PTL
=============================================================================
