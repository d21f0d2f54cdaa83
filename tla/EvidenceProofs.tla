--------------------------- MODULE EvidenceProofs ---------------------------
(***************************************************************************)
(* What the evidence table guarantees for every number of inspections,     *)
(* dependencies and file states: a probe in flight has exactly one owner,  *)
(* and an accepted window cannot be told from probing without a table.     *)
(***************************************************************************)
EXTENDS FilesystemEvidence, FiniteSetTheorems, TLAPS

Answers == Evidence \cup {NoEvidence}

\* The ranges of the variables.
Types ==
    /\ disk \in [Paths -> Stamps]
    /\ past \in [Paths -> SUBSET Stamps]
    /\ state \in [Paths -> EntryStates]
    /\ result \in [Paths -> Answers]
    /\ requests \in [Paths -> Nat]
    /\ pc \in [Observers -> ObserverStates]
    /\ path \in [Observers -> Paths \cup {NoPath}]
    /\ todo \in [Observers -> SUBSET Paths]
    /\ got \in [Observers -> [Paths -> Answers]]
    /\ own \in [Observers -> [Paths -> Answers]]
    /\ verdict \in {"none", "checking", "accepted", "rejected", "error"}
    /\ unchecked \subseteq Paths

\* An observer inside observe_dependency has a path.
Inside == \A o \in Observers : pc[o] \notin {"idle", "threw"} => path[o] \in Paths

TypeInv == Types /\ Inside

\* The initial state has the types.
LEMMA TypeInit == Init => TypeInv
<1> SUFFICES ASSUME Init PROVE TypeInv
  OBVIOUS
<1>1. disk \in [Paths -> Stamps] /\ past \in [Paths -> SUBSET Stamps]
  BY DEF Init
<1>2. /\ state \in [Paths -> EntryStates]
      /\ result \in [Paths -> Answers]
      /\ requests \in [Paths -> Nat]
  BY DEF Init, EntryStates, Answers
<1>3. /\ pc \in [Observers -> ObserverStates]
      /\ path \in [Observers -> Paths \cup {NoPath}]
  BY DEF Init, ObserverStates
<1>4. todo \in [Observers -> SUBSET Paths]
  BY DependsAssumption DEF Init
<1>5. /\ got \in [Observers -> [Paths -> Answers]]
      /\ own \in [Observers -> [Paths -> Answers]]
  BY DEF Init, Answers
<1>6. verdict = "none" /\ unchecked = {} /\ \A o \in Observers : pc[o] = "idle"
  BY DEF Init
<1> QED
  BY <1>1, <1>2, <1>3, <1>4, <1>5, <1>6 DEF TypeInv, Types, Inside

\* What an answer does to the types.
LEMMA TypeReceive ==
    ASSUME Types, NEW o \in Observers, NEW p \in Paths,
           NEW found \in Answers, NEW direct \in Answers, Receive(o, p, found, direct)
    PROVE  /\ todo' \in [Observers -> SUBSET Paths]
           /\ got' \in [Observers -> [Paths -> Answers]]
           /\ own' \in [Observers -> [Paths -> Answers]]
<1>1. [got[o] EXCEPT ![p] = found] \in [Paths -> Answers]
  BY DEF Types
<1>2. [own[o] EXCEPT ![p] = direct] \in [Paths -> Answers]
  BY DEF Types
<1>3. got' = [got EXCEPT ![o] = [got[o] EXCEPT ![p] = found]]
  BY DEF Receive
<1>4. own' = [own EXCEPT ![o] = [own[o] EXCEPT ![p] = direct]]
  BY DEF Receive
<1>5. todo' \in [Observers -> SUBSET Paths]
  BY DEF Receive, Types
<1> QED
  BY <1>1, <1>2, <1>3, <1>4, <1>5 DEF Types

\* Every step of an inspection keeps the types.
LEMMA TypeObserver == ASSUME TypeInv, NEW o \in Observers, ObserverStep(o) PROVE TypeInv'
<1>1. CASE Lookup(o)
  <2>1. PICK p \in todo[o] : Lookup(o)!(p)
    BY <1>1 DEF Lookup
  <2>2. p \in Paths
    BY DEF TypeInv, Types
  <2>3. state' \in [Paths -> EntryStates] /\ requests' \in [Paths -> Nat]
    BY <2>1, <2>2 DEF TypeInv, Types, EntryStates
  <2>4. /\ pc' \in [Observers -> ObserverStates]
        /\ path' \in [Observers -> Paths \cup {NoPath}]
        /\ Inside'
    BY <2>1, <2>2 DEF TypeInv, Types, ObserverStates, Inside
  <2> QED
    BY <2>1, <2>3, <2>4 DEF TypeInv, Types, diskVars
<1>2. CASE LookupThrows(o)
  BY <1>2 DEF LookupThrows, TypeInv, Types, Inside, ObserverStates, entryVars, diskVars
<1>3. CASE Probe(o)
  <2>1. PICK found \in Probed(path[o]) : Receive(o, path[o], found, found)
    BY <1>3 DEF Probe
  <2>2. path[o] \in Paths
    BY <1>3 DEF Probe, TypeInv, Inside
  <2>3. found \in Answers
    BY <2>2 DEF Probed, TypeInv, Types, Answers, Evidence
  <2>4. /\ todo' \in [Observers -> SUBSET Paths]
        /\ got' \in [Observers -> [Paths -> Answers]]
        /\ own' \in [Observers -> [Paths -> Answers]]
    BY <2>1, <2>2, <2>3, TypeReceive DEF TypeInv
  <2> QED
    BY <1>3, <2>4 DEF Probe, TypeInv, Types, Inside, ObserverStates, entryVars, diskVars
<1>4. CASE Publish(o)
  <2>1. path[o] \in Paths
    BY <1>4 DEF Publish, TypeInv, Inside
  <2>2. got[o][path[o]] \in Answers
    BY <2>1 DEF TypeInv, Types
  <2>3. state' \in [Paths -> EntryStates] /\ result' \in [Paths -> Answers]
    BY <1>4, <2>2 DEF Publish, TypeInv, Types, EntryStates
  <2> QED
    BY <1>4, <2>3
       DEF Publish, Leave, TypeInv, Types, Inside, ObserverStates, diskVars
<1>5. CASE ProbeThrows(o)
  BY <1>5 DEF ProbeThrows, TypeInv, Types, Inside, ObserverStates, entryVars, diskVars
<1>6. CASE Abandon(o)
  BY <1>6 DEF Abandon, Leave, TypeInv, Types, Inside, ObserverStates, EntryStates, diskVars
<1>7. CASE Wait(o)
  <2>1. path[o] \in Paths
    BY <1>7 DEF Wait, TypeInv, Inside
  <2>2. CASE UNCHANGED <<todo, got, own>>
    BY <1>7, <2>2
       DEF Wait, Leave, TypeInv, Types, Inside, ObserverStates, entryVars, diskVars
  <2>3. CASE Receive(o, path[o], result[path[o]], disk[path[o]])
    <3>1. result[path[o]] \in Answers /\ disk[path[o]] \in Answers
      BY <2>1 DEF TypeInv, Types, Answers, Evidence
    <3>2. /\ todo' \in [Observers -> SUBSET Paths]
          /\ got' \in [Observers -> [Paths -> Answers]]
          /\ own' \in [Observers -> [Paths -> Answers]]
      BY <2>1, <2>3, <3>1, TypeReceive DEF TypeInv
    <3> QED
      BY <1>7, <3>2
         DEF Wait, Leave, TypeInv, Types, Inside, ObserverStates, entryVars, diskVars
  <2> QED
    BY <1>7, <2>2, <2>3 DEF Wait
<1>8. CASE Uncached(o)
  <2>1. path[o] \in Paths
    BY <1>8 DEF Uncached, TypeInv, Inside
  <2>2. /\ todo' \in [Observers -> SUBSET Paths]
        /\ got' \in [Observers -> [Paths -> Answers]]
        /\ own' \in [Observers -> [Paths -> Answers]]
    <3>1. CASE UNCHANGED <<todo, got, own>>
      BY <3>1 DEF TypeInv, Types
    <3>2. ASSUME NEW found \in Probed(path[o]), Receive(o, path[o], found, found)
          PROVE  <2>2
      <4>1. found \in Answers
        BY <2>1 DEF Probed, TypeInv, Types, Answers, Evidence
      <4> QED
        BY <2>1, <3>2, <4>1, TypeReceive DEF TypeInv
    <3> QED
      BY <1>8, <3>1, <3>2 DEF Uncached
  <2> QED
    BY <1>8, <2>2
       DEF Uncached, Leave, TypeInv, Types, Inside, ObserverStates, entryVars, diskVars
<1> QED
  BY <1>1, <1>2, <1>3, <1>4, <1>5, <1>6, <1>7, <1>8 DEF ObserverStep

\* The file system changes what the files look like, and nothing else.
LEMMA TypeMutate == ASSUME TypeInv, NEW p \in Paths, Mutate(p) PROVE TypeInv'
  BY DEF Mutate, TypeInv, Types, Inside, entryVars, observerVars

\* The coordinator changes its verdict, and nothing else.
LEMMA TypeCoordinator == TypeInv /\ CoordinatorStep => TypeInv'
  BY DEF CoordinatorStep, InspectionFails, BeginRevalidation, Revalidate,
         RevalidationThrows, Accept, TypeInv, Types, Inside, diskVars, entryVars,
         observerVars

\* The types hold in every reachable state.
THEOREM TypeInvariant == Spec => []TypeInv
<1>1. TypeInv /\ UNCHANGED vars => TypeInv'
  BY DEF TypeInv, Types, Inside, vars, diskVars, entryVars, observerVars
<1>2. TypeInv /\ [Next]_vars => TypeInv'
  BY <1>1, TypeObserver, TypeMutate, TypeCoordinator DEF Next
<1> QED
  BY <1>2, TypeInit, PTL DEF Spec
-----------------------------------------------------------------------------
(* The table counts observers, each at most once *)

\* The observers that asked the table for p, or will not ask any more.
Asked(p) == {o \in Observers : \/ p \notin todo[o]
                               \/ pc[o] = "threw"
                               \/ pc[o] # "idle" /\ path[o] = p}

\* A dependency is asked for once: it leaves the list with its answer, and an
\* observer that publishes has had its own.
CountInv ==
    /\ \A p \in Paths : requests[p] <= Cardinality(Asked(p))
    /\ \A o \in Observers : pc[o] = "publish" => path[o] \notin todo[o]

\* A set of observers can be counted.
LEMMA AskedFinite ==
    /\ \A p : IsFiniteSet(Asked(p)) /\ Cardinality(Asked(p)) \in Nat
              /\ Cardinality(Asked(p)) <= Cardinality(Observers)
    /\ Cardinality(Observers) \in Nat
  BY FiniteAssumption, FS_Subset, FS_CardinalityType DEF Asked

\* Steps that ask for nothing and forget nobody.
LEMMA CountKept ==
    ASSUME TypeInv, CountInv, UNCHANGED requests,
           \A p \in Paths : Asked(p) \subseteq Asked(p)' /\ IsFiniteSet(Asked(p)'),
           \A o \in Observers : pc'[o] = "publish" => path'[o] \notin todo'[o]
    PROVE  CountInv'
<1>1. ASSUME NEW p \in Paths PROVE requests[p] <= Cardinality(Asked(p)')
  <2>1. Cardinality(Asked(p)) <= Cardinality(Asked(p)')
    BY <1>1, FS_Subset
  <2>2. Cardinality(Asked(p)') \in Nat /\ Cardinality(Asked(p)) \in Nat
    BY <1>1, AskedFinite, FS_CardinalityType
  <2> QED
    BY <2>1, <2>2 DEF CountInv, TypeInv, Types
<1>2. \A p \in Paths : Cardinality(Asked(p))' = Cardinality(Asked(p)')
  OBVIOUS
<1> QED
  BY <1>1, <1>2 DEF CountInv

\* Asking adds the observer to those that asked.
LEMMA CountAsk ==
    ASSUME TypeInv, CountInv, NEW o \in Observers, Lookup(o) PROVE CountInv'
<1> USE DEF TypeInv, Types
<1>1. PICK p \in todo[o] : Lookup(o)!(p)
  BY DEF Lookup
<1>2. p \in Paths
  OBVIOUS
<1>3. Asked(p)' = Asked(p) \cup {o} /\ o \notin Asked(p)
  BY <1>1, <1>2 DEF Asked
<1>4. \A q \in Paths \ {p} : Asked(q)' = Asked(q)
  BY <1>1, <1>2 DEF Asked
<1>5. Cardinality(Asked(p)') = Cardinality(Asked(p)) + 1
  BY <1>3, AskedFinite, FS_AddElement
<1>6. requests'[p] = requests[p] + 1 /\ \A q \in Paths \ {p} : requests'[q] = requests[q]
  BY <1>1, <1>2
<1>7. requests'[p] <= Cardinality(Asked(p)')
  BY <1>2, <1>5, <1>6, AskedFinite DEF CountInv
<1>8. \A q \in Paths : requests'[q] <= Cardinality(Asked(q)')
  BY <1>4, <1>6, <1>7 DEF CountInv
<1>9. \A u \in Observers : pc'[u] = "publish" => path'[u] \notin todo'[u]
  <2>1. /\ \A u \in Observers : pc'[u] = "publish" => u # o /\ pc[u] = "publish"
        /\ \A u \in Observers \ {o} : path'[u] = path[u]
        /\ todo' = todo
    BY <1>1
  <2> QED
    BY <2>1 DEF CountInv
<1> QED
  BY <1>8, <1>9 DEF CountInv

\* The other steps of an inspection take nobody out of the count.
LEMMA CountObserver ==
    ASSUME TypeInv, CountInv, NEW o \in Observers, ObserverStep(o) PROVE CountInv'
<1>1. CASE Lookup(o)
  BY <1>1, CountAsk
<1>2. CASE ~ Lookup(o)
  <2>1. UNCHANGED requests
    BY <1>2 DEF ObserverStep, LookupThrows, Probe, Publish, ProbeThrows, Abandon, Wait,
                Uncached, entryVars
  <2>2. \A p : IsFiniteSet(Asked(p)')
    BY FiniteAssumption, FS_Subset DEF Asked
  <2>3. /\ \A p \in Paths : Asked(p) \subseteq Asked(p)'
        /\ \A u \in Observers : pc'[u] = "publish" => path'[u] \notin todo'[u]
    <3> USE DEF TypeInv, Types, Inside, Asked, CountInv
    <3>1. CASE LookupThrows(o)
      BY <3>1 DEF LookupThrows
    <3>2. CASE Probe(o)
      <4>1. /\ UNCHANGED path /\ todo' = [todo EXCEPT ![o] = @ \ {path[o]}]
            /\ pc[o] = "probe" /\ pc' = [pc EXCEPT ![o] = "publish"]
        BY <3>2 DEF Probe, Receive
      <4> QED
        BY <4>1
    <3>3. CASE Publish(o)
      <4>1. /\ UNCHANGED todo /\ path' = [path EXCEPT ![o] = NoPath]
            /\ pc[o] = "publish" /\ pc' = [pc EXCEPT ![o] = "idle"]
        BY <3>3 DEF Publish, Leave
      <4> QED
        BY <4>1
    <3>4. CASE ProbeThrows(o) \/ Abandon(o)
      BY <3>4 DEF ProbeThrows, Abandon, Leave
    <3>5. CASE Wait(o)
      <4>1. /\ pc[o] = "wait"
            /\ \/ /\ todo' = [todo EXCEPT ![o] = @ \ {path[o]}]
                  /\ pc' = [pc EXCEPT ![o] = "idle"] /\ path' = [path EXCEPT ![o] = NoPath]
               \/ UNCHANGED <<path, todo>> /\ pc' = [pc EXCEPT ![o] = "uncached"]
        BY <3>5 DEF Wait, Receive, Leave
      <4> QED
        BY <4>1, SMTT(30)
    <3>6. CASE Uncached(o)
      <4>1. /\ pc[o] = "uncached" /\ path' = [path EXCEPT ![o] = NoPath]
            /\ \/ /\ todo' = [todo EXCEPT ![o] = @ \ {path[o]}]
                  /\ pc' = [pc EXCEPT ![o] = "idle"]
               \/ UNCHANGED todo /\ pc' = [pc EXCEPT ![o] = "threw"]
        BY <3>6 DEF Uncached, Receive, Leave
      <4> QED
        BY <4>1
    <3> QED
      BY <1>2, <3>1, <3>2, <3>3, <3>4, <3>5, <3>6 DEF ObserverStep
  <2> QED
    BY <2>1, <2>2, <2>3, CountKept
<1> QED
  BY <1>1, <1>2

\* Steps that move no observer keep the count.
LEMMA CountOthers == CountInv /\ UNCHANGED <<requests, pc, path, todo>> => CountInv'
  BY DEF CountInv, Asked

\* Every state has its type: above all, no observation is counted twice, so that a
\* count above one is a reuse by another inspection.
THEOREM EvidenceTypes == Spec => []TypeOK
<1>1. Init => CountInv
  BY AskedFinite DEF Init, CountInv
<1>2. ASSUME TypeInv, CountInv, [Next]_vars PROVE CountInv'
  <2>1. CASE \E o \in Observers : ObserverStep(o)
    BY <1>2, <2>1, CountObserver
  <2>2. CASE ~ \E o \in Observers : ObserverStep(o)
    BY <1>2, <2>2, CountOthers
       DEF Next, Mutate, CoordinatorStep, InspectionFails, BeginRevalidation, Revalidate,
           RevalidationThrows, Accept, vars, entryVars, observerVars
  <2> QED
    BY <2>1, <2>2
<1>3. ASSUME TypeInv, CountInv PROVE TypeOK
  <2>1. \A p \in Paths : requests[p] \in 0..Cardinality(Observers)
    BY <1>3, AskedFinite DEF TypeInv, Types, CountInv
  <2> QED
    BY <1>3, <2>1 DEF TypeInv, Types, TypeOK, Answers
<1> QED
  BY <1>1, <1>2, <1>3, TypeInvariant, PTL DEF Spec
-----------------------------------------------------------------------------
(* Single flight *)

\* Steps that make no entry and stop making none.
LEMMA FlightKept ==
    ASSUME SingleFlight, UNCHANGED state,
           \A u \in Observers, p \in Paths : Making(u, p)' <=> Making(u, p)
    PROVE  SingleFlight'
  BY DEF SingleFlight

\* An inspection becomes an owner with the insertion, and stops being one only by
\* publishing or abandoning the entry.
LEMMA FlightObserver ==
    ASSUME TypeInv, SingleFlight, NEW o \in Observers, ObserverStep(o) PROVE SingleFlight'
<1> USE DEF TypeInv, Types, Inside, SingleFlight, Making
<1>1. CASE Lookup(o)
  <2>1. PICK p \in todo[o] : Lookup(o)!(p)
    BY <1>1 DEF Lookup
  <2>2. p \in Paths
    OBVIOUS
  <2>3. CASE state[p] = "absent"
    BY <2>1, <2>2, <2>3
  <2>4. CASE state[p] # "absent"
    <3>1. /\ UNCHANGED state
          /\ \A u \in Observers, q \in Paths : Making(u, q)' <=> Making(u, q)
      BY <2>1, <2>2, <2>4
    <3> QED
      BY <3>1, FlightKept
  <2> QED
    BY <2>3, <2>4
<1>2. CASE LookupThrows(o)
  BY <1>2 DEF LookupThrows, entryVars
<1>3. CASE Probe(o)
  BY <1>3, SMTT(30) DEF Probe, entryVars
<1>4. CASE Publish(o)
  BY <1>4, SMTT(30) DEF Publish, Leave
<1>5. CASE ProbeThrows(o)
  BY <1>5 DEF ProbeThrows, entryVars
<1>6. CASE Abandon(o)
  BY <1>6 DEF Abandon, Leave
<1>7. CASE Wait(o)
  <2>1. /\ UNCHANGED state
        /\ \A u \in Observers, q \in Paths : Making(u, q)' <=> Making(u, q)
    BY <1>7 DEF Wait, Leave, entryVars
  <2> QED
    BY <2>1, FlightKept
<1>8. CASE Uncached(o)
  <2>1. /\ UNCHANGED state
        /\ \A u \in Observers, q \in Paths : Making(u, q)' <=> Making(u, q)
    BY <1>8 DEF Uncached, Leave, entryVars
  <2> QED
    BY <2>1, FlightKept
<1> QED
  BY <1>1, <1>2, <1>3, <1>4, <1>5, <1>6, <1>7, <1>8 DEF ObserverStep

\* Steps of the file system and of the coordinator make no entry.
LEMMA FlightOthers ==
    SingleFlight /\ UNCHANGED <<state, pc, path>> => SingleFlight'
  BY DEF SingleFlight, Making

\* A probe in flight has exactly one owner.
THEOREM OneOwner == Spec => []SingleFlight
<1>1. Init => SingleFlight
  BY DEF Init, SingleFlight, Making
<1>2. ASSUME TypeInv, SingleFlight, [Next]_vars PROVE SingleFlight'
  <2>1. CASE \E o \in Observers : ObserverStep(o)
    BY <1>2, <2>1, FlightObserver
  <2>2. CASE \E p \in Paths : Mutate(p)
    BY <1>2, <2>2, FlightOthers DEF Mutate, entryVars, observerVars
  <2>3. CASE CoordinatorStep
    BY <1>2, <2>3, FlightOthers
       DEF CoordinatorStep, InspectionFails, BeginRevalidation, Revalidate,
           RevalidationThrows, Accept, entryVars, observerVars
  <2>4. CASE UNCHANGED vars
    BY <1>2, <2>4, FlightOthers DEF vars, entryVars, observerVars
  <2> QED
    BY <1>2, <2>1, <2>2, <2>3, <2>4 DEF Next
<1> QED
  BY <1>1, <1>2, TypeInvariant, PTL DEF Spec
-----------------------------------------------------------------------------
(* Sharing is transparent *)

\* What a probe of p can have found up to now.
Seen(p) == past[p] \cup {Failure}

\* An answer from the table differs from the observer's own probe only for a ready,
\* reused entry which the file no longer matches, and the file never will again.
Suspect(p) ==
    /\ state[p] = "ready"
    /\ requests[p] > 1
    /\ result[p] = Failure \/ disk[p] # result[p]

\* What the table holds was seen; its publisher told the table what it told itself;
\* an observer that waits is not alone, nor is one that finds an entry.
TableInv ==
    /\ \A p \in Paths : disk[p] \in past[p]
    /\ \A p \in Paths : state[p] = "ready" => result[p] \in Seen(p)
    /\ \A p \in Paths : state[p] # "absent" => requests[p] > 0
    /\ \A o \in Observers : pc[o] = "publish" => got[o][path[o]] \in Seen(path[o])
    /\ \A o \in Observers : pc[o] = "wait" => requests[path[o]] > 1

DifferInv == \A o \in Observers, p \in Paths : got[o][p] # own[o][p] => Suspect(p)

\* The coordinator starts when nobody observes any more, and drops a path from its
\* list only when no answer about it differs.
BarrierInv ==
    /\ verdict # "none" => Joined
    /\ verdict = "checking" =>
          \A p \in Paths \ unchecked, o \in Observers : got[o][p] = own[o][p]
    /\ SharingIsTransparent

ShareInv == TableInv /\ DifferInv /\ BarrierInv

\* An observer's step happens before the verdict's start.
LEMMA StillObserving ==
    ASSUME TypeInv, BarrierInv, NEW o \in Observers, ObserverStep(o)
    PROVE  verdict = "none" /\ verdict' = "none"
<1>1. pc[o] # "threw" /\ ~ (pc[o] = "idle" /\ todo[o] = {})
  BY DEF ObserverStep, Lookup, LookupThrows, Probe, Publish, ProbeThrows, Abandon, Wait,
         Uncached
<1>2. verdict = "none"
  BY <1>1 DEF BarrierInv, Joined
<1>3. UNCHANGED verdict
  BY DEF ObserverStep, Lookup, LookupThrows, Probe, Publish, ProbeThrows, Abandon, Wait,
         Uncached
<1> QED
  BY <1>2, <1>3

\* What an answer changes: this observer's answer for this path.
LEMMA Answered ==
    ASSUME TypeInv, NEW o \in Observers, NEW p \in Paths, NEW found, NEW direct,
           Receive(o, p, found, direct)
    PROVE  /\ got'[o][p] = found /\ own'[o][p] = direct
           /\ \A u \in Observers, q \in Paths :
                 u # o \/ q # p => got'[u][q] = got[u][q] /\ own'[u][q] = own[u][q]
<1>1. got' = [got EXCEPT ![o] = [got[o] EXCEPT ![p] = found]]
  BY DEF Receive
<1>2. own' = [own EXCEPT ![o] = [own[o] EXCEPT ![p] = direct]]
  BY DEF Receive
<1> QED
  BY <1>1, <1>2 DEF TypeInv, Types

\* An answer seen in the file or in the table keeps the table's part.
LEMMA TableReceive ==
    ASSUME TypeInv, TableInv, NEW o \in Observers, path[o] \in Paths,
           NEW found \in Seen(path[o]), NEW direct, Receive(o, path[o], found, direct),
           UNCHANGED <<disk, past, state, result, requests>>,
           \A u \in Observers \ {o} : pc'[u] = pc[u] /\ path'[u] = path[u],
           pc'[o] \in {"publish", "idle"}, pc'[o] = "publish" => path'[o] = path[o]
    PROVE  TableInv'
<1>1. ASSUME NEW u \in Observers, pc'[u] = "publish"
      PROVE  got'[u][path'[u]] \in Seen(path[u])
  <2>1. CASE u = o
    BY <1>1, <2>1, Answered
  <2>2. CASE u # o
    <3>1. path[u] \in Paths /\ pc[u] = "publish" /\ path'[u] = path[u]
      BY <1>1, <2>2 DEF TypeInv, Inside
    <3>2. got'[u][path[u]] = got[u][path[u]]
      BY <2>2, <3>1, Answered
    <3> QED
      BY <3>1, <3>2 DEF TableInv
  <2> QED
    BY <2>1, <2>2
<1>2. \A u \in Observers : pc'[u] = "publish" => path'[u] = path[u]
  OBVIOUS
<1>3. \A u \in Observers : pc'[u] = "wait" => pc[u] = "wait" /\ path'[u] = path[u]
  OBVIOUS
<1> QED
  BY <1>1, <1>2, <1>3 DEF TableInv, Seen

\* Every step of an inspection keeps the invariant.
LEMMA ShareObserver ==
    ASSUME TypeInv, SingleFlight, ShareInv, NEW o \in Observers, ObserverStep(o)
    PROVE  ShareInv'
<1>0. BarrierInv'
  BY StillObserving DEF ShareInv, BarrierInv, SharingIsTransparent
<1> USE DEF TypeInv, Types, Inside, ShareInv, TableInv, DifferInv, Suspect, Seen
<1>1. CASE Lookup(o)
  <2>1. PICK p \in todo[o] : Lookup(o)!(p)
    BY <1>1 DEF Lookup
  <2>2. p \in Paths
    OBVIOUS
  <2>3. TableInv'
    <3>1. CASE state[p] = "absent"
      BY <2>1, <2>2, <3>1 DEF diskVars
    <3>2. CASE state[p] # "absent"
      BY <2>1, <2>2, <3>2 DEF diskVars
    <3> QED
      BY <3>1, <3>2
  <2>4. DifferInv'
    BY <2>1, <2>2 DEF diskVars
  <2> QED
    BY <1>0, <2>3, <2>4
<1>2. CASE LookupThrows(o)
  BY <1>0, <1>2 DEF LookupThrows, diskVars, entryVars
<1>3. CASE Probe(o)
  <2>1. PICK found \in Probed(path[o]) : Receive(o, path[o], found, found)
    BY <1>3 DEF Probe
  <2>2. path[o] \in Paths
    BY <1>3 DEF Probe
  <2>3. found \in Seen(path[o])
    BY <2>2 DEF Probed
  <2>4. /\ pc' = [pc EXCEPT ![o] = "publish"]
        /\ UNCHANGED <<disk, past, state, result, requests, path>>
    BY <1>3 DEF Probe, diskVars, entryVars
  <2>5. TableInv'
    BY <2>1, <2>2, <2>3, <2>4, TableReceive
  <2>6. DifferInv'
    BY <2>1, <2>2, <2>4, Answered, SMTT(30)
  <2> QED
    BY <1>0, <2>5, <2>6
<1>4. CASE Publish(o)
  <2>1. path[o] \in Paths
    BY <1>4 DEF Publish
  <2>2. state[path[o]] = "probing"
    BY <1>4, <2>1 DEF Publish, SingleFlight, Making
  <2>3. TableInv'
    BY <1>4, <2>1, <2>2 DEF Publish, Leave, diskVars
  <2>4. DifferInv'
    BY <1>4, <2>1, <2>2 DEF Publish, Leave, diskVars
  <2> QED
    BY <1>0, <2>3, <2>4
<1>5. CASE ProbeThrows(o)
  BY <1>0, <1>5 DEF ProbeThrows, diskVars, entryVars
<1>6. CASE Abandon(o)
  <2>1. path[o] \in Paths
    BY <1>6 DEF Abandon
  <2>2. state[path[o]] = "probing"
    BY <1>6, <2>1 DEF Abandon, SingleFlight, Making
  <2>3. TableInv'
    BY <1>6, <2>1, <2>2 DEF Abandon, Leave, diskVars
  <2>4. DifferInv'
    BY <1>6, <2>1, <2>2 DEF Abandon, Leave, diskVars
  <2> QED
    BY <1>0, <2>3, <2>4
<1>7. CASE Wait(o)
  <2>1. path[o] \in Paths
    BY <1>7 DEF Wait
  <2>2. CASE UNCHANGED <<path, todo, got, own>> /\ pc' = [pc EXCEPT ![o] = "uncached"]
    BY <1>0, <1>7, <2>2 DEF Wait, diskVars, entryVars
  <2>3. CASE /\ state[path[o]] = "ready"
             /\ Receive(o, path[o], result[path[o]], disk[path[o]])
             /\ Leave(o, "idle")
    <3>1. UNCHANGED <<disk, past, state, result, requests>>
      BY <1>7 DEF Wait, diskVars, entryVars
    <3>2. pc[o] = "wait"
      BY <1>7 DEF Wait
    <3>3. TableInv'
      <4>1. result[path[o]] \in Seen(path[o])
        BY <2>1, <2>3
      <4>2. /\ \A u \in Observers \ {o} : pc'[u] = pc[u] /\ path'[u] = path[u]
            /\ pc'[o] = "idle"
        BY <2>3 DEF Leave
      <4> QED
        BY <2>1, <2>3, <3>1, <4>1, <4>2, TableReceive
    <3>4. result[path[o]] # disk[path[o]] => Suspect(path[o])
      BY <2>1, <2>3, <3>2
    <3>5. DifferInv'
      BY <2>1, <2>3, <3>1, <3>4, Answered
    <3> QED
      BY <1>0, <3>3, <3>5
  <2> QED
    BY <1>7, <2>2, <2>3 DEF Wait
<1>8. CASE Uncached(o)
  <2>1. path[o] \in Paths
    BY <1>8 DEF Uncached
  <2>2. UNCHANGED <<disk, past, state, result, requests>>
    BY <1>8 DEF Uncached, diskVars, entryVars
  <2>3. CASE UNCHANGED <<todo, got, own>> /\ Leave(o, "threw")
    BY <1>0, <2>2, <2>3 DEF Leave
  <2>4. ASSUME NEW found \in Probed(path[o]), Receive(o, path[o], found, found),
               Leave(o, "idle")
        PROVE  TableInv' /\ DifferInv'
    <3>1. TableInv'
      <4>1. found \in Seen(path[o])
        BY <2>1, <2>4 DEF Probed
      <4>2. /\ \A u \in Observers \ {o} : pc'[u] = pc[u] /\ path'[u] = path[u]
            /\ pc'[o] = "idle"
        BY <2>4 DEF Leave
      <4> QED
        BY <2>1, <2>2, <2>4, <4>1, <4>2, TableReceive
    <3>2. DifferInv'
      <4>1. ASSUME NEW u \in Observers, NEW q \in Paths, got'[u][q] # own'[u][q]
            PROVE  Suspect(q)
        <5>1. u # o \/ q # path[o]
          BY <2>1, <2>4, <4>1, Answered
        <5>2. got'[u][q] = got[u][q] /\ own'[u][q] = own[u][q]
          BY <2>1, <2>4, <5>1, Answered
        <5> QED
          BY <4>1, <5>2
      <4> QED
        BY <2>2, <4>1
    <3> QED
      BY <3>1, <3>2
  <2> QED
    BY <1>0, <1>8, <2>3, <2>4 DEF Uncached
<1> QED
  BY <1>1, <1>2, <1>3, <1>4, <1>5, <1>6, <1>7, <1>8 DEF ObserverStep

\* A file that changes cannot come to match an old answer.
LEMMA ShareMutate ==
    ASSUME TypeInv, ShareInv, NEW p \in Paths, Mutate(p) PROVE ShareInv'
<1>1. PICK s \in Stamps \ past[p] :
         /\ disk' = [disk EXCEPT ![p] = s]
         /\ past' = [past EXCEPT ![p] = @ \cup {s}]
  BY DEF Mutate
<1>2. UNCHANGED <<state, result, requests, pc, path, todo, got, own, verdict, unchecked>>
  BY DEF Mutate, entryVars, observerVars
<1>3. TableInv'
  BY <1>1, <1>2 DEF ShareInv, TableInv, Seen, TypeInv, Types, Inside
<1>4. DifferInv'
  BY <1>1, <1>2 DEF ShareInv, TableInv, DifferInv, Suspect, Seen, TypeInv, Types
<1>5. BarrierInv'
  BY <1>2 DEF ShareInv, BarrierInv, Joined, SharingIsTransparent
<1> QED
  BY <1>3, <1>4, <1>5 DEF ShareInv

\* The coordinator accepts no answer that differs.
LEMMA ShareCoordinator == ASSUME TypeInv, ShareInv, CoordinatorStep PROVE ShareInv'
<1>1. UNCHANGED <<disk, past, state, result, requests, pc, path, todo, got, own>>
  BY DEF CoordinatorStep, InspectionFails, BeginRevalidation, Revalidate,
         RevalidationThrows, Accept, diskVars, entryVars, observerVars
<1>2. TableInv' /\ DifferInv'
  BY <1>1 DEF ShareInv, TableInv, DifferInv, Suspect, Seen
<1>3. BarrierInv'
  <2> USE DEF ShareInv, BarrierInv, SharingIsTransparent, Joined
  <2>1. CASE InspectionFails
    BY <1>1, <2>1 DEF InspectionFails
  <2>2. CASE BeginRevalidation
    BY <1>1, <2>2 DEF BeginRevalidation, DifferInv, Suspect
  <2>3. CASE Revalidate
    <3>1. PICK p \in unchecked, current \in Evidence :
               /\ current \in Probed(p)
               /\ IF state[p] = "ready" /\ SameEvidence(result[p], current)
                  THEN unchecked' = unchecked \ {p} /\ UNCHANGED verdict
                  ELSE verdict' = "rejected" /\ unchecked' = {}
      BY <2>3 DEF Revalidate
    <3>2. verdict = "checking"
      BY <2>3 DEF Revalidate
    <3>3. CASE state[p] = "ready" /\ SameEvidence(result[p], current)
      <4>1. \A o \in Observers : got[o][p] = own[o][p]
        BY <3>1, <3>3 DEF SameEvidence, Probed, DifferInv, Suspect, TypeInv, Types
      <4> QED
        BY <1>1, <3>1, <3>2, <3>3, <4>1
    <3>4. CASE ~ (state[p] = "ready" /\ SameEvidence(result[p], current))
      BY <1>1, <3>1, <3>2, <3>4
    <3> QED
      BY <3>3, <3>4
  <2>4. CASE RevalidationThrows
    BY <1>1, <2>4 DEF RevalidationThrows
  <2>5. CASE Accept
    BY <1>1, <2>5 DEF Accept
  <2> QED
    BY <2>1, <2>2, <2>3, <2>4, <2>5 DEF CoordinatorStep
<1> QED
  BY <1>2, <1>3 DEF ShareInv

\* An accepted window cannot be told from one without a table.
THEOREM Transparent == Spec => []SharingIsTransparent
<1>1. Init => ShareInv
  BY DEF Init, ShareInv, TableInv, DifferInv, BarrierInv, SharingIsTransparent, Seen
<1>2. ASSUME TypeInv, SingleFlight, ShareInv, [Next]_vars PROVE ShareInv'
  <2>1. CASE UNCHANGED vars
    BY <1>2, <2>1
       DEF ShareInv, TableInv, DifferInv, Suspect, Seen, BarrierInv, Joined,
           SharingIsTransparent, vars, diskVars, entryVars, observerVars
  <2> QED
    BY <1>2, <2>1, ShareObserver, ShareMutate, ShareCoordinator DEF Next
<1>3. ShareInv => SharingIsTransparent
  BY DEF ShareInv, BarrierInv
<1> QED
  BY <1>1, <1>2, <1>3, TypeInvariant, OneOwner, PTL DEF Spec
=============================================================================
