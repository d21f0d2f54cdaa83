------------------------- MODULE FilesystemEvidence -------------------------
(***************************************************************************)
(* FilesystemEvidenceTable                                                 *)
(* (cpp/src/orchestration/incremental/IncrementalFileSnapshot.hpp): the    *)
(* compile inspections of one target observe their dependencies through a  *)
(* table, so that a header is probed once; the inspections are joined, the *)
(* misses compile, and revalidate_shared decides whether what was shared   *)
(* can be trusted. The files may change at any moment.                     *)
(*                                                                         *)
(* An observer is one inspection. TargetBuild uses this protocol with      *)
(* Observe as one step; here each lock region is a step of its own.        *)
(***************************************************************************)
EXTENDS Integers, FiniteSets

CONSTANTS
    Observers,     \* inspections
    Paths,         \* dependencies
    Depends(_),    \* the dependencies in the cache entry an observer inspects
    Stamps         \* what a file may look like: its times, and its absence

ASSUME FiniteAssumption == IsFiniteSet(Observers) /\ IsFiniteSet(Paths)
ASSUME DependsAssumption == \A o \in Observers : Depends(o) \subseteq Paths

Failure == "failure"               \* a probe that returned an error code
Evidence == Stamps \cup {Failure}
ASSUME FailureAssumption == Failure \notin Stamps
NoEvidence == "no evidence"
NoPath == "no path"
EntryStates == {"absent", "probing", "ready", "abandoned"}

VARIABLES
    disk,      \* what each file looks like
    past,      \* what it looked like before: files do not return to an old look
    state,     \* the table's entry of each path: its state, absent before insertion
    result,    \*   what its probe found
    requests,  \*   and how many observations used it
    pc,        \* where each observer is
    path,      \* the path it is observing
    todo,      \* the paths it still has to observe
    got,       \* what observe_dependency returned to it
    own,       \* what it would have been told by a probe of its own just then
    verdict,   \* none, checking, accepted, rejected, or error: no check is made
    unchecked  \* shared paths revalidate_shared still has to re-read

diskVars == <<disk, past>>
entryVars == <<state, result, requests>>
observerVars == <<pc, path, todo, got, own>>
vars == <<diskVars, entryVars, observerVars, verdict, unchecked>>

Init ==
    /\ disk \in [Paths -> Stamps]
    /\ past = [p \in Paths |-> {disk[p]}]
    /\ state = [p \in Paths |-> "absent"]
    /\ result = [p \in Paths |-> NoEvidence]
    /\ requests = [p \in Paths |-> 0]
    /\ pc = [o \in Observers |-> "idle"]
    /\ path = [o \in Observers |-> NoPath]
    /\ todo = [o \in Observers |-> Depends(o)]
    /\ got = [o \in Observers |-> [p \in Paths |-> NoEvidence]]
    /\ own = [o \in Observers |-> [p \in Paths |-> NoEvidence]]
    /\ verdict = "none"
    /\ unchecked = {}

\* What a probe of p may return now.
Probed(p) == {disk[p], Failure}

\* The observer returns from observe_dependency, normally or by an exception.
Leave(o, to) ==
    /\ pc' = [pc EXCEPT ![o] = to]
    /\ path' = [path EXCEPT ![o] = NoPath]

\* Mutant of Receive: a dependency leaves the list when it is met a second time.
ReceiveAgain(o, p, found, direct) ==
    /\ got' = [got EXCEPT ![o][p] = found]
    /\ own' = [own EXCEPT ![o][p] = direct]
    /\ todo' = IF got[o][p] = NoEvidence THEN todo ELSE [todo EXCEPT ![o] = @ \ {p}]

\* The observer has its answer for p.
Receive(o, p, found, direct) ==
    /\ got' = [got EXCEPT ![o][p] = found]
    /\ own' = [own EXCEPT ![o][p] = direct]
    /\ todo' = [todo EXCEPT ![o] = @ \ {p}]
-----------------------------------------------------------------------------
(* The file system *)

\* (once the verdict is in, nobody looks at the table or the files any more)
Mutate(p) ==
    /\ verdict \in {"none", "checking"}
    /\ \E s \in Stamps \ past[p] :
          /\ disk' = [disk EXCEPT ![p] = s]
          /\ past' = [past EXCEPT ![p] = @ \cup {s}]
    /\ UNCHANGED <<entryVars, observerVars, verdict, unchecked>>
-----------------------------------------------------------------------------
(* observe_dependency *)

\* Mutant of Lookup: an entry that is not ready yet is replaced by a new one.
LookupNotReady(o) ==
    \E p \in todo[o] :
        /\ pc[o] = "idle"
        /\ path' = [path EXCEPT ![o] = p]
        /\ requests' = [requests EXCEPT ![p] = @ + 1]
        /\ IF state[p] \in {"absent", "probing"}
           THEN /\ state' = [state EXCEPT ![p] = "probing"]
                /\ pc' = [pc EXCEPT ![o] = "probe"]
           ELSE /\ pc' = [pc EXCEPT ![o] = "wait"]
                /\ UNCHANGED state
        /\ UNCHANGED <<diskVars, result, todo, got, own, verdict, unchecked>>

\* Under the table's lock: own the probe of a new entry, or join an entry.
Lookup(o) ==
    \E p \in todo[o] :
        /\ pc[o] = "idle"
        /\ path' = [path EXCEPT ![o] = p]
        /\ requests' = [requests EXCEPT ![p] = @ + 1]
        /\ IF state[p] = "absent"
           THEN /\ state' = [state EXCEPT ![p] = "probing"]
                /\ pc' = [pc EXCEPT ![o] = "probe"]
           ELSE /\ pc' = [pc EXCEPT ![o] = "wait"]
                /\ UNCHANGED state
        /\ UNCHANGED <<diskVars, result, todo, got, own, verdict, unchecked>>

\* The key, the entry or its insertion cannot be allocated.
LookupThrows(o) ==
    \E p \in todo[o] :
        /\ pc[o] = "idle"
        /\ path' = [path EXCEPT ![o] = p]
        /\ pc' = [pc EXCEPT ![o] = "uncached"]
        /\ UNCHANGED <<diskVars, entryVars, todo, got, own, verdict, unchecked>>

\* snapshot_file_or_directory_uncached, outside every lock, by the entry's owner.
Probe(o) ==
    /\ pc[o] = "probe"
    /\ \E found \in Probed(path[o]) :
          /\ Receive(o, path[o], found, found)
          /\ pc' = [pc EXCEPT ![o] = "publish"]
    /\ UNCHANGED <<diskVars, entryVars, path, verdict, unchecked>>

\* entry->result, entry->state and the notification.
Publish(o) ==
    /\ pc[o] = "publish"
    /\ state' = [state EXCEPT ![path[o]] = "ready"]
    /\ result' = [result EXCEPT ![path[o]] = got[o][path[o]]]
    /\ Leave(o, "idle")
    /\ UNCHANGED <<diskVars, requests, todo, got, own, verdict, unchecked>>

\* The probe throws.
ProbeThrows(o) ==
    /\ pc[o] = "probe"
    /\ pc' = [pc EXCEPT ![o] = "abandon"]
    /\ UNCHANGED <<diskVars, entryVars, path, todo, got, own, verdict, unchecked>>

\* Mutant of Abandon: the exception leaves the entry as it is.
AbandonNothing(o) ==
    /\ pc[o] = "abandon"
    /\ Leave(o, "threw")
    /\ UNCHANGED <<diskVars, entryVars, todo, got, own, verdict, unchecked>>

\* The owner's exception abandons the entry and leaves the inspection.
Abandon(o) ==
    /\ pc[o] = "abandon"
    /\ state' = [state EXCEPT ![path[o]] = "abandoned"]
    /\ Leave(o, "threw")
    /\ UNCHANGED <<diskVars, result, requests, todo, got, own, verdict, unchecked>>

\* state_changed.wait until the owner has published or abandoned.
Wait(o) ==
    /\ pc[o] = "wait"
    /\ \/ /\ state[path[o]] = "ready"
          /\ Receive(o, path[o], result[path[o]], disk[path[o]])
          /\ Leave(o, "idle")
       \/ /\ state[path[o]] = "abandoned"
          /\ pc' = [pc EXCEPT ![o] = "uncached"]
          /\ UNCHANGED <<path, todo, got, own>>
    /\ UNCHANGED <<diskVars, entryVars, verdict, unchecked>>

\* The historical observation, which shares nothing; it may throw as well.
Uncached(o) ==
    /\ pc[o] = "uncached"
    /\ \/ \E found \in Probed(path[o]) :
             /\ Receive(o, path[o], found, found)
             /\ Leave(o, "idle")
       \/ /\ Leave(o, "threw")
          /\ UNCHANGED <<todo, got, own>>
    /\ UNCHANGED <<diskVars, entryVars, verdict, unchecked>>

ObserverStep(o) ==
    \/ Lookup(o) \/ LookupThrows(o) \/ Probe(o) \/ Publish(o) \/ ProbeThrows(o)
    \/ Abandon(o) \/ Wait(o) \/ Uncached(o)
-----------------------------------------------------------------------------
(* The coordinator *)

Joined == \A o \in Observers : pc[o] = "threw" \/ (pc[o] = "idle" /\ todo[o] = {})

\* An inspection that threw ends the build: nothing is executed or revalidated.
InspectionFails ==
    /\ verdict = "none"
    /\ Joined
    /\ \E o \in Observers : pc[o] = "threw"
    /\ verdict' = "error"
    /\ UNCHANGED <<diskVars, entryVars, observerVars, unchecked>>

\* Mutant of BeginRevalidation: tests for more than one reuse, not for one.
BeginRevalidationTwoReuses ==
    /\ verdict = "none"
    /\ Joined
    /\ \A o \in Observers : pc[o] # "threw"
    /\ verdict' = "checking"
    /\ unchecked' = {p \in Paths : requests[p] > 2}
    /\ UNCHANGED <<diskVars, entryVars, observerVars>>

\* The misses have been compiled; take the entries somebody reused.
BeginRevalidation ==
    /\ verdict = "none"
    /\ Joined
    /\ \A o \in Observers : pc[o] # "threw"
    /\ verdict' = "checking"
    /\ unchecked' = {p \in Paths : requests[p] > 1}
    /\ UNCHANGED <<diskVars, entryVars, observerVars>>

\* A failed query is no evidence, even when it fails again.
SameEvidence(left, right) == left # Failure /\ right # Failure /\ left = right

Revalidate ==
    /\ verdict = "checking"
    /\ \E p \in unchecked, current \in Evidence :
          /\ current \in Probed(p)
          /\ IF state[p] = "ready" /\ SameEvidence(result[p], current)
             THEN unchecked' = unchecked \ {p} /\ UNCHANGED verdict
             ELSE verdict' = "rejected" /\ unchecked' = {}
    /\ UNCHANGED <<diskVars, entryVars, observerVars>>

\* Collecting the shared entries or re-reading one throws.
RevalidationThrows ==
    /\ verdict = "checking"
    /\ verdict' = "rejected"
    /\ unchecked' = {}
    /\ UNCHANGED <<diskVars, entryVars, observerVars>>

Accept ==
    /\ verdict = "checking"
    /\ unchecked = {}
    /\ verdict' = "accepted"
    /\ UNCHANGED <<diskVars, entryVars, observerVars, unchecked>>

CoordinatorStep ==
    InspectionFails \/ BeginRevalidation \/ Revalidate \/ RevalidationThrows \/ Accept

Next ==
    \/ \E p \in Paths : Mutate(p)
    \/ \E o \in Observers : ObserverStep(o)
    \/ CoordinatorStep

\* Scheduled threads run and file-system calls return. Nobody has to edit a file.
Fairness == (\A o \in Observers : WF_vars(ObserverStep(o))) /\ WF_vars(CoordinatorStep)

Spec == Init /\ [][Next]_vars /\ Fairness
-----------------------------------------------------------------------------
ObserverStates ==
    {"idle", "probe", "publish", "abandon", "wait", "uncached", "threw"}

\* An observer that is making p's entry.
Making(o, p) == path[o] = p /\ pc[o] \in {"probe", "publish", "abandon"}

\* Ranges, and no more observations counted than there are observers.
TypeOK ==
    /\ disk \in [Paths -> Stamps]
    /\ past \in [Paths -> SUBSET Stamps]
    /\ state \in [Paths -> EntryStates]
    /\ result \in [Paths -> Evidence \cup {NoEvidence}]
    /\ requests \in [Paths -> 0..Cardinality(Observers)]
    /\ pc \in [Observers -> ObserverStates]
    /\ path \in [Observers -> Paths \cup {NoPath}]
    /\ todo \in [Observers -> SUBSET Paths]
    /\ got \in [Observers -> [Paths -> Evidence \cup {NoEvidence}]]
    /\ own \in [Observers -> [Paths -> Evidence \cup {NoEvidence}]]
    /\ verdict \in {"none", "checking", "accepted", "rejected", "error"}
    /\ unchecked \subseteq Paths

\* Single flight: an entry that is being probed has one owner, never none, which
\* would strand its waiters, and never two, whose answers could differ unnoticed.
SingleFlight ==
    \A p \in Paths :
        /\ state[p] = "probing" =>
              \E o \in Observers : Making(o, p) /\ \A u \in Observers : Making(u, p) => u = o
        /\ state[p] # "probing" => ~ \E o \in Observers : Making(o, p)

\* Sharing cannot be told from probing: when the barrier accepts, every inspection
\* was told of every dependency what its own probe would have told it, whatever
\* changed and whichever probe failed between the first observation and the end.
SharingIsTransparent ==
    verdict = "accepted" =>
        \A o \in Observers, p \in Paths : got[o][p] = own[o][p]

\* Every inspection gets its answers or throws, and the coordinator its verdict:
\* no waiter is left on an entry whose owner is gone.
VerdictReached == <>(verdict \in {"accepted", "rejected", "error"})
=============================================================================
