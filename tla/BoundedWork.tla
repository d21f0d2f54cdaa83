---------------------------- MODULE BoundedWork ----------------------------
(***************************************************************************)
(* What one dispatch of BoundedWorkScheduler promises its caller, whatever *)
(* path the code takes: indices are admitted in order, at most once, never *)
(* more at a time than the ceiling; an admitted callback always finishes;  *)
(* admission, once closed, stays closed; and the call returns only when    *)
(* nothing is running and nothing more could have been admitted.           *)
(***************************************************************************)
EXTENDS Integers, FiniteSets

VARIABLES
    items,      \* item_count of the call
    ceiling,    \* max_workers of the call
    admitted,   \* the indices handed to a worker so far: an initial run of them
    running,    \* admitted indices whose callback has not finished
    closed,     \* no index may be admitted any more
    returned    \* the call is back in its caller

avars == <<items, ceiling, admitted, running, closed, returned>>

AInit ==
    /\ items \in Nat
    /\ ceiling \in Nat
    /\ admitted = {}
    /\ running = {}
    /\ closed = FALSE
    /\ returned = FALSE

\* The next index in order is handed to a worker. The last one closes admission.
Admit(i) ==
    /\ ~closed
    /\ ~returned
    /\ admitted = 0 .. i - 1
    /\ Cardinality(running) < ceiling
    /\ running' = running \cup {i}
    /\ admitted' = admitted \cup {i}
    /\ closed' = (i + 1 = items)
    /\ UNCHANGED <<items, ceiling, returned>>

\* A callback returned or threw; one that failed may close admission at once.
Complete(i) ==
    /\ i \in running
    /\ running' = running \ {i}
    /\ closed' \in {closed, TRUE}
    /\ UNCHANGED <<items, ceiling, admitted, returned>>

\* A callback failed, a worker could not start or the caller's token stopped.
Close ==
    /\ ~returned
    /\ closed' = TRUE
    /\ UNCHANGED <<items, ceiling, admitted, running, returned>>

\* Back to the caller: drained, and either closed or refused before any work.
Return ==
    /\ ~returned
    /\ running = {}
    /\ closed \/ admitted = {}
    /\ returned' = TRUE
    /\ UNCHANGED <<items, ceiling, admitted, running, closed>>

ANext ==
    \/ \E i \in 0 .. items - 1 : Admit(i)
    \/ \E i \in running : Complete(i)
    \/ Close
    \/ Return

ASpec == AInit /\ [][ANext]_avars
=============================================================================
