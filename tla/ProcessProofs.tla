--------------------------- MODULE ProcessProofs ---------------------------
(***************************************************************************)
(* Theorems about ProcessRunner, for any tree of processes and any set of  *)
(* streams: what is left of the processes, the readers and the callback    *)
(* when a call returns.                                                    *)
(***************************************************************************)
EXTENDS ProcessRunner, FiniteSetTheorems, TLAPS

Launching == {"validate", "own", "event", "arm", "pipes", "check", "create"}
Leaving   == {"dropCallback", "closeEvent", "closeJob", "done"}
Assigned  == {p \in Procs : proc[p] # "absent"}

\* What the proofs use of the types; it leaves out the bounds of the counters.
TypeInv ==
    /\ pc \in Labels /\ managed \in BOOLEAN /\ capture \in SUBSET Streams
    /\ callback \in {"none", "armed", "running", "ran"}
    /\ event \in {"none", "unset", "set"}
    /\ reader \in [Streams -> {"none", "running", "ended", "failed"}]
    /\ proc \in [Procs -> ProcState] /\ holds \in [Procs -> SUBSET Streams]
    /\ written \in [Streams -> Nat] /\ pipe \in [Streams -> Nat]
    /\ captured \in [Streams -> Nat] /\ cut \in [Streams -> Nat]

\* Nothing exists before the launch, nothing is killed before the termination
\* of the job, and nothing of an owned tree is live after it.
TreeInv ==
    /\ pc \in Launching => \A p \in Procs : proc[p] = "absent"
    /\ pc \in {"parents", "readers", "wait", "exitcode", "census", "retain", "terminate"} =>
           \A p \in Procs : proc[p] # "killed"
    /\ managed /\ pc \in {"members", "account", "root", "join", "abortwait", "abortjoin"} \cup Leaving =>
           \A p \in Procs : proc[p] # "live"

\* The census is complete as long as nothing was created since it was taken.
CensusInv ==
    /\ pc \in {"retain", "terminate", "members", "account"} =>
           before \in Nat /\ before <= Total
    /\ pc \in {"terminate", "members", "account"} /\ Total = before =>
           \A p \in Procs : proc[p] \in {"live", "killed"} => p \in retained
    /\ pc = "account" => \A p \in retained : Signalled(p)
    /\ managed /\ pc \in {"root", "join"} => \A p \in Procs : proc[p] # "killed"
    /\ managed /\ pc \in Leaving /\ Completed => \A p \in Procs : proc[p] # "killed"
    /\ pc \notin Leaving \cup {"abort", "abortwait", "abortjoin"} => outcome = "none"
    /\ pc \in {"abort", "abortwait", "abortjoin"} => outcome \in {"error", "threw"}

\* The event outlives the callback.
CallbackInv ==
    /\ pc \notin {"validate", "own", "event", "arm", "closeEvent", "closeJob", "done"}
          \/ callback = "none"
    /\ callback \in {"armed", "running"} => event # "none"
    /\ pc = "arm" => event = "unset"

\* What was written to a captured stream is in the result or still in the pipe,
\* and a reader ends only at an empty write, or when nobody can write any more.
StreamInv ==
    /\ \A s \in Streams : written[s] = captured[s] + pipe[s]
    /\ \A s \in Streams : captured[s] <= cut[s] /\ (cut[s] # Uncut => cut[s] <= written[s])
    /\ \A s \in Streams : reader[s] = "ended" =>
           \/ captured[s] = cut[s] /\ cut[s] # Uncut
           \/ pipe[s] = 0 /\ ~Writable(s)
    /\ pc \in Launching \cup {"parents"} => \A s \in Streams : reader[s] = "none"
    /\ pc \in {"wait", "exitcode", "census", "retain", "terminate", "members", "account",
               "root", "join"} => \A s \in capture : reader[s] # "none"
    /\ pc \in Leaving => \A s \in Streams : reader[s] # "running"
    /\ pc \in Leaving /\ Completed =>
           \/ \A s \in capture : reader[s] = "ended"
           \/ \A p \in Procs : proc[p] = "absent"
    /\ \A p \in Procs : proc[p] = "absent" => holds[p] = {}
    /\ (\A p \in Procs : proc[p] = "absent") => 
           \A s \in Streams : written[s] = 0 /\ cut[s] = Uncut

\* Where a verdict comes from: a stop before the launch, the event, or a root that
\* ended by itself.
VerdictInv ==
    /\ stopped \in BOOLEAN /\ cancelled \in BOOLEAN
    /\ event = "set" \/ callback \in {"running", "ran"} => stopped
    /\ ~managed => event = "none" /\ callback = "none" /\ pc \notin {"own", "event", "arm"}
    /\ pc \in Launching \cup {"parents", "readers", "wait"} => ~cancelled
    /\ cancelled => stopped
    /\ cancelled /\ pc \notin {"closeJob", "done"} => event = "set"
    /\ pc \in {"parents", "readers", "wait", "exitcode", "census", "retain", "terminate"} =>
           \A p \in Procs : proc[p] # "dead"
    /\ pc = "exitcode" => ~cancelled
    /\ pc \in {"exitcode", "census", "retain", "terminate", "members", "account", "root", "join"}
          /\ ~cancelled => proc[Root] = "exited"
    /\ pc = "join" => Signalled(Root)
    /\ OutcomeFaithful

\* The bounds of the counters, and who may hold the end of a pipe.
BoundInv ==
    /\ before \in 0 .. Cardinality(Procs) /\ retained \in SUBSET Procs
    /\ writeEnds \in SUBSET capture /\ holds \in [Procs -> SUBSET capture]
    /\ outcome \in {"none", "error", "threw", "cancelled", "exited"}
    /\ \A s \in Streams : written[s] <= MaxWrites /\ pipe[s] <= Capacity

IInv == TypeInv /\ TreeInv /\ CensusInv /\ CallbackInv /\ StreamInv /\ VerdictInv /\ BoundInv

----------------------------------------------------------------------------
(* Every step keeps the types. *)
LEMMA TypeStep == ASSUME TypeInv, [Next]_vars PROVE TypeInv'
<1> USE ConstantsAssumption DEF TypeInv, Labels, ProcState
<1>1. CASE Validate
  BY <1>1 DEF Validate, Goto, Finish, stopVars, ioVars, kernelVars
<1>2. CASE CreateJob
  BY <1>2 DEF CreateJob, Goto, stopVars, ioVars, kernelVars
<1>3. CASE CreateEvent
  BY <1>3 DEF CreateEvent, Goto, ioVars, kernelVars
<1>4. CASE ArmCallback
  BY <1>4 DEF ArmCallback, Goto, ioVars, kernelVars
<1>5. CASE CreatePipes
  BY <1>5 DEF CreatePipes, Goto, stopVars, kernelVars
<1>6. CASE CheckStop
  BY <1>6 DEF CheckStop, Goto, Finish, stopVars, ioVars, kernelVars
<1>7. CASE Create
  BY <1>7 DEF Create, Goto, stopVars, ioVars
<1>8. CASE CloseParentEnds
  BY <1>8 DEF CloseParentEnds, Goto, stopVars, kernelVars
<1>9. CASE StartReaders
  BY <1>9 DEF StartReaders, Goto, stopVars, kernelVars
<1>10. CASE SetupFails
  BY <1>10 DEF SetupFails, Finish, stopVars, ioVars, kernelVars
<1>11. CASE Wait
  BY <1>11 DEF Wait, stopVars, ioVars, kernelVars, Signalled
<1>12. CASE ExitCode
  BY <1>12 DEF ExitCode, Goto, stopVars, ioVars, kernelVars
<1>13. CASE Census
  BY <1>13 DEF Census, stopVars, ioVars, kernelVars
<1>14. CASE RetainMembers
  BY <1>14 DEF RetainMembers, stopVars, ioVars, kernelVars
<1>15. CASE TerminateJob
  BY <1>15 DEF TerminateJob, Goto, stopVars, ioVars, KillLive
<1>16. CASE WaitMembers
  BY <1>16 DEF WaitMembers, Goto, stopVars, ioVars, kernelVars, Signalled
<1>17. CASE Account
  BY <1>17 DEF Account, Goto, Finish, stopVars, ioVars, kernelVars
<1>18. CASE WaitRoot
  BY <1>18 DEF WaitRoot, Goto, stopVars, ioVars, kernelVars, Signalled
<1>19. CASE JoinReaders
  BY <1>19 DEF JoinReaders, Finish, stopVars, ioVars, kernelVars
<1>20. CASE DrainFails
  BY <1>20 DEF DrainFails, Finish, stopVars, ioVars, kernelVars
<1>21. CASE AbortProcesses
  BY <1>21 DEF AbortProcesses, Goto, stopVars, ioVars, KillLive
<1>22. CASE AbortWait
  BY <1>22 DEF AbortWait, Goto, stopVars, ioVars, kernelVars, Signalled
<1>23. CASE AbortJoin
  BY <1>23 DEF AbortJoin, Goto, stopVars, ioVars, kernelVars
<1>24. CASE DropCallback
  BY <1>24 DEF DropCallback, Goto, kernelVars
<1>25. CASE CloseEvent
  BY <1>25 DEF CloseEvent, Goto, ioVars, kernelVars
<1>26. CASE CloseJob
  BY <1>26 DEF CloseJob, Goto, stopVars, ioVars, KillLive
<1>27. CASE RequestStop
  BY <1>27 DEF RequestStop, callVars, ioVars, kernelVars
<1>28. CASE SignalCancellation
  BY <1>28 DEF SignalCancellation, callVars, ioVars, kernelVars
<1>29. ASSUME NEW s \in Streams, ReadChunk(s)
      PROVE TypeInv'
  BY <1>29 DEF ReadChunk, callVars, stopVars, kernelVars
<1>30. ASSUME NEW s \in Streams, ReadEnd(s)
      PROVE TypeInv'
  BY <1>30 DEF ReadEnd, callVars, stopVars, kernelVars
<1>31. ASSUME NEW s \in Streams, ReadFails(s)
      PROVE TypeInv'
  BY <1>31 DEF ReadFails, callVars, stopVars, kernelVars
<1>32. ASSUME NEW p \in Procs, NEW c \in Procs, Spawn(p, c)
      PROVE TypeInv'
  BY <1>32 DEF Spawn, callVars, stopVars, ioVars
<1>33. ASSUME NEW p \in Procs, NEW s \in Streams, Write(p, s)
      PROVE TypeInv'
  BY <1>33 DEF Write, callVars, stopVars
<1>34. ASSUME NEW p \in Procs, NEW s \in Streams, WriteNothing(p, s)
      PROVE TypeInv'
  BY <1>34 DEF WriteNothing, callVars, stopVars, ioVars
<1>35. ASSUME NEW p \in Procs, Leave(p)
      PROVE TypeInv'
  BY <1>35 DEF Leave, callVars, stopVars, ioVars
<1>36. ASSUME NEW p \in Procs, Signal(p)
      PROVE TypeInv'
  BY <1>36 DEF Signal, callVars, stopVars, ioVars
<1>37. CASE UNCHANGED vars
  BY <1>37 DEF vars, callVars, stopVars, ioVars, kernelVars, TypeInv, Total, Live, Writable,
     Signalled, Completed
<1>38. QED
  BY <1>1, <1>2, <1>3, <1>4, <1>5, <1>6, <1>7, <1>8, <1>9, <1>10, <1>11, <1>12, <1>13, <1>14,
     <1>15, <1>16, <1>17, <1>18,
     <1>19, <1>20, <1>21, <1>22, <1>23, <1>24, <1>25, <1>26, <1>27, <1>28, <1>29, <1>30, <1>31,
     <1>32, <1>33, <1>34, <1>35, <1>36, <1>37
  DEF Next, Run, Setup, Drain, Unwind, Read, Kernel, Returned

(* Every step keeps the tree accounted for: a killed process was in a job  *)
(* that is being ended, and an owned tree that is being ended has nothing  *)
(* alive that could create more.                                           *)
LEMMA TreeStep == ASSUME TypeInv, TreeInv, [Next]_vars PROVE TreeInv'
<1> USE ConstantsAssumption DEF TypeInv, TreeInv, ProcState, Labels, Launching, Leaving
<1>1. CASE Validate
  BY <1>1 DEF Validate, Goto, Finish, stopVars, ioVars, kernelVars
<1>2. CASE CreateJob
  BY <1>2 DEF CreateJob, Goto, stopVars, ioVars, kernelVars
<1>3. CASE CreateEvent
  BY <1>3 DEF CreateEvent, Goto, ioVars, kernelVars
<1>4. CASE ArmCallback
  BY <1>4 DEF ArmCallback, Goto, ioVars, kernelVars
<1>5. CASE CreatePipes
  BY <1>5 DEF CreatePipes, Goto, stopVars, kernelVars
<1>6. CASE CheckStop
  BY <1>6 DEF CheckStop, Goto, Finish, stopVars, ioVars, kernelVars
<1>7. CASE Create
  BY <1>7 DEF Create, Goto, stopVars, ioVars
<1>8. CASE CloseParentEnds
  BY <1>8 DEF CloseParentEnds, Goto, stopVars, kernelVars
<1>9. CASE StartReaders
  BY <1>9 DEF StartReaders, Goto, stopVars, kernelVars
<1>10. CASE SetupFails
  BY <1>10 DEF SetupFails, Finish, stopVars, ioVars, kernelVars
<1>11. CASE Wait
  BY <1>11 DEF Wait, stopVars, ioVars, kernelVars, Signalled
<1>12. CASE ExitCode
  BY <1>12 DEF ExitCode, Goto, stopVars, ioVars, kernelVars
<1>13. CASE Census
  BY <1>13 DEF Census, stopVars, ioVars, kernelVars
<1>14. CASE RetainMembers
  BY <1>14 DEF RetainMembers, stopVars, ioVars, kernelVars
<1>15. CASE TerminateJob
  BY <1>15 DEF TerminateJob, Goto, stopVars, ioVars, KillLive
<1>16. CASE WaitMembers
  BY <1>16 DEF WaitMembers, Goto, stopVars, ioVars, kernelVars, Signalled
<1>17. CASE Account
  BY <1>17 DEF Account, Goto, Finish, stopVars, ioVars, kernelVars
<1>18. CASE WaitRoot
  BY <1>18 DEF WaitRoot, Goto, stopVars, ioVars, kernelVars, Signalled
<1>19. CASE JoinReaders
  BY <1>19 DEF JoinReaders, Finish, stopVars, ioVars, kernelVars
<1>20. CASE DrainFails
  BY <1>20 DEF DrainFails, Finish, stopVars, ioVars, kernelVars
<1>21. CASE AbortProcesses
  BY <1>21 DEF AbortProcesses, Goto, stopVars, ioVars, KillLive
<1>22. CASE AbortWait
  BY <1>22 DEF AbortWait, Goto, stopVars, ioVars, kernelVars, Signalled
<1>23. CASE AbortJoin
  BY <1>23 DEF AbortJoin, Goto, stopVars, ioVars, kernelVars
<1>24. CASE DropCallback
  BY <1>24 DEF DropCallback, Goto, kernelVars
<1>25. CASE CloseEvent
  BY <1>25 DEF CloseEvent, Goto, ioVars, kernelVars
<1>26. CASE CloseJob
  BY <1>26 DEF CloseJob, Goto, stopVars, ioVars, KillLive
<1>27. CASE RequestStop
  BY <1>27 DEF RequestStop, callVars, ioVars, kernelVars
<1>28. CASE SignalCancellation
  BY <1>28 DEF SignalCancellation, callVars, ioVars, kernelVars
<1>29. ASSUME NEW s \in Streams, ReadChunk(s)
      PROVE TreeInv'
  BY <1>29 DEF ReadChunk, callVars, stopVars, kernelVars
<1>30. ASSUME NEW s \in Streams, ReadEnd(s)
      PROVE TreeInv'
  BY <1>30 DEF ReadEnd, callVars, stopVars, kernelVars
<1>31. ASSUME NEW s \in Streams, ReadFails(s)
      PROVE TreeInv'
  BY <1>31 DEF ReadFails, callVars, stopVars, kernelVars
<1>32. ASSUME NEW p \in Procs, NEW c \in Procs, Spawn(p, c)
      PROVE TreeInv'
  BY <1>32 DEF Spawn, callVars, stopVars, ioVars
<1>33. ASSUME NEW p \in Procs, NEW s \in Streams, Write(p, s)
      PROVE TreeInv'
  BY <1>33 DEF Write, callVars, stopVars
<1>34. ASSUME NEW p \in Procs, NEW s \in Streams, WriteNothing(p, s)
      PROVE TreeInv'
  BY <1>34 DEF WriteNothing, callVars, stopVars, ioVars
<1>35. ASSUME NEW p \in Procs, Leave(p)
      PROVE TreeInv'
  BY <1>35 DEF Leave, callVars, stopVars, ioVars
<1>36. ASSUME NEW p \in Procs, Signal(p)
      PROVE TreeInv'
  BY <1>36 DEF Signal, callVars, stopVars, ioVars
<1>37. CASE UNCHANGED vars
  BY <1>37 DEF vars, callVars, stopVars, ioVars, kernelVars, TreeInv, Total, Live, Writable,
     Signalled, Completed
<1>38. QED
  BY <1>1, <1>2, <1>3, <1>4, <1>5, <1>6, <1>7, <1>8, <1>9, <1>10, <1>11, <1>12, <1>13, <1>14,
     <1>15, <1>16, <1>17, <1>18,
     <1>19, <1>20, <1>21, <1>22, <1>23, <1>24, <1>25, <1>26, <1>27, <1>28, <1>29, <1>30, <1>31,
     <1>32, <1>33, <1>34, <1>35, <1>36, <1>37
  DEF Next, Run, Setup, Drain, Unwind, Read, Kernel, Returned

(* Every step keeps the callback inside the life of its event.             *)
LEMMA CallbackStep == ASSUME TypeInv, CallbackInv, [Next]_vars PROVE CallbackInv'
<1> USE DEF TypeInv, CallbackInv, Labels
<1>1. CASE Validate
  BY <1>1 DEF Validate, Goto, Finish, stopVars, ioVars, kernelVars
<1>2. CASE CreateJob
  BY <1>2 DEF CreateJob, Goto, stopVars, ioVars, kernelVars
<1>3. CASE CreateEvent
  BY <1>3 DEF CreateEvent, Goto, ioVars, kernelVars
<1>4. CASE ArmCallback
  BY <1>4 DEF ArmCallback, Goto, ioVars, kernelVars
<1>5. CASE CreatePipes
  BY <1>5 DEF CreatePipes, Goto, stopVars, kernelVars
<1>6. CASE CheckStop
  BY <1>6 DEF CheckStop, Goto, Finish, stopVars, ioVars, kernelVars
<1>7. CASE Create
  BY <1>7 DEF Create, Goto, stopVars, ioVars
<1>8. CASE CloseParentEnds
  BY <1>8 DEF CloseParentEnds, Goto, stopVars, kernelVars
<1>9. CASE StartReaders
  BY <1>9 DEF StartReaders, Goto, stopVars, kernelVars
<1>10. CASE SetupFails
  BY <1>10 DEF SetupFails, Finish, stopVars, ioVars, kernelVars
<1>11. CASE Wait
  BY <1>11 DEF Wait, stopVars, ioVars, kernelVars
<1>12. CASE ExitCode
  BY <1>12 DEF ExitCode, Goto, stopVars, ioVars, kernelVars
<1>13. CASE Census
  BY <1>13 DEF Census, stopVars, ioVars, kernelVars
<1>14. CASE RetainMembers
  BY <1>14 DEF RetainMembers, stopVars, ioVars, kernelVars
<1>15. CASE TerminateJob
  BY <1>15 DEF TerminateJob, Goto, stopVars, ioVars
<1>16. CASE WaitMembers
  BY <1>16 DEF WaitMembers, Goto, stopVars, ioVars, kernelVars
<1>17. CASE Account
  BY <1>17 DEF Account, Goto, Finish, stopVars, ioVars, kernelVars
<1>18. CASE WaitRoot
  BY <1>18 DEF WaitRoot, Goto, stopVars, ioVars, kernelVars
<1>19. CASE JoinReaders
  BY <1>19 DEF JoinReaders, Finish, stopVars, ioVars, kernelVars
<1>20. CASE DrainFails
  BY <1>20 DEF DrainFails, Finish, stopVars, ioVars, kernelVars
<1>21. CASE AbortProcesses
  BY <1>21 DEF AbortProcesses, Goto, stopVars, ioVars
<1>22. CASE AbortWait
  BY <1>22 DEF AbortWait, Goto, stopVars, ioVars, kernelVars
<1>23. CASE AbortJoin
  BY <1>23 DEF AbortJoin, Goto, stopVars, ioVars, kernelVars
<1>24. CASE DropCallback
  BY <1>24 DEF DropCallback, Goto, kernelVars
<1>25. CASE CloseEvent
  BY <1>25 DEF CloseEvent, Goto, ioVars, kernelVars
<1>26. CASE CloseJob
  BY <1>26 DEF CloseJob, Goto, stopVars, ioVars
<1>27. CASE RequestStop
  BY <1>27 DEF RequestStop, callVars, ioVars, kernelVars
<1>28. CASE SignalCancellation
  BY <1>28 DEF SignalCancellation, callVars, ioVars, kernelVars
<1>29. ASSUME NEW s \in Streams, ReadChunk(s)
      PROVE CallbackInv'
  BY <1>29 DEF ReadChunk, callVars, stopVars, kernelVars
<1>30. ASSUME NEW s \in Streams, ReadEnd(s)
      PROVE CallbackInv'
  BY <1>30 DEF ReadEnd, callVars, stopVars, kernelVars
<1>31. ASSUME NEW s \in Streams, ReadFails(s)
      PROVE CallbackInv'
  BY <1>31 DEF ReadFails, callVars, stopVars, kernelVars
<1>32. ASSUME NEW p \in Procs, NEW c \in Procs, Spawn(p, c)
      PROVE CallbackInv'
  BY <1>32 DEF Spawn, callVars, stopVars, ioVars
<1>33. ASSUME NEW p \in Procs, NEW s \in Streams, Write(p, s)
      PROVE CallbackInv'
  BY <1>33 DEF Write, callVars, stopVars
<1>34. ASSUME NEW p \in Procs, NEW s \in Streams, WriteNothing(p, s)
      PROVE CallbackInv'
  BY <1>34 DEF WriteNothing, callVars, stopVars, ioVars
<1>35. ASSUME NEW p \in Procs, Leave(p)
      PROVE CallbackInv'
  BY <1>35 DEF Leave, callVars, stopVars, ioVars
<1>36. ASSUME NEW p \in Procs, Signal(p)
      PROVE CallbackInv'
  BY <1>36 DEF Signal, callVars, stopVars, ioVars
<1>37. CASE UNCHANGED vars
  BY <1>37 DEF vars, callVars, stopVars, ioVars, kernelVars, CallbackInv, Total, Live,
     Writable, Signalled, Completed
<1>38. QED
  BY <1>1, <1>2, <1>3, <1>4, <1>5, <1>6, <1>7, <1>8, <1>9, <1>10, <1>11, <1>12, <1>13, <1>14,
     <1>15, <1>16, <1>17, <1>18,
     <1>19, <1>20, <1>21, <1>22, <1>23, <1>24, <1>25, <1>26, <1>27, <1>28, <1>29, <1>30, <1>31,
     <1>32, <1>33, <1>34, <1>35, <1>36, <1>37
  DEF Next, Run, Setup, Drain, Unwind, Read, Kernel, Returned

(* What TotalProcesses counts: it is a number, it stays when no process is  *)
(* created and grows when one is.                                          *)
LEMMA TotalNat == Total \in Nat
<1>1. IsFiniteSet(Assigned)
  BY ConstantsAssumption, FS_Subset DEF Assigned
<1> QED
  BY <1>1, FS_CardinalityType DEF Total, Assigned

\* The census counts whom the job has ever held.
LEMMA TotalKept == ASSUME Assigned' = Assigned PROVE Total' = Total
  BY DEF Total, Assigned

\* A new member makes it one more.
LEMMA TotalGrows ==
    ASSUME NEW c \in Procs, c \notin Assigned, Assigned' = Assigned \cup {c}
    PROVE  Total' = Total + 1
<1>1. IsFiniteSet(Assigned)
  BY ConstantsAssumption, FS_Subset DEF Assigned
<1>2. Cardinality(Assigned \cup {c}) = Cardinality(Assigned) + 1
  BY <1>1, FS_AddElement
<1> QED
  BY <1>2 DEF Total, Assigned

(* Every step keeps the census: while the count is the one of the census,  *)
(* whatever is alive or killed is held by it.                              *)
LEMMA CensusStep == ASSUME TypeInv, TreeInv, CensusInv, [Next]_vars PROVE CensusInv'
<1> USE TotalNat DEF TypeInv, TreeInv, CensusInv, Labels, ProcState, Leaving, Launching
<1>a. UNCHANGED proc => Total' = Total
  BY TotalKept DEF Assigned
<1>b. KillLive => Total' = Total
  BY TotalKept DEF Assigned, KillLive
<1>1. CASE Validate
  BY <1>1 DEF Validate, Goto, Finish, stopVars, ioVars, kernelVars, Signalled, Completed
<1>2. CASE CreateJob
  BY <1>2 DEF CreateJob, Goto, stopVars, ioVars, kernelVars, Signalled, Completed
<1>3. CASE CreateEvent
  BY <1>3 DEF CreateEvent, Goto, ioVars, kernelVars, Signalled, Completed
<1>4. CASE ArmCallback
  BY <1>4 DEF ArmCallback, Goto, ioVars, kernelVars, Signalled, Completed
<1>5. CASE CreatePipes
  BY <1>5 DEF CreatePipes, Goto, stopVars, kernelVars, Signalled, Completed
<1>6. CASE CheckStop
  BY <1>6 DEF CheckStop, Goto, Finish, stopVars, ioVars, kernelVars, Signalled, Completed
<1>7. CASE Create
  BY <1>7 DEF Create, Goto, stopVars, ioVars, Signalled, Completed
<1>8. CASE CloseParentEnds
  BY <1>8 DEF CloseParentEnds, Goto, stopVars, kernelVars, Signalled, Completed
<1>9. CASE StartReaders
  BY <1>9 DEF StartReaders, Goto, stopVars, kernelVars, Signalled, Completed
<1>10. CASE SetupFails
  BY <1>10 DEF SetupFails, Finish, stopVars, ioVars, kernelVars, Signalled, Completed
<1>11. CASE Wait
  BY <1>11 DEF Wait, stopVars, ioVars, kernelVars, Signalled, Completed
<1>12. CASE ExitCode
  BY <1>12 DEF ExitCode, Goto, stopVars, ioVars, kernelVars, Signalled, Completed
<1>13. CASE Census
  BY <1>13, <1>a DEF Census, stopVars, ioVars, kernelVars, Signalled, Completed
<1>14. CASE RetainMembers
  BY <1>14, <1>a DEF RetainMembers, Live, stopVars, ioVars, kernelVars, Signalled, Completed
<1>15. CASE TerminateJob
  BY <1>15, <1>b DEF TerminateJob, Goto, stopVars, ioVars, KillLive, Signalled, Completed
<1>16. CASE WaitMembers
  BY <1>16, <1>a DEF WaitMembers, Goto, stopVars, ioVars, kernelVars, Signalled, Completed
<1>17. CASE Account
  BY <1>17 DEF Account, Goto, Finish, stopVars, ioVars, kernelVars, Signalled, Completed
<1>18. CASE WaitRoot
  BY <1>18 DEF WaitRoot, Goto, stopVars, ioVars, kernelVars, Signalled, Completed
<1>19. CASE JoinReaders
  BY <1>19 DEF JoinReaders, Finish, stopVars, ioVars, kernelVars, Signalled, Completed
<1>20. CASE DrainFails
  BY <1>20 DEF DrainFails, Finish, stopVars, ioVars, kernelVars, Signalled, Completed
<1>21. CASE AbortProcesses
  BY <1>21 DEF AbortProcesses, Goto, stopVars, ioVars, KillLive, Signalled, Completed
<1>22. CASE AbortWait
  BY <1>22 DEF AbortWait, Goto, stopVars, ioVars, kernelVars, Signalled, Completed
<1>23. CASE AbortJoin
  BY <1>23 DEF AbortJoin, Goto, stopVars, ioVars, kernelVars, Signalled, Completed
<1>24. CASE DropCallback
  BY <1>24 DEF DropCallback, Goto, kernelVars, Signalled, Completed
<1>25. CASE CloseEvent
  BY <1>25 DEF CloseEvent, Goto, ioVars, kernelVars, Signalled, Completed
<1>26. CASE CloseJob
  BY <1>26 DEF CloseJob, Goto, stopVars, ioVars, KillLive, Signalled, Completed
<1>27. CASE RequestStop
  BY <1>27, <1>a DEF RequestStop, callVars, ioVars, kernelVars, Signalled, Completed
<1>28. CASE SignalCancellation
  BY <1>28, <1>a DEF SignalCancellation, callVars, ioVars, kernelVars, Signalled, Completed
<1>29. ASSUME NEW s \in Streams, ReadChunk(s)
      PROVE CensusInv'
  BY <1>29, <1>a DEF ReadChunk, callVars, stopVars, kernelVars, Signalled, Completed
<1>30. ASSUME NEW s \in Streams, ReadEnd(s)
      PROVE CensusInv'
  BY <1>30, <1>a DEF ReadEnd, callVars, stopVars, kernelVars, Signalled, Completed
<1>31. ASSUME NEW s \in Streams, ReadFails(s)
      PROVE CensusInv'
  BY <1>31, <1>a DEF ReadFails, callVars, stopVars, kernelVars, Signalled, Completed
<1>32. ASSUME NEW p \in Procs, NEW c \in Procs, Spawn(p, c)
      PROVE CensusInv'
  <2>1. c \notin Assigned /\ Assigned' = Assigned \cup {c}
    BY <1>32 DEF Spawn, Assigned
  <2>2. Total' = Total + 1
    BY <2>1, TotalGrows
  <2> QED
    BY <1>32, <2>2 DEF Spawn, callVars, stopVars, ioVars, Signalled, Completed
<1>33. ASSUME NEW p \in Procs, NEW s \in Streams, Write(p, s)
      PROVE CensusInv'
  BY <1>33, <1>a DEF Write, callVars, stopVars, Signalled, Completed
<1>34. ASSUME NEW p \in Procs, NEW s \in Streams, WriteNothing(p, s)
      PROVE CensusInv'
  BY <1>34, <1>a DEF WriteNothing, callVars, stopVars, ioVars, Signalled, Completed
<1>35. ASSUME NEW p \in Procs, Leave(p)
      PROVE CensusInv'
  <2>1. Total' = Total
    BY <1>35, TotalKept DEF Leave, Assigned
  <2> QED
    BY <1>35, <2>1 DEF Leave, callVars, stopVars, ioVars, Signalled, Completed
<1>36. ASSUME NEW p \in Procs, Signal(p)
      PROVE CensusInv'
  <2>1. Total' = Total
    BY <1>36, TotalKept DEF Signal, Assigned
  <2> QED
    BY <1>36, <2>1 DEF Signal, callVars, stopVars, ioVars, Signalled, Completed
<1>37. CASE UNCHANGED vars
  BY <1>37, <1>a DEF vars, callVars, stopVars, ioVars, kernelVars, CensusInv, Signalled, Completed
<1>38. QED
  BY <1>1, <1>2, <1>3, <1>4, <1>5, <1>6, <1>7, <1>8, <1>9, <1>10, <1>11, <1>12, <1>13, <1>14,
     <1>15, <1>16, <1>17, <1>18,
     <1>19, <1>20, <1>21, <1>22, <1>23, <1>24, <1>25, <1>26, <1>27, <1>28, <1>29, <1>30, <1>31,
     <1>32, <1>33, <1>34, <1>35, <1>36, <1>37
  DEF Next, Run, Setup, Drain, Unwind, Read, Kernel, Returned

(* Every step keeps the account of the streams.                            *)
LEMMA StreamStep ==
    ASSUME TypeInv, TreeInv, CensusInv, StreamInv, BoundInv, [Next]_vars PROVE StreamInv'
<1> USE DEF TypeInv, StreamInv, Labels, ProcState, Leaving, Launching
<1>1. CASE Validate
  BY <1>1 DEF Validate, TreeInv, Goto, Finish, stopVars, ioVars, kernelVars, Signalled,
     Writable, Completed
<1>2. CASE CreateJob
  BY <1>2 DEF CreateJob, Goto, stopVars, ioVars, kernelVars, Signalled, Writable, Completed
<1>3. CASE CreateEvent
  BY <1>3 DEF CreateEvent, Goto, ioVars, kernelVars, Signalled, Writable, Completed
<1>4. CASE ArmCallback
  BY <1>4 DEF ArmCallback, Goto, ioVars, kernelVars, Signalled, Writable, Completed
<1>5. CASE CreatePipes
  BY <1>5 DEF CreatePipes, Goto, stopVars, kernelVars, Signalled, Writable, Completed
<1>6. CASE CheckStop
  BY <1>6 DEF CheckStop, TreeInv, Goto, Finish, stopVars, ioVars, kernelVars, Signalled,
     Writable, Completed
<1>7. CASE Create
  BY <1>7 DEF Create, Goto, stopVars, ioVars, Signalled, Writable, Completed
<1>8. CASE CloseParentEnds
  BY <1>8 DEF CloseParentEnds, Goto, stopVars, kernelVars, Signalled, Writable, Completed
<1>9. CASE StartReaders
  BY <1>9 DEF StartReaders, Goto, stopVars, kernelVars, Signalled, Writable, Completed
<1>10. CASE SetupFails
  BY <1>10 DEF SetupFails, Finish, stopVars, ioVars, kernelVars, Signalled, Writable, Completed
<1>11. CASE Wait
  BY <1>11 DEF Wait, stopVars, ioVars, kernelVars, Signalled, Writable, Completed
<1>12. CASE ExitCode
  BY <1>12 DEF ExitCode, Goto, stopVars, ioVars, kernelVars, Signalled, Writable, Completed
<1>13. CASE Census
  BY <1>13 DEF Census, stopVars, ioVars, kernelVars, Signalled, Writable, Completed
<1>14. CASE RetainMembers
  BY <1>14 DEF RetainMembers, stopVars, ioVars, kernelVars, Signalled, Writable, Completed
<1>15. CASE TerminateJob
  BY <1>15 DEF TerminateJob, Goto, stopVars, ioVars, KillLive, Signalled, Writable, Completed
<1>16. CASE WaitMembers
  BY <1>16 DEF WaitMembers, Goto, stopVars, ioVars, kernelVars, Signalled, Writable, Completed
<1>17. CASE Account
  BY <1>17 DEF Account, Goto, Finish, stopVars, ioVars, kernelVars, Signalled, Writable, Completed
<1>18. CASE WaitRoot
  BY <1>18 DEF WaitRoot, Goto, stopVars, ioVars, kernelVars, Signalled, Writable, Completed
<1>19. CASE JoinReaders
  BY <1>19 DEF JoinReaders, ReadersDone, Finish, stopVars, ioVars, kernelVars, Signalled,
     Writable, Completed
<1>20. CASE DrainFails
  BY <1>20 DEF DrainFails, Finish, stopVars, ioVars, kernelVars, Signalled, Writable, Completed
<1>21. CASE AbortProcesses
  <2>0. \A p \in Procs : Signalled(p)' <=> Signalled(p)
    BY <1>21 DEF AbortProcesses, KillLive, Signalled
  <2>1. \A s \in Streams : Writable(s)' <=> Writable(s)
    BY <1>21, <2>0 DEF AbortProcesses, ioVars, Writable
  <2>2. \A p \in Procs : proc'[p] = "absent" <=> proc[p] = "absent"
    BY <1>21 DEF AbortProcesses, KillLive
  <2> QED
    BY <1>21, <2>1, <2>2 DEF AbortProcesses, Goto, stopVars, ioVars, Completed
<1>22. CASE AbortWait
  BY <1>22 DEF AbortWait, Goto, stopVars, ioVars, kernelVars, Signalled, Writable, Completed
<1>23. CASE AbortJoin
  BY <1>23 DEF AbortJoin, ReadersDone, CensusInv, Goto, stopVars, ioVars, kernelVars,
     Signalled, Writable, Completed
<1>24. CASE DropCallback
  BY <1>24 DEF DropCallback, Goto, kernelVars, Signalled, Writable, Completed
<1>25. CASE CloseEvent
  BY <1>25 DEF CloseEvent, Goto, ioVars, kernelVars, Signalled, Writable, Completed
<1>26. CASE CloseJob
  BY <1>26 DEF CloseJob, Goto, stopVars, ioVars, KillLive, Signalled, Writable, Completed
<1>27. CASE RequestStop
  BY <1>27 DEF RequestStop, callVars, ioVars, kernelVars, Signalled, Writable, Completed
<1>28. CASE SignalCancellation
  BY <1>28 DEF SignalCancellation, callVars, ioVars, kernelVars, Signalled, Writable, Completed
<1>29. ASSUME NEW s \in Streams, ReadChunk(s)
      PROVE StreamInv'
  <2> USE <1>29 DEF ReadChunk, callVars, stopVars, kernelVars
  <2>1. /\ captured[s] + 1 <= cut[s] /\ pipe[s] - 1 \in Nat /\ captured[s] + 1 \in Nat
        /\ written[s] = (captured[s] + 1) + (pipe[s] - 1) /\ reader[s] # "ended"
    OBVIOUS
  <2>2. \A t \in Streams : (pipe[t] = 0 => pipe'[t] = 0) /\ (Writable(t)' <=> Writable(t))
    BY <2>1 DEF Writable, Signalled
  <2>3. /\ captured'[s] = captured[s] + 1 /\ pipe'[s] = pipe[s] - 1
        /\ \A t \in Streams \ {s} : captured'[t] = captured[t] /\ pipe'[t] = pipe[t]
    OBVIOUS
  <2>4. \A t \in Streams : reader[t] = "ended" => captured'[t] = captured[t]
    BY <2>1, <2>3
  <2>5. (\A t \in Streams : written[t] = captured'[t] + pipe'[t])
        /\ (\A t \in Streams : captured'[t] <= cut[t])
    BY <2>1, <2>3
  <2> QED
    BY <2>2, <2>4, <2>5 DEF Completed
<1>30. ASSUME NEW s \in Streams, ReadEnd(s)
      PROVE StreamInv'
  <2>1. captured[s] = cut[s] => cut[s] # Uncut
    BY ConstantsAssumption DEF BoundInv, Uncut
  <2> QED
    BY <1>30, <2>1 DEF ReadEnd, callVars, stopVars, kernelVars, Signalled, Writable, Completed
<1>31. ASSUME NEW s \in Streams, ReadFails(s)
      PROVE StreamInv'
  BY <1>31 DEF ReadFails, callVars, stopVars, kernelVars, Signalled, Writable, Completed
<1>32. ASSUME NEW p \in Procs, NEW c \in Procs, Spawn(p, c)
      PROVE StreamInv'
  <2>1. \A s \in Streams : Writable(s)' <=> Writable(s)
    BY <1>32 DEF Spawn, callVars, stopVars, ioVars, Signalled, Writable
  <2>2. proc[p] # "absent" /\ \A q \in Procs : proc'[q] = "absent" => proc[q] = "absent"
    BY <1>32 DEF Spawn
  <2> QED
    BY <1>32, <2>1, <2>2 DEF Spawn, callVars, stopVars, ioVars, Completed
<1>33. ASSUME NEW p \in Procs, NEW s \in Streams, Write(p, s)
      PROVE StreamInv'
  BY <1>33 DEF Write, callVars, stopVars, Signalled, Writable, Completed
<1>34. ASSUME NEW p \in Procs, NEW s \in Streams, WriteNothing(p, s)
      PROVE StreamInv'
  <2> USE <1>34 DEF WriteNothing, callVars, stopVars, ioVars
  <2>1. Writable(s) /\ captured[s] <= written[s]
    BY DEF Writable, Signalled
  <2>2. \A t \in Streams : Writable(t)' <=> Writable(t)
    BY DEF Writable, Signalled
  <2>3. cut'[s] = written[s] /\ \A t \in Streams \ {s} : cut'[t] = cut[t]
    OBVIOUS
  <2>4. reader[s] # "ended"
    BY <2>1
  <2>5. \A t \in Streams : captured[t] <= cut'[t] /\ (cut'[t] # Uncut => cut'[t] <= written[t])
    BY <2>1, <2>3
  <2> QED
    BY <2>2, <2>3, <2>4, <2>5 DEF Completed
<1>35. ASSUME NEW p \in Procs, Leave(p)
      PROVE StreamInv'
  BY <1>35 DEF Leave, callVars, stopVars, ioVars, Signalled, Writable, Completed
<1>36. ASSUME NEW p \in Procs, Signal(p)
      PROVE StreamInv'
  BY <1>36 DEF Signal, callVars, stopVars, ioVars, Signalled, Writable, Completed
<1>37. CASE UNCHANGED vars
  BY <1>37 DEF vars, callVars, stopVars, ioVars, kernelVars, StreamInv, Total, Live, Writable,
     Signalled, Completed
<1>38. QED
  BY <1>1, <1>2, <1>3, <1>4, <1>5, <1>6, <1>7, <1>8, <1>9, <1>10, <1>11, <1>12, <1>13, <1>14,
     <1>15, <1>16, <1>17, <1>18,
     <1>19, <1>20, <1>21, <1>22, <1>23, <1>24, <1>25, <1>26, <1>27, <1>28, <1>29, <1>30, <1>31,
     <1>32, <1>33, <1>34, <1>35, <1>36, <1>37
  DEF Next, Run, Setup, Drain, Unwind, Read, Kernel, Returned

\* Every step keeps what a verdict rests on.
LEMMA VerdictStep == ASSUME TypeInv, TreeInv, CensusInv, CallbackInv, VerdictInv, [Next]_vars PROVE VerdictInv'
<1> USE DEF TypeInv, TreeInv, CensusInv, CallbackInv, VerdictInv, OutcomeFaithful,
           Labels, ProcState, Launching, Leaving, Signalled, Completed, Goto, Finish,
           callVars, stopVars, ioVars, kernelVars
<1>1. CASE Setup
  <2>1. CASE Validate
    BY <2>1, ConstantsAssumption DEF Validate
  <2>2. CASE CreateJob
    BY <2>2, ConstantsAssumption DEF CreateJob
  <2>3. CASE CreateEvent
    BY <2>3, ConstantsAssumption DEF CreateEvent
  <2>4. CASE ArmCallback
    BY <2>4, ConstantsAssumption DEF ArmCallback
  <2>5. CASE CreatePipes
    BY <2>5, ConstantsAssumption DEF CreatePipes
  <2>6. CASE CheckStop
    BY <2>6, ConstantsAssumption DEF CheckStop
  <2>7. CASE Create
    BY <2>7, ConstantsAssumption DEF Create
  <2>8. CASE CloseParentEnds
    BY <2>8, ConstantsAssumption DEF CloseParentEnds
  <2>9. CASE StartReaders
    BY <2>9, ConstantsAssumption DEF StartReaders
  <2> QED
    BY <1>1, <2>1, <2>2, <2>3, <2>4, <2>5, <2>6, <2>7, <2>8, <2>9 DEF Setup
<1>2. CASE SetupFails \/ DrainFails
  BY <1>2 DEF SetupFails, DrainFails
<1>3. CASE Drain
  <2>1. CASE Wait
    <3>1. CASE event = "set"
      BY <2>1, <3>1 DEF Wait
    <3>2. CASE event # "set"
      BY <2>1, <3>2, ConstantsAssumption DEF Wait
    <3> QED
      BY <3>1, <3>2
  <2>2. CASE ExitCode
    BY <2>2, ConstantsAssumption DEF ExitCode
  <2>3. CASE Census
    BY <2>3, ConstantsAssumption DEF Census
  <2>4. CASE RetainMembers
    BY <2>4, ConstantsAssumption DEF RetainMembers
  <2>5. CASE TerminateJob
    BY <2>5, ConstantsAssumption DEF TerminateJob, KillLive
  <2>6. CASE WaitMembers
    BY <2>6, ConstantsAssumption DEF WaitMembers
  <2>7. CASE Account
    BY <2>7, ConstantsAssumption DEF Account
  <2>8. CASE WaitRoot
    BY <2>8, ConstantsAssumption DEF WaitRoot
  <2>9. CASE JoinReaders
    BY <2>9, ConstantsAssumption DEF JoinReaders
  <2> QED
    BY <1>3, <2>1, <2>2, <2>3, <2>4, <2>5, <2>6, <2>7, <2>8, <2>9 DEF Drain
<1>4. CASE Unwind
  <2>1. CASE AbortProcesses
    BY <2>1, ConstantsAssumption DEF AbortProcesses, KillLive
  <2>2. CASE AbortWait
    BY <2>2, ConstantsAssumption DEF AbortWait
  <2>3. CASE AbortJoin
    BY <2>3, ConstantsAssumption DEF AbortJoin
  <2>4. CASE DropCallback
    BY <2>4, ConstantsAssumption DEF DropCallback
  <2>5. CASE CloseEvent
    BY <2>5, ConstantsAssumption DEF CloseEvent
  <2>6. CASE CloseJob
    BY <2>6, ConstantsAssumption DEF CloseJob, KillLive
  <2> QED
    BY <1>4, <2>1, <2>2, <2>3, <2>4, <2>5, <2>6 DEF Unwind
<1>5. CASE RequestStop \/ SignalCancellation
  <2>1. CASE RequestStop
    BY <2>1 DEF RequestStop
  <2>2. CASE SignalCancellation
    BY <2>2 DEF SignalCancellation
  <2> QED
    BY <1>5, <2>1, <2>2
<1>6. CASE \E s \in Streams : Read(s) \/ ReadFails(s)
  BY <1>6 DEF Read, ReadChunk, ReadEnd, ReadFails
<1>7. CASE Kernel
  <2>1. CASE \E p, c \in Procs : Spawn(p, c)
    BY <2>1, ConstantsAssumption DEF Spawn
  <2>2. CASE \E p \in Procs, s \in Streams : Write(p, s) \/ WriteNothing(p, s)
    BY <2>2 DEF Write, WriteNothing
  <2>3. CASE \E p \in Procs : Leave(p)
    BY <2>3, ConstantsAssumption DEF Leave
  <2>4. CASE \E p \in Procs : Signal(p)
    BY <2>4, ConstantsAssumption DEF Signal
  <2> QED
    BY <1>7, <2>1, <2>2, <2>3, <2>4 DEF Kernel
<1>8. CASE UNCHANGED vars
  BY <1>8 DEF vars
<1> QED
  BY <1>1, <1>2, <1>3, <1>4, <1>5, <1>6, <1>7, <1>8 DEF Next, Run, Returned

\* No more processes are counted than there are.
LEMMA TotalBounded == Total \in 0 .. Cardinality(Procs)
<1>1. Cardinality(Procs) \in Nat /\ Total <= Cardinality(Procs)
  BY ConstantsAssumption, FS_Subset, FS_CardinalityType DEF Total
<1> QED
  BY <1>1, TotalNat

\* Every step keeps the bounds.
LEMMA BoundStep == ASSUME TypeInv, StreamInv, BoundInv, [Next]_vars PROVE BoundInv'
<1> USE DEF TypeInv, StreamInv, BoundInv, Live,
           Labels, ProcState, Launching, Leaving, Signalled, Completed, Goto, Finish,
           callVars, stopVars, ioVars, kernelVars
<1>1. CASE Setup
  BY <1>1, ConstantsAssumption DEF Setup, Validate, CreateJob, CreateEvent, ArmCallback,
     CreatePipes, CheckStop,
      Create, CloseParentEnds, StartReaders
<1>2. CASE SetupFails \/ DrainFails
  BY <1>2 DEF SetupFails, DrainFails
<1>3. CASE Drain
  BY <1>3, TotalBounded DEF Drain, Wait, ExitCode, Census, RetainMembers, TerminateJob, WaitMembers,
      Account, WaitRoot, JoinReaders, KillLive
<1>4. CASE Unwind
  BY <1>4 DEF Unwind, AbortProcesses, AbortWait, AbortJoin, DropCallback, CloseEvent,
      CloseJob, KillLive
<1>5. CASE RequestStop \/ SignalCancellation
  BY <1>5 DEF RequestStop, SignalCancellation
<1>6. CASE \E s \in Streams : Read(s) \/ ReadFails(s)
  <2>1. ASSUME NEW s \in Streams, ReadChunk(s) PROVE BoundInv'
    <3>1. \A t \in Streams : pipe'[t] <= pipe[t]
      BY <2>1 DEF ReadChunk
    <3>2. \A t \in Streams : pipe'[t] \in Nat /\ pipe[t] \in Nat
      BY <2>1 DEF ReadChunk
    <3>3. \A t \in Streams : pipe'[t] <= Capacity
      BY <3>1, <3>2, ConstantsAssumption
    <3> QED
      BY <2>1, <3>3 DEF ReadChunk
  <2>2. ASSUME NEW s \in Streams, ReadEnd(s) PROVE BoundInv'
    BY <2>2 DEF ReadEnd
  <2>3. ASSUME NEW s \in Streams, ReadFails(s) PROVE BoundInv'
    BY <2>3 DEF ReadFails
  <2> QED
    BY <1>6, <2>1, <2>2, <2>3 DEF Read
<1>7. CASE Kernel
  BY <1>7, ConstantsAssumption DEF Kernel, Spawn, Write, WriteNothing, Leave, Signal
<1>8. CASE UNCHANGED vars
  BY <1>8 DEF vars
<1> QED
  BY <1>1, <1>2, <1>3, <1>4, <1>5, <1>6, <1>7, <1>8 DEF Next, Run, Returned

(* The invariant the theorems below rest on.                               *)
THEOREM Invariance == Spec => []IInv
<1>1. ASSUME Init PROVE IInv
  <2> USE <1>1 DEF Init
  <2>1. TypeInv /\ TreeInv /\ CensusInv /\ CallbackInv /\ StreamInv
    BY ConstantsAssumption DEF TypeInv, TreeInv, CensusInv, CallbackInv, StreamInv, Uncut,
       Labels, ProcState, Launching, Leaving, Completed
  <2>2. VerdictInv
    BY ConstantsAssumption DEF VerdictInv, OutcomeFaithful, Launching
  <2>3. BoundInv
    BY ConstantsAssumption, FS_CardinalityType DEF BoundInv
  <2> QED
    BY <2>1, <2>2, <2>3 DEF IInv
<1>2. IInv /\ [Next]_vars => IInv'
  BY TypeStep, TreeStep, CensusStep, CallbackStep, StreamStep, VerdictStep, BoundStep DEF IInv
<1> QED
  BY <1>1, <1>2, PTL DEF Spec

(* Every counter and every set stays within its bounds: nothing is counted *)
(* twice by the census, and no pipe is held that was not created.          *)
THEOREM ProcessTypes == Spec => []TypeOK
<1>1. ASSUME IInv PROVE TypeOK
  <2> USE <1>1 DEF IInv
  <2>1. ASSUME NEW s \in Streams
        PROVE  /\ written[s] \in 0 .. MaxWrites /\ pipe[s] \in 0 .. Capacity
               /\ captured[s] \in 0 .. MaxWrites /\ cut[s] \in 0 .. Uncut
    <3>1. /\ written[s] \in Nat /\ pipe[s] \in Nat /\ captured[s] \in Nat /\ cut[s] \in Nat
          /\ written[s] = captured[s] + pipe[s] /\ (cut[s] # Uncut => cut[s] <= written[s])
          /\ written[s] <= MaxWrites /\ pipe[s] <= Capacity
      BY <2>1 DEF TypeInv, StreamInv, BoundInv
    <3> QED
      BY <3>1, ConstantsAssumption DEF Uncut
  <2>2. /\ written \in [Streams -> 0 .. MaxWrites] /\ pipe \in [Streams -> 0 .. Capacity]
        /\ captured \in [Streams -> 0 .. MaxWrites] /\ cut \in [Streams -> 0 .. Uncut]
    BY <2>1 DEF TypeInv
  <2> QED
    BY <2>2 DEF TypeOK, TypeInv, VerdictInv, BoundInv, CallbackInv
<1> QED
  BY <1>1, Invariance, PTL

(* An exit code is the root's own, and a cancellation is one that somebody *)
(* asked for, with the root of a launched call seen to end: VerdictInv     *)
(* follows each verdict back to the wait that decided it.                  *)
THEOREM VerdictTrue == Spec => []OutcomeFaithful
<1>1. IInv => OutcomeFaithful
  BY DEF IInv, VerdictInv
<1> QED
  BY <1>1, Invariance, PTL

(* An owned call leaves nothing of its tree running, and one that returns  *)
(* a result has seen the end of everything its job terminated: TreeInv at  *)
(* the return, and CensusInv, whose count of the processes ever created    *)
(* forbids one that the census missed.                                     *)
THEOREM NothingLeft == Spec => []NothingOutlives
<1>1. IInv => NothingOutlives
  BY DEF IInv, TreeInv, CensusInv, NothingOutlives, Live, Leaving
<1> QED
  BY <1>1, Invariance, PTL

(* No return, by a result, an error or an exception, leaves a reader.      *)
THEOREM ReadersJoined == Spec => []NoReaderLeft
<1>1. IInv => NoReaderLeft
  BY DEF IInv, StreamInv, NoReaderLeft, ReadersDone, Leaving
<1> QED
  BY <1>1, Invariance, PTL

(* A result carries everything that was written, up to a stream's first    *)
(* empty write: every reader has got that far, or has seen the end of its  *)
(* stream, after which nobody can write to it, or nothing ever ran.        *)
THEOREM OutputDrained == Spec => []OutputComplete
<1>1. ASSUME IInv, pc = "done", Completed, NEW s \in capture
      PROVE  captured[s] = Readable(s)
  <2>1. s \in Streams /\ captured[s] \in Nat /\ pipe[s] \in Nat /\ cut[s] \in Nat
        /\ written[s] = captured[s] + pipe[s]
        /\ captured[s] <= cut[s] /\ (cut[s] # Uncut => cut[s] <= written[s])
    BY <1>1 DEF IInv, TypeInv, StreamInv
  <2>2. \/ captured[s] = cut[s] /\ cut[s] # Uncut
        \/ pipe[s] = 0
        \/ written[s] = 0 /\ cut[s] = Uncut
    BY <1>1, <2>1 DEF IInv, StreamInv, Leaving
  <2> QED
    BY <2>1, <2>2 DEF Readable
<1>2. IInv => OutputComplete
  BY <1>1 DEF OutputComplete
<1> QED
  BY <1>2, Invariance, PTL

(* The stop callback never signals a closed event.                         *)
THEOREM EventOutlivesCallback == Spec => []CallbackHasItsEvent
<1>1. IInv => CallbackHasItsEvent
  BY DEF IInv, CallbackInv, CallbackHasItsEvent
<1> QED
  BY <1>1, Invariance, PTL

=============================================================================
