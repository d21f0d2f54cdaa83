--------------------------- MODULE ProcessRunner ---------------------------
(***************************************************************************)
(* One call of WindowsProcessRunner::run (WindowsProcessRunner.cpp) with   *)
(* the processes it starts, the threads that read its pipes and the stop   *)
(* callback that may run in another thread.  A Win32 call that fails is   *)
(* an action of its own (SetupFails, DrainFails).                          *)
(*                                                                         *)
(* The kernel is external.  A process that ends, by itself ("leaving") or  *)
(* by termination ("killed"), first stops being a live member of its job;  *)
(* its handle is signalled, and the pipe ends it holds are closed, later   *)
(* ("exited", "dead").  The comment above retain_job_members says that the *)
(* two are separate events.                                                *)
(***************************************************************************)
EXTENDS Naturals, FiniteSets

CONSTANTS Procs,      \* the processes of the launched tree
          Root,       \* the one CreateProcessW creates
          Streams,    \* the capturable streams: stdout and stderr
          Emptied,    \* bound: the streams that empty writes go to
          MaxWrites,  \* bound: chunks written to one stream
          Capacity    \* chunks a pipe holds before a writer blocks

ASSUME ConstantsAssumption ==
    /\ Root \in Procs /\ IsFiniteSet(Procs) /\ Emptied \subseteq Streams
    /\ MaxWrites \in Nat /\ Capacity \in Nat \ {0}

VARIABLES
    pc,          \* where the calling thread is
    managed,     \* spec.cancellation.stop_possible(): the call owns a job
    capture,     \* the streams the specification captures
    stopped,     \* the token's stop has been requested
    callback,    \* cancellation_callback
    event,       \* cancellation_event
    cancelled,   \* the cancellation event won the wait
    before,      \* TotalProcesses when the cleanup census was taken
    retained,    \* members whose handles the census holds
    writeEnds,   \* write ends of the pipes this process still has open
    reader,      \* the reader thread of each stream
    captured,    \* chunks appended to the result
    outcome,     \* what the call returns
    proc, holds, \* the processes, and the pipe ends each inherited
    written, pipe, \* chunks ever written, and chunks in the pipe
    cut          \* chunks written ahead of a stream's first empty write

callVars   == <<pc, managed, capture, cancelled, before, retained, outcome>>
stopVars   == <<stopped, callback, event>>
ioVars     == <<writeEnds, reader, captured, pipe>>
kernelVars == <<proc, holds, written, cut>>
vars       == <<callVars, stopVars, ioVars, kernelVars>>

ProcState == {"absent", "live", "leaving", "killed", "exited", "dead"}
Labels == {"validate", "own", "event", "arm", "pipes", "check", "create", "parents",
           "readers", "wait", "exitcode", "census", "retain", "terminate", "members",
           "account", "root", "join", "abort", "abortwait", "abortjoin",
           "dropCallback", "closeEvent", "closeJob", "done"}

Uncut        == MaxWrites + 1   \* no empty write yet
Signalled(p) == proc[p] \in {"exited", "dead"}
Live         == {p \in Procs : proc[p] = "live"}
Total        == Cardinality({p \in Procs : proc[p] # "absent"})
Writable(s)  == s \in writeEnds \/ \E p \in Procs : s \in holds[p] /\ ~Signalled(p)

Init ==
    /\ pc = "validate" /\ managed \in BOOLEAN /\ capture \in SUBSET Streams
    /\ stopped = FALSE /\ callback = "none" /\ event = "none"
    /\ cancelled = FALSE /\ before = 0 /\ retained = {}
    /\ writeEnds = {} /\ reader = [s \in Streams |-> "none"]
    /\ captured = [s \in Streams |-> 0] /\ outcome = "none"
    /\ proc = [p \in Procs |-> "absent"] /\ holds = [p \in Procs |-> {}]
    /\ written = [s \in Streams |-> 0] /\ pipe = [s \in Streams |-> 0]
    /\ cut = [s \in Streams |-> Uncut]

Goto(l) == pc' = l /\ UNCHANGED <<managed, capture, cancelled, before, retained, outcome>>
Finish(o, l) ==
    pc' = l /\ outcome' = o /\ UNCHANGED <<managed, capture, cancelled, before, retained>>

----------------------------------------------------------------------------
(* Before the launch: any failure unwinds the locals, from the callback on *)

Validate ==
    /\ pc = "validate"
    /\ \/ stopped /\ Finish("cancelled", "dropCallback")
       \/ ~stopped /\ Goto(IF managed THEN "own" ELSE "pipes")
    /\ UNCHANGED <<stopVars, ioVars, kernelVars>>

CreateJob ==
    /\ pc = "own" /\ Goto("event")
    /\ UNCHANGED <<stopVars, ioVars, kernelVars>>

CreateEvent ==
    /\ pc = "event" /\ Goto("arm") /\ event' = "unset"
    /\ UNCHANGED <<stopped, callback, ioVars, kernelVars>>

\* A stop_callback made after the stop runs in its constructor.
ArmCallback ==
    /\ pc = "arm" /\ Goto("pipes")
    /\ callback' = IF stopped THEN "ran" ELSE "armed"
    /\ event' = IF stopped THEN "set" ELSE event
    /\ UNCHANGED <<stopped, ioVars, kernelVars>>

\* The pipes, the standard handles and the attribute list.
CreatePipes ==
    /\ pc = "pipes" /\ Goto("check") /\ writeEnds' = capture
    /\ UNCHANGED <<stopVars, reader, captured, pipe, kernelVars>>

CheckStop ==
    /\ pc = "check"
    /\ \/ stopped /\ Finish("cancelled", "dropCallback")
       \/ ~stopped /\ Goto("create")
    /\ UNCHANGED <<stopVars, ioVars, kernelVars>>

Create ==
    /\ pc = "create" /\ Goto("parents")
    /\ proc' = [proc EXCEPT ![Root] = "live"]
    /\ holds' = [holds EXCEPT ![Root] = capture]
    /\ UNCHANGED <<stopVars, ioVars, written, cut>>

\* Mutant: this process keeps its write ends, so no reader sees the end.
CloseParentEndsLate ==
    /\ pc = "parents" /\ Goto("readers")
    /\ UNCHANGED <<stopVars, ioVars, kernelVars>>

CloseParentEnds ==
    /\ pc = "parents" /\ Goto("readers") /\ writeEnds' = {}
    /\ UNCHANGED <<stopVars, reader, captured, pipe, kernelVars>>

StartReaders ==
    /\ pc = "readers"
    /\ \/ \E s \in capture : reader[s] = "none" /\ reader' = [reader EXCEPT ![s] = "running"]
                             /\ Goto("readers")
       \/ (\A s \in capture : reader[s] # "none") /\ Goto("wait") /\ UNCHANGED reader
    /\ UNCHANGED <<stopVars, writeEnds, captured, pipe, kernelVars>>

\* A malformed specification, or a call that fails before there is a child.
SetupFails ==
    /\ pc \in {"validate", "own", "event", "pipes", "create"}
    /\ Finish("error", "dropCallback")
    /\ UNCHANGED <<stopVars, ioVars, kernelVars>>

----------------------------------------------------------------------------
(* The wait, and the end of the tree a stoppable call owns *)

\* Mutant: the end of the root is assumed, not waited for.
WaitEventOnly ==
    /\ pc = "wait"
    /\ \/ event = "set" /\ cancelled' = TRUE /\ pc' = "census"
       \/ event # "set" /\ pc' = "exitcode" /\ UNCHANGED cancelled
    /\ UNCHANGED <<managed, capture, before, retained, outcome, stopVars, ioVars, kernelVars>>

\* WaitForMultipleObjects picks the lowest signalled index: the event wins.
Wait ==
    /\ pc = "wait"
    /\ \/ event = "set" /\ cancelled' = TRUE /\ pc' = "census"
       \/ event # "set" /\ Signalled(Root) /\ pc' = "exitcode" /\ UNCHANGED cancelled
    /\ UNCHANGED <<managed, capture, before, retained, outcome, stopVars, ioVars, kernelVars>>

ExitCode ==
    /\ pc = "exitcode" /\ Goto(IF managed THEN "census" ELSE "join")
    /\ UNCHANGED <<stopVars, ioVars, kernelVars>>

Census ==
    /\ pc = "census" /\ pc' = "retain" /\ before' = Total
    /\ UNCHANGED <<managed, capture, cancelled, retained, outcome, stopVars, ioVars, kernelVars>>

RetainMembers ==
    /\ pc = "retain" /\ pc' = "terminate" /\ retained' = Live
    /\ UNCHANGED <<managed, capture, cancelled, before, outcome, stopVars, ioVars, kernelVars>>

KillLive == proc' = [p \in Procs |-> IF proc[p] = "live" THEN "killed" ELSE proc[p]]

TerminateJob ==
    /\ pc = "terminate" /\ Goto("members") /\ KillLive
    /\ UNCHANGED <<stopVars, ioVars, holds, written, cut>>

WaitMembers ==
    /\ pc = "members" /\ (\A p \in retained : Signalled(p)) /\ Goto("account")
    /\ UNCHANGED <<stopVars, ioVars, kernelVars>>

\* Mutant: TotalProcesses is not compared.
AccountActiveOnly ==
    /\ pc = "account" /\ Live = {} /\ Goto("root")
    /\ UNCHANGED <<stopVars, ioVars, kernelVars>>

\* The accounting loop sleeps while a member is still active.
Account ==
    /\ pc = "account"
    /\ \/ Total # before /\ Finish("error", "abort")
       \/ Total = before /\ Live = {} /\ Goto("root")
    /\ UNCHANGED <<stopVars, ioVars, kernelVars>>

WaitRoot ==
    /\ pc = "root" /\ Signalled(Root) /\ Goto("join")
    /\ UNCHANGED <<stopVars, ioVars, kernelVars>>

ReadersDone == \A s \in Streams : reader[s] # "running"

\* Mutant: one reader is joined twice, the other never.
JoinOneReader ==
    /\ pc = "join" /\ (capture = {} \/ \E s \in capture : reader[s] # "running")
    /\ Finish(IF cancelled THEN "cancelled" ELSE "exited", "dropCallback")
    /\ UNCHANGED <<stopVars, ioVars, kernelVars>>

JoinReaders ==
    /\ pc = "join" /\ ReadersDone
    /\ Finish(IF \E s \in Streams : reader[s] = "failed" THEN "error"
              ELSE IF cancelled THEN "cancelled" ELSE "exited", "dropCallback")
    /\ UNCHANGED <<stopVars, ioVars, kernelVars>>

\* A call fails, or a thread or the census cannot be allocated, with a child
\* alive: the first reader may be running when the second cannot start.
DrainFails ==
    /\ \/ /\ pc \in {"wait", "exitcode", "census", "retain", "terminate", "members", "account"}
          /\ Finish("error", "abort")
       \/ /\ pc = "retain" \/ (pc = "readers" /\ \E s \in capture : reader[s] = "none")
          /\ Finish("threw", "abort")
    /\ UNCHANGED <<stopVars, ioVars, kernelVars>>

\* TerminateJobObject and the close of the last handle kill the tree of an
\* owned call, TerminateProcess only the root of another.
AbortProcesses ==
    /\ pc = "abort" /\ Goto("abortwait")
    /\ IF managed THEN KillLive
       ELSE proc' = [proc EXCEPT ![Root] = IF @ = "live" THEN "killed" ELSE @]
    /\ UNCHANGED <<stopVars, ioVars, holds, written, cut>>

AbortWait ==
    /\ pc = "abortwait" /\ Signalled(Root) /\ Goto("abortjoin")
    /\ UNCHANGED <<stopVars, ioVars, kernelVars>>

\* Mutant: the failure path returns without joining.
AbortJoinNone ==
    /\ pc = "abortjoin" /\ Goto("dropCallback")
    /\ UNCHANGED <<stopVars, ioVars, kernelVars>>

AbortJoin ==
    /\ pc = "abortjoin" /\ ReadersDone /\ Goto("dropCallback")
    /\ UNCHANGED <<stopVars, ioVars, kernelVars>>

----------------------------------------------------------------------------
(* The locals are destroyed in the reverse of their order *)

\* Mutant: the callback is abandoned while it runs.
DropCallbackAtOnce ==
    /\ pc = "dropCallback" /\ Goto("closeEvent") /\ writeEnds' = {}
    /\ UNCHANGED <<stopVars, reader, captured, pipe, kernelVars>>

\* The destructor of a stop_callback waits for a run of it in another thread.
DropCallback ==
    /\ pc = "dropCallback" /\ callback # "running" /\ Goto("closeEvent")
    /\ callback' = "none" /\ writeEnds' = {}
    /\ UNCHANGED <<stopped, event, reader, captured, pipe, kernelVars>>

CloseEvent ==
    /\ pc = "closeEvent" /\ Goto("closeJob") /\ event' = "none"
    /\ UNCHANGED <<stopped, callback, ioVars, kernelVars>>

CloseJob ==
    /\ pc = "closeJob" /\ Goto("done")
    /\ IF managed THEN KillLive ELSE UNCHANGED proc
    /\ UNCHANGED <<stopVars, ioVars, holds, written, cut>>

----------------------------------------------------------------------------
(* The owner of the token, the readers and the processes *)

RequestStop ==
    /\ ~stopped /\ managed /\ stopped' = TRUE
    /\ callback' = IF callback = "armed" THEN "running" ELSE callback
    /\ UNCHANGED <<event, callVars, ioVars, kernelVars>>

SignalCancellation ==
    /\ callback = "running" /\ callback' = "ran"
    /\ event' = IF event = "none" THEN "none" ELSE "set"
    /\ UNCHANGED <<stopped, callVars, ioVars, kernelVars>>

\* Mutant: the number of bytes read is not looked at.
ReadChunkBlind(s) ==
    /\ reader[s] = "running"
    /\ pipe' = [pipe EXCEPT ![s] = @ - 1] /\ captured' = [captured EXCEPT ![s] = @ + 1]
    /\ UNCHANGED <<writeEnds, reader, callVars, stopVars, kernelVars>>

ReadChunk(s) ==
    /\ reader[s] = "running" /\ pipe[s] > 0 /\ captured[s] # cut[s]
    /\ pipe' = [pipe EXCEPT ![s] = @ - 1] /\ captured' = [captured EXCEPT ![s] = @ + 1]
    /\ UNCHANGED <<writeEnds, reader, callVars, stopVars, kernelVars>>

\* A read of zero bytes, which an empty write causes, whoever may still write; or
\* ERROR_BROKEN_PIPE: nothing left to read and nobody left to write.
ReadEnd(s) ==
    /\ reader[s] = "running"
    /\ captured[s] = cut[s] \/ (pipe[s] = 0 /\ ~Writable(s))
    /\ reader' = [reader EXCEPT ![s] = "ended"]
    /\ UNCHANGED <<writeEnds, captured, pipe, callVars, stopVars, kernelVars>>

ReadFails(s) ==
    /\ reader[s] = "running" /\ reader' = [reader EXCEPT ![s] = "failed"]
    /\ UNCHANGED <<writeEnds, captured, pipe, callVars, stopVars, kernelVars>>

Spawn(p, c) ==
    /\ proc[p] = "live" /\ proc[c] = "absent" /\ c # Root
    /\ proc' = [proc EXCEPT ![c] = "live"]
    /\ \E inherited \in SUBSET holds[p] : holds' = [holds EXCEPT ![c] = inherited]
    /\ UNCHANGED <<written, cut, callVars, stopVars, ioVars>>

Write(p, s) ==
    /\ proc[p] = "live" /\ s \in holds[p] /\ pipe[s] < Capacity /\ written[s] < MaxWrites
    /\ pipe' = [pipe EXCEPT ![s] = @ + 1] /\ written' = [written EXCEPT ![s] = @ + 1]
    /\ UNCHANGED <<writeEnds, reader, captured, proc, holds, cut, callVars, stopVars>>

\* WriteFile with no bytes: it takes no room in the pipe, and a reader that gets to
\* it sees it.  No reader gets past the first one.
WriteNothing(p, s) ==
    /\ proc[p] = "live" /\ s \in holds[p] /\ s \in Emptied /\ cut[s] = Uncut
    /\ cut' = [cut EXCEPT ![s] = written[s]]
    /\ UNCHANGED <<proc, holds, written, callVars, stopVars, ioVars>>

Leave(p) ==
    /\ proc[p] = "live" /\ proc' = [proc EXCEPT ![p] = "leaving"]
    /\ UNCHANGED <<holds, written, cut, callVars, stopVars, ioVars>>

Signal(p) ==
    /\ proc[p] \in {"leaving", "killed"}
    /\ proc' = [proc EXCEPT ![p] = IF @ = "killed" THEN "dead" ELSE "exited"]
    /\ UNCHANGED <<holds, written, cut, callVars, stopVars, ioVars>>

Setup   == \/ Validate \/ CreateJob \/ CreateEvent \/ ArmCallback \/ CreatePipes
           \/ CheckStop \/ Create \/ CloseParentEnds \/ StartReaders
Drain   == \/ Wait \/ ExitCode \/ Census \/ RetainMembers \/ TerminateJob
           \/ WaitMembers \/ Account \/ WaitRoot \/ JoinReaders
Unwind  == \/ AbortProcesses \/ AbortWait \/ AbortJoin
           \/ DropCallback \/ CloseEvent \/ CloseJob
Run     == Setup \/ Drain \/ Unwind
Read(s) == ReadChunk(s) \/ ReadEnd(s)
Kernel  == \/ \E p, c \in Procs : Spawn(p, c)
           \/ \E p \in Procs, s \in Streams : Write(p, s) \/ WriteNothing(p, s)
           \/ \E p \in Procs : Leave(p) \/ Signal(p)
Returned == pc = "done" /\ UNCHANGED vars

Next ==
    \/ Run \/ SetupFails \/ DrainFails
    \/ RequestStop \/ SignalCancellation
    \/ \E s \in Streams : Read(s) \/ ReadFails(s)
    \/ Kernel \/ Returned

\* The calling thread, its readers and the callback are threads of one program,
\* and the kernel finishes the processes that end.  The processes themselves
\* promise nothing: they may run, and hold their pipes, for ever.  No failure of
\* a call is ever counted on to make progress.
Fairness ==
    /\ WF_vars(Run) /\ WF_vars(SignalCancellation)
    /\ \A s \in Streams : WF_vars(Read(s))
    /\ \A p \in Procs : WF_vars(Signal(p))

Spec == Init /\ [][Next]_vars /\ Fairness

----------------------------------------------------------------------------
TypeOK ==
    /\ pc \in Labels /\ managed \in BOOLEAN /\ capture \in SUBSET Streams
    /\ stopped \in BOOLEAN /\ callback \in {"none", "armed", "running", "ran"}
    /\ event \in {"none", "unset", "set"} /\ cancelled \in BOOLEAN
    /\ before \in 0..Cardinality(Procs) /\ retained \in SUBSET Procs
    /\ writeEnds \in SUBSET capture
    /\ reader \in [Streams -> {"none", "running", "ended", "failed"}]
    /\ outcome \in {"none", "error", "threw", "cancelled", "exited"}
    /\ proc \in [Procs -> ProcState] /\ holds \in [Procs -> SUBSET capture]
    /\ written \in [Streams -> 0..MaxWrites] /\ pipe \in [Streams -> 0..Capacity]
    /\ captured \in [Streams -> 0..MaxWrites] /\ cut \in [Streams -> 0..Uncut]

Completed == outcome \in {"cancelled", "exited"}

(* A call that owns its tree leaves nothing of it running, however it      *)
(* ends; and one that returns a result, not an error, has seen the end of  *)
(* every process its job terminated, those created during the cleanup too. *)
NothingOutlives ==
    pc = "done" /\ managed =>
        /\ Live = {}
        /\ Completed => \A p \in Procs : proc[p] # "killed"

(* The result is the root's own exit or a cancellation somebody asked for: *)
(* an exit code is never taken from a root that still runs or was killed,  *)
(* and a launched call reports a cancellation only when its event was set. *)
OutcomeFaithful ==
    pc = "dropCallback" =>
        /\ outcome = "exited" => proc[Root] = "exited"
        /\ outcome = "cancelled" =>
              /\ stopped
              /\ proc[Root] # "absent" => event = "set" /\ proc[Root] \in {"exited", "dead"}

\* The chunks of a stream that a reader gets to see.
Readable(s) == IF cut[s] = Uncut THEN written[s] ELSE cut[s]

(* A call that returns a result, cancelled or not, returns everything its  *)
(* tree wrote to the streams it captured, as far as the first empty write  *)
(* of a stream: that one ends the reader, and what follows is lost.        *)
OutputComplete ==
    pc = "done" /\ Completed => \A s \in capture : captured[s] = Readable(s)

(* No path, the throwing ones included, leaves a reader thread behind to   *)
(* append to a result that is gone.                                        *)
NoReaderLeft ==
    pc \in {"dropCallback", "closeEvent", "closeJob", "done"} => ReadersDone

(* The stop callback never signals an event that has been closed.          *)
CallbackHasItsEvent == callback \in {"armed", "running"} => event # "none"

(* A call that owns its tree ends once its root has ended or a stop is     *)
(* requested, whatever the rest of the tree does with the pipes it holds.  *)
OwnedCallEnds == managed /\ (stopped \/ Signalled(Root)) ~> pc = "done"

=============================================================================
