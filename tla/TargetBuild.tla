---------------------------- MODULE TargetBuild ----------------------------
(***************************************************************************)
(* One executable target built again and again by                         *)
(* MsvcIncrementalTargetCoordinator::run_impl while somebody edits it:     *)
(* TargetCompileWave (inspection under the shared evidence table, execution*)
(* of the misses, barrier, conservative rebuild), the incremental compile  *)
(* coordinator with its cache entry, and the incremental link.             *)
(*                                                                         *)
(* A file's content and its last-write time are one number, its version:   *)
(* every edit is later than whatever is already on disk. An object keeps   *)
(* the versions its compiler read and the versions on disk when it was     *)
(* written, so "modified > anchor" is a comparison of versions.            *)
(***************************************************************************)
EXTENDS Integers, FiniteSets

CONSTANTS
    Sources,           \* translation units of the target
    Headers,           \* files they may include
    Flags,             \* compiler options that change the build signature
    Includes(_, _),    \* headers that version v of source s includes
    ShareAbove,        \* the table is used by targets of more sources than this
    MaxVersion,        \* bound: edits of one file
    Faults,            \* which of "crash", "save", "seal" may happen
    Stoppable          \* the caller passed a stoppable admission token

ASSUME TargetAssumption ==
    /\ IsFiniteSet(Sources) /\ Sources \cap Headers = {}
    /\ MaxVersion \in Nat \ {0}
    /\ \A s \in Sources, v \in 1 .. MaxVersion : Includes(s, v) \subseteq Headers

Files == Sources \cup Headers
None == [kind |-> "none"]

VARIABLES
    ver,       \* version of every source and header on disk
    flags,     \* options of the project
    obj,       \* object files
    cache,     \* compile-cache entries
    exe,       \* the linked target
    newer,     \* objects written after the target was
    linked,    \* a link-cache entry exists
    phase,     \* what the coordinator is doing
    force,     \* the wave rebuilds without looking at the cache
    status,    \* per source: todo, hit, miss, compiling, written, compiled, failed
    reading,   \* versions a source's compiler has read, until its entry is saved
    table,     \* evidence table: version observed and number of observers
    stop,      \* the admission token was stopped
    outcome,   \* how the last build ended
    quiet      \* nothing was edited since that build started

diskVars == <<ver, flags>>
artifactVars == <<obj, cache, exe, newer, linked>>
waveVars == <<phase, force, status, reading, table, stop>>
vars == <<diskVars, artifactVars, waveVars, outcome, quiet>>

NoTable == [h \in Headers |-> [seen |-> 0, count |-> 0]]

Init ==
    /\ ver = [f \in Files |-> 1]
    /\ flags \in Flags
    /\ obj = [s \in Sources |-> None]
    /\ cache = [s \in Sources |-> None]
    /\ exe = None /\ newer = {} /\ linked = FALSE
    /\ phase = "idle" /\ force = FALSE
    /\ status = [s \in Sources |-> "todo"]
    /\ reading = [s \in Sources |-> None]
    /\ table = NoTable /\ stop = FALSE
    /\ outcome = "none" /\ quiet = TRUE
-----------------------------------------------------------------------------
(* The freshness decision *)

Sharing == Cardinality(Sources) > ShareAbove /\ ~force

\* Mutant of Reusable: a file as old as the object counts as modified.
ReusableStrict(s, seen) ==
    /\ cache[s] # None
    /\ obj[s] # None
    /\ cache[s].flags = flags
    /\ ver[s] < obj[s].at[s]
    /\ \A h \in cache[s].deps : seen[h] < obj[s].at[h]

\* CompileCacheValidator::validate over the snapshots of one inspection, where
\* `seen` gives the version each dependency was observed at.
Reusable(s, seen) ==
    /\ cache[s] # None
    /\ obj[s] # None
    /\ cache[s].flags = flags
    /\ ver[s] <= obj[s].at[s]
    /\ \A h \in cache[s].deps : seen[h] <= obj[s].at[h]

\* FilesystemEvidenceTable::observe_dependency for every dependency of the entry:
\* the first observer probes the file, the later ones share its evidence.
Observe(deps) ==
    [h \in Headers |->
        IF h \notin deps THEN table[h]
        ELSE IF table[h].count = 0 THEN [seen |-> ver[h], count |-> 1]
        ELSE [table[h] EXCEPT !.count = @ + 1]]

\* revalidate_shared: every dependency somebody shared is as it was first seen.
Revalidated == \A h \in Headers : table[h].count > 1 => table[h].seen = ver[h]

\* What the compiler read to make an object, and whether an input changed before
\* it was written: such an object looks newer than what it missed.
Raced(o) == \E f \in DOMAIN o.read : o.read[f] # o.at[f]

Failed == \E s \in Sources : status[s] = "failed"
Active(states) == \E s \in Sources : status[s] \in states
-----------------------------------------------------------------------------
(* The user *)

Edit(f) ==
    /\ ver[f] < MaxVersion
    /\ ver' = [ver EXCEPT ![f] = @ + 1]
    /\ quiet' = FALSE
    /\ UNCHANGED <<flags, artifactVars, waveVars, outcome>>

Reconfigure ==
    /\ phase = "idle"
    /\ flags' \in Flags \ {flags}
    /\ quiet' = FALSE
    /\ UNCHANGED <<ver, artifactVars, waveVars, outcome>>

RequestStop ==
    /\ Stoppable
    /\ ~stop
    /\ phase \in {"inspect", "execute", "direct"}
    /\ stop' = TRUE
    /\ UNCHANGED <<diskVars, artifactVars, phase, force, status, reading, table,
                   outcome, quiet>>
-----------------------------------------------------------------------------
(* The coordinator *)

\* Small targets and forced ones inspect and compile in one callback per source;
\* the others inspect everything first, sharing dependency evidence.
StartWave(forced) ==
    /\ force' = forced
    /\ phase' = IF Cardinality(Sources) > ShareAbove /\ ~forced THEN "inspect" ELSE "direct"
    /\ status' = [s \in Sources |-> "todo"]
    /\ reading' = [s \in Sources |-> None]
    /\ table' = NoTable

StartBuild(forced) ==
    /\ phase = "idle"
    /\ StartWave(forced)
    /\ outcome' = "none"
    /\ quiet' = TRUE
    /\ UNCHANGED <<diskVars, artifactVars, stop>>

\* The build returns and its locals are gone.
End(result) ==
    /\ phase' = "idle"
    /\ outcome' = result
    /\ force' = FALSE
    /\ status' = [s \in Sources |-> "todo"]
    /\ reading' = [s \in Sources |-> None]
    /\ table' = NoTable
    /\ stop' = FALSE

\* Admission of a callback: neither a failure nor the token has closed it.
Admitting == ~Failed /\ ~stop

\* Mutant of Inspect: a unit that was inspected is inspected again.
InspectAgain(s) ==
    /\ phase \in {"inspect", "direct"}
    /\ status[s] \in {"todo", "hit"}
    /\ Admitting
    /\ LET deps == IF force \/ cache[s] = None THEN {} ELSE cache[s].deps
           observed == IF Sharing THEN Observe(deps) ELSE table
           seen == [h \in Headers |-> IF Sharing THEN observed[h].seen ELSE ver[h]]
       IN  /\ table' = observed
           /\ status' = [status EXCEPT ![s] =
                            IF ~force /\ Reusable(s, seen) THEN "hit" ELSE "miss"]
    /\ UNCHANGED <<diskVars, artifactVars, phase, force, reading, stop, outcome, quiet>>

\* inspect_impl for one source; a forced request does not open the cache.
Inspect(s) ==
    /\ phase \in {"inspect", "direct"}
    /\ status[s] = "todo"
    /\ Admitting
    /\ LET deps == IF force \/ cache[s] = None THEN {} ELSE cache[s].deps
           observed == IF Sharing THEN Observe(deps) ELSE table
           seen == [h \in Headers |-> IF Sharing THEN observed[h].seen ELSE ver[h]]
       IN  /\ table' = observed
           /\ status' = [status EXCEPT ![s] =
                            IF ~force /\ Reusable(s, seen) THEN "hit" ELSE "miss"]
    /\ UNCHANGED <<diskVars, artifactVars, phase, force, reading, stop, outcome, quiet>>

\* The inspection callback fails; no other source is inspected or compiled.
InspectFails(s) ==
    /\ phase \in {"inspect", "direct"}
    /\ status[s] = "todo"
    /\ Admitting
    /\ status' = [status EXCEPT ![s] = "failed"]
    /\ UNCHANGED <<diskVars, artifactVars, phase, force, reading, table, stop, outcome,
                   quiet>>

\* The inspection batch has drained.
EndInspection ==
    /\ phase = "inspect"
    /\ ~Active({"todo"}) \/ ~Admitting
    /\ IF Failed \/ stop
       THEN End("error") /\ UNCHANGED <<diskVars, artifactVars, quiet>>
       ELSE /\ phase' = "execute"
            /\ UNCHANGED <<diskVars, artifactVars, force, status, reading, table, stop,
                           outcome, quiet>>

\* The compiler starts and reads its inputs.
BeginCompile(s) ==
    /\ phase \in {"execute", "direct"}
    /\ status[s] = "miss"
    /\ phase = "execute" => Admitting
    /\ LET inputs == {s} \cup Includes(s, ver[s])
       IN  reading' = [reading EXCEPT ![s] =
                          [read |-> [f \in inputs |-> ver[f]], flags |-> flags]]
    /\ status' = [status EXCEPT ![s] = "compiling"]
    /\ UNCHANGED <<diskVars, artifactVars, phase, force, table, stop, outcome, quiet>>

Written(s) ==
    [read |-> reading[s].read, flags |-> reading[s].flags,
     at |-> [f \in {s} \cup Headers |-> ver[f]]]

\* The compiler replaces the object and exits with success.
WriteObject(s) ==
    /\ status[s] = "compiling"
    /\ obj' = [obj EXCEPT ![s] = Written(s)]
    /\ newer' = newer \cup {s}
    /\ status' = [status EXCEPT ![s] = "written"]
    /\ UNCHANGED <<diskVars, cache, exe, linked, phase, force, reading, table, stop,
                   outcome, quiet>>

\* The compiler fails, and keeps or removes the object it was to replace.
CompileFails(s) ==
    /\ status[s] = "compiling"
    /\ status' = [status EXCEPT ![s] = "failed"]
    /\ reading' = [reading EXCEPT ![s] = None]
    /\ obj' \in {obj, [obj EXCEPT ![s] = None]}
    /\ UNCHANGED <<diskVars, cache, exe, newer, linked, phase, force, table, stop,
                   outcome, quiet>>

\* The object exists and its sourceDependencies cannot be read: the action fails
\* and the entry of the previous object stays.
SealFails(s) ==
    /\ "seal" \in Faults
    /\ status[s] = "written"
    /\ status' = [status EXCEPT ![s] = "failed"]
    /\ reading' = [reading EXCEPT ![s] = None]
    /\ UNCHANGED <<diskVars, artifactVars, phase, force, table, stop, outcome, quiet>>

\* Mutant of SaveEntry: keeps the dependency list of the previous entry.
SaveEntryOldDeps(s) ==
    /\ status[s] = "written"
    /\ status' = [status EXCEPT ![s] = "compiled"]
    /\ reading' = [reading EXCEPT ![s] = None]
    /\ cache' = [cache EXCEPT ![s] =
                    [deps |-> IF cache[s] # None THEN cache[s].deps
                              ELSE DOMAIN reading[s].read \ {s},
                     flags |-> reading[s].flags]]
    /\ UNCHANGED <<diskVars, obj, exe, newer, linked, phase, force, table, stop, outcome,
                   quiet>>

\* CompileCacheFile::save after the compile. A failure is a warning only: before
\* the replacement it keeps the old entry, at the rename it leaves none.
SaveEntry(s) ==
    /\ status[s] = "written"
    /\ status' = [status EXCEPT ![s] = "compiled"]
    /\ reading' = [reading EXCEPT ![s] = None]
    /\ \/ cache' = [cache EXCEPT ![s] = [deps |-> DOMAIN reading[s].read \ {s},
                                         flags |-> reading[s].flags]]
       \/ "save" \in Faults /\ UNCHANGED cache
       \/ "save" \in Faults /\ cache' = [cache EXCEPT ![s] = None]
    /\ UNCHANGED <<diskVars, obj, exe, newer, linked, phase, force, table, stop, outcome,
                   quiet>>

\* The wave has drained: every admitted callback finished, and either all sources
\* were admitted or admission was closed.
WaveDrained ==
    /\ phase \in {"execute", "direct"}
    /\ ~Active({"compiling", "written"})
    /\ phase = "direct" => ~Active({"miss"})
    /\ ~Active({"todo", "miss"}) \/ ~Admitting

\* Mutant of EndWave: links what there is after a failed compile.
EndWaveAnyway ==
    /\ WaveDrained
    /\ phase' = "link"
    /\ UNCHANGED <<force, status, reading, table, stop, outcome>>
    /\ UNCHANGED <<diskVars, artifactVars, quiet>>

\* Mutant of EndWave: no barrier after the execution.
EndWaveNoBarrier ==
    /\ WaveDrained
    /\ IF Failed \/ stop
       THEN End("error")
       ELSE /\ phase' = "link"
            /\ UNCHANGED <<force, status, reading, table, stop, outcome>>
    /\ UNCHANGED <<diskVars, artifactVars, quiet>>

\* A compile failure or a stop ends the build without a link; a rejected evidence
\* window discards the results and rebuilds everything without sharing.
EndWave ==
    /\ WaveDrained
    /\ IF Failed \/ stop
       THEN End("error")
       ELSE IF Sharing /\ ~Revalidated
       THEN StartWave(TRUE) /\ UNCHANGED <<stop, outcome>>
       ELSE /\ phase' = "link"
            /\ UNCHANGED <<force, status, reading, table, stop, outcome>>
    /\ UNCHANGED <<diskVars, artifactVars, quiet>>

\* Mutant of LinkReusable: trusts its entry without looking at the objects' times.
LinkReusableByEntry ==
    /\ ~force
    /\ ~Active({"compiled"})
    /\ linked /\ exe # None

\* LinkCacheValidator: an entry, the output, and no object written after it. A
\* compile of this run forces the link.
LinkReusable ==
    /\ ~force
    /\ ~Active({"compiled"})
    /\ linked /\ exe # None /\ newer = {}

ReuseLink ==
    /\ phase = "link"
    /\ LinkReusable
    /\ End("ok")
    /\ UNCHANGED <<diskVars, artifactVars, quiet>>

\* Mutant of Link: the entry of a link whose target was not rewritten.
LinkKeepsOutput ==
    /\ phase = "link"
    /\ ~LinkReusable
    /\ exe' = IF exe = None THEN [objects |-> obj] ELSE exe
    /\ newer' = {}
    /\ linked' = TRUE
    /\ End("ok")
    /\ UNCHANGED <<diskVars, obj, cache, quiet>>

\* The linker writes the target from the objects on disk; the entry is saved, kept
\* or lost exactly as a compile entry is.
Link ==
    /\ phase = "link"
    /\ ~LinkReusable
    /\ exe' = [objects |-> obj]
    /\ newer' = {}
    /\ \/ linked' = TRUE
       \/ "save" \in Faults /\ UNCHANGED linked
       \/ "save" \in Faults /\ linked' = FALSE
    /\ End("ok")
    /\ UNCHANGED <<diskVars, obj, cache, quiet>>

\* The linker fails, and keeps or removes the target; or it succeeds and a side
\* output that was asked for is missing, which leaves the previous entry.
LinkFails ==
    /\ phase = "link"
    /\ ~LinkReusable
    /\ \/ exe' \in {exe, None} /\ UNCHANGED newer
       \/ exe' = [objects |-> obj] /\ newer' = {}
    /\ End("error")
    /\ UNCHANGED <<diskVars, obj, cache, linked, quiet>>

\* mqb is killed during a wave. Its tools belong to no job object: compilers
\* already running may still write their objects. An entry being replaced is lost
\* when the kill comes between the removal and the rename.
CrashInWave ==
    /\ "crash" \in Faults
    /\ phase \in {"inspect", "execute", "direct"}
    /\ \E finishing \in SUBSET {s \in Sources : status[s] = "compiling"} :
          /\ obj' = [s \in Sources |-> IF s \in finishing THEN Written(s) ELSE obj[s]]
          /\ newer' = newer \cup finishing
    /\ \E lost \in SUBSET {s \in Sources : status[s] = "written"} :
          cache' = [s \in Sources |-> IF s \in lost THEN None ELSE cache[s]]
    /\ End("error")
    /\ UNCHANGED <<diskVars, exe, linked, quiet>>

\* mqb is killed in the link stage: before the linker wrote the target, or after
\* it and with the link entry not replaced, or lost.
CrashInLink ==
    /\ "crash" \in Faults
    /\ phase = "link"
    /\ \/ UNCHANGED <<exe, newer, linked>>
       \/ /\ ~LinkReusable
          /\ exe' = [objects |-> obj]
          /\ newer' = {}
          /\ linked' \in {linked, FALSE}
    /\ End("error")
    /\ UNCHANGED <<diskVars, obj, cache, quiet>>

Next ==
    \/ \E f \in Files : Edit(f)
    \/ Reconfigure \/ RequestStop
    \/ \E forced \in BOOLEAN : StartBuild(forced)
    \/ \E s \in Sources :
          \/ Inspect(s) \/ InspectFails(s) \/ BeginCompile(s) \/ WriteObject(s)
          \/ CompileFails(s) \/ SealFails(s) \/ SaveEntry(s)
    \/ EndInspection \/ EndWave \/ ReuseLink \/ Link \/ LinkFails
    \/ CrashInWave \/ CrashInLink

Spec == Init /\ [][Next]_vars
-----------------------------------------------------------------------------
Phases == {"idle", "inspect", "execute", "direct", "link"}
States == {"todo", "hit", "miss", "compiling", "written", "compiled", "failed"}

\* The ranges of the variables that have a simple one.
TypeOK ==
    /\ ver \in [Files -> 1 .. MaxVersion]
    /\ flags \in Flags
    /\ newer \subseteq Sources
    /\ phase \in Phases
    /\ status \in [Sources -> States]
    /\ \A h \in Headers : table[h].count \in 0 .. Cardinality(Sources)
    /\ outcome \in {"none", "ok", "error"}
    /\ \A s \in Sources : obj[s] # None =>
          \A f \in DOMAIN obj[s].read : obj[s].read[f] <= obj[s].at[f]

\* What the object in the target was made from is what is on disk now.
Current(s) ==
    LET o == exe.objects[s]
    IN  /\ o.flags = flags
        /\ DOMAIN o.read = {s} \cup Includes(s, ver[s])
        /\ \A f \in DOMAIN o.read : o.read[f] = ver[f]

\* "Correctness over cache hit rate": when a build succeeds and nothing was edited
\* since it started, the target is made of the current sources, headers and
\* options, whatever earlier builds, failures and edits left behind. The one
\* exception is the code's timestamp model: an object an input of which changed
\* between its compiler's read and its write.
QuietBuildCurrent ==
    (phase = "idle" /\ outcome = "ok" /\ quiet) =>
        \A s \in Sources : Raced(exe.objects[s]) \/ Current(s)

\* The evidence window the barrier accepted: two translation units linked together
\* agree on every header whose observation was shared, even while it is edited.
AcceptedWindowConsistent ==
    (phase = "link" /\ Sharing) =>
        \A h \in Headers : table[h].count > 1 =>
            \A s, t \in Sources :
                (/\ h \in DOMAIN obj[s].read /\ ~Raced(obj[s])
                 /\ h \in DOMAIN obj[t].read /\ ~Raced(obj[t]))
                    => obj[s].read[h] = obj[t].read[h]

\* The warm path: after a quiet build whose entries were all saved, the next build
\* finds every translation unit and the link reusable.
WarmBuildReuses ==
    (/\ phase = "idle" /\ outcome = "ok" /\ quiet /\ linked
     /\ \A s \in Sources : cache[s] # None /\ cache[s].flags = obj[s].flags
                              /\ cache[s].deps = DOMAIN obj[s].read \ {s})
        => newer = {} /\ \A s \in Sources : Reusable(s, ver)

\* "Only successful completion can reach link": the link stage is entered with
\* every unit reused or compiled in this build, and not after a stop.
OnlyCompleteWavesLink ==
    [][phase # "link" /\ phase' = "link" =>
          ~stop /\ \A s \in Sources : status[s] \in {"hit", "compiled"}]_vars
=============================================================================
