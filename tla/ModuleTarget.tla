--------------------------- MODULE ModuleTarget ---------------------------
(***************************************************************************)
(* A named-module target built again and again while its sources, and with *)
(* them what they import, change (orchestration/modules, the graph of      *)
(* modules/ModuleDependencyGraph.cpp, and the evidence a compile seals).   *)
(* A build scans every source or trusts the scan a compile has sealed,     *)
(* orders the units by what the scans say, compiles them level by level,   *)
(* and links.  A header unit is compiled like the others but never         *)
(* scanned.                                                                *)
(*                                                                         *)
(* A file is the time it was written and what the properties need of its   *)
(* content.  The clock ticks when a source, an object or an image is       *)
(* written.  A scanner and a compiler run for an interval: they read the   *)
(* source when they start and write what they make of it when they end,    *)
(* and an edit in between leaves it older than what they write.            *)
(***************************************************************************)
EXTENDS Naturals, FiniteSets

CONSTANTS Units,      \* the translation units and header units
          Headers,    \* the header units among them
          Choices,    \* the sets of units each unit may import
          MaxEdits,   \* bound on the edits
          MaxBuilds   \* bound on the builds

ASSUME UnitsAssumption ==
    /\ IsFiniteSet(Units) /\ Headers \in SUBSET Units
    /\ Choices \in [Units -> SUBSET SUBSET Units]
    /\ \A u \in Units : Choices[u] # {} /\ \A c \in Choices[u] : u \notin c
    /\ \A h \in Headers : Choices[h] = {{}}
    /\ MaxEdits \in Nat /\ MaxBuilds \in Nat

VARIABLES
    clock, edits, builds,
    src,       \* the source of each unit: [time, imports]
    reads,     \* what a scanner or compiler of it has read: None or [time, imports]
    scanFile,  \* its P1689 file: None or [time, imports, raced]
    out,       \* its object and IFC: None or [time, src, imports, used, raced]
    entry,     \* its compile cache entry: None or [refs, scan]
    exe,       \* the linked image: None or [time, objs]
    pc, failing, quiet, faulted,
    scanned, topo,     \* the scans of this build and what they say
    status, compiled   \* the units of its compile waves

\* "raced" is a ghost: the source was edited after it had been read for this file
\* and before the file was written.
diskVars  == <<src, scanFile, out, entry, exe>>
waveVars  == <<status, compiled>>
scanVars  == <<scanned, topo>>
boundVars == <<edits, builds>>
vars == <<clock, boundVars, diskVars, pc, failing, quiet, faulted, reads, scanVars, waveVars>>

\* No such file, or nothing in it.
None == [kind |-> "none"]

\* Mutant: header units are scanned and linked like sources.
EveryUnit == Units

\* What the request names; a header unit is neither scanned nor linked.
Sources == Units \ Headers

Init ==
    /\ clock = 1 /\ edits = 0 /\ builds = 0
    /\ src \in {s \in [Units -> [time : {1}, imports : SUBSET Units]] :
                   \A u \in Units : s[u].imports \in Choices[u]}
    /\ scanFile = [u \in Units |-> None] /\ out = [u \in Units |-> None]
    /\ entry = [u \in Units |-> None] /\ exe = None
    /\ pc = "idle" /\ failing = FALSE /\ quiet = FALSE /\ faulted = FALSE
    /\ reads = [u \in Units |-> None]
    /\ scanned = {} /\ topo = [u \in Units |-> {}]
    /\ status = [u \in Units |-> "wait"] /\ compiled = {}

----------------------------------------------------------------------------
(* The graph: levels, and the references a unit is compiled with *)

\* The nodes the first n levels take, of the graph g.
TakenBy(g) ==
    LET taken[n \in 0..Cardinality(Units)] ==
            IF n = 0 THEN {} ELSE taken[n - 1] \cup {u \in Units : g[u] \subseteq taken[n - 1]}
    IN  taken
Cyclic(g) == TakenBy(g)[Cardinality(Units)] # Units

Level(u) == CHOOSE n \in 1..Cardinality(Units) :
                u \in TakenBy(topo)[n] /\ u \notin TakenBy(topo)[n - 1]

\* Mutant: only what the unit itself imports.
DirectReferences == topo

\* build_module_compile_plan: each level adds the references of its providers.
References ==
    LET merged[n \in 0..Cardinality(Units)] ==
            IF n = 0 THEN topo
            ELSE [u \in Units |-> IF Level(u) = n
                                  THEN topo[u] \cup UNION {merged[n - 1][p] : p \in topo[u]}
                                  ELSE merged[n - 1][u]]
    IN  merged[Cardinality(Units)]

\* A header unit is part of the target when some scan requires it.
Planned == {u \in Units : u \notin Headers \/ \E v \in Units : u \in topo[v]}

----------------------------------------------------------------------------
(* Scans *)

\* What a process that ends, or starts, knows of the build.
Forget ==
    /\ failing' = FALSE /\ faulted' = FALSE /\ scanned' = {}
    /\ reads' = [u \in Units |-> None]
    /\ topo' = [u \in Units |-> {}] /\ compiled' = {}
    /\ status' = [u \in Units |-> "wait"]

StartBuild ==
    /\ pc \in {"idle", "ok", "failed"} /\ builds < MaxBuilds
    /\ builds' = builds + 1 /\ pc' = "scan"
    /\ quiet' = TRUE /\ Forget
    /\ UNCHANGED <<clock, edits, diskVars>>

EvidenceHolds(u) ==
    /\ entry[u] # None /\ entry[u].scan # None /\ scanFile[u] # None
    /\ entry[u].scan = [src |-> src[u].time, out |-> scanFile[u].time]

ReuseScan(u) ==
    /\ pc = "scan" /\ ~failing /\ u \in Sources \ scanned /\ EvidenceHolds(u)
    /\ scanned' = scanned \cup {u}
    /\ topo' = [topo EXCEPT ![u] = scanFile[u].imports]
    /\ UNCHANGED <<clock, boundVars, diskVars, pc, failing, quiet, faulted, reads, waveVars>>

\* The scanner removes the old file before it runs.
StartScan(u) ==
    /\ pc = "scan" /\ ~failing /\ u \in Sources \ scanned /\ reads[u] = None
    /\ ~EvidenceHolds(u)
    /\ scanFile' = [scanFile EXCEPT ![u] = None]
    /\ reads' = [reads EXCEPT ![u] = src[u]]
    /\ UNCHANGED <<clock, boundVars, src, out, entry, exe, pc, failing, quiet, faulted, scanVars,
                   waveVars>>

\* An edit since the source was read.
Raced(u) == src[u].time # reads[u].time

FinishScan(u) ==
    /\ pc = "scan" /\ u \in Sources \ scanned /\ reads[u] # None
    /\ scanFile' = [scanFile EXCEPT ![u] =
                      [time |-> clock, imports |-> reads[u].imports, raced |-> Raced(u)]]
    /\ topo' = [topo EXCEPT ![u] = reads[u].imports]
    /\ scanned' = scanned \cup {u} /\ reads' = [reads EXCEPT ![u] = None]
    /\ UNCHANGED <<clock, boundVars, src, out, entry, exe, pc, failing, quiet, faulted, waveVars>>

ScanFails(u) ==
    /\ pc = "scan" /\ u \in Sources \ scanned /\ reads[u] # None
    /\ failing' = TRUE /\ faulted' = TRUE
    /\ reads' = [reads EXCEPT ![u] = None]
    /\ UNCHANGED <<clock, boundVars, diskVars, pc, quiet, scanVars, waveVars>>

BuildGraph ==
    /\ pc = "scan" /\ ~failing /\ scanned = Sources
    /\ pc' = IF Cyclic(topo) THEN "failed" ELSE "compile"
    /\ UNCHANGED <<clock, boundVars, diskVars, failing, quiet, faulted, reads, scanVars, waveVars>>

----------------------------------------------------------------------------
(* Compile waves *)

\* provider_work_planned
Forced(u) == topo[u] \cap compiled # {}

\* Mutant: the IFCs are not dependencies.
ReusableBySource(u) ==
    /\ entry[u] # None /\ out[u] # None
    /\ entry[u].refs = References[u] /\ src[u].time <= out[u].time

\* CompileCacheValidator: the signature holds the references, the dependencies
\* hold their IFCs.
Reusable(u) ==
    /\ entry[u] # None /\ out[u] # None
    /\ entry[u].refs = References[u]
    /\ src[u].time <= out[u].time
    /\ \A p \in entry[u].refs : out[p] # None /\ out[p].time <= out[u].time

Inspect(u) ==
    /\ pc = "compile" /\ ~failing /\ u \in Planned /\ status[u] = "wait"
    /\ \A v \in Planned : Level(v) < Level(u) => status[v] = "done"
    /\ status' = [status EXCEPT ![u] = IF ~Forced(u) /\ Reusable(u) THEN "done" ELSE "build"]
    /\ UNCHANGED <<clock, boundVars, diskVars, pc, failing, quiet, faulted, reads, scanVars, compiled>>

StartCompile(u) ==
    /\ pc = "compile" /\ status[u] = "build"
    /\ status' = [status EXCEPT ![u] = "reading"]
    /\ reads' = [reads EXCEPT ![u] = src[u]]
    /\ UNCHANGED <<clock, boundVars, diskVars, pc, failing, quiet, faulted, scanVars, compiled>>

\* What the compiler reads: the imports of the source, and those of their IFCs,
\* which nothing writes while units of their level or of a higher one compile.
Needed(u) ==
    LET read[n \in 0..Cardinality(Units)] ==
            IF n = 0 THEN reads[u].imports
            ELSE read[n - 1] \cup UNION {out[p].imports : p \in {q \in read[n - 1] : out[q] # None}}
    IN  read[Cardinality(Units)]

Accepted(u) == \A p \in Needed(u) : p \in References[u] /\ out[p] # None

Compile(u) ==
    /\ pc = "compile" /\ status[u] = "reading" /\ Accepted(u)
    /\ clock' = clock + 1 /\ compiled' = compiled \cup {u}
    /\ status' = [status EXCEPT ![u] = "written"]
    /\ reads' = [reads EXCEPT ![u] = None]
    /\ out' = [out EXCEPT ![u] =
                 [time |-> clock + 1, src |-> reads[u].time, imports |-> reads[u].imports,
                  used |-> [p \in Needed(u) |-> out[p].time], raced |-> Raced(u)]]
    /\ UNCHANGED <<boundVars, src, scanFile, entry, exe, pc, failing, quiet, faulted, scanVars>>

\* The compiler rejects the unit, or fails for a reason of its own; it may leave
\* the previous outputs or none.
CompileFails(u) ==
    /\ pc = "compile" /\ status[u] = "reading"
    /\ failing' = TRUE /\ faulted' = (faulted \/ Accepted(u))
    /\ status' = [status EXCEPT ![u] = "failed"]
    /\ reads' = [reads EXCEPT ![u] = None]
    /\ \E left \in {None, out[u]} : out' = [out EXCEPT ![u] = left]
    /\ UNCHANGED <<clock, boundVars, src, scanFile, entry, exe, pc, quiet, scanVars, compiled>>

\* Mutant: an edit after the scan is not noticed.
ScanEvidenceBlind(u) ==
    IF u \in Headers \/ scanFile[u] = None THEN None
    ELSE [src |-> src[u].time, out |-> scanFile[u].time]

\* seal_module_scan_evidence: nothing may be newer than the scan.
ScanEvidence(u) ==
    IF u \in Headers \/ scanFile[u] = None THEN None
    ELSE IF src[u].time > scanFile[u].time THEN None
    ELSE [src |-> src[u].time, out |-> scanFile[u].time]

Seal(u) ==
    /\ pc = "compile" /\ status[u] = "written"
    /\ status' = [status EXCEPT ![u] = "done"]
    /\ \/ /\ entry' = [entry EXCEPT ![u] = [refs |-> References[u], scan |-> ScanEvidence(u)]]
          /\ UNCHANGED faulted
       \* a save that fails is a warning; it may have removed the previous entry
       \/ /\ \E left \in {None, entry[u]} : entry' = [entry EXCEPT ![u] = left]
          /\ faulted' = TRUE
    /\ UNCHANGED <<clock, boundVars, src, scanFile, out, exe, pc, failing, quiet, reads, scanVars,
                   compiled>>

InFlight == {u \in Units : reads[u] # None \/ status[u] \in {"build", "reading", "written"}}

FinishWaves ==
    /\ pc = "compile" /\ ~failing /\ \A u \in Planned : status[u] = "done"
    /\ pc' = "link"
    /\ UNCHANGED <<clock, boundVars, diskVars, failing, quiet, faulted, reads, scanVars, waveVars>>

\* The scheduler has returned: nothing is in flight.
Abandon ==
    /\ failing /\ pc \in {"scan", "compile"} /\ InFlight = {}
    /\ pc' = "failed"
    /\ UNCHANGED <<clock, boundVars, diskVars, failing, quiet, faulted, reads, scanVars, waveVars>>

----------------------------------------------------------------------------
(* The link *)

LinkReusable ==
    compiled = {} /\ exe # None /\ \A u \in Sources : out[u].time <= exe.time

ReuseLink ==
    /\ pc = "link" /\ LinkReusable
    /\ pc' = "ok"
    /\ UNCHANGED <<clock, boundVars, diskVars, failing, quiet, faulted, reads, scanVars, waveVars>>

Link ==
    /\ pc = "link" /\ ~LinkReusable
    /\ pc' = "ok" /\ clock' = clock + 1
    /\ exe' = [time |-> clock + 1, objs |-> [u \in Sources |-> out[u].time]]
    /\ UNCHANGED <<boundVars, src, scanFile, out, entry, failing, quiet, faulted, reads, scanVars, waveVars>>

LinkFails ==
    /\ pc = "link" /\ pc' = "failed" /\ faulted' = TRUE /\ exe' \in {None, exe}
    /\ UNCHANGED <<clock, boundVars, src, scanFile, out, entry, failing, quiet, reads, scanVars, waveVars>>

----------------------------------------------------------------------------
(* Around a build *)

Edit(u) ==
    /\ edits < MaxEdits /\ edits' = edits + 1 /\ clock' = clock + 1 /\ quiet' = FALSE
    /\ \E c \in Choices[u] : src' = [src EXCEPT ![u] = [time |-> clock + 1, imports |-> c]]
    /\ UNCHANGED <<builds, scanFile, out, entry, exe, pc, failing, faulted, reads, scanVars, waveVars>>

Kill ==
    /\ pc \in {"scan", "compile", "link"} /\ pc' = "idle" /\ Forget
    /\ UNCHANGED <<clock, boundVars, diskVars, quiet>>

Next ==
    \/ StartBuild \/ BuildGraph \/ FinishWaves \/ Abandon
    \/ ReuseLink \/ Link \/ LinkFails \/ Kill
    \/ \E u \in Units : \/ ReuseScan(u) \/ StartScan(u) \/ FinishScan(u) \/ ScanFails(u)
                        \/ Inspect(u) \/ StartCompile(u) \/ Compile(u) \/ CompileFails(u)
                        \/ Seal(u) \/ Edit(u)

Spec == Init /\ [][Next]_vars

----------------------------------------------------------------------------
TypeOK ==
    /\ clock \in Nat /\ edits \in 0..MaxEdits /\ builds \in 0..MaxBuilds
    /\ \A u \in Units :
          /\ src[u].time \in 1..clock /\ src[u].imports \in Choices[u]
          /\ reads[u] # None => reads[u].time \in 1..clock /\ reads[u].imports \in Choices[u]
          /\ scanFile[u] # None => /\ scanFile[u].time \in 1..clock
                                   /\ scanFile[u].imports \in Choices[u]
          /\ out[u] # None => /\ out[u].time \in 1..clock /\ out[u].src \in 1..clock
                              /\ DOMAIN out[u].used \subseteq Units
          /\ entry[u] # None => entry[u].refs \in SUBSET Units
    /\ \A h \in Headers : scanFile[h] = None
    /\ exe # None => exe.time \in 1..clock
    /\ pc \in {"idle", "scan", "compile", "link", "ok", "failed"}
    /\ failing \in BOOLEAN /\ quiet \in BOOLEAN /\ faulted \in BOOLEAN
    /\ scanned \in SUBSET Sources /\ topo \in [Units -> SUBSET Units]
    /\ status \in [Units -> {"wait", "build", "reading", "written", "done", "failed"}]
    /\ compiled \in SUBSET Units

\* An object made from the present source and the present IFCs.
Current(u) ==
    /\ out[u] # None /\ out[u].src = src[u].time
    /\ \A p \in DOMAIN out[u].used : out[p] # None /\ out[u].used[p] = out[p].time

\* A file on disk that an edit overtook while the scanner or the compiler ran: it is
\* newer than an edit it has not seen, and neither check can tell.
Overtaken(u) ==
    \/ scanFile[u] # None /\ scanFile[u].raced
    \/ out[u] # None /\ out[u].raced

\* Nothing a unit is compiled with, nor what it is, was overtaken.
Sound(u) == \A v \in References[u] \cup {u} : ~Overtaken(v)

(* A build that no edit disturbed links objects that are current through   *)
(* every import, whatever failures, kills and edits the builds before it   *)
(* met: a provider compiled by a build that died is seen by its consumers. *)
(* The one exception is a unit that was itself overtaken, or that is       *)
(* compiled with one that was: an edit while cl.exe read the source leaves *)
(* an object newer than the edit.                                          *)
ModulesCurrent ==
    pc = "ok" /\ quiet =>
        /\ \A u \in Planned : Sound(u) => Current(u)
        /\ exe # None /\ exe.objs = [u \in Sources |-> out[u].time]

(* A scan that is reused says what the source says now: evidence is never  *)
(* sealed for a topology that an edit between the scan and the end of the  *)
(* compile has overtaken.  An edit while the scanner itself ran is older   *)
(* than the file it left and is excluded.                                  *)
ScanTruthful ==
    \A u \in Sources : EvidenceHolds(u) /\ ~scanFile[u].raced =>
        scanFile[u].imports = src[u].imports

(* A build that no edit and no failure disturbed fails only for a cycle in *)
(* the sources, when no file it found was overtaken: what earlier builds   *)
(* left never makes good sources fail, as a stale level or a missing       *)
(* reference would.                                                        *)
GoodSourcesBuild ==
    pc = "failed" /\ quiet /\ ~faulted /\ (\A u \in Units : ~Overtaken(u)) =>
        Cyclic([u \in Units |-> src[u].imports])

(* After a build that no edit disturbed every scan can be reused           *)
(* (README_EN.md, COMPILATION_DATABASE_EN.md).                             *)
SuccessfulBuildSeals ==
    pc = "ok" /\ quiet /\ ~faulted => \A u \in Sources : EvidenceHolds(u)
=============================================================================
