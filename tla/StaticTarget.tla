---------------------------- MODULE StaticTarget ----------------------------
(***************************************************************************)
(* A static library with a precompiled header, built again and again:      *)
(* Application::build, MsvcIncrementalPchCoordinator, the compile wave of  *)
(* MsvcIncrementalStaticTargetCoordinator, the archive coordinator and the *)
(* way MsvcLibrarian installs what LIB writes.                             *)
(*                                                                         *)
(* Headers are found by name along the include roots; a path is a pair     *)
(* <<directory, name>>, directory 0 the project's own. A time is what the  *)
(* comparisons see of it: newer[o] holds what changed after output o was   *)
(* written.                                                                *)
(***************************************************************************)
EXTENDS Parameters

CONSTANTS
    Units,             \* the sources of the target
    ShareAbove,        \* more sources than this share one evidence table
    Roots,             \* include directories
    EnvRoots,          \* those of the INCLUDE variable, in order
    HeaderNames,       \* headers looked up by name
    QuotedNames,       \* those written "...": the project's directory comes first
    Includes(_),       \* names that a unit, or the precompiled header, includes
    TargetOptions,     \* records roots, cl, lib, machine: cl and lib are arguments
    StartPlaces,       \* which headers may exist at first: sets of paths
    EditedPaths,       \* headers the user creates, changes or removes
    StaticEdits,       \* bound: changes the user makes
    StaticRegimes      \* subset of {"edits", "faults"}

\* Outputs are named by their units, the header and the archive by themselves.
ASSUME UnitsAssumption == Units \cap {"pch", "lib"} = {}
ASSUME EditsAssumption == StaticEdits \in Nat
ASSUME RegimesAssumption == StaticRegimes \subseteq {"edits", "faults"}

PchHeader == <<0, "pch">>
HeaderPaths == ({0} \cup Roots) \X HeaderNames \cup {PchHeader}
ASSUME PathsAssumption == EditedPaths \subseteq HeaderPaths
ASSUME SearchAssumption ==
    /\ EnvRoots \in Seq(Roots)
    /\ \A o \in TargetOptions :
         o.roots \in Seq(Roots) /\ IncludeDirectories(o.cl) \in Seq(Roots)
    /\ \A x \in Units \cup {"pch"} : Includes(x) \subseteq HeaderNames
Nothing == [kind |-> "none"]
Outputs == {"pch", "lib"} \cup Units

VARIABLES
    regime,     \* edits of every kind, or faults of the build
    place,      \* content of each header, 0 when it is not there
    source,     \* content of each unit's source
    creator,    \* the synthetic source: absent, good, bad
    options,    \* options of the target
    pch,        \* the .pch and its object: what they were made from
    obj,        \* the object of each unit: what it was made from
    lib,        \* the archive: what it was made from
    newer,      \* for each output what changed after it was written
    pchEntry, entry, libEntry,  \* cache entries
    phase,      \* idle, wave, archive, sealing
    call,       \* the running call: units to do, forced, compiled, failed
    outcome, quiet, edits

userVars == <<regime, place, source, options, edits>>
pchVars == <<creator, pch, pchEntry>>
unitVars == <<obj, entry>>
libVars == <<lib, libEntry>>
callVars == <<phase, call, outcome>>
vars == <<userVars, pchVars, unitVars, libVars, newer, callVars, quiet>>

NoCall == [todo |-> {}, forced |-> FALSE, any |-> FALSE, failed |-> FALSE]
-----------------------------------------------------------------------------
(* Include search *)

\* include_search_roots: typed roots, those of native options, then the environment's.
SearchRoots == options.roots \o IncludeDirectories(options.cl)
                   \o (IF Has(options.cl, "X") THEN <<>> ELSE EnvRoots)

SearchOrder(n) == (IF n \in QuotedNames THEN <<0>> ELSE <<>>) \o SearchRoots
Hits(n) == {i \in DOMAIN SearchOrder(n) : place[<<SearchOrder(n)[i], n>>] # 0}
Resolved(names) ==
    {<<SearchOrder(n)[Min(Hits(n))], n>> : n \in {m \in names : Hits(m) # {}}}
Resolvable(names) == \A n \in names : Hits(n) # {}
ReadBy(names) == [p \in Resolved(names) |-> place[p]]

\* inspect_include_search_use: are there names that are looked up beside the file?
LooksBesideItself(names) == names \cap QuotedNames # {}

\* include_search_freshness_directories: where a file may appear that wins. The
\* project's own directory counts for quoted names only; a file that includes nothing
\* watches nothing.
Watched(names, files) ==
    IF names = {} /\ files = {} THEN {}
    ELSE ToSet(SearchRoots) \cup (IF LooksBesideItself(names) THEN {0} ELSE {})

\* Mutant of DependenciesOf: only what was included.
DependenciesResolved(names, own) == {<<"file", p>> : p \in Resolved(names) \cup own}

\* What cl reports and the watched directories; `own` is what a file is made of.
DependenciesOf(names, own) ==
    LET files == Resolved(names) \cup own
    IN  {<<"file", p>> : p \in files} \cup {<<"dir", d>> : d \in Watched(names, files)}

EntryFor(deps) == [deps |-> deps, roots |-> SearchRoots, cl |-> options.cl]

\* CompileCacheValidator with the ordered roots: the entry is for these options, and
\* output o is there and younger than its source and dependencies.
UpToDate(e, o, made, itsSource) ==
    /\ e # Nothing /\ made # Nothing
    /\ e.cl = options.cl /\ e.roots = SearchRoots
    /\ newer[o] \cap (e.deps \cup {itsSource}) = {}
    /\ \A d \in e.deps : d[1] = "file" => place[d[2]] # 0
-----------------------------------------------------------------------------
(* Writing *)

Changed(things) == newer' = [o \in Outputs |-> newer[o] \cup things]
Wrote(o, things) ==
    newer' = [x \in Outputs |-> IF x = o THEN {} ELSE newer[x] \cup things]

PchNames == Includes("pch")
PchNow(with) == [header |-> place[PchHeader], reads |-> ReadBy(PchNames),
                 creator |-> with, cl |-> options.cl]
PchDependencies == DependenciesOf(PchNames, {PchHeader})

UnitNow(u) == [source |-> source[u], reads |-> ReadBy(Includes(u)), pch |-> pch,
               cl |-> options.cl]

\* Mutant of UnitDependencies: the precompiled header is not a dependency.
UnitDependenciesOwn(u) == DependenciesOf(Includes(u), {})

UnitDependencies(u) == DependenciesOf(Includes(u), {}) \cup {<<"pch">>}

\* What a previous version of mqb left: its synthetic source had other content.
Upgraded ==
    /\ Resolvable(PchNames)
    /\ creator = "bad" /\ pch = PchNow("bad") /\ pchEntry = EntryFor(PchDependencies)

Init ==
    /\ regime \in StaticRegimes
    /\ \E there \in StartPlaces :
         place = [p \in HeaderPaths |-> IF p \in there \cup {PchHeader} THEN 1 ELSE 0]
    /\ source = [u \in Units |-> 1]
    /\ options \in TargetOptions
    /\ \/ creator = "absent" /\ pch = Nothing /\ pchEntry = Nothing
       \/ Upgraded
    /\ obj = [u \in Units |-> Nothing] /\ entry = [u \in Units |-> Nothing]
    /\ lib = Nothing /\ libEntry = Nothing
    /\ newer = [o \in Outputs |-> {}]
    /\ phase = "idle" /\ call = NoCall /\ outcome = "none"
    /\ quiet = TRUE /\ edits = 0
-----------------------------------------------------------------------------
(* The user *)

Changing == edits < StaticEdits /\ edits' = edits + 1 /\ quiet' = FALSE

PutHeader(p) ==
    /\ regime = "faults" => place[p] # 0
    /\ Changing
    /\ place' = [place EXCEPT ![p] = edits + 2]
    /\ Changed({<<"file", p>>} \cup (IF place[p] = 0 THEN {<<"dir", p[1]>>} ELSE {}))
    /\ UNCHANGED <<regime, source, options, pchVars, unitVars, libVars, callVars>>

RemoveHeader(p) ==
    /\ regime = "edits" /\ place[p] # 0
    /\ Changing
    /\ place' = [place EXCEPT ![p] = 0]
    /\ Changed({<<"dir", p[1]>>})
    /\ UNCHANGED <<regime, source, options, pchVars, unitVars, libVars, callVars>>

EditSource(u) ==
    /\ Changing
    /\ source' = [source EXCEPT ![u] = edits + 2]
    /\ Changed({<<"src", u>>})
    /\ UNCHANGED <<regime, place, options, pchVars, unitVars, libVars, callVars>>

Reconfigure ==
    /\ phase = "idle" /\ regime = "edits"
    /\ Changing
    /\ options' \in TargetOptions \ {options}
    /\ UNCHANGED <<regime, place, source, pchVars, unitVars, libVars, newer, callVars>>

\* Artifacts are deleted, or the synthetic source is damaged under its old time.
Tamper ==
    /\ phase = "idle" /\ regime = "edits"
    /\ Changing
    /\ \/ creator # "absent" /\ creator' = "absent" /\ UNCHANGED <<pch, obj, lib>>
       \/ creator = "good" /\ creator' = "bad" /\ UNCHANGED <<pch, obj, lib>>
       \/ pch # Nothing /\ pch' = Nothing /\ UNCHANGED <<creator, obj, lib>>
       \/ \E u \in Units : /\ obj[u] # Nothing /\ obj' = [obj EXCEPT ![u] = Nothing]
                           /\ UNCHANGED <<creator, pch, lib>>
       \/ lib # Nothing /\ lib' = Nothing /\ UNCHANGED <<creator, pch, obj>>
    /\ UNCHANGED <<regime, place, source, options, pchEntry, entry, libEntry, newer, callVars>>
-----------------------------------------------------------------------------
(* The precompiled header *)

End(result) == phase' = "idle" /\ call' = NoCall /\ outcome' = result
Kept(old) == {old, Nothing}

\* inspect_pch: up to date, and the synthetic source has the content it should have.
PchReusable == creator = "good" /\ UpToDate(pchEntry, "pch", pch, <<"creator">>)

HeaderMissing ==
    /\ phase = "idle" /\ place[PchHeader] = 0
    /\ End("error") /\ quiet' = TRUE
    /\ UNCHANGED <<userVars, pchVars, unitVars, libVars, newer>>

ReusePch ==
    /\ phase = "idle" /\ place[PchHeader] # 0
    /\ PchReusable
    /\ phase' = "wave" /\ outcome' = "none" /\ quiet' = TRUE
    /\ call' = [NoCall EXCEPT !.todo = Units]
    /\ UNCHANGED <<userVars, pchVars, unitVars, libVars, newer>>

\* The creator is written if needed and compiled; every consumer must follow.
CompilePch ==
    /\ phase = "idle" /\ place[PchHeader] # 0
    /\ ~PchReusable
    /\ Resolvable(PchNames)
    /\ creator' = "good" /\ pch' = PchNow("good")
    /\ Wrote("pch", {<<"pch">>} \cup (IF creator # "good" THEN {<<"creator">>} ELSE {}))
    /\ \/ pchEntry' = EntryFor(PchDependencies)
       \/ regime = "faults" /\ pchEntry' \in Kept(pchEntry)
    /\ phase' = "wave" /\ outcome' = "none" /\ quiet' = TRUE
    /\ call' = [NoCall EXCEPT !.todo = Units, !.forced = TRUE]
    /\ UNCHANGED <<userVars, unitVars, libVars>>

\* cl fails, or mqb is killed after cl: the old entry stays with the new header.
PchFails ==
    /\ phase = "idle" /\ place[PchHeader] # 0
    /\ ~PchReusable
    /\ creator' = "good"
    /\ \/ /\ pch' \in Kept(pch)
          /\ Changed(IF creator # "good" THEN {<<"creator">>} ELSE {})
       \/ /\ regime = "faults" /\ Resolvable(PchNames)
          /\ pch' = PchNow("good")
          /\ Wrote("pch", {<<"pch">>} \cup (IF creator # "good" THEN {<<"creator">>} ELSE {}))
    /\ End("error") /\ quiet' = TRUE
    /\ UNCHANGED <<userVars, pchEntry, unitVars, libVars>>
-----------------------------------------------------------------------------
(* The compile wave *)

UnitReusable(u) ==
    /\ ~call.forced
    /\ UpToDate(entry[u], u, obj[u], <<"src", u>>)
    /\ pch # Nothing

ReuseUnit(u) ==
    /\ phase = "wave" /\ u \in call.todo
    /\ UnitReusable(u)
    /\ call' = [call EXCEPT !.todo = @ \ {u}]
    /\ UNCHANGED <<userVars, pchVars, unitVars, libVars, newer, phase, outcome, quiet>>

\* The object and then its entry are written; a failed save is a warning.
CompileUnit(u) ==
    /\ phase = "wave" /\ u \in call.todo
    /\ ~UnitReusable(u)
    /\ pch # Nothing /\ Resolvable(Includes(u))
    /\ obj' = [obj EXCEPT ![u] = UnitNow(u)]
    /\ Wrote(u, {<<"obj", u>>})
    /\ \/ entry' = [entry EXCEPT ![u] = EntryFor(UnitDependencies(u))]
       \/ regime = "faults" /\ \E e \in Kept(entry[u]) : entry' = [entry EXCEPT ![u] = e]
    /\ call' = [call EXCEPT !.todo = @ \ {u}, !.any = TRUE]
    /\ UNCHANGED <<userVars, pchVars, libVars, phase, outcome, quiet>>

UnitFails(u) ==
    /\ phase = "wave" /\ u \in call.todo
    /\ ~UnitReusable(u)
    /\ obj' = [obj EXCEPT ![u] = Nothing]
    /\ call' = [call EXCEPT !.todo = @ \ {u}, !.failed = TRUE]
    /\ UNCHANGED <<userVars, pchVars, entry, libVars, newer, phase, outcome, quiet>>

\* Units that were not dispatched yet are abandoned.
WaveFails ==
    /\ phase = "wave" /\ call.failed
    /\ End("error")
    /\ UNCHANGED <<userVars, pchVars, unitVars, libVars, newer, quiet>>

\* Mutant of WaveDone: a failed unit does not end the build.
WaveDoneAnyway == phase = "wave" /\ call.todo = {}

WaveDone == phase = "wave" /\ call.todo = {} /\ ~call.failed

\* revalidate_shared rejects the table: everything is compiled again, unshared.
RetryWave ==
    /\ WaveDone
    /\ Cardinality(Units) > ShareAbove /\ ~call.forced /\ ~quiet
    /\ call' = [call EXCEPT !.todo = Units, !.forced = TRUE]
    /\ UNCHANGED <<userVars, pchVars, unitVars, libVars, newer, phase, outcome, quiet>>

EndWave ==
    /\ WaveDone
    /\ phase' = "archive"
    /\ UNCHANGED <<userVars, pchVars, unitVars, libVars, newer, call, outcome, quiet>>
-----------------------------------------------------------------------------
(* The archive *)

Recipe == [lib |-> Passthrough("librarian", options.lib), machine |-> options.machine,
           ltcg |-> Typed("librarian", options.lib, "ltcg", FALSE)]
ArchiveInputs == {<<"pch">>} \cup {<<"obj", u>> : u \in Units}

\* A precompiled header or an object that was just compiled forces it.
ForceArchive == call.forced \/ call.any

\* ArchiveCacheValidator::validate
ArchiveReusable ==
    /\ ~ForceArchive
    /\ libEntry # Nothing /\ lib # Nothing
    /\ libEntry = Recipe
    /\ pch # Nothing /\ \A u \in Units : obj[u] # Nothing
    /\ newer["lib"] \cap ArchiveInputs = {}

\* /MACHINE and the other librarian options must agree with the target.
Routable ==
    /\ RouteAccepted("librarian", options.lib)
    /\ Typed("librarian", options.lib, "machine", options.machine) = options.machine

ArchiveRejected ==
    /\ phase = "archive" /\ ~Routable
    /\ End("error")
    /\ UNCHANGED <<userVars, pchVars, unitVars, libVars, newer, quiet>>

ReuseArchive ==
    /\ phase = "archive" /\ Routable
    /\ ArchiveReusable
    /\ End("ok")
    /\ UNCHANGED <<userVars, pchVars, unitVars, libVars, newer, quiet>>

\* LIB writes a file of its own, which then takes the place of the archive.
Archive ==
    /\ phase = "archive" /\ Routable
    /\ ~ArchiveReusable
    /\ lib' = [pch |-> pch, members |-> obj, recipe |-> Recipe]
    /\ Wrote("lib", {})
    /\ phase' = "sealing"
    /\ UNCHANGED <<userVars, pchVars, unitVars, libEntry, call, outcome, quiet>>

\* LIB fails and the archive stays; or the old one is gone and the new one cannot be
\* put in its place.
ArchiveFails ==
    /\ phase = "archive" /\ Routable
    /\ ~ArchiveReusable
    /\ lib' \in Kept(lib)
    /\ End("error")
    /\ UNCHANGED <<userVars, pchVars, unitVars, libEntry, newer, quiet>>

SaveArchiveEntry ==
    /\ phase = "sealing"
    /\ libEntry' = lib.recipe
    /\ End("ok")
    /\ UNCHANGED <<userVars, pchVars, unitVars, lib, newer, quiet>>

SaveArchiveEntryFails ==
    /\ phase = "sealing" /\ regime = "faults"
    /\ libEntry' \in Kept(libEntry)
    /\ End("ok")
    /\ UNCHANGED <<userVars, pchVars, unitVars, lib, newer, quiet>>

\* mqb is killed.
Crash ==
    /\ phase # "idle" /\ regime = "faults"
    /\ libEntry' \in (IF phase = "sealing" THEN Kept(libEntry) ELSE {libEntry})
    /\ End("error")
    /\ UNCHANGED <<userVars, pchVars, unitVars, lib, newer, quiet>>

Next ==
    \/ \E p \in EditedPaths : PutHeader(p) \/ RemoveHeader(p)
    \/ \E u \in Units : EditSource(u) \/ ReuseUnit(u) \/ CompileUnit(u) \/ UnitFails(u)
    \/ Reconfigure \/ Tamper
    \/ HeaderMissing \/ ReusePch \/ CompilePch \/ PchFails
    \/ WaveFails \/ RetryWave \/ EndWave
    \/ ArchiveRejected \/ ReuseArchive \/ Archive \/ ArchiveFails
    \/ SaveArchiveEntry \/ SaveArchiveEntryFails \/ Crash

Spec == Init /\ [][Next]_vars
-----------------------------------------------------------------------------
Tracked == {<<"file", p>> : p \in HeaderPaths} \cup {<<"dir", d>> : d \in {0} \cup Roots}
               \cup {<<"src", u>> : u \in Units} \cup {<<"creator">>} \cup ArchiveInputs

\* Types; a running wave leaves no unit both done and to be done, and only a finished
\* wave is archived.
TypeOK ==
    /\ regime \in StaticRegimes /\ options \in TargetOptions
    /\ place \in [HeaderPaths -> 0 .. StaticEdits + 1]
    /\ source \in [Units -> 1 .. StaticEdits + 1]
    /\ creator \in {"absent", "good", "bad"}
    /\ newer \in [Outputs -> SUBSET Tracked]
    /\ phase \in {"idle", "wave", "archive", "sealing"}
    /\ outcome \in {"none", "ok", "error"}
    /\ call.todo \subseteq Units
    /\ phase \in {"archive", "sealing"} => (call.todo = {} /\ ~call.failed)
    /\ phase = "idle" => call = NoCall
    /\ phase = "sealing" => lib # Nothing

\* An undisturbed successful call leaves an archive of the current sources, compiled
\* with the current options against the current precompiled header, whichever header
\* appeared in front of another on the search path, whatever was deleted or damaged,
\* whatever an older mqb, a failure or a kill left. A compile is one instant here: an edit
\* between a compiler's read and the write of its object is TargetBuild's Raced.
QuietArchiveCurrent ==
    (phase = "idle" /\ outcome = "ok" /\ quiet) =>
        /\ lib # Nothing /\ lib.recipe = Recipe
        /\ lib.pch = PchNow("good")
        /\ \A u \in Units : lib.members[u] =
             [source |-> source[u], reads |-> ReadBy(Includes(u)), pch |-> lib.pch,
              cl |-> options.cl]

\* The objects of a library were all compiled against the one precompiled header whose
\* object is archived with them, also when files change while the library is built.
OnePch ==
    (phase = "sealing" \/ (phase = "idle" /\ outcome = "ok" /\ lib # Nothing)) =>
        \A u \in Units : lib.members[u].pch = lib.pch
=============================================================================
