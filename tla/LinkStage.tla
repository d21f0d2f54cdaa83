----------------------------- MODULE LinkStage -----------------------------
(***************************************************************************)
(* The incremental link of one image, again and again, while libraries,    *)
(* objects and options change: MsvcIncrementalLinkCoordinator with the     *)
(* library resolver, the default-library policy, the cache validator, the  *)
(* cache file and the way MsvcLinker runs LINK.                            *)
(*                                                                         *)
(* Libraries are found by name along the search directories 1, 2, ...; a   *)
(* path is a pair <<directory, name>>. Times are kept as what comparisons  *)
(* see of them: the inputs modified after the image was written and the    *)
(* directories modified after the cache file was.                          *)
(***************************************************************************)
EXTENDS Parameters

CONSTANTS
    LibOrder,          \* names looked up along the search path, in request order
    LastDir,           \* search directories are 1 .. LastDir
    EnvDir,            \* the first of them that comes from the LIB variable
    Explicit,          \* files named by their path, as pairs <<0, name>>
    OptionSets,        \* records debug, runtime, dll, requested, cl and args
    ModernTools,       \* the tools use the unified sanitizer runtimes
    Directives(_),     \* libraries that revision r of the object asks for by itself
    Placements,        \* which files may exist at first: sets of paths
    Editable,          \* paths the user creates, replaces or removes
    LinkEdits,         \* bound: changes the user makes
    LinkRegimes        \* subset of {"edits", "faults", "unsaved"}

LibNames == ToSet(LibOrder)
Dirs == 1 .. LastDir
Tool == <<0, "link.exe">>
Object == <<0, "object">>
Paths == (Dirs \X LibNames) \cup Explicit

\* The sanitizer runtimes that options o bring.
Sanitized(o) ==
    SanitizerLibraries(o.cl, o.args, o.debug, o.runtime, ModernTools, o.dll)

\* Every name is looked up by one order, and a file named by its path is neither LINK nor
\* the object.
ASSUME LibrariesAssumption ==
    /\ LibOrder \in Seq(LibNames) /\ IsInjective(LibOrder)
    /\ LastDir \in Nat /\ EnvDir \in Nat \ {0}
    /\ \A p \in Explicit : p[1] = 0 /\ p \notin {Tool, Object}
    /\ \A r \in 1 .. LinkEdits + 1 : Directives(r) \subseteq LibNames
    /\ Placements \subseteq SUBSET Paths /\ Editable \subseteq Paths /\ LinkEdits \in Nat

\* Options name libraries that are followed; the file that /BASE:@ names is no library.
ASSUME OptionsAssumption == \A o \in OptionSets :
    /\ FileInputPaths(o.args) \in Seq(Explicit)
    /\ o.requested \cup WholeArchives(o.args) \cup Sanitized(o) \cup DefaultLibraries(o.args)
          \cup OpenMpCandidates(o.cl, o.args) \subseteq LibNames
    /\ \A f \in BaseFiles(o.args) :
          \/ f \in Explicit
          \/ /\ f[1] # 0 /\ f[2] \in LibNames
             /\ f[2] \notin o.requested \cup WholeArchives(o.args) \cup Sanitized(o)
                   \cup DefaultLibraries(o.args) \cup OpenMpCandidates(o.cl, o.args)
                   \cup UNION {Directives(r) : r \in 1 .. LinkEdits + 1}

NoImage == [kind |-> "none"]
NoEntry == [kind |-> "none"]
NoPlan == [kind |-> "none"]
NotRead == [kind |-> "none"]

VARIABLES
    regime,    \* what may happen: user edits of every kind, or faults of the build
    place,     \* content of the library file at each path, 0 when there is none
    object,    \* revision of the object file
    tool,      \* revision of link.exe
    options,   \* link options of the request
    image,     \* the output, with what LINK read to make it
    newer,     \* inputs modified after the image was written
    moved,     \* directories modified after the cache file was saved
    entry,     \* link-cache entry
    sides,     \* side outputs on disk
    plan,      \* result of the inspection, and what LINK has read since
    phase,     \* idle, inspected, linked
    outcome,   \* how the last call ended
    quiet,     \* nothing changed since that call started
    edits      \* changes made so far

worldVars == <<place, object, tool, options, edits>>
diskVars == <<image, newer, sides>>
sealVars == <<entry, moved>>
callVars == <<plan, phase, outcome>>
vars == <<regime, worldVars, diskVars, sealVars, callVars, quiet>>

-----------------------------------------------------------------------------
(* Libraries *)

\* The members of s that are in S, in the order of s.
Kept(s, S) ==
    LET kept[i \in 0 .. Len(s)] ==
          IF i = 0 THEN <<>>
          ELSE IF s[i] \in S THEN Append(kept[i - 1], s[i]) ELSE kept[i - 1]
    IN  kept[Len(s)]

Found(n) == \E d \in Dirs : place[<<d, n>>] # 0
FirstIn(dirs, n) == <<Min({d \in dirs : place[<<d, n>>] # 0}), n>>
Find(n) == FirstIn(Dirs, n)

\* The paths of those of these names that are found, in request order.
Route(names) ==
    LET found == Kept(LibOrder, {n \in names : Found(n)})
    IN  [i \in DOMAIN found |-> Find(found[i])]

\* Mutant of AppendUnique: paths are appended again.
AppendAll(s, t) == s \o t

\* append_unique_path, one by one.
AppendUnique(s, t) ==
    LET seen[i \in 0 .. Len(t)] ==
          IF i = 0 THEN s
          ELSE IF t[i] \in ToSet(seen[i - 1]) THEN seen[i - 1] ELSE Append(seen[i - 1], t[i])
    IN  seen[Len(t)]

Sanitizers == Sanitized(options)

\* Names that must be found before LINK may run, and names that are followed if found.
Needed == options.requested \cup WholeArchives(options.args) \cup Sanitizers
Followed == DefaultLibraries(options.args) \cup OpenMpCandidates(options.cl, options.args)

\* Names that only LINK knows of: directives in the object.
Directed == {n \in Directives(object) : AllowsImplicit(options.args, n)}

\* A bare name after /BASE:@, here <<1, name>>, is looked up along LIB alone.
EnvDirs == EnvDir .. LastDir
BaseFound(f) == IF f[1] = 0 THEN place[f] # 0 ELSE \E d \in EnvDirs : place[<<d, f[2]>>] # 0
BaseInputs == {IF f[1] = 0 THEN f ELSE FirstIn(EnvDirs, f[2]) : f \in BaseFiles(options.args)}

Libraries == Route(options.requested)
Declared ==
    AppendUnique(<<>>,
        FileInputPaths(options.args) \o <<Tool>> \o SetToSeq(BaseInputs)
            \o Route(DefaultLibraries(options.args)) \o Route(WholeArchives(options.args))
            \o Route(Sanitizers) \o Route(OpenMpCandidates(options.cl, options.args)))

\* Mutant of Refreshed: a remembered library stays where it was found.
RefreshedKept(p) == p

\* refresh_observed for one remembered library: looked up again by its name when a
\* search directory changed after the entry was sealed.
Refreshed(p) == IF moved # {} /\ Found(p[2]) THEN Find(p[2]) ELSE p

\* Remembered libraries that the declarations do not account for, looked up again.
Remembered ==
    LET known == ToSet(Declared) \cup ToSet(Libraries)
        kept == Kept(entry.files, (Dirs \X LibNames) \ known)
    IN  [i \in DOMAIN kept |-> Refreshed(kept[i])]

\* Mutant of FileInputs: what LINK found by itself is forgotten.
FileInputsDeclared == Declared

FileInputs == IF entry = NoEntry THEN Declared ELSE AppendUnique(Declared, Remembered)

\* Missing inputs, and inputs modified after the image, are not fresh.
Fresh(p) == p \notin newer /\ (p = Tool \/ place[p] # 0)

\* deserialize: format 3 has no file inputs, format 2 no side outputs either.
Loaded(e, format) ==
    CASE format = 4 -> e
      [] format = 3 -> [e EXCEPT !.files = <<>>]
      [] format = 2 -> [e EXCEPT !.files = <<>>, !.sides = {}]

\* The image and the entry that an older mqb left: the image may be behind any library
\* that was not tracked.
Legacy(format) ==
    LET names == Needed \cup Directed \cup DefaultLibraries(options.args)
    IN  /\ \A n \in names : Found(n)
        /\ \A f \in BaseFiles(options.args) : BaseFound(f)
        /\ image = [read |-> [p \in {Find(n) : n \in names} |-> 0], object |-> 1, tool |-> 1,
                    options |-> options, raced |-> FALSE]
        /\ entry = Loaded([libraries |-> Libraries, files |-> Declared, sides |-> {"pdb"},
                           options |-> options, tool |-> 1, late |-> FALSE], format)

Init ==
    /\ regime \in LinkRegimes
    /\ \E there \in Placements : place = [p \in Paths |-> IF p \in there THEN 1 ELSE 0]
    /\ object = 1 /\ tool = 1
    /\ options \in OptionSets
    /\ \/ image = NoImage /\ entry = NoEntry
       \/ \E format \in 2 .. 3 : Legacy(format)
    /\ newer = {} /\ sides = {} /\ moved = {}
    /\ plan = NoPlan /\ phase = "idle" /\ outcome = "none"
    /\ quiet = TRUE /\ edits = 0
-----------------------------------------------------------------------------
(* The validator *)

SameIdentity == entry.options = options /\ entry.tool = tool

LibrariesChanged ==
    IF entry = NoEntry THEN image # NoImage /\ Libraries # <<>>
    ELSE entry.libraries # Libraries \/ \E p \in ToSet(Libraries) : ~Fresh(p)

FilesChanged ==
    IF entry = NoEntry THEN image # NoImage
    ELSE entry.files # FileInputs \/ \E p \in ToSet(FileInputs) : ~Fresh(p)

\* Side outputs that LINK may write without being asked.
Optional == (IF ProgramDatabase(options.debug, options.args) THEN {"pdb"} ELSE {})
                \cup (IF ExternalManifest(options.args) THEN {"manifest"} ELSE {})
Required == IF MapRequested(options.args) THEN {"map"} ELSE {}

\* LinkCacheValidator::validate and the two side-output rules of inspect_link: what is
\* requested, and what exists, must be sealed in the entry.
LinkReusable ==
    /\ entry # NoEntry /\ image # NoImage
    /\ SameIdentity
    /\ ~LibrariesChanged /\ ~FilesChanged
    /\ Object \notin newer
    /\ entry.sides \subseteq sides
    /\ Required \cup (sides \cap Optional) \subseteq entry.sides

\* build_arguments: LINK updates the previous image in place only for a debug
\* configuration without a map, and never after a library or file input changed.
FullLink ==
    \/ LibrariesChanged \/ FilesChanged
    \/ OrderForcesFullLink(options.args) \/ AddressSanitizer(options.cl)
    \/ MapRequested(options.args)
    \/ ~options.debug
    \/ Typed("linker", options.args, "ltcg", FALSE)
-----------------------------------------------------------------------------
(* The user *)

Changing == edits < LinkEdits /\ edits' = edits + 1 /\ quiet' = FALSE
During(moves) ==
    CASE phase = "inspected" -> [plan EXCEPT !.raced = TRUE]
      [] phase = "linked" /\ moves -> [plan EXCEPT !.late = TRUE]
      [] OTHER -> plan

\* Search directories that adding or removing this file changes.
Directory(p) == IF p[1] = 0 THEN {} ELSE {p[1]}

\* A file is created or replaced; only the creation changes its directory.
PutFile(p) ==
    /\ place[p] = 0 => regime # "faults"
    /\ Changing
    /\ place' = [place EXCEPT ![p] = edits + 2]
    /\ newer' = newer \cup {p}
    /\ moved' = IF place[p] = 0 THEN moved \cup Directory(p) ELSE moved
    /\ plan' = During(place[p] = 0 /\ p[1] # 0)
    /\ UNCHANGED <<regime, object, tool, options, image, sides, entry, phase, outcome>>

RemoveFile(p) ==
    /\ place[p] # 0 /\ regime # "faults"
    /\ Changing
    /\ place' = [place EXCEPT ![p] = 0]
    /\ newer' = newer \ {p}
    /\ moved' = moved \cup Directory(p)
    /\ plan' = During(p[1] # 0)
    /\ UNCHANGED <<regime, object, tool, options, image, sides, entry, phase, outcome>>

\* The object was compiled again, and may ask for other libraries.
Recompile ==
    /\ phase = "idle" /\ regime # "faults"
    /\ Changing
    /\ object' = object + 1
    /\ newer' = newer \cup {Object}
    /\ UNCHANGED <<regime, place, tool, options, image, sides, sealVars, callVars>>

\* Visual Studio replaces link.exe under the same path.
ReplaceTool ==
    /\ phase = "idle" /\ regime # "faults"
    /\ Changing
    /\ tool' = tool + 1
    /\ newer' = newer \cup {Tool}
    /\ UNCHANGED <<regime, place, object, options, image, sides, sealVars, callVars>>

Reconfigure ==
    /\ phase = "idle" /\ regime # "faults"
    /\ Changing
    /\ options' \in OptionSets \ {options}
    /\ UNCHANGED <<regime, place, object, tool, diskVars, sealVars, callVars>>

\* The entry is lost or damaged: load reports nothing, or a warning.
DamageEntry ==
    /\ phase = "idle" /\ entry # NoEntry
    /\ Changing
    /\ entry' = NoEntry
    /\ UNCHANGED <<regime, place, object, tool, options, diskVars, moved, callVars>>

\* Somebody deletes the image or a side output.
DeleteOutput ==
    /\ phase = "idle"
    /\ Changing
    /\ \/ image # NoImage /\ image' = NoImage /\ UNCHANGED sides
       \/ \E f \in sides : sides' = sides \ {f} /\ UNCHANGED image
    /\ UNCHANGED <<regime, place, object, tool, options, newer, sealVars, callVars>>
-----------------------------------------------------------------------------
(* The coordinator *)

Ended(result) == phase' = "idle" /\ plan' = NoPlan /\ outcome' = result

\* The option and library parts of inspect_link that can fail.
Inspectable ==
    /\ RouteAccepted("linker", options.args)
    /\ FileInputsValid(options.args) /\ ManifestInputsValid(options.args)
    /\ \A f \in BaseFiles(options.args) : f[1] # 0 => BaseFound(f)
    /\ \A n \in Needed : Found(n)

\* The call fails before anything is written.
ResolveFails ==
    /\ phase = "idle"
    /\ ~Inspectable
    /\ Ended("error") /\ quiet' = TRUE
    /\ UNCHANGED <<regime, worldVars, diskVars, sealVars>>

ReuseImage ==
    /\ phase = "idle"
    /\ Inspectable
    /\ LinkReusable
    /\ Ended("ok") /\ quiet' = TRUE
    /\ UNCHANGED <<regime, worldVars, diskVars, sealVars>>

\* inspect_link ends with an invocation: the paths of the requested libraries, the
\* declared file inputs and whether LINK must start from nothing.
Inspect ==
    /\ phase = "idle"
    /\ Inspectable
    /\ ~LinkReusable
    /\ plan' = [libraries |-> Libraries, declared |-> Declared, full |-> FullLink,
                seen |-> NotRead, entry |-> NoEntry, raced |-> FALSE, late |-> FALSE]
    /\ phase' = "inspected" /\ outcome' = "none" /\ quiet' = TRUE
    /\ UNCHANGED <<regime, worldVars, diskVars, sealVars>>

\* What LINK reads: requested libraries by the given paths, the others by name, and
\* the files that options name.
ByName == WholeArchives(options.args) \cup Sanitizers \cup DefaultLibraries(options.args)
              \cup Directed \cup {n \in OpenMpCandidates(options.cl, options.args) : Found(n)}
Named == ToSet(FileInputPaths(options.args)) \cup BaseInputs
Inputs == ToSet(plan.libraries) \cup {Find(n) : n \in ByName} \cup Named
Linkable == /\ \A n \in ByName : Found(n)
            /\ \A f \in BaseFiles(options.args) : BaseFound(f)
            /\ \A p \in ToSet(plan.libraries) \cup Named : place[p] # 0

\* What LINK reads of them now, and the libraries it finds by itself.
Seen == [files |-> [p \in Inputs |-> place[p]],
         named |-> Route({n \in ByName : Find(n) \notin ToSet(plan.libraries)})]

\* LINK has started: it finds and reads its inputs.
ReadInputs ==
    /\ phase = "inspected" /\ plan.seen = NotRead
    /\ Linkable
    /\ plan' = [plan EXCEPT !.seen = Seen]
    /\ UNCHANGED <<regime, worldVars, diskVars, sealVars, phase, outcome, quiet>>

\* An incremental LINK keeps what it had of the libraries of the previous image.
Incremental == ~plan.full /\ image # NoImage
Read == [p \in DOMAIN plan.seen.files |-> IF Incremental /\ p \in DOMAIN image.read
                                         THEN image.read[p] ELSE plan.seen.files[p]]

\* What LINK has read or found is no longer what it would read or find: the change is
\* older than the image it is about to finish.
Torn == ~Linkable \/ plan.seen # Seen

Written == [read |-> Read, object |-> object, tool |-> tool, options |-> options,
            raced |-> \/ Incremental /\ (plan.raced \/ image.raced)
                      \/ plan.raced /\ \E f \in BaseFiles(options.args) : f[1] # 0
                      \/ Torn]

\* The declared inputs and the libraries /VERBOSE:LIB named that were not passed and
\* are there.
Sealed == AppendUnique(plan.declared, Kept(plan.seen.named, {p \in Paths : place[p] # 0}))

\* LINK writes the image, what it was asked for and some of what it may write; a DLL
\* comes with an import library.
RunLink ==
    /\ phase = "inspected" /\ plan.seen # NotRead
    /\ image' = Written
    /\ newer' = {}
    /\ \E more \in SUBSET (Optional \cup (IF options.dll THEN {"implib"} ELSE {})) :
         sides' = sides \cup Required \cup more
    /\ phase' = "linked"
    /\ plan' = [plan EXCEPT !.entry =
                   [libraries |-> plan.libraries, files |-> Sealed, options |-> options,
                    tool |-> tool, late |-> FALSE,
                    sides |-> sides' \cap (Required \cup Optional \cup
                                  (IF options.dll THEN {"implib"} ELSE {}))]]
    /\ UNCHANGED <<regime, worldVars, sealVars, outcome, quiet>>

\* LINK fails, and keeps or removes the image; or it succeeds without the map it
\* was asked for, which fails the call and keeps the previous entry.
LinkFails ==
    /\ phase = "inspected"
    /\ \/ image' \in {image, NoImage} /\ UNCHANGED <<newer, sides>>
       \/ /\ Required # {} /\ plan.seen # NotRead /\ regime # "edits"
          /\ image' = Written /\ newer' = {} /\ sides' = sides \ Required
    /\ Ended("error")
    /\ UNCHANGED <<regime, worldVars, sealVars, quiet>>

\* LinkCacheFile::save: a new file takes the place of the old one.
Save ==
    /\ phase = "linked"
    /\ entry' = [plan.entry EXCEPT !.late = plan.late]
    /\ moved' = {}
    /\ Ended("ok")
    /\ UNCHANGED <<regime, worldVars, diskVars, quiet>>

\* The save fails, which is a warning: the old entry stays, or is already removed.
SaveFails ==
    /\ phase = "linked" /\ regime # "edits"
    /\ entry' \in {entry, NoEntry}
    /\ Ended("ok")
    /\ UNCHANGED <<regime, worldVars, diskVars, moved, quiet>>

\* mqb is killed after the inspection, or between LINK and the end of the save.
Crash ==
    /\ phase # "idle" /\ regime # "edits"
    /\ entry' \in IF phase = "linked" THEN {entry, NoEntry} ELSE {entry}
    /\ Ended("error")
    /\ UNCHANGED <<regime, worldVars, diskVars, moved, quiet>>

Next ==
    \/ \E p \in Editable : PutFile(p) \/ RemoveFile(p)
    \/ Recompile \/ ReplaceTool \/ Reconfigure \/ DeleteOutput \/ DamageEntry
    \/ ResolveFails \/ ReuseImage \/ Inspect \/ ReadInputs \/ RunLink \/ LinkFails
    \/ Save \/ SaveFails \/ Crash

Spec == Init /\ [][Next]_vars
-----------------------------------------------------------------------------
TypeOK ==
    /\ regime \in LinkRegimes
    /\ place \in [Paths -> 0 .. LinkEdits + 1]
    /\ object \in 1 .. LinkEdits + 1 /\ tool \in 1 .. LinkEdits + 1
    /\ options \in OptionSets
    /\ newer \subseteq Paths \cup {Tool, Object} /\ moved \subseteq Dirs
    /\ sides \subseteq {"map", "pdb", "manifest", "implib"}
    /\ phase \in {"idle", "inspected", "linked"}
    /\ outcome \in {"none", "ok", "error"}
    /\ (phase = "idle") = (plan = NoPlan)
    /\ plan # NoPlan /\ plan.seen # NotRead => /\ DOMAIN plan.seen.files \subseteq Paths
                                             /\ ToSet(plan.seen.named) \subseteq Paths
    /\ image # NoImage => DOMAIN image.read \subseteq Paths
    /\ entry # NoEntry => /\ ToSet(entry.libraries) \subseteq Paths
                          /\ ToSet(entry.files) \subseteq Paths \cup {Tool}
                          /\ IsInjective(entry.files)

\* The files LINK would read now.
Current == {Find(n) : n \in options.requested \cup ByName} \cup Named

\* Everything the image was made from is what LINK would find now, as it is now, and
\* object, options and linker are the current ones.
ImageCurrent ==
    /\ image # NoImage
    /\ image.object = object /\ image.tool = tool /\ image.options = options
    /\ \A n \in options.requested \cup ByName : Found(n)
    /\ DOMAIN image.read = Current
    /\ \A p \in Current : image.read[p] = place[p]

\* A successful call during which nothing changed leaves an image of the current
\* object, options, linker and libraries, with its map: whichever libraries appeared
\* earlier or later on the search path, were edited or removed, and whatever
\* earlier calls left. Excluded: an incremental LINK, or one told its base by a file it
\* searches for, whose inputs change between inspection and LINK; a LINK whose inputs
\* change while it runs, as the change is older than the image and what is sealed then
\* passes for fresh; and a directory that changes between LINK and its seal.
QuietLinkCurrent ==
    (phase = "idle" /\ outcome = "ok" /\ quiet) =>
        \/ image.raced
        \/ entry # NoEntry /\ entry.late
        \/ ImageCurrent /\ Required \subseteq sides

\* After a quiet call whose entry was saved the next call has nothing to do.
WarmLinkReuses ==
    (phase = "idle" /\ outcome = "ok" /\ quiet /\ regime = "edits" /\ ~entry.late)
        => LinkReusable
=============================================================================
