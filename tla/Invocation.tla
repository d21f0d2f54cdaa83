------------------------------ MODULE Invocation ------------------------------
(***************************************************************************)
(* One mqb invocation after another in a project that changes: `mqb build`, *)
(* `run`, a bare list of sources, `plan` and `compdb`, each from its words *)
(* to the point where it hands its target to a coordinator or refuses it.  *)
(*                                                                         *)
(* Two caches outlive an invocation: the answer of source discovery and    *)
(* the environment of Visual Studio. `plan` reads and writes neither. The  *)
(* coordinators themselves are modelled elsewhere; here they succeed or    *)
(* fail. Invocations start in the project's directory.                     *)
(***************************************************************************)
EXTENDS Configuration, SourceDiscovery, Toolchain

CONSTANTS
    Regimes,          \* independent worlds to look at: what they start from and may become
    DisksOf(_), ConfigsOf(_), SystemsOf(_),
    RequestsOf(_),    \* [verb, words]: what may be asked
    EditsOf(_),       \* <<path, text>>: what a file may become, or Absent
    ChangesOf(_, _),  \* systems an installer or the user may turn a system into
    Conventional,     \* entries that are looked for when none is named
    ReleaseOf(_),     \* "before", "after" or "unknown": versions of the tools before 14.50
    IsC(_)            \* is a path a C translation unit

VARIABLES
    regime,           \* never changes
    disk, config,     \* the project: texts of its files, and mqb.json
    system,           \* what is installed, and the shell
    record, cached,   \* the two caches
    planned,          \* the request and the verdict of a plan since which nothing changed
    call              \* the invocation that runs

vars == <<regime, disk, config, system, record, cached, planned, call>>

Idle == [phase |-> "idle", exit |-> 0]
NoPlan == [kind |-> "none"]
-----------------------------------------------------------------------------
(* Words: main.cpp and the wrappers of `plan` and `compdb` *)

Leading(words) ==
    LET cut == {i \in DOMAIN words : words[i].opt \in DOMAIN Separators}
    IN  IF cut = {} THEN words ELSE SubSeq(words, 1, (CHOOSE i \in cut : \A j \in cut : i <= j) - 1)
Trailing(words) == SubSeq(words, Len(Leading(words)) + 1, Len(words))

\* The one option a wrapper keeps for itself.
Kept(verb) == CASE verb = "plan" -> "--format" [] verb = "compdb" -> "--output" [] OTHER -> "none"
KeptWords(verb, words) == SelectSeq(Leading(words), LAMBDA t : t.opt = Kept(verb))
WrapperAccepted(verb, words) ==
    LET own == KeptWords(verb, words)
    IN  /\ Len(own) <= 1
        /\ \A i \in DOMAIN own :
             IF verb = "plan" THEN own[i].value \in {"text", "json"} ELSE own[i].value # NoValue

Command(word) == [opt |-> "source", name |-> NoValue, value |-> word]
Forwarded(verb, words) ==
    CASE verb = "direct" -> words
      [] verb \in {"build", "run"} -> <<Command(verb)>> \o words
      [] verb \in {"plan", "compdb"} ->
           <<Command("build")>> \o SelectSeq(Leading(words), LAMBDA t : t.opt # Kept(verb))
           \o Trailing(words)
-----------------------------------------------------------------------------
(* Sources and setup: resolve_invocation, prepare_project, resolve_default_entry *)

Located(based) == based[2]
SourceNamed(p) == SourceCorrection(disk, p)
SourcesResolve(sources) ==
    /\ \A i \in DOMAIN sources : SourceNamed(sources[i])
    /\ \A i, j \in DOMAIN sources : sources[i] = sources[j] => i = j

ConfiguredEntry ==
    IF config = NoConfig THEN {}
    ELSE UNION {Member(b, "entry") : b \in Member(config, "build")}
\* The configured entry, or the only conventional one.
EntryCandidates ==
    IF ConfiguredEntry # {} THEN {Content(e) : e \in ConfiguredEntry}
    ELSE {p \in Conventional : Exists(disk, p)}
DefaultEntry ==
    LET found == EntryCandidates
    IN  IF Cardinality(found) = 1 /\ \A p \in found : SourceNamed(p)
        THEN found ELSE {}

\* Discovery runs for one source that is not a module interface.
DiscoveryWanted(options, sources) ==
    options.typed["discover"] /\ Len(sources) = 1 /\ KindOf(sources[1]) # "interface"

ForcedOf(options) ==
    LET names == ForcedIncludes(options.lists["compiler"])
        header == options.typed["pch"]
    IN  [i \in DOMAIN names |-> <<"name", names[i]>>]
        \o (IF header = NoHeader THEN <<>> ELSE <<<<"path", Located(header)>>>>)
LocatedAll(items) == [i \in DOMAIN items |-> Located(items[i])]

DiscoveryRequest(layers, options, entry) ==
    Request(entry, LocatedAll(DiscoveryIncludes(layers)), ForcedOf(options),
            LocatedAll(options.lists["exclude_dirs"]), LocatedAll(options.lists["extra_sources"]),
            LocatedAll(options.lists["exclude_sources"]))
-----------------------------------------------------------------------------
(* Verdicts: what an invocation refuses before it hands over *)

\* inspect: /DEBUG:FASTLINK is gone from 14.50; a version nobody can read rejects it, and /await.
Incapable(tool, argument, version) ==
    \/ tool = "linker" /\ argument.name = "DEBUG:FASTLINK" /\ ReleaseOf(version) # "before"
    \/ tool = "compiler" /\ argument.name = "await" /\ ReleaseOf(version) = "unknown"
Capable(tool, c) ==
    \A i \in DOMAIN c.options.lists[tool] :
        ~Incapable(tool, c.options.lists[tool][i], c.toolchain.version)

ModuleTarget(c) ==
    c.options.providers # <<>> \/ c.modules \/ \E p \in c.sources : KindOf(p) = "interface"
HeaderWanted(c) == c.options.typed["pch"] # NoHeader
HeaderRefused(c) == HeaderWanted(c) /\ (ModuleTarget(c) \/ \E p \in c.sources : IsC(p))
Static(c) == c.options.typed["kind"] = "static"
LinkPolicy(c) ==
    \/ SubsystemChosen(c.layers)
    \/ \E key \in {"library_dirs", "libraries", "linker"} : c.options.lists[key] # <<>>
Librarian(c) == c.options.lists["librarian"] # <<>>

Refused == [exit |-> 2]
Pipeline(c) ==
    [exit |-> 0, sources |-> c.sources, version |-> c.toolchain.version,
     pipeline |-> IF ModuleTarget(c) THEN "modules" ELSE IF Static(c) THEN "static" ELSE "ordinary"]

\* Application::build: before the precompiled header is compiled, and after.
BuildRefusedEarly(c) == (\E tool \in Tools : ~Capable(tool, c)) \/ HeaderRefused(c)
BuildRefusedLate(c) == IF Static(c) THEN ModuleTarget(c) \/ LinkPolicy(c) ELSE Librarian(c)

\* prepare_build_introspection, for both `plan` and `compdb`.
IntrospectionRefused(c) == ~Capable("compiler", c) \/ HeaderRefused(c)

\* Mutant of PlanRefused: a static library of modules is planned.
PlanRefusedUnlinked(c) ==
    IF Static(c) THEN LinkPolicy(c) \/ ~Capable("librarian", c)
    ELSE Librarian(c) \/ ~Capable("linker", c)
\* run_plan_command and run_module_plan.
PlanRefused(c) ==
    IF Static(c) THEN LinkPolicy(c) \/ ~Capable("librarian", c) \/ ModuleTarget(c)
    ELSE Librarian(c) \/ ~Capable("linker", c)

\* run_compdb_command: what only the link would refuse is not looked at.
CompdbRefused(c) == Static(c) /\ ModuleTarget(c)
-----------------------------------------------------------------------------
Init ==
    /\ regime \in Regimes
    /\ disk \in DisksOf(regime) /\ config \in ConfigsOf(regime) /\ system \in SystemsOf(regime)
    /\ record = NoRecord /\ cached = NoCached /\ planned = NoPlan /\ call = Idle

World == <<regime, disk, config, system>>
Caches == <<record, cached>>

Leave(exit) == call' = [Idle EXCEPT !.exit = exit]
Go(phase, fields) == call' = [k \in {"phase"} |-> phase] @@ fields @@ call
Judge(verdict) ==
    /\ Go("judged", [verdict |-> verdict])
    /\ planned' = IF call.verb = "plan" /\ call.calm
                  THEN [kind |-> "plan", words |-> call.words, verdict |-> verdict] ELSE planned
Stop(exit) == Judge([exit |-> exit])
Persistent == call.verb # "plan"
\* A failure that may be gone the next time: no plan is held against it.
StopForNow(exit) == Go("judged", [verdict |-> [exit |-> exit]]) /\ planned' = NoPlan

\* parse_arguments, resolve_invocation and prepare_project read everything at once.
Refuse(request, parsed) ==
    /\ \/ ~WrapperAccepted(request.verb, request.words)
       \/ ~parsed.ok
       \/ /\ ~parsed.help
          /\ \/ ~SourcesResolve(parsed.sources)
             \/ ~SetupAccepted(parsed, config)
             \/ SetupAccepted(parsed, config) /\ parsed.sources = <<>> /\ DefaultEntry = {}
    /\ Leave(2)

Help(request, parsed) ==
    WrapperAccepted(request.verb, request.words) /\ parsed.ok /\ parsed.help /\ Leave(0)

Prepare(request, parsed) ==
    /\ WrapperAccepted(request.verb, request.words) /\ parsed.ok /\ ~parsed.help
    /\ SourcesResolve(parsed.sources)
    /\ SetupAccepted(parsed, config)
    /\ parsed.sources = <<>> => DefaultEntry # {}
    /\ LET layers == LayersOf(parsed, config)
           options == Resolve(layers)
           sources == IF parsed.sources # <<>> THEN parsed.sources
                      ELSE <<CHOOSE p \in DefaultEntry : TRUE>>
           common == [verb |-> request.verb, words |-> request.words, parsed |-> parsed,
                      layers |-> layers, options |-> options, calm |-> TRUE]
       IN  call' = IF DiscoveryWanted(options, sources)
                   THEN common @@ [phase |-> "discover",
                                   request |-> DiscoveryRequest(layers, options, sources[1])]
                   ELSE common @@ [phase |-> "tools", sources |-> ToSet(sources),
                                   modules |-> FALSE]

Ask(request) ==
    LET parsed == ParseArguments(Forwarded(request.verb, request.words))
    IN  /\ call.phase = "idle"
        /\ Refuse(request, parsed) \/ Help(request, parsed) \/ Prepare(request, parsed)
        \* A plan is remembered for the build of the same words.
        /\ planned' = IF planned # NoPlan /\ planned.words = request.words
                         /\ request.verb = "build"
                      THEN planned ELSE NoPlan
        /\ UNCHANGED <<World, Caches>>
-----------------------------------------------------------------------------
(* Source discovery *)

AnswerReused == Persistent /\ RecordReusable(record, call.request)

RefuseRequest ==
    /\ call.phase = "discover"
    /\ \/ ~RequestValid(disk, call.request)
       \/ RequestValid(disk, call.request) /\ ~AnswerReused /\ ~ExtrasValid(disk, call.request)
    /\ Stop(2)
    /\ UNCHANGED <<World, Caches>>

ReuseAnswer ==
    /\ call.phase = "discover"
    /\ RequestValid(disk, call.request) /\ AnswerReused
    /\ Go("tools", record.answer)
    /\ UNCHANGED <<World, Caches, planned>>

StartIndex ==
    /\ call.phase = "discover"
    /\ RequestValid(disk, call.request) /\ ~AnswerReused /\ ExtrasValid(disk, call.request)
    /\ Go("index", [idx |-> NewIndex(call.request)])
    /\ UNCHANGED <<World, Caches, planned>>

Indexing(next) ==
    Go("index", [idx |-> next]) /\ UNCHANGED <<World, Caches, planned>>
NextIsFile == call.idx.left # <<>> /\ Head(call.idx.left).file

ListDirectory ==
    /\ call.phase = "index" /\ call.idx.left # <<>> /\ ~NextIsFile
    /\ Indexing(IndexDirectory(call.idx))
OpenFile ==
    /\ call.phase = "index" /\ NextIsFile /\ ~call.idx.opened
    /\ \E next \in SnapshotFile(call.idx, disk) : Indexing(next)
ReadSource ==
    call.phase = "index" /\ NextIsFile /\ call.idx.opened /\ Indexing(ReadFile(call.idx, disk))
\* Another program holds the file: it is indexed as if it were empty, and not cached.
SourceBusy ==
    LET p == Head(call.idx.left).path
    IN  /\ call.phase = "index" /\ NextIsFile /\ call.idx.opened
        /\ EditsOf(regime) # {} /\ Exists(disk, p)
        /\ call' = [call EXCEPT !.calm = FALSE,
                                !.idx = ReadFile(@, [disk EXCEPT ![p] = Absent])]
        /\ planned' = NoPlan
        /\ UNCHANGED <<World, Caches>>
\* The root of the walk cannot be opened, or an extra source not read.
DiscoveryFails ==
    /\ EditsOf(regime) # {}
    /\ \/ /\ call.phase = "discover" /\ call.request.extras # {}
          /\ RequestValid(disk, call.request) /\ ~AnswerReused
       \/ call.phase = "index" /\ call.idx.evidence = {}
    /\ StopForNow(2)
    /\ UNCHANGED <<World, Caches>>
\* A directory below it cannot be opened, or not be read to its end.
WalkEnds ==
    /\ call.phase = "index" /\ call.idx.left # <<>> /\ ~call.idx.opened
    /\ EditsOf(regime) # {} /\ call.idx.evidence # {}
    /\ call' = [call EXCEPT !.calm = FALSE, !.idx = CutWalk(@)]
    /\ planned' = NoPlan
    /\ UNCHANGED <<World, Caches>>
Seal ==
    /\ call.phase = "index" /\ call.idx.left = <<>> /\ ~call.idx.sealed
    /\ Indexing(SealIndex(call.idx))

Selectable ==
    /\ call.request.entry \in DOMAIN call.idx.read
    /\ ForcedResolved(call.idx.read, call.request)
RefuseSelection ==
    /\ call.phase = "index" /\ call.idx.sealed /\ ~Selectable
    /\ Stop(2)
    /\ UNCHANGED <<World, Caches>>

\* The answer is saved at best: the old record may stay or be lost.
SelectSources ==
    /\ call.phase = "index" /\ call.idx.sealed /\ Selectable
    /\ Go("tools", Answer(call.idx.read, call.request))
    /\ IF Persistent /\ RecordWanted(call.idx, call.request)
       THEN record' \in {RecordOf(call.idx, call.request), record, NoRecord}
       ELSE UNCHANGED record
    /\ UNCHANGED <<World, cached, planned>>
-----------------------------------------------------------------------------
(* Toolchain *)

\* --portable-root, then portable_msvc beside the project and beside each source.
Roots ==
    call.parsed.roots \o <<Root>>
    \o SetToSeq({DirOf(p) : p \in call.sources} \ {Root})

FoundTools ==
    Discovered(system, IF Persistent THEN cached ELSE NoCached,
               call.parsed.preference, Roots, call.options.typed["machine"])

FindTools ==
    /\ call.phase = "tools"
    /\ IF FoundTools = NoToolchain THEN Stop(3)
       ELSE /\ Go(IF Persistent /\ FoundTools.source = "visual_studio" /\ ~FoundTools.reused
                  THEN "save" ELSE "checks",
                  [toolchain |-> FoundTools,
                   basis |-> IF FoundTools.reused THEN cached.basis ELSE Untracked(system)])
            /\ UNCHANGED planned
    /\ UNCHANGED <<World, Caches>>

\* The script for vcvarsall cannot be written or started, or vcvarsall fails.
BootstrapFails ==
    /\ call.phase = "tools" /\ ChangesOf(regime, system) # {}
    /\ FoundTools # NoToolchain
    /\ FoundTools = Bootstrapped(system, call.options.typed["machine"])
    /\ StopForNow(3)
    /\ UNCHANGED <<World, Caches>>

\* Saved at best, as the answer is.
SaveTools ==
    /\ call.phase = "save"
    /\ Go("checks", <<>>)
    /\ IF CachedWanted(system, call.toolchain)
       THEN cached' \in {CachedOf(system, call.toolchain, call.parsed.preference,
                                  call.options.typed["machine"], call.basis), cached, NoCached}
       ELSE UNCHANGED cached
    /\ UNCHANGED <<World, record, planned>>
-----------------------------------------------------------------------------
(* The last checks of each command *)

Builds == call.verb \in {"direct", "build", "run"}

RefuseBuild ==
    /\ call.phase = "checks" /\ Builds /\ BuildRefusedEarly(call)
    /\ Stop(2)
    /\ UNCHANGED <<World, Caches>>

\* The precompiled header is compiled before the rest is checked.
HeaderFailed == [exit |-> 4]
CompileHeader ==
    /\ call.phase = "checks" /\ Builds /\ ~BuildRefusedEarly(call)
    /\ \/ Go("target", <<>>) /\ UNCHANGED planned
       \/ HeaderWanted(call) /\ Judge(HeaderFailed)
    /\ UNCHANGED <<World, Caches>>

JudgeBuild ==
    /\ call.phase = "target"
    /\ Judge(IF BuildRefusedLate(call) THEN Refused ELSE Pipeline(call))
    /\ UNCHANGED <<World, Caches>>

JudgePlan ==
    /\ call.phase = "checks" /\ call.verb = "plan"
    /\ Judge(IF IntrospectionRefused(call) \/ PlanRefused(call) THEN Refused ELSE Pipeline(call))
    /\ UNCHANGED <<World, Caches>>

JudgeDatabase ==
    /\ call.phase = "checks" /\ call.verb = "compdb"
    /\ Judge(IF IntrospectionRefused(call) \/ CompdbRefused(call) THEN Refused ELSE Pipeline(call))
    /\ UNCHANGED <<World, Caches>>

EndRefused ==
    /\ call.phase = "judged" /\ call.verdict.exit # 0
    /\ Leave(call.verdict.exit)
    /\ UNCHANGED <<World, Caches, planned>>

\* The coordinators succeed, fail to compile (4) or to link or archive (5). A program that
\* is run does not start (6) or ends with a code of its own.
ProgramExit == 7
Built ==
    /\ call.phase = "judged" /\ Builds /\ call.verdict.exit = 0
    /\ \E exit \in {4, 5} \cup (IF call.parsed.run THEN {6, ProgramExit} ELSE {0}) : Leave(exit)
    /\ UNCHANGED <<World, Caches, planned>>

\* Inspections read; they fail like the coordinators.
Planned ==
    /\ call.phase = "judged" /\ call.verb = "plan" /\ call.verdict.exit = 0
    /\ \E exit \in {0, 4, 5} : Leave(exit)
    /\ UNCHANGED <<World, Caches, planned>>

\* Modules need the scans of an earlier build. Writing compile_commands.json (or failing
\* to) changes the project's directory unless the database goes elsewhere.
Exported ==
    /\ call.phase = "judged" /\ call.verb = "compdb" /\ call.verdict.exit = 0
    /\ \/ call.verdict.pipeline = "modules" /\ (\E exit \in {2, 4} : Leave(exit)) /\ UNCHANGED record
       \/ Leave(2) /\ UNCHANGED record
       \/ /\ \E exit \in {0, 2} : Leave(exit)
          /\ record' = IF record = NoRecord \/ KeptWords("compdb", call.words) # <<>> THEN record
                       ELSE Noticed(record, {Root})
    /\ UNCHANGED <<World, cached, planned>>
-----------------------------------------------------------------------------
(* What happens around the invocations *)

Disturbed ==
    /\ planned' = NoPlan
    /\ call' = IF call.phase = "idle" THEN call ELSE [call EXCEPT !.calm = FALSE]

\* Every edit moves the file's time; files are looked at until they are selected.
EditFile(p, text) ==
    /\ call.phase \in {"idle", "discover", "index"}
    /\ text # disk[p]
    /\ disk' = [disk EXCEPT ![p] = text]
    /\ planned' = NoPlan
    /\ LET moved == Moves(p, disk[p], text)
       IN  /\ record' = IF record = NoRecord THEN record ELSE Noticed(record, moved)
           /\ call' = CASE call.phase = "idle" -> call
                        [] call.phase = "discover" -> [call EXCEPT !.calm = FALSE]
                        [] call.phase = "index" -> [call EXCEPT !.calm = FALSE,
                                                                !.idx = Overtaken(@, p, moved)]
    /\ UNCHANGED <<regime, config, system, cached>>

EditConfig(c) ==
    /\ call.phase = "idle" /\ c # config
    /\ config' = c /\ planned' = NoPlan
    /\ UNCHANGED <<regime, disk, system, Caches, call>>

\* Installers run at any time; the shell of an invocation is its own.
ChangeSystem(next) ==
    /\ call.phase \in {"idle", "tools", "save"}
    /\ call.phase # "idle" => next.shell = system.shell
    /\ system' = next
    /\ Disturbed
    /\ UNCHANGED <<regime, disk, config, Caches>>

\* The clock matters where the system changes; it may be set back behind the record.
PassTime ==
    /\ call.phase = "idle" /\ cached # NoCached /\ ChangesOf(regime, system) # {}
    /\ \E age \in {cached.age + 1, -1} :
         age <= MaxAge + 1 /\ age # cached.age /\ cached' = [cached EXCEPT !.age = age]
    /\ UNCHANGED <<World, record, planned, call>>

Discovery ==
    \/ RefuseRequest \/ ReuseAnswer \/ StartIndex \/ ListDirectory \/ OpenFile \/ ReadSource
    \/ SourceBusy \/ DiscoveryFails \/ WalkEnds \/ Seal \/ RefuseSelection \/ SelectSources
Checks ==
    \/ RefuseBuild \/ CompileHeader \/ JudgeBuild \/ JudgePlan \/ JudgeDatabase
    \/ EndRefused \/ Built \/ Planned \/ Exported

Next ==
    \/ \E request \in RequestsOf(regime) : Ask(request)
    \/ Discovery
    \/ FindTools \/ BootstrapFails \/ SaveTools
    \/ Checks
    \/ \E e \in EditsOf(regime) : EditFile(e[1], e[2])
    \/ \E c \in ConfigsOf(regime) : EditConfig(c)
    \/ \E next \in ChangesOf(regime, system) : ChangeSystem(next)
    \/ PassTime

Spec == Init /\ [][Next]_vars
-----------------------------------------------------------------------------
(* Properties *)

Phases == {"idle", "discover", "index", "tools", "save", "checks", "target", "judged"}

\* Types: the phase of the invocation, its fields in each phase, and the two caches.
TypeOK ==
    /\ regime \in Regimes
    /\ DOMAIN disk = ToSet(Paths)
    /\ call.phase \in Phases
    /\ call.phase = "idle" => call.exit \in 0..ProgramExit
    /\ call.phase # "idle" => call.verb \in {"direct", "build", "run", "plan", "compdb"}
    /\ call.phase \in {"tools", "save", "checks", "target"} =>
         call.sources # {} /\ call.sources \subseteq TranslationUnits
    /\ call.phase \in {"save", "checks", "target"} => call.toolchain # NoToolchain
    /\ record # NoRecord => record.answer.sources \subseteq TranslationUnits
    /\ cached # NoCached => cached.age \in -1..MaxAge + 1

\* Each layer's own words, typed or native.
Says(layer, field) ==
    (IF field \in DOMAIN layer.typed THEN {layer.typed[field]} ELSE {})
    \cup {s[2] : s \in {s \in Routes(layer) : s[1] = field}}

\* The last layer that says anything about a field decides it, whether it says it by name
\* or as a native option; the lists are the layers' one after the other without the options
\* that became fields; the last provider of a module counts (ProjectSetup, ProjectOptions).
LayersResolve ==
    call.phase # "idle" =>
      LET layers == call.layers
          options == call.options
          speaking(field) == {i \in DOMAIN layers : Says(layers[i], field) # {}}
          provided(name) == {i \in DOMAIN layers :
                               \E k \in DOMAIN layers[i].providers : layers[i].providers[k][1] = name}
      IN  /\ \A field \in DOMAIN Defaults :
               LET on == speaking(field)
               IN  IF on = {} THEN options.typed[field] = Defaults[field]
                   ELSE Says(layers[CHOOSE i \in on : \A j \in on : j <= i], field)
                        = {options.typed[field]}
          /\ \A key \in ListKeys \ Tools :
               options.lists[key] = FlattenSeq([i \in DOMAIN layers |-> layers[i].lists[key]])
          /\ \A tool \in Tools :
               /\ Selected(tool, options.lists[tool]) = {}
               /\ options.lists[tool]
                  = SelectSeq(FlattenSeq([i \in DOMAIN layers |-> layers[i].lists[tool]]),
                              LAMBDA a : a.name \notin SemanticOptions(tool))
          /\ \A i \in DOMAIN options.providers :
               LET p == options.providers[i]
                   last == CHOOSE l \in provided(p[1]) : \A j \in provided(p[1]) : j <= l
               IN  /\ p \in ToSet(layers[last].providers)
                   /\ \A j \in DOMAIN options.providers : options.providers[j][1] = p[1] => i = j

WholeRecord == record # NoRecord => record.whole

\* A build of what a plan showed, with nothing changed or failing in between, takes the
\* same sources through the same pipeline with the same tools, or refuses with the same
\* exit code, although the plan ignores both caches and makes its checks in another order.
\* Four builds are excused: the precompiled header, which a plan does not compile, may
\* fail; a cached environment may be older than a change that nothing watches; an extra
\* source may define main since the build that saved the answer looked, before its index
\* was made; and the saved answer may be of a walk that an error cut short.
PlanAgrees ==
    (/\ call.phase = "judged" /\ call.verb = "build"
     /\ planned # NoPlan /\ planned.words = call.words
     /\ call.verdict # HeaderFailed /\ WholeRecord
     /\ "toolchain" \in DOMAIN call /\ call.toolchain.reused => call.basis = Untracked(system)
     /\ "request" \in DOMAIN call /\ RequestValid(disk, call.request)
          => ExtrasValid(disk, call.request))
    => call.verdict = planned.verdict

SameTools(found, fresh) ==
    \A field \in {"source", "tools", "version", "stamp", "sdk", "foreign"} :
        found[field] = fresh[field]

\* Whatever happened since they were saved, during the saving too, a reused answer is what
\* discovery would select now, unless an error cut the walk behind it short, and a
\* reused toolchain is what a search would find now unless the shell, the default tools or
\* the chosen installation are not those it was found with.
ReusedAnswersTrue ==
    [][/\ (call.phase = "discover" /\ call'.phase = "tools" /\ WholeRecord) =>
            LET answer == AnswerNow(disk, call.request)
            IN  call'.sources = answer.sources /\ call'.modules = answer.modules
       /\ (call.phase = "tools" /\ call'.phase = "checks" /\ call'.toolchain.reused
           /\ call'.basis = Untracked(system)) =>
            SameTools(call'.toolchain,
                      Discovered(system, NoCached, call.parsed.preference, Roots,
                                 call.options.typed["machine"]))]_vars
=============================================================================
