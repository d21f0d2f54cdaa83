# MQB: models, model checks and proofs

MQB (`mqb`) is a build driver for MSVC. One invocation discovers the sources of a
project, finds a toolchain, decides from cached evidence which translation units
must be compiled, runs `cl.exe`, `link.exe` or `lib.exe` with bounded parallelism,
and saves new evidence. The hard part is not any one of these steps: it is that the
evidence on disk is read while other threads and other programs write, that every
step may fail, be stopped or be killed, and that the next invocation must be right
about whatever this one left behind. That is what these modules are about.

Paths below are relative to `cpp/`; `src/...` and `include/...` are its directories.

## 1. The system

| Part | State it keeps | Operations | Talks to |
|---|---|---|---|
| Bounded work scheduler (`src/orchestration/scheduling`) | `next_index`, `started_count`, stop flags, worker threads | `run`, `run_with_admission_stop` | the callbacks of every wave; a stop token |
| Typed work batch (`include/mqb/orchestration/BoundedWorkBatch.hpp`) | one slot per index | `run_work_batch`, `outcome` | the scheduler |
| Shared filesystem evidence (`IncrementalFileSnapshot.hpp`) | a table path -> probe, state, number of uses | `observe_dependency`, `revalidate_shared` | the inspections of one target; the disk |
| Incremental compile (`MsvcIncrementalCompileCoordinator`, `CompileCache*`, `MsvcCompileExecutor`) | object and cache entry per unit | inspect, execute, seal, save | the process runner, the evidence table |
| Incremental executable target (`MsvcIncrementalTargetCoordinator`, `TargetCompileWave`) | the wave: inspections, misses, barrier, retry | `run_impl` | batch, compile, link |
| Incremental link (`MsvcIncrementalLinkCoordinator`, `LinkCache*`) | image and link entry, observed libraries | inspect, run | objects, libraries |
| Process runner (`WindowsProcessRunner`) | job, event, stop callback, pipes, reader threads | `run` | the kernel, a stop token |
| Named modules (`src/modules`, `src/orchestration/modules`) | P1689 scans and their evidence, the graph, levels, references | scan, build graph, compile waves, link | compile, link, scheduler |
| Precompiled header, static library (`MsvcIncrementalPchCoordinator`, `...StaticTargetCoordinator`, `...ArchiveCoordinator`) | creator source, PCH; archive and entry | producer before consumers; archive stage | compile, `lib.exe` |
| Source discovery (`src/discovery`) | index, selection, discovery cache | reuse, index, select, save | the disk, while it is edited |
| Toolchain discovery (`src/msvc/toolchain`) | cached environment of Visual Studio | portable roots, reuse, adopt a prompt, vcvarsall, save | Visual Studio, the SDKs, the shell |
| Command line application (`src/app`), configuration (`src/config`), parameter engine (`src/msvc/parameters`), target router | the options of one invocation | build, run, plan, compdb: words to layers to options to a verdict | discovery, toolchain, one coordinator |
| Write domain (`WindowsWriteDomain`) | marker file, phase | open, reserve, begin, withdraw, publish | other mqb processes |
| Artifact generations, link facts, storage inventory | typed records of what a build used and left | project, compare, save | the coordinators |
| Planner, graph, parallelism policy, JSON, command lines | none | pure functions | everything |

Behaviours that are hard: the dispatch of items to threads with a stop, a failed
thread start and an exception possible at every moment; a table of probes shared by
concurrent inspections while files change; evidence that outlives crashes, failed
saves and edits; the death of a process tree whose members hold pipes and create
more members; a module topology read from scans that an edit overtakes; files found along
search paths, where a file nobody read can change the answer; and commands that promise
what another command, with other checks in another order, will do.

What makes each part correct:

* scheduler and batch: every index at most once and in order, never more at a time
  than the ceiling; no worker and no callback survives the call; the verdict is what
  the slots and the stop justify; the call returns.
* evidence table: one probe in flight per path; what was shared cannot be told from
  probing alone, or the window is rejected; nobody waits for ever.
* target: a build that succeeds undisturbed is current, and a warm one reuses.
* process runner: nothing outlives an owned call; its result is true and its output
  complete up to a first empty write; no reader and no callback is left; it ends.
* modules: a quiet build is current through every import, a reused scan is true and good
  sources are never refused, unless an edit fell inside a scan or a compile.
* link: an image is made of what LINK would find now, on the whole search path, unless
  a file changed while LINK ran.
* static library: an archive is current, and of one piece with its precompiled header.
* invocation: the last layer that speaks decides an option; a plan says what a build
  does; a reused answer is what a search would find now.
* write domain: one writer at a time.

`PROJECT.json` lists every component with its status and every hazard at the line
where it bites, the uncovered ones with the reason.

## 2. The plan

Order: what every build rests on first, then what every build is, then what varies.

1. *Done*: scheduler and batch (`BoundedWork`, `AdmissionScheduler`, `WorkBatch`,
   `WorkScheduler`), the incremental target (`TargetBuild`), the evidence table
   (`FilesystemEvidence`), the process runner (`ProcessRunner`), named modules
   (`ModuleTarget`), and the proofs of section 6.
2. *Done*: the link with its libraries (`LinkStage`), the static library with its
   precompiled header (`StaticTarget`, `StaticProofs`), and the invocations in front of
   the coordinators (`Parameters`, `Configuration`, `SourceDiscovery`, `Toolchain`,
   composed by `Invocation`).
3. *Done*: the theorems of section 6 about the older dispatch, the executable target,
   named modules, verdicts of the process runner, archives that are current, and the
   link with its libraries.
   Next: `ReusedAnswersTrue` of `Invocation`, a fact about what a record of the
   discovery names.
4. Left to model: the `storage` command, the write domain once a command uses it, and
   the standard library modules of `ModuleTarget`.

The abstract specification is `BoundedWork`. `TargetBuild` uses the evidence table with
one observation as one step, `FilesystemEvidence` takes the same protocol apart;
`SharingIsTransparent` is what the first assumes of the second. In the same way the
link of `TargetBuild` and the compile of `StaticTarget` are short forms of `LinkStage`
and `TargetBuild`, and `Invocation` ends where a coordinator begins.

## 3. The modules

### `BoundedWork`, `AdmissionScheduler`, `WorkBatch`

`BoundedWork` is the promise of one dispatch in five actions: `Admit(i)` in index
order below the ceiling, `Complete(i)`, `Close`, `Return`. `AdmissionScheduler` is
`run_with_admission_stop` with every atomic operation a step: `main` is where the
calling thread is, `pc[t]` where each worker is (worker 0 is the calling thread),
`next`, `started`, `stopFlag`, `observed`, `threw`, `startFailed` are the locals of
that name. The stop callback runs on the thread that requests the stop, and its three
writes are three steps; `Deregister` waits for it, as the destructor does. `WorkBatch`
adds `collect_work_batch` and `outcome()`. The mapping to `BoundedWork` calls an index
admitted when its claim has succeeded, running while a worker holds it with its callback unfinished,
and admission closed when the index counter is at its end.

### `WorkScheduler`

The older `run`: an inline path for one worker, `fetch_add` on a counter of `Word`
values (so that a wrap would be seen), the flag published after the counter is
quenched, and `std::thread` whose vector terminates the process when a start fails:
`main = "terminated"` is an end state.

### `TargetBuild`

One target built again and again while files are edited and options change. A file's
content and time are one number, its version; an object remembers what its compiler
read and what was on disk when it was written. `Inspect`, `BeginCompile`,
`WriteObject`, `SaveEntry` (and `CompileFails`, `SealFails`) are the steps of a unit;
`EndWave` is the barrier with its conservative retry; `Link`, `ReuseLink`, `LinkFails`
the last stage; `CrashInWave` and `CrashInLink` end the process anywhere, an entry
half replaced included. Compilers read all their inputs at one instant.

### `FilesystemEvidence`

The table, each lock region a step: `Lookup` inserts or finds an entry, `Probe`,
`Publish` and `Abandon` are the owner's, `Wait` the others'; then the join and
`revalidate_shared`, path by path, while `Mutate` changes files at any moment.
`own[o][p]` is a history variable: what a probe made by the observer itself at that
moment would have said.

### `ProcessRunner`

`WindowsProcessRunner::run`, every system call a step: validation, job, event, stop
callback, pipes, launch, the closing of the parent's ends, the two readers, the wait,
the census and the termination of the job, the joins, the failure path, and the
destruction of the locals in reverse order. Processes are `absent`, `live`, `leaving`
or `killed` (ending, handle not yet signalled), `exited` or `dead`; a `live` process
may spawn, write to the streams it holds, or leave, and owes nobody anything.
`managed` says that the token can be stopped at all: only then there are a job and an
event. A descendant that leaves by itself before the census is not in the member list
and is not waited for, as in the code. Process ids are identities. A process may also
write no bytes: `cut[s]` is what had been written to stream `s` before the first such
write, and a reader that has come so far takes the read of zero bytes for the end, as
`read_pipe` does.
No caller in the command line application passes a stoppable token today; the owned
path is the one tests and embedders use (`docs/PROCESS_LIFETIME.md`).

### `ModuleTarget`

A target of module units and header units, built `MaxBuilds` times around `MaxEdits`
edits. Files carry the time they were written. `ReuseScan(u)` trusts sealed evidence;
otherwise the scanner runs for an interval, `StartScan(u)` to `FinishScan(u)`, as a
compiler does, `StartCompile(u)` to `Compile(u)`: `reads[u]` is what it has read, and an
edit in between leaves the source older than the file that is then written. That file is
`raced`, a ghost that no step of the program looks at. `BuildGraph` levels the units or reports a cycle; `Inspect`, `Compile`,
`Seal` are the other wave steps of a unit, allowed when every lower level is done; `Forced` is
`provider_work_planned`; `References` is the closure that `build_module_compile_plan`
merges level by level; `Needed` is what `cl.exe` reads, the imports of the source and
of the IFCs it opens, and a compile whose references lack one of them is rejected.
`Kill` may come at any step. A failed save leaves the old entry or none.

### `Parameters`

What MQB reads out of native options, as operators over lists of `[name, value]`
records: which options become typed fields, which MQB owns and rejects, which pass
through, one representative for each row of the registry that is treated alike; then
the policies over a list (last one wins, map and program database, default libraries
and `/NODEFAULTLIB`, sanitizer runtimes, whole archives, `/BASE:@`). The other modules
below extend it.

### `LinkStage`, `LinkProofs`

One image, linked again and again while libraries appear, change and vanish. A library
is found by name along the directories `1..LastDir`, those from `EnvDir` on from `LIB`; a path
is `<<directory, name>>`. `newer` holds the inputs modified after the image was written
and `moved` the search directories modified after the entry was: all that the code's time
comparisons can see. `Inspect` is `inspect_link` with the validator. LINK runs for an
interval: `ReadInputs` is the moment at which it looks names up and reads (`seen`),
`RunLink` the one at which its image is finished, with
what it found by itself (object directives, an incremental update that keeps what it had
of unchanged libraries), `Sealed` the file inputs that the entry remembers, `Save` and
`SaveFails` the entry. `Legacy` starts from the entries of formats 2 and 3, which know no
file inputs. `Crash` ends the process anywhere. `Torn` says that what LINK read, or where
it looked, is no longer so when the image is finished.

### `StaticTarget`, `StaticProofs`

A static library with a precompiled header. `CompilePch` writes the synthetic source if
it is missing or wrong and forces every consumer; `CompileUnit`, `ReuseUnit`, `UnitFails`
are the wave, `RetryWave` the conservative retry, `Archive` to `SaveArchiveEntry` the
archive stage. Headers are found along the include roots; `Watched` are the directories
whose time the entry depends on because a file could appear there that wins. `Tamper`
deletes artifacts or damages the synthetic source under its old time; `Upgraded` starts
from the header of an older MQB.

### `Configuration`, `SourceDiscovery`, `Toolchain`, `Invocation`

`Configuration` is the argument parser (`ParseToken` folds the words of a command line),
the schema of `mqb.json`, the routing of native options within a layer (`Normalized`)
and the resolution of the layers: defaults, project, profile, command line.
`SourceDiscovery` is the walk over the project (`IndexDirectory`, `SnapshotFile` before
`ReadFile`, so that an edit can fall between), the selection as a closure over include,
forced, owner, import and module edges, and the record that a later invocation reuses.
A file's text is what the scanners read out of it. `Toolchain` is the search order:
portable roots, the cached environment, the developer prompt, vcvarsall.

`Invocation` composes them. `Ask` takes the words to options or refuses them; then
discovery runs file by file (`SourceBusy` is a file that cannot be opened, `DiscoveryFails`
an extra source or a root that cannot be read, `WalkEnds` an error of the walk below it),
the toolchain is found (`BootstrapFails` is a vcvarsall that fails) and saved, and the checks of `build`,
`plan` and `compdb`, which sit in different files and different orders, give a verdict:
an exit code, or the sources, the tools and the pipeline the router takes. What the
coordinators then do is an exit code. Two caches outlive an invocation, `record` and
`cached`; `plan` reads and writes neither. Files are edited while discovery reads them,
installers run before the tools are searched and between that and their saving (the search
itself is one instant), the clock passes the age limit or is set
back, and either save may fail with the old record kept or lost.

## 4. The runs

| Run | What it asks | Size |
|---|---|---|
| `WorkBatch` | `ExactlyOnce`, `DrainedAtReturn`, `OutcomeFaithful`, `CallReturns` (liveness) and the implementation of `BoundedWork`, for up to 3 items on up to 3 workers and every limit, zero included | 165 thousand states |
| `WorkScheduler` | `NoDispatchAfterStop` and the implementation of `BoundedWork` by the older path, with a counter of 7 values | 40 thousand |
| `TargetBuild` | `QuietBuildCurrent`, `AcceptedWindowConsistent`, `WarmBuildReuses`, `OnlyCompleteWavesLink`: two units, a header one of them comes to include, two option sets, stops | about 10 million |
| `TargetBuildFaults` | `QuietBuildCurrent` with kills, failed saves and unreadable metadata | 2.9 million |
| `TargetBuildStale` | the disagreement below | stops at it |
| `FilesystemEvidence` | `SingleFlight`, `SharingIsTransparent`, `VerdictReached` (liveness): three inspections, two files | 261 thousand |
| `ProcessRunner` | `NothingOutlives`, `OutcomeFaithful`, `OutputComplete`, `NoReaderLeft`, `CallbackHasItsEvent`, `OwnedCallEnds` (liveness): a root and a child, two streams, one of them with empty writes | 802 thousand |
| `ModuleTarget` | `ModulesCurrent`, `ScanTruthful`, `GoodSourcesBuild`: two modules and a header unit, three builds, an edit that may fall inside a scan or a compile | 5.4 million |
| `ModuleScanSeal` | the disagreement below | stops at it |
| `LinkStage` | `QuietLinkCurrent`, `WarmLinkReuses`: two libraries in two directories, a file named by its path, a base-address file found along `LIB`, three option sets, three edits; edits of every kind, or failures and kills around edits of contents; any of them while LINK runs | 1.1 million |
| `StaticTarget` | `QuietArchiveCurrent`, `OnePch`: two units, a header before another and one in quotes, three option sets, two edits | 1.5 million |
| `Invocation` | `LayersResolve`, `PlanAgrees`, `ReusedAnswersTrue`: the four regimes below | 820 thousand |

Every property has a mutant in `PROJECT.json`: a plausible wrong version of a mapped
definition under which the same run fails.

Bounds and why they are enough:

* `MaxItems = MaxLimit = 3`: a worker that claims, one that finishes and the caller
  that joins, with items left over; every early return has a limit or count that takes
  it. The theorems cover every other value.
* `Word = 7`: the smallest counter with room for the overshoot of three workers and a
  spare value, which `BoundsAssumption` requires; the code's has 2^64.
* `MaxVersion = 2`: each file is edited at most once, so a build before, an edit, a
  build during and a build after it are all reached. `ShareAbove = 1`: the code shares
  evidence above 2 sources; the model's two units must already share.
  `TargetBuild` lets options and include lists change but injects no fault between
  object and entry; `TargetBuildFaults` does the reverse, because together they meet
  the first disagreement.
* `Stamps`: a file is absent or has a time and changes once, never back to an old
  look (times grow). Two changes of one file within one window add no new answer to
  the barrier's comparison.
* `MaxWrites = 1`, `Capacity = 1`: data is still in the pipe when its writer dies, and the
  one chunk comes before or after an empty write, so that it is read or lost.
  `Emptied` names the one stream of the two that empty writes go to: the other is then
  complete without reserve. Two processes show a member created
  between census and termination.
* `MaxBuilds = 3`, `MaxEdits = 1`: a build, one that dies or is overtaken by the edit,
  and the one that must be right about both. A second edit, which restores the source
  whose scan the first one overtook, is left to the theorems, which hold for any number. The choices of imports contain a cycle, a
  chain through a module to a header unit, and a header unit nobody needs.
* `LastDir = 2` with the libraries in the second directory: one can appear earlier,
  be removed again and be found later. `LinkEdits = 3`: an edit before, one during and one
  after a link. The option sets differ in everything that changes the plan: incremental
  or full, executable or DLL, map, `/DEF`, default library, manifest. `LinkRegimes` leaves
  out a third regime, `unsaved`, in which calls fail or do not save between changes of
  every kind; see section 5.
* `StaticEdits = 2`: a header that appears in front and then changes, or a change and a
  damaged artifact. `ShareAbove = 1` as above.
* `Invocation` looks at four worlds that differ in what may happen, so that they need
  not be multiplied: *layers* has four profiles' words by every word of the command line
  against project files good and malformed; *commands* asks `build`, `plan` and `compdb`
  the same things of three projects; *discovery* edits a source and the header it owns
  while the index is built and reused, and is where reading fails; *toolchain* has two installations, a second version of the
  tools, a second SDK and a developer prompt. `MaxAge = 0`: a record is young, too old or
  from the future.

Deadlock is checked for `ProcessRunner` (the returned call stutters), `TargetBuild` and
`Invocation` (another invocation can always be asked). Elsewhere a call
that returned, or a bounded number of builds and edits, may stop.

### Fairness

Weak fairness of the steps of threads of the program itself: each worker, the calling
thread, the stop callback once it runs, the readers; these are runnable threads and
the operating system schedules them. `Signal(p)` is weakly fair: the kernel finishes a
process that is ending. Nothing is assumed of the child processes, the editor, the
owner of a stop token, or of any failure: `OwnedCallEnds` holds although a descendant
may hold its pipes for ever. The callbacks of a batch are assumed to return. The specifications
of the builds state no fairness and only safety is claimed of them.

## 5. Where the code and its documents disagree

* `TargetBuildStale`. A failed save of a compile cache entry is a warning
  (`MsvcIncrementalCompileCoordinator.cpp:382`). If the previous entry is still there it
  stands beside a newer object it does not describe; when the source had just come to
  include a header, that header is not looked at, and a later edit of it is reported up
  to date. `docs/ARCHITECTURE_EN.md:12` says "rebuild when identity is uncertain; never
  guess".
* `ModuleScanSeal`. Only a compile seals scan evidence, so a unit whose evidence was
  withheld, because an edit fell between its scan and its compile, is rescanned by
  each later build and never resealed: those builds reuse its compile.
  `docs/COMPILATION_DATABASE_EN.md:100` says that `mqb compdb` fails closed "until a
  successful build refreshes and seals the scan evidence".

Not listed as disagreements, but worth knowing:

* An image that was written by a call whose entry could not be saved, or that failed for
  want of its map, stands beside the previous entry and is younger than all its inputs.
  With `LinkRegimes = {"unsaved"}` TLC finds `QuietLinkCurrent` violated: when the options
  go back to what they were, the previous entry fits again and the image that was linked
  with the other options is reused (`MsvcIncrementalLinkCoordinator.cpp:697` and `:754`).
  It is the first disagreement once more, a stage later.
* `QuietLinkCurrent` excludes four windows by name, each of them a stale image that TLC
  finds without the exclusion. Three are `raced`: an incremental LINK whose inputs change
  between the inspection and LINK; any LINK then if `/BASE:@` names a file along `LIB`,
  for the entry keeps the path that the inspection found, and no name by which to look it
  up again; and `Torn`, a file that LINK has read, or a directory it has searched, that
  changes before the image is finished, so that the change is older than the image
  (`MsvcIncrementalLinkCoordinator.cpp:727` seals it as what the image was made of). The
  fourth is `late`, a search directory that changes between LINK and the save, whose time
  is then older than the entry's.
* `ScanTruthful`, `ModulesCurrent` and `GoodSourcesBuild` exclude files that are `raced`,
  for the same reason: the seal compares the times of the source and of the scan
  (`MsvcIncrementalCompileCoordinator.cpp:156`), and an edit after the scanner has read
  the source is older than what it writes. `ModulesCurrent` excuses what such a file
  reaches (`Sound`), `ScanTruthful` its own scan, and `GoodSourcesBuild` a build that
  finds one (`Overtaken`), since a scan that lies about one unit may close a cycle through
  others.
* `read_pipe` returns when a read succeeds with zero bytes (`WindowsProcessRunner.cpp:621`),
  which a write of zero bytes by any process that holds the pipe causes. The stream then
  counts as drained although the pipe is open, and what is written to it later is lost
  without an error; `docs/PROCESS_LIFETIME.md:29` says of a cancelled call "Captured partial
  output is drained and preserved." `OutputComplete` is claimed up to the first such write
  (`Readable`); with all that was written in its place TLC finds a root that writes nothing
  and then a chunk before it is terminated.
* The loop over the project compares the iterator with the end before it looks at the error
  of `increment` (`SourceIndex.cpp:117`), and an iterator that reports an error is the end
  (C++, [fs.class.directory.iterator]), so the message of line 122 is never reached. An
  error below the root cuts the index short in silence; every snapshot taken so far still
  matches, and the answer is saved and reused until something it names moves.
  `ReusedAnswersTrue` and `PlanAgrees` except an answer of such a walk (`WholeRecord`); without
  that TLC finds the record that says the target is `main.cpp` alone, although it includes
  the header of another source.
* The extra sources are checked for a second `main` before the index reads them again,
  and a reused answer skips the check (`SourceDiscovery.cpp:249`). An extra source
  that comes to define `main` in between is accepted by every build that reuses the
  answer, and refused by a plan. `PlanAgrees` excuses exactly that.
* A cached environment is not compared with the tools that are the default now, with
  vswhere's choice or with the shell beyond `PATH`; the property names these (`Untracked`).
* `latest_directory` takes the last name as text, so an SDK or tool version with one
  digit more sorts before its predecessor; `LatestOf` follows the code.

## 6. The proofs

| Module | Theorems | Holds for |
|---|---|---|
| `AdmissionProofs` | `TypeCorrect`, `DispatchedOnce`, `ReturnsDrained`, `CloseInvariant`, `Refinement`, `BlameInvariant`, `VerdictFaithful` | every `MaxItems`, `MaxLimit` (`BoundsAssumption`) |
| `SchedulerProofs` | `SchedulerInvariant`, `SchedulerTypes`, `StopStopsDispatch`, `SchedulerImplements` | every `MaxItems`, `MaxLimit` and `Word` that holds their sum (`BoundsAssumption`) |
| `EvidenceProofs` | `EvidenceTypes`, `OneOwner`, `Transparent` | every finite set of observers and paths |
| `TargetProofs` | `TargetTypes`, `CompleteWaves`, `WarmBuilds` | every set of sources, headers, flags, include lists and faults, every `MaxVersion` (`TargetAssumption`) |
| | `QuietBuilds`, `SharedWindow` | the same where `EntriesKeepUp` |
| `ModuleProofs` | `ModuleInvariant`, `ModuleTypes`, `TrueScans`, `CurrentModules`, `GoodSourcesPass` | every finite set of units and header units, every choice of imports, every number of edits and builds (`UnitsAssumption`) |
| `StaticProofs` | `PchInvariant`, `OneHeader`, `StaticTypes`, `CurrentInvariant`, `QuietArchive` | every set of units, headers, directories and options, every `StaticEdits` (`UnitsAssumption`, `PathsAssumption`, `EditsAssumption`, `RegimesAssumption`, `SearchAssumption`) |
| `LinkProofs` | `LinkTypes`, `WarmLinks` | every set of libraries, directories, options, directives and editable files, every `LinkEdits` (`LibrariesAssumption`, `OptionsAssumption`) |
| | `QuietLinks` | the same where `LinkRegimes \subseteq {"edits", "faults"}` |
| `ProcessProofs` | `Invariance`, `ProcessTypes`, `VerdictTrue`, `NothingLeft`, `ReadersJoined`, `OutputDrained`, `EventOutlivesCallback` | every finite set of processes and streams |

The arguments:

* **Batch.** `TypeInv` adds to the types that a claimed index is below the count.
  `PlaceInv` says where each worker may be for each place of the caller; it gives
  `DrainedAtReturn`. `ClaimInv` says that the dispatched indices and the ones being
  dispatched are exactly an initial segment and each has one owner; `ExactlyOnce` alone
  is not inductive because a claim in flight is not yet in the slots. `CountInv`
  relates `started` to the slots. `CloseInv` says that admission is closed once any
  worker has left, which the refinement needs when the caller returns. `BlameInv`
  finds for every early end a stop, a failed start or a failed slot; with the shapes of
  a result (`ResultInv`) it makes the verdict faithful. The refinement is proved step
  by step: initial states map to initial states, a claim to `Admit`, the end of a
  callback to `Complete`, a close to `Close`, everything else to a stutter.
* **The older dispatch.** The counter is a `fetch_add` that goes past the item count, so
  `next <= items` is false. `OverInv` bounds it by the workers that have left: each one
  overshoots once, and it is its last step. That gives the range of the counter in
  `TypeOK`, far from the wrap of `Word`, and lets `RunInv` say that the claimed indices
  are an initial run. `CloseInv` says that the counter is at its end when the flag is up
  or a worker has left; `NoDispatchAfterStop` is the first half, for a worker that read
  the flag before it was set. The refinement then goes step by step as the batch's does.
* **Evidence.** A difference between what an observer was told and what it would have
  seen makes the path suspect (`DifferInv`): the file has changed since its probe. The
  barrier re-reads each shared path and rejects a suspect one (`BarrierInv`); files do
  not return to an old look, so a suspect path stays suspect. `CountInv` bounds the
  requests of a path by the observers that have asked for it: a path leaves the list of
  an observer with its answer, so none is counted twice.
* **Executable target.** `QuietBuildCurrent` speaks of the last state only. Behind it:
  an entry describes the object beside it (`EntryInv`), so a unit whose entry is newer
  than nothing it names would be compiled to the same thing (`ReusedIsLatest`);
  `QuietInv` says it for each unit while the wave runs, `DoneInv` after it. `EntryInv` is
  where faults enter: a kill or a failed save between an object and its entry leaves the
  older entry beside the newer object. It survives when nothing comes between the two
  (no faults), or when the older entry names at least what the newer object was made
  from: one set of options, and no edit that adds an include. That is `EntriesKeepUp`.
  It is needed: `TargetBuildStale` is the counterexample without it, a disagreement of
  section 5. Both passing runs satisfy it, the one with faults by its second half.
  `WindowInv` says that nothing a unit of a shared wave was made from is older than what
  the table saw, and the barrier's second look that nothing is newer; together the units
  agree (`BarrierInv`). `CompleteWaves` and `WarmBuilds` need no `EntriesKeepUp`.
* **Modules.** The levels, the graph's closure and the merged references are functions
  by recursion over a number of rounds. `Rounds` and `Least` (a least counterexample,
  as `<` is well-founded on the naturals) give that a round which changes nothing is the
  last, that levels rise along imports in an acyclic graph (`LevelsRise`), and that the
  references of a compile are closed under the imports below it (`ReferencesClosed`).
  `ReadInv` says that what an object has read is there still unless it is newer, and
  that it read no more than its imports reach: it is inside every set closed under the
  imports of the objects seen (`Within`). Without the second half a reused object could
  hold a stamp of an interface that its unit no longer reaches and nobody compares.
  `TextInv` says that what a running scanner or compiler has read is what the source says
  unless it was edited since, in which case the file then written is raced (`SourceInv`
  and `ScanInv` say the rest of the others).
  `ReadyInv` says that a unit starts when its providers are done, `FreshInv` that what is
  done is current through all of them unless a raced file is among them (`Sound`), so
  that the last wave leaves a current image.
  `GoodSourcesPass` follows because a quiet build without a fault or a raced file can only
  end where `BuildGraph` finds a cycle: a compile is never rejected for a missing reference, since
  its references are closed and their objects are there (`PresentInv`).
* **Process runner.** `TreeInv` ties the state of the tree to the place of the call;
  `CensusInv` says that while the total is the census's, every live or killed process
  is among the retained ones, so waiting for those is enough; without it
  `NothingOutlives` is not inductive, since what matters happened several calls before the
  return. `StreamInv` is conservation (read plus in the pipe is written) and that a
  reader ends only at an empty write or when nobody can write. `CallbackInv` follows the callback from its
  arming to its removal. `VerdictInv` carries each verdict from the wait that decided it
  to the return: once the event is what woke the call, `cancelled` stays with a set event
  and a stop somebody asked for; otherwise the root has exited. `BoundInv` has the ranges
  of the counters and who can hold which end of a pipe.
* **Static library.** `OnePch` speaks of the archive only; it follows from what each
  object was made with when the wave ends (`WaveInv`). A unit is compiled now, with the
  current header, or reused because its entry's dependencies are not newer than its
  object. The header is among them (`EntryInv`), and every object that the header is not
  newer than was made with it (`AgeInv`): writing the header makes all objects older.
  A kill after the header, a deleted object or a failed save keep both facts, which is
  why the next build, with nothing to compile in the header, still cannot mix.

  `QuietArchiveCurrent` needs more than the header: where includes are found. An entry
  watches every directory in which a file could appear that wins over the one it read
  (`Watches`), so while nothing it names is newer than its object, a search finds the
  same files with the same content and the object is what a compile makes now
  (`UnitHeld`; `PchHeld` for the header and its entry). `CallInv` collects what a wave
  without an edit has made and `LibCurrent` what is archived. As in the executable
  target, an entry that outlives a newer object must still fit it: `FaultInv` says that in
  the regime `"faults"` nothing changes in what is found where, and the regime `"edits"`
  has no faults. The theorem holds for both; the combination is not claimed, for the
  reason of `EntriesKeepUp`.

* **Link.** `QuietLinkCurrent` is about what LINK would find now, and the validator only
  sees two kinds of times. `Describes` says what an entry that names LINK itself (so of
  format 4) has to do with the image beside it: everything LINK read is in one of its two
  lists, for every name that LINK looked up it read a file of that name, a name whose file
  is used only if there is one (OpenMP) may be missing but then nothing older than the image
  can be found by it, and a file not newer than the image is as LINK read it. `Settled` adds that the search
  still ends where LINK's did; a change of a search directory may break it, and then
  `moved` is not empty and every remembered library is looked up again. `PairInv` has both
  of the entry and, between LINK and the save, of the one about to be saved. From them
  `ReusedCurrent`: if nothing that the entry names is newer and the lists come out as they
  are sealed, the image was made from what LINK would find, whether nothing moved
  (`Settled`) or the second look found the same paths. `ReadsCurrent` is the reason why an
  incremental LINK may keep what it had: `PlanInv` says that it updates in place only what
  its entry names completely and nothing newer, and that what LINK has read is what is
  there still in an undisturbed call, so that an image that is not `Torn` was made of what
  LINK would read when it is finished. `FaultInv` says that where only contents change
  every entry fits whatever image there is, so a lost save does no harm; in the regime
  `"unsaved"` that is false, and so is the theorem (section 5). `BaseApart` keeps the file
  of `/BASE:@`, which has no name to be looked up by again, from being taken for a library.
  `WarmLinks` needs what the lists are, not only what they hold: `Reappended` says that
  appending the remembered files to the declared ones again, each once, gives the sealed
  list. Its lemmas about lists (`UniqueIsKept`, `KeptConcat`) are by induction over a
  length, with `Induction` from the well-foundedness of the naturals.

Not proved, and why:

* The liveness properties (`CallReturns`, `VerdictReached`, `OwnedCallEnds`): fairness is
  beyond the prover.
* `Invocation`: model-checked only. What `Configuration` and `SourceDiscovery` compute are
  folds and closures over data, which need an induction the prover does not have;
  `ModuleProofs` and `LinkProofs` could go around it because their recursions count
  rounds or positions.
* The two runs that expect a violation are counterexamples and have nothing to prove.

## 7. What is not modelled, and why

* The text: argument construction, environment blocks, JSON, response files, the source
  scanners, diagnostics, reports and timings. Pure functions of strings. An option, a
  path or a source text in the models is what the program tells apart about it.
* The registry row by row: `Parameters` has one option for each kind of row.
* The parallelism policy: its result is the worker limit, which the models leave free.
* Artifact generations, link facts and the storage inventory: records of what a build
  did, which no build decision reads back. `mqb storage` only reads.
* The write domain: no command uses it yet, and its exclusion is one exclusive creation
  of a file by the kernel.
* Writing `compile_commands.json` beyond its effect on the discovery cache: when the
  rename over the old file fails, the code removes the old one first and can lose both
  (`CompdbCommand.cpp:209`); the command reports the failure.
* Signatures and hashes: a model carries what the signature tells apart.
* Time as the file system really keeps it: two writes within one tick, clocks set
  back, files copied with old times. `QuietBuildCurrent` excludes by name the window
  the code's timestamp model cannot see, an edit between a compiler's read and the
  write of its object (`Raced`).
* In `TargetBuild` and `StaticTarget` a compiler reads its inputs at one instant; in the
  first its object is written later, in the second at once. In `ModuleTarget` a compiler
  reads its source when it starts and its imports when it ends; they cannot change in
  between, for they are of lower levels, and only scans and compiles of mqb write them.
  LINK reads all its inputs at one instant of its run, LIB at the end of it.
* In `Invocation`: the refusals for artifacts that cannot be laid out
  (`Application.cpp:270-297`, `:389-396`), which come at the same place in `build`, `plan`
  and `compdb`; directories that appear or vanish (files do); an error while a directory is
  tested or a path made absolute, after which the index is not cached. A saved answer is
  compared with the disk at one instant (the code stats path by path,
  `DiscoveryCache.cpp:331`), and the whole search for tools is another: adoption of the
  prompt, vswhere, vcvarsall and the stamps. One SDK stands for the Windows SDK and the
  UCRT, which the code checks one by one; the search for the tools' directory when
  vcvarsall sets no `VCToolsInstallDir` is left out.
* In `ModuleTarget`: textual headers (they are `TargetBuild`'s subject), ready-made IFCs,
  the standard library modules, unresolved or conflicting providers and artifact
  collisions, which end a build before anything is written; a link entry that was not
  saved (also `TargetBuild`'s).
* In `LinkStage` and `StaticTarget`: several objects of one image, several libraries of
  one name in one directory, archives as inputs of a link.
