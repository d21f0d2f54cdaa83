------------------------------ MODULE Toolchain ------------------------------
(***************************************************************************)
(* Which compiler, linker, librarian and environment an invocation uses:   *)
(* portable roots, the cached environment of Visual Studio, the prompt the *)
(* invocation was started from, or vcvarsall.                              *)
(*                                                                         *)
(* system: [chosen   |-> installation vswhere names, or NoInstallation,    *)
(*          standard |-> version vcvarsall selects in each installation,   *)
(*          tools    |-> <<installation, version>> -> [stamp, machines],   *)
(*          kits     |-> installed SDKs,                                   *)
(*          roots    |-> portable root -> [tools, sdk, machines],          *)
(*          shell    |-> [path, foreign, prompt]].                         *)
(* A toolchain: [source, tools, version, stamp, sdk, foreign, path,        *)
(* reused]; foreign: its INCLUDE, LIB or LIBPATH names directories outside *)
(* the installation, Windows and the SDKs.                                 *)
(***************************************************************************)
EXTENDS Integers, Sequences, FiniteSets, SequencesExt

CONSTANTS
    VersionOrder,  \* versions of the tools and of the SDKs in the order of their names,
    MaxAge         \* and the age, in ticks, up to which a record is reused (max_cache_age)

NoInstallation == "none"
NoToolchain == [source |-> "none"]
NoPrompt == [machine |-> "none"]

\* latest_directory: the last NAME, as text.
LatestOf(versions) ==
    LET named == SelectSeq(VersionOrder, LAMBDA v : v \in versions)
    IN  IF named = <<>> THEN {} ELSE {Last(named)}
VersionsIn(system, installation) == {t[2] : t \in {t \in DOMAIN system.tools : t[1] = installation}}

\* cl.exe, link.exe and lib.exe for the machine.
ToolsPresent(system, tools, machine) ==
    tools \in DOMAIN system.tools /\ machine \in system.tools[tools].machines

\* The cl.exe stamp is the size and time of the file.
StampOf(system, tools) == system.tools[tools].stamp
-----------------------------------------------------------------------------
(* discover_portable_toolchain: nothing of the shell gets in *)

Portable(root, contents, machine) ==
    IF LatestOf(contents.tools) = {} \/ contents.sdk = "none" \/ machine \notin contents.machines
    THEN NoToolchain
    ELSE LET v == CHOOSE v \in LatestOf(contents.tools) : TRUE
         IN  [source |-> "portable", tools |-> <<root, v>>, version |-> v, stamp |-> 0,
              sdk |-> contents.sdk, foreign |-> FALSE, path |-> root, reused |-> FALSE]

\* Roots that are not there are passed over.
PortableRoots(system, roots) == SelectSeq(roots, LAMBDA r : r \in DOMAIN system.roots)
-----------------------------------------------------------------------------
(* Visual Studio: vswhere, vcvarsall, and the prompt *)

FromVisualStudio(system, tools, sdk, foreign, path) ==
    [source |-> "visual_studio", tools |-> tools, version |-> tools[2],
     stamp |-> StampOf(system, tools), sdk |-> sdk, foreign |-> foreign, path |-> path,
     reused |-> FALSE]

\* vcvarsall puts its own in front of what the shell has.
Inherited(shell, installation) ==
    shell.foreign \/ (shell.prompt # NoPrompt /\ shell.prompt.tools[1] # installation)

\* discover_visual_studio_toolchain
Bootstrapped(system, machine) ==
    LET tools == <<system.chosen, system.standard[system.chosen]>>
    IN  IF system.chosen = NoInstallation \/ LatestOf(system.kits) = {}
           \/ ~ToolsPresent(system, tools, machine)
        THEN NoToolchain
        ELSE FromVisualStudio(system, tools, CHOOSE k \in LatestOf(system.kits) : TRUE,
                              Inherited(system.shell, system.chosen),
                              <<"vcvars", system.shell.path>>)

\* adopt_ambient_visual_studio_toolchain: a prompt for the machine, with the tools and
\* the SDK that discovery would find, and nothing foreign in its directories.
PromptAdopted(system, preference, machine) ==
    LET prompt == system.shell.prompt
    IN  /\ preference # "portable"
        /\ prompt.machine = machine
        /\ system.chosen # NoInstallation
        /\ prompt.tools[1] = system.chosen
        /\ LatestOf(VersionsIn(system, system.chosen)) = {prompt.tools[2]}
        /\ ToolsPresent(system, prompt.tools, machine)
        /\ prompt.sdk \in system.kits
        /\ ~system.shell.foreign
        /\ LatestOf(system.kits) = {prompt.sdk}

Adopted(system) ==
    LET prompt == system.shell.prompt
    IN  FromVisualStudio(system, prompt.tools, prompt.sdk, FALSE, <<"shell", system.shell.path>>)
-----------------------------------------------------------------------------
(* The cached environment: VisualStudioToolchainCache *)

NoCached == [kind |-> "none"]

\* environment_is_cacheable, when it is read or written: every directory of INCLUDE, LIB
\* and LIBPATH exists and belongs to the installation, Windows or an SDK.
EnvironmentCacheable(system, toolchain) ==
    /\ ~toolchain.foreign
    /\ toolchain.tools \in DOMAIN system.tools
    /\ toolchain.sdk \in system.kits

\* What a record is not compared with when it is reused.
Untracked(system) ==
    [chosen |-> system.chosen, standard |-> system.standard,
     foreign |-> system.shell.foreign, prompt |-> system.shell.prompt]

\* basis: what of that the discovery saw; the code does not keep it.
CachedOf(system, toolchain, preference, machine, basis) ==
    [kind |-> "record", preference |-> preference, machine |-> machine,
     toolchain |-> toolchain, ambient |-> system.shell.path, age |-> 0, basis |-> basis]

\* try_reuse. An age below zero is a time in the future. link.exe, lib.exe and the
\* installation vswhere names are not looked at.
Vouched(system, cached, preference, machine) ==
    /\ cached.kind = "record"
    /\ cached.age \in 0..MaxAge
    /\ cached.preference = preference /\ cached.machine = machine
    /\ cached.ambient = system.shell.path
    /\ LET tools == cached.toolchain.tools
       IN  /\ LatestOf(VersionsIn(system, tools[1])) = {tools[2]}
           /\ ToolsPresent(system, tools, machine)
           /\ cached.toolchain.stamp = StampOf(system, tools)
    /\ EnvironmentCacheable(system, cached.toolchain)

\* cached_visual_studio_environment_is_fresh: its SDK is still the latest.
LatestKit(system, cached) == LatestOf(system.kits) = {cached.toolchain.sdk}

CachedReusable(system, cached, preference, machine) ==
    Vouched(system, cached, preference, machine) /\ LatestKit(system, cached)
-----------------------------------------------------------------------------
(* MsvcToolchainLocator::discover. `cached` is NoCached for an invocation without cache. *)

Discovered(system, cached, preference, roots, machine) ==
    LET portable == IF preference = "vs" THEN <<>> ELSE PortableRoots(system, roots)
    IN  IF portable # <<>> THEN Portable(portable[1], system.roots[portable[1]], machine)
        ELSE IF preference = "portable" THEN NoToolchain
        ELSE IF CachedReusable(system, cached, preference, machine)
             THEN [cached.toolchain EXCEPT !.reused = TRUE]
        ELSE IF PromptAdopted(system, preference, machine) THEN Adopted(system)
        ELSE Bootstrapped(system, machine)

\* What a discovery finds is saved unless it is portable, reused or not cacheable.
CachedWanted(system, toolchain) ==
    /\ toolchain.source = "visual_studio" /\ ~toolchain.reused
    /\ EnvironmentCacheable(system, toolchain)
=============================================================================
