----------------------------- MODULE Parameters -----------------------------
(***************************************************************************)
(* What MQB reads out of native MSVC options: MsvcParameterEngine and the  *)
(* link policies. An argument is a record [name, value]; the name is the   *)
(* option as the registry classifies it (case folded where the tool folds  *)
(* it), the value whatever follows its colon.                              *)
(*                                                                         *)
(* Everything here only OBSERVES options: arguments go to the tools as     *)
(* they are, so an operator is right when it agrees with the tool that     *)
(* reads the same list.                                                    *)
(***************************************************************************)
EXTENDS Integers, Sequences, FiniteSets, SequencesExt

\* The value of an option that has none.
NoValue == ""

\* Positions of the options with one of these names.
At(args, names) == {i \in DOMAIN args : args[i].name \in names}
Has(args, name) == At(args, {name}) # {}
Latest(args, names) == CHOOSE i \in At(args, names) : \A j \in At(args, names) : j <= i
Values(args, name) == {args[i].value : i \in At(args, {name})}

\* Last option wins: is the last of these options `on`?
Switched(args, on, off, default) ==
    IF At(args, on \cup off) = {} THEN default ELSE args[Latest(args, on \cup off)].name \in on
-----------------------------------------------------------------------------
(* Ownership: the registry's tables, with one representative per row that    *)
(* is treated alike.                                                         *)

SemanticOptions(tool) ==
    CASE tool = "compiler" -> {"MD", "MDd", "MT", "MTd", "std", "GL", "GL-"}
      [] tool = "linker" -> {"MACHINE", "SUBSYSTEM", "LTCG", "LTCG:OFF"}
      [] tool = "librarian" -> {"MACHINE", "LTCG"}

OwnedOptions(tool) ==
    CASE tool = "compiler" -> {"c", "Fo", "Fe", "LD", "link", "ifcOutput", "reference"}
      [] tool = "linker" -> {"DLL", "OUT", "PDB", "IMPLIB", "LIBPATH", "ILK"}
      [] tool = "librarian" -> {"OUT"}

\* The three modes of C are options of their own: only other /std: values are typed.
PassthroughOptions(tool) ==
    CASE tool = "compiler" -> {"I", "external:I", "X", "D", "FI", "O2", "Zl", "openmp", "openmp-",
                               "fsanitize=address", "fno-sanitize-address-vcasan-lib",
                               "fsanitize=fuzzer", "await", "std:c11", "std:c17", "std:clatest"}
      [] tool = "linker" -> {"DEFAULTLIB", "NODEFAULTLIB", "WHOLEARCHIVE", "BASE", "DEF",
                             "ORDER", "STUB", "MANIFESTINPUT", "MANIFEST", "MANIFEST:NO",
                             "MANIFEST:EMBED", "MAP", "DEBUG", "DEBUG:NONE", "DEBUG:FASTLINK",
                             "INFERASANLIBS", "INFERASANLIBS:NO", "VERBOSE"}
      [] tool = "librarian" -> {"NODEFAULTLIB", "LIBPATH", "WX", "VERBOSE"}

Classify(tool, name) ==
    CASE name \in SemanticOptions(tool) -> "semantic"
      [] name \in OwnedOptions(tool) -> "mqb_owned"
      [] name \in PassthroughOptions(tool) -> "passthrough"
      [] OTHER -> "unsupported"

\* Options whose value is the next element of the command line.
TakesOperand(name) == name \in {"I", "D", "U", "FI", "external:I"}

\* What a semantic option selects: a field of the options and its value.
Selects(a) ==
    CASE a.name \in {"MD", "MDd", "MT", "MTd"} -> <<"runtime", a.name>>
      [] a.name = "std" -> <<"standard", a.value>>
      [] a.name \in {"GL", "LTCG"} -> <<"ltcg", TRUE>>
      [] a.name \in {"GL-", "LTCG:OFF"} -> <<"ltcg", FALSE>>
      [] a.name = "MACHINE" -> <<"machine", a.value>>
      [] a.name = "SUBSYSTEM" -> <<"subsystem", a.value>>

\* Values MQB has a type for.
Supported(field, value) ==
    CASE field = "standard" -> value \in {"c++14", "c++17", "c++20", "c++23preview", "c++latest"}
      [] field = "machine" -> value \in {"X86", "X64"}
      [] field = "subsystem" -> value \in {"CONSOLE", "WINDOWS"}
      [] OTHER -> TRUE

Selected(tool, args) ==
    {Selects(args[i]) : i \in At(args, SemanticOptions(tool))}

\* route_compiler, route_linker, route_librarian: everything must be accepted and no
\* two options may select different values for one field.
RouteAccepted(tool, args) ==
    /\ \A i \in DOMAIN args : Classify(tool, args[i].name) \in {"semantic", "passthrough"}
    /\ \A s \in Selected(tool, args) : Supported(s[1], s[2])
    /\ \A s, t \in Selected(tool, args) : s[1] = t[1] => s[2] = t[2]

\* The typed value of a field, or `default` when no option selects it.
Typed(tool, args, field, default) ==
    LET chosen == {s \in Selected(tool, args) : s[1] = field}
    IN  IF chosen = {} THEN default ELSE (CHOOSE s \in chosen : TRUE)[2]

\* The arguments that stay in the tool's command line: all but the typed ones.
Passthrough(tool, args) ==
    SelectSeq(args, LAMBDA a : Classify(tool, a.name) = "passthrough")

\* Include directories and definitions, in order, for discovery.
IncludeDirectories(args) ==
    LET these == SelectSeq(args, LAMBDA a : a.name \in {"I", "external:I"})
    IN  [i \in DOMAIN these |-> these[i].value]
ForcedIncludes(args) ==
    LET these == SelectSeq(args, LAMBDA a : a.name = "FI")
    IN  [i \in DOMAIN these |-> these[i].value]
-----------------------------------------------------------------------------
(* Linker side outputs *)

MapRequested(args) == Has(args, "MAP")
ProgramDatabase(debug, args) ==
    Switched(args, {"DEBUG", "DEBUG:FASTLINK"}, {"DEBUG:NONE"}, debug)
ExternalManifest(args) ==
    Switched(args, {"MANIFEST"}, {"MANIFEST:NO", "MANIFEST:EMBED"}, TRUE)

(* Linker file inputs *)

\* One /DEF and every /MANIFESTINPUT; the last /ORDER and the last /STUB, each in the place
\* of the first (replace_last_wins_input).
LastWins == {"ORDER", "STUB"}
FileInputsValid(args) == Cardinality(At(args, {"DEF"})) <= 1
FileInputPaths(args) ==
    LET listed(i) == /\ args[i].name \in LastWins \cup {"DEF", "MANIFESTINPUT"}
                     /\ args[i].name \in LastWins =>
                          \A j \in At(args, {args[i].name}) : i <= j
        wins(i) == IF args[i].name \in LastWins THEN Latest(args, {args[i].name}) ELSE i
        inOrder == SelectSeq([i \in DOMAIN args |-> i], listed)
    IN  [k \in DOMAIN inOrder |-> args[wins(inOrder[k])].value]
OrderForcesFullLink(args) == Has(args, "ORDER")

\* A manifest input needs the final manifest mode to be EMBED.
ManifestInputsValid(args) ==
    Has(args, "MANIFESTINPUT") =>
        Switched(args, {"MANIFEST:EMBED"}, {"MANIFEST", "MANIFEST:NO"}, FALSE)

\* /BASE:@file,key: only the last /BASE counts, and a number (<<>>) names no file.
BaseFiles(args) ==
    IF Has(args, "BASE") THEN {args[Latest(args, {"BASE"})].value} \ {<<>>} ELSE {}

(* Libraries LINK uses although nobody passes them *)

\* /NODEFAULTLIB without a name excludes all, with a name that library, wherever it
\* stands in the list.
AllowsImplicit(args, lib) ==
    \A i \in At(args, {"NODEFAULTLIB"}) : args[i].value \notin {NoValue, lib}

DefaultLibraries(args) == {lib \in Values(args, "DEFAULTLIB") : AllowsImplicit(args, lib)}
WholeArchives(args) == Values(args, "WHOLEARCHIVE")

RuntimeOf(debug, runtime) ==
    IF runtime # NoValue THEN runtime ELSE IF debug THEN "MDd" ELSE "MD"

AddressSanitizer(cl) == Has(cl, "fsanitize=address")
Vcasan(cl) == /\ AddressSanitizer(cl)
              /\ At(cl, {"Zl", "fno-sanitize-address-vcasan-lib"}) = {}
Fuzzer(cl) == Has(cl, "fsanitize=fuzzer")
OpenMp(cl) == Switched(cl, {"openmp"}, {"openmp-"}, FALSE)
InferAsan(args) == Switched(args, {"INFERASANLIBS"}, {"INFERASANLIBS:NO"}, TRUE)

\* From tools 14.37 the runtimes are unified and only the thunk tells the CRT apart.
AsanLibraries(runtime, modern, dll) ==
    LET static == runtime \in {"MT", "MTd"}
        debug == runtime \in {"MDd", "MTd"}
    IN  CASE modern -> {"asan_dynamic", IF static THEN "asan_static_thunk"
                                                  ELSE "asan_dynamic_thunk"}
          [] ~modern /\ ~static -> {IF debug THEN "asan_dbg_dynamic" ELSE "asan_dynamic",
                                    IF debug THEN "asan_dbg_dynamic_thunk"
                                             ELSE "asan_dynamic_thunk"}
          [] ~modern /\ static /\ dll -> {IF debug THEN "asan_dbg_dll_thunk"
                                                   ELSE "asan_dll_thunk"}
          [] OTHER -> {IF debug THEN "asan_dbg" ELSE "asan",
                       IF debug THEN "asan_cxx_dbg" ELSE "asan_cxx"}

VcasanLibrary(runtime) ==
    CASE runtime = "MT" -> "libvcasan" [] runtime = "MTd" -> "libvcasand"
      [] runtime = "MD" -> "vcasan" [] OTHER -> "vcasand"
FuzzerLibrary(runtime) == "fuzzer_" \o runtime
OpenMpLibraries == {"vcomp", "vcompd"}

\* Runtime libraries that must be found: those the sanitizers make LINK look for.
SanitizerLibraries(cl, args, debug, runtime, modern, dll) ==
    LET rt == RuntimeOf(debug, runtime)
    IN  (IF AddressSanitizer(cl) /\ InferAsan(args)
         THEN AsanLibraries(rt, modern, dll) ELSE {})
        \cup {lib \in (IF Vcasan(cl) THEN {VcasanLibrary(rt)} ELSE {})
                        \cup (IF Fuzzer(cl) THEN {FuzzerLibrary(rt)} ELSE {}) :
                AllowsImplicit(args, lib)}

\* Runtime libraries that are followed where they exist.
OpenMpCandidates(cl, args) ==
    IF OpenMp(cl) THEN {lib \in OpenMpLibraries : AllowsImplicit(args, lib)} ELSE {}
=============================================================================
