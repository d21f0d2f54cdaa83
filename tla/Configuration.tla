---------------------------- MODULE Configuration ----------------------------
(***************************************************************************)
(* From a command line and mqb.json to the options a target is built with: *)
(* the argument parser, the schema of the project file, the routing of     *)
(* native options in every layer and the resolution of the layers.         *)
(*                                                                         *)
(* A token of the command line is a record [opt, name, value]: the option, *)
(* for a native MSVC option its name, and its value (NoValue: missing or   *)
(* empty). A JSON value is a pair of its kind and its content. A layer is  *)
(* what one source of options selects: [typed, lists, providers].          *)
(***************************************************************************)
EXTENDS Parameters

Tools == {"compiler", "linker", "librarian"}
PathLists == {"include_dirs", "library_dirs", "exclude_dirs", "extra_sources", "exclude_sources"}
ListKeys == Tools \cup PathLists \cup {"defines", "libraries"}
NoHeader == <<>>

EmptyLayer == [typed |-> <<>>, lists |-> [k \in ListKeys |-> <<>>], providers |-> <<>>]

Defaults ==
    [configuration |-> "debug", machine |-> "X64", standard |-> "c++23preview",
     kind |-> "executable", runtime |-> NoValue, ltcg |-> FALSE, subsystem |-> "CONSOLE",
     pch |-> NoHeader, output |-> NoValue, discover |-> TRUE]

\* The words of the command line and of mqb.json for the value of a field.
Spellings ==
    [configuration |-> [debug |-> "debug", release |-> "release"],
     machine |-> [x86 |-> "X86", x64 |-> "X64"],
     standard |-> [w \in {"14", "c++14"} |-> "c++14"] @@ [w \in {"17", "c++17"} |-> "c++17"]
         @@ [w \in {"20", "c++20"} |-> "c++20"] @@ [w \in {"23", "c++23"} |-> "c++23preview"]
         @@ [w \in {"latest", "c++latest"} |-> "c++latest"],
     kind |-> [w \in {"exe", "executable"} |-> "executable"]
         @@ [w \in {"dll", "dynamic"} |-> "dynamic"] @@ [w \in {"static", "lib"} |-> "static"],
     runtime |-> [w \in {"MD", "md"} |-> "MD"] @@ [w \in {"MDd", "mdd"} |-> "MDd"]
         @@ [w \in {"MT", "mt"} |-> "MT"] @@ [w \in {"MTd", "mtd"} |-> "MTd"],
     subsystem |-> [console |-> "CONSOLE", windows |-> "WINDOWS"]]

\* Paths are resolved against the directory of the layer that names them.
Based(base, key, items) ==
    IF key \in PathLists THEN [i \in DOMAIN items |-> <<base, items[i]>>] ELSE items

Select(layer, field, value) == [layer EXCEPT !.typed = (field :> value) @@ @]
Extend(layer, key, items) == [layer EXCEPT !.lists[key] = @ \o items]
-----------------------------------------------------------------------------
(* The command line: app/cli/Cli.cpp *)

Flags ==
    ("--debug" :> <<"configuration", "debug">>) @@ ("--release" :> <<"configuration", "release">>)
    @@ ("--x86" :> <<"machine", "X86">>) @@ ("--x64" :> <<"machine", "X64">>)
    @@ ("--ltcg" :> <<"ltcg", TRUE>>) @@ ("--no-ltcg" :> <<"ltcg", FALSE>>)
    @@ ("--discover" :> <<"discover", TRUE>>) @@ ("--no-discover" :> <<"discover", FALSE>>)
Worded ==
    ("--type" :> "kind") @@ ("--config" :> "configuration") @@ ("--std" :> "standard")
    @@ ("--runtime" :> "runtime") @@ ("--subsystem" :> "subsystem")
Listed ==
    ("-I" :> "include_dirs") @@ ("-D" :> "defines") @@ ("-L" :> "library_dirs")
    @@ ("--lib-path" :> "library_dirs") @@ ("-l" :> "libraries") @@ ("--lib" :> "libraries")
NativeLists == ("--compiler-arg" :> "compiler") @@ ("--linker-arg" :> "linker")
                   @@ ("native" :> "compiler")
Silent == {"--verbose", "--timings"}
Chosen == ("--jobs" :> {"auto", "1", "8"}) @@ ("--env" :> {"auto", "vs", "portable"})
Separators == ("/link" :> "linker") @@ ("/lib" :> "librarian")
LongOptions ==
    DOMAIN Flags \cup DOMAIN Worded \cup DOMAIN Chosen \cup Silent
    \cup {"--compiler-arg", "--linker-arg", "--lib", "--lib-path", "--profile", "--pch",
          "--no-pch", "--run", "--output", "--module-ifc", "--portable-root", "--help",
          "--format", "--unknown"}

Unparsed == [ok |-> TRUE, command |-> "direct", mode |-> "options", bare |-> FALSE,
             sources |-> <<>>, profile |-> NoValue, run |-> FALSE, runArgs |-> 0,
             help |-> FALSE, preference |-> "auto", roots |-> <<>>, layer |-> EmptyLayer]
Rejected == [Unparsed EXCEPT !.ok = FALSE]

NativeArgument(t) ==
    [name |-> IF t.name # NoValue THEN t.name ELSE t.opt, value |-> t.value]
Choosing(s, field, value) == [s EXCEPT !.layer = Select(@, field, value)]
Adding(s, key, item) == [s EXCEPT !.layer = Extend(@, key, <<item>>)]

\* After /link or /lib everything is for the tool, up to `--`.
TailToken(s, t) ==
    IF t.opt \in LongOptions \/ (t.opt \in DOMAIN Separators /\ Separators[t.opt] = s.mode)
    THEN Rejected
    ELSE [Adding(s, s.mode, NativeArgument(t)) EXCEPT !.bare = FALSE]

SeparatorToken(s, t) ==
    IF s.command = "direct" /\ s.sources = <<>> THEN Rejected
    ELSE [s EXCEPT !.mode = Separators[t.opt], !.bare = TRUE]

\* --profile, --pch and --no-pch are given once.
ProfileToken(s, t) ==
    IF t.value = NoValue \/ s.profile # NoValue THEN Rejected ELSE [s EXCEPT !.profile = t.value]
PchToken(s, t) ==
    IF "pch" \in DOMAIN s.layer.typed \/ (t.opt = "--pch" /\ t.value = NoValue) THEN Rejected
    ELSE Choosing(s, "pch", IF t.opt = "--pch" THEN <<"cwd", t.value>> ELSE NoHeader)

RunToken(s) == IF s.command = "build" THEN Rejected ELSE [s EXCEPT !.run = TRUE]

\* name=path; one provider for a logical name.
ProviderToken(s, t) ==
    IF \/ t.value = NoValue \/ t.name = NoValue
       \/ \E i \in DOMAIN s.layer.providers : s.layer.providers[i][1] = t.name
    THEN Rejected
    ELSE [s EXCEPT !.layer.providers = Append(@, <<t.name, <<"cwd", t.value>>>>)]

ChosenToken(s, t) ==
    IF t.value \notin Chosen[t.opt] THEN Rejected
    ELSE IF t.opt = "--env" THEN [s EXCEPT !.preference = t.value] ELSE s

WordedToken(s, t) ==
    LET field == Worded[t.opt]
    IN  IF t.value \notin DOMAIN Spellings[field] THEN Rejected
        ELSE Choosing(s, field, Spellings[field][t.value])

ListedToken(s, t) ==
    IF t.value = NoValue THEN Rejected
    ELSE [s EXCEPT !.layer = Extend(@, Listed[t.opt], Based("cwd", Listed[t.opt], <<t.value>>))]

\* A native option that takes an operand has one.
NativeToken(s, t) ==
    IF t.name = NoValue \/ (t.opt = "native" /\ TakesOperand(t.name) /\ t.value = NoValue)
    THEN Rejected ELSE Adding(s, NativeLists[t.opt], NativeArgument(t))

OptionToken(s, t) ==
    CASE t.opt \in DOMAIN Separators -> SeparatorToken(s, t)
      [] t.opt \in Silent -> s
      [] t.opt = "--help" -> [s EXCEPT !.help = TRUE]
      [] t.opt = "--profile" -> ProfileToken(s, t)
      [] t.opt \in {"--pch", "--no-pch"} -> PchToken(s, t)
      [] t.opt \in DOMAIN Flags -> Choosing(s, Flags[t.opt][1], Flags[t.opt][2])
      [] t.opt = "--run" -> RunToken(s)
      [] t.opt \in DOMAIN Chosen -> ChosenToken(s, t)
      [] t.opt = "--output" /\ t.value # NoValue -> Choosing(s, "output", t.value)
      [] t.opt \in DOMAIN Worded -> WordedToken(s, t)
      [] t.opt = "--module-ifc" -> ProviderToken(s, t)
      [] t.opt \in DOMAIN NativeLists -> NativeToken(s, t)
      [] t.opt = "--portable-root" /\ t.value # NoValue -> [s EXCEPT !.roots = Append(@, t.value)]
      [] t.opt \in DOMAIN Listed -> ListedToken(s, t)
      [] t.opt = "source" -> [s EXCEPT !.sources = Append(@, t.value)]
      [] OTHER -> Rejected

ParseToken(s, t) ==
    IF ~s.ok THEN s
    ELSE IF s.mode = "child" THEN [s EXCEPT !.runArgs = @ + 1]
    ELSE IF t.opt = "--" THEN [s EXCEPT !.mode = "child"]
    ELSE IF s.mode = "options" THEN OptionToken(s, t) ELSE TailToken(s, t)

CommandWords == {"build", "run"}
StartsWith(tokens, word) == tokens # <<>> /\ tokens[1].opt = "source" /\ tokens[1].value = word

\* parse_arguments
ParseArguments(tokens) ==
    LET named == \E w \in CommandWords : StartsWith(tokens, w)
        start == IF named THEN [Unparsed EXCEPT !.command = tokens[1].value,
                                                !.run = (tokens[1].value = "run")]
                          ELSE Unparsed
        s == FoldLeft(ParseToken, start, IF named THEN Tail(tokens) ELSE tokens)
        complete == \/ s.help
                    \/ /\ s.command = "direct" => s.sources # <<>>
                       /\ s.runArgs > 0 => s.run
    IN  IF s.ok /\ ~s.bare /\ complete THEN s ELSE Rejected
-----------------------------------------------------------------------------
(* mqb.json: config/schema/ProjectConfigSchema.cpp *)

\* A value is <<kind, content>>; the content of an object is a function of its members.
NoConfig == <<"absent">>
Kind(v) == v[1]
Content(v) == v[2]
Member(o, key) == IF key \in DOMAIN Content(o) THEN {Content(o)[key]} ELSE {}

BuildFields ==
    [configuration |-> "configuration", architecture |-> "machine", standard |-> "standard",
     runtime |-> "runtime", ltcg |-> "ltcg", subsystem |-> "subsystem", type |-> "kind",
     pch |-> "pch", output |-> "output"]
BuildLists ==
    [defines |-> "defines", include_dirs |-> "include_dirs", library_dirs |-> "library_dirs",
     libraries |-> "libraries", compiler_args |-> "compiler", linker_args |-> "linker",
     librarian_args |-> "librarian"]
DiscoveryFields == [enabled |-> "discover"]
DiscoveryLists == [k \in {"exclude_dirs", "extra_sources", "exclude_sources"} |-> k]
SchemaFields == BuildFields @@ DiscoveryFields
SchemaLists == BuildLists @@ DiscoveryLists

KnownMembers ==
    [root |-> {"version", "build", "discovery", "modules", "profiles"},
     profile |-> {"build", "discovery", "modules"},
     build |-> DOMAIN BuildFields \cup DOMAIN BuildLists \cup {"entry"},
     discovery |-> DOMAIN DiscoveryFields \cup DOMAIN DiscoveryLists,
     modules |-> {"external"}]

\* require_object and reject_unknown.
ObjectOf(o, scope) == Kind(o) = "object" /\ DOMAIN Content(o) \subseteq KnownMembers[scope]
NonEmptyString(v) == Kind(v) = "string" /\ Content(v) # NoValue
Strings(v, key) ==
    /\ Kind(v) = "array"
    /\ \A i \in DOMAIN Content(v) :
         NoValue # IF SchemaLists[key] \in Tools THEN Content(v)[i].name ELSE Content(v)[i]

\* A header, or false: a profile or the command line may switch a header off.
PchMember(v) == NonEmptyString(v) \/ (Kind(v) = "bool" /\ ~Content(v))

MemberAccepted(key, v) ==
    CASE key \in {"ltcg", "enabled"} -> Kind(v) = "bool"
      [] key = "pch" -> PchMember(v)
      [] key \in {"output", "entry"} -> NonEmptyString(v)
      [] key \in DOMAIN SchemaLists -> Strings(v, key)
      [] OTHER -> Kind(v) = "string" /\ Content(v) \in DOMAIN Spellings[SchemaFields[key]]

SectionAccepted(o, scope) ==
    ObjectOf(o, scope) /\ \A key \in DOMAIN Content(o) : MemberAccepted(key, Content(o)[key])

ModulesAccepted(o) ==
    /\ ObjectOf(o, "modules")
    /\ \A e \in Member(o, "external") :
         /\ Kind(e) = "object"
         /\ \A name \in DOMAIN Content(e) : name # NoValue /\ NonEmptyString(Content(e)[name])

LayerAccepted(o) ==
    /\ \A b \in Member(o, "build") : SectionAccepted(b, "build")
    /\ \A d \in Member(o, "discovery") : SectionAccepted(d, "discovery")
    /\ \A x \in Member(o, "modules") : ModulesAccepted(x)

\* The entry is the project's, never a profile's.
ProfileAccepted(o) ==
    /\ ObjectOf(o, "profile")
    /\ \A b \in Member(o, "build") : Kind(b) = "object" /\ Member(b, "entry") = {}
    /\ LayerAccepted(o)

ProfilesAccepted(o) ==
    /\ Kind(o) = "object"
    /\ \A name \in DOMAIN Content(o) : name # NoValue /\ ProfileAccepted(Content(o)[name])

\* decode_project_config: the version is the number 1.
ConfigAccepted(o) ==
    /\ ObjectOf(o, "root")
    /\ Member(o, "version") # {}
    /\ \A v \in Member(o, "version") : Kind(v) = "number" /\ Content(v) = 1
    /\ LayerAccepted(o)
    /\ \A p \in Member(o, "profiles") : ProfilesAccepted(p)

FieldValue(key, v) ==
    CASE key = "pch" -> IF Kind(v) = "bool" THEN NoHeader ELSE <<"root", Content(v)>>
      [] key \in {"ltcg", "enabled", "output"} -> Content(v)
      [] OTHER -> Spellings[SchemaFields[key]][Content(v)]

Providers(o) ==
    LET external == UNION {Member(x, "external") : x \in Member(o, "modules")}
    IN  IF external = {} THEN <<>>
        ELSE LET e == CHOOSE x \in external : TRUE
             IN  SetToSeq({<<name, <<"root", Content(Content(e)[name])>>>> : name \in DOMAIN Content(e)})

\* decode_build, decode_discovery and decode_modules of an accepted object.
LayerOf(o) ==
    LET given == FoldSet(LAMBDA section, all : Content(section) @@ all, <<>>,
                         Member(o, "build") \cup Member(o, "discovery"))
        keyOf(names, x) == {k \in DOMAIN names \cap DOMAIN given : names[k] = x}
    IN  [typed |-> [f \in {SchemaFields[k] : k \in DOMAIN SchemaFields \cap DOMAIN given} |->
                      LET k == CHOOSE k \in keyOf(SchemaFields, f) : TRUE
                      IN  FieldValue(k, given[k])],
         lists |-> [x \in ListKeys |->
                      IF keyOf(SchemaLists, x) = {} THEN <<>>
                      ELSE LET k == CHOOSE k \in keyOf(SchemaLists, x) : TRUE
                           IN  Based("root", x, Content(given[k]))],
         providers |-> Providers(o)]
-----------------------------------------------------------------------------
(* The layers: app/project/ProjectSetup.cpp and config/resolution *)

Routes(layer) == UNION {Selected(tool, layer.lists[tool]) : tool \in Tools}

\* Every tool accepts its options, and what they select agrees between the tools and
\* with what the layer selects by name.
LayerRoutable(layer) ==
    /\ \A tool \in Tools : RouteAccepted(tool, layer.lists[tool])
    /\ FileInputsValid(layer.lists["linker"])
    /\ \A s, t \in Routes(layer) : s[1] = t[1] => s[2] = t[2]
    /\ \A s \in Routes(layer) : s[1] \in DOMAIN layer.typed => layer.typed[s[1]] = s[2]

\* normalize_native_parameters: a native option that has a type becomes a typed value.
Normalized(layer) ==
    LET routed == [f \in {s[1] : s \in Routes(layer)} |->
                     (CHOOSE s \in Routes(layer) : s[1] = f)[2]]
    IN  [layer EXCEPT !.typed = @ @@ routed,
                      !.lists = [k \in ListKeys |-> IF k \in Tools THEN Passthrough(k, @[k])
                                                                  ELSE @[k]]]

Provide(providers, p) ==
    IF \E i \in DOMAIN providers : providers[i][1] = p[1]
    THEN [i \in DOMAIN providers |-> IF providers[i][1] = p[1] THEN p ELSE providers[i]]
    ELSE Append(providers, p)

\* Mutant of Apply: a value that is there is kept.
ApplyKept(effective, layer) ==
    [typed |-> [f \in DOMAIN effective.typed |->
                  IF f \in DOMAIN layer.typed /\ effective.typed[f] = Defaults[f]
                  THEN layer.typed[f] ELSE effective.typed[f]],
     lists |-> [k \in ListKeys |-> effective.lists[k] \o layer.lists[k]],
     providers |-> FoldLeft(Provide, effective.providers, layer.providers)]

\* apply_build, apply_discovery and apply_modules.
Apply(effective, layer) ==
    [typed |-> layer.typed @@ effective.typed,
     lists |-> [k \in ListKeys |-> effective.lists[k] \o layer.lists[k]],
     providers |-> FoldLeft(Provide, effective.providers, layer.providers)]

\* resolve_project_options
Resolve(layers) ==
    FoldLeft(Apply, [EmptyLayer EXCEPT !.typed = Defaults],
             [i \in DOMAIN layers |-> Normalized(layers[i])])

\* One module-definition file in all the layers.
FilesResolvable(layers) == FileInputsValid(Resolve(layers).lists["linker"])

\* The project's own layer, the profile that was asked for, the command line.
ProfilesOf(config) ==
    UNION {{<<name, Content(o)[name]>> : name \in DOMAIN Content(o)} : o \in Member(config, "profiles")}
LayersOf(parsed, config) ==
    (IF config = NoConfig THEN <<>> ELSE <<LayerOf(config)>>)
    \o (IF parsed.profile = NoValue THEN <<>>
        ELSE <<LayerOf((CHOOSE p \in ProfilesOf(config) : p[1] = parsed.profile)[2])>>)
    \o <<parsed.layer>>

\* prepare_project: what makes it fail.
SetupAccepted(parsed, config) ==
    /\ config # NoConfig => ConfigAccepted(config)
    /\ parsed.profile # NoValue =>
         config # NoConfig /\ \E p \in ProfilesOf(config) : p[1] = parsed.profile
    /\ LET layers == LayersOf(parsed, config)
           effective == Resolve(layers)
       IN  /\ \A i \in DOMAIN layers : LayerRoutable(layers[i])
           /\ FilesResolvable(layers)
           /\ ManifestInputsValid(effective.lists["linker"])
           /\ parsed.run => effective.typed["kind"] = "executable"

\* Was the subsystem chosen, by name or by a native option?
SubsystemChosen(layers) ==
    \E i \in DOMAIN layers : "subsystem" \in DOMAIN Normalized(layers[i]).typed

\* Where discovery looks for headers: include directories, then those of native options.
DiscoveryIncludes(layers) ==
    Resolve(layers).lists["include_dirs"]
    \o FlattenSeq([i \in DOMAIN layers |->
            Based(IF i = Len(layers) THEN "cwd" ELSE "root", "include_dirs",
                  IncludeDirectories(layers[i].lists["compiler"]))])
=============================================================================
