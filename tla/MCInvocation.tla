---------------------------- MODULE MCInvocation ----------------------------
(* Four worlds of Invocation: the layers of options, the commands, a project *)
(* that is edited, and a machine whose tools change.                         *)
EXTENDS Invocation

MCDirectories == <<".", "sub">>
MCPaths == <<"legacy.c", "main.cpp", "part.ixx", "pch.h", "tool.cpp", "util.cpp", "util.h",
             "sub/util.h">>
MCDirOf(p) == IF p = "sub/util.h" THEN "sub" ELSE "."
MCNameOf(p) == IF p = "sub/util.h" THEN "util.h" ELSE p
MCStemOf(p) == CASE p \in {"util.cpp", "util.h", "sub/util.h"} -> "util" [] OTHER -> p
MCKindOf(p) == CASE p \in {"pch.h", "util.h", "sub/util.h"} -> "header"
                 [] p = "part.ixx" -> "interface" [] OTHER -> "source"
MCIsC(p) == p = "legacy.c"
MCConventional == {"main.cpp", "legacy.c"}
MCVersionOrder == <<"10", "11", "14.44", "14.50", "custom">>
MCReleaseOf(v) == CASE v = "14.44" -> "before" [] v = "14.50" -> "after" [] OTHER -> "unknown"

Text(quoted, angle, main, module, imports) ==
    [there |-> TRUE, quoted |-> quoted, angle |-> angle, main |-> main, module |-> module,
     imports |-> imports]
Plain == Text(<<>>, <<>>, FALSE, NoModule, {})
UsesUtil == Text(<<"util.h">>, <<>>, TRUE, NoModule, {})
Imports == Text(<<>>, <<>>, TRUE, NoModule, {"part"})
Interface == Text(<<>>, <<>>, FALSE, "part", {})
Program == Text(<<"util.h">>, <<>>, TRUE, NoModule, {})

Disk(texts) == [p \in ToSet(MCPaths) |-> IF p \in DOMAIN texts THEN texts[p] ELSE Absent]
Small == ("main.cpp" :> UsesUtil) @@ ("util.h" :> Plain) @@ ("util.cpp" :> Plain)
MCDisksOf(r) ==
    CASE r = "layers" -> {Disk(("main.cpp" :> Plain) @@ ("pch.h" :> Plain))}
      [] r = "commands" -> {Disk(Small @@ ("pch.h" :> Plain)),
                            Disk(("main.cpp" :> Imports) @@ ("part.ixx" :> Interface)),
                            Disk(("main.cpp" :> Plain) @@ ("legacy.c" :> Plain))}
      [] r = "discovery" -> {Disk(Small @@ ("sub/util.h" :> Plain))}
      [] r = "toolchain" -> {Disk("main.cpp" :> Plain)}
MCEditsOf(r) ==
    IF r # "discovery" THEN {}
    ELSE {<<"util.h", Plain>>, <<"util.h", Absent>>, <<"util.cpp", Plain>>, <<"util.cpp", Program>>}

T(opt, name, value) == [opt |-> opt, name |-> name, value |-> value]
O(opt, value) == T(opt, NoValue, value)
N(name, value) == T("native", name, value)
Arg(name, value) == [name |-> name, value |-> value]
Source(p) == O("source", p)

String(v) == <<"string", v>>
Bool(v) == <<"bool", v>>
Array(v) == <<"array", v>>
Object(members) == <<"object", members>>
Config(members) == Object(("version" :> <<"number", 1>>) @@ members)
Build(members) == "build" :> Object(members)
Profiles(members) == "profiles" :> Object(members)

Layered ==
    Config(
        Build(("standard" :> String("c++20")) @@ ("runtime" :> String("MD"))
              @@ ("defines" :> Array(<<"ONE">>)) @@ ("compiler_args" :> Array(<<Arg("D", "TWO")>>))
              @@ ("linker_args" :> Array(<<Arg("DEF", "a.def"), Arg("SUBSYSTEM", "WINDOWS")>>)))
        @@ ("modules" :> Object("external" :> Object("part" :> String("part.ifc"))))
        @@ Profiles(
             ("fast" :> Object(Build(("configuration" :> String("release"))
                                     @@ ("compiler_args" :> Array(<<Arg("GL", ""), Arg("MT", "")>>)))
                               @@ ("modules" :> Object("external" :>
                                                       Object("part" :> String("fast.ifc"))))))
             @@ ("plain" :> Object("discovery" :> Object("enabled" :> Bool(FALSE))))
             @@ ("twice" :> Object(Build("linker_args" :> Array(<<Arg("DEF", "b.def")>>))))))
Headed ==
    Config(Build(("pch" :> String("pch.h")) @@ ("type" :> String("static"))
                 @@ ("librarian_args" :> Array(<<Arg("WX", "")>>))
                 @@ ("include_dirs" :> Array(<<"sub">>)))
           @@ Profiles("plain" :> Object(Build(("pch" :> Bool(FALSE)) @@ ("ltcg" :> Bool(TRUE))))))
Malformed ==
    {Object("build" :> Object("entry" :> String("main.cpp"))),
     Config(Build("type" :> String("exotic"))),
     Config(Build("pch" :> Bool(TRUE))),
     Config("build" :> Bool(TRUE)),
     Config("colour" :> String("red")),
     Config(Profiles("fast" :> Object(Build("entry" :> String("main.cpp"))))),
     Config(Build(("runtime" :> String("MD")) @@ ("compiler_args" :> Array(<<Arg("MT", "")>>))))}
Corrected ==
    Config(("build" :> Object("entry" :> String("main.cpp")))
           @@ ("discovery" :> Object(("extra_sources" :> Array(<<"util.cpp">>))
                                     @@ ("exclude_dirs" :> Array(<<"sub">>)))))
MCConfigsOf(r) ==
    CASE r = "layers" -> {NoConfig, Layered, Headed} \cup Malformed
      [] r = "commands" -> {NoConfig, Headed}
      [] r = "discovery" -> {NoConfig, Corrected}
      [] r = "toolchain" -> {NoConfig}

\* Words of the command line, one per rule of the parser.
ProfileWords == {<<>>, <<O("--profile", "fast")>>, <<O("--profile", "plain")>>,
                 <<O("--profile", "twice")>>}
OptionWords ==
    {<<>>, <<O("--runtime", "MD")>>, <<N("MTd", "")>>, <<O("--runtime", "MD"), N("MTd", "")>>,
     <<N("std", "c++17")>>, <<O("--std", "99")>>, <<O("--release", ""), O("--std", "14")>>,
     <<O("--ltcg", "")>>, <<O("--no-ltcg", ""), N("GL", "")>>, <<O("--pch", "pch.h")>>,
     <<O("--no-pch", "")>>, <<O("--no-pch", ""), O("--pch", "pch.h")>>,
     <<O("-D", "THREE"), N("D", "FOUR")>>, <<N("D", "")>>, <<O("-I", "sub"), N("I", "sub")>>,
     <<O("-L", "lib"), O("-l", "a.lib")>>, <<O("--lib", "")>>,
     <<O("/link", ""), T("native", "SUBSYSTEM", "CONSOLE")>>, <<O("/link", "")>>,
     <<O("/link", ""), T("native", "DEF", "c.def")>>, <<O("/link", ""), O("--release", "")>>,
     <<O("/link", ""), T("native", "MANIFESTINPUT", "m")>>,
     <<O("/link", ""), O("/link", "")>>, <<O("/lib", ""), T("native", "MACHINE", "X86")>>,
     <<O("--type", "static")>>, <<O("--type", "dll"), O("--x86", "")>>,
     <<T("--module-ifc", "part", "mine.ifc")>>,
     <<T("--module-ifc", "part", "a.ifc"), T("--module-ifc", "part", "b.ifc")>>,
     <<O("--run", "")>>, <<O("--run", ""), O("--", ""), O("source", "x")>>,
     <<O("--", ""), O("source", "x")>>, <<O("--type", "static"), O("--run", "")>>,
     <<O("--help", "")>>, <<O("--jobs", "0")>>, <<O("--jobs", "8"), O("--output", "app")>>,
     <<O("--env", "vs")>>, <<O("--unknown", "")>>, <<N("Fo", "x")>>, <<N("unheard", "")>>,
     <<O("--compiler-arg", ""), O("--verbose", "")>>, <<T("--compiler-arg", "O2", "")>>,
     <<O("source", "main.cpp")>>, <<O("source", "gone.cpp")>>}
NoDiscover == O("--no-discover", "")
Request1(verb, words) == [verb |-> verb, words |-> words]

\* What plan, build and compdb are asked in the regime of the commands.
AskedWords ==
    {<<>>, <<O("--no-discover", "")>>, <<O("--type", "static")>>, <<O("--pch", "pch.h")>>,
     <<Source("main.cpp"), Source("part.ixx"), O("--type", "static")>>,
     <<Source("main.cpp"), N("FI", "pch.h")>>,
     <<Source("main.cpp"), Source("legacy.c"), O("--pch", "pch.h")>>,
     <<O("--type", "static"), O("/lib", ""), T("native", "WX", "")>>,
     <<O("/lib", ""), T("native", "WX", "")>>,
     <<O("/link", ""), T("native", "DEBUG:FASTLINK", "")>>, <<N("await", "")>>,
     <<O("--no-discover", ""), O("--type", "static"), O("-l", "a.lib")>>,
     <<O("--no-discover", ""), O("--portable-root", "odd"), N("await", "")>>,
     <<O("--env", "portable"), O("--no-discover", "")>>}
MCRequestsOf(r) ==
    CASE r = "layers" ->
           {Request1("direct", <<Source("main.cpp"), NoDiscover>> \o p \o w) :
              p \in ProfileWords, w \in OptionWords}
           \cup {Request1("direct", <<>>), Request1("direct", <<O("/link", "")>>)}
      [] r = "commands" ->
           {Request1(v, w) : v \in {"plan", "build", "compdb"}, w \in AskedWords}
           \cup {Request1("run", <<NoDiscover>>), Request1("build", <<O("--run", "")>>)}
           \cup {Request1(v, <<NoDiscover, O(o, x)>>) : v \in {"plan", "compdb"},
                   o \in {"--format", "--output"}, x \in {"", "text", "db.json"}}
      [] r = "discovery" ->
           {Request1(v, <<Source("main.cpp"), O("-I", "sub")>>) : v \in {"build", "plan"}}
      [] r = "toolchain" ->
           {Request1(v, <<Source("main.cpp"), NoDiscover, O("/link", ""),
                          T("native", "DEBUG:FASTLINK", "")>>) : v \in {"build", "plan"}}
           \cup {Request1("build", <<Source("main.cpp"), NoDiscover, O("--env", "vs")>>)}

\* Two installations; the first may get a second version of its tools.
Shell(path, foreign, prompt) == [path |-> path, foreign |-> foreign, prompt |-> prompt]
Prompt(tools) == [machine |-> "X64", tools |-> tools, sdk |-> "10"]
Shells == {Shell("user", FALSE, NoPrompt), Shell("prompt", FALSE, Prompt(<<"A", "14.44">>))}
Version(stamp) == [stamp |-> stamp, machines |-> {"X64"}]
Old(stamp) == (<<"A", "14.44">> :> Version(stamp)) @@ (<<"B", "14.44">> :> Version(0))
Tooling == \* what is installed, and the version vcvarsall selects in A
    {<<Old(s), "14.44">> : s \in 0..1}
    \cup {<<(<<"A", "14.50">> :> Version(0)) @@ Old(0), "14.50">>}
System(chosen, standard, tools, kits, roots, shell) ==
    [chosen |-> chosen, standard |-> ("A" :> standard) @@ ("B" :> "14.44"), tools |-> tools,
     kits |-> kits, roots |-> roots, shell |-> shell]
Usual == System("A", "14.44", Old(0), {"10"},
                [r \in {} |-> 0], Shell("user", FALSE, NoPrompt))
Odd == "odd" :> [tools |-> {"custom"}, sdk |-> "10", machines |-> {"X64"}]
Broken == "." :> [tools |-> {}, sdk |-> "10", machines |-> {"X64"}]
MCSystemsOf(r) ==
    CASE r \in {"layers", "discovery"} -> {Usual}
      [] r = "commands" -> {[Usual EXCEPT !.roots = Odd, !.standard["A"] = "14.50",
                                           !.tools = (<<"A", "14.50">> :> Version(0)) @@ @,
                                           !.shell.foreign = TRUE],
                            [Usual EXCEPT !.roots = Broken]}
      [] r = "toolchain" -> {Usual}
MCChangesOf(r, s) ==
    IF r # "toolchain" THEN {}
    ELSE ({[s EXCEPT !.chosen = i] : i \in {"A", "B"}}
          \cup {[s EXCEPT !.tools = t[1], !.standard["A"] = t[2]] : t \in Tooling}
          \cup {[s EXCEPT !.kits = k] : k \in {{"10"}, {"10", "11"}}}
          \cup {[s EXCEPT !.shell = x] : x \in Shells}) \ {s}
=============================================================================
