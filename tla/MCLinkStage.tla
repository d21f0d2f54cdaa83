---------------------------- MODULE MCLinkStage ----------------------------
EXTENDS LinkStage

Opt(name) == [name |-> name, value |-> NoValue]
Arg(name, value) == [name |-> name, value |-> value]
MCOrder == <<"a", "b", "c">>
MCExplicit == {<<0, "def">>}

\* A debug link; a release DLL with a map, a /DEF file and a default library; a DLL
\* whose base address is read from a file found along LIB.
MCOptions ==
    {[debug |-> TRUE, runtime |-> NoValue, dll |-> FALSE, requested |-> {"a"},
      cl |-> <<>>, args |-> <<Opt("MANIFEST:NO")>>],
     [debug |-> FALSE, runtime |-> NoValue, dll |-> TRUE, requested |-> {"a"}, cl |-> <<>>,
      args |-> <<Arg("DEFAULTLIB", "b"), Opt("MAP"), Arg("DEF", <<0, "def">>),
                 Opt("MANIFEST:EMBED")>>],
     [debug |-> FALSE, runtime |-> NoValue, dll |-> TRUE, requested |-> {"a"}, cl |-> <<>>,
      args |-> <<Arg("BASE", <<1, "c">>)>>]}
MCDirectives(r) == IF r = 1 THEN {} ELSE {"b"}
MCPlacements == {{<<2, "a">>, <<2, "b">>, <<2, "c">>, <<0, "def">>}}
MCEditable == {<<1, "b">>, <<1, "c">>, <<2, "a">>, <<2, "b">>, <<0, "def">>}
=============================================================================
