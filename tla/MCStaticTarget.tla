--------------------------- MODULE MCStaticTarget ---------------------------
EXTENDS StaticTarget

CONSTANTS u1, u2

\* The precompiled header includes <h>, one unit includes "q".
MCIncludes(x) == CASE x = "pch" -> {"h"} [] x = u1 -> {"q"} [] OTHER -> {}

Native(name) == [name |-> name, value |-> NoValue]
MCEnvRoots == <<2>>
MCOptions ==
    {[roots |-> <<1>>, cl |-> <<>>, lib |-> <<>>, machine |-> "X64"],
     [roots |-> <<>>, machine |-> "X64",
      cl |-> <<Native("X"), [name |-> "I", value |-> 2]>>,
      lib |-> <<[name |-> "MACHINE", value |-> "X64"], Native("WX")>>],
     [roots |-> <<1>>, cl |-> <<Native("O2")>>, machine |-> "X64",
      lib |-> <<[name |-> "MACHINE", value |-> "X86"]>>]}
MCPlaces == {{<<2, "h">>, <<1, "q">>}}
MCEdited == {<<1, "h">>, <<0, "q">>, PchHeader}
=============================================================================
