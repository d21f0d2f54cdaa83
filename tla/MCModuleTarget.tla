-------------------------- MODULE MCModuleTarget --------------------------
(* A header unit, and two modules that may import it and each other; an    *)
(* instance without the header unit leaves its import out.                 *)
EXTENDS ModuleTarget

CONSTANTS h, b, m

Imported == [u \in {h, b, m} |-> CASE u = h -> {{}}
                                   [] u = b -> {{h}, {m}}
                                   [] u = m -> {{}, {b}}]
Imports == [u \in Units |-> {c \cap Units : c \in Imported[u]}]
=============================================================================
