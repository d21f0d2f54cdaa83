\* A save that fails, a warning only, when an edit has added an include: the old
\* entry vouches for the new object.
CONSTANTS
    s1 = s1
    s2 = s2
    h1 = h1
    Sources = {s1, s2}
    Headers = {h1}
    Flags = {"O1"}
    Includes <- GrowingIncludes
    ShareAbove = 1
    MaxVersion = 2
    Faults = {"save"}
    Stoppable = FALSE

SPECIFICATION Spec

INVARIANTS
    QuietBuildCurrent
