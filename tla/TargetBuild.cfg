\* Two units share the evidence table (a target of more than ShareAbove = 1
\* sources); include lists and options change and builds are stopped, but no fault
\* comes between an object and its cache entry.
CONSTANTS
    s1 = s1
    s2 = s2
    h1 = h1
    Sources = {s1, s2}
    Headers = {h1}
    Flags = {"O1", "O2"}
    Includes <- GrowingIncludes
    ShareAbove = 1
    MaxVersion = 2
    Faults = {}
    Stoppable = TRUE

SPECIFICATION Spec

INVARIANTS
    TypeOK
    QuietBuildCurrent
    AcceptedWindowConsistent
    WarmBuildReuses

PROPERTIES
    OnlyCompleteWavesLink
