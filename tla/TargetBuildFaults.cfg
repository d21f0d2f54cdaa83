\* Kills, failed saves and unreadable dependency metadata, where no later edit adds
\* to what a unit includes and the options stay the same.
CONSTANTS
    s1 = s1
    s2 = s2
    h1 = h1
    Sources = {s1, s2}
    Headers = {h1}
    Flags = {"O1"}
    Includes <- ShrinkingIncludes
    ShareAbove = 1
    MaxVersion = 2
    Faults = {"crash", "save", "seal"}
    Stoppable = FALSE

SPECIFICATION Spec

INVARIANTS
    QuietBuildCurrent
