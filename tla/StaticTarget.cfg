CONSTANTS
    u1 = u1
    u2 = u2
    Units = {u1, u2}
    ShareAbove = 1
    Roots = {1, 2}
    EnvRoots <- MCEnvRoots
    HeaderNames = {"h", "q"}
    QuotedNames = {"q"}
    Includes <- MCIncludes
    TargetOptions <- MCOptions
    StartPlaces <- MCPlaces
    EditedPaths <- MCEdited
    StaticEdits = 2
    StaticRegimes = {"edits", "faults"}
SPECIFICATION Spec
INVARIANTS TypeOK QuietArchiveCurrent OnePch
CHECK_DEADLOCK FALSE
