SPECIFICATION Spec
CONSTANTS
    Root = "."
    Directories <- MCDirectories
    Paths <- MCPaths
    DirOf <- MCDirOf
    NameOf <- MCNameOf
    StemOf <- MCStemOf
    KindOf <- MCKindOf
    VersionOrder <- MCVersionOrder
    MaxAge = 0
    Regimes = {"layers", "commands", "discovery", "toolchain"}
    DisksOf <- MCDisksOf
    ConfigsOf <- MCConfigsOf
    SystemsOf <- MCSystemsOf
    RequestsOf <- MCRequestsOf
    EditsOf <- MCEditsOf
    ChangesOf <- MCChangesOf
    Conventional <- MCConventional
    ReleaseOf <- MCReleaseOf
    IsC <- MCIsC
INVARIANTS
    TypeOK
    LayersResolve
    PlanAgrees
PROPERTY
    ReusedAnswersTrue
