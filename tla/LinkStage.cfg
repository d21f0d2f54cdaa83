CONSTANTS
    LibOrder <- MCOrder
    LastDir = 2
    EnvDir = 1
    Explicit <- MCExplicit
    OptionSets <- MCOptions
    ModernTools = TRUE
    Directives <- MCDirectives
    Placements <- MCPlacements
    Editable <- MCEditable
    LinkEdits = 3
    LinkRegimes = {"edits", "faults"}
SPECIFICATION Spec
INVARIANTS TypeOK QuietLinkCurrent WarmLinkReuses
CHECK_DEADLOCK FALSE
