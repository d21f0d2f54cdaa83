CONSTANTS
    h = h
    b = b
    m = m
    Units = {h, b, m}
    Headers = {h}
    Choices <- Imports
    MaxEdits = 1
    MaxBuilds = 3
SPECIFICATION Spec
INVARIANTS TypeOK ModulesCurrent ScanTruthful GoodSourcesBuild
CHECK_DEADLOCK FALSE
