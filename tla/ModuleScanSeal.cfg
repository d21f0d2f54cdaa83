CONSTANTS
    h = h
    b = b
    m = m
    Units = {h, b, m}
    Headers = {h}
    Choices <- Imports
    MaxEdits = 1
    MaxBuilds = 3
SPECIFICATION Spec
INVARIANTS SuccessfulBuildSeals
CHECK_DEADLOCK FALSE
