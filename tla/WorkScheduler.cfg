\* Three items on up to three workers; one spare value above the largest overshoot.
CONSTANTS
    MaxItems = 3
    MaxLimit = 3
    Word = 7

SPECIFICATION Spec

INVARIANTS
    TypeOK

PROPERTIES
    NoDispatchAfterStop
    ImplementsBoundedWork

\* A call that returned, raised or took the process down is over.
CHECK_DEADLOCK FALSE
