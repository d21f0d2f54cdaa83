\* Three inspections of one or two dependencies each; a file is absent or has a
\* time, and changes once.
CONSTANTS
    o1 = o1
    o2 = o2
    o3 = o3
    p1 = p1
    p2 = p2
    Observers = {o1, o2, o3}
    Paths = {p1, p2}
    Depends <- MCDepends
    Stamps = {"missing", "t1"}

SPECIFICATION Spec

INVARIANTS
    TypeOK
    SingleFlight
    SharingIsTransparent

PROPERTIES
    VerdictReached

\* A target is inspected once.
CHECK_DEADLOCK FALSE
