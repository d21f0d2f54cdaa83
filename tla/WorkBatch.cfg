\* Up to three items on up to three workers, every call limit including zero.
CONSTANTS
    MaxItems = 3
    MaxLimit = 3

SPECIFICATION BatchSpec

INVARIANTS
    TypeOK
    ExactlyOnce
    DrainedAtReturn
    OutcomeFaithful

PROPERTIES
    CallReturns
    ImplementsBoundedWork

\* A call that returned is over.
CHECK_DEADLOCK FALSE
