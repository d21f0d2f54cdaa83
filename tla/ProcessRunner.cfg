CONSTANTS
    Procs = {root, child}
    Root = root
    Streams = {out, err}
    Emptied = {err}
    MaxWrites = 1
    Capacity = 1
SPECIFICATION Spec
INVARIANTS TypeOK NothingOutlives OutcomeFaithful OutputComplete NoReaderLeft CallbackHasItsEvent
PROPERTY OwnedCallEnds
