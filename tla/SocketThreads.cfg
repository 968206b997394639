SPECIFICATION FairSpec
CONSTANTS
    a1 = a1
    a2 = a2
    Addr <- MCAddr
CHECK_DEADLOCK FALSE
INVARIANTS ThreadsAreSafe AllOrNothing
PROPERTY CloseEnds
