SPECIFICATION FairSpec
CONSTANT ControllerType = "MASTER"
CHECK_DEADLOCK FALSE
INVARIANTS TypeOK StoppableIsSafe StoppedAtExit
PROPERTY StopEnds
