SPECIFICATION Spec
CONSTANTS
    Modulus = 65536
    LowMark = 10000
    HighMark = 60000
    Net <- MCTwo
    MaxOpen = 1
    FailNumber = 3
    MaxSeq = 2
CHECK_DEADLOCK FALSE
INVARIANT AppliedOnceInOrder
