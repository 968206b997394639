SPECIFICATION FairSpec
CONSTANTS
    Modulus = 65536
    LowMark = 10000
    HighMark = 60000
    Net <- MCOne
    MaxOpen = 1
    FailNumber = 3
    MaxSeq = 4
CHECK_DEADLOCK FALSE
INVARIANTS AppliedOnceInOrder ConfirmedWasSaved
PROPERTIES RoundEnds
