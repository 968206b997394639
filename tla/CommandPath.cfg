SPECIFICATION PathSpec
CONSTANTS
    Modulus = 65536
    LowMark = 10000
    HighMark = 60000
    Net <- MCNet
    MaxOpen = 1
    FailNumber = 2
    MaxSeq = 3
    SlaveDev <- MCSlaveDev
    Slave = 1
    Commanded <- MCCommanded
    Capacity = 1
    LengthModulus = 2
    WRITED_NUM = 1
    MaxCommand = 2
    MaxTime = 1
CHECK_DEADLOCK FALSE
INVARIANTS PathTypeOK TakenIsCarried SavedOnceInOrder ConfirmedIsSaved
PROPERTIES WaitingIsServed
