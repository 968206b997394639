SPECIFICATION Spec
CONSTANTS
    Addr <- MCAddr
    Service = {s1}
    SensorType <- MCSensorType
    WRITED_NUM = 5
    MaxCommand = 3
INVARIANTS TypeOK TakenOnceInOrder WaitingIsNewest
PROPERTY SlotSpec
