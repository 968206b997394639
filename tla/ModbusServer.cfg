SPECIFICATION FairSpec
CONSTANTS
    waiting = waiting
    pipelining = pipelining
    Conn <- MCConn
    Pipelined = {pipelining}
    Sends <- MCSends
    MaxRequest <- MCMaxRequest
    BankLength = 2
    RegStart = 0
    RegEnd = 2
    WordSize = 4
    SensorType <- MCSensorType
    WRITED_NUM = 0
    MaxCommand = 6
CHECK_DEADLOCK FALSE
INVARIANTS TypeOK OneAnswer AnswerIsTrue ReadsBack
PROPERTY EveryAnswer
