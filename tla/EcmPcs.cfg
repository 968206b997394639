SPECIFICATION PcsSpec
CONSTANTS
    DevOrder <- MCDevOrder
    Commanded <- MCCommanded
    m_retries = 2
    MaxOrder = 2
    MaxFault = 2
CHECK_DEADLOCK FALSE
INVARIANTS  DoneIsWritten
PROPERTIES CommandsAreTaken
