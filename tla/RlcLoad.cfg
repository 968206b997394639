SPECIFICATION Spec
CONSTANTS
    PhaseOrder <- MCPhaseOrder
    Power <- MCPower
    Direct <- MCDirect
    WRITED_NUM = 1
    MaxCommand = 3
    AtStart <- MCAtStart
CHECK_DEADLOCK FALSE
INVARIANTS TypeOK SettledIsCommanded TotalsReachAllPhases Interlocked
PROPERTIES CommandsAreServed
