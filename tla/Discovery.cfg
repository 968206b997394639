SPECIFICATION FairSpec
CONSTANTS
    N = 2
    Filling = {1, 2}
    Slots = 2
INVARIANTS OneConnection FlagHasClient
PROPERTY FillingRestarts
