SPECIFICATION FairSpec
CONSTANTS
    Ranges <- MCRanges
    Changing <- MCChanging
    MaxData = 2
    MaxLength = 2
    Network = {"A", "B"}
    MaxValue = 2
    MaxNet = 3
INVARIANT RoundCovers
PROPERTY Converges
