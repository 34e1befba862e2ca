SPECIFICATION Spec
CONSTANTS
    ByteBits = 4
    Half = 1
    Word = 2
    Long = 3
    Builds <- MCBuilds
    Sample <- MCSample
    SampleIds = {2, 3}
    Messages <- MCMessages
    Worlds <- MCWorlds
    MaxSends = 1
INVARIANTS
    WireIsFaithful
CHECK_DEADLOCK FALSE
