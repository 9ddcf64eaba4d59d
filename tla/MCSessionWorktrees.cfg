SPECIFICATION FairSpec
CONSTANTS
    System = sys
    Sessions = {sys, s1}
    Nil = Nil
    MaxWrites = 3
    MaxFaults = 2
INVARIANT UnpushedKept
PROPERTY IdleCollected
