SPECIFICATION LogSpec
CONSTANTS
    MaxLines = 2
    MaxEvents = 6
    MaxClock = 3
    MaxLogFaults = 2
    MaxBack = 1
INVARIANTS
    AckedReadable
    QueryInOrder
PROPERTY
    ImplementsEventLog
