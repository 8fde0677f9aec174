SPECIFICATION FairSpec
CONSTANTS
    f1 = f1  f2 = f2  f3 = f3
    Files = {f1, f2, f3}
    Queues <- MCQueues
    Length = 2
    MaxCommands = 4
    MaxStalls = 1
    Patient = TRUE
INVARIANTS
    FlagsAgree
PROPERTIES
    ImplementsPlayer
    SilenceIsNoticed
CHECK_DEADLOCK FALSE
