\* Three intents on two slots, buffers of two events: eviction in order of use,
\* overflow, reconnection, and streams that end.
SPECIFICATION FairSpec
CONSTANTS
    Intent = {i1, i2, i3}
    Subscriber = {u1}
    MaxEvents = 2
    MaxIntents = 2
    MaxGenerations = 2
    Steps = 3
    Attempts = 2
    Opened = 3
    None = None
INVARIANTS TypeOK AttemptIsolation NoSilentGap EndedMeansTold
PROPERTIES GenerationsKept StreamEnds
CHECK_DEADLOCK FALSE
