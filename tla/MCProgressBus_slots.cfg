\* One slot: a stream that is open on another intent takes it.
SPECIFICATION Spec
CONSTANTS
    Intent = {i1, i2}
    Subscriber = {u1}
    MaxEvents = 2
    MaxIntents = 1
    MaxGenerations = 2
    Steps = 2
    Attempts = 2
    Opened = 3
    None = None
INVARIANT NeverRefused
CHECK_DEADLOCK FALSE
