\* Two requests that share suppliers with one unit each; answers are due at 2.
SPECIFICATION Spec
CONSTANTS
    i1 = i1
    i2 = i2
    improper = improper
    Intent <- MCIntent
    Improper <- MCImproper
    Scale = 1000
    SafeMax = 10000000
    Whole = 100
    Reliability <- MCReliability
    Menu <- MCMenu
    Validity <- MCValidity
    MinValidity = 1
    Capacity = 1
    Need <- MCNeed
    Deadline = 2
    Expires <- MCExpires
    EnvelopeLife = 3
    Payload <- MCPayload
    MaxTime = 2
    None = None
INVARIANTS
    TerminalsExplained
    Accounted
    WinnerUndominated
PROPERTIES
    OnlyTheClockLosesOffers
CHECK_DEADLOCK FALSE
