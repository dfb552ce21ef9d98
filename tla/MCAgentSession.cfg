SPECIFICATION Spec
CONSTANTS
    q1 = q1
    q2 = q2
    n1 = n1
    n2 = n2
    Requests = {q1, q2}
    Needs = {n1, n2}
    Inventory = {"flight"}
    Unknown = Unknown
    NULL = NULL
    Replanned = {"parking"}
    Redated = {"parking"}
    Openings <- MCOpenings
    MaxTurns = 3
    MaxIntents = 2
SYMMETRY Symmetry
CHECK_DEADLOCK FALSE
INVARIANTS FreshFlightIsCurrent SearchedWasOffered
PROPERTIES OnlyDatesInPlaceAndLateAnswersMisdate
