SPECIFICATION Spec
CONSTANTS
    q1 = q1
    q2 = q2
    n1 = n1
    n2 = n2
    Requests = {q1}
    Needs = {n1, n2}
    Inventory = {"stay"}
    Unknown = Unknown
    NULL = NULL
    Replanned = {"parking"}
    Redated = {"parking"}
    Openings <- MCOpenings
    MaxTurns = 4
    MaxIntents = 2
CHECK_DEADLOCK FALSE
INVARIANT FreshStayIsCurrent
