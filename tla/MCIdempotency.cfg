\* Three callers of one scope with two requests and two answers; records expire.
SPECIFICATION Spec
CONSTANTS
    c1 = c1
    c2 = c2
    c3 = c3
    q1 = q1
    q2 = q2
    a1 = a1
    a2 = a2
    s1 = s1
    None = None
    Caller = {c1, c2, c3}
    Scope = {s1}
    Request = {q1, q2}
    Answer = {a1, a2}
    MaxTime = 2
CHECK_DEADLOCK FALSE
SYMMETRY Interchangeable
INVARIANTS
    OneAnswer
    ReservationHasWorker
