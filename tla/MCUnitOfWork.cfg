\* Two requests over three intents, one unit of supplier capacity.
SPECIFICATION FairSpec
CONSTANTS
    t1 = t1
    t2 = t2
    n1 = n1
    None = None
    Thread = {t1, t2}
    Intent = {1, 2, 3}
    Unit = {n1}
CHECK_DEADLOCK FALSE
INVARIANTS
    AllOrNothing
    ConflictExclusion
    CapacityAccounted
PROPERTIES
    AtomicSpec
    EveryRequestEnds
