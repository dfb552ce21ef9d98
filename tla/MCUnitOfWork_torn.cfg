\* What a reader that takes no lock can see of a running commit.
SPECIFICATION Spec
CONSTANTS
    t1 = t1
    t2 = t2
    n1 = n1
    None = None
    Thread = {t1, t2}
    Intent = {1, 2}
    Unit = {n1}
CHECK_DEADLOCK FALSE
INVARIANTS
    PublishedTogether
