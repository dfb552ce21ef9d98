\* Two resubmissions, three times of occurrence and two prices.
SPECIFICATION Spec
CONSTANTS
    MaxTime = 2
    MaxVersion = 2
    Price = {p1, p2}
    None = None
INVARIANTS
    WellFormed
    TermsAgreed
PROPERTIES
    StepsTold
CHECK_DEADLOCK FALSE
