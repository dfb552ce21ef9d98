\* Two requests of one portfolio that compete for an idempotency scope, or one
\* request with two offers, as the facade keeps them and as the buyer is shown.
SPECIFICATION ViewSpec
CONSTANTS
    i1 = i1
    i2 = i2
    o1 = o1
    o2 = o2
    k1 = k1
    p1 = p1
    None = None
    Intent = {i1, i2}
    Approval = {1, 2, 3, 4, 5, 6, 7, 8}
    MaxApproval = 8
    Offer = {o1, o2}
    Key = {k1}
    Portfolio = {p1}
    MaxTime = 2
CONSTRAINTS
    ApprovalsInOrder
    TwoRequestsOrOffers
    TwoRequestsOrRankings
SYMMETRY Symmetry
CHECK_DEADLOCK FALSE
INVARIANTS
    TypeOK
    StatesAgree
    ConsentChain
    ApprovalsAccounted
    RecordedAnswer
    ReplaceLinks
    ShownTruthfully
PROPERTIES
    ExpiredNeverAdvances
    TerminalFrozen
    TaskMoves
    ParentSettled
