\* The user interface promises a replacement made from the same details.
SPECIFICATION Spec
CONSTANTS
    i1 = i1
    i2 = i2
    o1 = o1
    o2 = o2
    o3 = o3
    k1 = k1
    p1 = p1
    None = None
    Intent = {i1, i2}
    Approval = {1, 2, 3, 4}
    MaxApproval = 4
    Offer = {o1, o2, o3}
    Key = {k1}
    Portfolio = {p1}
    MaxTime = 1
CONSTRAINT ApprovalsInOrder
CHECK_DEADLOCK FALSE
INVARIANTS
    ReplacementDispatchable
