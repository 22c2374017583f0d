\* Two processes race on one request and one claim; one of them may be killed.
SPECIFICATION ApprovalSpec
CONSTANTS
    Users = {p1, p2}
    Ids = {r1}
    Keys = {k1}
    Inodes = {i1, i2, i3, i4}
    None = None
    MaxCrashes = 1
SYMMETRY Symmetry
INVARIANTS GrantNeedsApproval ClaimedOnce FileComplete ConsumedOnce
CHECK_DEADLOCK FALSE
