\* Only the listings of active master data: rows that commit during a walk.
CONSTANTS
    Kinds = {"active"}
    Ids = {1, 2, 3, 4}
    SourceOf <- MCSourceOf
    Tags = {x, y}
    Shown = x
    Unset = Unset
    MaxTime = 2
    Limits = {1, 2}
SPECIFICATION ListingSpec
INVARIANT LaterPagesAreOld
CHECK_DEADLOCK FALSE
