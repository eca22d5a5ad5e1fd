\* Every listing, four rows of two sources, two instants, pages of one or two.
CONSTANTS
    Kinds = {"active", "requests", "users", "audit"}
    Ids = {1, 2, 3, 4}
    SourceOf <- MCSourceOf
    Tags = {x, y}
    Shown = x
    Unset = Unset
    MaxTime = 2
    Limits = {1, 2}
SPECIFICATION ListingSpec
INVARIANTS WalksAreComplete OneQueryPerWalk
CHECK_DEADLOCK FALSE
