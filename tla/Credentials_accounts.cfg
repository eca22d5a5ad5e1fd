\* Sessions, resets and administrators, two requests at a time.
CONSTANTS
    u1 = u1
    u2 = u2
    None = None
    Users = {u1, u2}
    Setups <- MCSetups
    Families = {1, 2}
    Tokens = {1, 2, 3, 4}
    Challenges = {1, 2}
    Links = {1, 2}
    Requests = {r1, r2}
    FamilyLife = 3
    ConflictWindow = 1
    ResetLife = 2
    MaxEvents = 2
SPECIFICATION Spec
SYMMETRY Interchangeable
INVARIANTS
    SessionTablesAccept RotationIsLinear DisabledHoldsNothing OpenedUnderCurrentPassword
    LinksRedeemedOnce EventsExplainUsers NoLockCycle
PROPERTIES RevocationIsFinal ReplayEndsSession
CHECK_DEADLOCK FALSE
