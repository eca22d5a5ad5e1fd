\* Three addresses compete for two windows.
CONSTANTS
    Ips = {i1, i2, i3}
    Actions = {"login", "refresh", "logout", "me", "registration_request"}
    Limit = 2
    WindowSeconds = 2
    TicksPerSecond = 2
    Capacity = 2
    CleanupBatch = 1
    MaxTime = 7
SPECIFICATION Spec
CHECK_DEADLOCK FALSE
INVARIANTS QuotaHolds UntrackedOnlyWhenFull RetryAfterIsTight
