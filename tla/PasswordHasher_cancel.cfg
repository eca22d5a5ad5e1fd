\* Timeouts and cancellations at every await.
CONSTANTS
    Callers = {c1, c2, c3, c4}
    MaxConcurrency = 2
SPECIFICATION FairHasherSpec
INVARIANTS PermitsConserved
PROPERTIES NobodyStarves
