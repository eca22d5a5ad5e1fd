\* Requests, completions and bootstrap commands for one address.
CONSTANTS
    None = None
    Emails = {e1}
    Allowed = {e1}
    Passwords = {p, q}
    Challenges = {1, 2}
    Links = {1, 2}
    Requests = {r1, r2}
    RegistrationLife = 1
    MaxTime = 2
    MaxSalt = 2
SPECIFICATION Spec
SYMMETRY Interchangeable
INVARIANTS AccountsComeFromOneLink OneOpenChallenge
PROPERTIES NoOpMeansSuperAdmin
CHECK_DEADLOCK FALSE
