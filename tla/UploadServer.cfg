\* Two requests, two uploads, two files, two attempts; at most three calls.
CONSTANTS
    None = None
    Prep = {p1, p2}
    Up = {u1, u2}
    File = {f1, f2}
    MaxUploadAttempts = 2
    MaxCalls = 3
SPECIFICATION Spec
CONSTRAINT BoundedCalls
SYMMETRY Symmetry
INVARIANT TypeOK
INVARIANT Consent
INVARIANT SingleSession
INVARIANT EndedOnce
INVARIANT EndAccounted
INVARIANT RetryBudget
INVARIANT CompletedAccounts
PROPERTY SessionsKept
