\* Liveness: one request, two uploads, one file; every bound is in the constants.
CONSTANTS
    None = None
    Prep = {p1}
    Up = {u1, u2}
    File = {f1}
    MaxUploadAttempts = 2
    MaxCalls = 3
SPECIFICATION FairSpec
PROPERTY PrepareReturns
PROPERTY ActiveReleased
