\* One request that is cancelled while its answer is on the way.
CONSTANTS
    None = None
    Prep = {p1}
    Up = {u1}
    File = {f1}
    MaxUploadAttempts = 2
    MaxCalls = 3
SPECIFICATION Spec
INVARIANT OverIsOver
