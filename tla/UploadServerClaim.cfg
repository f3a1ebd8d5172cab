\* One request whose guard meets a busy mutex.
CONSTANTS
    None = None
    Prep = {p1, p2}
    Up = {u1}
    File = {f1}
    MaxUploadAttempts = 2
    MaxCalls = 3
SPECIFICATION Spec
INVARIANT NotLeftClaimed
