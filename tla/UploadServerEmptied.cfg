\* Two requests, of which the user cancels one and answers it with no file.
CONSTANTS
    None = None
    Prep = {p1, p2}
    Up = {u1}
    File = {f1}
    MaxUploadAttempts = 2
    MaxCalls = 3
SPECIFICATION Spec
INVARIANT PendingAnswers409
