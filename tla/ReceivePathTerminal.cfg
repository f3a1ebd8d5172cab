\* One request and one upload.
CONSTANTS
    None = None
    Prep = {p1}
    Up = {u1}
    File = {f1}
    MaxUploadAttempts = 2
    MaxCalls = 2
SPECIFICATION AppSpec
CONSTRAINT BoundedCalls
PROPERTY TerminalIsFinal
