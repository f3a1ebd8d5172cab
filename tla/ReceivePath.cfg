\* Two requests and one upload of one file, at most two calls: every request meets
\* another one, or its upload.
CONSTANTS
    None = None
    Prep = {p1, p2}
    Up = {u1}
    File = {f1}
    MaxUploadAttempts = 2
    MaxCalls = 2
SPECIFICATION AppSpec
CONSTRAINT BoundedCalls
SYMMETRY Symmetry
INVARIANT AppTypeOK
INVARIANT YesIsForThis
INVARIANT PromptReachable
INVARIANT ProgressLands
INVARIANT ReceivingIsShown
INVARIANT DoneIsCompleted
