\* Liveness: one send of one file with two attempts.
CONSTANTS
    None = None
    Prep = {p1}
    Up = {u1, u2}
    File = {f1}
    MaxUploadAttempts = 2
    SenderAttempts = 2
    UploadConcurrency = 2
SPECIFICATION SendFairSpec
CONSTRAINT BusyReceiver
ACTION_CONSTRAINT ReportedAtOnce
PROPERTY SendEnds
PROPERTY StoppedSendEnds
