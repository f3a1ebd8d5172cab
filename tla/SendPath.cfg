\* One send of two files, two attempts for each, two upload calls.
CONSTANTS
    None = None
    Prep = {p1}
    Up = {u1, u2}
    File = {f1, f2}
    MaxUploadAttempts = 2
    SenderAttempts = 2
    UploadConcurrency = 2
SPECIFICATION SendSpec
CONSTRAINT BusyReceiver
CONSTRAINT SilentInBodies
ACTION_CONSTRAINT ReportedAtOnce
SYMMETRY Symmetry
INVARIANT SendTypeOK
INVARIANT DoneMeansStored
INVARIANT NeverTurnedAway
INVARIANT NoSendLeftRunning
