\* One send of one file.
CONSTANTS
    None = None
    Prep = {p1}
    Up = {u1}
    File = {f1}
    MaxUploadAttempts = 2
    SenderAttempts = 2
    UploadConcurrency = 2
SPECIFICATION SendSpec
INVARIANT PeerNotLeftWaiting
