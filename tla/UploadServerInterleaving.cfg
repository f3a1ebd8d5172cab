\* Two senders, a cancellation between the answer and the slot.
CONSTANTS
    None = None
    Prep = {p1, p2}
    Up = {u1}
    File = {f1}
    MaxUploadAttempts = 2
    MaxCalls = 3
SPECIFICATION FairSpec
PROPERTY NoInterleaving
