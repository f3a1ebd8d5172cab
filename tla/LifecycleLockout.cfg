\* The server of the start-up, one address, and a PIN to set and another to try.
CONSTANTS
    None = None
    NoPin = NoPin
    Restart = {r1}
    Startup = r1
    Port = {q1}
    Pin = {k1, k2}
    Ip = {i1}
    MaxPinAttempts = 2
SPECIFICATION FairSpec
ACTION_CONSTRAINT TriedAtRest
CHECK_DEADLOCK FALSE
PROPERTY LockoutEnds
