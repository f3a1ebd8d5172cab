\* The server of the start-up, and nothing that restarts it.
CONSTANTS
    None = None
    NoPin = NoPin
    Restart = {r1}
    Startup = r1
    Port = {q1}
    Pin = {k1}
    Ip = {i1}
    MaxPinAttempts = 2
SPECIFICATION FairSpec
ACTION_CONSTRAINT TriedAtRest
CHECK_DEADLOCK FALSE
PROPERTY FailedIsRestarted
