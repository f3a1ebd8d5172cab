\* The restart of the start-up and one for a change of the port.
CONSTANTS
    None = None
    NoPin = NoPin
    Restart = {r1, r2}
    Startup = r1
    Port = {q1, q2}
    Pin = {k1}
    Ip = {i1}
    MaxPinAttempts = 2
SPECIFICATION FairSpec
ACTION_CONSTRAINT TriedAtRest
CHECK_DEADLOCK FALSE
PROPERTY RestartAlwaysEnds
