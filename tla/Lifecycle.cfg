\* The restart of the start-up and one for a change of the port, which overlap or
\* follow each other; two PINs to set and to try.
CONSTANTS
    None = None
    NoPin = NoPin
    Restart = {r1, r2}
    Startup = r1
    Port = {q1, q2}
    Pin = {k1, k2}
    Ip = {i1}
    MaxPinAttempts = 2
SPECIFICATION FairSpec
ACTION_CONSTRAINT TriedAtRest
CHECK_DEADLOCK FALSE
INVARIANT TypeOK
INVARIANT OneListener
INVARIANT ShownIsServed
INVARIANT SettingsInForce
PROPERTY RestartEnds
