\* Two devices that swap two addresses, a scan, and a command beside it.
CONSTANTS
    None = None
    Blank = Blank
    Torn = Torn
    Fp = {me, p1, p2}
    Self = me
    Addr = {a1, a2}
    Scan = {s1}
    Cmd = {c1}
SPECIFICATION Spec
SYMMETRY Symmetry
CHECK_DEADLOCK FALSE
INVARIANT TypeOK
INVARIANT OneEntryPerDevice
INVARIANT Remembered
PROPERTY SweepKeepsAnswered
PROPERTY BookKept
