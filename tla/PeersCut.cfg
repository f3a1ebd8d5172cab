\* One paired device; the program may end while it writes the file.
CONSTANTS
    None = None
    Blank = Blank
    Torn = Torn
    Fp = {me, p1}
    Self = me
    Addr = {a1}
    Scan = {s1}
    Cmd = {c1}
SPECIFICATION EndsInSave
CHECK_DEADLOCK FALSE
INVARIANT PairingOutlives
