\* One paired device; a scan and a command whose saves may overlap.
CONSTANTS
    None = None
    Blank = Blank
    Torn = Torn
    Fp = {me, p1}
    Self = me
    Addr = {a1}
    Scan = {s1}
    Cmd = {c1}
SPECIFICATION SavesEnd
CHECK_DEADLOCK FALSE
INVARIANT ForgottenForGood
