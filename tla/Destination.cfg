\* Three uploads of a name that is already there and one of another; suffixes up to 2.
CONSTANTS
    u1 = u1
    u2 = u2
    u3 = u3
    u4 = u4
    None = None
    Owner = Owner
    Up = {u1, u2, u3, u4}
    Name <- MCName
    NameOf <- MCNameOf
    LastSuffix = 2
    Path <- MCPath
    Variant <- MCVariant
    Kept <- MCKept
    Char <- MCChar
    Dot = "."
    Space = " "
    Underscore = "_"
    White = {" ", "tab"}
    Forbidden = {"?", "tab"}
    Width <- MCWidth
    MaxBytes = 4
    Reserved <- MCReserved
    Untitled <- MCUntitled
    MaxLength = 4
SPECIFICATION MCSpec
ACTION_CONSTRAINT Apart
SYMMETRY Symmetry
CHECK_DEADLOCK FALSE
INVARIANT TypeOK
INVARIANT StoredIntact
INVARIANT KeptUntouched
INVARIANT NothingLeft
INVARIANT StaysInside
INVARIANT Defused
INVARIANT HarmlessKept
