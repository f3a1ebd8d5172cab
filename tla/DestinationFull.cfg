\* The same uploads, enough to use up the suffixes.
CONSTANTS
    u1 = u1
    u2 = u2
    u3 = u3
    u4 = u4
    None = None
    Owner = Owner
    Up = {u1, u2, u3, u4}
    Name <- MCName
    NameOf <- MCNameOf
    LastSuffix = 2
    Path <- MCPath
    Variant <- MCVariant
    Kept <- MCKept
    Char <- MCChar
    Dot = "."
    Space = " "
    Underscore = "_"
    White = {" ", "tab"}
    Forbidden = {"?", "tab"}
    Width <- MCWidth
    MaxBytes = 4
    Reserved <- MCReserved
    Untitled <- MCUntitled
    MaxLength = 4
SPECIFICATION MCSpec
ACTION_CONSTRAINT Apart
CHECK_DEADLOCK FALSE
PROPERTY FreeNamePicked
