CONSTANTS
    Entries = {a, b}
    Kinds = {overread}
    Params = {p}
    MaxTried = 2
    MaxFailed = 1
    MaxOob = 1
    None = None
    a = a
    b = b
    overread = overread
    p = p
SYMMETRY Symmetric
SPECIFICATION Spec
INVARIANT NoAdviceBesideRise
