CONSTANTS
    Entries = {a, b}
    Kinds = {overread, hung}
    Params = {p, q}
    MaxTried = 2
    MaxFailed = 1
    MaxOob = 1
    None = None
    a = a
    b = b
    overread = overread
    hung = hung
    p = p
    q = q
SYMMETRY Symmetric
SPECIFICATION Spec
INVARIANTS PassMeansTreeHeld RecordedTreeMatches AdviceKeepsTotals
