CONSTANTS
    Payloads = {p, q}
    Nothing = Nothing
    MaxRows = 3
    MaxCalls = 2
    Receivers = {keyboard, consumer}
    NULL = NULL
    MaxCases = 3
    Keys = {a, b, c}
    Rids = {r1, r2, r3}
    MaxKeyboards = 3
    MaxKbdRows = 2
    RowNames = {m, n}
    CaseLens <- Lengths
    Floors <- MinLens
    ReportCap = 3
    MaxEntries = 2
    MIN_BLOCK = 4
    MaxBytes = 4
    MaxLines = 4
    Vocabulary <- Words
    Preamble <- Start
    MaxItems = 4
    Ids = {0, 1, 2}
    ReqLens = {2, 8}
    MAX_PTS = 2
    LogCap = 2
    Window = 1
    Deltas <- WheelDeltas
    HidButtons = {2, 6}
    MaxTime = 2
    MaxEvents = 3
SYMMETRY Alike
SPECIFICATION StandaloneSpec
INVARIANTS
    VerdictIsEarned
    RoutesJudgedAlone
    KbdPassIsEarned
    ColumnsAreTheTrees
    MousePassIsEarned
    ReplaysWhatItNames
    EntryIsTheDump
    ReplyAsDeclared
    OnlyWhatWasAsked
    BenchReadsWhatCame
CHECK_DEADLOCK FALSE
