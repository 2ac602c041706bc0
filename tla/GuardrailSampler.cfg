\* Two passes that overlap; a full list; a project that raises beside one that does not.
SPECIFICATION FairSamplerSpec
CONSTANTS
    a = a
    b = b
    c = c
    d = d
    sound = sound
    raising = raising
    Projects = {sound, raising}
    Traces = {a, b, c, d}
    ProjectOf <- ProjectOfDef
    StartOf <- StartOfDef
    InSample = {a, c, d}
    Queueable = {a, b, c}
    Malformed = {d}
    Passes = {p1, p2}
    MaxPerRun = 1
    Lookback = 2
    Never = Never
    MaxTime = 2
    CrashLimit = 1
INVARIANT NothingLeftBehind
PROPERTY EveryTraceExamined
