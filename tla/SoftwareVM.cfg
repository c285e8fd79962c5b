CONSTANTS
    Subjects = {"sequence", "mapping", "signal", "code"}
    Threads = {1, 2}
    FirstPage = 0
    LastPage = 0
    PageCells = 2
    Byte = {0, 1, 2}
    Lengths = {1}
    Granules = {1}
    Protections = {{"r"}, {"r", "w"}}
    Counter = 0
    Other = 1
    StepBudget = 3
    MaxTraps = 2
    NativeCells = 3
    SoftCells = 3
    CodeStart = 1
    CodeSize = 1
    LargeSize = 2
    Threshold = 0
    ForcedSize = 3
    MaxSize = 3
    MaxCalls = 3
    Signals = {"segv", "bus"}
    Names = {"a", "b"}
    ActionLimit = 3
    MaxFaults = 3
    Cpus = {c1}
    CacheSize = 1
    MaxBudget = 1
    LastGuestPage = 4
    LowPages = 1
    GuestPageCells = 1
    Words = {0, 2}
    GuestProtections = {{"r"}, {"r", "w", "x"}}
    Sizes = {2}
    MaxGuestCalls = 3

SPECIFICATION Spec
INVARIANTS SequencesAreAtomic PlacementsAreSound ActionsAreStable
PROPERTIES CallsAreWhole CallsEnd
CHECK_DEADLOCK FALSE
