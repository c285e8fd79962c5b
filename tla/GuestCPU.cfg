CONSTANTS
    Subjects = {"code"}
    Threads = {1, 2}
    FirstPage = 0
    LastPage = 0
    PageCells = 2
    Byte = {0, 1, 2}
    Lengths = {1}
    Granules = {1}
    Protections = {{"r"}, {"r", "w"}}
    Counter = 0
    Other = 1
    StepBudget = 3
    MaxTraps = 2
    NativeCells = 3
    SoftCells = 3
    CodeStart = 1
    CodeSize = 1
    LargeSize = 2
    Threshold = 0
    ForcedSize = 3
    MaxSize = 3
    MaxCalls = 3
    Signals = {"segv", "bus"}
    Names = {"a", "b"}
    ActionLimit = 3
    MaxFaults = 3
    Cpus = {c1, c2}
    CacheSize = 1
    MaxBudget = 2
    LastGuestPage = 1
    LowPages = 0
    GuestPageCells = 1
    Words = {0, 1, 2, 3}
    GuestProtections = {{"r", "w"}, {"r", "w", "x"}}
    Sizes = {1, 2}
    MaxGuestCalls = 4

SPECIFICATION Spec
PROPERTIES CodeIsCurrent
CHECK_DEADLOCK FALSE
