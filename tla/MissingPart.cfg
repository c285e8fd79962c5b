CONSTANTS
    Smallest = 2
    Largest = 5
    Needs = {1, 3}
    Attempts = 3
    MaxRegions = 3
    Pages = 4
    Values = {0, 1}
    FileSpace = 24
    PageSize = 6
    HeaderSize = 1
    CommandSize = 1
    SegmentSize = 2
    SectionSize = 1
    Chunk = 2
    MaxLength = 5
    MaxPages = 5
    Slots = 2
    Headers = {1, 2}
    CodeSpace = 3
    Threads = {"t1", "t2"}
    TLSSpace = 6
    Entry = 2
    MaxImages = 2
    MaxSize = 2
    MaxBlocks = 3
    Top = 6
    Budget = 2
    Floor = 1
    Threshold = 3
    MaxReservations = 2
    MaxClaims = 1
    MaxReserve = 4
    MaxMap = 2
    MaxCalls = 5
    MaxHost = 1

SPECIFICATION Spec
PROPERTIES OtherCodeIsLeftAlone
CHECK_DEADLOCK FALSE
