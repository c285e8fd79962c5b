SPECIFICATION Spec
CONSTANTS
    FirstPage = 1
    LastPage = 2
    PageCells = 1
    Base = 2
    Capacity = 2
    SlotCount = 4
    Hash <- MCHash
    RegionLimit = 2
    Threads = {t1}
    Lengths = {2}
    Granules = {1}
    Protections = {{"r"}, {"r", "w"}}
    MaxWrites = 1
    MaxChanges = 2
INVARIANTS TableIsSound
PROPERTIES ImplementsAddressSpace
