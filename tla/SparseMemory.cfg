SPECIFICATION Spec
CONSTANTS
    FirstPage = 1
    LastPage = 3
    PageCells = 1
    Base = 2
    Capacity = 2
    SlotCount = 4
    Hash <- MCHash
    RegionLimit = 2
    Threads = {}
    Lengths = {1}
    Granules = {}
    Protections = {{"r"}, {"r", "w"}}
    MaxWrites = 0
    MaxChanges = 3
INVARIANTS
    RegionsAreCanonical
PROPERTIES
    ImplementsAddressSpace
