SPECIFICATION FairSpec
CONSTANTS
    a = a
    b = b
    c = c
    Packets = {a, b, c}
    Size <- MCSize
    MaxPacket = 2
    MaxAdmittedBytes = 3
    MaxAdmittedCount = 2
    MaxStarts = 2
INVARIANTS AdmissionIsExact ReportedOnce
PROPERTIES TimersAreTrue SendsConclude
CHECK_DEADLOCK FALSE
