SPECIFICATION FairSpec
CONSTANTS
    MaxHosts = 2
    MaxServices = 2
    MaxSends = 2
INVARIANTS DebuggerFindsReservedArena WritableMeansPrepared AttachedOnce
PROPERTIES PreparationReturns AcceptedIsSettled
CHECK_DEADLOCK FALSE
