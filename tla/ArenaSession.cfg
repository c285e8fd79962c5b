SPECIFICATION Spec
CONSTANTS
    Size <- MCSize
    Targets <- MCTargets
    Page = 2
    Chunks = {1, 3}
    ReadsPerBatch = 2
    PagesPerBatch = 2
    MaxRetries = 1
    MaxConsole = 1
    ConsoleBudget = 2
INVARIANTS WritesOnlyFreshArenas RepliesMatchCommands
PROPERTIES ImplementsTransaction Concludes AppResumes
