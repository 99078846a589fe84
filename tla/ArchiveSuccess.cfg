SPECIFICATION Spec
CONSTANTS
    Trees <- AllTrees
    Formats <- AllFormats
    MaxSize = 2
    MaxFaults = 0
    MaxAttempts = 1
INVARIANT SuccessMeansArchive
