SPECIFICATION Spec
CONSTANTS
    Trees <- AllTrees
    Formats <- AllFormats
    MaxSize = 2
    MaxFaults = 2
    MaxAttempts = 2
INVARIANTS TypeOK SuccessIsComplete RoundTrip NoSpuriousRefusal
