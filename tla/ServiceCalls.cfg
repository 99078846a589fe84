SPECIFICATION FairSpec
CONSTANTS
    MaxGen = 3
    Overlap = 2
    MaxExpiries = 2
INVARIANTS TypeOK AtMostOneEffect RefusedOnlyForLag
PROPERTIES RefusalsEnd
