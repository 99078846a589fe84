SPECIFICATION FairSpec
CONSTANTS
    MaxGen = 2
    MaxLate = 1
    AgeCap = 1
    Intervals <- OneInterval
    DefaultRefreshInterval = 1
    DefaultFetchTimeout = 1
    Minute = 1
    Hour = 1
    Prompt = TRUE
    CanPanic = TRUE
    LateConfigure = FALSE
PROPERTIES StopsWhenCancelled RecoversWhenServiceIsBack
