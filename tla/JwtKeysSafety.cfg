SPECIFICATION Spec
CONSTANTS
    MaxGen = 2
    MaxLate = 1
    AgeCap = 9
    Intervals <- TimingIntervals
    DefaultRefreshInterval = 3
    DefaultFetchTimeout = 2
    Minute = 1
    Hour = 4
    Prompt = TRUE
    CanPanic = FALSE
    LateConfigure = FALSE
INVARIANTS TypeOK AnswersAreFresh NoFalseAlarm StaleIsReported ReportsGoOn StopsWithinATimeout
PROPERTIES KeysNeverGoBack ImplementsKeyStore
