\* Two test bars suffice; requests on the last day of August and after it.
CONSTANTS
    NaT = NaT
    NaN = NaN
    MinimumTestBars = 2
    Metrics = {"Sharpe Ratio"}
    Spellings <- MCSpellings
    Frames <- MCFrames
    Days <- MCDays
SPECIFICATION Spec
INVARIANTS
    TypeOK
    LastCompleteBarKept
    SplitIsExact
    CleanerMeetsSplitter
    NoUnfinishedBar
PROPERTIES HeldOutMovesForward
\* Requests end with the last day.
CHECK_DEADLOCK FALSE
