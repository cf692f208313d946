\* Three runs or cancellations.
CONSTANTS
    MaxRequests = 3
    MinLength = 2
    MaxLength = 3
    Prompts <- MCPrompts
    Amounts = {"unparsable", "amount", "infinite"}
    Rates = {"unparsable", "rate"}
    Null = Null
SPECIFICATION Spec
INVARIANTS TypeOK ScreenHasData ShownAnswersLatest OneLiveRequest PeersAgree
PROPERTIES EveryRunSettles
\* Nothing is left to do once the app is gone.
CHECK_DEADLOCK FALSE
