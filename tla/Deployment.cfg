\* Every stage takes up to a minute; a context holds two findings.
CONSTANTS
    None = None
    MaxVersions = 3
    ProviderTime = 1
    SandboxTime = 1
    MarketTime = 1
    MaxFindings = 2
    Identifiers = {"Strategy", "backtesting.Strategy", "object", "init", "next"}
    Sources <- MCSources
    Relapses <- MCRelapses
SPECIFICATION RoundsSpec
INVARIANTS
    RunBounded
    OnlyCleanCodeRuns
    GivenUpForItsLayers
CHECK_DEADLOCK FALSE
