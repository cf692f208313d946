\* A provider budget of 180 seconds and no fallback; an execution or a download is under a minute.
CONSTANTS
    MaxVersions = 3
    ProviderTime = 3
    SandboxTime = 1
    MarketTime = 1
SPECIFICATION Spec
INVARIANTS
    DeadlineCoversRun
CHECK_DEADLOCK FALSE
