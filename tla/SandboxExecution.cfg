\* A strategy budget of two ticks and a grace of two.
CONSTANTS
    NoValue = NoValue
    StrategyTimeout = 2
    StartupGrace = 2
    Chains <- MCChains
SPECIFICATION Spec
INVARIANTS TypeOK WorkerSpeaksProtocol BlameIsEarned GraceCoversStart OrphanExplained
PROPERTIES ImplementsSandboxJob
\* The execution ends once the host has returned and the container is gone.
CHECK_DEADLOCK FALSE
