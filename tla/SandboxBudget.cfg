\* The documented limit on a strategy's running time, at the same bounds.
CONSTANTS
    NoValue = NoValue
    StrategyTimeout = 2
    StartupGrace = 2
    Chains <- MCChains
SPECIFICATION Spec
INVARIANTS StrategyWithinBudget
CHECK_DEADLOCK FALSE
