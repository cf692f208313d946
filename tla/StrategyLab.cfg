\* Safety and refinement: two requests, one thread, one repair.
CONSTANTS
    Runs = {r1, r2}
    MaxVersions = 2
    Threads = 1
    Models = {primary, fallback}
SPECIFICATION Spec
INVARIANTS TypeOK HeldOutIsolation VersionTrail ResponseDescribesFrozen ReportNamesStage
PROPERTIES ImplementsFrozenEvaluation EveryRunAnswered
\* The system stops when every request has been answered.
CHECK_DEADLOCK FALSE
