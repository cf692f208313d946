\* Both legs, one retry each; the back-off sleep fits into the budget.
CONSTANTS
    Primary = primary
    Fallback = fallback
    NoModel = none
    ReportedModels = {alias}
    MaxRetries = 1
    RequestTimeout = 3
    RetryBackoff = 1
SPECIFICATION Spec
INVARIANTS TypeOK FallbackJustified BoundedCompletion ClientReleased OutcomeNamesCause
PROPERTIES Completes
