\* A class body may also rebind a parameter inside if, for, with or try.
CONSTANTS
    None = None
    Raised = Raised
    Object = Object
    Private = {"_broker"}
    OtherSelves = {"super()", "Strategy", "me"}
    MaxBars = 3
    Prices = {80, 100, 120}
    ClassBindings = {"assign", "def", "nested"}
    Programs <- MCPrograms
    Prompts <- MCPrompts
    Proven <- TrailingProven
    IsLoaded <- Loads
    StopAfter <- StopAfterNext
SPECIFICATION Spec
INVARIANTS
    StopIsRequested
CHECK_DEADLOCK FALSE
