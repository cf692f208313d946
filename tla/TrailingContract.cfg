\* Class parameters bound by plain assignments and methods only; TrailingNested.cfg has the rest.
CONSTANTS
    None = None
    Raised = Raised
    Object = Object
    Private = {"_broker"}
    OtherSelves = {"super()", "Strategy", "me"}
    MaxBars = 3
    Prices = {80, 100, 120}
    ClassBindings = {"assign", "def"}
    Programs <- MCPrograms
    Prompts <- MCPrompts
    Proven <- TrailingProven
    IsLoaded <- Loads
    StopAfter <- StopAfterNext
SPECIFICATION Spec
INVARIANTS
    StopIsRequested
    
    CanonicalAccepted
CHECK_DEADLOCK FALSE
