\* Origins of up to two dots instead of eight.
CONSTANTS
    None = None
    MaxDots = 2
    FORBIDDEN_DIRECT_CALLS = {"open"}
    FORBIDDEN_ATTRIBUTE_CALLS <- OsSystem
    PANDAS_IO = {"read"}
    NUMPY_IO = {"a"}
    PATH_IO = {"read"}
    Programs <- MCPrograms
    Identifiers <- Strings
    Origins <- Evaluated
    Shared <- Handed
    Trees <- CollectedTrees
    Solution <- ClosedTree
SPECIFICATION Spec
INVARIANTS
    TypeOK
    FixedPointReached
PROPERTIES AnalysisEnds
CHECK_DEADLOCK FALSE
