SPECIFICATION Spec
SYMMETRY Symmetry
CONSTANTS
    cm <- Editor
    Requests <- EditorRequests
    Callers = {c1, c2}
    MaxCalls = 4
    ExitActivities = {"x1"}
    EntryActivities = {"y1", "y2"}
    Transactional = TRUE
    UniqueKey = TRUE
    Savepoints = TRUE
    TaskInvalidator = FALSE
    CompleteOnce = FALSE
    StrictClock = TRUE
    NoRow = NoRow
    NoOutcome = NoOutcome
INVARIANTS
    TypeOK
    LockDetectsChange
    LogChain
    ParallelConsistent
    ClockCounts
    SequenceOrders
    PublishedCommitted
PROPERTIES
    Linearizable
    TerminalSticky
    StuckSticky
