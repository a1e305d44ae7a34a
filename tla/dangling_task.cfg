SPECIFICATION Spec
SYMMETRY Symmetry
CONSTANTS
    cm <- Order
    Requests <- OrderRequests
    Callers = {c1, c2}
    MaxCalls = 2
    ExitActivities = {}
    EntryActivities = {}
    Transactional = TRUE
    UniqueKey = TRUE
    Savepoints = FALSE
    TaskInvalidator = TRUE
    CompleteOnce = TRUE
    StrictClock = TRUE
    NoRow = NoRow
    NoOutcome = NoOutcome
INVARIANTS NoDanglingTask
