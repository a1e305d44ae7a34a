SPECIFICATION Spec
SYMMETRY Symmetry
CONSTANTS
    cm <- Order
    Requests <- OrderRequests
    Callers = {c1, c2}
    MaxCalls = 3
    ExitActivities = {"a"}
    EntryActivities = {"d1"}
    Transactional = FALSE
    UniqueKey = FALSE
    Savepoints = FALSE
    TaskInvalidator = TRUE
    CompleteOnce = TRUE
    StrictClock = TRUE
    NoRow = NoRow
    NoOutcome = NoOutcome
INVARIANTS TaskFiresOnce HistoryConsistent
