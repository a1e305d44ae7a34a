SPECIFICATION Spec
CONSTANTS
    Definitions <- Shop
    Aggregates <- Two
    Backups = {}
    Callers = {c1}
    MaxCalls = 3
    MaxFailures = 0
    UniqueKey = TRUE
    NoDef = NoDef
    NoRow = NoRow
    o1 = o1
    o2 = o2
INVARIANT CloneRestores
