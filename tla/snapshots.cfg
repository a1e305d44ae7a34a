SPECIFICATION Spec
SYMMETRY Symmetry
CONSTANTS
    Definitions <- Shop
    Aggregates <- Two
    Backups <- Foreign
    Callers = {c1, c2}
    MaxCalls = 3
    MaxFailures = 1
    UniqueKey = TRUE
    NoDef = NoDef
    NoRow = NoRow
    o1 = o1
    o2 = o2
INVARIANTS SpawnAcyclic SearchExact SameMachine RestoreFirst AnswerTruthful
PROPERTIES InstanceKept
