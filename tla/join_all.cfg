SPECIFICATION Spec
CONSTANTS
    cm <- Once
    Spawns <- OnceSpawns
    Types = {"item"}
    Terminals = {"ok", "bad"}
    MaxChildren = 3
    MaxMoves = 1
    MaxFailures = 0
    ExitActivities = {}
    EntryActivities = {}
PROPERTY JoinJustified
