SPECIFICATION Spec
CONSTANTS
    cm <- Fan
    Spawns <- FanSpawns
    Types = {"item", "sub"}
    Terminals = {"ok"}
    MaxChildren = 3
    MaxMoves = 2
    MaxFailures = 1
    ExitActivities = {}
    EntryActivities = {}
PROPERTIES JoinCovers JoinHappens ChildResumes
