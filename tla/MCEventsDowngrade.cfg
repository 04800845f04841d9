SPECIFICATION FairSpec
CONSTANTS
    r1 = r1
    r2 = r2
    Run = {r1, r2}
    Entry <- MCEntry
    Rows <- MCRows
    Migration = Migration
    MaxDowns = 2
CHECK_DEADLOCK FALSE
INVARIANTS
    KeyHolds
    FirstBodyKept
    OnlyDowngradesLose
PROPERTIES
    EveryoneEnds
