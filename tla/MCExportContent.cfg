SPECIFICATION ContentSpec
CONSTANTS
    Null = Null
    MaxRuns = 2
    Sheet <- MCSheet
    Required <- MCRequired
    Converted <- MCConverted
    Comments <- Com
    Optional <- MCOptional
    Parses <- MCParses
CHECK_DEADLOCK FALSE
INVARIANTS
    MultilineLosesNothing
    CosmeticsDoNotCount
