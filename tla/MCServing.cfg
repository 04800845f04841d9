CONSTANTS
    q1 = q1  q2 = q2  q3 = q3
    Request = {q1, q2, q3}
    Known = {"Low"}
    Unknown = {"Odd"}
    PoolSize = 2
    Queries = 2
    MaxRows = 1
SPECIFICATION FairSpec
CHECK_DEADLOCK FALSE
INVARIANTS
    CleanStopAnswersAll
    AtMostOneWarning
PROPERTIES
    StopEnds
