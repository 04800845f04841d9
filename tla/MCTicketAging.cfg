CONSTANTS
    Weights <- MCWeights
    SeverityScore <- MCSeverity
    Tickets <- MCTickets
    Events <- MCEvents
    StaleThreshold = 3
    LastDay = 20
SPECIFICATION Spec
INVARIANTS
    SeverityCapsBucket
    FlagsAgree
PROPERTIES
    WaitingNeverSinks
