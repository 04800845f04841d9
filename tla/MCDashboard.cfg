CONSTANTS
    t1 = t1  t2 = t2  t3 = t3  s1 = s1  s2 = s2  s3 = s3  c1 = c1
    v1 = v1  v2 = v2  v3 = v3  v4 = v4  e1 = e1  e2 = e2  e3 = e3
    A = A  B = B  C = C
    Rows <- MCRows
    Ticket = {t1, t2, t3}
    Service = {s1, s2, s3}
    Client = {c1}
    ClientOf <- MCClientOf
    CountryOf <- MCCountryOf
    Version = {v1, v2, v3, v4}
    ColsOf <- MCColsOf
    Entry = {e1, e2, e3}
    EntryOf <- MCEntryOf
    Null = Null
    Absent = Absent
    NoFilter = NoFilter
    NotInt = NotInt
    Weights <- MCWeights
    SeverityScore <- MCSeverity
    Now = 9
    StaleThreshold = 3
    DefaultListLimit = 1
    MaxListLimit = 3
    Export = {A, B, C}
    Import = {1, 2, 3}
    Handler = {h1}
    Requests <- MCReads
SPECIFICATION Spec
INVARIANTS
    StatsLineUp
    NoDataYetIsHonest
    LastImportIsLatest
    TimelineCoversVersion
    NothingHidden
    ShownStaysFound
    PageFitsTotal
    RollupsAddUp
