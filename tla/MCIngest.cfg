CONSTANTS
    t1 = t1  t2 = t2  s1 = s1  s2 = s2  s3 = s3  c1 = c1
    v1 = v1  v2 = v2  v3 = v3  v4 = v4  e1 = e1  e2 = e2  e3 = e3
    A = A  B = B  D = D
    Export = {A, B, D}
    Rows <- MCRows
    Ticket = {t1, t2}
    Service = {s1, s2, s3}
    Client = {c1}
    ClientOf <- MCClientOf
    Version = {v1, v2, v3, v4}
    Entry = {e1, e2, e3}
    Import = {r1, r2, r3}
    Null = Null
    Absent = Absent
SPECIFICATION FairSpec
CHECK_DEADLOCK FALSE
INVARIANTS
    ImportComplete
    StoredOnce
    Provenance
    ExportsNeverMix
    SummaryAccounts
    TicketsCountedOnce
    OkMeansImported
    EventInsertNeverWaits
PROPERTIES
    IngestIsAtomic
    EveryRunEnds
