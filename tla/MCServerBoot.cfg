CONSTANTS
    s1 = s1  s2 = s2  t1 = t1
    Server = {s1, s2}
    Tool = {t1}
    Configured = {s1, s2, t1}
    MaxDowns = 1
    MaxFaults = 1
SPECIFICATION FairSpec
INVARIANTS
    SchemaIsPrefix
    ReadyUnlessOvertaken
PROPERTIES
    TakesBackTheLatest
    EventuallyServes
