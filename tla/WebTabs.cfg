SPECIFICATION FairSpec
CONSTANTS
    Tabs = {t1, t2}
    Sids = {s1, s2}
    First = s1
    NoSid = NoSid
    NoTab = NoTab
    HasLocks = TRUE
    MaxAdvance = 1
    MaxUses = 2
    Faults = {"lost", "failing", "race", "odd", "late", "reload"}
    MaxFaults = 1
INVARIANTS
    TypeOK NoFalseReuse
PROPERTIES
    NoStaleRefresh TabsSettle
CHECK_DEADLOCK FALSE
