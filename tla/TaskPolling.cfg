SPECIFICATION FairSpec
CONSTANTS
    Pollers = {p1, p2}
    Fetchers = {f1}
    Platforms = {"video", "suno"}
    Quotas = {2}
    Actuals = {0, 1}
    Legacy = {"no", "yes"}
    Faults = {"insert", "channel", "cas", "fund", "token", "quota", "crash"}
    MaxFaults = 2
    MaxOverwrites = 1
INVARIANTS
    TypeOK OneBiller NeverPaidOut RowTellsCharge
PROPERTIES
    PassesKeepFinal EventuallyFinal
