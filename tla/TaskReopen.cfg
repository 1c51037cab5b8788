SPECIFICATION Spec
CONSTANTS
    Pollers = {p1}
    Fetchers = {f1}
    Platforms = {"video"}
    Quotas = {2}
    Actuals = {0}
    Legacy = {"no"}
    Faults = {}
    MaxFaults = 0
    MaxOverwrites = 1
PROPERTIES
    FinalStays
