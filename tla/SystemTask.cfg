SPECIFICATION FairSpec
CONSTANTS
    Tasks = {t1, t2}
    Runners = {r1, r2}
    NoTask = NoTask
    NoRunner = NoRunner
    TTL = 2
    MaxStall = 1
    Timely = TRUE
INVARIANTS TypeOK OneActiveTask SingleExecution RunningHasLock OneLiveHandler
PROPERTIES TerminalStable AbandonedTaskFails
