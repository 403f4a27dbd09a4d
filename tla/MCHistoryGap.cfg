\* One invocation dies, the next one finds its files.
SPECIFICATION Spec
CONSTANTS
    Procs = {p1}
    Manifests = {m1}
    FullScope = {m1}
    WindowCount = 1
    RunLimit = 1
    MinuteLimit = 1
    DayLimit = 1
    ProviderMinute = 2
    ProviderDay = 2
    MinutesPerDay = 2
    Free = Free
    MaxMinute = 0
    MaxCrashes = 1
    MaxReports = 1
INVARIANTS
    EveryInvocationReports
CHECK_DEADLOCK FALSE
