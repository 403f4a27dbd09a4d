\* Fair invocations that an operator resumes until the manifest is settled.  A
\* bucket of the clock is a day, so that the daily ceiling is the one that binds.
SPECIFICATION LiveSpec
CONSTANTS
    Procs = {p1, p2}
    Manifests = {m1}
    FullScope = {m1}
    WindowCount = 3
    RunLimit = 2
    MinuteLimit = 2
    DayLimit = 1
    ProviderMinute = 3
    ProviderDay = 2
    MinutesPerDay = 1
    Free = Free
    MaxMinute = 2
    MaxCrashes = 1
    MaxReports = 9
INVARIANTS
    ProviderQuotaRespected
PROPERTIES
    Settles
CHECK_DEADLOCK FALSE
