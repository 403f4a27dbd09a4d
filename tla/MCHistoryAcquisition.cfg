\* Two manifests of two windows that share all files, two processes, one crash.
\* The ceiling of a minute is the one that binds.
SPECIFICATION Spec
CONSTANTS
    Procs = {p1, p2}
    Manifests = {m1, m2}
    FullScope = {m1}
    WindowCount = 2
    RunLimit = 2
    MinuteLimit = 1
    DayLimit = 2
    ProviderMinute = 2
    ProviderDay = 3
    MinutesPerDay = 2
    Free = Free
    MaxMinute = 1
    MaxCrashes = 1
    MaxReports = 2
INVARIANTS
    AtMostOneTransmission
    ReservedBeforeSent
    CheckpointsGrounded
    ReportsHonest
    ProviderQuotaRespected
    RaisedOnlyAfterCrash
PROPERTIES
    ObservationOfThisRun
    FrontierOnly
    ReportsValidate
    ImplementsLifecycle
SYMMETRY Symmetry
CHECK_DEADLOCK FALSE
