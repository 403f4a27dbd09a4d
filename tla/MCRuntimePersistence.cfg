\* Three operations by two clients on the three stores, and two faults.
SPECIFICATION OneService
CONSTANTS
    Procs = {p1, p2}
    MaxOperations = 3
    MaxFaults = 2
    Catalogs <- Versions
    Free = Free
    Payloads = {x}
    Times = {t1}
    Items = {i}
    MaxTTL = 2
    MaxNow = 2
INVARIANTS
    TypeOK
    DatabaseIsACatalog
    ValidMeansInstalled
    RefusedOnlyForOtherBytes
    ReferencesRestore
    ManifestsRestore
    RefusedOnlyAfterMishap
    PutsAreIdempotent
    StoredOncePerLifetime
PROPERTIES
    AppliesEnd
CHECK_DEADLOCK FALSE
