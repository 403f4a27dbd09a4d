\* A paper submitted again after its first intake died.
SPECIFICATION Spec
CONSTANTS
    Procs = {p1}
    Sources <- OnlyOriginal
    MaxInvocations = 2
    MaxCrashes = 1
INVARIANTS
    DuplicateWasAccepted
CHECK_DEADLOCK FALSE
