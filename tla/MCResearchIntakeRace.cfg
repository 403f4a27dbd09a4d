\* A paper and its mirror submitted at once; nothing fails.
SPECIFICATION Spec
CONSTANTS
    Procs = {p1, p2}
    Sources <- WithMirror
    MaxInvocations = 2
    MaxCrashes = 0
INVARIANTS
    DuplicateRule
CHECK_DEADLOCK FALSE
