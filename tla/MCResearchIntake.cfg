\* Two invocations of any manifests, at once or in turn, of which one may die.
SPECIFICATION Spec
CONSTANTS
    Procs = {p1, p2}
    Sources <- AllManifests
    MaxInvocations = 2
    MaxCrashes = 1
INVARIANTS
    AcceptedIsWhole
    PapersRetained
    SerialCorpusUnique
    ReconcilesUnlessInterrupted
    ConfirmedUnlessInterrupted
CHECK_DEADLOCK FALSE
