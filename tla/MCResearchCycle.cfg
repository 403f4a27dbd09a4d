\* Two cycles, at once or in turn, and one mishap: a cycle dies or
\* the policy file is edited.
SPECIFICATION Spec
CONSTANTS
    Procs = {p1, p2}
    Requests <- TwoRequests
    Policies = {"v1", "v2"}
    Packet <- TwoPackets
    Rules <- TwoRules
    Outcomes <- Results
    MaxTrades = 4
    MaxCycles = 2
    MaxMishaps = 1
INVARIANTS
    EvidenceFirst
    StatusBacked
    SerialIdentities
    DrawdownIsWorstFall
    VerdictIsMonotone
PROPERTIES
    StatusMovesForward
SYMMETRY Symmetry
CHECK_DEADLOCK FALSE
