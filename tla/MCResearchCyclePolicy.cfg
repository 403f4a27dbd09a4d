\* One cycle; the policy file changes while it runs.
SPECIFICATION Spec
CONSTANTS
    Procs = {p1}
    Requests <- OneRequest
    Policies = {"v1", "v2"}
    Packet <- OnePacket
    Rules <- TwoRules
    Outcomes = {}
    MaxTrades = 0
    MaxCycles = 1
    MaxMishaps = 1
INVARIANTS
    VerdictUnderBoundPolicy
CHECK_DEADLOCK FALSE
