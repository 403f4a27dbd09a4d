SPECIFICATION Spec
CONSTANTS
    Writers = {w1, w2, w3}
    MaxEntries = 4
INVARIANTS
    SerialAppendsKeepChain
    BreakIsContained
PROPERTIES
    BreakIsPermanent
CHECK_DEADLOCK FALSE
