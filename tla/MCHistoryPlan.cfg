\* Plans over at most two and a half weeks, and all answers to their windows.
SPECIFICATION Spec
CONSTANTS
    Series <- ShortSeries
    Overrides = {0, 3, 4}
    Cap = 10
    Boundary = 2
    Percent = 50
    Closures = {10}
INVARIANTS
    PlanDividesPeriod
    CryptoGapsAtBordersOnly
    SilenceIsBounded
    MarketsAnswerAccepted
CHECK_DEADLOCK FALSE
