\* The daily plan of a crypto instrument from 2010-01-01 to 2026-08-13, with
\* the numbers of config/market_data_policy.json.
SPECIFICATION Spec
CONSTANTS
    Series <- Bitcoin
    Overrides = {0}
    Cap = 5000
    Boundary = 2
    Percent = 95
    Closures = {}
INVARIANTS
    EveryPlanCanComplete
CHECK_DEADLOCK FALSE
