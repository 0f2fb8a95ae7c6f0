CONSTANTS
    Stops = {1, 3}
    Campaigns = {2, 4}
SPECIFICATION StopSpec
CHECK_DEADLOCK FALSE
INVARIANTS
    ReportIsTrue
    NoneMissed
