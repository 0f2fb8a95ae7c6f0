CONSTANTS
    Profiles = {1}
    MaxRapid = 2
    Calls <- Modes
    Backend = Backend
    Capture = Capture
    None = None
SPECIFICATION Spec
CHECK_DEADLOCK FALSE
INVARIANTS
    ExitStopsAll
