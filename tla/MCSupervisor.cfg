CONSTANTS
    Profiles = {1, 2}
    MaxRapid = 1
    Calls <- MCCalls
    Backend = Backend
    Capture = Capture
    None = None
SPECIFICATION Spec
CHECK_DEADLOCK FALSE
INVARIANTS
    CleanExit
    PidFilesMatch
    SidecarMeansSignalled
PROPERTIES
    RestartsBounded
    BackendDeathStops
    CleanupEnds
