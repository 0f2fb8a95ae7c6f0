CONSTANTS
    Supervisors = {s1, s2}
    Ports = 2
    MaxPolls = 2
    Stranger = Stranger
    None = None
SPECIFICATION Spec
CHECK_DEADLOCK FALSE
INVARIANTS
    LeavesNothing
PROPERTIES
    ReadyMeansServing
    WaitsEnd
