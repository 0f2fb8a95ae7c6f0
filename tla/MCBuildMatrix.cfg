SPECIFICATION Spec
CONSTANTS
    Configs = {1, 2, 3, 4}
    MaxBuilds = 2
    None = None
INVARIANTS SuccessMeansAllBuilt LeftBehind
PROPERTIES BuildEnds
CHECK_DEADLOCK FALSE
