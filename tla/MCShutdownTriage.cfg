CONSTANTS
    MaxLaunches = 2
    Pids = {p1, p2}
SPECIFICATION Spec
SYMMETRY Symmetry
INVARIANTS
    OnlyShutdownsLeftOut
    OnlyShutdownLines
    ShutdownRecognised
