CONSTANTS
    Writers = {n1, n2}
    Seeds = {s}
    Units = {u}
    None = None
SPECIFICATION Spec
SYMMETRY Symmetry
CHECK_DEADLOCK FALSE
INVARIANTS
    FilesWhole
    RunsComplete
