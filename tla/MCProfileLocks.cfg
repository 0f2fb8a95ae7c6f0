CONSTANTS
    Configs = {1, 2}
    Selections <- MCSelections
    Supervisors = {s1, s2}
    Builds = {b1}
    Pids = {p1, p2}
    None = None
SPECIFICATION Spec
SYMMETRY Symmetry
INVARIANTS
    NoBuildOverLive
    OneSupervised
    IInv
PROPERTIES
    ImplementsTree
