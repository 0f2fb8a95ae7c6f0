CONSTANTS
    Names <- MCNames
    Target <- MCTarget
    Dirs <- MCDirs
    Inside <- MCInside
    Closed = {"vault"}
    Suffix <- MCSuffix
    Linked = {"py"}
    ConfigFile = "ini"
    Checker = "py"
    Members = {"", "m1", "m2"}
    Checks = {"asan", "libfuzzer"}
    Driver = "libfuzzer"
    Configs <- MCConfigs
    Trees <- MCTrees
    Absent = Absent
    None = None
    Changing = {"lib"}
SPECIFICATION PolicySpec
CHECK_DEADLOCK FALSE
INVARIANTS
    ZeroIsEarned
    FailureIsReal
    AlarmHasCause
    InputsKept
