SPECIFICATION Spec
CONSTANTS
    Inputs <- MCInputs
    MaxPackets = 2
    Invalid = Invalid
INVARIANTS InBounds Replayed FramingAgrees NormalizedRuns
