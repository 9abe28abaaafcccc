SPECIFICATION Spec
CONSTANTS
    Pads = {a, b}
    Names = {n1, n2}
    NSlots = 3
    MaxEdits = 1
    HasTray = FALSE
    HasHelper = FALSE
    MaxFailed = 1
    RemoveFaults = FALSE
    ReadFaults = {}
SYMMETRY PadSymmetry
INVARIANTS EditsAreScheduled
PROPERTIES QuitSavesEverything
CHECK_DEADLOCK FALSE
