SPECIFICATION Spec
CONSTANTS
    Pads = {a}
    Names = {n1}
    NSlots = 2
    MaxEdits = 1
    HasTray = TRUE
    HasHelper = FALSE
    MaxFailed = 0
    RemoveFaults = FALSE
    ReadFaults = {}
INVARIANTS CrashCostsSeconds
CHECK_DEADLOCK FALSE
