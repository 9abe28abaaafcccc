SPECIFICATION FairSpec
CONSTANTS
    Pads = {a}
    Names = {n1, n2}
    NSlots = 2
    MaxEdits = 3
    HasTray = TRUE
    HasHelper = TRUE
    MaxFailed = 2
    RemoveFaults = TRUE
    ReadFaults = {"content"}
INVARIANTS TypeOK CleanMeansSaved QuitBacksUp
PROPERTIES TextNeverLost DeletedStaysDeleted EditsReachDisk
CHECK_DEADLOCK FALSE
