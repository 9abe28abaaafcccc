SPECIFICATION FairSpec
CONSTANTS
    None = None
    k1 = k1
    k2 = k2
    kf = kf
    Procs = {p1}
    Keys = {k1}
    Keep = 1
    ForeignKits <- NoForeign
    ImportById = FALSE
    MaxGen = 3
    MaxSerial = 4
    MaxImports = 1
INVARIANTS LatestKitIsNewest
PROPERTIES BackupReleasesLock
CHECK_DEADLOCK FALSE
