SPECIFICATION Spec
CONSTANTS
    None = None
    k1 = k1
    k2 = k2
    kf = kf
    Procs = {p1, p2}
    Keys = {k1, k2, kf}
    Keep = 1
    ForeignKits <- OneForeign
    ImportById = TRUE
    MaxGen = 3
    MaxSerial = 2
    MaxImports = 2
SYMMETRY Symmetry
INVARIANTS HeadOnDisk GenerationsUnique BackupsOpen StatusHonest KeysPreserved
PROPERTIES SnapshotsPreserved
CHECK_DEADLOCK FALSE
