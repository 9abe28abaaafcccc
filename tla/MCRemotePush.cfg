SPECIFICATION FairSpec
CONSTANTS
    None = None
    a1 = a1
    a2 = a2
    b2 = b2
    Pushes = {a1, a2, b2}
    Readers = {r1}
    Ids = {1, 2}
    IdOf <- MCIdOf
    Gen <- MCGen
    Owner <- MCOwner
    KeyOf <- OwnKeys
    IsPath <- MCIsPath
INVARIANTS ManifestMeansComplete SuccessMeansPublished ImportSeesOneKit LatestNotStale
PROPERTIES KitsAppendOnly PushEnds
CHECK_DEADLOCK FALSE
