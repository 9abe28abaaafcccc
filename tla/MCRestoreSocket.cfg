SPECIFICATION Spec
CONSTANTS
    n1 = n1
    x1 = x1
    x2 = x2
    Notes = {n1}
    XNotes = {x1, x2}
    NoSocket = NoSocket
    Stale = Stale
    Xpad = Xpad
    MaxVersion = 3
    MaxSnaps = 1
SYMMETRY ProcessSymmetry
PROPERTY StaleSocketDoesNotCount
CHECK_DEADLOCK FALSE
