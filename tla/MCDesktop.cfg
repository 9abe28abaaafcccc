\* Two notes, the tray started twice in a run of the program.
CONSTANTS
    MaxPads = 2
    MaxStarts = 2
    MaxIds = 12
    MaxQueue = 2
    MaxTries = 1
    MaxOptions = 2
SPECIFICATION Spec
INVARIANTS TypeOK NoMisdispatch IndicatorIsShown OpenMenuWorks
PROPERTIES KeepsStatus NeverStranded
