SPECIFICATION Spec
CONSTANTS
    Fonts = {sans, mono}
    Colours = {yellow, pink, grey}
    Theme = Theme
    ThemeFont = sans
    ThemeColour = grey
    Default = yellow
    None = None
    MaxBlocks = 4
INVARIANTS ShowsItsStyle LooksSurvive
