SPECIFICATION Spec
CONSTANTS
    Pads = {a, b}
    Nowhere = Nowhere
    Buttons = {"New", "Color", "Separator"}
    Stock <- OldDefault
    MaxButtons = 2
    MaxMenus = 4
SYMMETRY PadSymmetry
INVARIANTS ToolbarGoesAway TimerOwned ToolbarSurvives
PROPERTIES MenuHoldsToolbar
