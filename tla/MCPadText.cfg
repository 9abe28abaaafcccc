\* Two characters, two tags, two entries of history.
CONSTANTS
    Tags = {"bold", "italic"}
    Typed = {"U+E001"}
    Legacy <- OldContents
    MaxLen = 2
    MaxUndo = 2
SPECIFICATION Spec
INVARIANTS TypeOK CleanReadsBack UndoEndsAtLoad
