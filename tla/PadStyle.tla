------------------------------ MODULE PadStyle ------------------------------
(***************************************************************************)
(* The font and the colours of a note: the defaults in Preferences, which  *)
(* a note follows or not, the note's own choice in its Layout dialog and   *)
(* on the toolbar's palette, and what its info file keeps of all that.     *)
(*                                                                         *)
(* Text and background colour go together through every handler: a pair is *)
(* one value.  The text view hears of a new default font through a signal  *)
(* handler that is blocked and unblocked, and GLib counts the blocks.      *)
(***************************************************************************)
EXTENDS Naturals

CONSTANTS
    Fonts, Colours,
    Theme,                 \* NULL in the settings: what the desktop theme has
    ThemeFont, ThemeColour,\* what that is
    Default,               \* default_text_color and default_back_color
    None,
    MaxBlocks              \* bound on how often the handler is blocked

\* A note's text view, its Layout dialog and what its info file says of them.
Views == [followFont : BOOLEAN, followColor : BOOLEAN, own : Colours, shown : Colours \cup {Theme},
          font : Fonts \cup {Theme}, blocks : Nat]
Dialogs == [fontcheck : BOOLEAN, fontname : Fonts, colorcheck : BOOLEAN, col : Colours]
Infos == [followFont : BOOLEAN, followColor : BOOLEAN, font : Fonts, own : Colours, locked : BOOLEAN]

ASSUME StyleAssumption ==
    /\ Theme \notin Fonts \cup Colours
    /\ None \notin Views \cup Dialogs \cup Infos
    /\ ThemeFont \in Fonts /\ {ThemeColour, Default} \subseteq Colours
    /\ MaxBlocks \in Nat \ {0}

VARIABLES
    font, colors,   \* the settings fontname and text-color, back-color
    view,           \* the note's text view
    dialog,         \* its Layout dialog
    info,           \* its info file
    unsaved         \* unsaved_info

vars == <<font, colors, view, dialog, info, unsaved>>

Resolved(f) == IF f = Theme THEN ThemeFont ELSE f

-----------------------------------------------------------------------------
(* The text view.  `own` is its colour properties, `shown` its style sheet.*)

SetColors(v, c) == [v EXCEPT !.own = IF c = Theme THEN Default ELSE c, !.shown = c]

NotifyColors(v, c) == SetColors(v, IF v.followColor THEN c ELSE v.own)

\* The setter of follow-font-style blocks once more at every FALSE.
SetFollowFont(v, on) ==
    IF on
    THEN [v EXCEPT !.followFont = TRUE, !.font = font, !.blocks = IF @ > 0 THEN @ - 1 ELSE 0]
    ELSE [v EXCEPT !.followFont = FALSE, !.blocks = @ + 1]

\* Constructed as following, then blocked.
FreshView ==
    SetColors([followFont |-> TRUE, followColor |-> TRUE, own |-> Default, shown |-> Theme,
               font |-> font, blocks |-> 1], colors)

\* xpad_pad_load_info; `locked` is what an old version wrote.
LoadInfo(i) ==
    LET v1 == [SetFollowFont(FreshView, i.followFont) EXCEPT !.followColor = i.followColor]
        v2 == IF i.locked THEN [SetFollowFont(v1, FALSE) EXCEPT !.followColor = FALSE] ELSE v1
        v3 == IF i.followFont THEN v2 ELSE [v2 EXCEPT !.font = i.font]
    IN  IF i.followColor THEN v3 ELSE SetColors(v3, i.own)

-----------------------------------------------------------------------------
Init ==
    /\ font \in Fonts \cup {Theme} /\ colors \in Colours \cup {Theme}
    /\ info \in Infos \cup {None}
    /\ view = IF info = None THEN None ELSE LoadInfo(info)
    /\ dialog = None /\ unsaved = FALSE

\* With random-color, a new note takes one of the palette.
NewPad ==
    /\ view = None
    /\ view' = FreshView \/ \E c \in Colours : view' = SetColors([FreshView EXCEPT !.followColor = FALSE], c)
    /\ unsaved' = TRUE
    /\ UNCHANGED <<font, colors, dialog, info>>

DeletePad ==
    /\ view # None
    /\ view' = None /\ dialog' = None /\ info' = None /\ unsaved' = FALSE
    /\ UNCHANGED <<font, colors>>

-----------------------------------------------------------------------------
(* Preferences.  A new default reaches every open note.                    *)

SetFont(f) ==
    /\ font' = f
    /\ view' = IF view # None /\ view.blocks = 0 THEN [view EXCEPT !.font = f] ELSE view
    /\ UNCHANGED <<colors, dialog, info, unsaved>>

SetDefaultColors(c) ==
    /\ colors' = c
    /\ view' = IF view = None THEN None ELSE NotifyColors(view, c)
    /\ UNCHANGED <<font, dialog, info, unsaved>>

(***************************************************************************)
(* change_font_check and change_color_check.  Both buttons of the pair     *)
(* call them, first the one that goes off and then the one that comes on:  *)
(* whichever is clicked, the setting ends as what the chooser shows, the   *)
(* theme's font or colours if the setting was the theme.                   *)
(***************************************************************************)
ChangeFontCheck == SetFont(Resolved(font))
ChangeColorCheck == SetDefaultColors(IF colors = Theme THEN ThemeColour ELSE colors)

\* The choosers are greyed out while the setting is the theme.
ChangeFontFace == font # Theme /\ \E f \in Fonts : SetFont(f)
ChangeColor == colors # Theme /\ \E c \in Colours : SetDefaultColors(c)

-----------------------------------------------------------------------------
(* The note's Layout dialog and the palette.                               *)

OpenProperties ==
    /\ view # None /\ dialog = None
    /\ dialog' = [fontcheck |-> ~view.followFont, fontname |-> Resolved(view.font),
                  colorcheck |-> ~view.followColor, col |-> view.own]
    /\ UNCHANGED <<font, colors, view, info, unsaved>>

CloseProperties ==
    /\ dialog # None
    /\ dialog' = None
    /\ UNCHANGED <<font, colors, view, info, unsaved>>

\* prop_notify_font: every notification sets the view's flag again.
PropNotifyFont(d) ==
    LET v == SetFollowFont(view, ~d.fontcheck)
    IN  /\ v.blocks <= MaxBlocks
        /\ view' = IF d.fontcheck THEN [v EXCEPT !.font = d.fontname] ELSE v
        /\ dialog' = d
        /\ unsaved' = TRUE
        /\ UNCHANGED <<font, colors, info>>

\* A mutation: the choice is not marked for saving.
PropNotifyColorsUnsaved(d) ==
    /\ view' = SetColors([view EXCEPT !.followColor = ~d.colorcheck], IF d.colorcheck THEN d.col ELSE colors)
    /\ dialog' = d
    /\ UNCHANGED <<font, colors, info, unsaved>>

PropNotifyColors(d) ==
    /\ view' = SetColors([view EXCEPT !.followColor = ~d.colorcheck], IF d.colorcheck THEN d.col ELSE colors)
    /\ dialog' = d
    /\ unsaved' = TRUE
    /\ UNCHANGED <<font, colors, info>>

Layout ==
    /\ dialog # None
    /\ \/ PropNotifyFont([dialog EXCEPT !.fontcheck = ~@])
       \/ dialog.fontcheck /\ \E f \in Fonts : PropNotifyFont([dialog EXCEPT !.fontname = f])
       \/ PropNotifyColors([dialog EXCEPT !.colorcheck = ~@])
       \/ dialog.colorcheck /\ \E c \in Colours : PropNotifyColors([dialog EXCEPT !.col = c])

\* A mutation: an open dialog is left behind.
SetBackColorAlone(c) ==
    /\ view # None
    /\ view' = SetColors([view EXCEPT !.followColor = FALSE], c)
    /\ unsaved' = TRUE
    /\ UNCHANGED <<font, colors, dialog, info>>

\* xpad_pad_set_back_color; an open dialog is set to agree.
SetBackColor(c) ==
    /\ view # None
    /\ view' = SetColors([view EXCEPT !.followColor = FALSE], c)
    /\ dialog' = IF dialog = None THEN None ELSE [dialog EXCEPT !.colorcheck = TRUE, !.col = c]
    /\ unsaved' = TRUE
    /\ UNCHANGED <<font, colors, info>>

-----------------------------------------------------------------------------
\* What xpad_pad_save_info writes.  An old version's `locked` is not in it.
Written(v) ==
    [followFont |-> v.followFont, followColor |-> v.followColor, font |-> Resolved(v.font),
     own |-> v.own, locked |-> FALSE]

\* The timer, a move or the end of the program; the write may fail.
SaveInfo ==
    /\ view # None /\ unsaved
    /\ info' = Written(view)
    /\ unsaved' = FALSE
    /\ UNCHANGED <<font, colors, view, dialog>>

\* The note is resized, hidden or shown.
Touch ==
    /\ view # None /\ ~unsaved
    /\ unsaved' = TRUE
    /\ UNCHANGED <<font, colors, view, dialog, info>>

\* The program ends after its last saves, or is killed, and starts again.
Restart ==
    /\ view' = IF info = None THEN None ELSE LoadInfo(info)
    /\ dialog' = None /\ unsaved' = FALSE
    /\ UNCHANGED <<font, colors, info>>

Next ==
    \/ NewPad \/ DeletePad
    \/ ChangeFontCheck \/ ChangeFontFace \/ ChangeColorCheck \/ ChangeColor
    \/ OpenProperties \/ CloseProperties \/ Layout \/ \E c \in Colours : SetBackColor(c)
    \/ SaveInfo \/ Touch \/ Restart

Spec == Init /\ [][Next]_vars

-----------------------------------------------------------------------------
(* Properties.                                                             *)

TypeOK ==
    /\ font \in Fonts \cup {Theme} /\ colors \in Colours \cup {Theme}
    /\ view \in Views \cup {None} /\ dialog \in Dialogs \cup {None}
    /\ info \in Infos \cup {None}
    /\ unsaved \in BOOLEAN

\* A note an old version locked shows the theme's colours without following.
FrozenTheme(v) == ~v.followColor /\ v.shown = Theme /\ v.own = Default

(***************************************************************************)
(* A note shows the colours it is set to: the defaults of this moment if   *)
(* it follows them, its own if not.  One whose handler is not blocked      *)
(* shows the default font.  And an open Layout dialog says what the note   *)
(* has, also after a click on the palette behind it.                       *)
(***************************************************************************)
ShowsItsStyle ==
    view # None =>
        /\ view.followColor => view.shown = colors
        /\ ~view.followColor => view.shown = view.own \/ FrozenTheme(view)
        /\ view.blocks = 0 => view.followFont /\ view.font = font
        /\ dialog # None =>
            /\ dialog.fontcheck = ~view.followFont /\ dialog.colorcheck = ~view.followColor
            /\ dialog.fontcheck => dialog.fontname = Resolved(view.font)
            /\ dialog.colorcheck => dialog.col = view.own

Look(v) ==
    [followFont |-> v.followFont, followColor |-> v.followColor, shown |-> v.shown,
     font |-> IF v.followFont THEN None ELSE Resolved(v.font)]

(***************************************************************************)
(* A note without unsaved changes looks after a restart as it does now:    *)
(* the choices made in the dialog and on the palette and the random colour *)
(* of a new note are all in its file.  A file that an old version locked   *)
(* freezes the defaults of each start, until it is written anew.           *)
(***************************************************************************)
LooksSurvive ==
    view # None /\ ~unsaved =>
        /\ info # None
        /\ info.locked \/ FrozenTheme(view) \/ Look(LoadInfo(info)) = Look(view)

=============================================================================
