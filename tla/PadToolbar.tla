----------------------------- MODULE PadToolbar -----------------------------
(***************************************************************************)
(* The toolbar that floats over a note: the settings that show it, hide it *)
(* by itself and fill it with buttons, the timer that takes it away, the   *)
(* menus that hold it, and what of it a restart brings back.               *)
(*                                                                         *)
(* The settings are one object for all pads.  Each pad has one hide timer: *)
(* `timer` is the id the pad keeps, `sources` what the main loop has.  A   *)
(* source calls back with a bare pointer to the pad, so that one the pad   *)
(* has lost track of outlives it.                                          *)
(***************************************************************************)
EXTENDS Naturals, Sequences

CONSTANTS
    Pads,
    Nowhere,     \* the pointer is on no pad
    Buttons,     \* the names of the buttons
    Stock,       \* the list of buttons that was the default before 1.4
    MaxButtons,  \* bound on the length of the list
    MaxMenus     \* bound on what a pad counts as open menus

ASSUME ToolbarAssumption ==
    /\ Nowhere \notin Pads
    /\ {"New", "Color", "Separator"} \subseteq Buttons
    /\ Stock \in Seq(Buttons)
    /\ MaxButtons \in Nat /\ MaxMenus \in Nat

VARIABLES
    has, autohide,    \* the settings has-toolbar and autohide-toolbar
    buttons,          \* the list of buttons
    file,             \* the same three in default-style
    up,               \* the pads there are
    revealed,         \* the pads whose toolbar and grip are revealed
    pointer,          \* the pad the pointer is on
    timer, sources,   \* per pad: an id is kept; sources of the main loop
    menus,            \* per pad: menus_open
    popped,           \* per pad: the popovers on screen
    again             \* history: the pads that popped up a menu already on screen

settings == <<has, autohide, buttons, file>>
padVars == <<up, revealed, pointer, timer, sources, menus, popped, again>>
vars == <<settings, padVars>>

\* A pad's two menus, the toolbar's context menu and the palette.
Popovers == {"menu", "highlight", "context", "palette"}

Lists == UNION {[1..n -> Buttons] : n \in 0..MaxButtons}
Default == <<"New", "Color">>

\* A list the user never touched follows the default.
Loaded(list) == IF list = Stock THEN Default ELSE list

Saved == [has |-> has', autohide |-> autohide', buttons |-> buttons']

-----------------------------------------------------------------------------
(* The pieces of the handlers.                                             *)

\* g_timeout_add, if no countdown runs.
Arm(p) ==
    /\ timer' = [timer EXCEPT ![p] = TRUE]
    /\ sources' = [sources EXCEPT ![p] = IF timer[p] THEN @ ELSE @ + 1]

\* A mutation: the id is forgotten while its source runs on.
CancelForgets(p) ==
    /\ timer' = [timer EXCEPT ![p] = FALSE]
    /\ UNCHANGED sources

\* The real GSource is removed, not just the id.
Cancel(p) ==
    /\ timer' = [timer EXCEPT ![p] = FALSE]
    /\ sources' = [sources EXCEPT ![p] = IF timer[p] THEN @ - 1 ELSE @]

Keep == UNCHANGED <<timer, sources>>

\* xpad_pad_notify_has_toolbar, also at the construction of a pad.
AtRest(h, a, S) == IF h /\ ~a THEN S ELSE {}

-----------------------------------------------------------------------------
Init ==
    /\ has \in BOOLEAN /\ autohide \in BOOLEAN
    /\ \E list \in Lists \cup {Stock} :
        /\ file = [has |-> has, autohide |-> autohide, buttons |-> list]
        /\ buttons = Loaded(list)
    /\ up \in SUBSET Pads
    /\ revealed = AtRest(has, autohide, up)
    /\ pointer = Nowhere
    /\ timer = [p \in Pads |-> FALSE] /\ sources = [p \in Pads |-> 0]
    /\ menus = [p \in Pads |-> 0] /\ popped = [p \in Pads |-> {}]
    /\ again = {}

NewPad(p) ==
    /\ p \notin up
    /\ up' = up \cup {p}
    /\ revealed' = revealed \cup AtRest(has, autohide, {p})
    /\ UNCHANGED <<settings, pointer, timer, sources, menus, popped, again>>

\* gtk_window_destroy and xpad_pad_dispose.
DeletePad(p) ==
    /\ p \in up
    /\ up' = up \ {p} /\ revealed' = revealed \ {p}
    /\ pointer' = IF pointer = p THEN Nowhere ELSE pointer
    /\ Cancel(p)
    /\ menus' = [menus EXCEPT ![p] = 0] /\ popped' = [popped EXCEPT ![p] = {}]
    /\ again' = again \ {p}
    /\ UNCHANGED settings

Enter(p) ==
    /\ p \in up /\ pointer = Nowhere
    /\ pointer' = p
    /\ IF has /\ autohide THEN revealed' = revealed \cup {p} /\ Cancel(p)
       ELSE Keep /\ UNCHANGED revealed
    /\ UNCHANGED <<settings, up, menus, popped, again>>

Leave(p) ==
    /\ p \in up /\ pointer = p
    /\ pointer' = Nowhere
    /\ IF has /\ autohide /\ menus[p] = 0 THEN Arm(p) ELSE Keep
    /\ UNCHANGED <<settings, up, revealed, menus, popped, again>>

(***************************************************************************)
(* toolbar_timeout.  It asks again: a menu may have opened and the         *)
(* settings may have changed since the countdown began.                    *)
(***************************************************************************)
ToolbarTimeout(p) ==
    /\ sources[p] > 0
    /\ sources' = [sources EXCEPT ![p] = @ - 1]
    /\ timer' = [timer EXCEPT ![p] = FALSE]
    /\ revealed' = IF timer[p] /\ menus[p] = 0 /\ has /\ autohide THEN revealed \ {p} ELSE revealed
    /\ UNCHANGED <<settings, up, pointer, menus, popped, again>>

-----------------------------------------------------------------------------
(* The settings.  Each setter writes the whole file.                       *)

ToggleHas ==
    /\ has' = ~has
    /\ revealed' = AtRest(has', autohide, up)
    /\ UNCHANGED <<autohide, buttons, up, pointer, timer, sources, menus, popped, again>>
    /\ file' = Saved

\* Its row is greyed out while the toolbar is off.
ToggleAutohide ==
    /\ has
    /\ autohide' = ~autohide
    /\ IF autohide'
       THEN /\ timer' = [p \in Pads |-> p \in up \/ timer[p]]
            /\ sources' = [p \in Pads |-> IF p \in up /\ ~timer[p] THEN sources[p] + 1 ELSE sources[p]]
            /\ UNCHANGED revealed
       ELSE /\ revealed' = IF has THEN up ELSE revealed
            /\ Keep
    /\ UNCHANGED <<has, buttons, up, pointer, menus, popped, again>>
    /\ file' = Saved

-----------------------------------------------------------------------------
(* Menus: menu_popup and menu_popdown.                                     *)

\* It counts up whether or not the menu is on screen already.
PopUp(p, m) ==
    /\ p \in up /\ menus[p] < MaxMenus
    /\ popped' = [popped EXCEPT ![p] = @ \cup {m}]
    /\ menus' = [menus EXCEPT ![p] = @ + 1]
    /\ again' = IF m \in popped[p] THEN again \cup {p} ELSE again
    /\ Cancel(p)
    /\ UNCHANGED <<settings, up, revealed, pointer>>

\* GTK dismisses an open popover before a click opens another ...
ClickMenu(p, m) == (\A q \in Pads : popped[q] = {}) /\ PopUp(p, m)

\* ... but a key on the pad may open the pad's menu over another one, or
\* over itself.
KeyMenu(p, m) ==
    /\ m \in {"menu", "highlight"}
    /\ \A q \in Pads \ {p} : popped[q] = {}
    /\ PopUp(p, m)

\* Mutations: the end of a menu counts down only where the pointer is; it
\* forgets the other menus.
PopDownHolds(p, m) ==
    /\ popped' = [popped EXCEPT ![p] = @ \ {m}]
    /\ menus' = [menus EXCEPT ![p] = IF @ > 0 THEN @ - 1 ELSE 0]
    /\ IF menus'[p] = 0 /\ pointer = p THEN Arm(p) ELSE Keep
    /\ UNCHANGED <<up, revealed, pointer, again>>

PopDownForgets(p, m) ==
    /\ popped' = [popped EXCEPT ![p] = @ \ {m}]
    /\ menus' = [menus EXCEPT ![p] = 0]
    /\ Arm(p)
    /\ UNCHANGED <<up, revealed, pointer, again>>

\* The countdown starts again once the last menu is gone.
PopDown(p, m) ==
    /\ popped' = [popped EXCEPT ![p] = @ \ {m}]
    /\ menus' = [menus EXCEPT ![p] = IF @ > 0 THEN @ - 1 ELSE 0]
    /\ IF menus'[p] = 0 THEN Arm(p) ELSE Keep
    /\ UNCHANGED <<up, revealed, pointer, again>>

CloseMenu(p, m) ==
    /\ m \in popped[p]
    /\ PopDown(p, m)
    /\ UNCHANGED settings

(***************************************************************************)
(* A row of the context menu changes the list, then closes the menu.  The  *)
(* rows are the buttons the list does not have, any number of separators,  *)
(* and two for removing where there is a button.  Remove All does not save.*)
(***************************************************************************)
InList(b) == \E i \in 1..Len(buttons) : buttons[i] = b

RemoveRows == \E b \in Buttons \ {"Separator"} : InList(b)

AddButton(p, b) ==
    /\ "context" \in popped[p]
    /\ b = "Separator" \/ ~InList(b)
    /\ Len(buttons) < MaxButtons
    /\ buttons' = Append(buttons, b)
    /\ UNCHANGED <<has, autohide>>
    /\ file' = Saved
    /\ PopDown(p, "context")

\* A mutation: it does not save either.
RemoveLastUnsaved(p) ==
    /\ "context" \in popped[p]
    /\ RemoveRows
    /\ buttons' = SubSeq(buttons, 1, Len(buttons) - 1)
    /\ UNCHANGED <<has, autohide, file>>
    /\ PopDown(p, "context")

RemoveLast(p) ==
    /\ "context" \in popped[p]
    /\ RemoveRows
    /\ buttons' = SubSeq(buttons, 1, Len(buttons) - 1)
    /\ UNCHANGED <<has, autohide>>
    /\ file' = Saved
    /\ PopDown(p, "context")

RemoveAll(p) ==
    /\ "context" \in popped[p]
    /\ RemoveRows
    /\ buttons' = <<>>
    /\ UNCHANGED <<has, autohide, file>>
    /\ PopDown(p, "context")

(***************************************************************************)
(* The program ends, or is killed, and starts again, with whatever pads    *)
(* (PadSave): every setting is already in the file.                        *)
(***************************************************************************)
Restart ==
    /\ has' = file.has /\ autohide' = file.autohide /\ buttons' = Loaded(file.buttons)
    /\ up' \in SUBSET Pads
    /\ revealed' = AtRest(has', autohide', up')
    /\ pointer' = Nowhere
    /\ timer' = [p \in Pads |-> FALSE] /\ sources' = [p \in Pads |-> 0]
    /\ menus' = [p \in Pads |-> 0] /\ popped' = [p \in Pads |-> {}]
    /\ again' = {}
    /\ UNCHANGED file

Pad(p) ==
    \/ NewPad(p) \/ DeletePad(p) \/ Enter(p) \/ Leave(p) \/ ToolbarTimeout(p)
    \/ \E m \in Popovers : ClickMenu(p, m) \/ KeyMenu(p, m) \/ CloseMenu(p, m)
    \/ \E b \in Buttons : AddButton(p, b)
    \/ RemoveLast(p) \/ RemoveAll(p)

Next == ToggleHas \/ ToggleAutohide \/ Restart \/ \E p \in Pads : Pad(p)

Spec == Init /\ [][Next]_vars

-----------------------------------------------------------------------------
(* Properties.                                                             *)

TypeOK ==
    /\ has \in BOOLEAN /\ autohide \in BOOLEAN
    /\ buttons \in Seq(Buttons)
    /\ file \in [has : BOOLEAN, autohide : BOOLEAN, buttons : Seq(Buttons)]
    /\ up \subseteq Pads /\ revealed \subseteq up
    /\ pointer \in up \cup {Nowhere}
    /\ timer \in [Pads -> BOOLEAN] /\ sources \in [Pads -> Nat]
    /\ menus \in [Pads -> Nat] /\ popped \in [Pads -> SUBSET Popovers]
    /\ again \subseteq up

(***************************************************************************)
(* The toolbar is where the settings say.  Switched off it is away, kept   *)
(* it is there, and one that hides by itself never stays for good over a   *)
(* note that the pointer has left and no menu holds: a countdown runs.     *)
(* Enter, leave, the menus, both settings and the timer itself all start   *)
(* and stop that countdown, in any order.  Excepted is a pad whose menu    *)
(* was popped up while on screen (Menu or Shift+F10 over the open menu):   *)
(* menu_popup counts it twice, "closed" once, and the count never falls to *)
(* 0 again.                                                                *)
(***************************************************************************)
ToolbarGoesAway ==
    /\ ~has => revealed = {}
    /\ has /\ ~autohide => revealed = up
    /\ \A p \in revealed \ again :
         autohide /\ pointer # p /\ popped[p] = {} => timer[p]

(***************************************************************************)
(* While a menu is up the toolbar it may be anchored in stays (menus_open, *)
(* toolbar_timeout): no countdown, begun before the menu, by another menu  *)
(* that closed or by a setting, takes it away.  Only switching the toolbar *)
(* off does.                                                               *)
(***************************************************************************)
MenuHoldsToolbar ==
    [][\A p \in revealed \ revealed' : popped[p] \cap popped'[p] # {} => ~has']_vars

(***************************************************************************)
(* The main loop has no countdown that its pad does not know of: so that   *)
(* disposing of a pad, with a menu open or not, stops whatever would call  *)
(* back into freed memory.                                                 *)
(***************************************************************************)
TimerOwned ==
    \A p \in Pads : /\ sources[p] = IF timer[p] THEN 1 ELSE 0
                    /\ timer[p] => p \in up

(***************************************************************************)
(* docs/user-guide.md:101: what a restart brings back is the toolbar on    *)
(* screen.  The code has two exceptions: a toolbar emptied by Remove All,  *)
(* which is not saved, and a list that spells the old default.             *)
(***************************************************************************)
ToolbarSurvives ==
    /\ file.has = has /\ file.autohide = autohide
    /\ Loaded(file.buttons) = buttons \/ buttons \in {<<>>, Stock}

=============================================================================
