------------------------------- MODULE Desktop -------------------------------
(***************************************************************************)
(* XNote on the desktop: which notes are on screen, what starting it,      *)
(* starting it a second time, the tray, the notes' own menus and the       *)
(* setting that switches the tray on and off do to them, and when the      *)
(* program ends.  The tray is Tray's, as it runs.                          *)
(*                                                                         *)
(* What a start finds on disk is any number of notes, hidden or not: how   *)
(* they got there is PadSave's.  The startup display is read where the     *)
(* code reads it, and may be anything.                                     *)
(***************************************************************************)
EXTENDS Tray

CONSTANTS
    MaxTries,  \* bound on how often the first idle check waits: 30 in the code
    MaxOptions \* bound on the options of one command line

ASSUME TriesAssumption == MaxTries \in Nat /\ MaxOptions \in Nat

VARIABLES
    phase,     \* "off" or "up"
    enabled,   \* the setting tray-enabled
    visible,   \* the pads on screen
    idle,      \* what first_idle_check will find: "done", "loaded", "empty"
    tries      \* how often it has waited

desk == <<phase, enabled, visible, idle, tries>>
vars == <<trayVars, desk>>

\* The options of a command line that act on the notes, and --no-new.
Options == {"new", "show", "hide", "toggle", "file", "quit", "nonew"}
CommandLines == {O \in SUBSET Options : Cardinality(O) <= MaxOptions}
Displays == {"show", "hide", "restore"}     \* autostart-display-pads 0, 1, 2

Indicator == active /\ present
Ready == live => ownResolved /\ watchResolved

\* xpad_settings_get_effective_startup_display.
Effective(display) == IF enabled THEN display ELSE "show"

-----------------------------------------------------------------------------
(* The end of the program: xpad_app_quit.                                   *)

Quit ==
    /\ phase' = "off"
    /\ made' = 0 /\ pads' = {} /\ visible' = {} /\ idle' = "done" /\ tries' = 0
    /\ TrayEnds
    /\ UNCHANGED enabled

\* A handler that changes what is on screen, and no more.
Shows(S) ==
    /\ visible' = S
    /\ UNCHANGED <<phase, enabled, idle, tries>>
    /\ UNCHANGED <<live, gen, exported, flags, bus, queues, icon, layout, open>>

\* The same with the menu and the click left alone.
Only == UNCHANGED <<group, menu, fetch>>

\* A new pad, shown.
ShowNew == NewPad /\ Shows(visible \cup {made + 1})

(***************************************************************************)
(* xpad_pad_close on every pad in turn: without an icon to come back by,   *)
(* the one that leaves nothing on screen quits.                            *)
(***************************************************************************)
CloseAll ==
    \/ (Indicator \/ pads = {}) /\ Shows({}) /\ Only
    \/ ~Indicator /\ pads # {} /\ Quit

\* xpad_pad_group_toggle_hide.
ToggleHide ==
    \/ pads \ visible # {} /\ Shows(pads) /\ Only
    \/ pads \subseteq visible /\ CloseAll

-----------------------------------------------------------------------------
(* Starting.                                                                *)

Init ==
    /\ phase = "off" /\ enabled \in BOOLEAN
    /\ made = 0 /\ pads = {} /\ visible = {} /\ idle = "done" /\ tries = 0
    /\ watcher \in BOOLEAN
    /\ Stopped

(***************************************************************************)
(* xpad_app_init.  The options and the setting for a new pad act before    *)
(* the notes are loaded: on a pad of theirs if they make one, which makes  *)
(* --hide and --toggle close the only pad there is and end the program     *)
(* before it began.  Then the notes, then a first pad if there is none,    *)
(* then the tray.                                                          *)
(***************************************************************************)
Start ==
    /\ phase = "off"
    /\ \E O \in CommandLines, autostartNewPad \in BOOLEAN, display \in Displays,
          loaded \in 0..MaxPads :
        LET new == "new" \in O \/ autostartNewPad
            opened == (IF new THEN 1 ELSE 0) + (IF "file" \in O THEN 1 ELSE 0)
            notes == (opened + 1)..(opened + loaded)
            byDefault == O \cap {"show", "hide"} = {}
            show == "show" \in O \/ (byDefault /\ Effective(display) = "show")
            hide == "hide" \in O \/ (byDefault /\ Effective(display) = "hide")
            first == loaded = 0 /\ ~new /\ "nonew" \notin O
        IN  /\ "quit" \notin O
            /\ ~(new /\ O \cap {"hide", "toggle"} # {})
            /\ made' = opened + loaded + (IF first THEN 1 ELSE 0)
            /\ made' <= MaxPads
            /\ pads' = 1..(opened + loaded + (IF first THEN 1 ELSE 0))
            /\ \E unhidden \in SUBSET notes :
                visible' = 1..opened
                           \cup (IF hide THEN {} ELSE IF show THEN notes ELSE unhidden)
                           \cup (IF first /\ Effective(display) = "show" THEN {opened + 1} ELSE {})
            /\ idle' = IF loaded > 0 THEN "loaded" ELSE "empty"
    /\ IF enabled THEN RuntimeStart(pads')
       ELSE UNCHANGED <<live, gen, exported, flags, menu, bus, queues, host, click>>
    /\ phase' = "up" /\ tries' = 0
    /\ UNCHANGED enabled

IdleWaits ==
    /\ phase = "up" /\ idle # "done"
    /\ ~Ready /\ tries < MaxTries
    /\ tries' = tries + 1
    /\ UNCHANGED <<trayVars, phase, enabled, visible, idle>>

CheckIsDue == Ready \/ tries = MaxTries

FirstIdle ==
    /\ phase = "up" /\ idle # "done"
    /\ CheckIsDue
    /\ \/ /\ Indicator \/ visible # {}
          /\ UNCHANGED visible
       \/ ~Indicator /\ visible = {} /\ idle = "loaded" /\ visible' = pads
    /\ idle' = "done" /\ tries' = 0
    /\ UNCHANGED <<trayVars, phase, enabled>>

IdleQuits ==
    /\ phase = "up" /\ idle = "empty"
    /\ CheckIsDue
    /\ ~Indicator /\ visible = {}
    /\ Quit

-----------------------------------------------------------------------------
(* The setting.                                                             *)

Enable ==
    /\ ~enabled
    /\ enabled' = TRUE
    /\ RuntimeStart(pads)
    /\ UNCHANGED <<group, phase, visible, idle, tries>>

\* A mutation: a tray that is switched off leaves the notes as they are.
DisableBlindly ==
    /\ enabled
    /\ enabled' = FALSE
    /\ RuntimeStop
    /\ UNCHANGED <<group, nextId, phase, visible, idle, tries>>

\* With nothing on screen the notes are shown first, or a new one, which the menu
\* still lists before it goes.
Disable ==
    /\ enabled
    /\ enabled' = FALSE
    /\ \/ visible # {} /\ UNCHANGED <<group, visible, nextId>>
       \/ visible = {} /\ pads # {} /\ visible' = pads /\ UNCHANGED <<group, nextId>>
       \/ /\ pads = {}
          /\ made < MaxPads /\ made' = made + 1
          /\ pads' = {made + 1} /\ visible' = {made + 1}
          /\ nextId' = nextId + (IF exported THEN 5 ELSE 0)
          /\ nextId' <= MaxIds + 1
    /\ RuntimeStop
    /\ UNCHANGED <<phase, idle, tries>>

-----------------------------------------------------------------------------
(* What is done to the notes themselves.                                    *)

Close(p) ==
    /\ p \in visible
    /\ \/ (Indicator \/ visible # {p}) /\ Shows(visible \ {p}) /\ Only /\ UNCHANGED click
       \/ ~Indicator /\ visible = {p} /\ Quit

\* A pad's own menu, keys and toolbar.
NewKey == visible # {} /\ ShowNew /\ UNCHANGED click
ShowAllKey == visible # {} /\ Shows(pads) /\ Only /\ UNCHANGED click
ShowKey == visible # {} /\ \E p \in pads : Shows(visible \cup {p}) /\ Only /\ UNCHANGED click

CloseAllKey ==
    /\ visible # {}
    /\ \/ Indicator /\ CloseAll /\ UNCHANGED click
       \/ ~Indicator /\ Quit

\* xpad_pad_delete: nothing looks at what is left.
Delete(p) ==
    /\ p \in visible
    /\ RemovePad(p)
    /\ Shows(visible \ {p})
    /\ UNCHANGED click

\* The quit of a pad's menu, and SIGTERM.
QuitAsked == phase = "up" /\ Quit

-----------------------------------------------------------------------------
(* What arrives from the tray.                                              *)

\* tray_dispatch.  A row's pad may be gone since (the weak pointer).
Dispatch(row) ==
    \/ row.act = "new" /\ ShowNew
    \/ row.act = "show" /\ Shows(pads) /\ Only
    \/ row.act = "close" /\ CloseAll
    \/ row.act = "present" /\ Shows(visible \cup (row.pad \cap pads)) /\ Only
    \/ row.act = "quit" /\ Quit

\* The "clicked" event.
Event ==
    /\ \E c \in click :
        IF live /\ exported /\ c.id \in DOMAIN items /\ items[c.id].enabled
        THEN Dispatch(items[c.id])
        ELSE Shows(visible) /\ Only
    /\ click' = {}

\* Activate, as tray-click-configuration has it, and SecondaryActivate.
Activate ==
    /\ icon
    /\ \/ ToggleHide /\ (phase' = "up" => UNCHANGED click)
       \/ ShowNew /\ UNCHANGED click

-----------------------------------------------------------------------------
(* A second xnote hands its options over: process_remote_args, and --new    *)
(* when it says there were none.                                            *)

\* What process_remote_args returns: --show and --hide are also set by the startup display.
HadOptions(O, display) == O \ {"nonew"} # {} \/ Effective(display) \in {"show", "hide"}

\* What a command line does, one option after the other; a pad it makes is the next
\* number.  over is that --hide, --toggle or --quit ends the program.
Outcome(O, display) ==
    LET new == IF "new" \in O \/ ~HadOptions(O, display) THEN {made + 1} ELSE {}
        file == IF "file" \in O THEN {made + 1} ELSE {}
        all == pads \cup new
        shown == IF "show" \in O THEN all ELSE visible \cup new
        hidden == IF "hide" \in O THEN {} ELSE shown
        toggles == "toggle" \in O /\ all \subseteq hidden
        toggled == IF toggles THEN {} ELSE IF "toggle" \in O THEN all ELSE hidden
    IN  [over |-> "quit" \in O \/ (("hide" \in O \/ toggles) /\ all # {} /\ ~Indicator),
         makes |-> new \cup file,
         visible |-> toggled \cup file]

\* A bound: a command makes one pad.
Outcomes ==
    {Outcome(O, display) : O \in {C \in CommandLines : "nonew" \notin C /\ ~({"new", "file"} \subseteq C)},
                           display \in Displays}

SecondLaunch ==
    /\ phase = "up"
    /\ \E does \in Outcomes :
        \/ does.over /\ Quit
        \/ /\ ~does.over
           /\ IF does.makes # {} THEN NewPad ELSE Only
           /\ Shows(does.visible)
           /\ UNCHANGED click

-----------------------------------------------------------------------------
Next ==
    \/ Start
    \/ IdleWaits \/ FirstIdle \/ IdleQuits
    \/ phase = "up" /\ (Enable \/ Disable)
    \/ \E p \in pads : Close(p) \/ Delete(p)
    \/ NewKey \/ ShowAllKey \/ ShowKey \/ CloseAllKey \/ QuitAsked
    \/ Event \/ Activate
    \/ SecondLaunch
    \/ (Callbacks \/ Surroundings \/ WatcherChanges) /\ UNCHANGED desk

Spec == Init /\ [][Next]_vars

-----------------------------------------------------------------------------
(* The variables have their types; the tray runs when the setting says so.  *)
TypeOK ==
    /\ TrayTypeOK
    /\ phase \in {"off", "up"} /\ enabled \in BOOLEAN
    /\ live <=> (phase = "up" /\ enabled)
    /\ visible \subseteq pads
    /\ idle \in {"done", "loaded", "empty"}
    /\ tries \in 0..MaxTries

(***************************************************************************)
(* "No tray icon" means that the notes are the only way to reach XNote:    *)
(* no step but the loss of the icon itself, or of the last note to be      *)
(* deleted, leaves it running with neither a note nor an icon.             *)
(***************************************************************************)
Stranded == phase = "up" /\ idle = "done" /\ visible = {} /\ ~Indicator

LostIcon == live /\ live' /\ Indicator

NoteDeleted == pads = {} \/ (pads' \subseteq pads /\ pads' # pads)

NeverStranded == [][Stranded' /\ ~Stranded => LostIcon \/ NoteDeleted]_vars

=============================================================================
