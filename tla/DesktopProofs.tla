--------------------------- MODULE DesktopProofs ---------------------------
(***************************************************************************)
(* Proofs about Desktop and the Tray in it, for any bounds: a click never  *)
(* reaches another row than the one the user saw, a settled tray knows     *)
(* whether its icon is shown, an open menu that was read is the program's, *)
(* the tray implements TrayStatus, and nothing but the loss of the icon or *)
(* the deletion of the last note leaves XNote running out of reach.        *)
(*                                                                         *)
(* All but the last are about the tray's variables, which the steps of     *)
(* Desktop change in few ways (TrayStep); the invariants BusInv and        *)
(* MenuInv are shown for those.  What they have to know is what the        *)
(* callbacks that are still on their way will say, and that those of an    *)
(* earlier tray say nothing.                                               *)
(***************************************************************************)
EXTENDS Desktop, FiniteSetTheorems, TLAPS

\* A tray that does not run knows nothing, and nothing of it is on the bus.
StoppedIsQuiet ==
    ~live => /\ ~exported /\ ~asked /\ ~named /\ ~icon
             /\ ~active /\ ~present /\ ~ownResolved /\ ~watchResolved

\* What is active or present has been heard of.
HeardOf == (active => ownResolved) /\ (present => watchResolved)

\* Callbacks come in the order of their trays, and none is from a tray to come; g is
\* the generation of now and on whether its tray runs.
InOrder(q, g, on) ==
    /\ \A i \in 1..Len(q) : q[i][2] <= g /\ (~on => q[i][2] < g)
    /\ \A i, j \in 1..Len(q) : i <= j => q[i][2] <= q[j][2]

\* Whether the last callback in a queue is from the tray of generation g.
Waiting(q, g) == q # <<>> /\ q[Len(q)][2] = g

\* The name has one answer, which is the last callback in the queue.
OwnAnswer ==
    /\ \A i \in 1..Len(ownQueue) : ownQueue[i][2] = gen =>
          i = Len(ownQueue) /\ ~asked /\ ~active /\ (named <=> ownQueue[i][1] = "acquired")
    /\ asked => ~named /\ exported
    /\ active => named
    /\ named => exported
    /\ named /\ ~active => Waiting(ownQueue, gen)

\* The last callback about the watcher is right, and so is what was made of it.
WatchAnswer ==
    live => (watcher <=> IF Waiting(watchQueue, gen) THEN watchQueue[Len(watchQueue)][1] = "appeared"
                         ELSE present)

\* The icon is there when it can be, unless a callback that registers it is on its way.
IconFollows ==
    /\ icon => named /\ watcher
    /\ active /\ present /\ watcher /\ ~Waiting(watchQueue, gen) => icon

\* The desktop's ids, where they are still valid, name the same rows.
LayoutAgrees == \A id \in DOMAIN layout : id \in DOMAIN items => items[id] = layout[id]

\* A menu is open under an icon, and the last one built was of the pads there are.
OpenIsPrinted == open => icon /\ \E q \in ByTitle(pads) : printed = {q}

BusInv ==
    /\ StoppedIsQuiet /\ HeardOf
    /\ InOrder(ownQueue, gen, live) /\ InOrder(watchQueue, gen, live)
    /\ OwnAnswer /\ WatchAnswer /\ IconFollows

MenuInv == LayoutAgrees /\ NoMisdispatch /\ OpenIsPrinted /\ OpenMenuWorks

Inv == TypeOK /\ BusInv /\ MenuInv

-----------------------------------------------------------------------------
(* The menus that are built.                                               *)

LEMMA PadsAreFinite ==
    ASSUME NEW S \in SUBSET Pads
    PROVE  IsFiniteSet(S) /\ Cardinality(S) \in Nat
  <1>1. MaxPads \in Nat
    BY BoundsAssumption
  <1>2. IsFiniteSet(1..MaxPads)
    BY <1>1, FS_Interval
  <1> QED
    BY <1>2, FS_Subset, FS_CardinalityType DEF Pads

LEMMA TitlesAreSequence ==
    ASSUME NEW S \in SUBSET Pads, NEW q \in ByTitle(S)
    PROVE  /\ q \in Seq(S) /\ Len(q) = Cardinality(S) /\ Len(q) \in Nat
           /\ DOMAIN q = 1..Len(q)
           /\ \A i \in 1..Len(q) : q[i] \in Pads
  <1>1. Cardinality(S) \in Nat
    BY PadsAreFinite
  <1>2. q \in [1..Cardinality(S) -> S]
    BY DEF ByTitle
  <1> QED
    BY <1>1, <1>2

LEMMA RowsAreRows ==
    ASSUME NEW S \in SUBSET Pads, NEW q \in ByTitle(S)
    PROVE  \A i \in 1..(Len(q) + 4) : RowsOf(q)[i] \in Rows
  <1>1. Len(q) \in Nat /\ \A i \in 1..Len(q) : q[i] \in Pads
    BY TitlesAreSequence
  <1>2. \A act \in {"new", "show", "close", "quit"}, on \in BOOLEAN : Row(act, on) \in Rows
    BY DEF Row, Rows
  <1>3. \A p \in Pads : PadRow(p) \in Rows
    BY DEF PadRow, Rows
  <1>4. (q # <<>>) \in BOOLEAN
    OBVIOUS
  <1> SUFFICES ASSUME NEW i \in 1..(Len(q) + 4)
               PROVE  RowsOf(q)[i] \in Rows
    OBVIOUS
  <1>5. CASE i \in {1, 2, 3, Len(q) + 4}
    BY <1>1, <1>2, <1>4, <1>5 DEF RowsOf
  <1>6. CASE i \notin {1, 2, 3, Len(q) + 4}
    <2>1. i - 3 \in 1..Len(q)
      BY <1>1, <1>6
    <2>2. RowsOf(q)[i] = PadRow(q[i - 3])
      BY <1>1, <1>6 DEF RowsOf
    <2> QED
      BY <1>1, <1>3, <2>1, <2>2
  <1> QED
    BY <1>5, <1>6

\* A menu that is built has ids that were never given before.
LEMMA RebuildIsFresh ==
    ASSUME NEW S \in SUBSET Pads, NEW q \in ByTitle(S),
           nextId \in 1..(MaxIds + 1), Rebuild(q)
    PROVE  /\ IsMenu(items)' /\ nextId' \in nextId..(MaxIds + 1)
           /\ DOMAIN items' \cap 1..(nextId - 1) = {}
           /\ printed' = {q}
  <1> DEFINE n == Len(q)
  <1>0. n \in Nat /\ MaxIds \in Nat
    BY TitlesAreSequence, BoundsAssumption
  <1>1. /\ items' = [id \in nextId..(nextId + n + 3) |-> RowsOf(q)[id - nextId + 1]]
        /\ nextId' = nextId + n + 4 /\ nextId + n + 3 <= MaxIds
        /\ printed' = {q}
    BY DEF Rebuild
  <1>2. DOMAIN items' = nextId..(nextId + n + 3)
    BY <1>1
  <1>3. ASSUME NEW id \in DOMAIN items'
        PROVE  id \in Ids /\ id < nextId' /\ items'[id] \in Rows
    <2>1. id \in nextId..(nextId + n + 3)
      BY <1>2
    <2>2. id - nextId + 1 \in 1..(n + 4)
      BY <2>1, <1>0
    <2>3. items'[id] = RowsOf(q)[id - nextId + 1]
      BY <1>1, <2>1
    <2> QED
      BY <1>0, <1>1, <2>1, <2>2, <2>3, RowsAreRows DEF Ids
  <1>4. items' = [id \in DOMAIN items' |-> items'[id]]
    BY <1>1
  <1>5. IsMenu(items)'
    BY <1>3, <1>4 DEF IsMenu
  <1> QED
    BY <1>0, <1>1, <1>2, <1>5

LEMMA EmptyMenu == IsMenu(<<>>) /\ DOMAIN <<>> = {}
  <1>1. DOMAIN <<>> = {}
    OBVIOUS
  <1>2. <<>> = [id \in {} |-> <<>>[id]]
    OBVIOUS
  <1> QED
    BY <1>1, <1>2 DEF IsMenu

-----------------------------------------------------------------------------
(* What the steps of Desktop do to the tray's variables.                   *)

\* The menu stands for the pads it stood for.
PadsKept ==
    /\ UNCHANGED <<menu, fetch>>
    /\ pads' = pads \/ ~(live /\ exported)

\* A pad came or went.
PadsOther ==
    /\ live /\ exported
    /\ pads' \in SUBSET Pads /\ Cardinality(pads') # Cardinality(pads)
    /\ \E q \in ByTitle(pads') : Rebuild(q) /\ fetch' = (fetch \/ (icon /\ printed # {q}))

MenuStep ==
    /\ UNCHANGED <<live, gen, exported, flags, bus, queues, icon, layout, open>>
    /\ click' \subseteq click
    /\ PadsKept \/ PadsOther

StartStep == \E S \in SUBSET Pads : RuntimeStart(S)

StopStep == live /\ RuntimeStop /\ nextId' \in nextId..(MaxIds + 1)

TrayStep ==
    \/ TrayEnds \/ MenuStep \/ StartStep \/ StopStep
    \/ Callbacks \/ Surroundings \/ WatcherChanges

LEMMA PadsAreIds ==
    ASSUME TypeOK
    PROVE  /\ pads \in SUBSET Pads /\ IsFiniteSet(pads) /\ Cardinality(pads) \in Nat
           /\ made \in 0..MaxPads /\ MaxPads \in Nat
           /\ made + 1 \notin pads
  <1>1. /\ MaxPads \in Nat /\ made \in 0..MaxPads /\ pads \subseteq 1..made
    BY BoundsAssumption DEF TypeOK, TrayTypeOK
  <1>2. pads \in SUBSET Pads /\ made + 1 \notin pads
    BY <1>1 DEF Pads
  <1> QED
    BY <1>1, <1>2, PadsAreFinite

LEMMA OnlyIsMenuStep ==
    ASSUME NEW S, Shows(S), Only, click' \subseteq click
    PROVE  MenuStep
  BY DEF Shows, Only, group, menu, MenuStep, PadsKept

LEMMA NewPadIsMenuStep ==
    ASSUME TypeOK, NEW S, NewPad, Shows(S), click' \subseteq click
    PROVE  MenuStep
  <1>1. /\ made' = made + 1 /\ made < MaxPads
        /\ pads' = pads \cup {made + 1} /\ PadsChanged(pads')
    BY DEF NewPad
  <1>2. pads' \in SUBSET Pads
    BY <1>1, PadsAreIds DEF Pads
  <1>3. Cardinality(pads') # Cardinality(pads)
    BY <1>1, PadsAreIds, FS_AddElement
  <1>4. PadsKept \/ PadsOther
    BY <1>1, <1>2, <1>3 DEF PadsChanged, PadsKept, PadsOther
  <1> QED
    BY <1>4 DEF Shows, MenuStep

LEMMA RemovedPadIsMenuStep ==
    ASSUME TypeOK, NEW p \in pads, NEW S, RemovePad(p), Shows(S), click' \subseteq click
    PROVE  MenuStep
  <1>1. pads' = pads \ {p} /\ PadsChanged(pads')
    BY DEF RemovePad
  <1>2. pads' \in SUBSET Pads
    BY <1>1, PadsAreIds
  <1>3. Cardinality(pads') # Cardinality(pads)
    <2>1. Cardinality(pads \ {p}) = Cardinality(pads) - 1
      BY PadsAreIds, FS_RemoveElement
    <2> QED
      BY <1>1, <2>1, PadsAreIds
  <1>4. PadsKept \/ PadsOther
    BY <1>1, <1>2, <1>3 DEF PadsChanged, PadsKept, PadsOther
  <1> QED
    BY <1>4 DEF Shows, MenuStep

LEMMA QuitEnds == Quit => TrayEnds
  BY DEF Quit

\* The types of what is not the tray's own.
GroupOK ==
    /\ made \in 0..MaxPads /\ pads \subseteq 1..made /\ visible \subseteq pads
    /\ phase \in {"off", "up"} /\ enabled \in BOOLEAN
    /\ live <=> (phase = "up" /\ enabled)
    /\ idle \in {"done", "loaded", "empty"} /\ tries \in 0..MaxTries

Good == TrayStep /\ GroupOK'

LEMMA GroupIsOK == TypeOK => GroupOK
  BY DEF TypeOK, TrayTypeOK, GroupOK

LEMMA QuitIsGood ==
    ASSUME TypeOK, Quit
    PROVE  Good
  BY BoundsAssumption, TriesAssumption, GroupIsOK DEF Quit, TrayEnds, GroupOK, Good, TrayStep

LEMMA OnlyIsGood ==
    ASSUME TypeOK, NEW S \in SUBSET pads, Shows(S), Only, click' \subseteq click
    PROVE  Good
  <1>1. MenuStep
    BY OnlyIsMenuStep
  <1>2. GroupOK'
    BY GroupIsOK DEF Shows, Only, group, GroupOK
  <1> QED
    BY <1>1, <1>2 DEF Good, TrayStep

LEMMA NewPadIsGood ==
    ASSUME TypeOK, NEW S \in SUBSET (pads \cup {made + 1}), NewPad, Shows(S), click' \subseteq click
    PROVE  Good
  <1>1. MenuStep
    BY NewPadIsMenuStep
  <1>2. GroupOK'
    BY GroupIsOK, PadsAreIds DEF Shows, NewPad, GroupOK
  <1> QED
    BY <1>1, <1>2 DEF Good, TrayStep

LEMMA CloseAllIsGood ==
    ASSUME TypeOK, CloseAll, phase' = phase => click' \subseteq click, phase = "up"
    PROVE  Good
  <1>1. CASE Shows({}) /\ Only
    BY <1>1, OnlyIsGood DEF Shows
  <1>2. CASE Quit
    BY <1>2, QuitIsGood
  <1> QED
    BY <1>1, <1>2 DEF CloseAll

LEMMA StartIsGood ==
    ASSUME TypeOK, StoppedIsQuiet, Start
    PROVE  Good
  <1>1. PICK O \in CommandLines, autostartNewPad \in BOOLEAN, display \in Displays,
             loaded \in 0..MaxPads :
        LET new == "new" \in O \/ autostartNewPad
            opened == (IF new THEN 1 ELSE 0) + (IF "file" \in O THEN 1 ELSE 0)
            notes == (opened + 1)..(opened + loaded)
            byDefault == O \cap {"show", "hide"} = {}
            show == "show" \in O \/ (byDefault /\ Effective(display) = "show")
            hide == "hide" \in O \/ (byDefault /\ Effective(display) = "hide")
            first == loaded = 0 /\ ~new /\ "nonew" \notin O
        IN  /\ "quit" \notin O
            /\ ~(new /\ O \cap {"hide", "toggle"} # {})
            /\ made' = opened + loaded + (IF first THEN 1 ELSE 0)
            /\ made' <= MaxPads
            /\ pads' = 1..(opened + loaded + (IF first THEN 1 ELSE 0))
            /\ \E unhidden \in SUBSET notes :
                visible' = 1..opened
                           \cup (IF hide THEN {} ELSE IF show THEN notes ELSE unhidden)
                           \cup (IF first /\ Effective(display) = "show" THEN {opened + 1} ELSE {})
            /\ idle' = IF loaded > 0 THEN "loaded" ELSE "empty"
    BY DEF Start
  <1> DEFINE new == "new" \in O \/ autostartNewPad
             opened == (IF new THEN 1 ELSE 0) + (IF "file" \in O THEN 1 ELSE 0)
             notes == (opened + 1)..(opened + loaded)
             first == loaded = 0 /\ ~new /\ "nonew" \notin O
             extra == IF first THEN 1 ELSE 0
  <1>2. opened \in Nat /\ extra \in {0, 1} /\ loaded \in Nat /\ MaxPads \in Nat /\ MaxTries \in Nat
    BY BoundsAssumption, TriesAssumption
  <1>3. made' = opened + loaded + extra /\ made' \in 0..MaxPads /\ pads' = 1..made'
    BY <1>1, <1>2
  <1>4. visible' \subseteq pads'
    <2>1. visible' \subseteq 1..opened \cup notes \cup (IF first THEN {opened + 1} ELSE {})
      BY <1>1
    <2>2. 1..opened \subseteq pads' /\ notes \subseteq pads'
      BY <1>2, <1>3
    <2>3. first => opened + 1 \in pads'
      BY <1>2, <1>3
    <2> QED
      BY <2>1, <2>2, <2>3
  <1>5. idle' \in {"done", "loaded", "empty"}
    BY <1>1
  <1>6. /\ phase = "off" /\ phase' = "up" /\ tries' = 0 /\ enabled' = enabled
        /\ \/ enabled /\ RuntimeStart(pads')
           \/ ~enabled /\ UNCHANGED <<live, gen, exported, flags, menu, bus, queues, host, click>>
    BY DEF Start
  <1>7. live = FALSE /\ enabled \in BOOLEAN
    BY <1>6 DEF TypeOK, TrayTypeOK
  <1>8. live' <=> enabled
    <2>1. CASE enabled
      <3>1. live' = TRUE
        BY <1>6, <2>1 DEF RuntimeStart
      <3> QED
        BY <2>1, <3>1
    <2>2. CASE ~enabled
      BY <1>6, <1>7, <2>2
    <2> QED
      BY <2>1, <2>2
  <1>9. GroupOK'
    BY <1>2, <1>3, <1>4, <1>5, <1>6, <1>7, <1>8 DEF GroupOK
  <1>10. pads' \in SUBSET Pads
    BY <1>2, <1>3 DEF Pads
  <1>11. CASE enabled
    BY <1>6, <1>9, <1>10, <1>11 DEF StartStep, TrayStep, Good
  <1>12. CASE ~enabled
    <2>1. MenuStep
      BY <1>6, <1>7, <1>12 DEF MenuStep, PadsKept, host
    <2> QED
      BY <2>1, <1>9 DEF TrayStep, Good
  <1> QED
    BY <1>7, <1>11, <1>12

LEMMA IdleIsGood ==
    ASSUME TypeOK, IdleWaits \/ FirstIdle \/ IdleQuits
    PROVE  Good
  <1>1. CASE IdleWaits \/ FirstIdle
    <2>1. UNCHANGED <<trayVars, phase, enabled>> /\ idle' \in {"done", idle}
      BY <1>1 DEF IdleWaits, FirstIdle
    <2>2. MenuStep
      BY <2>1 DEF trayVars, group, host, MenuStep, PadsKept
    <2>3. tries' \in 0..MaxTries /\ visible' \subseteq pads
      BY <1>1, TriesAssumption, GroupIsOK DEF IdleWaits, FirstIdle, GroupOK
    <2>4. GroupOK'
      BY <2>1, <2>3, GroupIsOK DEF trayVars, group, GroupOK
    <2> QED
      BY <2>2, <2>4 DEF Good, TrayStep
  <1>2. CASE IdleQuits
    BY <1>2, QuitIsGood DEF IdleQuits
  <1> QED
    BY <1>1, <1>2

LEMMA EnableIsGood ==
    ASSUME TypeOK, phase = "up", Enable
    PROVE  Good
  <1>1. StartStep
    BY PadsAreIds DEF Enable, StartStep
  <1>2. GroupOK'
    BY GroupIsOK DEF Enable, RuntimeStart, group, GroupOK
  <1> QED
    BY <1>1, <1>2 DEF Good, TrayStep

LEMMA DisableIsGood ==
    ASSUME TypeOK, phase = "up", Disable
    PROVE  Good
  <1>1. nextId' \in nextId..(MaxIds + 1)
    BY BoundsAssumption DEF Disable, TypeOK, TrayTypeOK
  <1>2. /\ live /\ RuntimeStop /\ live' = FALSE /\ enabled' = FALSE
        /\ UNCHANGED <<phase, idle, tries>>
    BY DEF Disable, RuntimeStop, TypeOK
  <1>3. made' \in 0..MaxPads /\ pads' \subseteq 1..made' /\ visible' \subseteq pads'
    BY PadsAreIds, GroupIsOK DEF Disable, group, GroupOK
  <1>4. GroupOK'
    BY <1>2, <1>3, GroupIsOK DEF GroupOK
  <1> QED
    BY <1>1, <1>2, <1>4 DEF Good, StopStep, TrayStep

LEMMA NoteStepsAreGood ==
    ASSUME TypeOK,
           \/ \E p \in pads : Close(p) \/ Delete(p)
           \/ NewKey \/ ShowAllKey \/ ShowKey \/ CloseAllKey \/ QuitAsked
    PROVE  Good
  <1> USE GroupIsOK DEF GroupOK
  <1>1. ASSUME NEW p \in pads, Close(p)
        PROVE  Good
    <2>1. CASE Quit
      BY <2>1, QuitIsGood
    <2>2. CASE Shows(visible \ {p}) /\ Only /\ UNCHANGED click
      BY <2>2, OnlyIsGood
    <2> QED
      BY <1>1, <2>1, <2>2 DEF Close
  <1>2. ASSUME NEW p \in pads, Delete(p)
        PROVE  Good
    <2>1. RemovePad(p) /\ Shows(visible \ {p}) /\ UNCHANGED click
      BY <1>2 DEF Delete
    <2>2. MenuStep
      BY <2>1, RemovedPadIsMenuStep
    <2>3. GroupOK'
      BY <2>1 DEF Shows, RemovePad
    <2> QED
      BY <2>2, <2>3 DEF Good, TrayStep
  <1>3. CASE NewKey
    BY <1>3, NewPadIsGood DEF NewKey, ShowNew
  <1>4. CASE ShowAllKey
    BY <1>4, OnlyIsGood DEF ShowAllKey
  <1>5. CASE ShowKey
    <2>1. PICK p \in pads : Shows(visible \cup {p}) /\ Only /\ UNCHANGED click
      BY <1>5 DEF ShowKey
    <2> QED
      BY <2>1, OnlyIsGood
  <1>6. CASE CloseAllKey
    <2>1. CASE Quit
      BY <2>1, QuitIsGood
    <2>2. CASE CloseAll /\ UNCHANGED click
      <3>1. CASE Shows({}) /\ Only
        BY <2>2, <3>1, OnlyIsGood
      <3> QED
        BY <2>2, <3>1, QuitIsGood DEF CloseAll
    <2> QED
      BY <1>6, <2>1, <2>2 DEF CloseAllKey
  <1>7. CASE QuitAsked
    BY <1>7, QuitIsGood DEF QuitAsked
  <1> QED
    BY <1>1, <1>2, <1>3, <1>4, <1>5, <1>6, <1>7

LEMMA EventIsGood ==
    ASSUME TypeOK, Event
    PROVE  Good
  <1> USE GroupIsOK DEF GroupOK
  <1>1. click' \subseteq click
    BY DEF Event
  <1>2. ASSUME NEW row, Dispatch(row)
        PROVE  Good
    <2>1. CASE ShowNew
      BY <1>1, <2>1, NewPadIsGood DEF ShowNew
    <2>2. CASE Shows(pads) /\ Only
      BY <1>1, <2>2, OnlyIsGood
    <2>3. CASE CloseAll
      <3>1. CASE Shows({}) /\ Only
        BY <1>1, <3>1, OnlyIsGood
      <3> QED
        BY <2>3, <3>1, QuitIsGood DEF CloseAll
    <2>4. CASE Shows(visible \cup (row.pad \cap pads)) /\ Only
      BY <1>1, <2>4, OnlyIsGood
    <2>5. CASE Quit
      BY <2>5, QuitIsGood
    <2> QED
      BY <1>2, <2>1, <2>2, <2>3, <2>4, <2>5 DEF Dispatch
  <1>3. CASE Shows(visible) /\ Only
    BY <1>1, <1>3, OnlyIsGood
  <1> QED
    BY <1>2, <1>3 DEF Event

LEMMA ActivateIsGood ==
    ASSUME TypeOK, StoppedIsQuiet, Activate
    PROVE  Good
  <1>1. phase = "up"
    BY DEF Activate, StoppedIsQuiet, TypeOK
  <1>2. CASE ToggleHide /\ (phase' = "up" => UNCHANGED click)
    <2>1. CASE Quit
      BY <2>1, QuitIsGood
    <2>2. ASSUME NEW S \in {{}, pads}, Shows(S), Only
          PROVE  Good
      <3>1. UNCHANGED click
        BY <1>1, <1>2, <2>2 DEF Shows
      <3> QED
        BY <2>2, <3>1, OnlyIsGood
    <2> QED
      BY <1>2, <2>1, <2>2 DEF ToggleHide, CloseAll
  <1>3. CASE ShowNew /\ UNCHANGED click
    BY <1>3, NewPadIsGood, GroupIsOK DEF ShowNew, GroupOK
  <1> QED
    BY <1>2, <1>3 DEF Activate

LEMMA OutcomeShows ==
    ASSUME NEW O, NEW display
    PROVE  /\ Outcome(O, display).makes \in {{}, {made + 1}}
           /\ visible \subseteq pads =>
                Outcome(O, display).visible \subseteq pads \cup Outcome(O, display).makes
  BY DEF Outcome

LEMMA SecondLaunchIsGood ==
    ASSUME TypeOK, SecondLaunch
    PROVE  Good
  <1> USE GroupIsOK DEF GroupOK
  <1>1. PICK does \in Outcomes :
          \/ does.over /\ Quit
          \/ /\ IF does.makes # {} THEN NewPad ELSE Only
             /\ Shows(does.visible)
             /\ UNCHANGED click
    BY DEF SecondLaunch
  <1>2. does.makes \in {{}, {made + 1}} /\ does.visible \subseteq pads \cup does.makes
    BY OutcomeShows DEF Outcomes
  <1>3. CASE does.makes # {} /\ NewPad /\ Shows(does.visible) /\ UNCHANGED click
    BY <1>2, <1>3, NewPadIsGood
  <1>4. CASE does.makes = {} /\ Only /\ Shows(does.visible) /\ UNCHANGED click
    BY <1>2, <1>4, OnlyIsGood
  <1> QED
    BY <1>1, <1>3, <1>4, QuitIsGood

LEMMA TrayActionsAreGood ==
    ASSUME TypeOK, Callbacks \/ Surroundings \/ WatcherChanges, UNCHANGED desk
    PROVE  Good
  <1>1. UNCHANGED <<made, pads, live>>
    BY DEF Callbacks, Surroundings, WatcherChanges, BusAcquired, NameAcquired, NameLost,
           WatcherAppeared, WatcherVanished, NameAnswered, GetLayout, AboutToShow, CloseMenu,
           Click, group
  <1>2. GroupOK'
    BY <1>1, GroupIsOK DEF desk, GroupOK
  <1> QED
    BY <1>2 DEF Good, TrayStep

LEMMA NextIsGood ==
    ASSUME TypeOK, StoppedIsQuiet, [Next]_vars
    PROVE  Good
  <1>1. CASE UNCHANGED vars
    <2>1. MenuStep
      BY <1>1 DEF vars, trayVars, group, host, MenuStep, PadsKept
    <2>2. GroupOK'
      BY <1>1, GroupIsOK DEF vars, trayVars, group, desk, GroupOK
    <2> QED
      BY <2>1, <2>2 DEF Good, TrayStep
  <1>2. CASE Next
    BY <1>2, StartIsGood, IdleIsGood, EnableIsGood, DisableIsGood, NoteStepsAreGood, EventIsGood,
       ActivateIsGood, SecondLaunchIsGood, TrayActionsAreGood DEF Next
  <1> QED
    BY <1>1, <1>2

-----------------------------------------------------------------------------
(* The queues of callbacks.                                                *)

LEMMA CallbackIs ==
    ASSUME NEW q \in Seq(Callback)
    PROVE  /\ Len(q) \in Nat
           /\ \A i \in 1..Len(q) : q[i] \in Callback /\ q[i][2] \in Int
  <1>1. \A c \in Callback : c[2] \in Int
    BY BoundsAssumption DEF Callback
  <1> QED
    BY <1>1

LEMMA TailIs ==
    ASSUME NEW q \in Seq(Callback), q # <<>>
    PROVE  /\ Tail(q) \in Seq(Callback) /\ Len(Tail(q)) = Len(q) - 1
           /\ Len(q) \in Nat \ {0}
           /\ Head(q) = q[1]
           /\ \A i \in 1..(Len(q) - 1) : Tail(q)[i] = q[i + 1]
  OBVIOUS

LEMMA AppendIs ==
    ASSUME NEW q \in Seq(Callback), NEW e \in Callback
    PROVE  /\ Append(q, e) \in Seq(Callback) /\ Len(Append(q, e)) = Len(q) + 1
           /\ Append(q, e) # <<>>
           /\ \A i \in 1..Len(q) : Append(q, e)[i] = q[i]
           /\ Append(q, e)[Len(q) + 1] = e
  OBVIOUS

LEMMA TailKeepsOrder ==
    ASSUME NEW q \in Seq(Callback), q # <<>>, NEW g, NEW on, InOrder(q, g, on)
    PROVE  InOrder(Tail(q), g, on)
  <1> DEFINE t == Tail(q)
  <1>1. /\ Len(t) = Len(q) - 1 /\ Len(q) \in Nat \ {0}
        /\ \A i \in 1..Len(t) : t[i] = q[i + 1] /\ i + 1 \in 1..Len(q)
    BY TailIs
  <1> HIDE DEF t
  <1>2. \A i \in 1..Len(t) : t[i][2] <= g /\ (~on => t[i][2] < g)
    BY <1>1 DEF InOrder
  <1>3. \A i, j \in 1..Len(t) : i <= j => t[i][2] <= t[j][2]
    BY <1>1 DEF InOrder
  <1> QED
    BY <1>2, <1>3 DEF InOrder, t

LEMMA AppendKeepsOrder ==
    ASSUME NEW q \in Seq(Callback), NEW h \in Int, NEW g \in Int, h <= g,
           NEW on, InOrder(q, h, on), NEW e \in Callback, e[2] = g
    PROVE  InOrder(Append(q, e), g, TRUE)
  <1> DEFINE t == Append(q, e)
  <1>1. /\ Len(t) = Len(q) + 1 /\ Len(q) \in Nat
        /\ \A i \in 1..Len(q) : t[i] = q[i] /\ q[i][2] \in Int
        /\ t[Len(t)] = e
    BY AppendIs, CallbackIs
  <1> HIDE DEF t
  <1>2. \A i \in 1..Len(q) : q[i][2] <= g
    BY <1>1 DEF InOrder
  <1>3. \A i \in 1..Len(t) : t[i][2] <= g
    BY <1>1, <1>2
  <1>4. \A i, j \in 1..Len(t) : i <= j => t[i][2] <= t[j][2]
    <2> SUFFICES ASSUME NEW i \in 1..Len(t), NEW j \in 1..Len(t), i <= j
                 PROVE  t[i][2] <= t[j][2]
      OBVIOUS
    <2>1. CASE j = Len(t)
      BY <1>1, <1>3, <2>1
    <2>2. CASE j # Len(t)
      BY <1>1, <2>2 DEF InOrder
    <2> QED
      BY <2>1, <2>2
  <1> QED
    BY <1>3, <1>4 DEF InOrder, t

LEMMA LaterKeepsOrder ==
    ASSUME NEW q \in Seq(Callback), NEW h \in Int, NEW g \in Int, h < g,
           NEW on, NEW off, InOrder(q, h, on)
    PROVE  InOrder(q, g, off)
  BY CallbackIs DEF InOrder

\* What is left of a queue when its head is taken.
LEMMA TailWaits ==
    ASSUME NEW q \in Seq(Callback), q # <<>>, NEW g \in Int, NEW on, InOrder(q, g, on)
    PROVE  /\ Waiting(Tail(q), g) <=> Len(q) > 1 /\ Waiting(q, g)
           /\ Len(q) > 1 => Tail(q)[Len(Tail(q))] = q[Len(q)]
           /\ Head(q)[2] = g => Waiting(q, g) /\ on
           /\ Len(q) = 1 => Head(q) = q[Len(q)]
  <1>1. /\ Len(Tail(q)) = Len(q) - 1 /\ Len(q) \in Nat \ {0} /\ Head(q) = q[1]
        /\ \A i \in 1..(Len(q) - 1) : Tail(q)[i] = q[i + 1]
        /\ \A i \in 1..Len(q) : q[i][2] \in Int
    BY TailIs, CallbackIs
  <1>2. Tail(q) # <<>> <=> Len(q) > 1
    <2> DEFINE t == Tail(q)
    <2>1. t \in Seq(Callback) /\ Len(t) = Len(q) - 1
      BY <1>1, TailIs
    <2> HIDE DEF t
    <2>2. t = <<>> <=> Len(t) = 0
      BY <2>1
    <2>3. t # <<>> <=> Len(q) > 1
      BY <1>1, <2>1, <2>2
    <2> QED
      BY <2>3 DEF t
  <1>3. Len(q) > 1 => Tail(q)[Len(Tail(q))] = q[Len(q)]
    BY <1>1
  <1>4. Head(q)[2] = g => q[Len(q)][2] = g /\ on
    BY <1>1 DEF InOrder
  <1> QED
    BY <1>1, <1>2, <1>3, <1>4 DEF Waiting

LEMMA AppendWaits ==
    ASSUME NEW q \in Seq(Callback), NEW e \in Callback
    PROVE  /\ Waiting(Append(q, e), e[2])
           /\ Append(q, e)[Len(Append(q, e))] = e
  BY AppendIs, CallbackIs DEF Waiting

-----------------------------------------------------------------------------
(* Types.                                                                  *)

\* What the desktop holds stays typed while the ids only grow.
LEMMA HeldStaysTyped ==
    ASSUME TypeOK, nextId' \in nextId..(MaxIds + 1)
    PROVE  /\ layout' = layout => IsMenu(layout)'
           /\ \A c \in click : c.id < nextId'
           /\ click \subseteq [id : Ids, row : Rows]
           /\ nextId' \in 1..(MaxIds + 1)
  <1>1. /\ IsMenu(layout) /\ nextId \in 1..(MaxIds + 1) /\ MaxIds \in Nat
        /\ click \subseteq [id : Ids, row : Rows] /\ \A c \in click : c.id < nextId
    BY BoundsAssumption DEF TypeOK, TrayTypeOK
  <1>2. \A id \in Ids : id < nextId => id < nextId'
    BY <1>1 DEF Ids
  <1>3. layout' = layout => IsMenu(layout)'
    BY <1>1, <1>2 DEF IsMenu
  <1>4. ASSUME NEW c \in click
        PROVE  c.id < nextId'
    <2>1. c.id \in Ids /\ c.id < nextId
      BY <1>1
    <2> QED
      BY <1>2, <2>1
  <1> QED
    BY <1>1, <1>3, <1>4

LEMMA TypesHold ==
    ASSUME TypeOK, StoppedIsQuiet, TrayStep, GroupOK'
    PROVE  TypeOK'
  <1> USE BoundsAssumption DEF TypeOK, TrayTypeOK
  <1>1. GroupOK' /\ TrayTypeOK' => TypeOK'
    BY DEF GroupOK
  <1>2. made' \in 0..MaxPads /\ pads' \subseteq 1..made'
    BY DEF GroupOK
  <1>3. CASE TrayEnds
    <2>1. items' = <<>> /\ layout' = <<>>
      BY <1>3 DEF TrayEnds
    <2>2. IsMenu(items)' /\ IsMenu(layout)'
      BY <2>1, EmptyMenu DEF IsMenu
    <2>3. nextId' = 1 /\ 1 \in 1..(MaxIds + 1) /\ gen' = 0
      BY <1>3 DEF TrayEnds
    <2>4. <<>> \in Seq(Callback)
      OBVIOUS
    <2>5. ownQueue' \in Seq(Callback) /\ watchQueue' \in Seq(Callback) /\ click' = {}
      BY <1>3, <2>4 DEF TrayEnds
    <2>6. /\ ~live' /\ live' \in BOOLEAN /\ exported' \in BOOLEAN
          /\ active' \in BOOLEAN /\ present' \in BOOLEAN
          /\ ownResolved' \in BOOLEAN /\ watchResolved' \in BOOLEAN
          /\ asked' \in BOOLEAN /\ named' \in BOOLEAN /\ watcher' \in BOOLEAN
          /\ icon' \in BOOLEAN /\ fetch' \in BOOLEAN /\ open' \in BOOLEAN
      BY <1>3 DEF TrayEnds
    <2> QED
      BY <1>1, <1>2, <2>2, <2>3, <2>5, <2>6
  <1>4. CASE MenuStep
    <2>1. UNCHANGED <<live, gen, exported, active, present, ownResolved, watchResolved, asked,
                      named, watcher, ownQueue, watchQueue, icon, layout, open>>
          /\ click' \subseteq click
      BY <1>4 DEF MenuStep, flags, bus, queues
    <2>2. /\ IsMenu(items)' /\ nextId' \in nextId..(MaxIds + 1) /\ fetch' \in BOOLEAN
      <3>1. CASE PadsKept
        BY <3>1 DEF PadsKept, menu, IsMenu
      <3>2. CASE PadsOther
        <4>1. PICK q \in ByTitle(pads') :
                Rebuild(q) /\ fetch' = (fetch \/ (icon /\ printed # {q}))
          BY <3>2 DEF PadsOther
        <4>2. pads' \in SUBSET Pads
          BY <3>2 DEF PadsOther
        <4>3. IsMenu(items)' /\ nextId' \in nextId..(MaxIds + 1)
          BY <4>1, <4>2, RebuildIsFresh
        <4> QED
          BY <4>1, <4>3
      <3> QED
        BY <1>4, <3>1, <3>2 DEF MenuStep
    <2>3. IsMenu(layout)'
      BY <2>1, <2>2, HeldStaysTyped
    <2> QED
      BY <1>1, <1>2, <2>1, <2>2, <2>3, HeldStaysTyped
  <1>5. CASE StartStep
    <2>1. PICK S \in SUBSET Pads : RuntimeStart(S)
      BY <1>5 DEF StartStep
    <2>2. PICK q \in ByTitle(S) : Rebuild(q)
      BY <2>1 DEF RuntimeStart
    <2>3. IsMenu(items)' /\ nextId' \in nextId..(MaxIds + 1)
      BY <2>2, RebuildIsFresh
    <2>4. UNCHANGED <<exported, active, present, ownResolved, watchResolved, asked,
                      named, watcher, icon, layout, fetch, open, click>>
      BY <2>1 DEF RuntimeStart, flags, bus, host
    <2>5. live' = TRUE /\ gen' = gen + 1 /\ gen + 2 <= 2 * MaxStarts
      BY <2>1 DEF RuntimeStart
    <2>6. ownQueue' \in Seq(Callback)
      <3>1. PICK first \in {"bus", "lost"} : ownQueue' = Append(ownQueue, <<first, gen + 1>>)
        BY <2>1 DEF RuntimeStart
      <3>2. <<first, gen + 1>> \in Callback
        BY <2>5 DEF Callback
      <3> QED
        BY <3>1, <3>2, AppendIs
    <2>7. watchQueue' \in Seq(Callback)
      <3>1. <<IF watcher THEN "appeared" ELSE "vanished", gen + 1>> \in Callback
        BY <2>5 DEF Callback
      <3> QED
        BY <2>1, <3>1, AppendIs DEF RuntimeStart
    <2>8. IsMenu(layout)'
      BY <2>3, <2>4, HeldStaysTyped
    <2> QED
      BY <1>1, <1>2, <2>3, <2>4, <2>5, <2>6, <2>7, <2>8, HeldStaysTyped
  <1>6. CASE StopStep
    <2>1. items' = <<>> /\ layout' = <<>>
      BY <1>6 DEF StopStep, RuntimeStop
    <2>2. IsMenu(items)' /\ IsMenu(layout)'
      BY <2>1, EmptyMenu DEF IsMenu
    <2>3. gen' = gen + 1 /\ gen' <= 2 * MaxStarts
      BY <1>6 DEF StopStep, RuntimeStop
    <2>4. nextId' \in nextId..(MaxIds + 1) /\ click' = click
          /\ UNCHANGED <<watcher, ownQueue, watchQueue>>
      BY <1>6 DEF StopStep, RuntimeStop, queues
    <2>5. /\ ~live' /\ live' \in BOOLEAN /\ exported' \in BOOLEAN
          /\ active' \in BOOLEAN /\ present' \in BOOLEAN
          /\ ownResolved' \in BOOLEAN /\ watchResolved' \in BOOLEAN
          /\ asked' \in BOOLEAN /\ named' \in BOOLEAN /\ watcher' \in BOOLEAN
          /\ icon' \in BOOLEAN /\ fetch' \in BOOLEAN /\ open' \in BOOLEAN
      BY <1>6 DEF StopStep, RuntimeStop
    <2> QED
      BY <1>1, <1>2, <2>2, <2>3, <2>4, <2>5, HeldStaysTyped
  <1>7. CASE Callbacks
    <2>1. UNCHANGED <<live, gen, items, nextId, printed, named, watcher, layout, open, click>>
      BY <1>7 DEF Callbacks, BusAcquired, NameAcquired, NameLost, WatcherAppeared,
         WatcherVanished, menu, bus, host
    <2>2. ownQueue' \in Seq(Callback) /\ watchQueue' \in Seq(Callback)
      BY <1>7, TailIs DEF Callbacks, BusAcquired, NameAcquired, NameLost, WatcherAppeared,
         WatcherVanished
    <2>3. /\ exported' \in BOOLEAN /\ asked' \in BOOLEAN /\ icon' \in BOOLEAN /\ fetch' \in BOOLEAN
          /\ active' \in BOOLEAN /\ present' \in BOOLEAN
          /\ ownResolved' \in BOOLEAN /\ watchResolved' \in BOOLEAN
      BY <1>7, ZenonT(60) DEF Callbacks, BusAcquired, NameAcquired, NameLost, WatcherAppeared,
         WatcherVanished, Registered, flags, bus, host
    <2>4. IsMenu(items)' /\ IsMenu(layout)'
      BY <2>1 DEF IsMenu
    <2> QED
      BY <1>1, <1>2, <2>1, <2>2, <2>3, <2>4
  <1>8. CASE NameAnswered
    <2>1. UNCHANGED <<live, gen, exported, active, present, ownResolved, watchResolved, items,
                      nextId, watcher, watchQueue, icon, layout, fetch, open, click>>
      BY <1>8 DEF NameAnswered, flags, menu, host
    <2>2. PICK got \in BOOLEAN : named' = got /\
            ownQueue' = Append(ownQueue, <<IF got THEN "acquired" ELSE "lost", gen>>)
      BY <1>8 DEF NameAnswered
    <2>3. <<IF got THEN "acquired" ELSE "lost", gen>> \in Callback
      BY DEF Callback
    <2>4. ownQueue' \in Seq(Callback) /\ asked' = FALSE
      BY <1>8, <2>2, <2>3, AppendIs DEF NameAnswered
    <2>5. IsMenu(items)' /\ IsMenu(layout)'
      BY <2>1 DEF IsMenu
    <2> QED
      BY <1>1, <1>2, <2>1, <2>2, <2>4, <2>5, ZenonT(60)
  <1>9. CASE GetLayout \/ CloseMenu \/ Click
    <2>1. UNCHANGED <<live, gen, exported, active, present, ownResolved, watchResolved, items,
                      nextId, asked, named, watcher, ownQueue, watchQueue, icon>>
      BY <1>9 DEF GetLayout, CloseMenu, Click, flags, menu, bus, queues, host
    <2>2. layout' \in {layout, items} /\ fetch' \in BOOLEAN /\ open' \in BOOLEAN
      BY <1>9 DEF GetLayout, CloseMenu, Click, host
    <2>3. IsMenu(items)' /\ IsMenu(layout)'
      BY <2>1, <2>2 DEF IsMenu
    <2>4. click' \subseteq [id : Ids, row : Rows] /\ \A c \in click' : c.id < nextId
      BY <1>9 DEF GetLayout, CloseMenu, Click, IsMenu
    <2> QED
      BY <1>1, <1>2, <2>1, <2>2, <2>3, <2>4
  <1>10. CASE AboutToShow
    <2>1. UNCHANGED <<live, gen, exported, active, present, ownResolved, watchResolved,
                      asked, named, watcher, ownQueue, watchQueue, icon, layout, click>>
      BY <1>10 DEF AboutToShow, flags, bus, queues
    <2>2. PICK q \in ByTitle(pads) : Rebuild(q) /\ fetch' = NeedUpdate(q)
      BY <1>10 DEF AboutToShow
    <2>3. IsMenu(items)' /\ nextId' \in nextId..(MaxIds + 1)
      BY <2>2, PadsAreIds, RebuildIsFresh
    <2>4. IsMenu(layout)'
      BY <2>1, <2>3, HeldStaysTyped
    <2>5. fetch' = TRUE /\ open' = TRUE
      BY <1>10, <2>2 DEF AboutToShow, NeedUpdate
    <2> QED
      BY <1>1, <1>2, <2>1, <2>3, <2>4, <2>5, HeldStaysTyped
  <1>11. CASE WatcherChanges
    <2>1. UNCHANGED <<live, gen, exported, active, present, ownResolved, watchResolved, items,
                      nextId, asked, named, ownQueue, click>>
      BY <1>11 DEF WatcherChanges, flags, menu
    <2>2. <<IF watcher THEN "vanished" ELSE "appeared", gen>> \in Callback
      BY DEF Callback
    <2>3. watchQueue' \in Seq(Callback)
      BY <1>11, <2>2, AppendIs DEF WatcherChanges
    <2>4. /\ watcher' = ~watcher /\ icon' = FALSE /\ fetch' = FALSE /\ open' = FALSE
          /\ layout' = <<>>
      BY <1>11 DEF WatcherChanges
    <2>5. IsMenu(items)' /\ IsMenu(layout)'
      BY <2>1, <2>4, EmptyMenu DEF IsMenu
    <2> QED
      BY <1>1, <1>2, <2>1, <2>3, <2>4, <2>5
  <1> QED
    BY <1>3, <1>4, <1>5, <1>6, <1>7, <1>8, <1>9, <1>10, <1>11 DEF TrayStep, Surroundings

-----------------------------------------------------------------------------
(* The bus.                                                                *)

busVars == <<live, gen, exported, flags, bus, queues, icon>>

LEMMA QueuesAreTyped ==
    ASSUME TypeOK
    PROVE  /\ ownQueue \in Seq(Callback) /\ watchQueue \in Seq(Callback)
           /\ gen \in Int /\ gen + 1 \in Int
           /\ Len(ownQueue) \in Nat /\ Len(watchQueue) \in Nat
  BY BoundsAssumption DEF TypeOK, TrayTypeOK

LEMMA BusKept ==
    ASSUME BusInv, UNCHANGED busVars
    PROVE  BusInv'
  <1>1. UNCHANGED <<live, gen, exported, active, present, ownResolved, watchResolved,
                    asked, named, watcher, ownQueue, watchQueue, icon>>
    BY DEF busVars, flags, bus, queues
  <1>2. StoppedIsQuiet' /\ HeardOf'
    BY <1>1 DEF BusInv, StoppedIsQuiet, HeardOf
  <1>3. InOrder(ownQueue, gen, live)' /\ InOrder(watchQueue, gen, live)'
    BY <1>1 DEF BusInv, InOrder
  <1>4. OwnAnswer' /\ WatchAnswer' /\ IconFollows'
    BY <1>1 DEF BusInv, OwnAnswer, WatchAnswer, IconFollows, Waiting
  <1> QED
    BY <1>2, <1>3, <1>4 DEF BusInv

\* An answer that is queued when none of this tray is waiting is the only one.
LEMMA OnlyAnswer ==
    ASSUME NEW q \in Seq(Callback), NEW e \in Callback,
           \A i \in 1..Len(q) : q[i][2] # e[2]
    PROVE  \A i \in 1..Len(Append(q, e)) : Append(q, e)[i][2] = e[2] =>
              i = Len(Append(q, e)) /\ Append(q, e)[i] = e
  BY AppendIs, CallbackIs

\* What is left of the answer when a callback of g_bus_own_name is taken.
LEMMA OwnTail ==
    ASSUME TypeOK, BusInv, ownQueue # <<>>
    PROVE  /\ InOrder(Tail(ownQueue), gen, live)
           /\ Head(ownQueue)[2] # gen =>
                /\ Waiting(Tail(ownQueue), gen) <=> Waiting(ownQueue, gen)
                /\ \A i \in 1..Len(Tail(ownQueue)) : Tail(ownQueue)[i][2] = gen =>
                      i = Len(Tail(ownQueue)) /\ ~asked /\ ~active
                      /\ (named <=> Tail(ownQueue)[i][1] = "acquired")
           /\ Head(ownQueue)[2] = gen =>
                /\ live /\ ~asked /\ ~active /\ (named <=> Head(ownQueue)[1] = "acquired")
                /\ Len(Tail(ownQueue)) = 0
  <1> DEFINE q == ownQueue
             t == Tail(ownQueue)
  <1>1. q \in Seq(Callback) /\ gen \in Int /\ InOrder(q, gen, live)
    BY QueuesAreTyped DEF BusInv
  <1>2. /\ Len(t) = Len(q) - 1 /\ Len(q) \in Nat \ {0} /\ Head(q) = q[1]
        /\ \A i \in 1..(Len(q) - 1) : t[i] = q[i + 1]
    BY <1>1, TailIs
  <1>3. /\ Waiting(t, gen) <=> Len(q) > 1 /\ Waiting(q, gen)
        /\ Head(q)[2] = gen => Waiting(q, gen) /\ live
        /\ Len(q) = 1 => Head(q) = q[Len(q)]
    BY <1>1, TailWaits
  <1>4. \A i \in 1..Len(q) : q[i][2] = gen =>
          i = Len(q) /\ ~asked /\ ~active /\ (named <=> q[i][1] = "acquired")
    BY DEF BusInv, OwnAnswer
  <1>5. InOrder(t, gen, live)
    BY <1>1, TailKeepsOrder
  <1>6. 1 = Len(q) => Len(t) = 0
    BY <1>2
  <1> HIDE DEF q, t
  <1>7. ASSUME Head(q)[2] # gen
        PROVE  /\ Waiting(t, gen) <=> Waiting(q, gen)
               /\ \A i \in 1..Len(t) : t[i][2] = gen =>
                    i = Len(t) /\ ~asked /\ ~active /\ (named <=> t[i][1] = "acquired")
    <2>1. Waiting(q, gen) => Len(q) > 1
      BY <1>2, <1>3, <1>7 DEF Waiting
    <2>2. ASSUME NEW i \in 1..Len(t), t[i][2] = gen
          PROVE  i = Len(t) /\ ~asked /\ ~active /\ (named <=> t[i][1] = "acquired")
      <3>1. i + 1 \in 1..Len(q) /\ t[i] = q[i + 1]
        BY <1>2
      <3>2. i + 1 = Len(q) /\ ~asked /\ ~active /\ (named <=> q[i + 1][1] = "acquired")
        BY <1>4, <2>2, <3>1
      <3> QED
        BY <1>2, <3>1, <3>2
    <2> QED
      BY <1>3, <2>1, <2>2
  <1>8. ASSUME Head(q)[2] = gen
        PROVE  /\ live /\ ~asked /\ ~active /\ (named <=> Head(q)[1] = "acquired")
               /\ Len(t) = 0
    <2>1. 1 \in 1..Len(q)
      BY <1>2
    <2>2. 1 = Len(q) /\ ~asked /\ ~active /\ (named <=> q[1][1] = "acquired")
      BY <1>2, <1>4, <1>8, <2>1
    <2>3. Len(t) = 0
      BY <1>6, <2>2
    <2> QED
      BY <1>2, <1>3, <1>8, <2>2, <2>3
  <1> QED
    BY <1>5, <1>7, <1>8 DEF q, t

\* The same for g_bus_watch_name.
LEMMA WatchTail ==
    ASSUME TypeOK, BusInv, watchQueue # <<>>
    PROVE  /\ InOrder(Tail(watchQueue), gen, live)
           /\ Head(watchQueue)[2] = gen => live
           /\ Waiting(Tail(watchQueue), gen) =>
                /\ Waiting(watchQueue, gen)
                /\ Tail(watchQueue)[Len(Tail(watchQueue))] = watchQueue[Len(watchQueue)]
           /\ ~Waiting(Tail(watchQueue), gen) =>
                IF Head(watchQueue)[2] = gen
                THEN watcher <=> Head(watchQueue)[1] = "appeared"
                ELSE ~Waiting(watchQueue, gen)
  <1> DEFINE q == watchQueue
             t == Tail(watchQueue)
  <1>1. q \in Seq(Callback) /\ gen \in Int /\ InOrder(q, gen, live)
    BY QueuesAreTyped DEF BusInv
  <1>2. Len(q) \in Nat \ {0}
    BY <1>1, TailIs
  <1>3. /\ Waiting(t, gen) <=> Len(q) > 1 /\ Waiting(q, gen)
        /\ Len(q) > 1 => t[Len(t)] = q[Len(q)]
        /\ Head(q)[2] = gen => Waiting(q, gen) /\ live
        /\ Len(q) = 1 => Head(q) = q[Len(q)]
    BY <1>1, TailWaits
  <1>4. InOrder(t, gen, live)
    BY <1>1, TailKeepsOrder
  <1>5. live /\ Waiting(q, gen) => (watcher <=> q[Len(q)][1] = "appeared")
    BY DEF BusInv, WatchAnswer
  <1>6. ~(Len(q) > 1) => Len(q) = 1
    BY <1>2
  <1> HIDE DEF q, t
  <1>7. ASSUME ~Waiting(t, gen), Head(q)[2] = gen
        PROVE  watcher <=> Head(q)[1] = "appeared"
    <2>1. Waiting(q, gen) /\ live
      BY <1>3, <1>7
    <2>2. ~(Len(q) > 1)
      BY <1>3, <1>7, <2>1
    <2>3. Len(q) = 1
      BY <1>6, <2>2
    <2> QED
      BY <1>3, <1>5, <2>1, <2>3
  <1>8. ASSUME ~Waiting(t, gen), Head(q)[2] # gen
        PROVE  ~Waiting(q, gen)
    BY <1>2, <1>3, <1>8 DEF Waiting
  <1> QED
    BY <1>3, <1>4, <1>7, <1>8 DEF q, t

LEMMA StartKeepsBus ==
    ASSUME TypeOK, BusInv, NEW S, RuntimeStart(S)
    PROVE  BusInv'
  <1>1. PICK first \in {"bus", "lost"} : ownQueue' = Append(ownQueue, <<first, gen + 1>>)
    BY DEF RuntimeStart
  <1> DEFINE word == IF watcher THEN "appeared" ELSE "vanished"
  <1>2. /\ ~live /\ live' = TRUE /\ gen' = gen + 1 /\ gen + 2 <= 2 * MaxStarts
        /\ watchQueue' = Append(watchQueue, <<word, gen + 1>>)
        /\ UNCHANGED <<exported, active, present, ownResolved, watchResolved,
                       asked, named, watcher, icon>>
    BY DEF RuntimeStart, flags, bus, host
  <1>3. /\ ~exported /\ ~asked /\ ~named /\ ~icon
        /\ ~active /\ ~present /\ ~ownResolved /\ ~watchResolved
    BY <1>2 DEF BusInv, StoppedIsQuiet
  <1>4. <<first, gen + 1>> \in Callback /\ <<word, gen + 1>> \in Callback
    <2>1. gen + 1 \in 0..(2 * MaxStarts)
      BY <1>2, BoundsAssumption DEF TypeOK, TrayTypeOK
    <2> QED
      BY <2>1 DEF Callback
  <1>5. InOrder(ownQueue, gen, live)' /\ InOrder(watchQueue, gen, live)'
    <2>1. gen <= gen + 1
      BY QueuesAreTyped
    <2>2. InOrder(ownQueue', gen + 1, TRUE)
      BY <1>1, <1>4, <2>1, QueuesAreTyped, AppendKeepsOrder DEF BusInv
    <2>3. InOrder(watchQueue', gen + 1, TRUE)
      BY <1>2, <1>4, <2>1, QueuesAreTyped, AppendKeepsOrder DEF BusInv
    <2> QED
      BY <1>2, <2>2, <2>3
  <1>6. OwnAnswer'
    <2>1. \A i \in 1..Len(ownQueue) : ownQueue[i][2] # gen + 1
      BY QueuesAreTyped, CallbackIs DEF BusInv, InOrder
    <2>2. \A i \in 1..Len(ownQueue') : ownQueue'[i][2] = gen' =>
              i = Len(ownQueue') /\ ownQueue'[i] = <<first, gen + 1>>
      BY <1>1, <1>2, <1>4, <2>1, QueuesAreTyped, OnlyAnswer
    <2>3. <<first, gen + 1>>[1] # "acquired"
      OBVIOUS
    <2> QED
      BY <1>2, <1>3, <2>2, <2>3 DEF OwnAnswer
  <1>7. WatchAnswer'
    <2>1. Waiting(watchQueue', gen')
      BY <1>2, <1>4, QueuesAreTyped, AppendWaits
    <2>2. watchQueue'[Len(watchQueue')] = <<word, gen + 1>>
      BY <1>2, <1>4, QueuesAreTyped, AppendWaits
    <2>3. watcher' <=> <<word, gen + 1>>[1] = "appeared"
      BY <1>2
    <2> QED
      BY <2>1, <2>2, <2>3 DEF WatchAnswer
  <1>8. StoppedIsQuiet' /\ HeardOf' /\ IconFollows'
    BY <1>2, <1>3 DEF StoppedIsQuiet, HeardOf, IconFollows
  <1> QED
    BY <1>5, <1>6, <1>7, <1>8 DEF BusInv

LEMMA StopKeepsBus ==
    ASSUME TypeOK, BusInv, RuntimeStop
    PROVE  BusInv'
  <1>1. /\ live' = FALSE /\ gen' = gen + 1 /\ exported' = FALSE
        /\ active' = FALSE /\ present' = FALSE /\ ownResolved' = FALSE /\ watchResolved' = FALSE
        /\ asked' = FALSE /\ named' = FALSE /\ icon' = FALSE
        /\ UNCHANGED <<ownQueue, watchQueue>>
    BY DEF RuntimeStop, queues
  <1>2. InOrder(ownQueue, gen, live)' /\ InOrder(watchQueue, gen, live)'
    <2>1. gen < gen + 1
      BY QueuesAreTyped
    <2>2. InOrder(ownQueue, gen + 1, FALSE) /\ InOrder(watchQueue, gen + 1, FALSE)
      BY <2>1, QueuesAreTyped, LaterKeepsOrder DEF BusInv
    <2> QED
      BY <1>1, <2>2
  <1>3. \A i \in 1..Len(ownQueue) : ownQueue[i][2] # gen + 1
    BY QueuesAreTyped, CallbackIs DEF BusInv, InOrder
  <1>4. StoppedIsQuiet' /\ HeardOf' /\ IconFollows' /\ WatchAnswer'
    BY <1>1 DEF StoppedIsQuiet, HeardOf, IconFollows, WatchAnswer
  <1>5. OwnAnswer'
    BY <1>1, <1>3 DEF OwnAnswer
  <1> QED
    BY <1>2, <1>4, <1>5 DEF BusInv

LEMMA EndKeepsBus ==
    ASSUME TrayEnds
    PROVE  BusInv'
  <1>1. /\ live' = FALSE /\ gen' = 0 /\ exported' = FALSE
        /\ active' = FALSE /\ present' = FALSE /\ ownResolved' = FALSE /\ watchResolved' = FALSE
        /\ asked' = FALSE /\ named' = FALSE /\ icon' = FALSE
        /\ ownQueue' = <<>> /\ watchQueue' = <<>>
    BY DEF TrayEnds
  <1>2. 1..Len(ownQueue') = {} /\ 1..Len(watchQueue') = {}
    BY <1>1
  <1>3. InOrder(ownQueue, gen, live)' /\ InOrder(watchQueue, gen, live)'
    BY <1>2 DEF InOrder
  <1>4. StoppedIsQuiet' /\ HeardOf' /\ IconFollows' /\ WatchAnswer'
    BY <1>1 DEF StoppedIsQuiet, HeardOf, IconFollows, WatchAnswer
  <1>5. OwnAnswer'
    BY <1>1, <1>2 DEF OwnAnswer
  <1> QED
    BY <1>3, <1>4, <1>5 DEF BusInv

LEMMA OwnCallbacksKeepBus ==
    ASSUME TypeOK, BusInv, BusAcquired \/ NameAcquired \/ NameLost
    PROVE  BusInv'
  <1> DEFINE t == Tail(ownQueue)
             now == Head(ownQueue)[2] = gen
  <1>1. /\ ownQueue # <<>> /\ ownQueue' = t
        /\ UNCHANGED <<live, gen, present, watchResolved, named, watcher, watchQueue>>
    BY DEF BusAcquired, NameAcquired, NameLost, flags, bus, host
  <1>2. /\ InOrder(t, gen, live)
        /\ ~now => /\ Waiting(t, gen) <=> Waiting(ownQueue, gen)
                   /\ \A i \in 1..Len(t) : t[i][2] = gen =>
                        i = Len(t) /\ ~asked /\ ~active /\ (named <=> t[i][1] = "acquired")
        /\ now => /\ live /\ ~asked /\ ~active /\ (named <=> Head(ownQueue)[1] = "acquired")
                  /\ Len(t) = 0
    BY <1>1, OwnTail
  <1> HIDE DEF t
  <1>3. InOrder(ownQueue, gen, live)' /\ InOrder(watchQueue, gen, live)' /\ WatchAnswer'
    <2>1. WatchAnswer' <=> WatchAnswer
      BY <1>1 DEF WatchAnswer
    <2> QED
      BY <1>1, <1>2, <2>1 DEF BusInv
  <1>4. CASE ~now
    <2>1. UNCHANGED <<exported, asked, active, ownResolved, icon>>
      BY <1>4 DEF BusAcquired, NameAcquired, NameLost, Current, flags, bus, host, TypeOK, TrayTypeOK
    <2>2. StoppedIsQuiet' /\ HeardOf' /\ IconFollows'
      BY <1>1, <2>1 DEF BusInv, StoppedIsQuiet, HeardOf, IconFollows
    <2>3. OwnAnswer'
      BY <1>1, <1>2, <1>4, <2>1 DEF BusInv, OwnAnswer
    <2> QED
      BY <1>3, <2>2, <2>3 DEF BusInv
  <1>5. CASE now /\ BusAcquired
    <2>1. /\ exported' /\ asked' /\ UNCHANGED <<active, ownResolved, icon>>
          /\ live /\ ~named /\ ~active
      BY <1>2, <1>5 DEF BusAcquired, Current, flags, host
    <2>2. StoppedIsQuiet' /\ HeardOf' /\ IconFollows'
      BY <1>1, <2>1 DEF BusInv, StoppedIsQuiet, HeardOf, IconFollows
    <2>3. OwnAnswer'
      BY <1>1, <1>2, <1>5, <2>1 DEF OwnAnswer
    <2> QED
      BY <1>3, <2>2, <2>3 DEF BusInv
  <1>6. CASE now /\ NameAcquired
    <2>1. /\ active' /\ ownResolved' /\ UNCHANGED <<exported, asked>>
          /\ Registered(present) /\ live /\ named /\ ~asked
      BY <1>2, <1>6 DEF NameAcquired, Current, bus
    <2>2. IF present /\ watcher /\ named THEN icon' = TRUE ELSE icon' = icon
      BY <2>1 DEF Registered
    <2>3. exported
      BY <2>1 DEF BusInv, OwnAnswer
    <2>4. StoppedIsQuiet' /\ HeardOf'
      BY <1>1, <2>1 DEF BusInv, StoppedIsQuiet, HeardOf
    <2>5. IconFollows'
      BY <1>1, <2>1, <2>2 DEF BusInv, IconFollows
    <2>6. OwnAnswer'
      BY <1>1, <1>2, <1>6, <2>1, <2>3 DEF OwnAnswer
    <2> QED
      BY <1>3, <2>4, <2>5, <2>6 DEF BusInv
  <1>7. CASE now /\ NameLost
    <2>1. /\ ~active' /\ ownResolved' /\ UNCHANGED <<exported, asked, icon>>
          /\ live /\ ~named /\ ~asked
      BY <1>2, <1>7 DEF NameLost, Current, bus, host
    <2>2. StoppedIsQuiet' /\ HeardOf' /\ IconFollows'
      BY <1>1, <2>1 DEF BusInv, StoppedIsQuiet, HeardOf, IconFollows
    <2>3. OwnAnswer'
      BY <1>1, <1>2, <1>7, <2>1 DEF OwnAnswer
    <2> QED
      BY <1>3, <2>2, <2>3 DEF BusInv
  <1> QED
    BY <1>4, <1>5, <1>6, <1>7

LEMMA WatchCallbacksKeepBus ==
    ASSUME TypeOK, BusInv, WatcherAppeared \/ WatcherVanished
    PROVE  BusInv'
  <1> DEFINE t == Tail(watchQueue)
             now == Head(watchQueue)[2] = gen
  <1>1. /\ watchQueue # <<>> /\ watchQueue' = t
        /\ UNCHANGED <<live, gen, exported, active, ownResolved, asked, named, watcher, ownQueue>>
    BY DEF WatcherAppeared, WatcherVanished, bus, host
  <1>2. /\ InOrder(t, gen, live) /\ (now => live)
        /\ Waiting(t, gen) => Waiting(watchQueue, gen) /\ t[Len(t)] = watchQueue[Len(watchQueue)]
        /\ ~Waiting(t, gen) => IF now THEN watcher <=> Head(watchQueue)[1] = "appeared"
                               ELSE ~Waiting(watchQueue, gen)
    BY <1>1, WatchTail
  <1> HIDE DEF t
  <1>3. InOrder(ownQueue, gen, live)' /\ InOrder(watchQueue, gen, live)' /\ OwnAnswer'
    <2>1. OwnAnswer' <=> OwnAnswer
      BY <1>1 DEF OwnAnswer
    <2> QED
      BY <1>1, <1>2, <2>1 DEF BusInv
  <1>4. CASE ~now
    <2>1. UNCHANGED <<present, watchResolved, icon>>
      BY <1>4 DEF WatcherAppeared, WatcherVanished, Current, host
    <2>2. StoppedIsQuiet' /\ HeardOf'
      BY <1>1, <2>1 DEF BusInv, StoppedIsQuiet, HeardOf
    <2>3. IconFollows' /\ WatchAnswer'
      BY <1>1, <1>2, <1>4, <2>1 DEF BusInv, IconFollows, WatchAnswer
    <2> QED
      BY <1>3, <2>2, <2>3 DEF BusInv
  <1>5. CASE now /\ WatcherAppeared
    <2>1. /\ present' /\ watchResolved' /\ Registered(RegisterAgain) /\ live
          /\ Head(watchQueue)[1] = "appeared"
      BY <1>2, <1>5 DEF WatcherAppeared, Current
    <2>2. IF active /\ watcher /\ named THEN icon' = TRUE ELSE icon' = icon
      BY <2>1 DEF Registered, RegisterAgain
    <2>3. active => named
      BY DEF BusInv, OwnAnswer
    <2>4. StoppedIsQuiet' /\ HeardOf'
      BY <1>1, <2>1 DEF BusInv, StoppedIsQuiet, HeardOf
    <2>5. IconFollows'
      BY <1>1, <2>2, <2>3 DEF BusInv, IconFollows
    <2>6. WatchAnswer'
      BY <1>1, <1>2, <1>5, <2>1 DEF BusInv, WatchAnswer
    <2> QED
      BY <1>3, <2>4, <2>5, <2>6 DEF BusInv
  <1>6. CASE now /\ WatcherVanished
    <2>1. /\ ~present' /\ watchResolved' /\ icon' = icon /\ live
          /\ Head(watchQueue)[1] = "vanished"
      BY <1>2, <1>6 DEF WatcherVanished, Current, host
    <2>2. StoppedIsQuiet' /\ HeardOf' /\ IconFollows'
      BY <1>1, <2>1 DEF BusInv, StoppedIsQuiet, HeardOf, IconFollows
    <2>3. WatchAnswer'
      BY <1>1, <1>2, <1>6, <2>1 DEF BusInv, WatchAnswer
    <2> QED
      BY <1>3, <2>2, <2>3 DEF BusInv
  <1> QED
    BY <1>4, <1>5, <1>6

LEMMA AnswerKeepsBus ==
    ASSUME TypeOK, BusInv, NameAnswered
    PROVE  BusInv'
  <1>1. PICK got \in BOOLEAN : /\ named' = got
            /\ ownQueue' = Append(ownQueue, <<IF got THEN "acquired" ELSE "lost", gen>>)
    BY DEF NameAnswered
  <1> DEFINE word == IF got THEN "acquired" ELSE "lost"
  <1>2. /\ asked /\ asked' = FALSE
        /\ UNCHANGED <<live, gen, exported, active, present, ownResolved, watchResolved,
                       watcher, watchQueue, icon>>
    BY DEF NameAnswered, flags, host
  <1>3. live /\ ~named /\ exported /\ ~active
    BY <1>2 DEF BusInv, StoppedIsQuiet, OwnAnswer
  <1>4. <<word, gen>> \in Callback
    BY DEF Callback, TypeOK, TrayTypeOK
  <1>5. InOrder(ownQueue, gen, live)' /\ InOrder(watchQueue, gen, live)'
    <2>1. gen <= gen /\ live = TRUE
      BY <1>3, QueuesAreTyped DEF TypeOK, TrayTypeOK
    <2>2. InOrder(ownQueue', gen, TRUE)
      BY <1>1, <1>4, <2>1, QueuesAreTyped, AppendKeepsOrder DEF BusInv
    <2> QED
      BY <1>2, <2>1, <2>2 DEF BusInv
  <1>6. OwnAnswer'
    <2>1. \A i \in 1..Len(ownQueue) : ownQueue[i][2] # gen
      BY <1>2 DEF BusInv, OwnAnswer
    <2>2. \A i \in 1..Len(ownQueue') : ownQueue'[i][2] = gen =>
              i = Len(ownQueue') /\ ownQueue'[i] = <<word, gen>>
      BY <1>1, <1>4, <2>1, QueuesAreTyped, OnlyAnswer
    <2>3. named' <=> <<word, gen>>[1] = "acquired"
      BY <1>1
    <2>4. Waiting(ownQueue', gen)
      BY <1>1, <1>4, QueuesAreTyped, AppendWaits
    <2> QED
      BY <1>2, <1>3, <2>2, <2>3, <2>4 DEF OwnAnswer
  <1>7. WatchAnswer' <=> WatchAnswer
    BY <1>2 DEF WatchAnswer
  <1>8. StoppedIsQuiet' /\ HeardOf' /\ IconFollows'
    BY <1>2, <1>3 DEF BusInv, StoppedIsQuiet, HeardOf, IconFollows
  <1> QED
    BY <1>5, <1>6, <1>7, <1>8 DEF BusInv

LEMMA WatcherKeepsBus ==
    ASSUME TypeOK, BusInv, WatcherChanges
    PROVE  BusInv'
  <1> DEFINE word == IF watcher THEN "vanished" ELSE "appeared"
  <1>1. /\ watcher' = ~watcher /\ icon' = FALSE
        /\ watchQueue' = IF live THEN Append(watchQueue, <<word, gen>>) ELSE watchQueue
        /\ UNCHANGED <<live, gen, exported, active, present, ownResolved, watchResolved,
                       asked, named, ownQueue>>
    BY DEF WatcherChanges, flags
  <1>2. OwnAnswer' <=> OwnAnswer
    BY <1>1 DEF OwnAnswer
  <1>3. StoppedIsQuiet' /\ HeardOf'
    BY <1>1 DEF BusInv, StoppedIsQuiet, HeardOf
  <1>4. CASE ~live
    <2>1. watchQueue' = watchQueue /\ ~active
      BY <1>1, <1>4 DEF BusInv, StoppedIsQuiet
    <2> QED
      BY <1>1, <1>2, <1>3, <1>4, <2>1 DEF BusInv, WatchAnswer, IconFollows
  <1>5. CASE live
    <2>1. live = TRUE /\ gen <= gen
      BY <1>5, QueuesAreTyped DEF TypeOK, TrayTypeOK
    <2>2. <<word, gen>> \in Callback
      BY DEF Callback, TypeOK, TrayTypeOK
    <2>3. InOrder(watchQueue', gen, TRUE)
      BY <1>1, <2>1, <2>2, QueuesAreTyped, AppendKeepsOrder DEF BusInv
    <2>4. Waiting(watchQueue', gen) /\ watchQueue'[Len(watchQueue')] = <<word, gen>>
      BY <1>1, <2>1, <2>2, QueuesAreTyped, AppendWaits
    <2>5. watcher' <=> <<word, gen>>[1] = "appeared"
      BY <1>1
    <2>6. WatchAnswer' /\ IconFollows'
      BY <1>1, <2>4, <2>5 DEF WatchAnswer, IconFollows
    <2> QED
      BY <1>1, <1>2, <1>3, <2>1, <2>3, <2>6 DEF BusInv
  <1> QED
    BY <1>4, <1>5

LEMMA BusHolds ==
    ASSUME TypeOK, BusInv, TrayStep
    PROVE  BusInv'
  <1>1. CASE MenuStep
    BY <1>1, BusKept DEF MenuStep, busVars
  <1>2. CASE StartStep
    BY <1>2, StartKeepsBus DEF StartStep
  <1>3. CASE StopStep
    BY <1>3, StopKeepsBus DEF StopStep
  <1>4. CASE Callbacks
    BY <1>4, OwnCallbacksKeepBus, WatchCallbacksKeepBus DEF Callbacks
  <1>5. CASE GetLayout \/ AboutToShow \/ CloseMenu \/ Click
    <2>1. UNCHANGED busVars
      BY <1>5 DEF GetLayout, AboutToShow, CloseMenu, Click, busVars, host
    <2> QED
      BY <2>1, BusKept
  <1> QED
    BY <1>1, <1>2, <1>3, <1>4, <1>5, EndKeepsBus, AnswerKeepsBus, WatcherKeepsBus
       DEF TrayStep, Surroundings

-----------------------------------------------------------------------------
(* The menu.                                                               *)

\* The same pads under other titles, or the titles of a menu: never both.
LEMMA OtherPadsOtherTitles ==
    ASSUME NEW S \in SUBSET Pads, NEW T \in SUBSET Pads, Cardinality(S) # Cardinality(T),
           NEW q \in ByTitle(S), NEW r \in ByTitle(T)
    PROVE  {q} # {r}
  <1>1. Len(q) = Cardinality(S) /\ Len(r) = Cardinality(T)
    BY TitlesAreSequence
  <1> QED
    BY <1>1

\* A menu that is built anew leaves no id of before with a row.
LEMMA RebuildKeepsMenu ==
    ASSUME TypeOK, MenuInv, NEW S \in SUBSET Pads, NEW q \in ByTitle(S), Rebuild(q),
           layout' = layout, click' \subseteq click
    PROVE  LayoutAgrees' /\ NoMisdispatch'
  <1>1. /\ nextId \in 1..(MaxIds + 1) /\ IsMenu(layout)
        /\ click \subseteq [id : Ids, row : Rows] /\ \A c \in click : c.id < nextId
    BY DEF TypeOK, TrayTypeOK
  <1>2. DOMAIN items' \cap 1..(nextId - 1) = {}
    BY <1>1, RebuildIsFresh
  <1>3. \A id \in Ids : id < nextId => id \notin DOMAIN items'
    BY <1>1, <1>2, BoundsAssumption DEF Ids
  <1>4. LayoutAgrees'
    BY <1>1, <1>3 DEF LayoutAgrees, IsMenu
  <1>5. ASSUME NEW c \in click'
        PROVE  c.id \notin DOMAIN items'
    <2>1. c \in click /\ c.id \in Ids /\ c.id < nextId
      BY <1>1
    <2> QED
      BY <1>3, <2>1
  <1>6. NoMisdispatch'
    BY <1>5 DEF NoMisdispatch
  <1> QED
    BY <1>4, <1>6

LEMMA MenuHolds ==
    ASSUME TypeOK, BusInv, MenuInv, TrayStep
    PROVE  MenuInv'
  <1> USE DEF MenuInv
  <1>1. CASE TrayEnds \/ StopStep
    <2>1. items' = <<>> /\ open' = FALSE
      BY <1>1 DEF TrayEnds, StopStep, RuntimeStop
    <2> QED
      BY <2>1, EmptyMenu DEF LayoutAgrees, NoMisdispatch, OpenIsPrinted, OpenMenuWorks
  <1>2. CASE MenuStep
    <2>1. UNCHANGED <<icon, layout, open>> /\ click' \subseteq click
      BY <1>2 DEF MenuStep
    <2>2. open => exported /\ live /\ icon
      BY DEF OpenIsPrinted, BusInv, IconFollows, OwnAnswer, StoppedIsQuiet
    <2>3. CASE PadsKept
      <3>1. UNCHANGED <<items, printed, fetch>> /\ (open => pads' = pads)
        BY <2>2, <2>3 DEF PadsKept, menu
      <3>2. LayoutAgrees' /\ NoMisdispatch' /\ OpenMenuWorks'
        BY <2>1, <3>1 DEF LayoutAgrees, NoMisdispatch, OpenMenuWorks
      <3>3. OpenIsPrinted'
        BY <2>1, <3>1 DEF OpenIsPrinted
      <3> QED
        BY <3>2, <3>3
    <2>4. CASE PadsOther
      <3>1. pads' \in SUBSET Pads /\ Cardinality(pads') # Cardinality(pads)
        BY <2>4 DEF PadsOther
      <3>2. PICK q \in ByTitle(pads') :
              Rebuild(q) /\ fetch' = (fetch \/ (icon /\ printed # {q}))
        BY <2>4 DEF PadsOther
      <3>3. LayoutAgrees' /\ NoMisdispatch'
        BY <2>1, <3>1, <3>2, RebuildKeepsMenu
      <3>4. printed' = {q}
        BY <3>2 DEF Rebuild
      <3>5. OpenIsPrinted'
        BY <2>1, <3>2, <3>4 DEF OpenIsPrinted
      <3>6. open => printed # {q}
        BY <3>1, PadsAreIds, OtherPadsOtherTitles DEF OpenIsPrinted
      <3>7. OpenMenuWorks'
        BY <2>1, <2>2, <3>2, <3>6 DEF OpenMenuWorks
      <3> QED
        BY <3>3, <3>5, <3>7
    <2> QED
      BY <1>2, <2>3, <2>4 DEF MenuStep
  <1>3. CASE StartStep
    <2>1. PICK S \in SUBSET Pads : RuntimeStart(S)
      BY <1>3 DEF StartStep
    <2>2. PICK q \in ByTitle(S) : Rebuild(q)
      BY <2>1 DEF RuntimeStart
    <2>3. UNCHANGED <<icon, layout, fetch, open, click>> /\ ~live
      BY <2>1 DEF RuntimeStart, host
    <2>4. ~open
      BY <2>3 DEF OpenIsPrinted, BusInv, StoppedIsQuiet
    <2> QED
      BY <2>2, <2>3, <2>4, RebuildKeepsMenu DEF OpenIsPrinted, OpenMenuWorks
  <1>4. CASE Callbacks
    <2>1. UNCHANGED <<pads, items, printed, layout, open, click>>
      BY <1>4 DEF Callbacks, BusAcquired, NameAcquired, NameLost, WatcherAppeared,
         WatcherVanished, group, menu, host
    <2>2. (icon => icon') /\ (fetch' = fetch \/ fetch')
      BY <1>4 DEF Callbacks, BusAcquired, NameAcquired, NameLost, WatcherAppeared,
         WatcherVanished, Registered, host
    <2>3. LayoutAgrees' /\ NoMisdispatch'
      BY <2>1 DEF LayoutAgrees, NoMisdispatch
    <2>4. OpenIsPrinted' /\ OpenMenuWorks'
      BY <2>1, <2>2 DEF OpenIsPrinted, OpenMenuWorks
    <2> QED
      BY <2>3, <2>4
  <1>5. CASE NameAnswered
    <2>1. UNCHANGED <<pads, items, printed, icon, layout, fetch, open, click>>
      BY <1>5 DEF NameAnswered, group, menu, host
    <2>2. LayoutAgrees' /\ NoMisdispatch'
      BY <2>1 DEF LayoutAgrees, NoMisdispatch
    <2>3. OpenIsPrinted' /\ OpenMenuWorks'
      BY <2>1 DEF OpenIsPrinted, OpenMenuWorks
    <2> QED
      BY <2>2, <2>3
  <1>6. CASE GetLayout
    <2>1. layout' = items /\ UNCHANGED <<pads, items, printed, icon, open, click>>
      BY <1>6 DEF GetLayout, group, menu
    <2>2. LayoutAgrees' /\ NoMisdispatch'
      BY <2>1 DEF LayoutAgrees, NoMisdispatch
    <2>3. OpenIsPrinted' /\ OpenMenuWorks'
      BY <2>1 DEF OpenIsPrinted, OpenMenuWorks
    <2> QED
      BY <2>2, <2>3
  <1>7. CASE AboutToShow
    <2>1. /\ icon /\ open' = TRUE
          /\ UNCHANGED <<pads, icon, layout, click>>
      BY <1>7 DEF AboutToShow, group
    <2>2. PICK q \in ByTitle(pads) : Rebuild(q) /\ fetch' = NeedUpdate(q)
      BY <1>7 DEF AboutToShow
    <2>3. LayoutAgrees' /\ NoMisdispatch'
      BY <2>1, <2>2, PadsAreIds, RebuildKeepsMenu
    <2>4. printed' = {q} /\ fetch' = TRUE
      BY <2>2 DEF Rebuild, NeedUpdate
    <2>5. OpenIsPrinted' /\ OpenMenuWorks'
      BY <2>1, <2>4 DEF OpenIsPrinted, OpenMenuWorks
    <2> QED
      BY <2>3, <2>5
  <1>8. CASE CloseMenu
    <2>1. open' = FALSE /\ UNCHANGED <<items, layout, click>>
      BY <1>8 DEF CloseMenu, menu
    <2> QED
      BY <2>1 DEF LayoutAgrees, NoMisdispatch, OpenIsPrinted, OpenMenuWorks
  <1>9. CASE Click
    <2>1. UNCHANGED <<pads, items, printed, icon, layout, fetch, open>>
      BY <1>9 DEF Click, group, menu, host
    <2>2. PICK id \in DOMAIN layout : click' = {[id |-> id, row |-> layout[id]]}
      BY <1>9 DEF Click
    <2>3. NoMisdispatch'
      BY <2>1, <2>2 DEF LayoutAgrees, NoMisdispatch
    <2>4. LayoutAgrees'
      BY <2>1 DEF LayoutAgrees
    <2>5. OpenIsPrinted' /\ OpenMenuWorks'
      BY <2>1 DEF OpenIsPrinted, OpenMenuWorks
    <2> QED
      BY <2>3, <2>4, <2>5
  <1>10. CASE WatcherChanges
    <2>1. layout' = <<>> /\ open' = FALSE /\ UNCHANGED <<items, click>>
      BY <1>10 DEF WatcherChanges, menu
    <2> QED
      BY <2>1, EmptyMenu DEF LayoutAgrees, NoMisdispatch, OpenIsPrinted, OpenMenuWorks
  <1> QED
    BY <1>1, <1>2, <1>3, <1>4, <1>5, <1>6, <1>7, <1>8, <1>9, <1>10 DEF TrayStep, Surroundings

-----------------------------------------------------------------------------
(* The invariant holds.                                                    *)

LEMMA InvInitially == Init => Inv
  <1> SUFFICES ASSUME Init
               PROVE  Inv
    OBVIOUS
  <1> USE BoundsAssumption, TriesAssumption DEF Init, Stopped
  <1>1. <<>> \in Seq(Callback) /\ 1..Len(<<>>) = {}
    OBVIOUS
  <1>2. TypeOK
    <2>1. items = <<>> /\ layout = <<>> /\ IsMenu(items) /\ IsMenu(layout)
      BY EmptyMenu
    <2>2. gen \in 0..(2 * MaxStarts) /\ nextId \in 1..(MaxIds + 1) /\ tries \in 0..MaxTries
          /\ made \in 0..MaxPads
      OBVIOUS
    <2>3. live = FALSE /\ phase = "off" /\ pads = {} /\ visible = {} /\ click = {}
      OBVIOUS
    <2>4. ownQueue \in Seq(Callback) /\ watchQueue \in Seq(Callback)
      BY <1>1
    <2>5. TrayTypeOK
      BY <2>1, <2>2, <2>3, <2>4 DEF TrayTypeOK
    <2> QED
      BY <2>2, <2>3, <2>5 DEF TypeOK
  <1>3. BusInv
    BY <1>1 DEF BusInv, StoppedIsQuiet, HeardOf, InOrder, OwnAnswer, WatchAnswer, IconFollows
  <1>4. MenuInv
    BY EmptyMenu DEF MenuInv, LayoutAgrees, NoMisdispatch, OpenIsPrinted, OpenMenuWorks
  <1> QED
    BY <1>2, <1>3, <1>4 DEF Inv

LEMMA InvKept == Inv /\ [Next]_vars => Inv'
  <1> SUFFICES ASSUME Inv, [Next]_vars
               PROVE  Inv'
    OBVIOUS
  <1>1. TypeOK /\ BusInv /\ MenuInv /\ StoppedIsQuiet
    BY DEF Inv, BusInv
  <1>2. TrayStep /\ GroupOK'
    BY <1>1, NextIsGood DEF Good
  <1> QED
    BY <1>1, <1>2, TypesHold, BusHolds, MenuHolds DEF Inv

LEMMA InvHolds == Spec => []Inv
  BY InvInitially, InvKept, PTL DEF Spec

-----------------------------------------------------------------------------
(* What the tray keeps.                                                    *)

(***************************************************************************)
(* The variables have their types, and the tray runs exactly while the     *)
(* program does and the setting says so (xpad_tray_toggle).                *)
(***************************************************************************)
THEOREM TypeCorrect == Spec => []TypeOK
  <1>1. Inv => TypeOK
    BY DEF Inv
  <1> QED
    BY <1>1, InvHolds, PTL

(***************************************************************************)
(* A click does what the row the user saw says, or nothing: the ids of the *)
(* menu (tray_next_item_id) are never given twice in one run.              *)
(***************************************************************************)
THEOREM ClicksAreUnderstood == Spec => []NoMisdispatch
  <1>1. Inv => NoMisdispatch
    BY DEF Inv, MenuInv
  <1> QED
    BY <1>1, InvHolds, PTL

(***************************************************************************)
(* While a menu is open and was read, its ids are the program's            *)
(* (AboutToShow, and the fingerprint of tray_on_pads_changed).             *)
(***************************************************************************)
THEOREM OpenMenuIsCurrent == Spec => []OpenMenuWorks
  <1>1. Inv => OpenMenuWorks
    BY DEF Inv, MenuInv
  <1> QED
    BY <1>1, InvHolds, PTL

(***************************************************************************)
(* A tray with nothing left to hear knows whether its icon is shown        *)
(* (xpad_tray_has_indicator).                                              *)
(***************************************************************************)
THEOREM IndicatorIsRight == Spec => []IndicatorIsShown
  <1>1. ASSUME Inv, Settled
        PROVE  (active /\ present) <=> icon
    <2>1. BusInv /\ TypeOK
      BY <1>1 DEF Inv
    <2>2. ~Waiting(ownQueue, gen) /\ ~Waiting(watchQueue, gen) /\ ~asked
      BY <1>1 DEF Settled, Waiting
    <2>3. active <=> named
      BY <2>1, <2>2 DEF BusInv, OwnAnswer
    <2>4. CASE live
      <3>1. present <=> watcher
        BY <2>1, <2>2, <2>4 DEF BusInv, WatchAnswer
      <3> QED
        BY <2>1, <2>2, <2>3, <3>1 DEF BusInv, IconFollows
    <2>5. CASE ~live
      BY <2>1, <2>5 DEF BusInv, StoppedIsQuiet
    <2> QED
      BY <2>4, <2>5
  <1>2. Inv => IndicatorIsShown
    BY <1>1 DEF IndicatorIsShown
  <1> QED
    BY <1>2, InvHolds, PTL

\* The tray keeps the promise of TrayStatus in every step.
LEMMA StatusStep ==
    ASSUME TypeOK, BusInv, BusInv', TrayStep
    PROVE  [Status!StatusNext]_(Status!status)
  <1> USE DEF Status!status, Status!StatusNext
  <1>1. live \in BOOLEAN
    BY DEF TypeOK, TrayTypeOK
  <1>2. CASE TrayEnds \/ StopStep
    <2>1. live' = FALSE /\ ~active' /\ ~present'
      BY <1>2 DEF TrayEnds, StopStep, RuntimeStop
    <2>2. Status!Disarm
      BY <2>1 DEF Status!Disarm
    <2> QED
      BY <2>2
  <1>3. CASE StartStep
    <2>1. /\ ~live /\ live' = TRUE
          /\ UNCHANGED <<active, present, ownResolved, watchResolved>>
      BY <1>3 DEF StartStep, RuntimeStart, flags
    <2>2. ~active /\ ~present /\ ~ownResolved /\ ~watchResolved
      BY <2>1 DEF BusInv, StoppedIsQuiet
    <2>3. Status!Arm
      BY <2>1, <2>2 DEF Status!Arm
    <2> QED
      BY <2>3
  <1>4. CASE Callbacks
    <2>1. live' = live
      BY <1>4 DEF Callbacks, BusAcquired, NameAcquired, NameLost, WatcherAppeared, WatcherVanished
    <2>2. CASE ~live
      <3>1. /\ ~active /\ ~present /\ ~active' /\ ~present'
        BY <2>1, <2>2 DEF BusInv, StoppedIsQuiet
      <3> QED
        BY <2>1, <2>2, <3>1
    <2>3. CASE live
      <3>1. (ownResolved => ownResolved') /\ (watchResolved => watchResolved')
        BY <1>4 DEF Callbacks, BusAcquired, NameAcquired, NameLost, WatcherAppeared,
           WatcherVanished, flags
      <3>2. (active' => ownResolved') /\ (present' => watchResolved')
        BY DEF BusInv, HeardOf
      <3>3. live' = TRUE
        BY <1>1, <2>1, <2>3
      <3>4. Status!Learn
        BY <2>3, <3>1, <3>2, <3>3 DEF Status!Learn
      <3> QED
        BY <3>4
    <2> QED
      BY <2>2, <2>3
  <1>5. CASE MenuStep \/ Surroundings \/ WatcherChanges
    <2>1. UNCHANGED <<live, active, present, ownResolved, watchResolved>>
      BY <1>5 DEF MenuStep, Surroundings, NameAnswered, GetLayout, AboutToShow, CloseMenu,
         Click, WatcherChanges, flags
    <2> QED
      BY <2>1
  <1> QED
    BY <1>2, <1>3, <1>4, <1>5 DEF TrayStep

(***************************************************************************)
(* The tray implements TrayStatus: what xpad_tray_has_indicator and        *)
(* xpad_tray_ready answer is what the rest of the program relies on.       *)
(***************************************************************************)
THEOREM TrayKeepsStatus == Spec => KeepsStatus
  <1>1. Init => Status!StatusInit
    BY DEF Init, Stopped, Status!StatusInit
  <1>2. Inv /\ Inv' /\ [Next]_vars => [Status!StatusNext]_(Status!status)
    <2> SUFFICES ASSUME Inv, Inv', [Next]_vars
                 PROVE  [Status!StatusNext]_(Status!status)
      OBVIOUS
    <2>1. TypeOK /\ BusInv /\ BusInv' /\ StoppedIsQuiet
      BY DEF Inv, BusInv
    <2>2. TrayStep
      BY <2>1, NextIsGood DEF Good
    <2> QED
      BY <2>1, <2>2, StatusStep
  <1> QED
    BY <1>1, <1>2, InvHolds, PTL DEF Spec, KeepsStatus, Status!StatusSpec

-----------------------------------------------------------------------------
(* Out of reach.                                                           *)

LEMMA ShowsKeepsReach ==
    ASSUME NEW S, Shows(S),
           S # {} \/ pads = {} \/ S = visible \/ Indicator
    PROVE  ~(Stranded' /\ ~Stranded) \/ pads = {}
  BY DEF Shows, flags, Stranded, Indicator

LEMMA QuitIsNotStranded == Quit => ~Stranded'
  BY DEF Quit, Stranded

LEMMA StepKeepsReach ==
    ASSUME TypeOK, StoppedIsQuiet, Next, Stranded', ~Stranded
    PROVE  LostIcon \/ NoteDeleted
  <1> SUFFICES ASSUME pads # {}
               PROVE  LostIcon \/ NoteDeleted
    BY DEF NoteDeleted
  <1> USE QuitIsNotStranded
  <1>0. visible \subseteq pads /\ ~Quit
    BY DEF TypeOK
  <1>1. CASE Start
    BY <1>1 DEF Start, Stranded
  <1>2. CASE IdleWaits \/ FirstIdle \/ IdleQuits
    <2>1. UNCHANGED <<phase, active, present>>
      BY <1>0, <1>2 DEF IdleWaits, FirstIdle, IdleQuits, trayVars, flags
    <2>2. CASE IdleWaits
      <3>1. idle' = idle /\ visible' = visible
        BY <2>2 DEF IdleWaits
      <3> QED
        BY <2>1, <3>1 DEF Stranded, Indicator
    <2>3. CASE FirstIdle
      <3>1. visible' = pads \/ Indicator \/ (visible # {} /\ visible' = visible)
        BY <2>3 DEF FirstIdle
      <3>2. ~Indicator' /\ visible' = {}
        BY DEF Stranded
      <3>3. Indicator' <=> Indicator
        BY <2>1 DEF Indicator
      <3> QED
        BY <3>1, <3>2, <3>3
    <2> QED
      BY <1>0, <1>2, <2>2, <2>3 DEF IdleQuits
  <1>3. CASE Enable \/ Disable
    <2>1. CASE Enable
      <3>1. UNCHANGED <<phase, visible, idle>> /\ ~live
        BY <2>1 DEF Enable, RuntimeStart
      <3>2. ~Indicator
        BY <3>1 DEF StoppedIsQuiet, Indicator
      <3> QED
        BY <3>1, <3>2 DEF Stranded
    <2>2. CASE Disable
      BY <1>0, <2>2 DEF Disable, Stranded
    <2> QED
      BY <1>3, <2>1, <2>2
  <1>4. ASSUME NEW p \in pads, Close(p) \/ Delete(p)
        PROVE  LostIcon \/ NoteDeleted
    <2>1. CASE Close(p)
      BY <1>0, <2>1, ShowsKeepsReach DEF Close
    <2>2. CASE Delete(p)
      <3>1. pads' = pads \ {p}
        BY <2>2 DEF Delete, RemovePad
      <3> QED
        BY <3>1 DEF NoteDeleted
    <2> QED
      BY <1>4, <2>1, <2>2
  <1>5. ASSUME ShowNew
        PROVE  FALSE
    BY <1>5, ShowsKeepsReach DEF ShowNew
  <1>6. ASSUME CloseAll
        PROVE  FALSE
    BY <1>0, <1>6, ShowsKeepsReach DEF CloseAll
  <1>7. CASE NewKey \/ ShowAllKey \/ ShowKey \/ CloseAllKey \/ QuitAsked
    <2>1. ~ShowNew /\ ~CloseAll
      BY <1>5, <1>6
    <2>2. CASE ShowAllKey
      BY <2>2, ShowsKeepsReach DEF ShowAllKey
    <2>3. CASE ShowKey
      <3>1. PICK p \in pads : Shows(visible \cup {p})
        BY <2>3 DEF ShowKey
      <3> QED
        BY <3>1, ShowsKeepsReach
    <2> QED
      BY <1>0, <1>7, <2>1, <2>2, <2>3 DEF NewKey, CloseAllKey, QuitAsked
  <1>8. CASE Event
    <2>1. ASSUME NEW row, Dispatch(row)
          PROVE  FALSE
      <3>1. ~Shows(pads) /\ ~Shows(visible \cup (row.pad \cap pads))
        BY ShowsKeepsReach
      <3> QED
        BY <1>0, <1>5, <1>6, <2>1, <3>1 DEF Dispatch
    <2>2. ~Shows(visible)
      BY ShowsKeepsReach
    <2> QED
      BY <1>8, <2>1, <2>2 DEF Event
  <1>9. CASE Activate
    <2>1. ~Shows(pads)
      BY ShowsKeepsReach
    <2> QED
      BY <1>5, <1>6, <1>9, <2>1 DEF Activate, ToggleHide
  <1>10. CASE SecondLaunch
    <2>1. PICK O \in CommandLines, display \in Displays :
            LET does == Outcome(O, display)
            IN  ~does.over /\ Shows(does.visible)
      BY <1>0, <1>10 DEF SecondLaunch, Outcomes
    <2>2. Outcome(O, display).visible # {} \/ Outcome(O, display).visible = visible \/ Indicator
      BY <1>0, <2>1 DEF Outcome
    <2> QED
      BY <2>1, <2>2, ShowsKeepsReach
  <1>11. CASE (Callbacks \/ Surroundings \/ WatcherChanges) /\ UNCHANGED desk
    <2>1. UNCHANGED <<phase, visible, idle, live>>
      BY <1>11 DEF desk, Callbacks, Surroundings, BusAcquired, NameAcquired, NameLost,
         WatcherAppeared, WatcherVanished, NameAnswered, GetLayout, AboutToShow, CloseMenu,
         Click, WatcherChanges
    <2>2. Indicator
      BY <2>1 DEF Stranded
    <2>3. live
      BY <2>2 DEF Indicator, StoppedIsQuiet
    <2> QED
      BY <2>1, <2>2, <2>3 DEF LostIcon
  <1> QED
    BY <1>1, <1>2, <1>3, <1>4, <1>5, <1>7, <1>8, <1>9, <1>10, <1>11 DEF Next

(***************************************************************************)
(* Nothing but the loss of the icon or the deletion of the last note       *)
(* leaves XNote running with neither a note nor an icon (xpad_pad_close,   *)
(* first_idle_check, and the setting that switches the tray off).          *)
(***************************************************************************)
THEOREM StaysInReach == Spec => NeverStranded
  <1>1. Inv /\ [Next]_vars => [Stranded' /\ ~Stranded => LostIcon \/ NoteDeleted]_vars
    BY StepKeepsReach DEF Inv, BusInv
  <1> QED
    BY <1>1, InvHolds, PTL DEF Spec, NeverStranded

=============================================================================
