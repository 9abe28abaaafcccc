-------------------------------- MODULE Tray --------------------------------
(***************************************************************************)
(* XNote's tray icon: a StatusNotifierItem and its dbusmenu on the session *)
(* bus.  The tray is started and stopped while the program runs, and what  *)
(* the bus has to say arrives later, as callbacks queued in the main loop; *)
(* each carries the generation of the tray that asked for it.  The desktop *)
(* keeps a copy of the menu and sends clicks by item id.  What a click     *)
(* does is in Desktop, which these actions are part of.                    *)
(*                                                                         *)
(* Left out: the icon's properties, the rows that change nothing here      *)
(* (separators, preferences, help) and the revision number, which is there *)
(* for the desktop to read the menu again; a pad's title is its place in   *)
(* the menu.                                                               *)
(***************************************************************************)
EXTENDS Integers, Sequences, FiniteSets

CONSTANTS
    MaxPads,   \* bound on the pads made in one run of the program
    MaxStarts, \* bound on the starts of the tray in one run
    MaxIds,    \* bound on the menu items made in one run
    MaxQueue   \* bound on the callbacks waiting in one queue

ASSUME BoundsAssumption ==
    MaxPads \in Nat /\ MaxStarts \in Nat /\ MaxIds \in Nat /\ MaxQueue \in Nat \ {0}

VARIABLES
    made,      \* how many pads were made; a pad is its number
    pads,      \* the pads of the group
    live,      \* whether the tray runs (owner id, watch id and items are set)
    gen,       \* tray_runtime_generation
    exported,  \* whether connection and objects are there (tray_bus, tray_menu_reg_id)
    active,    \* tray_active
    present,   \* tray_watcher_present
    ownResolved, watchResolved,
    items,     \* tray_items: id -> row
    nextId,    \* tray_next_item_id
    printed,   \* tray_last_fingerprint: the titles of the last menu built, if any
    asked,     \* the bus: the name was requested and not yet answered
    named,     \* the bus: the program owns its StatusNotifierItem name
    watcher,   \* the bus: a StatusNotifierWatcher is there
    ownQueue,  \* callbacks of g_bus_own_name waiting in the main loop
    watchQueue,\* callbacks of g_bus_watch_name waiting in the main loop
    icon,      \* the desktop shows the icon
    layout,    \* the desktop's copy of the menu
    fetch,     \* the desktop was told that its copy is out of date
    open,      \* the menu is open on the desktop
    click      \* the click on its way to the program, with the row the user saw

group == <<made, pads>>
flags == <<active, present, ownResolved, watchResolved>>
menu == <<items, nextId, printed>>
bus == <<asked, named, watcher>>
queues == <<ownQueue, watchQueue>>
host == <<icon, layout, fetch, open>>
trayVars == <<group, live, gen, exported, flags, menu, bus, queues, host, click>>

Pads == 1..MaxPads
Rows == [act : {"new", "show", "close", "quit", "present"}, pad : {{}} \cup {{p} : p \in Pads},
         enabled : BOOLEAN]
Ids == 1..MaxIds

-----------------------------------------------------------------------------
(* The menu.                                                                *)

Row(act, on) == [act |-> act, pad |-> {}, enabled |-> on]
PadRow(p) == [act |-> "present", pad |-> {p}, enabled |-> TRUE]

\* The pads of S by title: they may have any.
ByTitle(S) == {q \in [1..Cardinality(S) -> S] : \A i, j \in DOMAIN q : q[i] = q[j] => i = j}

RowsOf(q) ==
    [i \in 1..(Len(q) + 4) |->
        IF i = 1 THEN Row("new", TRUE)
        ELSE IF i = 2 THEN Row("show", q # <<>>)
        ELSE IF i = 3 THEN Row("close", q # <<>>)
        ELSE IF i = Len(q) + 4 THEN Row("quit", TRUE)
        ELSE PadRow(q[i - 3])]

\* A mutation: the ids are positions, the same in every menu.
NumberedByPosition(q) ==
    /\ items' = RowsOf(q)
    /\ nextId' = nextId
    /\ printed' = {q}

\* tray_rebuild_menu: fresh ids, whatever has changed.
Rebuild(q) ==
    /\ nextId + Len(q) + 3 <= MaxIds
    /\ items' = [id \in nextId..(nextId + Len(q) + 3) |-> RowsOf(q)[id - nextId + 1]]
    /\ nextId' = nextId + Len(q) + 4
    /\ printed' = {q}

\* tray_on_pads_changed: the desktop is told only when the fingerprint differs.
PadsChanged(S) ==
    IF live /\ exported
    THEN \E q \in ByTitle(S) : Rebuild(q) /\ fetch' = (fetch \/ (icon /\ printed # {q}))
    ELSE UNCHANGED <<menu, fetch>>

\* xpad_pad_group_add and xpad_pad_group_remove, with what the tray makes of them.
NewPad ==
    /\ made < MaxPads
    /\ made' = made + 1
    /\ pads' = pads \cup {made + 1}
    /\ PadsChanged(pads \cup {made + 1})

RemovePad(p) ==
    /\ pads' = pads \ {p}
    /\ PadsChanged(pads \ {p})
    /\ UNCHANGED made

-----------------------------------------------------------------------------
(* Starting and stopping.                                                   *)

Stopped ==
    /\ live = FALSE /\ gen = 0 /\ exported = FALSE
    /\ active = FALSE /\ present = FALSE /\ ownResolved = FALSE /\ watchResolved = FALSE
    /\ items = <<>> /\ nextId = 1 /\ printed = {}
    /\ asked = FALSE /\ named = FALSE
    /\ ownQueue = <<>> /\ watchQueue = <<>>
    /\ icon = FALSE /\ layout = <<>> /\ fetch = FALSE /\ open = FALSE
    /\ click = {}

\* tray_runtime_start for a group of the pads S.  first is what g_bus_own_name says
\* first: the connection, or that there is none.
RuntimeStart(S) ==
    /\ ~live /\ gen + 2 <= 2 * MaxStarts
    /\ Len(ownQueue) < MaxQueue /\ Len(watchQueue) < MaxQueue
    /\ live' = TRUE
    /\ gen' = gen + 1
    /\ \E q \in ByTitle(S) : Rebuild(q)
    /\ \E first \in {"bus", "lost"} : ownQueue' = Append(ownQueue, <<first, gen + 1>>)
    /\ watchQueue' = Append(watchQueue, <<IF watcher THEN "appeared" ELSE "vanished", gen + 1>>)
    /\ UNCHANGED <<exported, flags, bus, host, click>>

\* tray_runtime_stop: the generation first; the icon goes with the name.
RuntimeStop ==
    /\ live' = FALSE
    /\ gen' = gen + 1
    /\ exported' = FALSE
    /\ active' = FALSE /\ present' = FALSE /\ ownResolved' = FALSE /\ watchResolved' = FALSE
    /\ items' = <<>> /\ printed' = {}
    /\ asked' = FALSE /\ named' = FALSE
    /\ icon' = FALSE /\ layout' = <<>> /\ fetch' = FALSE /\ open' = FALSE
    /\ UNCHANGED <<watcher, queues, click>>

\* The process ends, with its connection and all that was on its way to it.
TrayEnds ==
    /\ live' = FALSE /\ gen' = 0 /\ exported' = FALSE
    /\ active' = FALSE /\ present' = FALSE /\ ownResolved' = FALSE /\ watchResolved' = FALSE
    /\ items' = <<>> /\ nextId' = 1 /\ printed' = {}
    /\ asked' = FALSE /\ named' = FALSE
    /\ ownQueue' = <<>> /\ watchQueue' = <<>>
    /\ icon' = FALSE /\ layout' = <<>> /\ fetch' = FALSE /\ open' = FALSE
    /\ click' = {}
    /\ UNCHANGED watcher

-----------------------------------------------------------------------------
(* The bus, and the callbacks it queues.                                    *)

NameAnswered ==
    /\ asked /\ Len(ownQueue) < MaxQueue
    /\ \E got \in BOOLEAN :
        /\ named' = got
        /\ ownQueue' = Append(ownQueue, <<IF got THEN "acquired" ELSE "lost", gen>>)
    /\ asked' = FALSE
    /\ UNCHANGED <<group, live, gen, exported, flags, menu, watcher, watchQueue, host, click>>

\* The desktop's shell restarts, or its extension is switched on or off.
WatcherChanges ==
    /\ live => Len(watchQueue) < MaxQueue
    /\ watcher' = ~watcher
    /\ watchQueue' = IF live THEN Append(watchQueue, <<IF watcher THEN "vanished" ELSE "appeared", gen>>)
                     ELSE watchQueue
    /\ icon' = FALSE /\ layout' = <<>> /\ fetch' = FALSE /\ open' = FALSE
    /\ UNCHANGED <<group, live, gen, exported, flags, menu, asked, named, ownQueue, click>>

\* A mutation: callbacks are taken whoever asked for them.
CurrentAlways(g) == TRUE

\* tray_callback_is_current.
Current(g) == g = gen

\* tray_register_with_watcher, if it is called: a watcher that is there shows the icon.
Registered(called) ==
    IF called /\ watcher /\ named THEN icon' = TRUE /\ fetch' = TRUE ELSE UNCHANGED <<icon, fetch>>

\* g_bus_own_name asks for the name once it has a connection, unless it was undone.
BusAcquired ==
    /\ ownQueue # <<>> /\ Head(ownQueue)[1] = "bus"
    /\ exported' = (exported \/ Current(Head(ownQueue)[2]))
    /\ asked' = (asked \/ (live /\ Head(ownQueue)[2] = gen))
    /\ ownQueue' = Tail(ownQueue)
    /\ UNCHANGED <<group, live, gen, flags, menu, named, watcher, watchQueue, host, click>>

NameAcquired ==
    /\ ownQueue # <<>> /\ Head(ownQueue)[1] = "acquired"
    /\ IF Current(Head(ownQueue)[2])
       THEN /\ active' = TRUE /\ ownResolved' = TRUE
            /\ Registered(present)
       ELSE UNCHANGED <<active, ownResolved, icon, fetch>>
    /\ ownQueue' = Tail(ownQueue)
    /\ UNCHANGED <<group, live, gen, exported, present, watchResolved, menu, bus, watchQueue,
                   layout, open, click>>

NameLost ==
    /\ ownQueue # <<>> /\ Head(ownQueue)[1] = "lost"
    /\ IF Current(Head(ownQueue)[2]) THEN active' = FALSE /\ ownResolved' = TRUE
       ELSE UNCHANGED <<active, ownResolved>>
    /\ ownQueue' = Tail(ownQueue)
    /\ UNCHANGED <<group, live, gen, exported, present, watchResolved, menu, bus, watchQueue,
                   host, click>>

\* A mutation: only the first watcher is registered with.
RegisterOnce == active /\ ~watchResolved

RegisterAgain == active

WatcherAppeared ==
    /\ watchQueue # <<>> /\ Head(watchQueue)[1] = "appeared"
    /\ IF Current(Head(watchQueue)[2])
       THEN /\ present' = TRUE /\ watchResolved' = TRUE
            /\ Registered(RegisterAgain)
       ELSE UNCHANGED <<present, watchResolved, icon, fetch>>
    /\ watchQueue' = Tail(watchQueue)
    /\ UNCHANGED <<group, live, gen, exported, active, ownResolved, menu, bus, ownQueue,
                   layout, open, click>>

WatcherVanished ==
    /\ watchQueue # <<>> /\ Head(watchQueue)[1] = "vanished"
    /\ IF Current(Head(watchQueue)[2]) THEN present' = FALSE /\ watchResolved' = TRUE
       ELSE UNCHANGED <<present, watchResolved>>
    /\ watchQueue' = Tail(watchQueue)
    /\ UNCHANGED <<group, live, gen, exported, active, ownResolved, menu, bus, ownQueue,
                   host, click>>

-----------------------------------------------------------------------------
(* The desktop's side of the menu.                                          *)

GetLayout ==
    /\ icon /\ fetch
    /\ layout' = items
    /\ fetch' = FALSE
    /\ UNCHANGED <<group, live, gen, exported, flags, menu, bus, queues, icon, open, click>>

\* A mutation: needUpdate only if the pads have changed, as an older version had it.
UpdateIfChanged(q) == fetch \/ printed # {q}

\* The answer to AboutToShow is always that the menu must be read again.
NeedUpdate(q) == TRUE

AboutToShow ==
    /\ icon /\ ~open
    /\ \E q \in ByTitle(pads) : Rebuild(q) /\ fetch' = NeedUpdate(q)
    /\ open' = TRUE
    /\ UNCHANGED <<group, live, gen, exported, flags, bus, queues, icon, layout, click>>

CloseMenu ==
    /\ open
    /\ open' = FALSE
    /\ UNCHANGED <<group, live, gen, exported, flags, menu, bus, queues, icon, layout, fetch, click>>

Click ==
    /\ icon /\ click = {}
    /\ \E id \in DOMAIN layout : click' = {[id |-> id, row |-> layout[id]]}
    /\ UNCHANGED <<group, live, gen, exported, flags, menu, bus, queues, host>>

Callbacks == BusAcquired \/ NameAcquired \/ NameLost \/ WatcherAppeared \/ WatcherVanished

Surroundings == NameAnswered \/ GetLayout \/ AboutToShow \/ CloseMenu \/ Click

-----------------------------------------------------------------------------
(* Properties.                                                              *)

Callback == {"bus", "acquired", "lost", "appeared", "vanished"} \X (0..(2 * MaxStarts))

IsMenu(f) ==
    /\ f = [id \in DOMAIN f |-> f[id]]
    /\ \A id \in DOMAIN f : id \in Ids /\ id < nextId /\ f[id] \in Rows

(* The variables have their types, and no id is ahead of the counter.       *)
TrayTypeOK ==
    /\ made \in 0..MaxPads /\ pads \subseteq 1..made
    /\ live \in BOOLEAN /\ exported \in BOOLEAN
    /\ gen \in 0..(2 * MaxStarts) /\ (live => gen < 2 * MaxStarts)
    /\ active \in BOOLEAN /\ present \in BOOLEAN
    /\ ownResolved \in BOOLEAN /\ watchResolved \in BOOLEAN
    /\ IsMenu(items) /\ IsMenu(layout)
    /\ nextId \in 1..(MaxIds + 1)
    /\ asked \in BOOLEAN /\ named \in BOOLEAN /\ watcher \in BOOLEAN
    /\ ownQueue \in Seq(Callback) /\ watchQueue \in Seq(Callback)
    /\ icon \in BOOLEAN /\ fetch \in BOOLEAN /\ open \in BOOLEAN
    /\ click \subseteq [id : Ids, row : Rows] /\ \A c \in click : c.id < nextId

(***************************************************************************)
(* A click does what the row the user saw says, or nothing: whatever       *)
(* happened to the menu, the pads or the tray while it was on its way, its *)
(* id names that row or no row (tray_next_item_id).                        *)
(***************************************************************************)
NoMisdispatch == \A c \in click : c.id \in DOMAIN items => items[c.id] = c.row

(***************************************************************************)
(* Once every callback has been taken, xpad_tray_has_indicator says        *)
(* whether the desktop shows the icon, however often the watcher went and  *)
(* came back and the tray was switched off and on again.                   *)
(***************************************************************************)
Settled == ownQueue = <<>> /\ watchQueue = <<>> /\ ~asked

IndicatorIsShown == Settled => ((active /\ present) <=> icon)

(***************************************************************************)
(* While the menu is open and the desktop has read what it was told to     *)
(* read, its ids are the program's: no row is dead (AboutToShow).          *)
(***************************************************************************)
OpenMenuWorks == open /\ ~fetch => layout = items

(***************************************************************************)
(* The tray keeps its promise: an icon is claimed only by a tray that runs *)
(* and has heard from the bus, and what is known stays known until it is   *)
(* stopped, even when callbacks of an earlier tray arrive.                 *)
(***************************************************************************)
Status == INSTANCE TrayStatus WITH
    armed <- live,
    indicator <- active /\ present,
    ready <- (live => ownResolved /\ watchResolved)

KeepsStatus == Status!StatusSpec

=============================================================================
