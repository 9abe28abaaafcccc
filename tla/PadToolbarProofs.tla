-------------------------- MODULE PadToolbarProofs --------------------------
(***************************************************************************)
(* Proofs about PadToolbar, for any pads and any list of buttons: the      *)
(* toolbar goes away but not under a menu, its countdown belongs to a pad, *)
(* and what is on screen is in the file.  The first three need             *)
(* MenusCounted: the counter that the handlers keep is the number of       *)
(* popovers on screen, and on a pad that popped one up again more.         *)
(***************************************************************************)
EXTENDS PadToolbar, FiniteSets, FiniteSetTheorems, SequenceTheorems, TLAPS

MenusCounted ==
    \A p \in Pads :
        /\ p \notin again => menus[p] = Cardinality(popped[p])
        /\ menus[p] >= Cardinality(popped[p])
        /\ popped[p] # {} => p \in up

Inv == TypeOK /\ MenusCounted /\ TimerOwned /\ ToolbarGoesAway

-----------------------------------------------------------------------------
(* Counting popovers.                                                      *)

LEMMA SomePopovers ==
    ASSUME NEW S \in SUBSET Popovers
    PROVE  IsFiniteSet(S) /\ Cardinality(S) \in Nat /\ (Cardinality(S) = 0 <=> S = {})
  <1>1. Popovers = (({"menu"} \cup {"highlight"}) \cup {"context"}) \cup {"palette"}
    BY DEF Popovers
  <1>2. IsFiniteSet(Popovers)
    BY <1>1, FS_Singleton, FS_Union
  <1> QED BY <1>2, FS_Subset, FS_CardinalityType, FS_EmptySet

LEMMA OneMore ==
    ASSUME NEW S \in SUBSET Popovers, NEW m \in Popovers \ S
    PROVE  Cardinality(S \cup {m}) = Cardinality(S) + 1
  BY SomePopovers, FS_AddElement

LEMMA OneLess ==
    ASSUME NEW S \in SUBSET Popovers, NEW m \in S
    PROVE  Cardinality(S \ {m}) = Cardinality(S) - 1
  BY SomePopovers, FS_RemoveElement

-----------------------------------------------------------------------------
(* Lists of buttons.                                                       *)

LEMMA ListsAreSequences == Lists \subseteq Seq(Buttons) /\ Stock \in Seq(Buttons)
  BY ToolbarAssumption DEF Lists

LEMMA LoadedIsSequence ==
    ASSUME NEW list \in Seq(Buttons)
    PROVE  Loaded(list) \in Seq(Buttons)
  <1>1. Default \in Seq(Buttons)
    BY ToolbarAssumption DEF Default
  <1> QED BY <1>1 DEF Loaded

-----------------------------------------------------------------------------
\* Init and Restart give the same pads.
FreshPads ==
    /\ up \subseteq Pads /\ revealed = AtRest(has, autohide, up) /\ pointer = Nowhere
    /\ timer = [p \in Pads |-> FALSE] /\ sources = [p \in Pads |-> 0]
    /\ menus = [p \in Pads |-> 0] /\ popped = [p \in Pads |-> {}] /\ again = {}

Settings ==
    /\ has \in BOOLEAN /\ autohide \in BOOLEAN /\ buttons \in Seq(Buttons)
    /\ file \in [has : BOOLEAN, autohide : BOOLEAN, buttons : Seq(Buttons)]

LEMMA FreshPadsAreRight == FreshPads /\ Settings => Inv
  <1> SUFFICES ASSUME FreshPads, Settings PROVE Inv
    OBVIOUS
  <1>1. TypeOK
    BY DEF FreshPads, Settings, TypeOK, AtRest
  <1>2. MenusCounted
    <2>1. ASSUME NEW p \in Pads PROVE menus[p] = 0 /\ popped[p] = {} /\ Cardinality(popped[p]) = 0
      BY FS_EmptySet DEF FreshPads
    <2>2. ASSUME NEW p \in Pads PROVE menus[p] >= Cardinality(popped[p])
      <3>1. menus[p] = 0 /\ Cardinality(popped[p]) = 0
        BY <2>1
      <3> QED BY <3>1
    <2> QED BY <2>1, <2>2, Zenon DEF MenusCounted
  <1>3. TimerOwned
    BY DEF FreshPads, TimerOwned
  <1>4. ToolbarGoesAway
    BY DEF FreshPads, ToolbarGoesAway, AtRest
  <1> QED BY <1>1, <1>2, <1>3, <1>4 DEF Inv

LEMMA InvInit == Init => Inv
  <1> SUFFICES ASSUME Init PROVE Inv
    OBVIOUS
  <1>1. Settings
    BY ListsAreSequences, LoadedIsSequence DEF Init, Settings
  <1>2. FreshPads
    BY DEF Init, FreshPads
  <1> QED BY <1>1, <1>2, FreshPadsAreRight

LEMMA RestartKeeps == ASSUME Inv, Restart PROVE Inv'
  <1>1. Settings'
    BY LoadedIsSequence DEF Inv, TypeOK, Restart, Settings
  <1>2. FreshPads'
    BY DEF Restart, FreshPads
  <1> QED BY <1>1, <1>2, FreshPadsAreRight, PTL

-----------------------------------------------------------------------------
(* The pointer and the countdown.                                          *)

LEMMA NewPadKeeps == ASSUME Inv, NEW p \in Pads, NewPad(p) PROVE Inv'
  <1> USE DEF Inv, NewPad, settings
  <1>1. TypeOK'
    BY DEF TypeOK, AtRest
  <1>2. MenusCounted'
    BY DEF MenusCounted
  <1>3. TimerOwned'
    BY DEF TimerOwned
  <1>4. ToolbarGoesAway'
    BY DEF ToolbarGoesAway, AtRest
  <1> QED BY <1>1, <1>2, <1>3, <1>4

(* What the two halves of the countdown do to the timers.                  *)

TimersRight ==
    /\ timer \in [Pads -> BOOLEAN] /\ sources \in [Pads -> Nat]
    /\ \A q \in Pads : sources[q] = IF timer[q] THEN 1 ELSE 0

LEMMA ArmStarts ==
    ASSUME TimersRight, NEW p \in Pads, Arm(p)
    PROVE  TimersRight' /\ timer' = [timer EXCEPT ![p] = TRUE]
  <1>1. (IF timer[p] THEN sources[p] ELSE sources[p] + 1) = 1
    BY DEF TimersRight
  <1>2. sources' = [sources EXCEPT ![p] = 1]
    BY <1>1 DEF Arm
  <1> QED BY <1>2 DEF Arm, TimersRight

LEMMA CancelStops ==
    ASSUME TimersRight, NEW p \in Pads, Cancel(p)
    PROVE  TimersRight' /\ timer' = [timer EXCEPT ![p] = FALSE]
  <1>1. (IF timer[p] THEN sources[p] - 1 ELSE sources[p]) = 0
    BY DEF TimersRight
  <1>2. sources' = [sources EXCEPT ![p] = 0]
    BY <1>1 DEF Cancel
  <1> QED BY <1>2 DEF Cancel, TimersRight

LEMMA InvTimers == Inv => TimersRight
  BY DEF Inv, TypeOK, TimerOwned, TimersRight

LEMMA DeletePadKeeps == ASSUME Inv, NEW p \in Pads, DeletePad(p) PROVE Inv'
  <1>0. TimersRight' /\ timer' = [timer EXCEPT ![p] = FALSE]
    BY InvTimers, CancelStops DEF DeletePad
  <1> USE DEF Inv, DeletePad, settings
  <1>1. TypeOK'
    BY <1>0 DEF TypeOK, TimersRight
  <1>2. MenusCounted'
    BY FS_EmptySet DEF MenusCounted, TypeOK
  <1>3. TimerOwned'
    BY <1>0 DEF TimerOwned, TypeOK, TimersRight
  <1>4. ToolbarGoesAway'
    <2>1. (~has' => revealed' = {}) /\ (has' /\ ~autohide' => revealed' = up')
      BY DEF ToolbarGoesAway
    <2>2. ASSUME NEW q \in revealed' \ again', autohide', pointer' # q, popped'[q] = {}
          PROVE  timer'[q]
      <3>1. q \in Pads /\ q # p /\ q \in revealed \ again /\ pointer # q
        BY <2>2 DEF TypeOK
      <3>2. popped[q] = {} /\ timer[q] = timer'[q]
        BY <1>0, <2>2, <3>1 DEF TypeOK
      <3> QED BY <2>2, <3>1, <3>2 DEF ToolbarGoesAway
    <2> QED BY <2>1, <2>2 DEF ToolbarGoesAway
  <1> QED BY <1>1, <1>2, <1>3, <1>4

LEMMA EnterKeeps == ASSUME Inv, NEW p \in Pads, Enter(p) PROVE Inv'
  <1>0. /\ TimersRight'
        /\ timer' = [timer EXCEPT ![p] = FALSE] \/ timer' = timer
    BY InvTimers, CancelStops DEF Enter, Keep, TimersRight
  <1> USE DEF Inv, Enter, settings
  <1>1. TypeOK'
    BY <1>0 DEF TypeOK, TimersRight
  <1>2. MenusCounted'
    BY DEF MenusCounted
  <1>3. TimerOwned'
    BY <1>0 DEF TimerOwned, TypeOK, TimersRight
  <1>4. ToolbarGoesAway'
    <2>1. CASE has /\ autohide
      <3>1. \A q \in Pads \ {p} : timer'[q] = timer[q]
        BY <1>0 DEF TypeOK
      <3>2. \A q \in revealed' \ again' : q = p \/ q \in revealed \ again
        BY <2>1
      <3>3. has' /\ autohide' /\ pointer' = p /\ popped' = popped /\ revealed \subseteq Pads
        BY <2>1 DEF TypeOK
      <3>4. ASSUME NEW q \in revealed' \ again', pointer' # q, popped'[q] = {} PROVE timer'[q]
        <4>1. q \in revealed \ again /\ q # p /\ pointer # q
          BY <3>2, <3>3, <3>4, ToolbarAssumption DEF TypeOK
        <4>2. timer[q]
          BY <2>1, <3>3, <3>4, <4>1 DEF ToolbarGoesAway
        <4> QED BY <3>1, <3>3, <4>1, <4>2
      <3> QED BY <3>3, <3>4 DEF ToolbarGoesAway
    <2>2. CASE ~(has /\ autohide)
      BY <2>2 DEF ToolbarGoesAway, Keep, TypeOK
    <2> QED BY <2>1, <2>2
  <1> QED BY <1>1, <1>2, <1>3, <1>4

LEMMA LeaveKeeps == ASSUME Inv, NEW p \in Pads, Leave(p) PROVE Inv'
  <1>0. /\ TimersRight'
        /\ timer' = IF has /\ autohide /\ menus[p] = 0 THEN [timer EXCEPT ![p] = TRUE] ELSE timer
    BY InvTimers, ArmStarts DEF Leave, Keep, TimersRight
  <1> USE DEF Inv, Leave, settings
  <1>1. TypeOK'
    BY <1>0 DEF TypeOK, TimersRight
  <1>2. MenusCounted'
    BY DEF MenusCounted
  <1>3. TimerOwned'
    BY <1>0 DEF TimerOwned, TypeOK, TimersRight
  <1>4. popped[p] = {} /\ p \notin again => menus[p] = 0
    BY FS_EmptySet DEF MenusCounted
  <1>5. ToolbarGoesAway'
    BY <1>0, <1>4 DEF ToolbarGoesAway, TypeOK
  <1> QED BY <1>1, <1>2, <1>3, <1>5

LEMMA ToolbarTimeoutKeeps == ASSUME Inv, NEW p \in Pads, ToolbarTimeout(p) PROVE Inv'
  <1> USE DEF Inv, ToolbarTimeout, settings
  <1>1. TypeOK'
    BY DEF TypeOK
  <1>2. MenusCounted'
    BY DEF MenusCounted
  <1>3. timer[p] /\ TimerOwned'
    BY DEF TimerOwned, TypeOK
  <1>4. popped[p] = {} /\ p \notin again => menus[p] = 0
    BY FS_EmptySet DEF MenusCounted
  <1>5. ToolbarGoesAway'
    BY <1>3, <1>4 DEF ToolbarGoesAway, TypeOK
  <1> QED BY <1>1, <1>2, <1>3, <1>5

-----------------------------------------------------------------------------
(* The settings.                                                           *)

LEMMA ToggleHasKeeps == ASSUME Inv, ToggleHas PROVE Inv'
  <1> USE DEF Inv, ToggleHas
  <1>1. TypeOK'
    BY DEF TypeOK, AtRest, Saved
  <1>2. MenusCounted'
    BY DEF MenusCounted
  <1>3. TimerOwned'
    BY DEF TimerOwned
  <1>4. ToolbarGoesAway'
    BY DEF ToolbarGoesAway, TypeOK, AtRest
  <1> QED BY <1>1, <1>2, <1>3, <1>4

LEMMA ToggleAutohideKeeps == ASSUME Inv, ToggleAutohide PROVE Inv'
  <1> USE DEF Inv, ToggleAutohide, Keep
  <1>1. TypeOK'
    <2>1. timer' \in [Pads -> BOOLEAN] /\ sources' \in [Pads -> Nat]
      <3>1. timer \in [Pads -> BOOLEAN] /\ sources \in [Pads -> Nat]
        BY DEF TypeOK
      <3>2. CASE autohide'
        <4>1. sources' \in [Pads -> Nat]
          BY <3>1, <3>2
        <4>2. \A q \in Pads : (q \in up \/ timer[q]) \in BOOLEAN
          OBVIOUS
        <4>3. timer' \in [Pads -> BOOLEAN]
          BY <3>2, <4>2
        <4> QED BY <4>1, <4>3
      <3>3. CASE ~autohide'
        BY <3>1, <3>3
      <3> QED BY <3>2, <3>3
    <2>2. Settings' /\ revealed' \subseteq up'
      BY DEF TypeOK, Settings, Saved
    <2> QED BY <2>1, <2>2 DEF TypeOK, Settings
  <1>2. MenusCounted'
    BY DEF MenusCounted
  <1>3. TimerOwned'
    BY DEF TimerOwned, TypeOK
  <1>4. ToolbarGoesAway'
    BY DEF ToolbarGoesAway, TypeOK
  <1> QED BY <1>1, <1>2, <1>3, <1>4

-----------------------------------------------------------------------------
(* The menus.                                                              *)

LEMMA PopUpKeeps == ASSUME Inv, NEW p \in Pads, NEW m \in Popovers, PopUp(p, m) PROVE Inv'
  <1> USE DEF Inv, PopUp, settings, Cancel
  <1>1. TypeOK'
    BY DEF TypeOK, TimerOwned
  <1>2. MenusCounted'
    <2>1. popped[p] \in SUBSET Popovers /\ Cardinality(popped[p]) \in Nat /\ menus[p] \in Nat
      BY SomePopovers DEF TypeOK
    <2>2. menus'[p] = menus[p] + 1 /\ popped'[p] = popped[p] \cup {m} /\ p \in up'
      BY DEF TypeOK
    <2>3. CASE m \notin popped[p]
      <3>1. Cardinality(popped'[p]) = Cardinality(popped[p]) + 1 /\ again' = again
        BY <2>1, <2>2, <2>3, OneMore
      <3>2. (p \notin again => menus[p] = Cardinality(popped[p])) /\ menus[p] >= Cardinality(popped[p])
        BY DEF MenusCounted
      <3>3. (p \notin again' => menus'[p] = Cardinality(popped'[p])) /\ menus'[p] >= Cardinality(popped'[p])
        BY <2>1, <2>2, <3>1, <3>2
      <3>4. ASSUME NEW q \in Pads, q # p
            PROVE  menus'[q] = menus[q] /\ popped'[q] = popped[q] /\ again' = again
        BY <3>1, <3>4 DEF TypeOK
      <3> QED BY <2>2, <3>3, <3>4 DEF MenusCounted
    <2>4. CASE m \in popped[p]
      <3>1. popped'[p] = popped[p] /\ again' = again \cup {p}
        BY <2>2, <2>4
      <3>2. menus[p] >= Cardinality(popped[p])
        BY DEF MenusCounted
      <3>3. p \in again' /\ menus'[p] >= Cardinality(popped'[p])
        BY <2>1, <2>2, <3>1, <3>2
      <3>4. ASSUME NEW q \in Pads, q # p
            PROVE  menus'[q] = menus[q] /\ popped'[q] = popped[q] /\ (q \notin again' => q \notin again)
        BY <3>1, <3>4 DEF TypeOK
      <3> QED BY <2>2, <3>3, <3>4, Zenon DEF MenusCounted
    <2> QED BY <2>3, <2>4
  <1>3. TimerOwned'
    BY DEF TimerOwned, TypeOK
  <1>4. ToolbarGoesAway'
    BY DEF ToolbarGoesAway, TypeOK
  <1> QED BY <1>1, <1>2, <1>3, <1>4

\* The list of buttons and the file may change in the same step.
LEMMA PopDownKeeps ==
    ASSUME Inv, NEW p \in Pads, NEW m \in popped[p], PopDown(p, m),
           Settings', has' = has, autohide' = autohide
    PROVE  Inv'
  <1>0. /\ TimersRight'
        /\ timer' = IF menus'[p] = 0 THEN [timer EXCEPT ![p] = TRUE] ELSE timer
    BY InvTimers, ArmStarts DEF PopDown, Keep, TimersRight
  <1> USE DEF Inv, PopDown
  <1>1. m \in Popovers /\ p \in up /\ popped[p] \in SUBSET Popovers
    BY DEF TypeOK, MenusCounted
  <1>2. DEFINE S == popped[p]
               T == popped[p] \ {m}
  <1>3. /\ Cardinality(T) = Cardinality(S) - 1
        /\ Cardinality(S) \in Nat /\ Cardinality(T) \in Nat
        /\ Cardinality(T) = 0 <=> T = {}
    <2>1. T \in SUBSET Popovers
      BY <1>1
    <2>2. Cardinality(T) \in Nat /\ (Cardinality(T) = 0 <=> T = {})
      BY <2>1, SomePopovers
    <2>3. Cardinality(T) = Cardinality(S) - 1
      BY <1>1, OneLess
    <2>4. Cardinality(S) \in Nat
      BY <1>1, SomePopovers
    <2> QED BY <2>2, <2>3, <2>4
  <1>4. /\ p \notin again => menus'[p] = Cardinality(T)
        /\ menus'[p] >= Cardinality(T) /\ menus'[p] \in Nat /\ popped'[p] = T
    <2>1. (p \notin again => menus[p] = Cardinality(S)) /\ menus[p] >= Cardinality(S)
      BY DEF MenusCounted
    <2>2. Cardinality(S) > 0 /\ Cardinality(S) - 1 = Cardinality(T)
      BY <1>3
    <2>3. menus[p] \in Nat /\ menus[p] > 0
      BY <1>3, <2>1, <2>2 DEF TypeOK
    <2>4. menus'[p] = menus[p] - 1 /\ popped'[p] = T
      BY <2>3 DEF TypeOK
    <2> QED BY <1>3, <2>1, <2>2, <2>3, <2>4
  <1> HIDE DEF S, T
  <1>5. TypeOK'
    <2>1. menus' \in [Pads -> Nat] /\ popped' \in [Pads -> SUBSET Popovers]
      BY <1>1 DEF TypeOK
    <2> QED BY <1>0, <2>1 DEF TypeOK, Settings, TimersRight
  <1>6. MenusCounted'
    BY <1>1, <1>4 DEF MenusCounted, TypeOK
  <1>7. TimerOwned'
    BY <1>0, <1>1 DEF TimerOwned, TypeOK, TimersRight
  <1>8. ToolbarGoesAway'
    <2>1. (~has' => revealed' = {}) /\ (has' /\ ~autohide' => revealed' = up')
      BY DEF ToolbarGoesAway
    <2>2. ASSUME NEW q \in revealed' \ again', autohide', pointer' # q, popped'[q] = {}
          PROVE  timer'[q]
      <3>1. CASE q = p
        BY <1>0, <1>3, <1>4, <2>2, <3>1 DEF TypeOK
      <3>2. CASE q # p
        <4>1. q \in Pads /\ q \in revealed \ again /\ pointer # q
          BY <2>2 DEF TypeOK
        <4>2. popped[q] = {} /\ timer[q] = timer'[q]
          BY <1>0, <2>2, <3>2, <4>1 DEF TypeOK
        <4> QED BY <2>2, <4>1, <4>2 DEF ToolbarGoesAway
      <3> QED BY <3>1, <3>2
    <2> QED BY <2>1, <2>2 DEF ToolbarGoesAway
  <1> QED BY <1>5, <1>6, <1>7, <1>8

LEMMA RowKeeps ==
    ASSUME Inv, NEW p \in Pads,
           (\E b \in Buttons : AddButton(p, b)) \/ RemoveLast(p) \/ RemoveAll(p)
    PROVE  Inv'
  <1>1. "context" \in popped[p] /\ PopDown(p, "context") /\ has' = has /\ autohide' = autohide
    BY DEF AddButton, RemoveLast, RemoveAll
  <1>2. buttons' \in Seq(Buttons)
    <2>0. buttons \in Seq(Buttons)
      BY DEF Inv, TypeOK
    <2>1. CASE \E b \in Buttons : AddButton(p, b)
      BY <2>0, <2>1 DEF AddButton
    <2>2. CASE RemoveLast(p)
      <3>1. Len(buttons) \in Nat /\ Len(buttons) - 1 <= Len(buttons)
        BY <2>0
      <3>2. Len(buttons) > 0
        BY <2>0, <2>2 DEF RemoveLast, RemoveRows, InList
      <3>3. \A i \in 1 .. Len(buttons) - 1 : buttons[i] \in Buttons
        BY <2>0, <3>1
      <3> QED BY <2>0, <2>2, <3>1, <3>2, <3>3, SubSeqProperties DEF RemoveLast
    <2>3. CASE RemoveAll(p)
      BY <2>3 DEF RemoveAll
    <2> QED BY <2>1, <2>2, <2>3
  <1>3. file' \in [has : BOOLEAN, autohide : BOOLEAN, buttons : Seq(Buttons)]
    BY <1>1, <1>2 DEF Inv, TypeOK, Saved, AddButton, RemoveLast, RemoveAll
  <1>4. Settings'
    BY <1>1, <1>2, <1>3 DEF Inv, TypeOK, Settings
  <1> QED BY <1>1, <1>4, PopDownKeeps

-----------------------------------------------------------------------------
(* One step, whichever it is, and none.                                    *)

LEMMA PadKeeps == ASSUME Inv, NEW p \in Pads, Pad(p) PROVE Inv'
  <1>1. CASE NewPad(p) \/ DeletePad(p)
    BY <1>1, NewPadKeeps, DeletePadKeeps
  <1>2. CASE Enter(p) \/ Leave(p) \/ ToolbarTimeout(p)
    BY <1>2, EnterKeeps, LeaveKeeps, ToolbarTimeoutKeeps
  <1>3. CASE \E m \in Popovers : ClickMenu(p, m) \/ KeyMenu(p, m)
    BY <1>3, PopUpKeeps DEF ClickMenu, KeyMenu
  <1>4. CASE \E m \in Popovers : CloseMenu(p, m)
    <2>1. PICK m \in Popovers : CloseMenu(p, m)
      BY <1>4
    <2>2. m \in popped[p] /\ PopDown(p, m) /\ Settings' /\ has' = has /\ autohide' = autohide
      BY <2>1 DEF CloseMenu, settings, Settings, Inv, TypeOK
    <2> QED BY <2>2, PopDownKeeps
  <1>5. CASE (\E b \in Buttons : AddButton(p, b)) \/ RemoveLast(p) \/ RemoveAll(p)
    BY <1>5, RowKeeps
  <1> QED BY <1>1, <1>2, <1>3, <1>4, <1>5 DEF Pad

LEMMA StutterKeeps == ASSUME Inv, UNCHANGED vars PROVE Inv'
  <1> USE DEF Inv, vars, settings, padVars
  <1>1. TypeOK'
    BY DEF TypeOK
  <1>2. MenusCounted' /\ TimerOwned' /\ ToolbarGoesAway'
    BY DEF MenusCounted, TimerOwned, ToolbarGoesAway
  <1> QED BY <1>1, <1>2

LEMMA InvNext == Inv /\ [Next]_vars => Inv'
  BY ToggleHasKeeps, ToggleAutohideKeeps, RestartKeeps, PadKeeps, StutterKeeps DEF Next

LEMMA AlwaysInv == Spec => []Inv
  BY InvInit, InvNext, PTL DEF Spec

-----------------------------------------------------------------------------
(***************************************************************************)
(* Every variable keeps its type: a pad's hide timer never counts below    *)
(* zero, and neither toolbar nor pointer is on a pad that is gone.         *)
(***************************************************************************)
THEOREM TypeCorrect == Spec => []TypeOK
  BY AlwaysInv, PTL DEF Inv

(***************************************************************************)
(* However enter, leave, menus, settings and the timer follow one another, *)
(* a toolbar that hides by itself has its countdown running once nothing   *)
(* holds it; one switched off is away and one kept is there                *)
(* (xpad_pad_notify_has_toolbar, toolbar_timeout, menu_popdown).  A pad on *)
(* which a menu was popped up over itself is excepted.                     *)
(***************************************************************************)
THEOREM ToolbarAlwaysGoesAway == Spec => []ToolbarGoesAway
  BY AlwaysInv, PTL DEF Inv

\* Where a menu is up, its pad counts it.
LEMMA MenuIsCounted == ASSUME Inv, NEW p \in Pads, popped[p] # {} PROVE menus[p] # 0
  <1>1. popped[p] \in SUBSET Popovers /\ menus[p] >= Cardinality(popped[p])
    BY DEF Inv, TypeOK, MenusCounted
  <1> QED BY <1>1, SomePopovers

LEMMA MenuHoldsNext ==
    ASSUME Inv, [Next]_vars, NEW p \in revealed \ revealed', popped[p] \cap popped'[p] # {}
    PROVE  ~has'
  <1>1. p \in Pads /\ p \in up /\ popped[p] # {} /\ popped'[p] # {} /\ menus[p] # 0
    BY MenuIsCounted DEF Inv, TypeOK
  <1>2. ASSUME NEW q \in Pads, ToolbarTimeout(q) PROVE FALSE
    BY <1>1, <1>2 DEF ToolbarTimeout
  <1>3. ASSUME NEW q \in Pads, DeletePad(q) PROVE FALSE
    BY <1>1, <1>3 DEF DeletePad, Inv, TypeOK
  <1>4. ~Restart
    BY <1>1 DEF Restart
  <1>5. ASSUME NEW q \in Pads, NewPad(q) \/ Enter(q) \/ Leave(q) PROVE FALSE
    BY <1>5 DEF NewPad, Enter, Leave
  <1>6. ASSUME NEW q \in Pads, NEW m \in Popovers, ClickMenu(q, m) \/ KeyMenu(q, m) \/ CloseMenu(q, m)
        PROVE  FALSE
    BY <1>6 DEF ClickMenu, KeyMenu, PopUp, CloseMenu, PopDown
  <1>7. ASSUME NEW q \in Pads, (\E b \in Buttons : AddButton(q, b)) \/ RemoveLast(q) \/ RemoveAll(q)
        PROVE  FALSE
    BY <1>7 DEF AddButton, RemoveLast, RemoveAll, PopDown
  <1>8. CASE ToggleAutohide
    BY <1>1, <1>8 DEF ToggleAutohide
  <1>9. CASE ToggleHas
    <2>1. CASE ~has
      BY <2>1 DEF Inv, ToolbarGoesAway
    <2>2. CASE has
      BY <1>9, <2>2 DEF ToggleHas
    <2> QED BY <2>1, <2>2
  <1>10. ~UNCHANGED vars
    BY DEF vars, padVars
  <1> QED BY <1>2, <1>3, <1>4, <1>5, <1>6, <1>7, <1>8, <1>9, <1>10 DEF Next, Pad

(***************************************************************************)
(* No countdown takes the toolbar away under an open menu, whatever opened *)
(* or closed over it and whichever countdown was running (menu_popup,      *)
(* menu_popdown, toolbar_timeout).                                         *)
(***************************************************************************)
THEOREM MenuAlwaysHoldsToolbar == Spec => MenuHoldsToolbar
  <1>1. Inv /\ [Next]_vars => [\A p \in revealed \ revealed' : popped[p] \cap popped'[p] # {} => ~has']_vars
    BY MenuHoldsNext
  <1> QED BY <1>1, AlwaysInv, PTL DEF Spec, MenuHoldsToolbar

(***************************************************************************)
(* The main loop holds a countdown exactly when its pad keeps the id, and  *)
(* only for a pad there is: what xpad_pad_dispose removes is all that      *)
(* could call back.                                                        *)
(***************************************************************************)
THEOREM TimerAlwaysOwned == Spec => []TimerOwned
  BY AlwaysInv, PTL DEF Inv

-----------------------------------------------------------------------------
(* What a restart brings back.                                             *)

LEMMA LoadedIsStable == ASSUME NEW list PROVE Loaded(list) = list \/ list = Stock
  BY DEF Loaded

\* Whatever wrote the file last wrote the settings as they are.
LEMMA SavedSurvives == ASSUME TypeOK', file' = Saved PROVE ToolbarSurvives'
  <1>1. file'.has = has' /\ file'.autohide = autohide' /\ file'.buttons = buttons'
    BY DEF Saved
  <1> QED BY <1>1, LoadedIsStable DEF ToolbarSurvives

LEMMA SurvivesInit == Init => ToolbarSurvives
  BY DEF Init, ToolbarSurvives

LEMMA SurvivesNext == TypeOK' /\ ToolbarSurvives /\ [Next]_vars => ToolbarSurvives'
  <1> SUFFICES ASSUME TypeOK', ToolbarSurvives, [Next]_vars PROVE ToolbarSurvives'
    OBVIOUS
  <1>1. CASE ToggleHas \/ ToggleAutohide \/ \E p \in Pads : RemoveLast(p) \/ \E b \in Buttons : AddButton(p, b)
    BY <1>1, SavedSurvives DEF ToggleHas, ToggleAutohide, RemoveLast, AddButton
  <1>2. CASE Restart
    BY <1>2 DEF Restart, ToolbarSurvives
  <1>3. CASE \E p \in Pads : RemoveAll(p)
    BY <1>3 DEF RemoveAll, ToolbarSurvives
  <1>4. ASSUME UNCHANGED settings PROVE ToolbarSurvives'
    BY <1>4 DEF settings, ToolbarSurvives
  <1>5. CASE UNCHANGED vars
    BY <1>4, <1>5 DEF vars
  <1>6. ASSUME NEW p \in Pads, NewPad(p) \/ DeletePad(p) \/ Enter(p) \/ Leave(p) \/ ToolbarTimeout(p)
        PROVE  ToolbarSurvives'
    BY <1>4, <1>6 DEF NewPad, DeletePad, Enter, Leave, ToolbarTimeout
  <1>7. ASSUME NEW p \in Pads, NEW m \in Popovers, ClickMenu(p, m) \/ KeyMenu(p, m) \/ CloseMenu(p, m)
        PROVE  ToolbarSurvives'
    BY <1>4, <1>7 DEF ClickMenu, KeyMenu, CloseMenu, PopUp
  <1> QED BY <1>1, <1>2, <1>3, <1>5, <1>6, <1>7 DEF Next, Pad

(***************************************************************************)
(* At every moment the file holds the toolbar on screen, so that a crash   *)
(* between any two steps brings it back: all but a list that Remove All    *)
(* emptied or that spells the stock of before 1.4 (xpad-settings.c).       *)
(***************************************************************************)
THEOREM ToolbarAlwaysSurvives == Spec => []ToolbarSurvives
  <1>1. Spec => []TypeOK
    BY TypeCorrect
  <1> QED BY <1>1, SurvivesInit, SurvivesNext, PTL DEF Spec

=============================================================================
