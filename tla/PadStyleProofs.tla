--------------------------- MODULE PadStyleProofs ---------------------------
(***************************************************************************)
(* Proofs about PadStyle: for any fonts and colours, a note shows the      *)
(* style it is set to, agrees with its open dialog, and looks after a      *)
(* restart as it did before.  The last needs the invariant Kept: what the  *)
(* info file of a note without unsaved changes has in common with it.      *)
(***************************************************************************)
EXTENDS PadStyle, TLAPS

\* What ShowsItsStyle says of a view under the settings f and c, and of a dialog.
Shows(v, f, c) ==
    /\ v.followColor => v.shown = c
    /\ ~v.followColor => v.shown = v.own \/ FrozenTheme(v)
    /\ v.blocks = 0 => v.followFont /\ v.font = f

Agrees(d, v) ==
    /\ d.fontcheck = ~v.followFont /\ d.colorcheck = ~v.followColor
    /\ d.fontcheck => d.fontname = Resolved(v.font)
    /\ d.colorcheck => d.col = v.own

\* An info file that says of a view all that a restart needs.
Matches(i, v) ==
    /\ i.followFont = v.followFont /\ i.followColor = v.followColor
    /\ ~v.followColor => i.own = v.own
    /\ ~v.followFont => i.font = Resolved(v.font)

Kept == view # None /\ ~unsaved => info # None /\ (info.locked \/ Matches(info, view))

DialogHasNote == dialog # None => view # None

Inv == TypeOK /\ DialogHasNote /\ ShowsItsStyle /\ Kept

-----------------------------------------------------------------------------
(* What the operators on views give.                                       *)

LEMMA Constants ==
    /\ Theme \notin Fonts /\ Theme \notin Colours
    /\ ThemeFont \in Fonts /\ ThemeColour \in Colours /\ Default \in Colours
    /\ None \notin Views /\ None \notin Dialogs /\ None \notin Infos
  BY StyleAssumption

LEMMA ResolvedIsFont ==
    ASSUME NEW f \in Fonts \cup {Theme}
    PROVE  Resolved(f) \in Fonts /\ (f \in Fonts => Resolved(f) = f)
  BY Constants DEF Resolved

LEMMA SetColorsGives ==
    ASSUME NEW v \in Views, NEW c \in Colours \cup {Theme}
    PROVE  /\ SetColors(v, c) \in Views
           /\ SetColors(v, c).shown = c
           /\ SetColors(v, c).own = IF c = Theme THEN Default ELSE c
           /\ SetColors(v, c).followColor = v.followColor
           /\ SetColors(v, c).followFont = v.followFont
           /\ SetColors(v, c).font = v.font
           /\ SetColors(v, c).blocks = v.blocks
  BY Constants DEF SetColors, Views

\* Setting the colours to the default or to an own colour shows what is set.
LEMMA SetColorsShows ==
    ASSUME NEW v \in Views, NEW c \in Colours \cup {Theme}, NEW f, NEW d,
           v.followColor => c = d, ~v.followColor => c \in Colours,
           v.blocks = 0 => v.followFont /\ v.font = f
    PROVE  Shows(SetColors(v, c), f, d)
  <1> DEFINE w == SetColors(v, c)
  <1>1. /\ w.shown = c /\ w.own = (IF c = Theme THEN Default ELSE c)
        /\ w.followColor = v.followColor /\ w.followFont = v.followFont
        /\ w.font = v.font /\ w.blocks = v.blocks
    BY SetColorsGives
  <1> HIDE DEF w
  <1>2. c \in Colours => c # Theme
    BY Constants
  <1>3. Shows(w, f, d)
    BY <1>1, <1>2 DEF Shows
  <1> QED BY <1>3 DEF w

LEMMA SetFollowFontGives ==
    ASSUME NEW v \in Views, NEW on \in BOOLEAN, font \in Fonts \cup {Theme}
    PROVE  /\ SetFollowFont(v, on) \in Views
           /\ SetFollowFont(v, on).followFont = on
           /\ SetFollowFont(v, on).followColor = v.followColor
           /\ SetFollowFont(v, on).own = v.own
           /\ SetFollowFont(v, on).shown = v.shown
           /\ SetFollowFont(v, on).font = IF on THEN font ELSE v.font
           /\ ~on => SetFollowFont(v, on).blocks > 0
  <1>1. CASE on = TRUE
    <2> DEFINE n == IF v.blocks > 0 THEN v.blocks - 1 ELSE 0
               w == [v EXCEPT !.followFont = TRUE, !.font = font, !.blocks = n]
    <2>1. n \in Nat
      BY DEF Views
    <2>2. w = SetFollowFont(v, on)
      BY <1>1 DEF SetFollowFont
    <2> HIDE DEF n
    <2>3. /\ w \in Views /\ w.followFont = TRUE /\ w.followColor = v.followColor
          /\ w.own = v.own /\ w.shown = v.shown /\ w.font = font
      BY <2>1 DEF Views
    <2> QED BY <1>1, <2>2, <2>3
  <1>2. CASE on = FALSE
    <2> DEFINE n == v.blocks + 1
               w == [v EXCEPT !.followFont = FALSE, !.blocks = n]
    <2>1. w = SetFollowFont(v, on)
      BY <1>2 DEF SetFollowFont
    <2>3. n \in Nat /\ n > 0
      BY DEF Views
    <2> HIDE DEF n
    <2>2. /\ w \in Views /\ w.followFont = FALSE /\ w.followColor = v.followColor
          /\ w.own = v.own /\ w.shown = v.shown /\ w.font = v.font /\ w.blocks > 0
      BY <2>3 DEF Views
    <2> QED BY <1>2, <2>1, <2>2
  <1> QED BY <1>1, <1>2

LEMMA FreshViewGives ==
    ASSUME font \in Fonts \cup {Theme}, colors \in Colours \cup {Theme}
    PROVE  /\ FreshView \in Views
           /\ FreshView.followFont /\ FreshView.followColor
           /\ FreshView.shown = colors /\ FreshView.blocks = 1
           /\ FreshView.own = IF colors = Theme THEN Default ELSE colors
           /\ Shows(FreshView, font, colors)
  <1> DEFINE raw == [followFont |-> TRUE, followColor |-> TRUE, own |-> Default, shown |-> Theme,
                     font |-> font, blocks |-> 1]
  <1>1. raw \in Views /\ colors \in Colours \cup {Theme}
    BY Constants DEF Views
  <1>2. FreshView = SetColors(raw, colors)
    BY DEF FreshView
  <1>3. raw.blocks # 0 /\ raw.followColor /\ raw.followFont /\ raw.blocks = 1
    OBVIOUS
  <1> HIDE DEF raw
  <1> QED BY <1>1, <1>2, <1>3, SetColorsGives, SetColorsShows

\* A flag of a view set by itself.
LEMMA FlagGives ==
    ASSUME NEW v \in Views, NEW b \in BOOLEAN
    PROVE  LET w == [v EXCEPT !.followColor = b]
           IN  /\ w \in Views /\ w.followColor = b
               /\ w.followFont = v.followFont /\ w.own = v.own /\ w.shown = v.shown
               /\ w.font = v.font /\ w.blocks = v.blocks
  BY DEF Views

LEMMA FontGives ==
    ASSUME NEW v \in Views, NEW f \in Fonts \cup {Theme}
    PROVE  LET w == [v EXCEPT !.font = f]
           IN  /\ w \in Views /\ w.followColor = v.followColor
               /\ w.followFont = v.followFont /\ w.own = v.own /\ w.shown = v.shown
               /\ w.font = f /\ w.blocks = v.blocks
  BY DEF Views

(***************************************************************************)
(* A loaded view shows its style, and unless an old version locked the     *)
(* note it is what the file says.                                          *)
(***************************************************************************)
LEMMA LoadInfoGives ==
    ASSUME font \in Fonts \cup {Theme}, colors \in Colours \cup {Theme}, NEW i \in Infos
    PROVE  /\ LoadInfo(i) \in Views
           /\ Shows(LoadInfo(i), font, colors)
           /\ ~i.locked => Matches(i, LoadInfo(i))
           /\ ~i.locked /\ ~i.followColor => LoadInfo(i).shown = i.own
  <1> DEFINE a == SetFollowFont(FreshView, i.followFont)
             v1 == [a EXCEPT !.followColor = i.followColor]
             b == SetFollowFont(v1, FALSE)
             v2 == IF i.locked THEN [b EXCEPT !.followColor = FALSE] ELSE v1
             v3 == IF i.followFont THEN v2 ELSE [v2 EXCEPT !.font = i.font]
  <1>1. /\ i.followFont \in BOOLEAN /\ i.followColor \in BOOLEAN /\ i.locked \in BOOLEAN
        /\ i.font \in Fonts /\ i.own \in Colours
    BY DEF Infos
  <1>2. font \in Fonts \cup {Theme} /\ colors \in Colours \cup {Theme}
    OBVIOUS
  <1>3. /\ a \in Views /\ a.followFont = i.followFont
        /\ a.own = FreshView.own /\ a.shown = colors
        /\ i.followFont => a.font = font
        /\ ~i.followFont => a.blocks > 0
    BY <1>1, <1>2, FreshViewGives, SetFollowFontGives
  <1> HIDE DEF a
  <1>4. /\ v1 \in Views /\ v1.followColor = i.followColor
        /\ v1.followFont = a.followFont /\ v1.own = a.own /\ v1.shown = a.shown
        /\ v1.font = a.font /\ v1.blocks = a.blocks
    BY <1>1, <1>3, FlagGives
  <1> HIDE DEF v1
  <1>5. /\ b \in Views /\ b.followFont = FALSE /\ b.blocks > 0
        /\ b.own = v1.own /\ b.shown = v1.shown
    BY <1>2, <1>4, SetFollowFontGives
  <1> HIDE DEF b
  <1>6. /\ v2 \in Views /\ v2.own = FreshView.own /\ v2.shown = colors
        /\ v2.followColor = (i.followColor /\ ~i.locked)
        /\ v2.followFont = (i.followFont /\ ~i.locked)
        /\ v2.blocks = 0 => v2.followFont /\ v2.font = font
    <2>1. CASE i.locked = TRUE
      <3> DEFINE w == [b EXCEPT !.followColor = FALSE]
      <3>1. /\ w \in Views /\ w.followColor = FALSE /\ w.followFont = b.followFont
            /\ w.own = b.own /\ w.shown = b.shown /\ w.blocks = b.blocks
        BY <1>5, FlagGives
      <3>2. v2 = w
        BY <2>1
      <3> HIDE DEF w, v2
      <3>3. w.blocks # 0
        BY <3>1, <1>5 DEF Views
      <3> QED BY <2>1, <3>1, <3>2, <3>3, <1>3, <1>4, <1>5
    <2>2. CASE i.locked = FALSE
      <3>1. v2 = v1
        BY <2>2
      <3>2. v1.blocks = 0 => i.followFont = TRUE
        BY <1>1, <1>3, <1>4
      <3> HIDE DEF v2
      <3> QED BY <2>2, <3>1, <3>2, <1>1, <1>3, <1>4
    <2> QED BY <1>1, <2>1, <2>2
  <1> HIDE DEF v2
  <1>7. /\ v3 \in Views /\ v3.own = FreshView.own /\ v3.shown = colors
        /\ v3.followColor = (i.followColor /\ ~i.locked)
        /\ v3.followFont = (i.followFont /\ ~i.locked)
        /\ v3.blocks = 0 => v3.followFont /\ v3.font = font
        /\ ~i.followFont => v3.font = i.font
    <2>1. CASE i.followFont = TRUE
      BY <2>1, <1>6
    <2>2. CASE i.followFont = FALSE
      <3> DEFINE w == [v2 EXCEPT !.font = i.font]
      <3>1. /\ w \in Views /\ w.followColor = v2.followColor /\ w.followFont = v2.followFont
            /\ w.own = v2.own /\ w.shown = v2.shown /\ w.font = i.font /\ w.blocks = v2.blocks
        BY <1>1, <1>6, FontGives
      <3>2. v3 = w
        BY <2>2
      <3> HIDE DEF w, v3
      <3> QED BY <2>2, <3>1, <3>2, <1>6
    <2> QED BY <1>1, <2>1, <2>2
  <1> HIDE DEF v3
  <1>8. LoadInfo(i) = IF i.followColor THEN v3 ELSE SetColors(v3, i.own)
    BY DEF LoadInfo, v3, v2, v1, b, a
  <1>9. Resolved(i.font) = i.font
    BY <1>1, ResolvedIsFont
  <1>10. FreshView.own = IF colors = Theme THEN Default ELSE colors
    BY FreshViewGives
  <1>11. CASE i.followColor = TRUE
    <2>1. LoadInfo(i) = v3
      BY <1>8, <1>11
    <2>2. Shows(v3, font, colors)
      BY <1>7, <1>10, <1>11 DEF Shows, FrozenTheme
    <2>3. ~i.locked => Matches(i, v3)
      BY <1>1, <1>7, <1>9, <1>11 DEF Matches
    <2> QED BY <1>7, <1>11, <2>1, <2>2, <2>3
  <1>12. CASE i.followColor = FALSE
    <2> DEFINE w == SetColors(v3, i.own)
    <2>1. LoadInfo(i) = w
      BY <1>8, <1>12
    <2>2. /\ w \in Views /\ w.shown = i.own /\ w.own = i.own
          /\ w.followColor = v3.followColor /\ w.followFont = v3.followFont
          /\ w.font = v3.font /\ w.blocks = v3.blocks
      BY <1>1, <1>7, SetColorsGives, Constants, ZenonT(60)
    <2> HIDE DEF w
    <2>3. Shows(w, font, colors)
      BY <1>7, <1>12, <2>2 DEF Shows
    <2>4. ~i.locked => Matches(i, w)
      BY <1>1, <1>7, <1>9, <1>12, <2>2 DEF Matches
    <2> QED BY <2>1, <2>2, <2>3, <2>4
  <1> QED BY <1>1, <1>11, <1>12
-----------------------------------------------------------------------------
LEMMA InvInit == Init => Inv
  <1> SUFFICES ASSUME Init PROVE Inv
    OBVIOUS
  <1>1. CASE info = None
    BY <1>1 DEF Init, Inv, TypeOK, DialogHasNote, ShowsItsStyle, Kept
  <1>2. CASE info \in Infos
    <2>1. view = LoadInfo(info)
      BY <1>2, Constants DEF Init
    <2>2. font \in Fonts \cup {Theme} /\ colors \in Colours \cup {Theme}
      BY DEF Init
    <2>3. /\ view \in Views /\ Shows(view, font, colors)
          /\ info.locked \/ Matches(info, view)
      BY <1>2, <2>1, <2>2, LoadInfoGives
    <2>4. TypeOK /\ DialogHasNote
      BY <2>2, <2>3 DEF Init, TypeOK, DialogHasNote
    <2>5. ShowsItsStyle
      BY <2>3 DEF Init, ShowsItsStyle, Shows
    <2>6. Kept
      BY <1>2, <2>3, Constants DEF Kept
    <2> QED BY <2>4, <2>5, <2>6 DEF Inv
  <1> QED BY <1>1, <1>2 DEF Init

-----------------------------------------------------------------------------
(* The steps.  What each hands on is that the view and the dialog agree     *)
(* with the settings and with each other, and the file with the view.       *)

LEMMA Parts ==
    ASSUME Inv
    PROVE  /\ font \in Fonts \cup {Theme} /\ colors \in Colours \cup {Theme}
           /\ view # None => view \in Views /\ Shows(view, font, colors)
           /\ dialog # None => dialog \in Dialogs /\ view # None /\ Agrees(dialog, view)
           /\ info # None => info \in Infos
  BY DEF Inv, TypeOK, DialogHasNote, ShowsItsStyle, Shows, Agrees

LEMMA NewPadKeeps == ASSUME Inv, NewPad PROVE Inv'
  <1>1. dialog = None /\ font \in Fonts \cup {Theme} /\ colors \in Colours \cup {Theme}
    BY Parts DEF NewPad
  <1>2. view' \in Views /\ Shows(view', font, colors)
    <2>1. CASE view' = FreshView
      BY <1>1, <2>1, FreshViewGives
    <2>2. ASSUME NEW c \in Colours, view' = SetColors([FreshView EXCEPT !.followColor = FALSE], c)
          PROVE  view' \in Views /\ Shows(view', font, colors)
      <3> DEFINE w == [FreshView EXCEPT !.followColor = FALSE]
      <3>1. w \in Views /\ w.followColor = FALSE /\ w.blocks = 1
        BY <1>1, FreshViewGives, FlagGives
      <3>2. view' = SetColors(w, c)
        BY <2>2
      <3> HIDE DEF w
      <3> QED BY <3>1, <3>2, SetColorsGives, SetColorsShows
    <2> QED BY <2>1, <2>2 DEF NewPad
  <1>3. TypeOK' /\ DialogHasNote'
    BY <1>1, <1>2 DEF NewPad, Inv, TypeOK, DialogHasNote
  <1>4. ShowsItsStyle'
    BY <1>1, <1>2 DEF NewPad, ShowsItsStyle, Shows
  <1>5. Kept'
    BY DEF NewPad, Kept
  <1> QED BY <1>3, <1>4, <1>5 DEF Inv

LEMMA SetFontKeeps == ASSUME Inv, NEW f \in Fonts, SetFont(f) PROVE Inv'
  <1>1. CASE view = None
    BY <1>1 DEF Inv, SetFont, TypeOK, DialogHasNote, ShowsItsStyle, Kept
  <1>2. CASE view # None
    <2> DEFINE w == [view EXCEPT !.font = f]
    <2>1. view \in Views /\ Shows(view, font, colors)
      BY <1>2, Parts
    <2>2. /\ w \in Views /\ w.followColor = view.followColor /\ w.followFont = view.followFont
          /\ w.own = view.own /\ w.shown = view.shown /\ w.font = f /\ w.blocks = view.blocks
      BY <2>1, FontGives
    <2>3. view' = IF view.blocks = 0 THEN w ELSE view
      BY <1>2 DEF SetFont
    <2> HIDE DEF w
    <2>4. /\ view' \in Views /\ view'.followColor = view.followColor
          /\ view'.followFont = view.followFont /\ view'.own = view.own
          /\ view'.font = view.font \/ view.followFont = TRUE
      BY <2>1, <2>2, <2>3 DEF Shows, Views
    <2>5. Shows(view', f, colors)
      BY <2>1, <2>2, <2>3 DEF Shows, FrozenTheme
    <2>6. TypeOK' /\ DialogHasNote'
      BY <2>4, Constants DEF Inv, SetFont, TypeOK, DialogHasNote
    <2>7. dialog # None => Agrees(dialog, view')
      BY <2>1, <2>4, Parts DEF Agrees, Views
    <2>8. ShowsItsStyle'
      BY <2>5, <2>7 DEF SetFont, ShowsItsStyle, Shows, Agrees
    <2>9. Kept'
      BY <1>2, <2>4 DEF Inv, SetFont, Kept, Matches
    <2> QED BY <2>6, <2>8, <2>9 DEF Inv
  <1> QED BY <1>1, <1>2

LEMMA SetDefaultColorsKeeps == ASSUME Inv, NEW c \in Colours, SetDefaultColors(c) PROVE Inv'
  <1>1. CASE view = None
    BY <1>1 DEF Inv, SetDefaultColors, TypeOK, DialogHasNote, ShowsItsStyle, Kept
  <1>2. CASE view # None
    <2> DEFINE d == IF view.followColor THEN c ELSE view.own
    <2>1. view \in Views /\ Shows(view, font, colors)
      BY <1>2, Parts
    <2>2. d \in Colours /\ view.followColor \in BOOLEAN
      BY <2>1 DEF Views
    <2>3. view' = SetColors(view, d)
      BY <1>2 DEF SetDefaultColors, NotifyColors
    <2>4. /\ view.followColor => d = c
          /\ ~view.followColor => d = view.own
      OBVIOUS
    <2> HIDE DEF d
    <2>5. /\ view' \in Views /\ view'.own = d /\ view'.followColor = view.followColor
          /\ view'.followFont = view.followFont /\ view'.font = view.font
      BY <2>1, <2>2, <2>3, SetColorsGives, Constants
    <2>6. Shows(view', font, c)
      BY <2>1, <2>2, <2>3, <2>4, SetColorsShows DEF Shows
    <2>7. TypeOK' /\ DialogHasNote'
      BY <2>5, Constants DEF Inv, SetDefaultColors, TypeOK, DialogHasNote
    <2>8. dialog # None => Agrees(dialog, view')
      BY <2>2, <2>4, <2>5, Parts DEF Agrees
    <2>9. ShowsItsStyle'
      BY <2>6, <2>8 DEF SetDefaultColors, ShowsItsStyle, Shows, Agrees
    <2>10. Kept'
      BY <1>2, <2>2, <2>4, <2>5 DEF Inv, SetDefaultColors, Kept, Matches
    <2> QED BY <2>7, <2>9, <2>10 DEF Inv
  <1> QED BY <1>1, <1>2

LEMMA OpenPropertiesKeeps == ASSUME Inv, OpenProperties PROVE Inv'
  <1> DEFINE d == [fontcheck |-> ~view.followFont, fontname |-> Resolved(view.font),
                   colorcheck |-> ~view.followColor, col |-> view.own]
  <1>1. view \in Views /\ dialog' = d
    BY Parts DEF OpenProperties
  <1>2. d \in Dialogs /\ Agrees(d, view)
    BY <1>1, ResolvedIsFont DEF Views, Dialogs, Agrees
  <1> HIDE DEF d
  <1>3. TypeOK' /\ DialogHasNote'
    BY <1>1, <1>2 DEF OpenProperties, Inv, TypeOK, DialogHasNote
  <1>4. ShowsItsStyle'
    BY <1>1, <1>2, Parts DEF OpenProperties, ShowsItsStyle, Shows, Agrees
  <1>5. Kept'
    BY DEF OpenProperties, Inv, Kept
  <1> QED BY <1>3, <1>4, <1>5 DEF Inv

LEMMA PropNotifyFontKeeps ==
    ASSUME Inv, dialog # None, NEW d \in Dialogs, d.colorcheck = dialog.colorcheck, d.col = dialog.col,
           PropNotifyFont(d)
    PROVE  Inv'
  <1> DEFINE v == SetFollowFont(view, ~d.fontcheck)
             w == [v EXCEPT !.font = d.fontname]
  <1>1. /\ view \in Views /\ Shows(view, font, colors) /\ Agrees(dialog, view)
        /\ font \in Fonts \cup {Theme}
    BY Parts
  <1>2. d.fontcheck \in BOOLEAN /\ d.fontname \in Fonts
    BY DEF Dialogs
  <1>3. /\ v \in Views /\ v.followFont = ~d.fontcheck /\ v.followColor = view.followColor
        /\ v.own = view.own /\ v.shown = view.shown
        /\ ~d.fontcheck => v.font = font
        /\ d.fontcheck => v.blocks > 0
    BY <1>1, <1>2, SetFollowFontGives
  <1>4. view' = IF d.fontcheck THEN w ELSE v
    BY DEF PropNotifyFont
  <1> HIDE DEF v
  <1>5. /\ w \in Views /\ w.followColor = v.followColor /\ w.followFont = v.followFont
        /\ w.own = v.own /\ w.shown = v.shown /\ w.font = d.fontname /\ w.blocks = v.blocks
    BY <1>2, <1>3, FontGives
  <1> HIDE DEF w
  <1>6. /\ view' \in Views /\ view'.followFont = ~d.fontcheck
        /\ view'.followColor = view.followColor
        /\ view'.own = view.own /\ view'.shown = view.shown
        /\ d.fontcheck => view'.font = d.fontname /\ view'.blocks # 0
        /\ ~d.fontcheck => view'.font = font
    BY <1>2, <1>3, <1>4, <1>5 DEF Views
  <1>7. Shows(view', font, colors)
    BY <1>1, <1>2, <1>6 DEF Shows, FrozenTheme
  <1>8. Agrees(d, view')
    BY <1>1, <1>2, <1>6, ResolvedIsFont DEF Agrees
  <1>9. TypeOK' /\ DialogHasNote'
    BY <1>6, Constants DEF PropNotifyFont, Inv, TypeOK, DialogHasNote
  <1>10. ShowsItsStyle'
    BY <1>7, <1>8 DEF PropNotifyFont, ShowsItsStyle, Shows, Agrees
  <1>11. Kept'
    BY DEF PropNotifyFont, Kept
  <1> QED BY <1>9, <1>10, <1>11 DEF Inv

\* A note that gets the colours c, following the default if on says so.
LEMMA ColoursSet ==
    ASSUME Inv, view # None, NEW on \in BOOLEAN, NEW c \in Colours \cup {Theme},
           on => c = colors, ~on => c \in Colours,
           view' = SetColors([view EXCEPT !.followColor = on], c)
    PROVE  /\ view' \in Views /\ Shows(view', font, colors)
           /\ view'.followColor = on /\ view'.followFont = view.followFont
           /\ view'.font = view.font /\ (~on => view'.own = c)
  <1> DEFINE w == [view EXCEPT !.followColor = on]
  <1>1. view \in Views /\ Shows(view, font, colors)
    BY Parts
  <1>2. /\ w \in Views /\ w.followColor = on /\ w.followFont = view.followFont
        /\ w.font = view.font /\ w.blocks = view.blocks
    BY <1>1, FlagGives
  <1>3. view' = SetColors(w, c)
    OBVIOUS
  <1> HIDE DEF w
  <1>4. Shows(view', font, colors)
    BY <1>1, <1>2, <1>3, SetColorsShows, SMTT(30) DEF Shows
  <1>5. /\ view' \in Views /\ view'.followColor = on /\ view'.followFont = view.followFont
        /\ view'.font = view.font /\ view'.own = IF c = Theme THEN Default ELSE c
    BY <1>2, <1>3, SetColorsGives
  <1> QED BY <1>4, <1>5, Constants

LEMMA PropNotifyColorsKeeps ==
    ASSUME Inv, dialog # None, NEW d \in Dialogs, d.fontcheck = dialog.fontcheck,
           d.fontname = dialog.fontname, PropNotifyColors(d)
    PROVE  Inv'
  <1> DEFINE on == ~d.colorcheck
             c == IF d.colorcheck THEN d.col ELSE colors
  <1>1. /\ on \in BOOLEAN /\ c \in Colours \cup {Theme} /\ (on => c = colors)
        /\ (~on => c \in Colours /\ c = d.col)
    BY Parts DEF Dialogs
  <1>2. view' = SetColors([view EXCEPT !.followColor = on], c) /\ dialog' = d
    BY DEF PropNotifyColors
  <1>3. view # None /\ view \in Views /\ Agrees(dialog, view)
    BY Parts
  <1> HIDE DEF c
  <1>4. /\ view' \in Views /\ Shows(view', font, colors)
        /\ view'.followColor = on /\ view'.followFont = view.followFont
        /\ view'.font = view.font /\ (~on => view'.own = d.col)
    BY <1>1, <1>2, <1>3, ColoursSet
  <1>5. Agrees(d, view')
    BY <1>3, <1>4 DEF Agrees, Dialogs
  <1>6. TypeOK' /\ DialogHasNote'
    BY <1>4, Constants DEF PropNotifyColors, Inv, TypeOK, DialogHasNote
  <1>7. ShowsItsStyle'
    BY <1>4, <1>5 DEF PropNotifyColors, ShowsItsStyle, Shows, Agrees
  <1>8. Kept'
    BY DEF PropNotifyColors, Kept
  <1> QED BY <1>6, <1>7, <1>8 DEF Inv

LEMMA LayoutKeeps == ASSUME Inv, Layout PROVE Inv'
  <1>1. dialog # None /\ dialog \in Dialogs
    BY Parts DEF Layout
  <1>2. ASSUME PropNotifyFont([dialog EXCEPT !.fontcheck = ~@]) PROVE Inv'
    <2> DEFINE d == [dialog EXCEPT !.fontcheck = ~@]
    <2>1. d \in Dialogs /\ d.colorcheck = dialog.colorcheck /\ d.col = dialog.col
      BY <1>1 DEF Dialogs
    <2> HIDE DEF d
    <2> QED BY <1>1, <1>2, <2>1, PropNotifyFontKeeps DEF d
  <1>3. ASSUME NEW f \in Fonts, PropNotifyFont([dialog EXCEPT !.fontname = f]) PROVE Inv'
    <2> DEFINE d == [dialog EXCEPT !.fontname = f]
    <2>1. d \in Dialogs /\ d.colorcheck = dialog.colorcheck /\ d.col = dialog.col
      BY <1>1 DEF Dialogs
    <2> HIDE DEF d
    <2> QED BY <1>1, <1>3, <2>1, PropNotifyFontKeeps DEF d
  <1>4. ASSUME PropNotifyColors([dialog EXCEPT !.colorcheck = ~@]) PROVE Inv'
    <2> DEFINE d == [dialog EXCEPT !.colorcheck = ~@]
    <2>1. d \in Dialogs /\ d.fontcheck = dialog.fontcheck /\ d.fontname = dialog.fontname
      BY <1>1 DEF Dialogs
    <2> HIDE DEF d
    <2> QED BY <1>1, <1>4, <2>1, PropNotifyColorsKeeps DEF d
  <1>5. ASSUME NEW c \in Colours, PropNotifyColors([dialog EXCEPT !.col = c]) PROVE Inv'
    <2> DEFINE d == [dialog EXCEPT !.col = c]
    <2>1. d \in Dialogs /\ d.fontcheck = dialog.fontcheck /\ d.fontname = dialog.fontname
      BY <1>1 DEF Dialogs
    <2> HIDE DEF d
    <2> QED BY <1>1, <1>5, <2>1, PropNotifyColorsKeeps DEF d
  <1> QED BY <1>2, <1>3, <1>4, <1>5 DEF Layout

LEMMA SetBackColorKeeps == ASSUME Inv, NEW c \in Colours, SetBackColor(c) PROVE Inv'
  <1> DEFINE e == [dialog EXCEPT !.colorcheck = TRUE, !.col = c]
  <1>1. /\ view # None /\ view' = SetColors([view EXCEPT !.followColor = FALSE], c)
        /\ dialog' = IF dialog = None THEN None ELSE e
    BY DEF SetBackColor
  <1>2. /\ view' \in Views /\ Shows(view', font, colors)
        /\ view'.followColor = FALSE /\ view'.followFont = view.followFont
        /\ view'.font = view.font /\ view'.own = c
    BY <1>1, ColoursSet
  <1>3. dialog # None => /\ e \in Dialogs /\ e.fontcheck = dialog.fontcheck
                         /\ e.fontname = dialog.fontname /\ e.colorcheck = TRUE /\ e.col = c
    BY Parts DEF Dialogs
  <1> HIDE DEF e
  <1>4. dialog # None => Agrees(e, view')
    BY <1>2, <1>3, Parts DEF Agrees
  <1>5. TypeOK' /\ DialogHasNote'
    BY <1>1, <1>2, <1>3, Constants DEF SetBackColor, Inv, TypeOK, DialogHasNote
  <1>6. ShowsItsStyle'
    BY <1>1, <1>2, <1>4 DEF SetBackColor, ShowsItsStyle, Shows, Agrees
  <1>7. Kept'
    BY DEF SetBackColor, Kept
  <1> QED BY <1>5, <1>6, <1>7 DEF Inv

LEMMA SaveInfoKeeps == ASSUME Inv, SaveInfo PROVE Inv'
  <1>1. view \in Views /\ info' = Written(view)
    BY Parts DEF SaveInfo
  <1>2. Resolved(view.font) \in Fonts
    BY <1>1, ResolvedIsFont DEF Views
  <1>3. info' \in Infos /\ Matches(info', view)
    BY <1>1, <1>2 DEF Written, Views, Infos, Matches
  <1>4. TypeOK' /\ DialogHasNote' /\ ShowsItsStyle'
    BY <1>3 DEF SaveInfo, Inv, TypeOK, DialogHasNote, ShowsItsStyle
  <1>5. Kept'
    BY <1>3, Constants DEF SaveInfo, Kept, Matches
  <1> QED BY <1>4, <1>5 DEF Inv

LEMMA RestartKeeps == ASSUME Inv, Restart PROVE Inv'
  <1>1. CASE info = None
    BY <1>1 DEF Restart, Inv, TypeOK, DialogHasNote, ShowsItsStyle, Kept
  <1>2. CASE info # None
    <2>1. view' = LoadInfo(info) /\ info \in Infos
      BY <1>2, Parts DEF Restart
    <2>2. /\ view' \in Views /\ Shows(view', font, colors)
          /\ info.locked \/ Matches(info, view')
      BY <2>1, Parts, LoadInfoGives
    <2>3. TypeOK' /\ DialogHasNote'
      BY <2>2 DEF Restart, Inv, TypeOK, DialogHasNote
    <2>4. ShowsItsStyle'
      BY <2>2 DEF Restart, ShowsItsStyle, Shows
    <2>5. Kept'
      BY <1>2, <2>2 DEF Restart, Kept, Matches
    <2> QED BY <2>3, <2>4, <2>5 DEF Inv
  <1> QED BY <1>1, <1>2

LEMMA InvNext == Inv /\ [Next]_vars => Inv'
  <1> SUFFICES ASSUME Inv, [Next]_vars PROVE Inv'
    OBVIOUS
  <1>1. CASE NewPad
    BY <1>1, NewPadKeeps
  <1>2. CASE DeletePad
    BY <1>2 DEF DeletePad, Inv, TypeOK, DialogHasNote, ShowsItsStyle, Kept
  <1>3. CASE ChangeFontCheck
    BY <1>3, Parts, ResolvedIsFont, SetFontKeeps DEF ChangeFontCheck
  <1>4. CASE ChangeFontFace
    BY <1>4, SetFontKeeps DEF ChangeFontFace
  <1>5. CASE ChangeColorCheck
    <2>1. (IF colors = Theme THEN ThemeColour ELSE colors) \in Colours
      BY Parts, Constants
    <2> QED BY <1>5, <2>1, SetDefaultColorsKeeps DEF ChangeColorCheck
  <1>6. CASE ChangeColor
    BY <1>6, SetDefaultColorsKeeps DEF ChangeColor
  <1>7. CASE OpenProperties
    BY <1>7, OpenPropertiesKeeps
  <1>8. CASE CloseProperties
    BY <1>8 DEF CloseProperties, Inv, TypeOK, DialogHasNote, ShowsItsStyle, Kept
  <1>9. CASE Layout
    BY <1>9, LayoutKeeps
  <1>10. CASE \E c \in Colours : SetBackColor(c)
    BY <1>10, SetBackColorKeeps
  <1>11. CASE SaveInfo
    BY <1>11, SaveInfoKeeps
  <1>12. CASE Touch
    BY <1>12 DEF Touch, Inv, TypeOK, DialogHasNote, ShowsItsStyle, Kept
  <1>13. CASE Restart
    BY <1>13, RestartKeeps
  <1>14. CASE UNCHANGED vars
    BY <1>14 DEF vars, Inv, TypeOK, DialogHasNote, ShowsItsStyle, Kept, Matches
  <1> QED BY <1>1, <1>2, <1>3, <1>4, <1>5, <1>6, <1>7, <1>8, <1>9, <1>10, <1>11, <1>12, <1>13, <1>14
           DEF Next

LEMMA AlwaysInv == Spec => []Inv
  BY InvInit, InvNext, PTL DEF Spec

-----------------------------------------------------------------------------
\* The variables keep their types: for any fonts, colours and bound on the blocks.
THEOREM TypeCorrect == Spec => []TypeOK
  <1>1. Inv => TypeOK
    BY DEF Inv
  <1> QED BY <1>1, AlwaysInv, PTL

(***************************************************************************)
(* A note always shows the colours and the font it is set to, and an open  *)
(* Layout dialog always says what the note has (prop_notify_font,          *)
(* prop_notify_colors, xpad_pad_set_back_color).                           *)
(***************************************************************************)
THEOREM AlwaysShowsItsStyle == Spec => []ShowsItsStyle
  <1>1. Inv => ShowsItsStyle
    BY DEF Inv
  <1> QED BY <1>1, AlwaysInv, PTL

LEMMA LooksSurviveFromInv == Inv => LooksSurvive
  <1> SUFFICES ASSUME Inv, view # None, ~unsaved, ~info.locked, ~FrozenTheme(view)
               PROVE  Look(LoadInfo(info)) = Look(view)
    BY DEF Inv, Kept, LooksSurvive
  <1> DEFINE l == LoadInfo(info)
  <1>1. info \in Infos /\ Matches(info, view)
    BY Parts DEF Inv, Kept
  <1>2. /\ l \in Views /\ Shows(l, font, colors) /\ Matches(info, l)
        /\ ~info.followColor => l.shown = info.own
    BY <1>1, Parts, LoadInfoGives
  <1>3. view \in Views /\ Shows(view, font, colors)
    BY Parts
  <1> HIDE DEF l
  <1>4. l.followFont = view.followFont /\ l.followColor = view.followColor
    BY <1>1, <1>2 DEF Matches
  <1>5. ~view.followFont => Resolved(l.font) = Resolved(view.font)
    BY <1>1, <1>2, <1>4 DEF Matches
  <1>6. l.shown = view.shown
    <2>1. CASE view.followColor
      BY <1>2, <1>3, <1>4, <2>1 DEF Shows
    <2>2. CASE ~view.followColor
      BY <1>1, <1>2, <1>3, <2>2 DEF Shows, Matches
    <2> QED BY <2>1, <2>2
  <1>7. Look(l) = Look(view)
    BY <1>4, <1>5, <1>6 DEF Look
  <1> QED BY <1>7 DEF l

(***************************************************************************)
(* A note without unsaved changes looks after a restart as before it       *)
(* (xpad_pad_save_info, xpad_pad_load_info).                               *)
(***************************************************************************)
THEOREM LooksAlwaysSurvive == Spec => []LooksSurvive
  BY LooksSurviveFromInv, AlwaysInv, PTL
=============================================================================
