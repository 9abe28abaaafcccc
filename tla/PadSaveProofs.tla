--------------------------- MODULE PadSaveProofs ---------------------------
(***************************************************************************)
(* Proofs about PadSave: for any number of notes, slots and edits, no text *)
(* goes backwards, no deleted note comes back, a cleared flag means a      *)
(* saved text and a quit leaves everything on disk and backed up; then,    *)
(* about the timer's slots, that whatever is flagged while the timer is up *)
(* has a slot that will save it; and the types of all of the variables.    *)
(***************************************************************************)
EXTENDS PadSave, FiniteSetTheorems, SequenceTheorems, TLAPS

Kinds == {"content", "info"}
Ended == {"quit", "killed", "aborted"}

(* Which pads there are, and that flags are the open pads' only.            *)
Shape ==
    /\ phase \in {"up", "quitting"} \cup Ended
    /\ phase \in Ended => open = {} /\ gone = {}
    /\ open \subseteq Pads /\ gone \subseteq Pads /\ open \cap gone = {}
    /\ visible \subseteq open
    /\ unsaved \subseteq Kinds \X open
    /\ asking \subseteq open
    /\ DOMAIN info \subseteq Pads
    /\ buf \in [Pads -> Nat]
    /\ cname \in [Pads -> SUBSET Names]
    /\ \A n \in DOMAIN content : content[n] \in Nat
    /\ \A p \in DOMAIN info : info[p].content \subseteq Names

-----------------------------------------------------------------------------
(* Sets of naturals and sequences of pads.                                  *)

LEMMA Least ==
    ASSUME NEW T \in SUBSET Nat, T # {}
    PROVE  \E m \in T : \A k \in T : m <= k
  <1> DEFINE R == OpToRel(<, Nat)
  <1>1. IsWellFoundedOn(R, Nat)
    BY NatLessThanWellFounded
  <1>2. \A x, y \in Nat : x < y => <<x, y>> \in R
    BY DEF OpToRel
  <1> HIDE DEF R
  <1>3. PICK x \in T : \A y \in T : ~(<<y, x>> \in R)
    BY <1>1, WFMin, Zenon
  <1>4. \A y \in T : ~(y < x)
    BY <1>2, <1>3
  <1> QED
    BY <1>4

LEMMA FinitePads == ASSUME NEW S \in SUBSET Pads PROVE IsFiniteSet(S) /\ Cardinality(S) \in Nat
  BY PadsAssumption, FS_Subset, FS_CardinalityType

\* A walk over the pads of S is a sequence of them and meets each.
LEMMA OrderIsWalk ==
    ASSUME NEW S \in SUBSET Pads, NEW q \in Orders(S)
    PROVE  /\ q \in Seq(S) /\ Len(q) = Cardinality(S) /\ DOMAIN q = 1..Len(q)
           /\ Elements(q) = S
  <1> DEFINE n == Cardinality(S)
  <1>1. IsFiniteSet(S) /\ n \in Nat
    BY FinitePads
  <1>2. q \in [1..n -> S] /\ (\A i, j \in 1..n : q[i] = q[j] => i = j)
    BY DEF Orders
  <1>3. q \in Seq(S) /\ Len(q) = n /\ DOMAIN q = 1..Len(q)
    BY <1>1, <1>2
  <1>4. IsFiniteSet(1..n) /\ Cardinality(1..n) = n
    BY <1>1, FS_Interval
  <1>5. q \in Injection(1..n, S)
    BY <1>2 DEF Injection, IsInjective
  <1>6. q \in Surjection(1..n, S)
    BY <1>1, <1>4, <1>5, FS_Injection
  <1>7. \A p \in S : \E i \in 1..n : q[i] = p
    BY <1>6 DEF Surjection
  <1> QED
    BY <1>2, <1>3, <1>7 DEF Elements

LEMMA InfosFlag ==
    ASSUME NEW S, NEW q \in Seq(S)
    PROVE  /\ Elements(Infos(q)) = Flagged("info", Elements(q))
           /\ Elements(Infos(q)) \subseteq {"info"} \X S
  BY DEF Elements, Infos, Flagged

\* What a walk over the pads of q has recorded before it quits.
Recorded(q, resized) ==
    (IF resized THEN <<q[1]>> ELSE <<>>) \o SubSeq(q, 1, LastShown(q) - 1)

LEMMA RecordedIsShown ==
    ASSUME NEW S, NEW q \in Seq(S), q # <<>>, visible \subseteq Elements(q), NEW resized \in BOOLEAN
    PROVE  Elements(Infos(Recorded(q, resized))) \subseteq {"info"} \X S
  <1> DEFINE T == {i \in DOMAIN q : visible \subseteq {q[j] : j \in 1..i}}
             k == LastShown(q)
  <1>1. Len(q) \in Nat \ {0} /\ DOMAIN q = 1..Len(q) /\ (\A i \in 1..Len(q) : q[i] \in S)
    BY EmptySeq, LenProperties, ElementOfSeq
  <1>2. Len(q) \in T /\ T \subseteq Nat
    BY <1>1 DEF Elements
  <1>3. PICK m \in T : \A i \in T : m <= i
    BY <1>2, Least
  <1>4. \A i \in 1..(m - 1) : ~(visible \subseteq {q[j] : j \in 1..i})
    <2> SUFFICES ASSUME NEW i \in 1..(m - 1), i \in T PROVE FALSE
      BY <1>1, <1>3
    <2> QED BY <1>1, <1>3
  <1>5. k \in DOMAIN q
    BY <1>3, <1>4 DEF LastShown
  <1>6. SubSeq(q, 1, k - 1) \in Seq(S)
    <2> HIDE DEF k
    <2>1. k - 1 \in Int /\ (\A i \in 1..(k - 1) : q[i] \in S)
      BY <1>1, <1>5
    <2> QED BY <2>1, SubSeqProperties
  <1>7. (IF resized THEN <<q[1]>> ELSE <<>>) \in Seq(S)
    BY <1>1
  <1>8. Recorded(q, resized) \in Seq(S)
    BY <1>6, <1>7, ConcatProperties DEF Recorded
  <1> QED BY <1>8, InfosFlag

-----------------------------------------------------------------------------
(* What the handlers are made of.                                           *)

\* Flags are set, of open pads.
LEMMA DelayedFlags == ASSUME NEW q, Delayed(q) PROVE unsaved' = unsaved \cup Elements(q)
  BY DEF Delayed

LEMMA OneFlag == ASSUME NEW e PROVE Elements(<<e>>) = {e}
  BY DEF Elements

LEMMA TwoFlags == ASSUME NEW e, NEW f PROVE Elements(<<e, f>>) = {e, f}
  BY DEF Elements

LEMMA ShowAllFlags ==
    ASSUME Shape, ShowAll
    PROVE  unsaved' = unsaved \cup Flagged("info", open \ visible) /\ visible' = open
  <1>1. PICK q \in Orders(open \ visible) : Delayed(Infos(q)) /\ visible' = open
    BY DEF ShowAll
  <1>2. q \in Seq(open \ visible) /\ Elements(q) = open \ visible
    BY <1>1, OrderIsWalk DEF Shape
  <1> QED BY <1>1, <1>2, InfosFlag, DelayedFlags

\* A close flags what it closes, or quits having recorded some of it.
LEMMA CloseFlags ==
    ASSUME Shape, NEW q \in Seq(open), q # <<>>, NEW resized \in BOOLEAN, Close(q, resized)
    PROVE  \/ /\ visible' = visible \ Elements(q)
              /\ unsaved' = unsaved \cup Flagged("info", Elements(q))
              /\ UNCHANGED <<phase, open, gone, buf, iname, cname, clf, asking, flush,
                             armed, disk, failed, stale>>
           \/ \E R \in SUBSET ({"info"} \X open) : QuitWith({}, R)
  <1> DEFINE R == Elements(Infos(Recorded(q, resized)))
  <1>1. CASE visible' = visible \ Elements(q) /\ Delayed(Infos(q))
             /\ UNCHANGED <<phase, open, gone, buf, iname, cname, clf, asking, flush,
                            armed, disk, failed, stale>>
    BY <1>1, InfosFlag, DelayedFlags
  <1>2. CASE visible \subseteq Elements(q) /\ QuitWith({}, R)
    BY <1>2, RecordedIsShown
  <1> QED BY <1>1, <1>2 DEF Close, Recorded

LEMMA ClosePadFlags ==
    ASSUME Shape, NEW p \in Pads, ClosePad(p)
    PROVE  \E q \in Seq(open), resized \in BOOLEAN : q # <<>> /\ Close(q, resized)
  <1>1. p \in open /\ <<p>> \in Seq(open) /\ <<p>> # <<>>
    BY DEF ClosePad, AtPad
  <1> QED BY <1>1 DEF ClosePad

LEMMA ClosePadsFlags ==
    ASSUME Shape, ClosePads
    PROVE  \E q \in Seq(open) : q # <<>> /\ Close(q, FALSE)
  BY OrderIsWalk DEF ClosePads, Shape

-----------------------------------------------------------------------------
(* Every step is one of these, as far as pads, flags and files go.          *)

\* The files and what the pads know of them stay as they are.
DiskKept == UNCHANGED <<iname, cname, info, content>>

Typed(p) ==
    /\ DiskKept /\ UNCHANGED <<phase, open, gone, visible, clf, asking>>
    /\ p \in open \cap visible /\ buf[p] < MaxEdits
    /\ buf' = [buf EXCEPT ![p] = @ + 1]
    /\ unsaved' = unsaved \cup {<<"content", p>>}

Added(p, fromFile) ==
    /\ DiskKept /\ UNCHANGED <<phase, gone, clf, asking>>
    /\ phase = "up" /\ p \notin open \cup gone \cup DOMAIN info /\ (fromFile => MaxEdits > 0)
    /\ open' = open \cup {p} /\ visible' = visible \cup {p}
    /\ buf' = [buf EXCEPT ![p] = IF fromFile THEN 1 ELSE 0]
    /\ unsaved' = unsaved \cup ({"info"} \X {p}) \cup (IF fromFile THEN {"content"} \X {p} ELSE {})

\* Windows come and go, flags are set, questions asked, a quit begins.
Marked ==
    /\ DiskKept /\ UNCHANGED <<open, gone, buf, clf>>
    /\ phase' = phase \/ (phase = "up" /\ phase' = "quitting")
    /\ visible' \subseteq open /\ asking' \subseteq open
    /\ \E R \in SUBSET ({"info"} \X open) : unsaved' = unsaved \cup R
    /\ {"info"} \X (visible' \ visible) \subseteq unsaved'

Saved(e) == Save(e) /\ UNCHANGED <<phase, open, gone, visible, buf, clf, asking>>

\* The process is gone, and its disk is as one of its steps left it.
Left ==
    /\ Forget /\ phase' \in Ended
    /\ \/ info' = info /\ content' = Named(info, content)
       \/ \E p \in open : info' = Without(info, {p} \cap iname) /\ content' = Named(info', content)
       \/ \E e \in unsaved : KilledMidSave(e)

Step ==
    \/ \E p \in Pads : Typed(p) \/ (\E f \in BOOLEAN : Added(p, f)) \/ ReloadRead(p) \/ ReloadFails(p)
    \/ Marked
    \/ \E e \in Entries \cup {slots[i] : i \in 1..NSlots} : Saved(e)
    \/ \E p \in open : Delete(p)
    \/ Left
    \/ Start

LEMMA QuitMarks == ASSUME Shape, phase = "up", NEW V \in {{}, visible}, NEW R \in SUBSET ({"info"} \X open),
                          QuitWith(V, R)
                   PROVE  Marked
  BY DEF QuitWith, Marked, DiskKept, Shape, disk

LEMMA CloseMarks ==
    ASSUME Shape, phase = "up", NEW q \in Seq(open), q # <<>>, NEW resized \in BOOLEAN, Close(q, resized)
    PROVE  Marked
  <1>1. ASSUME visible' = visible \ Elements(q), unsaved' = unsaved \cup Flagged("info", Elements(q)),
               UNCHANGED <<phase, open, gone, buf, iname, cname, clf, asking, flush,
                           armed, disk, failed, stale>>
        PROVE  Marked
    <2>1. Flagged("info", Elements(q)) \in SUBSET ({"info"} \X open)
      BY InfosFlag
    <2>2. visible' \subseteq visible
      BY <1>1
    <2>3. \E R \in SUBSET ({"info"} \X open) : unsaved' = unsaved \cup R
      BY <1>1, <2>1
    <2> QED BY <1>1, <2>2, <2>3 DEF Marked, DiskKept, Shape, disk
  <1>2. ASSUME NEW R \in SUBSET ({"info"} \X open), QuitWith({}, R) PROVE Marked
    BY <1>2, QuitMarks
  <1> QED BY <1>1, <1>2, CloseFlags

LEMMA ShowAllMarks ==
    ASSUME Shape, ShowAll, UNCHANGED <<phase, open, gone, buf, iname, cname, clf, asking, disk>>
    PROVE  Marked
  <1>1. unsaved' = unsaved \cup Flagged("info", open \ visible) /\ visible' = open
    BY ShowAllFlags
  <1>2. Flagged("info", open \ visible) = {"info"} \X (open \ visible)
    BY DEF Flagged
  <1>3. \E R \in SUBSET ({"info"} \X open) : unsaved' = unsaved \cup R
    <2>1. {"info"} \X (open \ visible) \in SUBSET ({"info"} \X open)
      OBVIOUS
    <2> QED BY <1>1, <1>2, <2>1
  <1> QED BY <1>1, <1>2, <1>3 DEF Marked, DiskKept, Shape, disk

LEMMA LowestIn == ASSUME NEW T \in SUBSET (1..NSlots), T # {}
                  PROVE  Lowest(T) \in T /\ \A j \in T : Lowest(T) <= j
  <1>1. \E i \in T : \A j \in T : i <= j
    BY Least, SlotsAssumption
  <1> QED BY <1>1 DEF Lowest

LEMMA PadSteps == ASSUME Shape, NEW p \in Pads, Pad(p) PROVE Step
  <1> USE DEF Shape, disk, timer, memory
  <1>1. CASE TextChanged(p)
    <2>1. Typed(p)
      BY <1>1, DelayedFlags, OneFlag DEF TextChanged, Typed, AtPad, DiskKept
    <2> QED BY <2>1 DEF Step
  <1>2. CASE InfoChanged(p)
    <2>1. unsaved' = unsaved \cup {<<"info", p>>} /\ p \in open
      BY <1>2, DelayedFlags, OneFlag DEF InfoChanged, AtPad
    <2>2. \E R \in SUBSET ({"info"} \X open) : unsaved' = unsaved \cup R
      <3>1. {<<"info", p>>} \in SUBSET ({"info"} \X open)
        BY <2>1
      <3> QED BY <2>1, <3>1
    <2>3. Marked
      BY <1>2, <2>1, <2>2 DEF InfoChanged, Marked, DiskKept
    <2> QED BY <2>3 DEF Step
  <1>3. CASE ShowPad(p)
    <2>1. unsaved' = unsaved \cup {<<"info", p>>} /\ p \in open
      BY <1>3, DelayedFlags, OneFlag DEF ShowPad
    <2>2. \E R \in SUBSET ({"info"} \X open) : unsaved' = unsaved \cup R
      <3>1. {<<"info", p>>} \in SUBSET ({"info"} \X open)
        BY <2>1
      <3> QED BY <2>1, <3>1
    <2>3. Marked
      BY <1>3, <2>1, <2>2 DEF ShowPad, Marked, DiskKept
    <2> QED BY <2>3 DEF Step
  <1>4. CASE ClosePad(p)
    <2>1. PICK q \in Seq(open), resized \in BOOLEAN : q # <<>> /\ Close(q, resized)
      BY <1>4, ClosePadFlags
    <2>2. phase = "up"
      BY <1>4 DEF ClosePad, AtPad
    <2>3. Marked
      BY <2>1, <2>2, CloseMarks
    <2> QED BY <2>3 DEF Step
  <1>5. ASSUME NEW f \in BOOLEAN, NewPad(p, f) PROVE Step
    <2>1. unsaved' = unsaved \cup Elements(IF f THEN <<<<"info", p>>, <<"content", p>>>> ELSE <<<<"info", p>>>>)
      BY <1>5, DelayedFlags DEF NewPad
    <2>2. unsaved' = unsaved \cup ({"info"} \X {p}) \cup (IF f THEN {"content"} \X {p} ELSE {})
      BY <2>1, OneFlag, TwoFlags
    <2>3. Added(p, f)
      BY <1>5, <2>2 DEF NewPad, Looping, Added, DiskKept
    <2> QED BY <2>3 DEF Step
  <1>6. CASE ReloadRead(p) \/ ReloadFails(p)
    BY <1>6 DEF Step
  <1>7. CASE DeleteAtOnce(p) \/ ConfirmDelete(p)
    BY <1>7 DEF Step, DeleteAtOnce, ConfirmDelete, AtPad
  <1>8. CASE AskDelete(p)
    <2>1. Marked
      BY <1>8 DEF AskDelete, AtPad, Marked, DiskKept
    <2> QED BY <2>1 DEF Step
  <1>9. CASE KilledMidDelete(p)
    <2>1. p \in open
      BY <1>9 DEF KilledMidDelete, AtPad
    <2>2. Left
      BY <1>9, <2>1 DEF KilledMidDelete, Left, Die, Ended
    <2> QED BY <2>2 DEF Step
  <1> QED BY <1>1, <1>2, <1>3, <1>4, <1>5, <1>6, <1>7, <1>8, <1>9 DEF Pad

LEMMA Steps == ASSUME Shape, [Next]_vars PROVE Step
  <1> USE DEF disk, timer, memory
  <1>1. ASSUME NEW p \in Pads, Pad(p) PROVE Step
    BY <1>1, PadSteps
  <1>2. CASE Start
    BY <1>2 DEF Step
  <1>3. CASE FirstIdle
    <2>0. phase = "up"
      BY <1>3 DEF FirstIdle, Looping
    <2>1. CASE visible # {}
      BY <1>3, <2>0, <2>1 DEF FirstIdle, Step, Marked, DiskKept, Shape
    <2>2. CASE ShowAll /\ UNCHANGED <<phase, open, gone, buf, iname, cname, clf, cursor, dialog, asking,
                                      flush, armed, disk, failed, stale>>
      BY <2>0, <2>2, ShowAllMarks DEF Step
    <2>3. CASE QuitWith(visible, {})
      BY <2>0, <2>3, QuitMarks DEF Step
    <2> QED BY <1>3, <2>1, <2>2, <2>3 DEF FirstIdle
  <1>4. CASE Kill \/ SlotsFull
    BY <1>4 DEF Kill, SlotsFull, Die, Step, Left, Ended
  <1>5. CASE Fire
    <2>1. Claimed \subseteq 1..NSlots /\ Claimed # {}
      BY <1>5 DEF Fire, Claimed
    <2>2. NextSlot \in 1..NSlots
      BY <2>1, LowestIn DEF NextSlot
    <2> QED BY <1>5, <2>2 DEF Fire, Saved, Step
  <1>6. CASE KilledInTick \/ \E e \in Entries : KilledInFlush(e)
    <2>1. PICK e : KilledMidSave(e)
      BY <1>6 DEF KilledInTick, KilledInFlush
    <2>2. e \in unsaved
      BY <2>1 DEF KilledMidSave, Skipped
    <2> QED BY <2>1, <2>2 DEF KilledMidSave, Die, Step, Left, Ended
  <1>7. CASE \E e \in Entries : Flush(e)
    BY <1>7 DEF Flush, Saved, Step
  <1>8. CASE Quit
    BY <1>8 DEF Quit, Step, Left, Ended
  <1>9. CASE ShowPads
    BY <1>9, ShowAllMarks DEF ShowPads, Looping, Step
  <1>10. CASE ClosePads
    BY <1>10, ClosePadsFlags, CloseMarks DEF ClosePads, Looping, Step
  <1>11. CASE QuitRequested
    BY <1>11, QuitMarks DEF QuitRequested, Looping, Step
  <1>12. CASE Dismiss \/ DismissInFlush \/ CancelDelete \/ BackupTimeout
    BY <1>12 DEF Dismiss, DismissInFlush, CancelDelete, BackupTimeout, Step, Marked, DiskKept, Shape
  <1>13. CASE UNCHANGED vars
    BY <1>13 DEF vars, Step, Marked, DiskKept, Shape
  <1> QED BY <1>1, <1>2, <1>3, <1>4, <1>5, <1>6, <1>7, <1>8, <1>9, <1>10, <1>11, <1>12, <1>13 DEF Next

-----------------------------------------------------------------------------
(* The directory.                                                           *)

LEMMA PutIs ==
    ASSUME NEW f, NEW x, NEW v
    PROVE  /\ DOMAIN Put(f, x, v) = DOMAIN f \cup {x}
           /\ Put(f, x, v)[x] = v
           /\ \A y \in DOMAIN f : y # x => Put(f, x, v)[y] = f[y]
  BY DEF Put

LEMMA PutNat ==
    ASSUME NEW f, NEW x, NEW v \in Nat, \A y \in DOMAIN f : f[y] \in Nat
    PROVE  \A y \in DOMAIN Put(f, x, v) : Put(f, x, v)[y] \in Nat
  BY DEF Put

LEMMA WithoutIs ==
    ASSUME NEW f, NEW S
    PROVE  /\ DOMAIN Without(f, S) = DOMAIN f \ S
           /\ \A y \in DOMAIN f \ S : Without(f, S)[y] = f[y]
  BY DEF Without

One(S) == \A m, n \in S : m = n

\* The text in the content file named, if there is one.
TextIn(c, con) == IF c \cap DOMAIN con = {} THEN 0 ELSE con[CHOOSE n \in c : TRUE]

LEMMA TextIs ==
    ASSUME NEW c, One(c), NEW n \in c, NEW con
    PROVE  TextIn(c, con) = IF n \in DOMAIN con THEN con[n] ELSE 0
  <1>1. c = {n}
    BY DEF One
  <1>2. (CHOOSE m \in {n} : TRUE) = n
    OBVIOUS
  <1> QED BY <1>1, <1>2 DEF TextIn

LEMMA NoText == ASSUME NEW con PROVE TextIn({}, con) = 0
  BY DEF TextIn

LEMMA TextIsNat ==
    ASSUME NEW c, One(c), NEW con, \A n \in DOMAIN con : con[n] \in Nat
    PROVE  TextIn(c, con) \in Nat
  BY TextIs, NoText

LEMMA StoredIs == ASSUME NEW p PROVE Stored(p) = TextIn(cname[p], content)
  BY DEF Stored, TextIn

LEMMA RestoredIs ==
    ASSUME NEW p
    PROVE  Restored(p) = IF p \in DOMAIN info THEN TextIn(info[p].content, content) ELSE 0
  <1>1. CASE p \in DOMAIN info
    BY <1>1 DEF Restored, TextIn
  <1>2. CASE p \notin DOMAIN info
    BY <1>2 DEF Restored
  <1> QED BY <1>1, <1>2

(* No two notes have a content file in common, nor does a pad have that of *)
(* another's info file.                                                     *)
FilesApart ==
    /\ \A p \in Pads : One(cname[p]) /\ (p \notin open \cup gone => cname[p] = {})
    /\ \A p \in DOMAIN info : One(info[p].content)
    /\ \A p, q \in DOMAIN info : p # q => info[p].content \cap info[q].content = {}
    /\ \A p \in open, q \in DOMAIN info : p # q => cname[p] \cap info[q].content = {}
    /\ \A p, q \in open : p # q => cname[p] \cap cname[q] = {}

\* A content file's name that is p's own, or nobody's.
OwnName(p, n) ==
    /\ \A q \in open : q # p => n \notin cname[q]
    /\ \A q \in DOMAIN info : q # p => n \notin info[q].content
    /\ \/ cname[p] = {n}
       \/ cname[p] = {} /\ n \notin DOMAIN content /\ \A q \in DOMAIN info : n \notin info[q].content

LEMMA NameIsOwn ==
    ASSUME Shape, FilesApart, NEW p \in open, NEW c \in NameFor(p)
    PROVE  \E n \in Names : c = {n} /\ OwnName(p, n)
  <1>0. p \in Pads
    BY DEF Shape
  <1>1. CASE cname[p] = {}
    <2>1. PICK n \in Fresh : c = {n}
      BY <1>1 DEF NameFor
    <2>2. /\ n \in Names /\ n \notin DOMAIN content
          /\ \A q \in DOMAIN info : n \notin info[q].content
          /\ \A q \in open : n \notin cname[q]
      BY <2>1 DEF Fresh
    <2> QED BY <1>1, <2>1, <2>2 DEF OwnName
  <1>2. CASE cname[p] # {}
    <2>1. c = cname[p]
      BY <1>2 DEF NameFor
    <2>2. PICK n \in Names : n \in cname[p]
      BY <1>0, <1>2 DEF Shape
    <2>3. cname[p] = {n}
      BY <1>0, <2>2 DEF FilesApart, One
    <2> QED BY <2>1, <2>2, <2>3 DEF OwnName, FilesApart
  <1> QED BY <1>1, <1>2

LEMMA FlagsOfOpen ==
    ASSUME Shape, NEW e \in unsaved
    PROVE  e[2] \in open /\ e[2] \in Pads /\ e[1] \in Kinds /\ e = <<e[1], e[2]>>
  BY DEF Shape, Kinds

\* What a save that is not skipped does: nothing, or it writes under p's own name.
Kept(e) == UNCHANGED <<unsaved, iname, cname, info, content>>

Nameless(e) ==
    LET p == e[2] IN
    /\ UNCHANGED <<unsaved, cname, content>> /\ e \in unsaved
    /\ \/ UNCHANGED <<iname, info>>
       \/ e[1] = "info" /\ iname' = iname \cup {p} /\ info' = (IF p \in iname THEN info ELSE Put(info, p, Blank))

Written(e, n, ok) ==
    LET p == e[2] IN
    /\ e \in unsaved /\ OwnName(p, n) /\ n \in Names
    /\ cname' = [cname EXCEPT ![p] = {n}]
    /\ unsaved' = (IF ok THEN unsaved \ {e} ELSE unsaved)
    /\ \/ /\ e[1] = "content" /\ p \notin clf /\ ok /\ content' = Put(content, n, buf[p])
          /\ UNCHANGED <<iname, info>>
       \/ /\ e[1] = "content" /\ ~ok
          /\ content' = (IF cname[p] = {} THEN Put(content, n, 0) ELSE content)
          /\ UNCHANGED <<iname, info>>
       \/ /\ e[1] = "info" /\ iname' = iname \cup {p}
          /\ content' = (IF cname[p] = {} THEN Put(content, n, 0) ELSE content)
          /\ info' = IF ok THEN Put(info, p, [content |-> {n}, hidden |-> p \notin visible])
                     ELSE IF p \in iname THEN info ELSE Put(info, p, Blank)

LEMMA TouchedIs ==
    ASSUME NEW p, NEW n
    PROVE  Touched(p, {n}) = (IF cname[p] = {} THEN Put(content, n, 0) ELSE content)
  <1>1. (CHOOSE m \in {n} : TRUE) = n
    OBVIOUS
  <1> QED BY <1>1 DEF Touched

LEMMA SaveCases ==
    ASSUME Shape, FilesApart, NEW e, Save(e)
    PROVE  \/ Kept(e)
           \/ Nameless(e)
           \/ \E n \in Names, ok \in BOOLEAN : Written(e, n, ok)
  <1>1. CASE SaveSkipped(e)
    BY <1>1 DEF SaveSkipped, Kept, disk
  <1>2. CASE SaveNameless(e)
    BY <1>2 DEF SaveNameless, Nameless, Skipped
  <1>3. ASSUME NEW ok \in BOOLEAN, SaveWritten(e, ok) PROVE \E n \in Names : Written(e, n, ok)
    <2> DEFINE p == e[2]
    <2>0. e \in unsaved /\ p \in open /\ (e[1] = "content" => p \notin clf)
      BY <1>3, FlagsOfOpen DEF SaveWritten, Skipped
    <2>1. PICK c \in NameFor(p) :
             /\ cname' = [cname EXCEPT ![p] = c]
             /\ \/ e[1] = "content" /\ WriteContent(p, c, ok)
                \/ e[1] = "info" /\ WriteInfo(p, c, ok)
      BY <1>3 DEF SaveWritten
    <2>2. PICK n \in Names : c = {n} /\ OwnName(p, n)
      BY <2>0, NameIsOwn
    <2>3. (CHOOSE m \in {n} : TRUE) = n
      OBVIOUS
    <2>4. unsaved' = (IF ok THEN unsaved \ {e} ELSE unsaved)
      BY <1>3 DEF SaveWritten, FlagsAfter
    <2>5. Written(e, n, ok)
      BY <2>0, <2>1, <2>2, <2>3, <2>4, TouchedIs DEF Written, WriteContent, WriteInfo
    <2> QED BY <2>5
  <1> QED BY <1>1, <1>2, <1>3 DEF Save

-----------------------------------------------------------------------------
(* Shape and FilesApart are kept by every step.                             *)

Files == Shape /\ FilesApart

LEMMA FilesInit == Init => Files
  BY DEF Init, Files, Shape, FilesApart, Ended, One

\* The info files after a step, as far as they are apart: those before, one of
\* them gone or blank.
LEMMA ApartSame ==
    ASSUME FilesApart, UNCHANGED <<open, gone, cname, info>>
    PROVE  FilesApart'
  BY DEF FilesApart

LEMMA ApartWritten ==
    ASSUME Files, NEW e, NEW n \in Names, NEW ok \in BOOLEAN, Written(e, n, ok), UNCHANGED <<open, gone>>
    PROVE  FilesApart'
  <1> DEFINE p == e[2]
  <1>0. p \in open /\ p \in Pads
    BY FlagsOfOpen DEF Written, Files
  <1>1. cname'[p] = {n} /\ (\A q \in Pads \ {p} : cname'[q] = cname[q]) /\ open \subseteq Pads
    BY <1>0 DEF Written, Files, Shape
  <1>2. \A q \in Pads : One(cname'[q]) /\ (q \notin open' \cup gone' => cname'[q] = {})
    BY <1>0, <1>1 DEF Files, FilesApart, One
  <1>3. \A q \in DOMAIN info' : \/ q \in DOMAIN info /\ info'[q].content = info[q].content
                                \/ q = p /\ info'[q].content \in {{}, {n}}
    BY DEF Written, Blank, Put
  <1>4. OwnName(p, n)
    BY DEF Written
  <1>5. \A q \in DOMAIN info' : One(info'[q].content)
    BY <1>3 DEF Files, FilesApart, One
  <1>6. \A q, r \in DOMAIN info' : q # r => info'[q].content \cap info'[r].content = {}
    BY <1>3, <1>4 DEF Files, FilesApart, OwnName
  <1>7. \A q \in open', r \in DOMAIN info' : q # r => cname'[q] \cap info'[r].content = {}
    BY <1>0, <1>1, <1>3, <1>4 DEF Files, FilesApart, OwnName, Written
  <1>8. \A q, r \in open' : q # r => cname'[q] \cap cname'[r] = {}
    BY <1>0, <1>1, <1>4 DEF Files, FilesApart, OwnName, Written
  <1> QED BY <1>2, <1>5, <1>6, <1>7, <1>8 DEF FilesApart

\* The pads know their own names or none, and an info file went or was emptied.
LEMMA ApartFewer ==
    ASSUME FilesApart, open' \subseteq open, \A p \in Pads : p \notin open' \cup gone' => cname'[p] = {},
           \A p \in Pads : cname'[p] = cname[p] \/ cname'[p] = {},
           open \subseteq Pads,
           \A p \in DOMAIN info' : \/ p \in DOMAIN info /\ info'[p].content = info[p].content
                                   \/ info'[p].content = {}
    PROVE  FilesApart'
  <1>1. \A p \in Pads : One(cname'[p])
    BY DEF FilesApart, One
  <1>2. \A p \in DOMAIN info' : One(info'[p].content)
    BY DEF FilesApart, One
  <1>3. \A p, q \in DOMAIN info' : p # q => info'[p].content \cap info'[q].content = {}
    BY DEF FilesApart
  <1>4. \A p \in open', q \in DOMAIN info' : p # q => cname'[p] \cap info'[q].content = {}
    BY DEF FilesApart
  <1>5. \A p, q \in open' : p # q => cname'[p] \cap cname'[q] = {}
    BY DEF FilesApart
  <1> QED BY <1>1, <1>2, <1>3, <1>4, <1>5 DEF FilesApart

LEMMA ApartSaved ==
    ASSUME Files, NEW e, Saved(e)
    PROVE  FilesApart'
  <1>0. UNCHANGED <<open, gone>>
    BY DEF Saved
  <1>1. CASE Kept(e)
    BY <1>0, <1>1, ApartSame DEF Kept, Files
  <1>2. CASE Nameless(e)
    <2>1. \A q \in DOMAIN info' : \/ q \in DOMAIN info /\ info'[q].content = info[q].content
                                  \/ info'[q].content = {}
      BY <1>2 DEF Nameless, Blank, Put
    <2>2. cname' = cname
      BY <1>2 DEF Nameless
    <2> QED BY <1>0, <2>1, <2>2, ApartFewer DEF Files, FilesApart, Shape
  <1>3. CASE \E n \in Names, ok \in BOOLEAN : Written(e, n, ok)
    BY <1>0, <1>3, ApartWritten
  <1> QED BY <1>1, <1>2, <1>3, SaveCases DEF Files, Saved

\* What the process that ends leaves of the info files.
LEMMA LeftInfos ==
    ASSUME Files, Left
    PROVE  /\ DOMAIN info' \subseteq Pads
           /\ \A p \in DOMAIN info' : \/ p \in DOMAIN info /\ info'[p] = info[p]
                                      \/ info'[p] = Blank
  <1>2. ASSUME NEW p \in open, info' = Without(info, {p} \cap iname)
        PROVE  /\ DOMAIN info' \subseteq DOMAIN info
               /\ \A q \in DOMAIN info' : info'[q] = info[q]
    BY <1>2 DEF Without
  <1>3. ASSUME NEW e \in unsaved, KilledMidSave(e)
        PROVE  info' = info \/ (e[2] \in Pads /\ info' = Put(info, e[2], Blank))
    BY <1>3, FlagsOfOpen DEF KilledMidSave, Files
  <1>4. ASSUME NEW p \in Pads, info' = Put(info, p, Blank)
        PROVE  /\ DOMAIN info' \subseteq DOMAIN info \cup {p}
               /\ \A q \in DOMAIN info' : (q \in DOMAIN info /\ info'[q] = info[q]) \/ info'[q] = Blank
    BY <1>4 DEF Put
  <1>6. \/ info' = info
        \/ \E p \in open : info' = Without(info, {p} \cap iname)
        \/ \E p \in Pads : info' = Put(info, p, Blank)
    BY <1>3 DEF Left
  <1>7. DOMAIN info \subseteq Pads
    BY DEF Files, Shape
  <1>8. CASE info' = info
    BY <1>7, <1>8
  <1>9. CASE \E p \in open : info' = Without(info, {p} \cap iname)
    BY <1>2, <1>7, <1>9
  <1>10. CASE \E p \in Pads : info' = Put(info, p, Blank)
    BY <1>4, <1>7, <1>10
  <1> QED BY <1>6, <1>8, <1>9, <1>10

LEMMA ApartLeft == ASSUME Files, Left PROVE FilesApart'
  <1>1. open' = {} /\ \A p \in Pads : cname'[p] = {}
    BY DEF Left, Forget
  <1>2. Blank.content = {}
    BY DEF Blank
  <1> QED BY <1>1, <1>2, LeftInfos, ApartFewer DEF Files, Shape

LEMMA ApartDelete == ASSUME Files, NEW p \in open, Delete(p) PROVE FilesApart'
  <1>1. open' = open \ {p} /\ gone' = gone \cup {p} /\ cname' = cname
    BY DEF Delete
  <1>2. info' = info \/ info' = Without(info, {p} \cap iname)
    BY DEF Delete
  <1>3. \A q \in DOMAIN info' : q \in DOMAIN info /\ info'[q] = info[q]
    BY <1>2 DEF Without
  <1>4. \A q \in Pads : q \notin open' \cup gone' => cname'[q] = {}
    BY <1>1 DEF Files, FilesApart
  <1> QED BY <1>1, <1>3, <1>4, ApartFewer DEF Files, Shape

\* What a start does, once it is known how it is shown and what could be read.
StartWith(mode, badInfo, badContent, extra, fromFile, shown) ==
    LET loaded == DOMAIN info
        named == {p \in loaded \ badInfo : info[p].content # {}}
        wantsShow == {p \in loaded : p \in badInfo \/ ~info[p].hidden}
        nowShown == CASE mode = "show" -> loaded
                      [] mode = "hide" -> {}
                      [] OTHER -> wantsShow
        unreadable == {p \in named \cap badContent : info[p].content \subseteq DOMAIN content}
        typed == IF fromFile THEN extra ELSE {}
    IN  /\ badContent \subseteq named
        /\ Cardinality(extra) <= 1
        /\ fromFile => shown /\ MaxEdits > 0
        /\ ~shown => loaded = {} /\ mode # "show"
        /\ open' = loaded \cup extra
        /\ visible' = nowShown \cup (IF shown THEN extra ELSE {})
        /\ iname' = loaded
        /\ cname' = [p \in Pads |-> IF p \in named THEN info[p].content ELSE {}]
        /\ buf' = [p \in Pads |-> IF p \in typed THEN 1
                                  ELSE IF p \in named THEN LoadedText(p, unreadable) ELSE 0]
        /\ clf' = unreadable
        /\ unsaved' = Flagged("info", nowShown \cup wantsShow \cup extra)
                      \cup Flagged("content", typed)
        /\ early' = unsaved'
        /\ idle' = IF HasTray THEN "done" ELSE IF loaded # {} THEN "loaded" ELSE "empty"

LEMMA StartIsWith ==
    ASSUME Start
    PROVE  \E mode \in {"show", "hide", "restore"},
              badInfo \in MayBeUnreadable("info"), badContent \in MayBeUnreadable("content"),
              extra \in SUBSET (Pads \ DOMAIN info), fromFile, shown \in BOOLEAN :
                 StartWith(mode, badInfo, badContent, extra, fromFile, shown)
  BY Zenon DEF Start, StartWith

LEMMA StartGives ==
    ASSUME Files, Start
    PROVE  /\ phase' = "up" /\ gone' = {} /\ asking' = {} /\ UNCHANGED <<info, content, failed, stale, armed>>
           /\ open' \subseteq Pads /\ visible' \subseteq open'
           /\ DOMAIN info \subseteq open' /\ iname' = DOMAIN info
           /\ unsaved' \subseteq Kinds \X open'
           /\ buf' \in [Pads -> Nat] /\ cname' \in [Pads -> SUBSET Names] /\ clf' \subseteq Pads
           /\ \A p \in Pads : buf'[p] \in {0, Restored(p)} \/ (buf'[p] = 1 /\ MaxEdits > 0)
           /\ \A p \in Pads : cname'[p] = {} \/ (p \in DOMAIN info /\ cname'[p] = info[p].content)
           /\ "info" \notin ReadFaults => \A p \in DOMAIN info : cname'[p] = info[p].content
           /\ \A p \in open' \ clf' :
                IF <<"content", p>> \in unsaved' THEN cname'[p] = {}
                ELSE buf'[p] = TextIn(cname'[p], content)
           /\ \A p \in open' : <<"info", p>> \notin unsaved' =>
                /\ p \in DOMAIN info /\ cname'[p] = info[p].content
                /\ p \notin visible' /\ <<"content", p>> \notin unsaved'
  <1>0. phase \in Ended
    BY DEF Start, Files, Shape
  <1> DEFINE loaded == DOMAIN info
  <1>1. PICK mode \in {"show", "hide", "restore"},
             badInfo \in MayBeUnreadable("info"), badContent \in MayBeUnreadable("content"),
             extra \in SUBSET (Pads \ DOMAIN info), fromFile \in BOOLEAN, shown \in BOOLEAN :
                StartWith(mode, badInfo, badContent, extra, fromFile, shown)
    BY StartIsWith
  <1> DEFINE named == {p \in loaded \ badInfo : info[p].content # {}}
             wantsShow == {p \in loaded : p \in badInfo \/ ~info[p].hidden}
             nowShown == CASE mode = "show" -> loaded
                           [] mode = "hide" -> {}
                           [] OTHER -> wantsShow
             unreadable == {p \in named \cap badContent : info[p].content \subseteq DOMAIN content}
             typed == IF fromFile THEN extra ELSE {}
  <1>2. /\ phase' = "up" /\ UNCHANGED <<gone, asking, info, content, failed, stale, armed>>
    BY DEF Start, disk
  <1>3. gone' = {} /\ asking' = {}
    BY <1>0, <1>2 DEF Files, Shape
  <1>4. /\ nowShown \subseteq loaded /\ named \subseteq loaded /\ loaded \subseteq Pads
        /\ typed \subseteq extra /\ extra \subseteq Pads /\ extra \cap loaded = {}
    BY DEF Files, Shape
  <1>5. /\ open' = loaded \cup extra
        /\ visible' = nowShown \cup (IF shown THEN extra ELSE {})
        /\ iname' = loaded
        /\ cname' = [p \in Pads |-> IF p \in named THEN info[p].content ELSE {}]
        /\ buf' = [p \in Pads |-> IF p \in typed THEN 1
                                  ELSE IF p \in named THEN LoadedText(p, unreadable) ELSE 0]
        /\ clf' = unreadable
        /\ unsaved' = ({"info"} \X (nowShown \cup wantsShow \cup extra)) \cup ({"content"} \X typed)
    BY <1>1 DEF Flagged, StartWith
  <1> HIDE DEF nowShown, typed
  <1>6. \A p \in loaded : One(info[p].content) /\ info[p].content \subseteq Names
    BY DEF Files, Shape, FilesApart
  <1>7. \A p \in named : Restored(p) = TextIn(info[p].content, content) /\ Restored(p) \in Nat
    BY <1>6, RestoredIs, TextIsNat DEF Files, Shape
  <1>8. buf' \in [Pads -> Nat] /\ cname' \in [Pads -> SUBSET Names]
    BY <1>4, <1>5, <1>6, <1>7 DEF LoadedText
  <1>9. unsaved' \subseteq Kinds \X open' /\ visible' \subseteq open' /\ open' \subseteq Pads
    BY <1>4, <1>5 DEF Kinds
  <1>10. "info" \notin ReadFaults => \A p \in DOMAIN info : cname'[p] = info[p].content
    BY <1>4, <1>5 DEF MayBeUnreadable
  <1>11. \A p \in open' \ clf' :
            IF <<"content", p>> \in unsaved' THEN cname'[p] = {}
            ELSE buf'[p] = TextIn(cname'[p], content)
    <2> SUFFICES ASSUME NEW p \in open' \ clf'
                 PROVE  IF <<"content", p>> \in unsaved' THEN cname'[p] = {}
                        ELSE buf'[p] = TextIn(cname'[p], content)
      OBVIOUS
    <2>1. <<"content", p>> \in unsaved' <=> p \in typed
      BY <1>5
    <2>2. CASE p \in typed
      BY <1>4, <1>5, <2>1, <2>2
    <2>3. CASE p \notin typed /\ p \in named
      BY <1>4, <1>5, <1>7, <2>1, <2>3 DEF LoadedText
    <2>4. CASE p \notin typed /\ p \notin named
      BY <1>4, <1>5, <1>9, <2>1, <2>4, NoText
    <2> QED BY <2>2, <2>3, <2>4
  <1>12. \A p \in open' : <<"info", p>> \notin unsaved' =>
            /\ p \in DOMAIN info /\ cname'[p] = info[p].content
            /\ p \notin visible' /\ <<"content", p>> \notin unsaved'
    <2> SUFFICES ASSUME NEW p \in open', <<"info", p>> \notin unsaved'
                 PROVE  /\ p \in DOMAIN info /\ cname'[p] = info[p].content
                        /\ p \notin visible' /\ <<"content", p>> \notin unsaved'
      OBVIOUS
    <2>1. p \notin nowShown /\ p \notin wantsShow /\ p \notin extra
      BY <1>5
    <2>2. p \in loaded /\ p \notin badInfo
      BY <1>5, <2>1
    <2> QED BY <1>4, <1>5, <2>1, <2>2
  <1>13. clf' \subseteq Pads /\ \A p \in Pads : buf'[p] \in {0, Restored(p)} \/ (buf'[p] = 1 /\ MaxEdits > 0)
    <2>1. typed # {} => MaxEdits > 0
      BY <1>1 DEF StartWith, typed
    <2> QED BY <1>4, <1>5, <2>1 DEF LoadedText
  <1> QED BY <1>2, <1>3, <1>4, <1>5, <1>8, <1>9, <1>10, <1>11, <1>12, <1>13

LEMMA ApartStart == ASSUME Files, Start PROVE FilesApart'
  <1>1. \A p \in Pads : cname'[p] = {} \/ (p \in DOMAIN info /\ cname'[p] = info[p].content)
    BY StartGives
  <1>2. info' = info /\ DOMAIN info \subseteq open' /\ open' \subseteq Pads
    BY StartGives
  <1>3. \A p \in Pads : One(cname'[p])
    BY <1>1 DEF Files, FilesApart, One
  <1>4. \A p \in Pads : p \notin open' \cup gone' => cname'[p] = {}
    BY <1>1, <1>2
  <1>5. \A p \in open', q \in DOMAIN info' : p # q => cname'[p] \cap info'[q].content = {}
    BY <1>1, <1>2 DEF Files, FilesApart
  <1>6. \A p, q \in open' : p # q => cname'[p] \cap cname'[q] = {}
    BY <1>1, <1>2 DEF Files, FilesApart
  <1> QED BY <1>2, <1>3, <1>4, <1>5, <1>6 DEF Files, FilesApart

LEMMA ShapeWritten ==
    ASSUME Files, NEW e, NEW n \in Names, NEW ok \in BOOLEAN, Written(e, n, ok),
           UNCHANGED <<phase, open, gone, visible, buf, clf, asking>>
    PROVE  Shape'
  <1> DEFINE p == e[2]
  <1>0. p \in open /\ p \in Pads /\ buf[p] \in Nat
    BY FlagsOfOpen DEF Written, Files, Shape
  <1>1. cname' \in [Pads -> SUBSET Names]
    BY DEF Written, Files, Shape
  <1>2. unsaved' \subseteq Kinds \X open
    BY DEF Written, Files, Shape
  <1>3. \A m \in DOMAIN content' : content'[m] \in Nat
    <2>1. \/ content' = content
          \/ \E v \in Nat : content' = Put(content, n, v)
      BY <1>0 DEF Written
    <2> QED BY <2>1, PutNat DEF Files, Shape
  <1>4. DOMAIN info' \subseteq Pads /\ \A q \in DOMAIN info' : info'[q].content \subseteq Names
    <2>1. CASE info' = info
      BY <2>1 DEF Files, Shape
    <2>2. CASE info' = Put(info, p, [content |-> {n}, hidden |-> p \notin visible])
      BY <1>0, <2>2 DEF Put, Files, Shape
    <2>3. CASE info' = Put(info, p, Blank)
      BY <1>0, <2>3 DEF Put, Blank, Files, Shape
    <2> QED BY <2>1, <2>2, <2>3 DEF Written
  <1> QED BY <1>1, <1>2, <1>3, <1>4 DEF Files, Shape

LEMMA ShapeSaved == ASSUME Files, NEW e, Saved(e) PROVE Shape'
  <1>1. CASE Kept(e)
    BY <1>1 DEF Kept, Files, Saved, Shape
  <1>2. CASE Nameless(e)
    <2>1. e[2] \in Pads
      BY <1>2, FlagsOfOpen DEF Nameless, Files
    <2>2. DOMAIN info' \subseteq Pads /\ \A q \in DOMAIN info' : info'[q].content \subseteq Names
      BY <1>2, <2>1 DEF Nameless, Put, Blank, Files, Shape
    <2> QED BY <1>2, <2>2 DEF Nameless, Files, Saved, Shape
  <1>3. CASE \E n \in Names, ok \in BOOLEAN : Written(e, n, ok)
    BY <1>3, ShapeWritten DEF Saved
  <1> QED BY <1>1, <1>2, <1>3, SaveCases DEF Files, Saved

LEMMA NamedIs ==
    ASSUME NEW inf, NEW con
    PROVE  /\ DOMAIN Named(inf, con) \subseteq DOMAIN con
           /\ \A n \in DOMAIN Named(inf, con) : Named(inf, con)[n] = con[n]
           /\ \A q \in DOMAIN inf : \A n \in inf[q].content : n \in DOMAIN con => n \in DOMAIN Named(inf, con)
  <1> DEFINE T == UNION {inf[p].content : p \in DOMAIN inf}
  <1>1. Named(inf, con) = Without(con, Names \ T)
    BY DEF Named
  <1>2. \A q \in DOMAIN inf : inf[q].content \subseteq T
    OBVIOUS
  <1> HIDE DEF T
  <1> QED BY <1>1, <1>2 DEF Without

\* What the process that ends leaves of the content files: each has its text or is new.
LEMMA LeftContent ==
    ASSUME Files, Left
    PROVE  \E con :
              /\ content' = Named(info', con)
              /\ \/ con = content
                 \/ \E p \in open, n \in Names : /\ con = Put(content, n, 0)
                                                 /\ OwnName(p, n) /\ cname[p] = {}
  <1>1. CASE info' = info /\ content' = Named(info, content)
    BY <1>1
  <1>2. CASE \E p \in open : info' = Without(info, {p} \cap iname) /\ content' = Named(info', content)
    BY <1>2
  <1>3. CASE \E e \in unsaved : KilledMidSave(e)
    <2>1. PICK e \in unsaved : KilledMidSave(e)
      BY <1>3
    <2>2. PICK c \in NameFor(e[2]) : content' = Named(info', Touched(e[2], c))
      BY <2>1 DEF KilledMidSave
    <2>3. e[2] \in open
      BY FlagsOfOpen DEF Files
    <2>4. PICK n \in Names : c = {n} /\ OwnName(e[2], n)
      BY <2>3, NameIsOwn DEF Files
    <2>5. CASE cname[e[2]] = {}
      BY <2>2, <2>3, <2>4, <2>5, TouchedIs
    <2>6. CASE cname[e[2]] # {}
      BY <2>2, <2>4, <2>6, TouchedIs
    <2> QED BY <2>5, <2>6
  <1> QED BY <1>1, <1>2, <1>3 DEF Left

LEMMA ShapeLeft == ASSUME Files, Left PROVE Shape'
  <1>1. /\ phase' \in Ended /\ open' = {} /\ gone' = {} /\ visible' = {} /\ unsaved' = {} /\ asking' = {}
        /\ buf' \in [Pads -> Nat] /\ cname' \in [Pads -> SUBSET Names]
    BY DEF Left, Forget
  <1>2. DOMAIN info' \subseteq Pads /\ \A p \in DOMAIN info' : info'[p].content \subseteq Names
    BY LeftInfos DEF Files, Shape, Blank
  <1>3. PICK con : /\ content' = Named(info', con)
                   /\ con = content \/ \E n \in Names : con = Put(content, n, 0)
    BY LeftContent
  <1>4. \A n \in DOMAIN con : con[n] \in Nat
    BY <1>3, PutNat DEF Files, Shape
  <1>5. \A n \in DOMAIN content' : content'[n] \in Nat
    BY <1>3, <1>4, NamedIs
  <1> QED BY <1>1, <1>2, <1>5 DEF Shape

LEMMA ShapeDelete == ASSUME Files, NEW p \in open, Delete(p) PROVE Shape'
  <1>1. \A q \in DOMAIN info' : q \in DOMAIN info /\ info'[q] = info[q]
    <2>1. info' = info \/ info' = Without(info, {p} \cap iname)
      BY DEF Delete
    <2> QED BY <2>1 DEF Without
  <1>2. \A n \in DOMAIN content' : n \in DOMAIN content /\ content'[n] = content[n]
    <2>1. content' = content \/ content' = Without(content, cname[p])
      BY DEF Delete
    <2> QED BY <2>1 DEF Without
  <1>3. unsaved' \subseteq Kinds \X (open \ {p})
    BY DEF Delete, Files, Shape, Gone, Flagged, Kinds
  <1>4. /\ open' = open \ {p} /\ visible' = visible \ {p} /\ gone' = gone \cup {p} /\ asking' = {}
        /\ phase' = phase /\ buf' = buf /\ cname' = cname
    BY DEF Delete
  <1> QED BY <1>1, <1>2, <1>3, <1>4 DEF Files, Shape

LEMMA ShapeStart == ASSUME Files, Start PROVE Shape'
  BY StartGives DEF Files, Shape, Ended

LEMMA FilesNext == ASSUME Files, [Next]_vars PROVE Files'
  <1> USE DEF Files
  <1>1. ASSUME NEW p \in Pads, Typed(p) PROVE Files'
    <2>1. Shape'
      BY <1>1 DEF Typed, DiskKept, Shape, Kinds
    <2> QED BY <1>1, <2>1, ApartSame DEF Typed, DiskKept
  <1>2. ASSUME NEW p \in Pads, NEW f \in BOOLEAN, Added(p, f) PROVE Files'
    <2>1. Shape'
      BY <1>2 DEF Added, DiskKept, Shape, Kinds, Ended
    <2>2. cname[p] = {}
      BY <1>2 DEF Added, FilesApart
    <2>3. FilesApart'
      BY <1>2, <2>2 DEF Added, DiskKept, FilesApart
    <2> QED BY <2>1, <2>3
  <1>3. ASSUME NEW p \in Pads, ReloadRead(p) PROVE Files'
    <2>1. Shape'
      BY <1>3, TextIs DEF ReloadRead, AtPad, disk, Shape, FilesApart
    <2> QED BY <1>3, <2>1, ApartSame DEF ReloadRead, disk
  <1>4. ASSUME NEW p \in Pads, ReloadFails(p) PROVE Files'
    BY <1>4, ApartSame DEF ReloadFails, disk, Shape
  <1>5. CASE Marked
    <2>1. Shape'
      BY <1>5 DEF Marked, DiskKept, Shape, Kinds, Ended
    <2> QED BY <1>5, <2>1, ApartSame DEF Marked, DiskKept
  <1>6. CASE \E e \in Entries \cup {slots[i] : i \in 1..NSlots} : Saved(e)
    BY <1>6, ShapeSaved, ApartSaved
  <1>7. CASE \E p \in open : Delete(p)
    BY <1>7, ShapeDelete, ApartDelete
  <1>8. CASE Left
    BY <1>8, ShapeLeft, ApartLeft
  <1>9. CASE Start
    BY <1>9, ShapeStart, ApartStart
  <1> QED BY Steps, <1>1, <1>2, <1>3, <1>4, <1>5, <1>6, <1>7, <1>8, <1>9 DEF Step

-----------------------------------------------------------------------------
(* What a step does to the text of a note.                                  *)

LEMMA SameText ==
    ASSUME NEW c, NEW old, NEW new,
           \A n \in c : (n \in DOMAIN old <=> n \in DOMAIN new) /\ (n \in DOMAIN old => new[n] = old[n]),
           One(c)
    PROVE  TextIn(c, new) = TextIn(c, old)
  <1>1. CASE c = {}
    BY <1>1, NoText
  <1>2. CASE c # {}
    <2>1. PICK n \in c : TRUE
      BY <1>2
    <2> QED BY <2>1, TextIs
  <1> QED BY <1>1, <1>2

LEMMA PutText ==
    ASSUME NEW f, NEW n, NEW v, NEW c, One(c)
    PROVE  /\ TextIn({n}, Put(f, n, v)) = v
           /\ n \notin c => TextIn(c, Put(f, n, v)) = TextIn(c, f)
  <1>1. TextIn({n}, Put(f, n, v)) = v
    <2>1. One({n}) /\ n \in {n}
      BY DEF One
    <2>2. n \in DOMAIN Put(f, n, v) /\ Put(f, n, v)[n] = v
      BY DEF Put
    <2> HIDE DEF One
    <2> QED BY <2>1, <2>2, TextIs
  <1>2. n \notin c => TextIn(c, Put(f, n, v)) = TextIn(c, f)
    <2>1. ASSUME n \notin c, NEW m \in c
          PROVE  /\ m \in DOMAIN f <=> m \in DOMAIN Put(f, n, v)
                 /\ m \in DOMAIN f => Put(f, n, v)[m] = f[m]
      BY <2>1 DEF Put
    <2> QED BY <2>1, SameText
  <1> QED BY <1>1, <1>2

\* A save writes p's content file or none.
LEMMA WrittenText ==
    ASSUME Files, NEW e, NEW n \in Names, NEW ok \in BOOLEAN, Written(e, n, ok)
    PROVE  /\ TextIn({n}, content') = (IF e[1] = "content" /\ ok THEN buf[e[2]]
                                       ELSE TextIn(cname[e[2]], content))
           /\ \A c : One(c) /\ n \notin c => TextIn(c, content') = TextIn(c, content)
  <1> DEFINE p == e[2]
  <1>1. cname[p] = {n} \/ cname[p] = {}
    BY DEF Written, OwnName
  <1>2. CASE e[1] = "content" /\ ok
    <2>1. content' = Put(content, n, buf[p])
      BY <1>2 DEF Written
    <2> QED BY <1>2, <2>1, PutText DEF One
  <1>3. CASE ~(e[1] = "content" /\ ok)
    <2>1. content' = (IF cname[p] = {} THEN Put(content, n, 0) ELSE content)
      BY <1>3 DEF Written
    <2>2. CASE cname[p] = {}
      BY <1>3, <2>1, <2>2, PutText, NoText DEF One
    <2>3. CASE cname[p] = {n}
      BY <1>3, <2>1, <2>3
    <2> QED BY <1>1, <2>2, <2>3
  <1> QED BY <1>2, <1>3

-----------------------------------------------------------------------------
(* A pad's content file holds its text, or an older one that is flagged.    *)

Current == \A p \in open \ clf : /\ Stored(p) <= buf[p]
                                 /\ <<"content", p>> \notin unsaved => Stored(p) = buf[p]

LEMMA CurrentSaved == ASSUME Files, Current, NEW e, Saved(e) PROVE Current'
  <1> USE DEF Files
  <1>0. UNCHANGED <<open, buf, clf>> /\ open \subseteq Pads
    BY DEF Saved, Shape
  <1>1. CASE Kept(e)
    BY <1>0, <1>1, ZenonT(60) DEF Kept, Current, Stored
  <1>2. CASE Nameless(e)
    BY <1>0, <1>2, ZenonT(60) DEF Nameless, Current, Stored
  <1>3. ASSUME NEW n \in Names, NEW ok \in BOOLEAN, Written(e, n, ok) PROVE Current'
    <2> DEFINE p == e[2]
    <2>0. e \in unsaved /\ p \in open /\ e = <<e[1], p>> /\ e[1] \in Kinds /\ OwnName(p, n)
      BY <1>3, FlagsOfOpen DEF Written
    <2>1. cname'[p] = {n} /\ \A q \in Pads \ {p} : cname'[q] = cname[q]
      BY <1>0, <1>3, <2>0 DEF Written, Shape
    <2>2. unsaved \ {e} \subseteq unsaved'
      BY <1>3 DEF Written
    <2>3. ASSUME NEW q \in open \ clf, q # p
          PROVE  /\ Stored(q)' <= buf[q]
                 /\ <<"content", q>> \notin unsaved' => Stored(q)' = buf[q]
      <3>1. One(cname[q]) /\ n \notin cname[q]
        BY <1>0, <2>0, <2>3 DEF FilesApart, OwnName
      <3>2. Stored(q)' = TextIn(cname'[q], content')
        BY DEF Stored, TextIn
      <3>3. Stored(q)' = Stored(q)
        BY <1>0, <1>3, <2>1, <2>3, <3>1, <3>2, WrittenText, StoredIs, ZenonT(60)
      <3>4. <<"content", q>> # e
        BY <2>0, <2>3
      <3> QED BY <2>2, <3>3, <3>4 DEF Current
    <2>4. ASSUME p \in open \ clf
          PROVE  /\ Stored(p)' <= buf[p]
                 /\ <<"content", p>> \notin unsaved' => Stored(p)' = buf[p]
      <3>1. Stored(p)' = TextIn({n}, content')
        BY <2>1 DEF Stored, TextIn
      <3>2. buf[p] \in Nat /\ Stored(p) <= buf[p] /\ (<<"content", p>> \notin unsaved => Stored(p) = buf[p])
        BY <1>0, <2>4 DEF Current, Shape
      <3>3. CASE e[1] = "content" /\ ok
        <4>1. TextIn({n}, content') = buf[p]
          BY <1>3, <3>3, WrittenText
        <4>2. Stored(p)' = buf[p]
          BY <3>1, <4>1
        <4> QED BY <3>2, <4>2
      <3>4. CASE ~(e[1] = "content" /\ ok)
        <4>1. Stored(p)' = Stored(p)
          BY <1>3, <3>1, <3>4, WrittenText, StoredIs
        <4>2. <<"content", p>> \notin unsaved' => <<"content", p>> \notin unsaved
          BY <1>3, <2>0, <3>4 DEF Written
        <4> QED BY <3>2, <4>1, <4>2
      <3> QED BY <3>3, <3>4
    <2> QED BY <1>0, <2>3, <2>4 DEF Current
  <1> QED BY <1>1, <1>2, <1>3, SaveCases DEF Saved

LEMMA CurrentDelete == ASSUME Files, Current, NEW p \in open, Delete(p) PROVE Current'
  <1>1. open' = open \ {p} /\ UNCHANGED <<buf, cname, clf>> /\ unsaved' = unsaved \ Gone(p)
    BY DEF Delete
  <1>2. content' = content \/ content' = Without(content, cname[p])
    BY DEF Delete
  <1>3. ASSUME NEW q \in open' PROVE Stored(q)' = Stored(q)
    <2>1. q \in open /\ q # p /\ One(cname[q]) /\ cname[q] \cap cname[p] = {}
      BY <1>1, <1>3 DEF Files, Shape, FilesApart
    <2>2. Stored(q)' = TextIn(cname[q], content')
      BY <1>1 DEF Stored, TextIn
    <2>3. TextIn(cname[q], content') = TextIn(cname[q], content)
      <3>1. CASE content' = content
        BY <3>1
      <3>2. CASE content' = Without(content, cname[p])
        BY <2>1, <3>2, SameText DEF Without
      <3> QED BY <1>2, <3>1, <3>2
    <2> QED BY <2>2, <2>3, StoredIs
  <1>4. \A q \in open' : <<"content", q>> \notin unsaved' => <<"content", q>> \notin unsaved
    BY <1>1 DEF Gone, Flagged
  <1> QED BY <1>1, <1>3, <1>4 DEF Current

LEMMA CurrentNext == ASSUME Files, Current, [Next]_vars PROVE Current'
  <1> USE DEF Files
  <1>1. ASSUME NEW p \in Pads, Typed(p) PROVE Current'
    <2>1. \A q \in open : Stored(q)' = Stored(q) /\ buf[q] \in Nat
      BY <1>1 DEF Typed, DiskKept, Stored, Shape
    <2>2. \A q \in open : buf'[q] = (IF q = p THEN buf[q] + 1 ELSE buf[q])
      BY <1>1 DEF Typed, Shape
    <2>3. ASSUME NEW q \in open \ clf
          PROVE  /\ Stored(q)' <= buf'[q]
                 /\ <<"content", q>> \notin unsaved' => Stored(q)' = buf'[q]
      <3>1. Stored(q) \in Nat
        BY StoredIs, TextIsNat DEF Shape, FilesApart
      <3>2. Stored(q) <= buf[q] /\ (<<"content", q>> \notin unsaved => Stored(q) = buf[q])
        BY DEF Current
      <3>3. unsaved' = unsaved \cup {<<"content", p>>}
        BY <1>1 DEF Typed
      <3> QED BY <2>1, <2>2, <3>1, <3>2, <3>3
    <2>4. open' = open /\ clf' = clf
      BY <1>1 DEF Typed
    <2> QED BY <2>3, <2>4 DEF Current
  <1>2. ASSUME NEW p \in Pads, NEW f \in BOOLEAN, Added(p, f) PROVE Current'
    <2>1. cname[p] = {} /\ Stored(p) = 0
      BY <1>2, StoredIs, NoText DEF Added, FilesApart
    <2>2. \A q \in Pads : Stored(q)' = Stored(q)
      BY <1>2 DEF Added, DiskKept, Stored
    <2>3. \A q \in Pads : buf'[q] = (IF q = p THEN (IF f THEN 1 ELSE 0) ELSE buf[q])
      BY <1>2 DEF Added, Shape
    <2>4. /\ unsaved \subseteq unsaved' /\ (f => <<"content", p>> \in unsaved')
          /\ open' = open \cup {p} /\ clf' = clf
      BY <1>2 DEF Added
    <2>5. ASSUME NEW q \in open' \ clf'
          PROVE  /\ Stored(q)' <= buf'[q]
                 /\ <<"content", q>> \notin unsaved' => Stored(q)' = buf'[q]
      <3>1. CASE q = p
        BY <2>1, <2>2, <2>3, <2>4, <3>1
      <3>2. CASE q # p
        <4>1. q \in open \ clf /\ q \in Pads
          BY <2>4, <2>5, <3>2 DEF Shape
        <4>2. Stored(q)' = Stored(q) /\ buf'[q] = buf[q]
          BY <2>2, <2>3, <3>2, <4>1
        <4> QED BY <2>4, <4>1, <4>2 DEF Current
      <3> QED BY <3>1, <3>2
    <2> QED BY <2>5 DEF Current
  <1>3. ASSUME NEW p \in Pads, ReloadRead(p) PROVE Current'
    <2>1. UNCHANGED <<open, cname, content>> /\ clf' = clf \ {p} /\ unsaved' = unsaved \ {<<"content", p>>}
      BY <1>3 DEF ReloadRead, disk
    <2>2. \A q \in open : Stored(q)' = Stored(q)
      BY <2>1 DEF Stored
    <2>3. \A q \in open \ {p} : buf'[q] = buf[q]
      BY <1>3 DEF ReloadRead, Shape
    <2>4. buf'[p] = Stored(p) /\ p \in open
      <3>1. PICK n \in cname[p] : TRUE
        BY <1>3 DEF ReloadRead
      <3>2. One(cname[p])
        BY DEF FilesApart
      <3>3. Stored(p) = (IF cname[p] \subseteq DOMAIN content THEN content[CHOOSE m \in cname[p] : TRUE] ELSE 0)
        BY <3>1, <3>2 DEF Stored, One
      <3> QED BY <1>3, <3>3 DEF ReloadRead, Shape, AtPad
    <2>5. Stored(p) \in Nat
      BY StoredIs, TextIsNat DEF Shape, FilesApart
    <2>6. ASSUME NEW q \in open' \ clf'
          PROVE  /\ Stored(q)' <= buf'[q]
                 /\ <<"content", q>> \notin unsaved' => Stored(q)' = buf'[q]
      <3>1. CASE q = p
        BY <2>2, <2>4, <2>5, <3>1
      <3>2. CASE q # p
        <4>1. q \in open \ clf
          BY <2>1, <2>6, <3>2
        <4>2. Stored(q)' = Stored(q) /\ buf'[q] = buf[q]
          BY <2>2, <2>3, <3>2, <4>1
        <4>3. <<"content", q>> \notin unsaved' => <<"content", q>> \notin unsaved
          BY <2>1, <3>2
        <4> QED BY <4>1, <4>2, <4>3 DEF Current
      <3> QED BY <3>1, <3>2
    <2> QED BY <2>6 DEF Current
  <1>4. ASSUME NEW p \in Pads, ReloadFails(p) PROVE Current'
    <2>1. UNCHANGED <<open, buf, unsaved, cname, content>> /\ clf' = clf \cup {p}
      BY <1>4 DEF ReloadFails, disk
    <2>2. ASSUME NEW q PROVE Stored(q)' = Stored(q)
      BY <2>1 DEF Stored
    <2> QED BY <2>1, <2>2 DEF Current
  <1>5. CASE Marked
    <2>1. UNCHANGED <<open, buf, clf, cname, content>> /\ unsaved \subseteq unsaved'
      BY <1>5 DEF Marked, DiskKept
    <2>2. ASSUME NEW q PROVE Stored(q)' = Stored(q)
      BY <2>1 DEF Stored
    <2> QED BY <2>1, <2>2 DEF Current
  <1>6. CASE \E e \in Entries \cup {slots[i] : i \in 1..NSlots} : Saved(e)
    BY <1>6, CurrentSaved
  <1>7. CASE \E p \in open : Delete(p)
    BY <1>7, CurrentDelete
  <1>8. CASE Left
    BY <1>8 DEF Left, Forget, Current
  <1>9. CASE Start
    <2>1. \A p \in open' : Stored(p)' = TextIn(cname'[p], content')
      BY DEF Stored, TextIn
    <2>2. buf' \in [Pads -> Nat] /\ open' \subseteq Pads /\ content' = content
      BY <1>9, StartGives
    <2>3. ASSUME NEW p \in open' \ clf'
          PROVE  /\ Stored(p)' <= buf'[p]
                 /\ <<"content", p>> \notin unsaved' => Stored(p)' = buf'[p]
      <3>1. buf'[p] \in Nat
        BY <2>2
      <3>2. IF <<"content", p>> \in unsaved' THEN cname'[p] = {}
            ELSE buf'[p] = TextIn(cname'[p], content)
        BY <1>9, <2>3, StartGives
      <3> QED BY <2>1, <2>2, <3>1, <3>2, NoText
    <2> QED BY <2>3 DEF Current
  <1> QED BY Steps, <1>1, <1>2, <1>3, <1>4, <1>5, <1>6, <1>7, <1>8, <1>9 DEF Step

LEMMA Always == Spec => [](Files /\ Current)
  <1>1. Init => Files /\ Current
    BY FilesInit DEF Init, Current
  <1>2. Files /\ Current /\ [Next]_vars => (Files /\ Current)'
    BY FilesNext, CurrentNext
  <1> QED BY <1>1, <1>2, PTL DEF Spec

(***************************************************************************)
(* A pad that does not count as unsaved and whose content could be read    *)
(* has its text in its content file (the flags of save_content, of reload  *)
(* and of xpad_pad_delete).                                                *)
(***************************************************************************)
THEOREM CleanAlwaysSaved == Spec => []CleanMeansSaved
  <1>1. Current => CleanMeansSaved
    BY DEF Current, CleanMeansSaved
  <1> QED BY Always, <1>1, PTL

LEMMA DeletedStep == ASSUME Files, [Next]_vars PROVE gone \cap DOMAIN info' \subseteq DOMAIN info
  <1> USE DEF Files
  <1>1. CASE DiskKept
    BY <1>1 DEF DiskKept
  <1>2. ASSUME NEW e, Saved(e) PROVE gone \cap DOMAIN info' \subseteq DOMAIN info
    <2>1. info' = info \/ (e \in unsaved /\ \E v : info' = Put(info, e[2], v))
      BY <1>2, SaveCases DEF Saved, Kept, Nameless, Written
    <2>2. e \in unsaved => e[2] \notin gone
      BY FlagsOfOpen DEF Shape
    <2> QED BY <2>1, <2>2 DEF Put
  <1>3. ASSUME NEW p \in open, Delete(p) PROVE DOMAIN info' \subseteq DOMAIN info
    <2>1. info' = info \/ info' = Without(info, {p} \cap iname)
      BY <1>3 DEF Delete
    <2> QED BY <2>1 DEF Without
  <1>4. CASE Left
    <2>1. \A p \in open : DOMAIN Without(info, {p} \cap iname) \subseteq DOMAIN info
      BY DEF Without
    <2>2. ASSUME NEW e \in unsaved, KilledMidSave(e)
          PROVE  info' = info \/ info' = Put(info, e[2], Blank)
      BY <2>2 DEF KilledMidSave
    <2>3. \A e \in unsaved : e[2] \notin gone
      BY FlagsOfOpen DEF Shape
    <2>4. \A p : DOMAIN Put(info, p, Blank) = DOMAIN info \cup {p}
      BY PutIs
    <2>5. CASE info' = info
      BY <2>5
    <2>6. CASE \E p \in open : info' = Without(info, {p} \cap iname)
      BY <2>1, <2>6
    <2>7. CASE \E e \in unsaved : KilledMidSave(e)
      BY <2>2, <2>3, <2>4, <2>7
    <2> QED BY <1>4, <2>5, <2>6, <2>7 DEF Left
  <1>5. CASE Start
    BY <1>5, StartGives
  <1>6. ASSUME NEW p \in Pads, ReloadRead(p) \/ ReloadFails(p) PROVE info' = info
    BY <1>6 DEF ReloadRead, ReloadFails, disk
  <1> QED BY Steps, <1>1, <1>2, <1>3, <1>4, <1>5, <1>6 DEF Step, Typed, Added, Marked

(***************************************************************************)
(* No info file of a deleted pad is created again: a save needs a flag,    *)
(* and only open pads have one (xpad_pad_delete clears those of its pad).  *)
(***************************************************************************)
THEOREM DeletedNeverBack == Spec => DeletedStaysDeleted
  <1>1. Files /\ [Next]_vars => [gone \cap DOMAIN info' \subseteq DOMAIN info]_vars
    BY DeletedStep
  <1> QED BY Always, <1>1, PTL DEF Spec, DeletedStaysDeleted

-----------------------------------------------------------------------------
(***************************************************************************)
(* While info files can be read, a pad writes to the content file its info *)
(* file names; so nothing that happens to the pad moves what a restart     *)
(* would show of it but a save of a newer text.                            *)
(***************************************************************************)
Linked == \A p \in open \cap DOMAIN info : p \in iname /\ info[p].content \in {{}, cname[p]}

LEMMA LinkedNext == ASSUME "info" \notin ReadFaults, Files, Linked, [Next]_vars PROVE Linked'
  <1> USE DEF Files
  <1>1. CASE DiskKept /\ open' = open
    BY <1>1 DEF DiskKept, Linked
  <1>2. ASSUME NEW p \in Pads, NEW f \in BOOLEAN, Added(p, f) PROVE Linked'
    BY <1>2 DEF Added, DiskKept, Linked
  <1>3. ASSUME NEW p \in Pads, ReloadRead(p) \/ ReloadFails(p) PROVE Linked'
    BY <1>3 DEF ReloadRead, ReloadFails, disk, Linked
  <1>4. ASSUME NEW e, Saved(e) PROVE Linked'
    <2> DEFINE p == e[2]
    <2>1. UNCHANGED <<open>> /\ open \subseteq Pads
      BY <1>4 DEF Saved, Shape
    <2>2. CASE Kept(e)
      BY <2>1, <2>2 DEF Kept, Linked
    <2>3. CASE Nameless(e)
      BY <2>1, <2>3 DEF Nameless, Linked, Put, Blank
    <2>4. ASSUME NEW n \in Names, NEW ok \in BOOLEAN, Written(e, n, ok) PROVE Linked'
      <3>1. cname'[p] = {n} /\ (\A q \in Pads \ {p} : cname'[q] = cname[q]) /\ cname[p] \in {{}, {n}}
        <4>1. p \in Pads
          BY <2>4, FlagsOfOpen DEF Written
        <4> QED BY <2>4, <4>1 DEF Written, OwnName, Shape
      <3>2. iname \subseteq iname'
        BY <2>4 DEF Written
      <3>3. CASE info' = info
        BY <2>1, <3>1, <3>2, <3>3 DEF Linked
      <3>4. CASE p \in iname' /\ info' = Put(info, p, [content |-> {n}, hidden |-> p \notin visible])
        BY <2>1, <3>1, <3>2, <3>4 DEF Linked, Put
      <3>5. CASE p \in iname' /\ info' = Put(info, p, Blank)
        BY <2>1, <3>1, <3>2, <3>5 DEF Linked, Put, Blank
      <3> QED BY <2>4, <3>3, <3>4, <3>5 DEF Written
    <2> QED BY <1>4, <2>2, <2>3, <2>4, SaveCases DEF Saved
  <1>5. ASSUME NEW p \in open, Delete(p) PROVE Linked'
    <2>1. info' = info \/ info' = Without(info, {p} \cap iname)
      BY <1>5 DEF Delete
    <2>2. \A q \in DOMAIN info' : q \in DOMAIN info /\ info'[q] = info[q]
      BY <2>1 DEF Without
    <2> QED BY <1>5, <2>2 DEF Delete, Linked
  <1>6. CASE Left
    BY <1>6 DEF Left, Forget, Linked
  <1>7. CASE Start
    BY <1>7, StartGives DEF Linked
  <1> QED BY Steps, <1>1, <1>2, <1>3, <1>4, <1>5, <1>6, <1>7 DEF Step, Typed, Marked

\* Ending moves no text an info file names.
LEMMA LeftTexts ==
    ASSUME Files, Linked, Left, NEW q \in DOMAIN info \cap DOMAIN info'
    PROVE  TextIn(info'[q].content, content') = TextIn(info[q].content, content)
  <1> USE DEF Files
  <1>1. info'[q].content = info[q].content
    <2>1. CASE info' = info
      BY <2>1
    <2>2. CASE \E p \in open : info' = Without(info, {p} \cap iname)
      BY <2>2 DEF Without
    <2>3. CASE \E e \in unsaved : KilledMidSave(e)
      <3>1. PICK e \in unsaved : KilledMidSave(e)
        BY <2>3
      <3>2. e[2] \in open
        BY FlagsOfOpen
      <3>3. info' = info \/ (e[2] \notin iname /\ info' = Put(info, e[2], Blank))
        BY <3>1 DEF KilledMidSave
      <3>4. e[2] \notin iname => e[2] \notin DOMAIN info
        BY <3>2 DEF Linked
      <3> QED BY <3>3, <3>4 DEF Put
    <2> QED BY <2>1, <2>2, <2>3 DEF Left
  <1>2. One(info[q].content)
    BY DEF FilesApart
  <1>3. PICK con : /\ content' = Named(info', con)
                   /\ \/ con = content
                      \/ \E p \in open, n \in Names : /\ con = Put(content, n, 0)
                                                      /\ OwnName(p, n) /\ cname[p] = {}
    BY LeftContent
  <1>4. TextIn(info[q].content, content') = TextIn(info[q].content, con)
    BY <1>1, <1>2, <1>3, NamedIs, SameText
  <1>5. CASE con = content
    BY <1>1, <1>4, <1>5
  <1>6. ASSUME NEW p \in open, NEW n \in Names, con = Put(content, n, 0), OwnName(p, n), cname[p] = {}
        PROVE  TextIn(info[q].content, con) = TextIn(info[q].content, content)
    <2>1. n \notin info[q].content
      BY <1>6 DEF OwnName
    <2> DEFINE c == info[q].content
    <2>2. n \notin c /\ One(c)
      BY <1>2, <2>1
    <2> HIDE DEF c
    <2>3. TextIn(c, Put(content, n, 0)) = TextIn(c, content)
      <3>1. ASSUME NEW m \in c
            PROVE  /\ m \in DOMAIN content <=> m \in DOMAIN Put(content, n, 0)
                   /\ m \in DOMAIN content => Put(content, n, 0)[m] = content[m]
        BY <2>2, <3>1 DEF Put
      <3> QED BY <2>2, <3>1, SameText
    <2> QED BY <1>6, <2>3 DEF c
  <1> QED BY <1>1, <1>3, <1>4, <1>5, <1>6

\* Nor does a save, but to that of the pad, whose text is at least as new.
LEMMA SavedTexts ==
    ASSUME Files, Current, Linked, NEW e, Saved(e), NEW q \in DOMAIN info \cap DOMAIN info'
    PROVE  TextIn(info'[q].content, content') >= TextIn(info[q].content, content)
  <1> USE DEF Files
  <1> DEFINE p == e[2]
             before == TextIn(info[q].content, content)
  <1>0. One(info[q].content) /\ before \in Nat
    BY TextIsNat DEF FilesApart, Shape
  <1>1. CASE Kept(e)
    BY <1>0, <1>1 DEF Kept
  <1>2. CASE Nameless(e)
    <2>1. p \in open
      BY <1>2, FlagsOfOpen DEF Nameless
    <2>2. info'[q] = info[q]
      BY <1>2, <2>1 DEF Nameless, Linked, Put
    <2>3. content' = content
      BY <1>2 DEF Nameless
    <2> QED BY <1>0, <2>2, <2>3
  <1>3. ASSUME NEW n \in Names, NEW ok \in BOOLEAN, Written(e, n, ok)
        PROVE  TextIn(info'[q].content, content') >= before
    <2>1. p \in open /\ p \in Pads /\ OwnName(p, n) /\ e[1] \in Kinds /\ buf[p] \in Nat
      BY <1>3, FlagsOfOpen DEF Written, Shape
    <2>2. \/ info'[q].content = info[q].content
          \/ q = p /\ info'[q].content = {n}
      <3>1. CASE info' = info
        BY <3>1
      <3>2. CASE info' = Put(info, p, [content |-> {n}, hidden |-> p \notin visible])
        BY <3>2 DEF Put
      <3>3. CASE p \notin iname /\ info' = Put(info, p, Blank)
        BY <2>1, <3>3 DEF Put, Linked
      <3> QED BY <1>3, <3>1, <3>2, <3>3 DEF Written
    <2>3. CASE q # p
      <3>1. n \notin info[q].content
        BY <2>1, <2>3 DEF OwnName
      <3>2. TextIn(info[q].content, content') = before
        BY <1>0, <1>3, <3>1, WrittenText
      <3> QED BY <1>0, <2>2, <2>3, <3>2
    <2>4. CASE q = p /\ n \notin info[q].content
      <3>1. info[q].content = {}
        BY <2>1, <2>4 DEF Linked, OwnName
      <3>2. before = 0
        BY <3>1, NoText
      <3>3. CASE info'[q].content = info[q].content
        BY <3>1, <3>2, <3>3, NoText
      <3>4. CASE info'[q].content = {n}
        <4>1. TextIn({n}, content') = buf[p] \/ TextIn({n}, content') = TextIn(cname[p], content)
          BY <1>3, WrittenText
        <4>2. TextIn(cname[p], content) \in Nat
          BY <2>1, TextIsNat DEF FilesApart, Shape
        <4> QED BY <2>1, <3>2, <3>4, <4>1, <4>2
      <3> QED BY <2>2, <3>3, <3>4
    <2>5. CASE q = p /\ n \in info[q].content
      <3>1. info[q].content = {n} /\ cname[p] = {n}
        BY <2>1, <2>5 DEF Linked, OwnName, FilesApart, One
      <3>2. info'[q].content = {n}
        BY <2>2, <3>1
      <3>3. CASE e[1] = "content" /\ ok
        <4>1. p \in open \ clf
          BY <1>3, <2>1, <3>3 DEF Written
        <4>2. Stored(p) <= buf[p] /\ Stored(p) = before
          BY <3>1, <4>1, <2>5, StoredIs DEF Current
        <4>3. TextIn({n}, content') = buf[p]
          BY <1>3, <3>3, WrittenText
        <4> QED BY <1>0, <2>1, <3>2, <4>2, <4>3
      <3>4. CASE ~(e[1] = "content" /\ ok)
        <4>1. TextIn({n}, content') = before
          BY <1>3, <2>5, <3>1, <3>4, WrittenText, SMTT(30)
        <4> QED BY <1>0, <3>2, <4>1
      <3> QED BY <3>3, <3>4
    <2> QED BY <2>3, <2>4, <2>5
  <1> QED BY <1>1, <1>2, <1>3, SaveCases DEF Saved

LEMMA RestoredStep ==
    ASSUME Files, Current, Linked, [Next]_vars, "info" \notin ReadFaults,
           NEW q \in DOMAIN info \cap DOMAIN info', q \notin gone'
    PROVE  Restored(q)' >= Restored(q)
  <1> USE DEF Files
  <1>1. Restored(q)' = TextIn(info'[q].content, content')
    BY DEF Restored, TextIn
  <1>2. Restored(q) = TextIn(info[q].content, content) /\ Restored(q) \in Nat
    BY RestoredIs, TextIsNat DEF Shape, FilesApart
  <1>3. CASE UNCHANGED <<info, content>>
    BY <1>1, <1>2, <1>3
  <1>4. ASSUME NEW e, Saved(e) PROVE Restored(q)' >= Restored(q)
    BY <1>1, <1>2, <1>4, SavedTexts
  <1>5. CASE Left
    BY <1>1, <1>2, <1>5, LeftTexts
  <1>6. ASSUME NEW p \in open, Delete(p) PROVE Restored(q)' >= Restored(q)
    <2>1. /\ info' = info \/ info' = Without(info, {p} \cap iname)
          /\ content' = content \/ content' = Without(content, cname[p])
          /\ gone' = gone \cup {p}
      BY <1>6 DEF Delete
    <2>2. q # p /\ info'[q] = info[q]
      BY <2>1 DEF Without
    <2>3. One(info[q].content) /\ info[q].content \cap cname[p] = {}
      BY <2>2 DEF FilesApart
    <2>4. TextIn(info[q].content, content') = TextIn(info[q].content, content)
      <3>1. CASE content' = content
        BY <3>1
      <3>2. CASE content' = Without(content, cname[p])
        BY <2>3, <3>2, SameText DEF Without
      <3> QED BY <2>1, <3>1, <3>2
    <2> QED BY <1>1, <1>2, <2>2, <2>4
  <1>7. CASE Start
    BY <1>3, <1>7, StartGives
  <1>8. ASSUME NEW p \in Pads, Typed(p) \/ (\E f \in BOOLEAN : Added(p, f)) \/ ReloadRead(p) \/ ReloadFails(p)
        PROVE  UNCHANGED <<info, content>>
    BY <1>8 DEF Typed, Added, ReloadRead, ReloadFails, DiskKept, disk
  <1>9. Marked => UNCHANGED <<info, content>>
    BY DEF Marked, DiskKept
  <1> QED BY Steps, <1>3, <1>4, <1>5, <1>6, <1>7, <1>8, <1>9 DEF Step

(***************************************************************************)
(* What a restart would show of a note that is not deleted never goes back *)
(* to an older text, as long as its info file can be read.                 *)
(***************************************************************************)
THEOREM TextOnlyGrows == ASSUME "info" \notin ReadFaults PROVE Spec => TextNeverLost
  <1>2. Init => Linked
    BY DEF Init, Linked
  <1>3. Files /\ Linked /\ [Next]_vars => Linked'
    BY LinkedNext
  <1>4. Files /\ Current /\ Linked /\ [Next]_vars =>
            [\A p \in DOMAIN info \cap DOMAIN info' : p \notin gone' => Restored(p)' >= Restored(p)]_vars
    BY RestoredStep
  <1> QED BY Always, <1>2, <1>3, <1>4, PTL DEF Spec, TextNeverLost

-----------------------------------------------------------------------------
(***************************************************************************)
(* A pad without the flag of its info file has one, naming the content     *)
(* file the pad writes to; and a pad still without a content file is then  *)
(* hidden and untouched, so that typing in it flags both.                  *)
(***************************************************************************)
InfosCurrent ==
    \A p \in open : <<"info", p>> \notin unsaved =>
        /\ p \in DOMAIN info /\ info[p].content = cname[p]
        /\ cname[p] = {} => p \notin visible /\ <<"content", p>> \notin unsaved

LEMMA InfosSaved == ASSUME Files, InfosCurrent, NEW e, Saved(e) PROVE InfosCurrent'
  <1> DEFINE p == e[2]
  <1>1. UNCHANGED <<open, visible>> /\ open \subseteq Pads
    BY DEF Saved, Files, Shape
  <1>2. CASE Kept(e)
    BY <1>1, <1>2 DEF Kept, InfosCurrent
  <1>3. CASE Nameless(e)
    <2>1. e = <<e[1], p>> /\ e \in unsaved /\ unsaved' = unsaved /\ cname' = cname
      BY <1>3, FlagsOfOpen DEF Nameless, Files
    <2>2. \A q \in open : <<"info", q>> \notin unsaved /\ q \in DOMAIN info => q \in DOMAIN info' /\ info'[q] = info[q]
      BY <1>3, <2>1 DEF Nameless, Put
    <2> QED BY <1>1, <2>1, <2>2 DEF InfosCurrent
  <1>4. ASSUME NEW n \in Names, NEW ok \in BOOLEAN, Written(e, n, ok) PROVE InfosCurrent'
    <2>1. e = <<e[1], p>> /\ e \in unsaved /\ p \in Pads /\ e[1] \in Kinds
      BY <1>4, FlagsOfOpen DEF Written, Files
    <2>2. cname'[p] = {n} /\ (\A q \in Pads \ {p} : cname'[q] = cname[q]) /\ cname[p] \in {{}, {n}}
      BY <1>4, <2>1 DEF Written, OwnName, Files, Shape
    <2>3. unsaved' \subseteq unsaved /\ unsaved \ {e} \subseteq unsaved'
      BY <1>4 DEF Written
    <2>4. ASSUME NEW q \in open, q # p, <<"info", q>> \notin unsaved'
          PROVE  /\ q \in DOMAIN info' /\ info'[q].content = cname'[q]
                 /\ cname'[q] = {} => q \notin visible /\ <<"content", q>> \notin unsaved'
      <3>1. q \in DOMAIN info => q \in DOMAIN info' /\ info'[q] = info[q]
        BY <1>4, <2>4 DEF Written, Put
      <3>2. <<"info", q>> \notin unsaved
        BY <2>1, <2>3, <2>4
      <3> QED BY <1>1, <2>2, <2>3, <2>4, <3>1, <3>2 DEF InfosCurrent
    <2>5. ASSUME p \in open, <<"info", p>> \notin unsaved'
          PROVE  p \in DOMAIN info' /\ info'[p].content = {n}
      <3>1. CASE e[1] = "info"
        <4>1. ok /\ info' = Put(info, p, [content |-> {n}, hidden |-> p \notin visible])
          BY <1>4, <2>1, <2>5, <3>1 DEF Written
        <4> QED BY <4>1 DEF Put
      <3>2. CASE e[1] = "content"
        <4>1. info' = info /\ <<"info", p>> \notin unsaved
          BY <1>4, <2>1, <2>3, <2>5, <3>2 DEF Written
        <4>2. cname[p] = {n}
          BY <2>1, <2>2, <2>5, <3>2, <4>1 DEF InfosCurrent
        <4> QED BY <2>5, <4>1, <4>2 DEF InfosCurrent
      <3> QED BY <2>1, <3>1, <3>2 DEF Kinds
    <2> QED BY <1>1, <2>2, <2>4, <2>5 DEF InfosCurrent
  <1> QED BY <1>2, <1>3, <1>4, SaveCases DEF Saved, Files

LEMMA InfosNext == ASSUME Files, InfosCurrent, [Next]_vars PROVE InfosCurrent'
  <1> USE DEF Files
  <1>1. ASSUME NEW p \in Pads, Typed(p) PROVE InfosCurrent'
    BY <1>1 DEF Typed, DiskKept, InfosCurrent
  <1>2. ASSUME NEW p \in Pads, NEW f \in BOOLEAN, Added(p, f) PROVE InfosCurrent'
    <2>1. /\ open' = open \cup {p} /\ visible' = visible \cup {p} /\ UNCHANGED <<info, cname>>
          /\ <<"info", p>> \in unsaved' /\ unsaved \subseteq unsaved'
          /\ \A q : q # p => (<<"content", q>> \in unsaved' => <<"content", q>> \in unsaved)
      BY <1>2 DEF Added, DiskKept
    <2> QED BY <2>1 DEF InfosCurrent
  <1>3. ASSUME NEW p \in Pads, ReloadRead(p) \/ ReloadFails(p) PROVE InfosCurrent'
    <2>1. /\ UNCHANGED <<open, visible, info, cname>> /\ unsaved' \subseteq unsaved
          /\ unsaved \subseteq unsaved' \cup {<<"content", p>>}
      BY <1>3 DEF ReloadRead, ReloadFails, disk
    <2> QED BY <2>1 DEF InfosCurrent
  <1>4. CASE Marked
    <2>1. /\ UNCHANGED <<open, info, cname>> /\ unsaved \subseteq unsaved'
          /\ \A q : <<"content", q>> \in unsaved' => <<"content", q>> \in unsaved
          /\ \A q \in open : q \in visible' => q \in visible \/ <<"info", q>> \in unsaved'
      BY <1>4 DEF Marked, DiskKept
    <2> QED BY <2>1 DEF InfosCurrent
  <1>5. CASE \E e \in Entries \cup {slots[i] : i \in 1..NSlots} : Saved(e)
    BY <1>5, InfosSaved
  <1>6. ASSUME NEW p \in open, Delete(p) PROVE InfosCurrent'
    <2>1. \A q \in DOMAIN info : q # p => q \in DOMAIN info' /\ info'[q] = info[q]
      <3>1. info' = info \/ info' = Without(info, {p} \cap iname)
        BY <1>6 DEF Delete
      <3> QED BY <3>1 DEF Without
    <2>2. /\ open' = open \ {p} /\ visible' = visible \ {p} /\ cname' = cname
          /\ \A q, k : q # p => (<<k, q>> \in unsaved' <=> <<k, q>> \in unsaved)
      BY <1>6 DEF Delete, Gone, Flagged
    <2> QED BY <2>1, <2>2 DEF InfosCurrent
  <1>7. CASE Left
    BY <1>7 DEF Left, Forget, InfosCurrent
  <1>8. CASE Start
    BY <1>8, StartGives DEF InfosCurrent
  <1> QED BY Steps, <1>1, <1>2, <1>3, <1>4, <1>5, <1>6, <1>7, <1>8 DEF Step

-----------------------------------------------------------------------------
(* Quitting.                                                                *)

\* What is flagged during a quit is still to be looked at, or could not be saved.
FlushCovers == phase = "quitting" => unsaved \subseteq failed \cup flush \cup Flagged("content", clf)

LEMMA FlushStep ==
    ASSUME FlushCovers, Shape, NEW e \in Entries, Flush(e)
    PROVE  FlushCovers'
  <1>1. phase = "quitting" /\ flush' = flush \ {e} /\ UNCHANGED <<phase, clf>>
    BY DEF Flush
  <1>2. CASE SaveSkipped(e)
    <2>1. e \notin unsaved \/ e \in Flagged("content", clf)
      BY <1>2 DEF SaveSkipped, Skipped, Flagged, Entries
    <2> QED BY <1>1, <1>2, <2>1 DEF SaveSkipped, FlushCovers
  <1>3. CASE SaveNameless(e)
    BY <1>1, <1>3 DEF SaveNameless, FlushCovers
  <1>4. ASSUME NEW ok \in BOOLEAN, SaveWritten(e, ok) PROVE FlushCovers'
    <2>1. unsaved' = (IF ok THEN unsaved \ {e} ELSE unsaved)
          /\ failed' = (IF ok THEN failed \ {e} ELSE failed \cup {e})
      BY <1>4 DEF SaveWritten, FlagsAfter
    <2> QED BY <1>1, <2>1 DEF FlushCovers
  <1> QED BY <1>2, <1>3, <1>4 DEF Flush, Save

LEMMA QuitBegins ==
    ASSUME Shape, NEW V, NEW R \in SUBSET ({"info"} \X open), QuitWith(V, R)
    PROVE  FlushCovers'
  BY DEF QuitWith, ToSave, FlushCovers, Shape, Kinds

LEMMA CloseCovers ==
    ASSUME Shape, phase = "up", NEW q \in Seq(open), q # <<>>, NEW resized \in BOOLEAN, Close(q, resized)
    PROVE  FlushCovers'
  <1>1. CASE phase' = phase
    BY <1>1 DEF FlushCovers
  <1>2. CASE \E R \in SUBSET ({"info"} \X open) : QuitWith({}, R)
    BY <1>2, QuitBegins
  <1> QED BY <1>1, <1>2, CloseFlags

LEMMA FlushNext == ASSUME Shape, FlushCovers, [Next]_vars PROVE FlushCovers'
  <1> USE DEF disk, timer, memory
  <1>1. ASSUME NEW p \in Pads, Pad(p) PROVE FlushCovers'
    <2>1. CASE ClosePad(p)
      <3>1. phase = "up"
        BY <2>1 DEF ClosePad, AtPad
      <3> QED BY <2>1, <3>1, ClosePadFlags, CloseCovers
    <2>2. CASE \/ TextChanged(p) \/ InfoChanged(p) \/ AskDelete(p) \/ ReloadRead(p) \/ ReloadFails(p)
      BY <2>2 DEF TextChanged, InfoChanged, AskDelete, ReloadRead, ReloadFails, AtPad, FlushCovers
    <2>3. CASE ShowPad(p) \/ \E f \in BOOLEAN : NewPad(p, f)
      BY <2>3 DEF ShowPad, NewPad, Looping, FlushCovers
    <2>4. CASE DeleteAtOnce(p) \/ ConfirmDelete(p)
      BY <2>4 DEF DeleteAtOnce, ConfirmDelete, AtPad, Answered, Delete, FlushCovers
    <2>5. CASE KilledMidDelete(p)
      BY <2>5 DEF KilledMidDelete, Die, FlushCovers
    <2> QED BY <1>1, <2>1, <2>2, <2>3, <2>4, <2>5 DEF Pad
  <1>2. CASE FirstIdle
    <2>1. CASE QuitWith(visible, {})
      BY <2>1, QuitBegins
    <2>2. CASE phase' = phase
      BY <1>2, <2>2 DEF FirstIdle, Looping, FlushCovers
    <2> QED BY <1>2, <2>1, <2>2 DEF FirstIdle
  <1>3. CASE Start \/ Kill \/ SlotsFull \/ Quit
    BY <1>3 DEF Start, Kill, SlotsFull, Quit, Die, FlushCovers
  <1>4. CASE Fire \/ Dismiss \/ ShowPads \/ CancelDelete \/ BackupTimeout
    BY <1>4 DEF Fire, Dismiss, ShowPads, CancelDelete, BackupTimeout, Looping, Answered, FlushCovers
  <1>5. CASE KilledInTick \/ \E e \in Entries : KilledInFlush(e)
    BY <1>5 DEF KilledInTick, KilledInFlush, KilledMidSave, Die, FlushCovers
  <1>6. CASE \E e \in Entries : Flush(e)
    BY <1>6, FlushStep
  <1>7. CASE ClosePads
    BY <1>7, ClosePadsFlags, CloseCovers DEF ClosePads, Looping
  <1>8. CASE QuitRequested
    BY <1>8, QuitBegins DEF QuitRequested
  <1>9. CASE DismissInFlush \/ UNCHANGED vars
    BY <1>9 DEF DismissInFlush, vars, FlushCovers
  <1> QED BY <1>1, <1>2, <1>3, <1>4, <1>5, <1>6, <1>7, <1>8, <1>9 DEF Next

LEMMA QuitIsQuit == ASSUME [Next]_vars, phase = "quitting", phase' = "quit" PROVE Quit
  <1> USE DEF disk, timer, memory
  <1>1. ~(\E p \in Pads : Pad(p))
    <2> SUFFICES ASSUME NEW p \in Pads, Pad(p) PROVE FALSE
      OBVIOUS
    <2>1. ~(ClosePad(p) \/ TextChanged(p) \/ InfoChanged(p) \/ AskDelete(p) \/ ReloadRead(p) \/ ReloadFails(p))
      BY DEF ClosePad, TextChanged, InfoChanged, AskDelete, ReloadRead, ReloadFails, AtPad
    <2>2. ~(ShowPad(p) \/ \E f \in BOOLEAN : NewPad(p, f))
      BY DEF ShowPad, NewPad, Looping
    <2>3. ~(DeleteAtOnce(p) \/ ConfirmDelete(p) \/ KilledMidDelete(p))
      BY DEF DeleteAtOnce, ConfirmDelete, KilledMidDelete, AtPad, Answered
    <2> QED BY <2>1, <2>2, <2>3 DEF Pad
  <1>2. ~(FirstIdle \/ Start \/ Kill \/ SlotsFull)
    BY DEF FirstIdle, Start, Kill, SlotsFull, Die, Looping
  <1>3. ~(Fire \/ Dismiss \/ ShowPads \/ CancelDelete \/ BackupTimeout \/ KilledInTick)
    BY DEF Fire, Dismiss, ShowPads, CancelDelete, BackupTimeout, KilledInTick, Looping, Answered
  <1>4. ~(\E e \in Entries : Flush(e) \/ KilledInFlush(e))
    BY DEF Flush, KilledInFlush, KilledMidSave, Die
  <1>5. ~(ClosePads \/ QuitRequested \/ DismissInFlush \/ UNCHANGED vars)
    BY DEF ClosePads, QuitRequested, DismissInFlush, Looping, vars
  <1> QED BY <1>1, <1>2, <1>3, <1>4, <1>5 DEF Next

LEMMA QuitStep ==
    ASSUME Files, Current, InfosCurrent, FlushCovers, Quit,
           NEW p \in open \ clf, Gone(p) \cap failed = {}
    PROVE  Restored(p)' = buf[p]
  <1> USE DEF Files
  <1>1. phase = "quitting" /\ flush = {} /\ info' = info /\ content' = Named(info, content)
    BY DEF Quit
  <1>2. <<"content", p>> \notin unsaved /\ <<"info", p>> \notin unsaved
    BY <1>1 DEF FlushCovers, Flagged, Gone
  <1>3. Stored(p) = buf[p] /\ p \in DOMAIN info /\ info[p].content = cname[p]
    BY <1>2 DEF Current, InfosCurrent
  <1>4. Restored(p)' = TextIn(info[p].content, content')
    BY <1>1, <1>3 DEF Restored, TextIn
  <1>5. One(info[p].content)
    BY <1>3 DEF FilesApart
  <1>6. TextIn(info[p].content, content') = TextIn(info[p].content, content)
    BY <1>1, <1>3, <1>5, NamedIs, SameText
  <1> QED BY <1>3, <1>4, <1>6, StoredIs

(***************************************************************************)
(* A quit leaves the text of every pad it could read, and whose writes did *)
(* not fail, where the next start looks for it: save_unsaved_all looks at  *)
(* every open pad's flags, whether or not the timer had heard of them.     *)
(***************************************************************************)
THEOREM QuitSaves == Spec => QuitSavesEverything
  <1>1. Init => InfosCurrent /\ FlushCovers
    BY DEF Init, InfosCurrent, FlushCovers
  <1>2. Files /\ InfosCurrent /\ FlushCovers /\ [Next]_vars => InfosCurrent' /\ FlushCovers'
    BY InfosNext, FlushNext DEF Files
  <1>3. Files /\ Current /\ InfosCurrent /\ FlushCovers /\ [Next]_vars =>
            [phase = "quitting" /\ phase' = "quit" =>
                \A p \in open \ clf : Gone(p) \cap failed = {} => Restored(p)' = buf[p]]_vars
    BY QuitIsQuit, QuitStep
  <1> QED BY Always, <1>1, <1>2, <1>3, PTL DEF Spec, QuitSavesEverything

-----------------------------------------------------------------------------
\* A committed change that no backup followed has the timer running.
BackupDue ==
    /\ stale => HasHelper /\ phase \in {"up", "quitting"}
    /\ stale => armed

LEMMA BackupDueNext == ASSUME BackupDue, [Next]_vars PROVE BackupDue'
  <1> USE DEF disk, timer, memory
  <1>1. ASSUME NEW e, Save(e), UNCHANGED phase, phase \in {"up", "quitting"} PROVE BackupDue'
    <2>1. CASE SaveSkipped(e) \/ SaveNameless(e)
      BY <1>1, <2>1 DEF SaveSkipped, SaveNameless, BackupDue
    <2>2. ASSUME NEW ok \in BOOLEAN, SaveWritten(e, ok) PROVE BackupDue'
      <3>1. armed' = (armed \/ (ok /\ HasHelper)) /\ stale' = (stale \/ (ok /\ HasHelper))
        BY <2>2 DEF SaveWritten
      <3>2. phase' = phase /\ phase \in {"up", "quitting"}
        BY <1>1
      <3> QED BY <3>1, <3>2, Zenon DEF BackupDue
    <2> QED BY <1>1, <2>1, <2>2 DEF Save
  <1>2. ASSUME NEW q, NEW resized, Close(q, resized), phase = "up" PROVE BackupDue'
    BY <1>2 DEF Close, QuitWith, BackupDue
  <1>3. ASSUME NEW p \in Pads, Pad(p) PROVE BackupDue'
    <2>1. CASE ClosePad(p)
      BY <1>2, <2>1 DEF ClosePad, AtPad
    <2>2. CASE \/ TextChanged(p) \/ InfoChanged(p) \/ AskDelete(p) \/ ReloadRead(p) \/ ReloadFails(p)
               \/ ShowPad(p) \/ \E f \in BOOLEAN : NewPad(p, f)
      BY <2>2 DEF TextChanged, InfoChanged, AskDelete, ReloadRead, ReloadFails, ShowPad, NewPad, BackupDue
    <2>3. CASE DeleteAtOnce(p) \/ ConfirmDelete(p)
      BY <2>3 DEF DeleteAtOnce, ConfirmDelete, AtPad, Answered, Delete, BackupDue
    <2>4. CASE KilledMidDelete(p)
      BY <2>4 DEF KilledMidDelete, Die, BackupDue
    <2> QED BY <1>3, <2>1, <2>2, <2>3, <2>4 DEF Pad
  <1>4. CASE FirstIdle
    BY <1>4 DEF FirstIdle, Looping, QuitWith, BackupDue
  <1>5. CASE Kill \/ SlotsFull \/ KilledInTick \/ \E e \in Entries : KilledInFlush(e)
    BY <1>5 DEF Kill, SlotsFull, KilledInTick, KilledInFlush, KilledMidSave, Die, BackupDue
  <1>6. CASE Start \/ Dismiss \/ DismissInFlush \/ ShowPads \/ CancelDelete \/ BackupTimeout
    BY <1>6 DEF Start, Dismiss, DismissInFlush, ShowPads, CancelDelete, BackupTimeout, BackupDue
  <1>7. CASE Fire
    BY <1>1, <1>7 DEF Fire
  <1>8. CASE \E e \in Entries : Flush(e)
    BY <1>1, <1>8 DEF Flush
  <1>9. CASE Quit
    BY <1>9 DEF Quit, Forget, BackupDue
  <1>10. CASE ClosePads
    BY <1>2, <1>10 DEF ClosePads, Looping
  <1>11. CASE QuitRequested \/ UNCHANGED vars
    BY <1>11 DEF QuitRequested, Looping, QuitWith, vars, BackupDue
  <1> QED BY <1>3, <1>4, <1>5, <1>6, <1>7, <1>8, <1>9, <1>10, <1>11 DEF Next

(***************************************************************************)
(* After a quit nothing committed waits for a backup: each commit starts   *)
(* the timer, and xpad_backup_flush runs what the timer still held.        *)
(***************************************************************************)
THEOREM QuitAlwaysBacksUp == Spec => []QuitBacksUp
  <1>1. Init => BackupDue
    BY DEF Init, BackupDue
  <1>2. BackupDue /\ [Next]_vars => BackupDue'
    BY BackupDueNext
  <1>3. BackupDue => QuitBacksUp
    BY DEF BackupDue, QuitBacksUp
  <1> QED BY <1>1, <1>2, <1>3, PTL DEF Spec

-----------------------------------------------------------------------------
(* The timer's slots.                                                      *)

Table == [1..NSlots -> Entries \cup {Free}]
HeldIn(sl) == {sl[i] : i \in 1..NSlots}

LEMMA FreeIsNoEntry == Free \notin Entries
  BY DEF Free, Entries

LEMMA EntriesFinite == IsFiniteSet(Entries)
  <1>1. IsFiniteSet({"content", "info"})
    <2>1. IsFiniteSet({} \cup {"content"})
      BY FS_EmptySet, FS_AddElement
    <2>2. IsFiniteSet(({} \cup {"content"}) \cup {"info"})
      BY <2>1, FS_AddElement
    <2>3. ({} \cup {"content"}) \cup {"info"} = {"content", "info"}
      OBVIOUS
    <2> QED BY <2>2, <2>3
  <1> QED BY <1>1, PadsAssumption, FS_Product DEF Entries

LEMMA TableFinite == ASSUME NEW sl PROVE IsFiniteSet(FreeIn(sl)) /\ Cardinality(FreeIn(sl)) \in Nat
  <1>1. IsFiniteSet(1..NSlots)
    BY FS_Interval, SlotsAssumption
  <1>2. FreeIn(sl) \subseteq 1..NSlots
    BY DEF FreeIn
  <1> QED BY <1>1, <1>2, FS_Subset, FS_CardinalityType

-----------------------------------------------------------------------------
(* Scheduling (xpad_periodic_save_content_delayed and the like).            *)

\* What scheduling keeps: the slots in use, and room for what is left of E.
Grown(sl, new) ==
    /\ new \in Table
    /\ \A i \in 1..NSlots : sl[i] # Free => new[i] = sl[i]

Room(E, sl) == Cardinality(E \ HeldIn(sl)) <= Cardinality(FreeIn(sl))

LEMMA ScheduleOne ==
    ASSUME NEW sl \in Table, NEW E \in SUBSET Entries, NEW e \in E, Room(E, sl)
    PROVE  /\ Grown(sl, Schedule(sl, e)) /\ Room(E, Schedule(sl, e))
           /\ e \in HeldIn(Schedule(sl, e))
  <1> DEFINE new == Schedule(sl, e)
  <1>1. CASE e \in HeldIn(sl)
    <2>1. new = sl
      BY <1>1 DEF Schedule, HeldIn
    <2> QED BY <1>1, <2>1 DEF Grown
  <1>2. CASE e \notin HeldIn(sl)
    <2>1. IsFiniteSet(E \ HeldIn(sl)) /\ Cardinality(E \ HeldIn(sl)) \in Nat /\ e \in E \ HeldIn(sl)
      BY <1>2, EntriesFinite, FS_Subset, FS_CardinalityType
    <2>2. Cardinality(E \ HeldIn(sl)) # 0
      BY <2>1, FS_EmptySet
    <2>3. IsFiniteSet(FreeIn(sl)) /\ Cardinality(FreeIn(sl)) \in Nat
      BY TableFinite
    <2>4. FreeIn(sl) # {}
      BY <2>1, <2>2, <2>3, FS_EmptySet DEF Room
    <2>5. FreeIn(sl) \in SUBSET (1..NSlots)
      BY DEF FreeIn
    <2> DEFINE k == Lowest(FreeIn(sl))
    <2>6. k \in FreeIn(sl)
      BY <2>4, <2>5, LowestIn
    <2> HIDE DEF k
    <2>7. new = [sl EXCEPT ![k] = e]
      BY <1>2, <2>4 DEF Schedule, HeldIn, k
    <2>8. k \in 1..NSlots /\ sl[k] = Free
      BY <2>6 DEF FreeIn
    <2> HIDE DEF new
    <2>9. /\ new \in Table /\ new[k] = e
          /\ \A i \in 1..NSlots : i # k => new[i] = sl[i]
      BY <2>7, <2>8 DEF Table
    <2>10. e \in HeldIn(new)
      BY <2>8, <2>9 DEF HeldIn
    <2>11. FreeIn(new) = FreeIn(sl) \ {k}
      BY <2>8, <2>9, FreeIsNoEntry DEF FreeIn
    <2>12. E \ HeldIn(new) = (E \ HeldIn(sl)) \ {e}
      <3>1. HeldIn(new) \subseteq HeldIn(sl) \cup {e}
        BY <2>9 DEF HeldIn
      <3>2. \A x \in E : x \in HeldIn(sl) => x \in HeldIn(new)
        BY <2>8, <2>9, FreeIsNoEntry DEF HeldIn
      <3> QED BY <2>10, <3>1, <3>2
    <2>13. Cardinality(FreeIn(new)) = Cardinality(FreeIn(sl)) - 1
      BY <2>3, <2>6, <2>11, FS_RemoveElement
    <2>14. Cardinality(E \ HeldIn(new)) = Cardinality(E \ HeldIn(sl)) - 1
      <3> DEFINE S == E \ HeldIn(sl)
      <3>1. IsFiniteSet(S) /\ e \in S
        BY <2>1
      <3> HIDE DEF S
      <3>2. Cardinality(S \ {e}) = Cardinality(S) - 1
        BY <3>1, FS_RemoveElement
      <3> QED BY <2>12, <3>2 DEF S
    <2>15. Room(E, new)
      BY <2>1, <2>3, <2>13, <2>14 DEF Room
    <2> QED BY <2>8, <2>9, <2>10, <2>15 DEF Grown, new
  <1> QED BY <1>1, <1>2

\* The recursion of ScheduleAll, up to n.
Run(f, n, sl, q) == f = [i \in 0..n |-> IF i = 0 THEN sl ELSE Schedule(f[i - 1], q[i])]

LEMMA RunExists == ASSUME NEW sl, NEW q, NEW n \in Nat PROVE \E f : Run(f, n, sl, q)
  <1> DEFINE T == {m \in Nat : ~ \E f : Run(f, m, sl, q)}
  <1> SUFFICES ASSUME T # {} PROVE FALSE
    OBVIOUS
  <1>1. PICK m \in T : \A k \in T : m <= k
    BY Least
  <1>2. CASE m = 0
    <2>1. Run([i \in 0..0 |-> sl], 0, sl, q)
      BY DEF Run
    <2> QED BY <1>1, <1>2, <2>1
  <1>3. CASE m # 0
    <2>1. m - 1 \in Nat /\ m - 1 \notin T
      BY <1>1, <1>3
    <2>2. PICK f : Run(f, m - 1, sl, q)
      BY <2>1
    <2> DEFINE g == [i \in 0..m |-> IF i = m THEN Schedule(f[m - 1], q[m]) ELSE f[i]]
    <2>3. \A i \in 0..(m - 1) : f[i] = IF i = 0 THEN sl ELSE Schedule(f[i - 1], q[i])
      BY <2>2 DEF Run
    <2>4. ASSUME NEW i \in 0..m
          PROVE  g[i] = IF i = 0 THEN sl ELSE Schedule(g[i - 1], q[i])
      <3>1. CASE i = m
        BY <1>1, <1>3, <2>1, <3>1
      <3>2. CASE i # m
        BY <1>1, <2>1, <2>3, <3>2
      <3> QED BY <3>1, <3>2
    <2>5. g = [i \in 0..m |-> g[i]]
      OBVIOUS
    <2> HIDE DEF g
    <2>6. Run(g, m, sl, q)
      BY <2>4, <2>5 DEF Run
    <2> QED BY <1>1, <2>6
  <1> QED BY <1>2, <1>3

LEMMA ScheduleAllRuns ==
    ASSUME NEW sl, NEW q, Len(q) \in Nat
    PROVE  \E f : Run(f, Len(q), sl, q) /\ ScheduleAll(sl, q) = f[Len(q)]
  <1>1. \E f : Run(f, Len(q), sl, q)
    BY RunExists
  <1>2. ScheduleAll(sl, q) = (CHOOSE f : Run(f, Len(q), sl, q))[Len(q)]
    BY DEF ScheduleAll, Run
  <1> QED BY <1>1, <1>2

\* Where there is room for all of q, all of q gets a slot and nothing loses one.
LEMMA ScheduleAllGrows ==
    ASSUME NEW sl \in Table, NEW q \in Seq(Entries), Room(Elements(q), sl)
    PROVE  /\ Grown(sl, ScheduleAll(sl, q))
           /\ Elements(q) \subseteq HeldIn(ScheduleAll(sl, q))
  <1> DEFINE n == Len(q)
             E == Elements(q)
  <1>1. n \in Nat /\ DOMAIN q = 1..n /\ (\A i \in 1..n : q[i] \in E) /\ E \in SUBSET Entries
    BY LenProperties, ElementOfSeq DEF Elements
  <1>2. PICK f : Run(f, n, sl, q) /\ ScheduleAll(sl, q) = f[n]
    BY <1>1, ScheduleAllRuns
  <1>3. f[0] = sl /\ \A i \in 1..n : f[i] = Schedule(f[i - 1], q[i])
    BY <1>1, <1>2 DEF Run
  <1> HIDE DEF n, E
  <1> DEFINE P(i) == /\ Grown(sl, f[i]) /\ Room(E, f[i])
                     /\ \A j \in 1..i : q[j] \in HeldIn(f[i])
             T == {i \in 0..n : ~P(i)}
  <1>4. P(0)
    BY <1>3 DEF Grown, E
  <1>5. ASSUME NEW i \in 1..n, P(i - 1) PROVE P(i)
    <2>1. f[i - 1] \in Table /\ Room(E, f[i - 1]) /\ q[i] \in E /\ f[i] = Schedule(f[i - 1], q[i])
      BY <1>1, <1>3, <1>5 DEF Grown
    <2>2. Grown(f[i - 1], f[i]) /\ Room(E, f[i]) /\ q[i] \in HeldIn(f[i])
      BY <1>1, <2>1, ScheduleOne
    <2>3. Grown(sl, f[i])
      BY <1>5, <2>2 DEF Grown
    <2>4. \A x \in E : x \in HeldIn(f[i - 1]) => x \in HeldIn(f[i])
      BY <1>1, <2>2, FreeIsNoEntry DEF Grown, HeldIn
    <2>5. \A j \in 1..i : q[j] \in HeldIn(f[i])
      <3> SUFFICES ASSUME NEW j \in 1..i PROVE q[j] \in HeldIn(f[i])
        OBVIOUS
      <3>1. CASE j = i
        BY <2>2, <3>1
      <3>2. CASE j # i
        BY <1>1, <1>5, <2>4, <3>2
      <3> QED BY <3>1, <3>2
    <2> QED BY <2>2, <2>3, <2>5
  <1> HIDE DEF P
  <1>6. T = {}
    <2> SUFFICES ASSUME T # {} PROVE FALSE
      OBVIOUS
    <2>1. PICK m \in T : \A k \in T : m <= k
      <3>1. T \in SUBSET Nat
        BY <1>1
      <3> HIDE DEF T
      <3> QED BY <3>1, Least
    <2>2. m \in 1..n /\ m - 1 \in 0..n /\ m - 1 \notin T
      BY <1>1, <1>4, <2>1
    <2> QED BY <1>5, <2>1, <2>2
  <1>7. P(n)
    BY <1>1, <1>6
  <1> QED BY <1>1, <1>2, <1>7 DEF P, E, Elements

LEMMA PendingIs == Pending = HeldIn(slots) \ {Free}
  BY DEF Pending, HeldIn

LEMMA DelayedSlots ==
    ASSUME slots \in Table, NEW q \in Seq(Entries), Delayed(q)
    PROVE  Grown(slots, slots') /\ Elements(q) \subseteq HeldIn(slots')
  <1>1. Elements(q) \subseteq Entries
    BY LenProperties, ElementOfSeq DEF Elements
  <1>2. Elements(q) \ Pending = Elements(q) \ HeldIn(slots)
    BY <1>1, PendingIs, FreeIsNoEntry
  <1>3. Room(Elements(q), slots) /\ slots' = ScheduleAll(slots, q)
    BY <1>2 DEF Delayed, Fits, Room
  <1> QED BY <1>3, ScheduleAllGrows

LEMMA InfosEntries == ASSUME NEW S \in SUBSET Pads, NEW q \in Seq(S) PROVE Infos(q) \in Seq(Entries)
  <1>1. Len(q) \in Nat /\ DOMAIN q = 1..Len(q) /\ \A i \in 1..Len(q) : q[i] \in Pads
    BY LenProperties, ElementOfSeq
  <1>2. Infos(q) \in [1..Len(q) -> Entries]
    BY <1>1 DEF Infos, Entries
  <1> QED BY <1>1, <1>2

-----------------------------------------------------------------------------
(* Flags and slots.                                                         *)

\* The slots and the place of the tick among them.
TimerOK ==
    /\ slots \in Table /\ cursor \in 0..NSlots
    /\ cursor > 0 => \E i \in cursor..NSlots : slots[i] # Free

\* The entry whose dialog is open failed, so the slot it keeps is not missed.
DialogOK ==
    /\ phase = "up" /\ dialog => cursor \in 1..NSlots /\ slots[cursor] # Free /\ slots[cursor] \in failed
    /\ phase \in Ended => ~dialog

Timer == TimerOK /\ EditsAreScheduled /\ DialogOK

\* Flags are set and their slots claimed, between ticks or under a dialog.
LEMMA DelayedTimer ==
    ASSUME Timer, NEW q \in Seq(Entries), Delayed(q), phase = "up",
           UNCHANGED <<phase, clf, cursor, dialog, failed>>
    PROVE  Timer'
  <1>1. Grown(slots, slots') /\ Elements(q) \subseteq HeldIn(slots')
    BY DelayedSlots DEF Timer, TimerOK
  <1>2. unsaved' = unsaved \cup Elements(q) /\ early' = early \ Elements(q)
    BY DEF Delayed
  <1>3. TimerOK'
    BY <1>1, SlotsAssumption DEF Timer, TimerOK, Grown
  <1>4. Elements(q) \subseteq Entries
    BY LenProperties, ElementOfSeq DEF Elements
  <1>5. \A x \in Pending : x \in Pending'
    BY <1>1 DEF Pending, Grown
  <1>6. Elements(q) \subseteq Pending'
    BY <1>1, <1>4, FreeIsNoEntry DEF Pending, HeldIn
  <1>7. EditsAreScheduled'
    BY <1>2, <1>5, <1>6 DEF Timer, EditsAreScheduled
  <1>8. DialogOK'
    <2> SUFFICES ASSUME dialog
                 PROVE  /\ cursor \in 1..NSlots /\ slots'[cursor] # Free
                        /\ slots'[cursor] \in failed
      BY DEF DialogOK, Ended
    <2>1. cursor \in 1..NSlots /\ slots'[cursor] = slots[cursor] /\ slots[cursor] # Free
      BY <1>1 DEF Timer, DialogOK, Grown
    <2> QED BY <2>1 DEF Timer, DialogOK
  <1> QED BY <1>3, <1>7, <1>8 DEF Timer

\* What a save does to the flags of others, and how it excuses its own.
LEMMA SaveTimes ==
    ASSUME NEW e \in Entries, Save(e)
    PROVE  /\ unsaved' \subseteq unsaved
           /\ \A x : x # e => (x \in failed => x \in failed') /\ (x \in early => x \in early')
           /\ dialog' => e \in failed'
           /\ e \in unsaved' => e \in failed' \cup Flagged("content", clf)
  <1>1. CASE SaveSkipped(e)
    <2>1. e \in unsaved => e \in Flagged("content", clf)
      BY <1>1 DEF SaveSkipped, Skipped, Flagged, Entries
    <2> QED BY <1>1, <2>1 DEF SaveSkipped
  <1>2. CASE SaveNameless(e)
    BY <1>2 DEF SaveNameless
  <1>3. ASSUME SaveWritten(e, TRUE)
        PROVE  /\ unsaved' = unsaved \ {e} /\ failed' = failed \ {e} /\ early' = early \ {e}
               /\ dialog' = FALSE
    BY <1>3 DEF SaveWritten, FlagsAfter
  <1>4. ASSUME SaveWritten(e, FALSE)
        PROVE  unsaved' = unsaved /\ failed' = failed \cup {e} /\ early' = early \ {e}
    BY <1>4 DEF SaveWritten, FlagsAfter
  <1> QED BY <1>1, <1>2, <1>3, <1>4 DEF Save

\* A slot is cleared and the tick goes on from there.
LEMMA SlotDone ==
    ASSUME TimerOK, NEW k \in 1..NSlots, slots' = [slots EXCEPT ![k] = Free], cursor' = After(k)
    PROVE  TimerOK' /\ \A x \in Pending : x # slots[k] => x \in Pending'
  <1>1. slots' \in Table /\ slots'[k] = Free /\ \A i \in 1..NSlots : i # k => slots'[i] = slots[i]
    BY DEF TimerOK, Table
  <1>2. CASE \E j \in 1..NSlots : j > k /\ slots[j] # Free
    <2>1. cursor' = k + 1
      BY <1>2 DEF After
    <2>2. PICK j \in 1..NSlots : j > k /\ slots[j] # Free
      BY <1>2
    <2>3. j \in cursor'..NSlots /\ slots'[j] # Free /\ cursor' \in 0..NSlots
      BY <1>1, <2>1, <2>2, SlotsAssumption
    <2> QED BY <1>1, <2>3 DEF TimerOK, Pending
  <1>3. CASE ~ \E j \in 1..NSlots : j > k /\ slots[j] # Free
    <2>1. cursor' = 0
      BY <1>3 DEF After
    <2> QED BY <1>1, <2>1, SlotsAssumption DEF TimerOK, Pending
  <1> QED BY <1>2, <1>3

LEMMA FireTimer == ASSUME Timer, Fire PROVE Timer'
  <1> DEFINE k == NextSlot
             e == slots[k]
  <1>1. k \in Claimed
    <2>1. Claimed \in SUBSET (1..NSlots) /\ Claimed # {}
      BY DEF Fire, Claimed
    <2> QED BY <2>1, LowestIn DEF NextSlot
  <1>2. k \in 1..NSlots /\ e # Free /\ e \in Entries
    BY <1>1 DEF Claimed, Timer, TimerOK, Table
  <1> HIDE DEF k
  <1>3. /\ Save(e) /\ phase = "up" /\ UNCHANGED <<phase, clf>>
        /\ IF dialog' THEN cursor' = k /\ UNCHANGED slots
           ELSE cursor' = After(k) /\ slots' = [slots EXCEPT ![k] = Free]
    BY DEF Fire, k
  <1> HIDE DEF e
  <1>4. /\ unsaved' \subseteq unsaved
        /\ \A x : x # e => (x \in failed => x \in failed') /\ (x \in early => x \in early')
        /\ dialog' => e \in failed'
        /\ e \in unsaved' => e \in failed' \cup Flagged("content", clf)
    BY <1>2, <1>3, SaveTimes
  <1>5. TimerOK' /\ (\A x \in Pending : x # e => x \in Pending')
    <2>1. CASE dialog'
      BY <1>2, <1>3, <2>1, SlotsAssumption DEF Timer, TimerOK, Pending, e
    <2>2. CASE ~dialog'
      BY <1>2, <1>3, <2>2, SlotDone DEF Timer, e
    <2> QED BY <2>1, <2>2
  <1>6. EditsAreScheduled'
    BY <1>3, <1>4, <1>5 DEF Timer, EditsAreScheduled
  <1>7. DialogOK'
    <2>1. CASE dialog'
      BY <1>2, <1>3, <1>4, <2>1 DEF DialogOK, Ended, e
    <2>2. CASE ~dialog'
      BY <2>2 DEF DialogOK
    <2> QED BY <2>1, <2>2
  <1> QED BY <1>5, <1>6, <1>7 DEF Timer

LEMMA DismissTimer == ASSUME Timer, Dismiss PROVE Timer'
  <1>1. /\ phase = "up" /\ dialog /\ dialog' = FALSE /\ slots' = [slots EXCEPT ![cursor] = Free]
        /\ cursor' = After(cursor) /\ UNCHANGED <<phase, unsaved, clf, failed, early>>
    BY DEF Dismiss, memory
  <1>2. cursor \in 1..NSlots /\ slots[cursor] \in failed
    BY <1>1 DEF Timer, DialogOK
  <1>3. TimerOK' /\ \A x \in Pending : x # slots[cursor] => x \in Pending'
    BY <1>1, <1>2, SlotDone DEF Timer
  <1>4. EditsAreScheduled'
    BY <1>1, <1>2, <1>3 DEF Timer, EditsAreScheduled
  <1>5. DialogOK'
    BY <1>1 DEF DialogOK
  <1> QED BY <1>3, <1>4, <1>5 DEF Timer

LEMMA DeleteTimer == ASSUME Timer, NEW p \in Pads, Delete(p), phase = "up", cursor = 0, ~dialog PROVE Timer'
  <1>1. /\ unsaved' = unsaved \ Gone(p) /\ failed' = failed \ Gone(p) /\ early' = early \ Gone(p)
        /\ UNCHANGED <<phase, clf, cursor, dialog>> /\ slots' \in {slots, Dropped(p)}
    BY DEF Delete
  <1>2. \A x \in Entries : x \in Gone(p) <=> x[2] = p
    BY DEF Gone, Flagged, Entries
  <1>3. \A x \in Pending : x \in Gone(p) \/ x \in Pending'
    <2>1. CASE slots' = slots
      BY <2>1 DEF Pending
    <2>2. CASE slots' = Dropped(p)
      BY <1>2, <2>2 DEF Pending, Dropped
    <2> QED BY <1>1, <2>1, <2>2
  <1>4. slots' \in Table
    BY <1>1 DEF Timer, TimerOK, Dropped, Table
  <1>5. TimerOK' /\ DialogOK'
    BY <1>1, <1>4, SlotsAssumption DEF TimerOK, DialogOK
  <1>6. EditsAreScheduled'
    BY <1>1, <1>3 DEF Timer, EditsAreScheduled
  <1> QED BY <1>5, <1>6 DEF Timer

\* A quit or an end forgets the slots.
LEMMA EndTimer ==
    ASSUME slots' = [i \in 1..NSlots |-> Free], cursor' = 0, dialog' = FALSE, phase' # "up"
    PROVE  Timer'
  BY SlotsAssumption DEF Timer, TimerOK, Table, EditsAreScheduled, DialogOK

LEMMA SameTimer ==
    ASSUME Timer, UNCHANGED <<phase, slots, cursor>>,
           phase # "quitting" => UNCHANGED <<dialog, unsaved, failed, early, clf>>
    PROVE  Timer'
  BY DEF Timer, TimerOK, EditsAreScheduled, DialogOK, Pending, Ended

LEMMA ShowAllTimer ==
    ASSUME Shape, Timer, ShowAll, phase = "up", UNCHANGED <<phase, clf, cursor, dialog, failed>>
    PROVE  Timer'
  <1>1. PICK q \in Orders(open \ visible) : Delayed(Infos(q))
    BY DEF ShowAll
  <1>2. open \ visible \in SUBSET Pads
    BY DEF Shape
  <1>3. Infos(q) \in Seq(Entries)
    BY <1>2, OrderIsWalk, InfosEntries
  <1> QED BY <1>1, <1>3, DelayedTimer

LEMMA CloseTimer ==
    ASSUME Shape, Timer, phase = "up", NEW q \in Seq(open), NEW resized \in BOOLEAN, Close(q, resized)
    PROVE  Timer'
  <1>1. CASE Delayed(Infos(q)) /\ UNCHANGED <<phase, clf, cursor, dialog, failed>>
    <2>1. Infos(q) \in Seq(Entries)
      BY InfosEntries DEF Shape
    <2> QED BY <1>1, <2>1, DelayedTimer
  <1>2. CASE \E R : QuitWith({}, R)
    BY <1>2, EndTimer DEF QuitWith
  <1> QED BY <1>1, <1>2 DEF Close

LEMMA PadTimer == ASSUME Shape, Timer, NEW p \in Pads, Pad(p) PROVE Timer'
  <1> USE DEF disk, timer, memory
  <1>1. <<"info", p>> \in Entries /\ <<"content", p>> \in Entries
    BY DEF Entries
  <1>2. CASE TextChanged(p)
    <2>1. <<<<"content", p>>>> \in Seq(Entries)
      BY <1>1
    <2> QED BY <1>2, <2>1, DelayedTimer DEF TextChanged, AtPad
  <1>3. CASE InfoChanged(p)
    <2>1. <<<<"info", p>>>> \in Seq(Entries)
      BY <1>1
    <2> QED BY <1>3, <2>1, DelayedTimer DEF InfoChanged, AtPad
  <1>4. CASE ShowPad(p)
    <2>1. <<<<"info", p>>>> \in Seq(Entries)
      BY <1>1
    <2> QED BY <1>4, <2>1, DelayedTimer DEF ShowPad, Looping
  <1>5. ASSUME NEW f \in BOOLEAN, NewPad(p, f) PROVE Timer'
    <2> DEFINE q == IF f THEN <<<<"info", p>>, <<"content", p>>>> ELSE <<<<"info", p>>>>
    <2>1. Delayed(q) /\ phase = "up" /\ UNCHANGED <<phase, clf, cursor, dialog, failed>>
      BY <1>5 DEF NewPad, Looping
    <2>2. q \in Seq(Entries)
      BY <1>1
    <2> QED BY <2>1, <2>2, DelayedTimer
  <1>6. CASE ClosePad(p)
    BY <1>6, ClosePadFlags, CloseTimer DEF ClosePad, AtPad
  <1>7. CASE ReloadRead(p)
    <2>1. /\ unsaved' = unsaved \ {<<"content", p>>} /\ failed' = failed \ {<<"content", p>>}
          /\ early' = early \ {<<"content", p>>} /\ clf' = clf \ {p}
          /\ UNCHANGED <<phase, slots, cursor, dialog>> /\ ~dialog
      BY <1>7 DEF ReloadRead, AtPad
    <2>2. \A x \in Flagged("content", clf) : x \in Flagged("content", clf') \/ x = <<"content", p>>
      BY <2>1 DEF Flagged
    <2> QED BY <2>1, <2>2 DEF Timer, TimerOK, EditsAreScheduled, DialogOK, Pending
  <1>8. CASE ReloadFails(p)
    <2>1. UNCHANGED <<phase, slots, cursor, dialog, unsaved, failed, early>> /\ clf' = clf \cup {p}
      BY <1>8 DEF ReloadFails
    <2>2. Flagged("content", clf) \subseteq Flagged("content", clf')
      BY <2>1 DEF Flagged
    <2> QED BY <2>1, <2>2 DEF Timer, TimerOK, EditsAreScheduled, DialogOK, Pending
  <1>9. CASE DeleteAtOnce(p) \/ ConfirmDelete(p)
    BY <1>9, DeleteTimer DEF DeleteAtOnce, ConfirmDelete, AtPad, Answered
  <1>10. CASE AskDelete(p)
    BY <1>10, SameTimer DEF AskDelete
  <1>11. CASE KilledMidDelete(p)
    BY <1>11, EndTimer DEF KilledMidDelete, Die, Forget
  <1> QED BY <1>2, <1>3, <1>4, <1>5, <1>6, <1>7, <1>8, <1>9, <1>10, <1>11 DEF Pad

LEMMA TimerNext == ASSUME Shape, Timer, [Next]_vars PROVE Timer'
  <1> USE DEF disk, timer, memory
  <1>1. CASE \E p \in Pads : Pad(p)
    BY <1>1, PadTimer
  <1>2. CASE Start
    <2>1. early' = unsaved' /\ UNCHANGED <<slots, cursor, dialog>> /\ phase # "up"
      BY <1>2 DEF Start
    <2>2. ~dialog /\ phase' = "up"
      BY <1>2 DEF Start, Shape, Timer, DialogOK
    <2> QED BY <2>1, <2>2 DEF Ended, Timer, TimerOK, EditsAreScheduled, DialogOK
  <1>3. CASE FirstIdle
    <2>1. CASE QuitWith(visible, {})
      BY <2>1, EndTimer DEF QuitWith
    <2>2. CASE ShowAll /\ UNCHANGED <<phase, clf, cursor, dialog, failed>>
      BY <1>3, <2>2, ShowAllTimer DEF FirstIdle, Looping
    <2>3. CASE UNCHANGED <<phase, memory, timer, failed, early>>
      BY <2>3, SameTimer
    <2> QED BY <1>3, <2>1, <2>2, <2>3 DEF FirstIdle
  <1>4. CASE Kill \/ SlotsFull \/ KilledInTick \/ Quit \/ \E e \in Entries : KilledInFlush(e)
    BY <1>4, EndTimer DEF Kill, SlotsFull, KilledInTick, Quit, KilledInFlush, KilledMidSave, Die, Forget
  <1>5. CASE Fire \/ Dismiss
    BY <1>5, FireTimer, DismissTimer
  <1>6. CASE DismissInFlush \/ \E e \in Entries : Flush(e)
    BY <1>6, SameTimer DEF DismissInFlush, Flush
  <1>7. CASE ShowPads
    BY <1>7, ShowAllTimer DEF ShowPads, Looping
  <1>8. CASE ClosePads
    BY <1>8, ClosePadsFlags, CloseTimer DEF ClosePads, Looping
  <1>9. CASE QuitRequested
    BY <1>9, EndTimer DEF QuitRequested, QuitWith
  <1>10. CASE CancelDelete \/ BackupTimeout \/ UNCHANGED vars
    BY <1>10, SameTimer DEF CancelDelete, BackupTimeout, vars
  <1> QED BY <1>1, <1>2, <1>3, <1>4, <1>5, <1>6, <1>7, <1>8, <1>9, <1>10 DEF Next

(***************************************************************************)
(* Every flag has a slot that will save it, but for those of failed        *)
(* writes, of the start and of texts that could not be read: no handler    *)
(* sets a flag without xpad_periodic_save_*_delayed finding it a slot, and *)
(* the slot a tick clears is one whose entry it has looked at.             *)
(***************************************************************************)
THEOREM AlwaysScheduled == Spec => []EditsAreScheduled
  <1>1. Init => Timer
    BY SlotsAssumption DEF Init, Timer, TimerOK, Table, EditsAreScheduled, DialogOK
  <1>2. Files /\ Timer /\ [Next]_vars => Timer'
    BY TimerNext DEF Files
  <1>3. Timer => EditsAreScheduled
    BY DEF Timer
  <1> QED BY Always, <1>1, <1>2, <1>3, PTL DEF Spec

-----------------------------------------------------------------------------
(* Types: the texts and the files.                                          *)

Infs == [content : SUBSET Names, hidden : BOOLEAN]

TextsOK ==
    /\ buf \in [Pads -> 0..MaxEdits]
    /\ DOMAIN content \subseteq Names /\ \A n \in DOMAIN content : content[n] \in 0..MaxEdits
    /\ \A p \in DOMAIN info : info[p] \in Infs
    /\ iname \subseteq Pads /\ clf \subseteq Pads

LEMMA PutKeeps ==
    ASSUME NEW f, NEW x, NEW v, NEW T, v \in T, \A y \in DOMAIN f : f[y] \in T
    PROVE  \A y \in DOMAIN Put(f, x, v) : Put(f, x, v)[y] \in T
  BY DEF Put

LEMMA TextWithin ==
    ASSUME TextsOK, NEW c, One(c)
    PROVE  TextIn(c, content) \in 0..MaxEdits
  <1>1. CASE c = {}
    BY <1>1, NoText, BoundsAssumption
  <1>2. CASE c # {}
    <2>1. PICK n \in c : TRUE
      BY <1>2
    <2>2. TextIn(c, content) = IF n \in DOMAIN content THEN content[n] ELSE 0
      BY <2>1, TextIs
    <2> QED BY <2>2, BoundsAssumption DEF TextsOK
  <1> QED BY <1>1, <1>2

LEMMA TextsSaved == ASSUME Files, TextsOK, NEW e, Saved(e) PROVE TextsOK'
  <1> DEFINE p == e[2]
  <1>1. UNCHANGED <<buf, clf>>
    BY DEF Saved
  <1>2. Blank \in Infs
    BY DEF Blank, Infs
  <1>3. CASE Kept(e)
    BY <1>1, <1>3 DEF Kept, TextsOK
  <1>4. CASE Nameless(e)
    <2>1. p \in Pads
      BY <1>4, FlagsOfOpen DEF Nameless, Files
    <2>2. \A q \in DOMAIN info' : info'[q] \in Infs
      <3>1. info' = info \/ info' = Put(info, p, Blank)
        BY <1>4 DEF Nameless
      <3> QED BY <1>2, <3>1, PutKeeps DEF TextsOK
    <2> QED BY <1>1, <1>4, <2>1, <2>2 DEF Nameless, TextsOK
  <1>5. ASSUME NEW n \in Names, NEW ok \in BOOLEAN, Written(e, n, ok) PROVE TextsOK'
    <2>1. p \in Pads
      BY <1>5, FlagsOfOpen DEF Written, Files
    <2>2. [content |-> {n}, hidden |-> p \notin visible] \in Infs
      BY DEF Infs
    <2>3. \A q \in DOMAIN info' : info'[q] \in Infs
      <3>1. \/ info' = info \/ info' = Put(info, p, Blank)
            \/ info' = Put(info, p, [content |-> {n}, hidden |-> p \notin visible])
        BY <1>5 DEF Written
      <3> QED BY <1>2, <2>2, <3>1, PutKeeps DEF TextsOK
    <2>4. content' = content \/ \E v \in 0..MaxEdits : content' = Put(content, n, v)
      BY <1>5, <2>1, BoundsAssumption DEF Written, TextsOK
    <2>5. DOMAIN content' \subseteq Names /\ \A m \in DOMAIN content' : content'[m] \in 0..MaxEdits
      BY <2>4 DEF TextsOK, Put
    <2>6. iname' \subseteq Pads
      BY <1>5, <2>1 DEF Written, TextsOK
    <2> QED BY <1>1, <2>3, <2>5, <2>6 DEF TextsOK
  <1> QED BY <1>3, <1>4, <1>5, SaveCases DEF Saved, Files

LEMMA TextsNext == ASSUME Files, TextsOK, [Next]_vars PROVE TextsOK'
  <1> USE DEF Files
  <1>1. ASSUME NEW p \in Pads, Typed(p) PROVE TextsOK'
    <2>1. buf' \in [Pads -> 0..MaxEdits]
      BY <1>1, BoundsAssumption DEF Typed, TextsOK
    <2> QED BY <1>1, <2>1 DEF Typed, DiskKept, TextsOK
  <1>2. ASSUME NEW p \in Pads, NEW f \in BOOLEAN, Added(p, f) PROVE TextsOK'
    <2>1. buf' \in [Pads -> 0..MaxEdits]
      BY <1>2, BoundsAssumption DEF Added, TextsOK
    <2> QED BY <1>2, <2>1 DEF Added, DiskKept, TextsOK
  <1>3. ASSUME NEW p \in Pads, ReloadRead(p) \/ ReloadFails(p) PROVE TextsOK'
    <2>1. UNCHANGED <<info, content, iname>> /\ clf' \subseteq clf \cup {p}
      BY <1>3 DEF ReloadRead, ReloadFails, disk
    <2>2. CASE ReloadFails(p)
      BY <2>1, <2>2 DEF ReloadFails, TextsOK
    <2>3. CASE ReloadRead(p)
      <3>1. PICK n \in cname[p] : TRUE
        BY <2>3 DEF ReloadRead
      <3>2. cname[p] = {n}
        BY <3>1 DEF FilesApart, One
      <3>3. (CHOOSE m \in {n} : TRUE) = n
        OBVIOUS
      <3>4. buf' = [buf EXCEPT ![p] = IF n \in DOMAIN content THEN content[n] ELSE 0]
        BY <2>3, <3>2, <3>3 DEF ReloadRead
      <3>5. (IF n \in DOMAIN content THEN content[n] ELSE 0) \in 0..MaxEdits
        BY BoundsAssumption DEF TextsOK
      <3> QED BY <2>1, <3>4, <3>5 DEF TextsOK
    <2> QED BY <1>3, <2>2, <2>3
  <1>4. CASE Marked
    BY <1>4 DEF Marked, DiskKept, TextsOK
  <1>5. CASE \E e \in Entries \cup {slots[i] : i \in 1..NSlots} : Saved(e)
    BY <1>5, TextsSaved
  <1>6. ASSUME NEW p \in open, Delete(p) PROVE TextsOK'
    <2>1. info' = info \/ info' = Without(info, {p} \cap iname)
      BY <1>6 DEF Delete
    <2>2. content' = content \/ content' = Without(content, cname[p])
      BY <1>6 DEF Delete
    <2>3. \A q \in DOMAIN info' : q \in DOMAIN info /\ info'[q] = info[q]
      BY <2>1 DEF Without
    <2>4. \A n \in DOMAIN content' : n \in DOMAIN content /\ content'[n] = content[n]
      BY <2>2 DEF Without
    <2>5. UNCHANGED <<buf, iname, clf>>
      BY <1>6 DEF Delete
    <2> QED BY <2>3, <2>4, <2>5 DEF TextsOK
  <1>7. CASE Left
    <2>1. buf' \in [Pads -> 0..MaxEdits] /\ iname' = {} /\ clf' = {}
      BY <1>7, BoundsAssumption DEF Left, Forget
    <2>2. Blank \in Infs
      BY DEF Blank, Infs
    <2>3. \A p \in DOMAIN info' : info'[p] \in Infs
      BY <1>7, <2>2, LeftInfos DEF TextsOK
    <2>4. PICK con : /\ content' = Named(info', con)
                     /\ con = content \/ \E n \in Names : con = Put(content, n, 0)
      BY <1>7, LeftContent
    <2>5. DOMAIN con \subseteq Names /\ \A n \in DOMAIN con : con[n] \in 0..MaxEdits
      <3>1. 0 \in 0..MaxEdits
        BY BoundsAssumption
      <3>2. CASE con = content
        BY <3>2 DEF TextsOK
      <3>3. ASSUME NEW n \in Names, con = Put(content, n, 0)
            PROVE  DOMAIN con \subseteq Names /\ \A m \in DOMAIN con : con[m] \in 0..MaxEdits
        BY <3>1, <3>3, BoundsAssumption DEF TextsOK, Put
      <3> QED BY <2>4, <3>2, <3>3
    <2>6. DOMAIN content' \subseteq Names /\ \A n \in DOMAIN content' : content'[n] \in 0..MaxEdits
      BY <2>4, <2>5, NamedIs
    <2> QED BY <2>1, <2>3, <2>6 DEF TextsOK
  <1>8. CASE Start
    <2>1. \A p \in DOMAIN info : Restored(p) \in 0..MaxEdits
      BY RestoredIs, TextWithin DEF FilesApart
    <2>2. \A p \in Pads : Restored(p) \in 0..MaxEdits
      BY <2>1, RestoredIs, BoundsAssumption
    <2>3. \A p \in Pads : buf'[p] \in 0..MaxEdits
      BY <1>8, <2>2, StartGives, BoundsAssumption
    <2>4. buf' \in [Pads -> Nat] /\ clf' \subseteq Pads /\ iname' = DOMAIN info /\ UNCHANGED <<info, content>>
      BY <1>8, StartGives
    <2>5. buf' \in [Pads -> 0..MaxEdits]
      BY <2>3, <2>4
    <2> QED BY <2>4, <2>5 DEF TextsOK, Shape
  <1> QED BY Steps, <1>1, <1>2, <1>3, <1>4, <1>5, <1>6, <1>7, <1>8 DEF Step

-----------------------------------------------------------------------------
(* Types: the rest.                                                         *)

FlagsOK ==
    /\ failed \subseteq unsaved /\ early \subseteq unsaved
    /\ dialog \in BOOLEAN /\ armed \in BOOLEAN /\ stale \in BOOLEAN
    /\ flush \subseteq Entries
    /\ idle \in {"done", "loaded", "empty"}

LEMMA FlagsSaved ==
    ASSUME FlagsOK, NEW e, Save(e), flush' \subseteq flush, UNCHANGED idle
    PROVE  FlagsOK'
  <1>1. CASE SaveSkipped(e)
    BY <1>1 DEF SaveSkipped, FlagsOK
  <1>2. CASE SaveNameless(e)
    BY <1>2 DEF SaveNameless, Skipped, FlagsOK
  <1>3. ASSUME NEW ok \in BOOLEAN, SaveWritten(e, ok) PROVE FlagsOK'
    <2>1. /\ e \in unsaved /\ unsaved' = (IF ok THEN unsaved \ {e} ELSE unsaved)
          /\ failed' = (IF ok THEN failed \ {e} ELSE failed \cup {e}) /\ early' = early \ {e}
      BY <1>3 DEF SaveWritten, Skipped, FlagsAfter
    <2>2. dialog' \in BOOLEAN /\ armed' \in BOOLEAN /\ stale' \in BOOLEAN
      BY <1>3, Zenon DEF SaveWritten
    <2> QED BY <2>1, <2>2 DEF FlagsOK
  <1> QED BY <1>1, <1>2, <1>3 DEF Save

LEMMA FlagsQuit ==
    ASSUME FlagsOK, Shape, NEW V, NEW R, QuitWith(V, R)
    PROVE  FlagsOK'
  BY DEF QuitWith, FlagsOK, ToSave, Entries, Shape

LEMMA FlagsDelayed ==
    ASSUME FlagsOK, NEW q, Delayed(q), UNCHANGED <<dialog, armed, stale, flush, failed>>,
           idle' \in {idle, "done"}
    PROVE  FlagsOK'
  BY DEF Delayed, FlagsOK

LEMMA FlagsEnd == ASSUME Forget, stale' \in BOOLEAN PROVE FlagsOK'
  BY DEF Forget, FlagsOK

LEMMA FlagsSame ==
    ASSUME FlagsOK, UNCHANGED <<unsaved, failed, early, flush>>,
           dialog' \in {dialog, FALSE}, armed' \in BOOLEAN, stale' \in BOOLEAN, idle' \in {idle, "done"}
    PROVE  FlagsOK'
  BY DEF FlagsOK

LEMMA FlagsPad == ASSUME FlagsOK, Shape, NEW p \in Pads, Pad(p) PROVE FlagsOK'
  <1> USE DEF disk, timer, memory
  <1>1. CASE TextChanged(p) \/ InfoChanged(p) \/ ShowPad(p) \/ \E f \in BOOLEAN : NewPad(p, f)
    BY <1>1, FlagsDelayed DEF TextChanged, InfoChanged, ShowPad, NewPad
  <1>2. CASE ClosePad(p)
    BY <1>2, FlagsDelayed, FlagsQuit DEF ClosePad, Close
  <1>3. CASE ReloadRead(p)
    BY <1>3 DEF ReloadRead, FlagsOK
  <1>4. CASE ReloadFails(p) \/ AskDelete(p)
    BY <1>4 DEF ReloadFails, AskDelete, FlagsOK
  <1>5. CASE DeleteAtOnce(p) \/ ConfirmDelete(p)
    BY <1>5, HelperAssumption DEF DeleteAtOnce, ConfirmDelete, Delete, FlagsOK
  <1>6. CASE KilledMidDelete(p)
    BY <1>6, FlagsEnd DEF KilledMidDelete, Die
  <1> QED BY <1>1, <1>2, <1>3, <1>4, <1>5, <1>6 DEF Pad

LEMMA FlagsNext == ASSUME FlagsOK, Shape, [Next]_vars PROVE FlagsOK'
  <1> USE DEF disk, timer, memory
  <1>1. CASE \E p \in Pads : Pad(p)
    BY <1>1, FlagsPad
  <1>2. CASE Start
    <2>1. early' = unsaved' /\ idle' \in {"done", "loaded", "empty"}
      BY <1>2 DEF Start
    <2>2. failed = {}
      <3>1. open = {}
        BY <1>2 DEF Start, Shape, Ended
      <3> QED BY <3>1 DEF FlagsOK, Shape
    <2> QED BY <1>2, <2>1, <2>2 DEF Start, FlagsOK
  <1>3. CASE FirstIdle
    <2>1. CASE QuitWith(visible, {})
      BY <2>1, FlagsQuit
    <2>2. CASE idle' = "done" /\ ShowAll /\ UNCHANGED <<dialog, armed, stale, flush, failed>>
      BY <2>2, FlagsDelayed DEF ShowAll
    <2>3. CASE idle' = "done" /\ UNCHANGED <<unsaved, dialog, armed, stale, flush, failed, early>>
      BY <2>3 DEF FlagsOK
    <2> QED BY <1>3, <2>1, <2>2, <2>3 DEF FirstIdle
  <1>4. CASE Kill \/ SlotsFull \/ KilledInTick \/ \E e \in Entries : KilledInFlush(e)
    BY <1>4, FlagsEnd DEF Kill, SlotsFull, KilledInTick, KilledInFlush, KilledMidSave, Die
  <1>5. CASE Quit
    BY <1>5, FlagsEnd DEF Quit
  <1>6. CASE Fire
    BY <1>6, FlagsSaved DEF Fire
  <1>7. CASE \E e \in Entries : Flush(e)
    BY <1>7, FlagsSaved DEF Flush
  <1>8. CASE Dismiss \/ DismissInFlush
    BY <1>8, HelperAssumption DEF Dismiss, DismissInFlush, FlagsOK
  <1>9. CASE ShowPads
    BY <1>9, FlagsDelayed DEF ShowPads, ShowAll
  <1>10. CASE ClosePads
    BY <1>10, FlagsDelayed, FlagsQuit DEF ClosePads, Close
  <1>11. CASE QuitRequested
    BY <1>11, FlagsQuit DEF QuitRequested
  <1>12. CASE CancelDelete \/ BackupTimeout \/ UNCHANGED vars
    BY <1>12 DEF CancelDelete, BackupTimeout, vars, FlagsOK
  <1> QED BY <1>1, <1>2, <1>3, <1>4, <1>5, <1>6, <1>7, <1>8, <1>9, <1>10, <1>11, <1>12 DEF Next

LEMMA OneIsSmall == ASSUME NEW S, One(S) PROVE Cardinality(S) <= 1
  <1>1. CASE S = {}
    BY <1>1, FS_EmptySet
  <1>2. CASE S # {}
    <2>1. PICK x \in S : TRUE
      BY <1>2
    <2>2. S = {} \cup {x}
      BY <2>1 DEF One
    <2>3. Cardinality({} \cup {x}) = 1
      BY FS_EmptySet, FS_AddElement
    <2> QED BY <2>2, <2>3
  <1> QED BY <1>1, <1>2

(***************************************************************************)
(* The types of all the variables, for any number of notes and slots.      *)
(***************************************************************************)
THEOREM TypeCorrect == Spec => []TypeOK
  <1>1. Init => TextsOK /\ FlagsOK /\ Timer
    <2> SUFFICES ASSUME Init PROVE TextsOK /\ FlagsOK /\ Timer
      OBVIOUS
    <2>1. TextsOK
      BY BoundsAssumption DEF Init, TextsOK
    <2>2. FlagsOK
      BY DEF Init, FlagsOK
    <2>3. Timer
      BY SlotsAssumption DEF Init, Timer, TimerOK, Table, EditsAreScheduled, DialogOK
    <2> QED BY <2>1, <2>2, <2>3
  <1>2. Files /\ Timer /\ TextsOK /\ FlagsOK /\ [Next]_vars => Timer' /\ TextsOK' /\ FlagsOK'
    BY TimerNext, TextsNext, FlagsNext DEF Files
  <1>3. ASSUME Files, Timer, TextsOK, FlagsOK PROVE TypeOK
    <2>1. \A p \in Pads : cname[p] \in {S \in SUBSET Names : Cardinality(S) <= 1}
      BY <1>3, OneIsSmall DEF Files, Shape, FilesApart
    <2>2. cname \in [Pads -> {S \in SUBSET Names : Cardinality(S) <= 1}]
      BY <1>3, <2>1 DEF Files, Shape
    <2>3. \A p \in DOMAIN info : info[p] \in InfoFiles
      <3> SUFFICES ASSUME NEW p \in DOMAIN info PROVE info[p] \in InfoFiles
        OBVIOUS
      <3>1. info[p] \in Infs /\ One(info[p].content)
        BY <1>3 DEF TextsOK, Files, FilesApart
      <3>2. Cardinality(info[p].content) <= 1
        BY <3>1, OneIsSmall
      <3> QED BY <3>1, <3>2 DEF Infs, InfoFiles
    <2>4. unsaved \subseteq Entries
      BY <1>3 DEF Files, Shape, Kinds, Entries
    <2> QED BY <1>3, <2>2, <2>3, <2>4
            DEF TypeOK, Files, Shape, Ended, Timer, TimerOK, Table, TextsOK, FlagsOK
  <1> QED BY Always, <1>1, <1>2, <1>3, PTL DEF Spec

=============================================================================
