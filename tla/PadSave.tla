------------------------------ MODULE PadSave ------------------------------
(***************************************************************************)
(* How the notes of a running XNote reach its configuration directory:     *)
(* edits that only set a flag and claim a slot of the four-second timer,   *)
(* the timer that saves what its slots name, the dialog a failed write     *)
(* opens in the middle of a tick, deletion with its question, closing,     *)
(* quitting, being killed and starting again.                              *)
(*                                                                         *)
(* The program has one thread.  A handler is one step, cut where it runs   *)
(* the main loop again (the two dialogs) and where a kill can be seen on   *)
(* disk (between two files).  A text is the number of edits it took, so    *)
(* "older" is a comparison; a pad is named by its info file.               *)
(***************************************************************************)
EXTENDS Naturals, Sequences, FiniteSets

CONSTANTS
    Pads,         \* the notes, each with its info-XXXXXX name
    Names,        \* the content-XXXXXX names mkstemp may return
    NSlots,       \* the slots of the timer: 200 in the code
    MaxEdits,     \* bound on the edits of one text
    HasTray,      \* whether a tray indicator is up
    HasHelper,    \* whether the backup helper is installed
    MaxFailed,    \* bound on the entries whose write has failed; 0: none does
    RemoveFaults, \* whether a deleted file may stay
    ReadFaults    \* the kinds of file that may be unreadable

ASSUME SlotsAssumption == NSlots \in Nat \ {0}
ASSUME BoundsAssumption == MaxEdits \in Nat /\ MaxFailed \in Nat
ASSUME PadsAssumption == IsFiniteSet(Pads)
ASSUME HelperAssumption == HasHelper \in BOOLEAN

Entries == {"content", "info"} \X Pads     \* what a slot may name
Free == <<"free">>

(***************************************************************************)
(* What load_info reads: the content file named, if any, and whether the   *)
(* pad was hidden.  An info file that was created and never written reads  *)
(* as Blank.                                                               *)
(***************************************************************************)
InfoFiles == [content : {S \in SUBSET Names : Cardinality(S) <= 1}, hidden : BOOLEAN]
Blank == [content |-> {}, hidden |-> FALSE]

VARIABLES
    phase,     \* "up", "quitting", or how it ended: "quit", "killed", "aborted"
    open,      \* the pads of the group
    gone,      \* the pads deleted since the start
    visible,   \* the open pads with their window shown
    buf,       \* pad -> the text in its buffer
    unsaved,   \* the entries whose flag is set (unsaved_content, unsaved_info)
    iname,     \* the pads that have a name for their info file
    cname,     \* pad -> its content file's name, {} before it has one
    clf,       \* the pads flagged content_load_failed
    slots,     \* the slots of the timer
    cursor,    \* the slot a tick in progress has reached, 0 between ticks
    dialog,    \* whether a failed write's dialog is open
    asking,    \* the pad whose deletion is being confirmed, if any
    flush,     \* the entries a quit has still to look at
    idle,      \* what first_idle_check will find: "done", "loaded", "empty"
    armed,     \* whether the 45-second backup timer runs
    info,      \* on disk: the info files
    content,   \* on disk: the content files
    failed,    \* history: entries whose latest write failed
    early,     \* history: entries flagged before the timer existed
    stale      \* history: a committed change no backup run has followed

memory == <<open, gone, visible, buf, unsaved, iname, cname, clf>>
timer == <<slots, cursor, dialog>>
disk == <<info, content>>
vars == <<phase, memory, timer, asking, flush, idle, armed, disk, failed, early, stale>>

-----------------------------------------------------------------------------
(* Slots: xpad_periodic_signal and xpad_periodic_remove.                    *)

Pending == {slots[i] : i \in 1..NSlots} \ {Free}

Lowest(S) == CHOOSE i \in S : \A j \in S : i <= j
FreeIn(sl) == {i \in 1..NSlots : sl[i] = Free}

Schedule(sl, e) ==
    IF (\E i \in 1..NSlots : sl[i] = e) \/ FreeIn(sl) = {} THEN sl
    ELSE [sl EXCEPT ![Lowest(FreeIn(sl))] = e]

\* A mutation: of several entries only the last is scheduled.
ScheduleLast(sl, q) == IF q = <<>> THEN sl ELSE Schedule(sl, q[Len(q)])

ScheduleAll(sl, q) ==
    LET after[i \in 0..Len(q)] == IF i = 0 THEN sl ELSE Schedule(after[i - 1], q[i])
    IN  after[Len(q)]

Dropped(p) == [i \in 1..NSlots |-> IF slots[i] \in Entries /\ slots[i][2] = p
                                   THEN Free ELSE slots[i]]

\* The pads of S in some order: the group keeps one, and any may be it.
Orders(S) == {q \in [1..Cardinality(S) -> S] : \A i, j \in DOMAIN q : q[i] = q[j] => i = j}
Infos(q) == [i \in DOMAIN q |-> <<"info", q[i]>>]
Flagged(kind, S) == {<<kind, p>> : p \in S}

\* Whether the entries of E find a slot each; without one the program exits.
Fits(E) == Cardinality(E \ Pending) <= Cardinality(FreeIn(slots))
Elements(q) == {q[i] : i \in DOMAIN q}

-----------------------------------------------------------------------------
(* The directory.                                                           *)

Put(f, x, v) == [y \in DOMAIN f \cup {x} |-> IF y = x THEN v ELSE f[y]]
Without(f, S) == [y \in DOMAIN f \ S |-> f[y]]

\* fio_unique_name: it creates the file it returns the name of, empty.  Names are
\* random: none comes back while an info file or a pad has it.
Fresh == Names \ (DOMAIN content \cup (UNION {info[p].content : p \in DOMAIN info})
                                 \cup (UNION {cname[p] : p \in open}))
NameFor(p) == IF cname[p] = {} THEN {{n} : n \in Fresh} ELSE {cname[p]}

\* A content file that no info file names is never opened again: it is forgotten.
Named(inf, con) == Without(con, Names \ UNION {inf[p].content : p \in DOMAIN inf})

\* What a restart would show of p.
Restored(p) ==
    IF p \notin DOMAIN info \/ info[p].content \cap DOMAIN content = {} THEN 0
    ELSE content[CHOOSE n \in info[p].content : TRUE]

-----------------------------------------------------------------------------
(* The process.                                                             *)

Forget ==
    /\ open' = {} /\ gone' = {} /\ visible' = {} /\ unsaved' = {} /\ iname' = {} /\ clf' = {}
    /\ buf' = [p \in Pads |-> 0]
    /\ cname' = [p \in Pads |-> {}]
    /\ slots' = [i \in 1..NSlots |-> Free]
    /\ cursor' = 0 /\ dialog' = FALSE /\ asking' = {} /\ flush' = {}
    /\ idle' = "done" /\ armed' = FALSE
    /\ failed' = {} /\ early' = {}

Init ==
    /\ phase = "quit"
    /\ open = {} /\ gone = {} /\ visible = {} /\ unsaved = {} /\ iname = {} /\ clf = {}
    /\ buf = [p \in Pads |-> 0]
    /\ cname = [p \in Pads |-> {}]
    /\ slots = [i \in 1..NSlots |-> Free]
    /\ cursor = 0 /\ dialog = FALSE /\ asking = {} /\ flush = {}
    /\ idle = "done" /\ armed = FALSE
    /\ failed = {} /\ early = {} /\ stale = FALSE
    /\ info = <<>> /\ content = <<>>

(***************************************************************************)
(* Start: load_pads opens a pad for each info file, the arguments or an    *)
(* empty directory add one more, and only then is the timer set up, so     *)
(* what these pads flag is not scheduled.  badInfo and badContent are the  *)
(* files that could not be read; mode is the startup display.              *)
(***************************************************************************)
MayBeUnreadable(kind) == IF kind \in ReadFaults THEN SUBSET DOMAIN info ELSE {{}}

LoadedText(p, badContent) == IF p \in badContent THEN 0 ELSE Restored(p)

Start ==
    /\ phase \notin {"up", "quitting"}
    /\ \E mode \in {"show", "hide", "restore"},
          badInfo \in MayBeUnreadable("info"), badContent \in MayBeUnreadable("content"),
          extra \in SUBSET (Pads \ DOMAIN info), fromFile, shown \in BOOLEAN :
        LET loaded == DOMAIN info
            named == {p \in loaded \ badInfo : info[p].content # {}}
            wantsShow == {p \in loaded : p \in badInfo \/ ~info[p].hidden}
            nowShown == CASE mode = "show" -> loaded
                          [] mode = "hide" -> {}
                          [] OTHER -> wantsShow
            unreadable == {p \in named \cap badContent : info[p].content \subseteq DOMAIN content}
            typed == IF fromFile THEN extra ELSE {}
        IN  /\ badContent \subseteq named
            /\ Cardinality(extra) <= 1
            /\ fromFile => shown /\ MaxEdits > 0
            /\ ~shown => loaded = {} /\ mode # "show"
            /\ open' = loaded \cup extra
            /\ visible' = nowShown \cup (IF shown THEN extra ELSE {})
            /\ iname' = loaded
            /\ cname' = [p \in Pads |-> IF p \in named THEN info[p].content ELSE {}]
            /\ buf' = [p \in Pads |-> IF p \in typed THEN 1
                                      ELSE IF p \in named THEN LoadedText(p, unreadable) ELSE 0]
            /\ clf' = unreadable
            /\ unsaved' = Flagged("info", nowShown \cup wantsShow \cup extra)
                          \cup Flagged("content", typed)
            /\ early' = unsaved'
            /\ idle' = IF HasTray THEN "done" ELSE IF loaded # {} THEN "loaded" ELSE "empty"
    /\ phase' = "up"
    /\ UNCHANGED <<gone, timer, asking, flush, armed, disk, failed, stale>>

(* Leaving: a kill, or error_exit when the slots are full, saves nothing.   *)
Die(how) == phase' = how /\ Forget /\ stale' = FALSE

Kill ==
    /\ phase \in {"up", "quitting"}
    /\ Die("killed")
    /\ UNCHANGED info
    /\ content' = Named(info, content)

(***************************************************************************)
(* xpad_app_quit looks at the flags of every open pad; shown is what is    *)
(* still on screen and recorded what was flagged on the way to it.         *)
(***************************************************************************)
\* A mutation: only the pads on screen are saved.
ToSaveShown == {"content", "info"} \X visible

ToSave == {"content", "info"} \X open

QuitWith(shown, recorded) ==
    /\ phase' = "quitting"
    /\ visible' = shown
    /\ unsaved' = unsaved \cup recorded
    /\ flush' = ToSave
    /\ slots' = [i \in 1..NSlots |-> Free]
    /\ cursor' = 0 /\ dialog' = FALSE /\ asking' = {} /\ idle' = "done"
    /\ early' = early \ recorded
    /\ UNCHANGED <<open, gone, buf, iname, cname, clf, armed, disk, failed, stale>>

-----------------------------------------------------------------------------
(***************************************************************************)
(* Saving an entry: save_content and save_info, down to the file.          *)
(***************************************************************************)
\* A mutation: save forgets that the content could not be read.
SkippedIfClean(e) == e \notin unsaved

Skipped(e) == e \notin unsaved \/ (e[1] = "content" /\ e[2] \in clf)

\* Whether the write of e may fail: a bound on what fails at a time.
MayFail(e) == Cardinality(failed \cup {e}) <= MaxFailed

SaveSkipped(e) ==
    /\ Skipped(e)
    /\ dialog' = FALSE
    /\ UNCHANGED <<unsaved, iname, cname, armed, disk, failed, early, stale>>

\* mkstemp fails: save returns, with neither dialog nor backup.
SaveNameless(e) ==
    LET p == e[2] IN
    /\ ~Skipped(e) /\ MayFail(e)
    /\ \/ /\ e[1] = "content" /\ cname[p] = {}
          /\ UNCHANGED <<iname, info>>
       \/ /\ e[1] = "info" /\ p \notin iname
          /\ UNCHANGED <<iname, info>>
       \/ /\ e[1] = "info" /\ cname[p] = {}
          /\ iname' = iname \cup {p}
          /\ info' = IF p \in iname THEN info ELSE Put(info, p, Blank)
    /\ failed' = failed \cup {e}
    /\ early' = early \ {e}
    /\ dialog' = FALSE
    /\ UNCHANGED <<unsaved, cname, content, armed, stale>>

\* The content file as save leaves it before the write commits.
Touched(p, c) == IF cname[p] = {} THEN Put(content, CHOOSE n \in c : TRUE, 0) ELSE content

WriteContent(p, c, ok) ==
    /\ content' = IF ok THEN Put(content, CHOOSE n \in c : TRUE, buf[p]) ELSE Touched(p, c)
    /\ UNCHANGED <<iname, info>>

WriteInfo(p, c, ok) ==
    /\ iname' = iname \cup {p}
    /\ content' = Touched(p, c)
    /\ info' = IF ok THEN Put(info, p, [content |-> c, hidden |-> p \notin visible])
               ELSE IF p \in iname THEN info ELSE Put(info, p, Blank)

\* A mutation: the flag is cleared whether or not the write committed.
FlagsCleared(e, ok) == unsaved \ {e}

FlagsAfter(e, ok) == IF ok THEN unsaved \ {e} ELSE unsaved

SaveWritten(e, ok) ==
    LET p == e[2] IN
    /\ ~Skipped(e)
    /\ \E c \in NameFor(p) :
        /\ cname' = [cname EXCEPT ![p] = c]
        /\ \/ e[1] = "content" /\ WriteContent(p, c, ok)
           \/ e[1] = "info" /\ WriteInfo(p, c, ok)
    /\ unsaved' = FlagsAfter(e, ok)
    /\ failed' = IF ok THEN failed \ {e} ELSE failed \cup {e}
    /\ early' = early \ {e}
    /\ dialog' = ~ok
    /\ armed' = (armed \/ (ok /\ HasHelper))
    /\ stale' = (stale \/ (ok /\ HasHelper))

Save(e) ==
    \/ SaveSkipped(e)
    \/ SaveNameless(e)
    \/ SaveWritten(e, TRUE)
    \/ MayFail(e) /\ SaveWritten(e, FALSE)

\* A kill before the write commits leaves the files save had to create.
KilledMidSave(e) ==
    LET p == e[2] IN
    /\ ~Skipped(e)
    /\ \E c \in NameFor(p) :
        /\ info' = IF e[1] = "content" \/ p \in iname THEN info ELSE Put(info, p, Blank)
        /\ content' = Named(info', Touched(p, c))
    /\ Die("killed")

-----------------------------------------------------------------------------
(***************************************************************************)
(* The timer.  Outside its dialog a tick runs to its end before anything   *)
(* else; a slot is cleared after its callback, so what is scheduled for it *)
(* while the dialog is open is taken for already scheduled and then lost.  *)
(***************************************************************************)
\* A mutation: the scan stops one slot early.
ClaimedShort == {i \in 1..(NSlots - 1) : i >= cursor /\ slots[i] # Free}

Claimed == {i \in 1..NSlots : i >= cursor /\ slots[i] # Free}
NextSlot == Lowest(Claimed)

\* The slot done, cleared; 0 when the tick ends there.
After(i) == IF \E j \in 1..NSlots : j > i /\ slots[j] # Free THEN i + 1 ELSE 0

Fire ==
    /\ phase = "up" /\ ~dialog /\ Claimed # {}
    /\ Save(slots[NextSlot])
    /\ IF dialog' THEN cursor' = NextSlot /\ UNCHANGED slots
       ELSE cursor' = After(NextSlot) /\ slots' = [slots EXCEPT ![NextSlot] = Free]
    /\ UNCHANGED <<phase, open, gone, visible, buf, clf, asking, flush, idle>>

\* The dialog is closed: save goes on to schedule a backup, the tick to its next slot.
Dismiss ==
    /\ phase = "up" /\ dialog
    /\ dialog' = FALSE
    /\ armed' = HasHelper
    /\ slots' = [slots EXCEPT ![cursor] = Free]
    /\ cursor' = After(cursor)
    /\ UNCHANGED <<phase, memory, asking, flush, idle, disk, failed, early, stale>>

KilledInTick ==
    /\ phase = "up" /\ ~dialog /\ Claimed # {}
    /\ KilledMidSave(slots[NextSlot])

-----------------------------------------------------------------------------
(* Quitting: what save_unsaved_all still has to do, content before info.    *)

Flush(e) ==
    /\ phase = "quitting" /\ ~dialog
    /\ e \in flush
    /\ e[1] = "info" => <<"content", e[2]>> \notin flush
    /\ Save(e)
    /\ flush' = flush \ {e}
    /\ UNCHANGED <<phase, open, gone, visible, buf, clf, slots, cursor, asking, idle>>

KilledInFlush(e) ==
    /\ phase = "quitting" /\ ~dialog
    /\ e \in flush
    /\ e[1] = "info" => <<"content", e[2]>> \notin flush
    /\ KilledMidSave(e)

DismissInFlush ==
    /\ phase = "quitting" /\ dialog
    /\ dialog' = FALSE
    /\ armed' = HasHelper
    /\ UNCHANGED <<phase, memory, slots, cursor, asking, flush, idle, disk, failed, early, stale>>

\* A mutation: the pending backup is left to a timer that dies with the process.
QuitUnflushed ==
    /\ phase = "quitting" /\ ~dialog /\ flush = {}
    /\ phase' = "quit"
    /\ Forget
    /\ UNCHANGED <<stale, info>>
    /\ content' = Named(info, content)

\* The pads are destroyed, a pending backup is started, the process exits.
Quit ==
    /\ phase = "quitting" /\ ~dialog /\ flush = {}
    /\ phase' = "quit"
    /\ Forget
    /\ stale' = (stale /\ ~armed)
    /\ UNCHANGED <<info>>
    /\ content' = Named(info, content)

-----------------------------------------------------------------------------
(***************************************************************************)
(* What the user does.  A dialog is modal: the pads take no input while    *)
(* one is open.  The tray and a second xnote still get through, as does    *)
(* a signal: those are guarded by Looping, the rest by AtPad.              *)
(***************************************************************************)
Looping == phase = "up" /\ (cursor = 0 \/ dialog)
AtPad(p) == phase = "up" /\ cursor = 0 /\ ~dialog /\ asking = {} /\ p \in open \cap visible

\* The flags are set and the slots claimed; without a slot the process exits.
Delayed(q) ==
    /\ Fits(Elements(q))
    /\ unsaved' = unsaved \cup Elements(q)
    /\ slots' = ScheduleAll(slots, q)
    /\ early' = early \ Elements(q)

TextChanged(p) ==
    /\ AtPad(p)
    /\ buf[p] < MaxEdits
    /\ buf' = [buf EXCEPT ![p] = @ + 1]
    /\ Delayed(<<<<"content", p>>>>)
    /\ UNCHANGED <<phase, open, gone, visible, iname, cname, clf, cursor, dialog, asking,
                   flush, idle, armed, disk, failed, stale>>

\* A size, a colour or a font: only the info file changes.
InfoChanged(p) ==
    /\ AtPad(p)
    /\ Delayed(<<<<"info", p>>>>)
    /\ UNCHANGED <<phase, open, gone, visible, buf, iname, cname, clf, cursor, dialog, asking,
                   flush, idle, armed, disk, failed, stale>>

\* A new pad, blank or holding the text of a file named to a second xnote.
NewPad(p, fromFile) ==
    /\ Looping
    /\ p \notin open \cup gone \cup DOMAIN info
    /\ fromFile => MaxEdits > 0
    /\ open' = open \cup {p}
    /\ visible' = visible \cup {p}
    /\ buf' = [buf EXCEPT ![p] = IF fromFile THEN 1 ELSE 0]
    /\ Delayed(IF fromFile THEN <<<<"info", p>>, <<"content", p>>>> ELSE <<<<"info", p>>>>)
    /\ UNCHANGED <<phase, gone, iname, cname, clf, cursor, dialog, asking,
                   flush, idle, armed, disk, failed, stale>>

\* gtk_widget_show on every pad: those that were hidden are mapped.
ShowAll ==
    \E q \in Orders(open \ visible) :
        /\ Delayed(Infos(q))
        /\ visible' = open

ShowPads ==
    /\ Looping
    /\ ShowAll
    /\ UNCHANGED <<phase, open, gone, buf, iname, cname, clf, cursor, dialog, asking,
                   flush, idle, armed, disk, failed, stale>>

ShowPad(p) ==
    /\ Looping
    /\ p \in open \ visible
    /\ visible' = visible \cup {p}
    /\ Delayed(<<<<"info", p>>>>)
    /\ UNCHANGED <<phase, open, gone, buf, iname, cname, clf, cursor, dialog, asking,
                   flush, idle, armed, disk, failed, stale>>

(***************************************************************************)
(* xpad_pad_close on the pads of q in turn: without a tray, the one that   *)
(* leaves nothing on screen quits before it is recorded.                   *)
(***************************************************************************)
LastShown(q) == CHOOSE i \in DOMAIN q : /\ visible \subseteq {q[j] : j \in 1..i}
                                        /\ \A k \in 1..(i - 1) : ~(visible \subseteq {q[j] : j \in 1..k})

Close(q, resized) ==
    LET shut == Elements(q)
        touched == IF resized THEN <<q[1]>> ELSE <<>>
        recorded == touched \o SubSeq(q, 1, LastShown(q) - 1)
    IN
    \/ /\ HasTray \/ ~(visible \subseteq shut)
       /\ visible' = visible \ shut
       /\ Delayed(Infos(q))
       /\ UNCHANGED <<phase, open, gone, buf, iname, cname, clf, cursor, dialog, asking,
                      flush, idle, armed, disk, failed, stale>>
    \/ /\ ~HasTray /\ visible \subseteq shut
       /\ Fits(Elements(Infos(recorded)))
       /\ QuitWith({}, Elements(Infos(recorded)))

\* close_request records a new size before it closes.
ClosePad(p) == AtPad(p) /\ \E resized \in BOOLEAN : Close(<<p>>, resized)

ClosePads == Looping /\ \E q \in Orders(open) : q # <<>> /\ Close(q, FALSE)

QuitRequested == Looping /\ QuitWith(visible, {})

\* With a tray the check finds nothing to do.
FirstIdle ==
    /\ Looping /\ idle # "done"
    /\ \/ /\ visible # {}
          /\ idle' = "done"
          /\ UNCHANGED <<phase, memory, timer, asking, flush, armed, disk, failed, early, stale>>
       \/ /\ visible = {} /\ idle = "loaded"
          /\ idle' = "done"
          /\ ShowAll
          /\ UNCHANGED <<phase, open, gone, buf, iname, cname, clf, cursor, dialog, asking,
                         flush, armed, disk, failed, stale>>
       \/ /\ visible = {} /\ idle = "empty"
          /\ QuitWith(visible, {})

\* error_exit: a handler finds no slot for what it flags.
SlotsFull ==
    /\ Looping
    /\ \/ \E e \in Entries : e[2] \in open /\ ~Fits({e})
       \/ \E S \in {open \ visible, open} : ~Fits(Flagged("info", S))
    /\ Die("aborted")
    /\ UNCHANGED info
    /\ content' = Named(info, content)

-----------------------------------------------------------------------------
(* Reload (F5): the text on disk replaces the buffer, edits and all.        *)

ReloadRead(p) ==
    /\ AtPad(p)
    /\ cname[p] # {}
    /\ buf' = [buf EXCEPT ![p] = IF cname[p] \subseteq DOMAIN content
                                 THEN content[CHOOSE n \in cname[p] : TRUE] ELSE 0]
    /\ clf' = clf \ {p}
    /\ unsaved' = unsaved \ {<<"content", p>>}
    /\ failed' = failed \ {<<"content", p>>}
    /\ early' = early \ {<<"content", p>>}
    /\ UNCHANGED <<phase, open, gone, visible, iname, cname, timer, asking,
                   flush, idle, armed, disk, stale>>

ReloadFails(p) ==
    /\ AtPad(p)
    /\ "content" \in ReadFaults
    /\ cname[p] # {} /\ cname[p] \subseteq DOMAIN content
    /\ clf' = clf \cup {p}
    /\ UNCHANGED <<phase, open, gone, visible, buf, unsaved, iname, cname, timer, asking,
                   flush, idle, armed, disk, failed, early, stale>>

-----------------------------------------------------------------------------
(***************************************************************************)
(* Deleting.  The question is asked of a pad with text; the flags are      *)
(* cleared once the answer is known, then the files go, info first.  A     *)
(* file that cannot be removed is left there without a word.  The pad may  *)
(* outlive its window, and then its slots stay until the next tick.        *)
(***************************************************************************)
Gone(p) == Flagged("content", {p}) \cup Flagged("info", {p})

\* A mutation: deleting leaves the flags to a delayed save.
DeleteFlagged(p) ==
    /\ \E kept \in (IF RemoveFaults THEN SUBSET {"content", "info"} ELSE {{}}) :
        /\ info' = IF "info" \in kept THEN info ELSE Without(info, {p} \cap iname)
        /\ content' = IF "content" \in kept THEN content ELSE Without(content, cname[p])
    /\ armed' = HasHelper /\ stale' = HasHelper
    /\ open' = open \ {p} /\ visible' = visible \ {p} /\ gone' = gone \cup {p}
    /\ slots' \in {slots, Dropped(p)}
    /\ asking' = {}
    /\ UNCHANGED <<phase, unsaved, failed, early, buf, iname, cname, clf, cursor, dialog, flush, idle>>

Delete(p) ==
    /\ unsaved' = unsaved \ Gone(p)
    /\ failed' = failed \ Gone(p) /\ early' = early \ Gone(p)
    /\ \E kept \in (IF RemoveFaults THEN SUBSET {"content", "info"} ELSE {{}}) :
        /\ info' = IF "info" \in kept THEN info ELSE Without(info, {p} \cap iname)
        /\ content' = IF "content" \in kept THEN content ELSE Without(content, cname[p])
    /\ armed' = HasHelper /\ stale' = HasHelper
    /\ open' = open \ {p} /\ visible' = visible \ {p} /\ gone' = gone \cup {p}
    /\ slots' \in {slots, Dropped(p)}
    /\ asking' = {}
    /\ UNCHANGED <<phase, buf, iname, cname, clf, cursor, dialog, flush, idle>>

\* confirm-destroy off, or a pad without text.
DeleteAtOnce(p) == AtPad(p) /\ Delete(p)

\* A mutation: the flags are cleared before the question, as an older version did.
AskDeleteClearing(p) ==
    /\ AtPad(p)
    /\ buf[p] > 0
    /\ asking' = {p}
    /\ unsaved' = unsaved \ Gone(p)
    /\ UNCHANGED <<phase, open, gone, visible, buf, iname, cname, clf, timer, flush, idle,
                   armed, disk, failed, early, stale>>

AskDelete(p) ==
    /\ AtPad(p)
    /\ buf[p] > 0
    /\ asking' = {p}
    /\ UNCHANGED <<phase, memory, timer, flush, idle, armed, disk, failed, early, stale>>

Answered == phase = "up" /\ cursor = 0 /\ ~dialog

ConfirmDelete(p) == Answered /\ asking = {p} /\ Delete(p)

CancelDelete ==
    /\ Answered /\ asking # {}
    /\ asking' = {}
    /\ UNCHANGED <<phase, memory, timer, flush, idle, armed, disk, failed, early, stale>>

\* Killed between the two files.
KilledMidDelete(p) ==
    /\ AtPad(p) \/ (Answered /\ asking = {p})
    /\ info' = Without(info, {p} \cap iname)
    /\ content' = Named(info', content)
    /\ Die("killed")

-----------------------------------------------------------------------------
\* The debounced backup: the helper is started and XNote forgets it.
BackupTimeout ==
    /\ Looping /\ armed
    /\ armed' = FALSE /\ stale' = FALSE
    /\ UNCHANGED <<phase, memory, timer, asking, flush, idle, disk, failed, early>>

Pad(p) ==
    \/ TextChanged(p) \/ InfoChanged(p) \/ ShowPad(p) \/ ClosePad(p)
    \/ \E fromFile \in BOOLEAN : NewPad(p, fromFile)
    \/ ReloadRead(p) \/ ReloadFails(p)
    \/ DeleteAtOnce(p) \/ AskDelete(p) \/ ConfirmDelete(p) \/ KilledMidDelete(p)

Next ==
    \/ Start \/ FirstIdle \/ Kill \/ SlotsFull
    \/ Fire \/ Dismiss \/ KilledInTick
    \/ \E e \in Entries : Flush(e) \/ KilledInFlush(e)
    \/ DismissInFlush \/ Quit
    \/ \E p \in Pads : Pad(p)
    \/ ShowPads \/ ClosePads \/ QuitRequested
    \/ CancelDelete \/ BackupTimeout

Spec == Init /\ [][Next]_vars

(***************************************************************************)
(* The timer of the main loop goes off and a tick, a quit and a start run  *)
(* to their end.  Nothing is assumed of the user beyond closing an error   *)
(* dialog.                                                                 *)
(***************************************************************************)
FairSpec == Spec /\ WF_vars(Fire) /\ WF_vars(Dismiss)

-----------------------------------------------------------------------------
TypeOK ==
    /\ phase \in {"up", "quitting", "quit", "killed", "aborted"}
    /\ open \subseteq Pads /\ gone \subseteq Pads \ open /\ visible \subseteq open
    /\ buf \in [Pads -> 0..MaxEdits]
    /\ unsaved \subseteq Entries /\ failed \subseteq unsaved /\ early \subseteq unsaved
    /\ iname \subseteq Pads /\ clf \subseteq Pads
    /\ cname \in [Pads -> {S \in SUBSET Names : Cardinality(S) <= 1}]
    /\ slots \in [1..NSlots -> Entries \cup {Free}]
    /\ cursor \in 0..NSlots /\ (cursor > 0 => \E i \in cursor..NSlots : slots[i] # Free)
    /\ dialog \in BOOLEAN /\ armed \in BOOLEAN /\ stale \in BOOLEAN
    /\ asking \subseteq open /\ flush \subseteq Entries
    /\ idle \in {"done", "loaded", "empty"}
    /\ DOMAIN info \subseteq Pads /\ \A p \in DOMAIN info : info[p] \in InfoFiles
    /\ DOMAIN content \subseteq Names /\ \A n \in DOMAIN content : content[n] \in 0..MaxEdits

(***************************************************************************)
(* As long as a note has its info file and is not deleted, what a restart  *)
(* would show of it never goes back to an older text: not by a failed or   *)
(* killed save, not by a tick after a reload, and not by saving a pad      *)
(* whose content could not be read (content_load_failed).                  *)
(***************************************************************************)
TextNeverLost ==
    [][\A p \in DOMAIN info \cap DOMAIN info' : p \notin gone' => Restored(p)' >= Restored(p)]_vars

(***************************************************************************)
(* A deleted note's info file is not created again, whatever the timer     *)
(* still held for the pad (the flags cleared in xpad_pad_delete).          *)
(***************************************************************************)
DeletedStaysDeleted == [][gone \cap DOMAIN info' \subseteq DOMAIN info]_vars

(***************************************************************************)
(* Every flag of a pad has a slot that will save it, but for the two the   *)
(* code admits: a write that failed waits for the next edit or the quit,   *)
(* and so does what was flagged before the timer was set up.               *)
(***************************************************************************)
EditsAreScheduled ==
    phase = "up" => unsaved \subseteq Pending \cup failed \cup early \cup Flagged("content", clf)

(***************************************************************************)
(* A pad that does not count as unsaved, and whose content was readable,   *)
(* has its text in its content file: the flag is cleared by nothing but a  *)
(* committed write, a reload or the deletion.                              *)
(***************************************************************************)
Stored(p) ==
    IF cname[p] \cap DOMAIN content = {} THEN 0 ELSE content[CHOOSE n \in cname[p] : TRUE]

CleanMeansSaved == \A p \in open \ clf : <<"content", p>> \notin unsaved => Stored(p) = buf[p]

(***************************************************************************)
(* A quit leaves on disk, where the next start looks for it, the text of   *)
(* every pad it could read and whose writes did not fail, the pads that    *)
(* were never scheduled included (xpad_pad_group_destroy_pads).            *)
(***************************************************************************)
QuitSavesEverything ==
    [][phase = "quitting" /\ phase' = "quit" =>
        \A p \in open \ clf : Gone(p) \cap failed = {} => Restored(p)' = buf[p]]_vars

(***************************************************************************)
(* Nothing that was committed before a quit waits for a backup after it    *)
(* (xpad_backup_flush runs when the pads have been saved).                 *)
(***************************************************************************)
QuitBacksUp == phase = "quit" => ~stale

(***************************************************************************)
(* An edit reaches the disk unless its write fails: the timer saves it, or *)
(* a reload, a deletion or the end of the program takes it.  A full table  *)
(* of slots, which ends the program with everything unsaved, is no excuse. *)
(***************************************************************************)
EditsReachDisk ==
    \A e \in Entries :
        (phase = "up" /\ e \in unsaved \ (early \cup Flagged("content", clf)))
            ~> \/ phase \in {"quitting", "quit", "killed"}
               \/ e \notin unsaved \/ e \in failed
               \/ e \in Flagged("content", clf)

(***************************************************************************)
(* README.md: a crash never costs more than the last few seconds.  Once a  *)
(* pad's text is in its content file and no slot waits for the pad, a      *)
(* restart has to show it.                                                 *)
(***************************************************************************)
CrashCostsSeconds ==
    phase = "up" =>
        \A p \in open \ clf :
            (/\ <<"content", p>> \notin unsaved
             /\ Gone(p) \cap (Pending \cup failed) = {}) => Restored(p) = buf[p]

=============================================================================
