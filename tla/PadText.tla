------------------------------- MODULE PadText -------------------------------
(***************************************************************************)
(* The text of one note: a GtkTextBuffer whose characters carry formatting *)
(* tags, the markup it is stored in, the undo history and the edit lock.   *)
(* When a save is due and what a failed one leaves is PadSave's; here it   *)
(* may be any time.                                                        *)
(*                                                                         *)
(* The buffer itself is GTK's: text put between two characters takes the   *)
(* tags both have, the history records text and not tags, and an           *)
(* irreversible action ends by forgetting it.  A symbol is a character,    *)
(* or a word where only its being a word matters (a tag's name).           *)
(***************************************************************************)
EXTENDS Integers, Sequences, FiniteSets, SequencesExt

CONSTANTS
    Tags,    \* the names of create_tag_table
    Typed,   \* the symbols that are typed, pasted or dropped
    Legacy,  \* what a content file may hold that XNote did not write: symbol sequences
    MaxLen,  \* bound on the length of a text
    MaxUndo  \* bound on the entries of the history

TAG == "U+E000"
ESC == "U+E001"
PH == "U+E002"
Slash == "/"
Other == "x"
Symbols == {TAG, ESC, PH, Slash, Other} \cup Tags

ASSUME TextAssumption ==
    /\ Typed \subseteq Symbols /\ Legacy \subseteq Seq(Symbols)
    /\ MaxLen \in Nat /\ MaxUndo \in Nat
    /\ IsFiniteSet(Tags)
    /\ Tags \cap {TAG, ESC, PH, Slash, Other} = {}

VARIABLES
    text,     \* the buffer: a sequence of characters with their tags
    file,     \* the content file; <<>> if there is none
    unsaved,  \* unsaved_content
    failed,   \* content_load_failed
    undo,     \* the history: entries that can be undone, the latest last
    redo,     \* entries that can be done again, the next last
    lock,     \* the setting edit-lock
    editable, \* whether the text view takes input
    base      \* history: the characters of the text as it was last loaded

lockVars == <<lock, editable>>
vars == <<text, file, unsaved, failed, undo, redo, lockVars, base>>

Char == [sym : Symbols, tags : SUBSET Tags]
Entry == [op : {"ins", "del"}, at : 1..(MaxLen + 1), syms : Seq(Symbols)]

-----------------------------------------------------------------------------
(* The markup.                                                              *)

\* A mutation: only the delimiter is escaped, as if the escape character were no one's.
EscapeTagOnly(s) == IF s = TAG THEN <<ESC, PH>> ELSE <<s>>

\* xpad_text_buffer_escape_segment, one character.
Escape(s) == IF s = TAG THEN <<ESC, PH>> ELSE IF s = ESC THEN <<ESC, ESC>> ELSE <<s>>

\* xpad_text_buffer_unescape_segment: an ESC that introduces nothing stands for itself.
Unescaped(acc, s) ==
    IF ~acc.esc
    THEN IF s = ESC THEN [acc EXCEPT !.esc = TRUE] ELSE [acc EXCEPT !.out = Append(@, s)]
    ELSE [esc |-> FALSE,
          out |-> acc.out \o (IF s = ESC THEN <<ESC>> ELSE IF s = PH THEN <<TAG>> ELSE <<ESC, s>>)]

Unescape(seg) ==
    LET read[n \in 0..Len(seg)] ==
            IF n = 0 THEN [esc |-> FALSE, out |-> <<>>] ELSE Unescaped(read[n - 1], seg[n])
        end == read[Len(seg)]
    IN  IF end.esc THEN Append(end.out, ESC) ELSE end.out

TagsAt(t, i) == IF i \in DOMAIN t THEN t[i].tags ELSE {}

\* xpad_text_buffer_get_text_with_tags: between two characters the tags that begin,
\* then those that end.
Encode(t) ==
    LET Opened(i) == SetToSeq(TagsAt(t, i) \ TagsAt(t, i - 1))
        Closed(i) == SetToSeq(TagsAt(t, i - 1) \ TagsAt(t, i))
        Part(i) == FlattenSeq([k \in DOMAIN Opened(i) |-> <<TAG, Opened(i)[k], TAG>>])
                   \o FlattenSeq([k \in DOMAIN Closed(i) |-> <<TAG, Slash, Closed(i)[k], TAG>>])
                   \o (IF i \in DOMAIN t THEN Escape(t[i].sym) ELSE <<>>)
    IN  FlattenSeq([i \in 1..(Len(t) + 1) |-> Part(i)])

\* g_strsplit.
Cutting(toks, s) ==
    IF s = TAG THEN Append(toks, <<>>) ELSE [toks EXCEPT ![Len(toks)] = Append(@, s)]

Split(f) ==
    LET read[n \in 0..Len(f)] == IF n = 0 THEN <<<<>>>> ELSE Cutting(read[n - 1], f[n])
    IN  read[Len(f)]

Plain(syms, tags) == [i \in DOMAIN syms |-> [sym |-> syms[i], tags |-> tags]]

(***************************************************************************)
(* xpad_text_buffer_set_text_with_tags: every other token is text, under   *)
(* the tags that are open; a name that is no tag's is opened and closed    *)
(* like one, and formats nothing.                                          *)
(***************************************************************************)
ReadToken(acc, i, tok) ==
    IF i % 2 = 1
    THEN [acc EXCEPT !.out = @ \o Plain(Unescape(tok), {t \in Tags : <<t>> \in ToSet(acc.open)})]
    ELSE IF tok # <<>> /\ Head(tok) = Slash
    THEN [acc EXCEPT !.open = RemoveFirst(@, Tail(tok))]
    ELSE [acc EXCEPT !.open = <<tok>> \o @]

Decode(f) ==
    LET toks == Split(f)
        read[n \in 0..Len(toks)] ==
            IF n = 0 THEN [out |-> <<>>, open |-> <<>>] ELSE ReadToken(read[n - 1], n, toks[n])
    IN  read[Len(toks)].out

SymsOf(t) == [i \in DOMAIN t |-> t[i].sym]

-----------------------------------------------------------------------------
(* Edits.                                                                   *)

Put(t, i, new) == SubSeq(t, 1, i - 1) \o new \o SubSeq(t, i, Len(t))
Cut(t, i, n) == SubSeq(t, 1, i - 1) \o SubSeq(t, i + n, Len(t))
Between(t, i) == TagsAt(t, i - 1) \cap TagsAt(t, i)

\* xpad_pad_text_changed.
Changed == unsaved' = TRUE /\ UNCHANGED <<file, failed, lockVars, base>>

Record(op, i, syms) ==
    /\ Len(undo) < MaxUndo
    /\ undo' = Append(undo, [op |-> op, at |-> i, syms |-> syms])
    /\ redo' = <<>>

Insert(i, s, tags) ==
    /\ Len(text) < MaxLen
    /\ text' = Put(text, i, Plain(<<s>>, tags))
    /\ Record("ins", i, <<s>>)
    /\ Changed

Delete(i, n) ==
    /\ text' = Cut(text, i, n)
    /\ Record("del", i, SymsOf(SubSeq(text, i, i + n - 1)))
    /\ Changed

Type(i, s) == editable /\ Insert(i, s, Between(text, i))

Erase(i, n) == editable /\ Delete(i, n)

\* The menus and the toolbar's buttons, for which the text is editable whatever the
\* view says.  What was copied within the note keeps its tags.
PasteMenu(i, s) == \E tags \in SUBSET Tags : Insert(i, s, tags)

CutMenu(i, n) == Delete(i, n)

\* The toolbar's Clear.
Clear == text # <<>> /\ Delete(1, Len(text))

\* xpad_text_buffer_toggle_tag on the n characters from i on, which may be none.
Reformat(i, n, tag) ==
    LET range == i..(i + n - 1)
        tagged == \A k \in range : tag \in text[k].tags
    IN  /\ text' = [k \in DOMAIN text |->
            IF k \notin range THEN text[k]
            ELSE [text[k] EXCEPT !.tags = IF tagged THEN @ \ {tag} ELSE @ \cup {tag}]]
        /\ UNCHANGED <<undo, redo>>

\* menu_toggle_tag.
Toggle(i, n, tag) == Reformat(i, n, tag) /\ Changed

\* What an entry does to a text, and what undoes it.
Done(t, e) ==
    IF e.op = "ins" THEN Put(t, e.at, Plain(e.syms, Between(t, e.at)))
    ELSE Cut(t, e.at, Len(e.syms))

Inverted(e) == [e EXCEPT !.op = IF @ = "ins" THEN "del" ELSE "ins"]

Undo ==
    /\ undo # <<>>
    /\ text' = Done(text, Inverted(Last(undo)))
    /\ undo' = Front(undo)
    /\ redo' = Append(redo, Last(undo))
    /\ Changed

Redo ==
    /\ redo # <<>>
    /\ text' = Done(text, Last(redo))
    /\ redo' = Front(redo)
    /\ undo' = Append(undo, Last(redo))
    /\ Changed

-----------------------------------------------------------------------------
(* Files.                                                                   *)

\* xpad_pad_save_content.
Save ==
    /\ unsaved /\ ~failed
    /\ \E committed \in BOOLEAN :
        /\ file' = IF committed THEN Encode(text) ELSE file
        /\ unsaved' = ~committed
    /\ UNCHANGED <<text, failed, undo, redo, lockVars, base>>

\* A mutation: the load is an edit like any other.
LoadUndoable(t) ==
    /\ Len(undo) < MaxUndo
    /\ text' = t
    /\ undo' = Append(undo, [op |-> "ins", at |-> 1, syms |-> SymsOf(t)])
    /\ redo' = <<>>
    /\ base' = SymsOf(t)

\* set_text_with_tags between freeze_undo and thaw_undo.
LoadFrozen(t) ==
    /\ text' = t
    /\ undo' = <<>> /\ redo' = <<>>
    /\ base' = SymsOf(t)

\* xpad_pad_load_content, called by the menu's Reload.
Reload ==
    /\ LoadFrozen(Decode(file))
    /\ failed' = FALSE /\ unsaved' = FALSE
    /\ UNCHANGED <<file, lockVars>>

ReloadFails ==
    /\ file # <<>>
    /\ failed' = TRUE
    /\ UNCHANGED <<text, file, unsaved, undo, redo, lockVars, base>>

-----------------------------------------------------------------------------
(* The edit lock.                                                           *)

\* A mutation: the views look at the setting only when the focus leaves them.
ToggleLockUnseen ==
    /\ lock' = ~lock
    /\ UNCHANGED <<text, file, unsaved, failed, undo, redo, editable, base>>

\* The setting changes: every view follows at once.
ToggleLock ==
    /\ lock' = ~lock
    /\ editable' = lock
    /\ UNCHANGED <<text, file, unsaved, failed, undo, redo, base>>

\* A double click on a locked note.
Unlock ==
    /\ lock /\ ~editable
    /\ editable' = TRUE
    /\ UNCHANGED <<text, file, unsaved, failed, undo, redo, lock, base>>

\* The focus leaves the note.
FocusLeave ==
    /\ lock /\ editable
    /\ editable' = FALSE
    /\ UNCHANGED <<text, file, unsaved, failed, undo, redo, lock, base>>

-----------------------------------------------------------------------------
\* A note is loaded at start, opened from a file, which flags it, or new.
Init ==
    /\ file \in Legacy \cup {<<>>}
    /\ \E user \in Legacy \cup {<<>>} :
        \/ user = file /\ text = Decode(file) /\ unsaved = FALSE
        \/ file = <<>> /\ text = Decode(user) /\ unsaved = TRUE
    /\ failed = FALSE
    /\ undo = <<>> /\ redo = <<>>
    /\ lock \in BOOLEAN /\ editable = ~lock
    /\ base = SymsOf(text)

Ranges == {r \in (1..(MaxLen + 1)) \X (0..MaxLen) : r[1] + r[2] <= Len(text) + 1}

Next ==
    \/ \E i \in 1..(Len(text) + 1), s \in Typed : Type(i, s) \/ PasteMenu(i, s)
    \/ \E r \in Ranges : r[2] > 0 /\ (Erase(r[1], r[2]) \/ CutMenu(r[1], r[2]))
    \/ \E r \in Ranges, tag \in Tags : Toggle(r[1], r[2], tag)
    \/ Clear \/ Undo \/ Redo
    \/ Save \/ Reload \/ ReloadFails
    \/ ToggleLock \/ Unlock \/ FocusLeave

Spec == Init /\ [][Next]_vars

-----------------------------------------------------------------------------
(* The variables have their types, and only a locked note can be closed to  *)
(* input.                                                                   *)
TypeOK ==
    /\ text \in Seq(Char) /\ file \in Seq(Symbols)
    /\ unsaved \in BOOLEAN /\ failed \in BOOLEAN
    /\ undo \in Seq(Entry) /\ redo \in Seq(Entry)
    /\ lock \in BOOLEAN /\ editable \in BOOLEAN /\ (lock \/ editable)
    /\ base \in Seq(Symbols)

(***************************************************************************)
(* A note that does not count as unsaved reads back from its file exactly  *)
(* as it is on screen, every character and its formatting: whatever was    *)
(* typed, the markup's own delimiter and escape character included         *)
(* (xpad_text_buffer_escape_segment), and whatever was only formatted.     *)
(***************************************************************************)
CleanReadsBack == ~unsaved /\ ~failed => Decode(file) = text

(***************************************************************************)
(* Undoing everything there is to undo gives the text as it was loaded:    *)
(* never an emptier one, which the next save would put over the note       *)
(* (xpad_text_buffer_freeze_undo).                                         *)
(***************************************************************************)
UndoEndsAtLoad ==
    LET undone[n \in 0..Len(undo)] ==
            IF n = 0 THEN text ELSE Done(undone[n - 1], Inverted(undo[Len(undo) + 1 - n]))
    IN  SymsOf(undone[Len(undo)]) = base

=============================================================================
