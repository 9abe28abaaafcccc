----------------------------- MODULE ConfigDir -----------------------------
(***************************************************************************)
(* The configuration directory as a whole: how a starting XNote makes it   *)
(* or migrates it from Xpad, finds out whether another XNote already       *)
(* serves it and binds its socket there (xpad-app.c), and how the helper's *)
(* `restore` swaps it for an extracted snapshot (commands.go).  Both act   *)
(* on path names; a rename carries a directory away with its socket.       *)
(*                                                                         *)
(* A note is its version: Absent (0) where there is no such note.  How     *)
(* notes get into the directory one file at a time is PadSave's subject.   *)
(***************************************************************************)
EXTENDS Naturals, FiniteSets

CONSTANTS
    Notes,       \* the notes
    XNotes,      \* XNote processes that may run
    NoSocket,    \* no `server` entry in a directory
    Stale,       \* a `server` entry nobody listens on
    Xpad,        \* the socket of a running Xpad
    MaxVersion,  \* bound on the versions saved
    MaxSnaps     \* bound on the snapshots

Absent == 0
OfKit  == 1      \* the version of an imported snapshot's notes
OfXpad == 2      \* the version Xpad left

Contents == [Notes -> 0..MaxVersion]
NoNotes == [n \in Notes |-> Absent]
All(v) == [n \in Notes |-> v]

Sockets == {NoSocket, Stale, Xpad} \cup XNotes

(* A directory that does not exist is not the same as an empty one.        *)
Dir == [exists : BOOLEAN, notes : Contents, sock : Sockets]
NoDir == [exists |-> FALSE, notes |-> NoNotes, sock |-> NoSocket]
EmptyDir == [exists |-> TRUE, notes |-> NoNotes, sock |-> NoSocket]

ASSUME ConfigAssumption ==
    /\ MaxVersion \in Nat /\ MaxVersion >= OfXpad /\ MaxSnaps \in Nat
    /\ NoSocket # Stale /\ NoSocket # Xpad /\ Stale # Xpad
    /\ XNotes \cap {NoSocket, Stale, Xpad} = {}

VARIABLES
    live,      \* ~/.config/xnote
    xpad,      \* ~/.config/xpad
    tmp,       \* xnote.restore-tmp
    aside,     \* xnote.restore-old
    keeps,     \* the notes whose newest version is in a pre-restore-* copy
    snaps,     \* the contents of the snapshots that can be restored
    pc,        \* what each XNote does next
    todo,      \* the notes each migrating XNote has yet to copy
    rpc,       \* what the restore does next, "idle" when none runs
    chosen,    \* the contents of the snapshot being restored
    saved,     \* history: the newest version of each note
    current,   \* history: what the last save or restore left the user with
    met,       \* history: a start met a restore or another start
    raced,     \* history: something was written between a safety copy and its
               \* swap, or beside a migration's copy, or two starts may migrate
    torn       \* history: a migration or a swap was cut short

dirs == <<live, xpad, tmp, aside>>
backups == <<keeps, snaps>>
ghosts == <<saved, current, met, raced, torn>>
xnotes == <<pc, todo>>
vars == <<dirs, backups, xnotes, rpc, chosen, ghosts>>

(* What a starting XNote does before it serves the directory.              *)
Migrating == {"copy", "copy_bad", "undo"}
Starting == {"look", "mkdir", "rename", "drop", "connect", "bind"} \cup Migrating
Serving == {"load", "run"}
RestorePC == {"idle", "copy", "refused", "extract", "drop_old", "aside", "install", "rollback", "finish"}

TypeOK ==
    /\ live \in Dir /\ xpad \in Dir /\ tmp \in Dir /\ aside \in Dir
    /\ keeps \subseteq Notes /\ snaps \subseteq Contents
    /\ pc \in [XNotes -> {"off"} \cup Starting \cup Serving]
    /\ todo \in [XNotes -> SUBSET Notes]
    /\ rpc \in RestorePC
    /\ chosen \in Contents
    /\ saved \in Contents /\ current \in Contents
    /\ met \in BOOLEAN /\ raced \in BOOLEAN /\ torn \in BOOLEAN
    \* a listening socket belongs to a process that listens
    /\ \A d \in {live, aside} : d.sock \in XNotes => pc[d.sock] \in Serving
    /\ tmp.sock = NoSocket
    \* and nothing is in a directory that does not exist
    /\ \A d \in {live, xpad, tmp, aside} : d.exists \/ d = NoDir

(* A first start with or without an Xpad to migrate from, in a home where  *)
(* the user may have made the directory to configure the helper and        *)
(* imported a snapshot.                                                    *)
Init ==
    /\ live \in {NoDir, EmptyDir}
    /\ \/ xpad = NoDir
       \/ \E s \in {NoSocket, Stale, Xpad} :
            xpad = [exists |-> TRUE, notes |-> All(OfXpad), sock |-> s]
    /\ tmp = NoDir /\ aside = NoDir
    /\ keeps = {}
    /\ snaps \in {{}, {All(OfKit)}}
    /\ pc = [x \in XNotes |-> "off"] /\ todo = [x \in XNotes |-> {}]
    /\ rpc = "idle" /\ chosen = NoNotes
    /\ saved = xpad.notes
    /\ current = IF live.exists THEN NoNotes ELSE xpad.notes
    /\ met = FALSE /\ raced = FALSE /\ torn = FALSE

-----------------------------------------------------------------------------
(* Sockets and directories.                                                *)

(* connect() succeeds: somebody listens.                                   *)
Answers(d) == d.exists /\ d.sock \in XNotes \cup {Xpad}

(* rename(2) replaces no directory but an empty one.                       *)
Replaceable(d) == d.exists => d.notes = NoNotes /\ d.sock = NoSocket

(* The socket files of a process that ended stay behind.                   *)
Deaf(d, x) == IF d.sock = x THEN [d EXCEPT !.sock = Stale] ELSE d

Goto(x, l) == pc' = [pc EXCEPT ![x] = l] /\ UNCHANGED todo

At(x, l) == pc[x] = l

Alive == {x \in XNotes : pc[x] # "off"}
Begun == {x \in XNotes : pc[x] \in Starting}

(* What is written to the directory now is in no pre-restore copy.         *)
Swapping == rpc \in RestorePC \ {"idle", "copy", "refused"}

(* The helper ends; what it had decrypted goes with it.                    *)
Exit == rpc' = "idle" /\ chosen' = NoNotes

Ends(x) ==
    /\ pc' = [pc EXCEPT ![x] = "off"]
    /\ todo' = [todo EXCEPT ![x] = {}]
    /\ live' = Deaf(live, x)
    /\ aside' = Deaf(aside, x)

-----------------------------------------------------------------------------
(* Start: make_config_dir.                                                 *)

Launch(x) ==
    /\ At(x, "off")
    /\ Goto(x, "look")
    /\ met' = (met \/ rpc # "idle" \/ Begun # {})
    /\ raced' = (raced \/ (Begun # {} /\ xpad.exists))
    /\ UNCHANGED <<dirs, backups, rpc, chosen, saved, current, torn>>

(* The directory that exists is used as it is, even when it is empty; a    *)
(* running Xpad stops the migration and with it the start.                 *)
LookForDir(x) ==
    /\ At(x, "look")
    /\ \/ live.exists /\ Goto(x, "connect")
       \/ ~live.exists /\ ~xpad.exists /\ Goto(x, "mkdir")
       \/ ~live.exists /\ xpad.exists /\ ~Answers(xpad) /\ Goto(x, "rename")
       \/ ~live.exists /\ Answers(xpad) /\ Goto(x, "off")
    /\ UNCHANGED <<dirs, backups, rpc, chosen, ghosts>>

(* mkdir of a directory that another process made meanwhile fails unseen.  *)
MakeDir(x) ==
    /\ At(x, "mkdir")
    /\ live' = IF live.exists THEN live ELSE EmptyDir
    /\ Goto(x, "connect")
    /\ UNCHANGED <<xpad, tmp, aside, backups, rpc, chosen, ghosts>>

RenameXpad(x) ==
    /\ At(x, "rename")
    /\ xpad.exists /\ Replaceable(live)
    /\ live' = xpad
    /\ xpad' = NoDir
    /\ Goto(x, "connect")
    /\ raced' = (raced \/ Swapping)
    /\ UNCHANGED <<tmp, aside, backups, rpc, chosen, saved, current, met, torn>>

(* The rename fails, across file systems or because the source is gone:    *)
(* the copy makes its destination and then opens the source.               *)
RenameFails(x) ==
    /\ At(x, "rename")
    /\ live' = IF live.exists THEN live ELSE EmptyDir
    /\ todo' = [todo EXCEPT ![x] = {n \in Notes : xpad.notes[n] # Absent}]
    /\ \/ xpad.exists /\ pc' = [pc EXCEPT ![x] = "copy"]
       \/ pc' = [pc EXCEPT ![x] = "copy_bad"]
    /\ raced' = (raced \/ Swapping \/ live.exists)
    /\ UNCHANGED <<xpad, tmp, aside, backups, rpc, chosen, saved, current, met, torn>>

(* copy_dir_recursive goes on after a file it could not copy.              *)
CopyNote(x, n) ==
    /\ pc[x] \in {"copy", "copy_bad"}
    /\ n \in todo[x]
    /\ todo' = [todo EXCEPT ![x] = @ \ {n}]
    /\ \/ /\ live.exists /\ xpad.notes[n] # Absent
          /\ live' = [live EXCEPT !.notes[n] = xpad.notes[n]]
          /\ UNCHANGED pc
       \/ pc' = [pc EXCEPT ![x] = "copy_bad"] /\ UNCHANGED live
    /\ raced' = (raced \/ Swapping)
    /\ UNCHANGED <<xpad, tmp, aside, backups, rpc, chosen, saved, current, met, torn>>

(* A file that is no note, such as the settings, cannot be copied.         *)
CopyFails(x) ==
    /\ At(x, "copy")
    /\ Goto(x, "copy_bad")
    /\ UNCHANGED <<dirs, backups, rpc, chosen, ghosts>>

CopyEnds(x) ==
    /\ todo[x] = {}
    /\ \/ At(x, "copy") /\ Goto(x, "drop")
       \/ At(x, "copy_bad") /\ Goto(x, "undo")
    /\ UNCHANGED <<dirs, backups, rpc, chosen, ghosts>>

(* Variant: the partial destination stays.                                 *)
LeavePartialCopy(x) ==
    /\ At(x, "undo")
    /\ Goto(x, "off")
    /\ UNCHANGED <<dirs, backups, rpc, chosen, ghosts>>

(* The partial destination is deleted, and XNote does not start.           *)
UndoCopy(x) ==
    /\ At(x, "undo")
    /\ live' = NoDir
    /\ Goto(x, "off")
    /\ UNCHANGED <<xpad, tmp, aside, backups, rpc, chosen, ghosts>>

DropXpad(x) ==
    /\ At(x, "drop")
    /\ xpad' = NoDir
    /\ Goto(x, "connect")
    /\ UNCHANGED <<live, tmp, aside, backups, rpc, chosen, ghosts>>

XpadQuits ==
    /\ xpad.sock = Xpad
    /\ xpad' = [xpad EXCEPT !.sock = Stale]
    /\ UNCHANGED <<live, tmp, aside, backups, xnotes, rpc, chosen, ghosts>>

-----------------------------------------------------------------------------
(* Start: pass_args, open_proc_file, load_pads.                            *)

(* Variant: the old socket replaced without asking whether anybody listens. *)
AlwaysServe(x) ==
    /\ At(x, "connect")
    /\ Goto(x, "bind")
    /\ UNCHANGED <<dirs, backups, rpc, chosen, ghosts>>

(* With a server the new process only hands over its arguments.            *)
PassArgs(x) ==
    /\ At(x, "connect")
    /\ Goto(x, IF Answers(live) THEN "off" ELSE "bind")
    /\ UNCHANGED <<dirs, backups, rpc, chosen, ghosts>>

(* The entry at the socket's path is unlinked and a new one bound; without *)
(* a directory neither happens, and nobody looks at the error.             *)
OpenProcFile(x) ==
    /\ At(x, "bind")
    /\ live' = IF live.exists THEN [live EXCEPT !.sock = x] ELSE live
    /\ Goto(x, "load")
    /\ UNCHANGED <<xpad, tmp, aside, backups, rpc, chosen, ghosts>>

LoadPads(x) ==
    /\ At(x, "load")
    /\ live.exists
    /\ Goto(x, "run")
    /\ UNCHANGED <<dirs, backups, rpc, chosen, ghosts>>

NothingToLoad(x) ==
    /\ At(x, "load")
    /\ ~live.exists
    /\ Ends(x)
    /\ UNCHANGED <<xpad, tmp, backups, rpc, chosen, ghosts>>

(* A running XNote writes a note, by its path; without the directory the   *)
(* write fails with a dialog and the note stays unsaved.                   *)
Save(x, n) ==
    /\ At(x, "run")
    /\ live.exists
    /\ \E v \in OfXpad + 1..MaxVersion :
         /\ \A m \in Notes : saved[m] < v
         /\ v = OfXpad + 1 \/ \E m \in Notes : saved[m] = v - 1
         /\ live' = [live EXCEPT !.notes[n] = v]
         /\ saved' = [saved EXCEPT ![n] = v]
         /\ current' = [current EXCEPT ![n] = v]
         /\ keeps' = keeps \ {n}
    /\ raced' = (raced \/ Swapping \/ \E y \in XNotes : pc[y] \in Migrating)
    /\ UNCHANGED <<xpad, tmp, aside, snaps, xnotes, rpc, chosen, met, torn>>

(* xpad_app_quit means to remove the socket, but its name has been freed   *)
(* and cleared since the end of xpad_app_init.                             *)
Quit(x) ==
    /\ At(x, "run")
    /\ Ends(x)
    /\ UNCHANGED <<xpad, tmp, backups, rpc, chosen, ghosts>>

Kill(x) ==
    /\ pc[x] # "off"
    /\ Ends(x)
    /\ torn' = (torn \/ pc[x] \in Migrating)
    /\ UNCHANGED <<xpad, tmp, backups, rpc, chosen, saved, current, met, raced>>

(* The way out for a user whom a stale socket keeps from restoring.        *)
RemoveStaleSocket ==
    /\ live.sock = Stale
    /\ live' = [live EXCEPT !.sock = NoSocket]
    /\ UNCHANGED <<xpad, tmp, aside, backups, xnotes, rpc, chosen, ghosts>>

-----------------------------------------------------------------------------
(* The helper, under its lock: a backup, or a restore step by step.        *)

Backup ==
    /\ rpc = "idle"
    /\ live.exists /\ live.notes # NoNotes
    /\ Cardinality(snaps) < MaxSnaps
    /\ snaps' = snaps \cup {live.notes}
    /\ UNCHANGED <<dirs, keeps, xnotes, rpc, chosen, ghosts>>

(* The check for a running XNote, which --force skips, and the decryption. *)
RestoreSnapshot ==
    /\ rpc = "idle"
    /\ \E force \in BOOLEAN :
         /\ ~force => ~Answers(live)
         /\ met' = (met \/ Begun # {} \/ (force /\ Alive # {}))
    /\ chosen' \in snaps
    /\ rpc' = "copy"
    /\ UNCHANGED <<dirs, backups, xnotes, saved, current, raced, torn>>

(* Variant: a file that could not be copied does not end the restore.      *)
SafetyCopyPartial ==
    /\ rpc = "copy"
    /\ \E S \in SUBSET Notes :
         keeps' = keeps \cup {n \in S : live.notes[n] = saved[n]}
    /\ rpc' = "extract"
    /\ UNCHANGED <<dirs, snaps, xnotes, chosen, ghosts>>

(* copyDirStrict takes regular files only.                                 *)
Copyable(d) == d.sock = NoSocket

(* What a refused copy has copied by then is not counted as kept.          *)
SafetyCopy ==
    /\ rpc = "copy"
    /\ \/ /\ ~live.exists
          /\ rpc' = "extract"
          /\ UNCHANGED keeps
       \/ /\ live.exists /\ Copyable(live)
          /\ keeps' = keeps \cup {n \in Notes : live.notes[n] = saved[n]}
          /\ rpc' = "extract"
       \/ /\ live.exists /\ ~Copyable(live)
          /\ rpc' = "refused"
          /\ UNCHANGED keeps
    /\ UNCHANGED <<dirs, snaps, xnotes, chosen, ghosts>>

Extract ==
    /\ rpc = "extract"
    /\ tmp' = [EmptyDir EXCEPT !.notes = chosen]
    /\ rpc' = "drop_old"
    /\ UNCHANGED <<live, xpad, aside, backups, xnotes, chosen, ghosts>>

(* An extraction that fails removes its directory again; one that is       *)
(* killed leaves what it had extracted.                                    *)
ExtractFails ==
    /\ rpc = "extract"
    /\ \/ tmp' = NoDir
       \/ \E S \in SUBSET Notes :
            tmp' = [EmptyDir EXCEPT !.notes = [n \in Notes |-> IF n \in S THEN chosen[n] ELSE Absent]]
    /\ Exit
    /\ UNCHANGED <<live, xpad, aside, backups, xnotes, ghosts>>

DropOld ==
    /\ rpc = "drop_old"
    /\ aside' = NoDir
    /\ rpc' = "aside"
    /\ UNCHANGED <<live, xpad, tmp, backups, xnotes, chosen, ghosts>>

MoveAside ==
    /\ rpc = "aside"
    /\ \/ /\ live.exists
          /\ aside' = live
          /\ live' = NoDir
       \/ ~live.exists /\ UNCHANGED <<live, aside>>
    /\ rpc' = "install"
    /\ UNCHANGED <<xpad, tmp, backups, xnotes, chosen, ghosts>>

MoveAsideFails ==
    /\ rpc = "aside"
    /\ tmp' = NoDir
    /\ Exit
    /\ UNCHANGED <<live, xpad, aside, backups, xnotes, ghosts>>

Install ==
    /\ rpc = "install"
    /\ Replaceable(live)
    /\ live' = tmp
    /\ tmp' = NoDir
    /\ current' = chosen
    /\ rpc' = "finish"
    /\ UNCHANGED <<xpad, aside, backups, xnotes, chosen, saved, met, raced, torn>>

InstallFails ==
    /\ rpc = "install"
    /\ rpc' = "rollback"
    /\ UNCHANGED <<dirs, backups, xnotes, chosen, ghosts>>

(* The rollback puts the old directory back, or leaves the notes at        *)
(* .restore-old and says so.                                               *)
RollBack ==
    /\ rpc = "rollback"
    /\ \/ /\ aside.exists /\ Replaceable(live)
          /\ live' = aside
          /\ aside' = NoDir
          /\ UNCHANGED torn
       \/ torn' = (torn \/ aside.exists) /\ UNCHANGED <<live, aside>>
    /\ Exit
    /\ UNCHANGED <<xpad, tmp, backups, xnotes, saved, current, met, raced>>

Finish ==
    /\ rpc = "finish"
    /\ aside' = NoDir
    /\ Exit
    /\ UNCHANGED <<live, xpad, tmp, backups, xnotes, ghosts>>

(* A kill, or an error that leaves everything as it is.                    *)
RestoreKilled ==
    /\ rpc # "idle"
    /\ Exit
    /\ torn' = (torn \/ (rpc \in {"install", "rollback"} /\ aside.exists))
    /\ UNCHANGED <<dirs, backups, xnotes, saved, current, met, raced>>

-----------------------------------------------------------------------------
Start(x) ==
    \/ Launch(x) \/ LookForDir(x) \/ MakeDir(x) \/ RenameXpad(x) \/ RenameFails(x)
    \/ \E n \in Notes : CopyNote(x, n)
    \/ CopyFails(x) \/ CopyEnds(x) \/ UndoCopy(x) \/ DropXpad(x)
    \/ PassArgs(x) \/ OpenProcFile(x) \/ LoadPads(x) \/ NothingToLoad(x)

Restore ==
    \/ RestoreSnapshot \/ SafetyCopy \/ Extract \/ ExtractFails \/ DropOld
    \/ MoveAside \/ MoveAsideFails \/ Install \/ InstallFails \/ RollBack \/ Finish
    \/ RestoreKilled

Next ==
    \/ \E x \in XNotes : Start(x) \/ Quit(x) \/ Kill(x) \/ \E n \in Notes : Save(x, n)
    \/ XpadQuits \/ RemoveStaleSocket
    \/ Backup \/ Restore

Spec == Init /\ [][Next]_vars

-----------------------------------------------------------------------------
(* Properties.                                                             *)

(* The newest version of every note is somewhere under the user's home:    *)
(* live, set aside, in a pre-restore copy or still in Xpad's directory,    *)
(* whatever was killed or failed, as long as nothing is written into the   *)
(* directory between a restore's safety copy and its swap, or into one     *)
(* that another XNote is migrating to, and no two starts migrate at once.  *)
Held(n, v) ==
    \/ \E d \in {live, aside, xpad} : d.notes[n] = v
    \/ n \in keeps

NotesKept == ~raced => \A n \in Notes : Held(n, saved[n])

(* An XNote opens with the notes the last save or restore left, unless a   *)
(* migration's copy or a restore's swap was cut short.                     *)
LoadsCurrentNotes ==
    ~met /\ ~torn => \A x \in XNotes : At(x, "run") => live.exists /\ live.notes = current

(* Every XNote that serves can be reached at the socket of the directory,  *)
(* so that there is one and a restore sees it: no start and no restore     *)
(* takes the socket from under it.                                         *)
ServerReachable ==
    ~met => \A x \in XNotes : pc[x] \in Serving => Answers(live) /\ live.sock = x

(* docs/user-guide.md:430: a socket file that nobody answers on does not   *)
(* count for a restore when no XNote is alive.                             *)
StaleSocketDoesNotCount ==
    [][rpc = "copy" /\ rpc' = "refused" /\ Alive = {} => live.sock # Stale]_vars

=============================================================================
