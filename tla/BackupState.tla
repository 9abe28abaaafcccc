---------------------------- MODULE BackupState ----------------------------
(***************************************************************************)
(* The recovery state of one installation of xnote-cloud-backup: the files *)
(* of its state directory (keyfile.json, head.json, snapshots/ and the     *)
(* import-needs-unlock marker), the master key cached in the login         *)
(* keyring, the pre-import-* directories, remote-status.json, and the set  *)
(* of complete recovery kits on the remote.  Helper processes run the      *)
(* commands init, backup, import, unlock and rotate-passphrase one         *)
(* file-system step at a time; a process may be killed before any step,    *)
(* and the transport command it was running may outlive it.                *)
(*                                                                         *)
(* A keyfile is represented by the master key it wraps, head.json by the   *)
(* snapshot whose generation and hash it records.                          *)
(***************************************************************************)
EXTENDS Naturals, FiniteSets

CONSTANTS
    Procs,        \* helper processes (the app's sync, the timer's, the user's)
    Keys,         \* master keys
    None,         \* an absent file, an empty keyring, an unheld lock
    Keep,         \* KEEP_SNAPSHOTS
    ForeignKits,  \* kits another installation left on the remote
    ImportById,   \* may `import` name an older kit, or only `latest`?
    MaxGen,       \* bound: highest snapshot generation
    MaxSerial,    \* bound: snapshots made by this installation
    MaxImports    \* bound: imports attempted

(* serial stands for the ciphertext hash: no two snapshots ever share it,  *)
(* and this installation's are numbered from 1 in the order they are made. *)
Snapshot == [gen : Nat \ {0}, key : Keys, serial : Nat]

Kit == [keyfile : Keys, snap : Snapshot]

Saved == [keyfile : Keys \cup {None}, head : Snapshot \cup {None},
          snapshots : SUBSET Snapshot, marker : BOOLEAN]

EmptyDir == [keyfile |-> None, head |-> None, snapshots |-> {}, marker |-> FALSE]

ASSUME ConstantsAssumption ==
    /\ Keep \in Nat \ {0}
    /\ ForeignKits \subseteq Kit
    /\ \A k \in ForeignKits : k.keyfile = k.snap.key /\ k.snap.serial = 0
    /\ ImportById \in BOOLEAN
    /\ MaxGen \in Nat /\ MaxSerial \in Nat /\ MaxImports \in Nat

ForeignKeys == {k.keyfile : k \in ForeignKits}

ASSUME NoneAssumption ==
    /\ None \notin Keys
    /\ None \notin Snapshot
    /\ None \notin Procs

VARIABLES
    keyfile,      \* the master key keyfile.json wraps, or None
    head,         \* the snapshot head.json records, or None
    snapshots,    \* the .xsnap files of snapshots/
    marker,       \* does import-needs-unlock exist?
    kept,         \* the pre-import-* directory the running import fills
    preserved,    \* the pre-import-* directories left on disk
    keyring,      \* the cached master key, or None
    kits,         \* the complete kits on the remote
    status,       \* remote-status.json
    orphans,      \* the kits that transports of killed helpers may still publish
    lock,         \* the process holding backup.lock, or None
    pc,           \* what each process does next
    masterKey,    \* per process: the master key it unwrapped
    snap,         \* per process: the snapshot a backup makes
    kit,          \* per process: the kit a backup pushes or an import installs
    nextSerial,   \* the number of the next snapshot
    usedKeys,     \* history: the master keys this installation generated
    imports,      \* history: imports started
    torn,         \* history: an import was cut short between its renames
    undoFailed,   \* history: a rename of the import's rollback failed
    overtaken     \* history: orphans an import did not wait for

disk   == <<keyfile, head, snapshots, marker>>
aside  == <<kept, preserved>>
remote == <<kits, status, orphans>>
locals == <<masterKey, snap, kit>>
ghosts == <<usedKeys, imports, torn, undoFailed, overtaken>>
vars == <<disk, aside, keyring, remote, lock, pc, locals, nextSerial, ghosts>>

-----------------------------------------------------------------------------
(* Program counters, named for the step about to run.                      *)

BackupPC == {"link", "head", "rotate", "stage", "push", "record_ok", "record_fail"}
KeepPC == {"keep_keyfile", "keep_head", "keep_snapshots", "keep_marker"}
PutPC  == {"put_snapshots", "put_keyfile", "put_head", "put_marker"}
UndoPC == {"undo_snapshots", "undo_keyfile", "undo_head", "undo_marker"}
PC == {"idle", "load", "cache", "unlock_store", "unlock_clear", "rollback", "forget"}
        \cup BackupPC \cup KeepPC \cup PutPC \cup UndoPC

(* Between these steps the old recovery set is partly moved or the new one *)
(* partly installed.                                                       *)
ImportWindow == (KeepPC \ {"keep_keyfile"}) \cup PutPC \cup UndoPC \cup {"rollback"}

Status == [attempt : Snapshot \cup {None}, success : Snapshot \cup {None},
           error : BOOLEAN]

TypeOK ==
    /\ keyfile \in Keys \cup {None}
    /\ head \in Snapshot \cup {None}
    /\ snapshots \subseteq Snapshot
    /\ IsFiniteSet(snapshots)
    /\ marker \in BOOLEAN
    /\ kept \in Saved
    /\ IsFiniteSet(kept.snapshots)
    /\ preserved \subseteq Saved
    /\ keyring \in Keys \cup {None}
    /\ kits \subseteq Kit
    /\ status \in Status
    /\ orphans \subseteq Kit
    /\ lock \in Procs \cup {None}
    /\ pc \in [Procs -> PC]
    /\ masterKey \in [Procs -> Keys \cup {None}]
    /\ snap \in [Procs -> Snapshot \cup {None}]
    /\ kit \in [Procs -> Kit \cup {None}]
    /\ nextSerial \in Nat
    /\ usedKeys \subseteq Keys
    /\ imports \in Nat
    /\ torn \in BOOLEAN
    /\ undoFailed \in BOOLEAN
    /\ overtaken \subseteq Kit

Init ==
    /\ keyfile = None
    /\ head = None
    /\ snapshots = {}
    /\ marker = FALSE
    /\ kept = EmptyDir
    /\ preserved = {}
    /\ keyring = None
    /\ kits = ForeignKits
    /\ status = [attempt |-> None, success |-> None, error |-> FALSE]
    /\ orphans = {}
    /\ lock = None
    /\ pc = [p \in Procs |-> "idle"]
    /\ masterKey = [p \in Procs |-> None]
    /\ snap = [p \in Procs |-> None]
    /\ kit = [p \in Procs |-> None]
    /\ nextSerial = 1
    /\ usedKeys = {}
    /\ imports = 0
    /\ torn = FALSE
    /\ undoFailed = FALSE
    /\ overtaken = {}

-----------------------------------------------------------------------------
(* Every state-changing command runs under the flock of backup.lock; a     *)
(* process that finds it held exits at once.                               *)

Goto(p, l) == pc' = [pc EXCEPT ![p] = l]

Enter(p, l) ==
    /\ pc[p] = "idle"
    /\ lock = None
    /\ lock' = p
    /\ Goto(p, l)

At(p, l) == pc[p] = l

Step(p, from, to) ==
    /\ At(p, from)
    /\ Goto(p, to)
    /\ UNCHANGED <<lock, locals>>

(* The process ends, with or without an error, or is killed.               *)
Exit(p) ==
    /\ lock' = None
    /\ Goto(p, "idle")
    /\ masterKey' = [masterKey EXCEPT ![p] = None]
    /\ snap' = [snap EXCEPT ![p] = None]
    /\ kit' = [kit EXCEPT ![p] = None]

(* Closing an import: what the pre-import-* directory holds stays on disk; *)
(* an empty one is removed.                                                *)
LeaveKept ==
    /\ preserved' = IF kept = EmptyDir THEN preserved ELSE preserved \cup {kept}
    /\ kept' = EmptyDir

-----------------------------------------------------------------------------
(* init, unlock, rotate-passphrase                                         *)

(* Variant: init without its isInitialised check.                          *)
CmdInitUnguarded(p) ==
    /\ Enter(p, "cache")
    /\ \E k \in Keys \ (usedKeys \cup ForeignKeys) :
         /\ keyfile' = k
         /\ masterKey' = [masterKey EXCEPT ![p] = k]
         /\ usedKeys' = usedKeys \cup {k}
    /\ UNCHANGED <<head, snapshots, marker, aside, keyring, remote, snap, kit,
                   nextSerial, imports, torn, undoFailed, overtaken>>


CmdInit(p) ==
    /\ Enter(p, "cache")
    /\ keyfile = None
    /\ \E k \in Keys \ (usedKeys \cup ForeignKeys) :
         /\ keyfile' = k
         /\ masterKey' = [masterKey EXCEPT ![p] = k]
         /\ usedKeys' = usedKeys \cup {k}
    /\ UNCHANGED <<head, snapshots, marker, aside, keyring, remote, snap, kit,
                   nextSerial, imports, torn, undoFailed, overtaken>>

(* Only the passphrase slot of keyfile.json changes: the master key it     *)
(* wraps does not.                                                         *)
CmdRotatePassphrase(p) ==
    /\ Enter(p, "cache")
    /\ keyfile # None
    /\ masterKey' = [masterKey EXCEPT ![p] = keyfile]
    /\ UNCHANGED <<disk, aside, keyring, remote, snap, kit, nextSerial, ghosts>>

(* init and rotate-passphrase only warn when the keyring cannot be written. *)
CacheKey(p) ==
    /\ At(p, "cache")
    /\ keyring' \in {masterKey[p], keyring}
    /\ Exit(p)
    /\ UNCHANGED <<disk, aside, remote, nextSerial, ghosts>>

CmdUnlock(p) ==
    /\ Enter(p, "unlock_store")
    /\ keyfile # None
    /\ masterKey' = [masterKey EXCEPT ![p] = keyfile]
    /\ UNCHANGED <<disk, aside, keyring, remote, snap, kit, nextSerial, ghosts>>

UnlockStore(p) ==
    /\ \/ Step(p, "unlock_store", "unlock_clear") /\ keyring' = masterKey[p]
       \/ At(p, "unlock_store") /\ Exit(p) /\ UNCHANGED keyring
    /\ UNCHANGED <<disk, aside, remote, nextSerial, ghosts>>

UnlockClear(p) ==
    /\ At(p, "unlock_clear")
    /\ marker' \in {FALSE, marker}
    /\ Exit(p)
    /\ UNCHANGED <<keyfile, head, snapshots, aside, keyring, remote,
                   nextSerial, ghosts>>

-----------------------------------------------------------------------------
(* backup                                                                  *)

HeadGen == IF head = None THEN 0 ELSE head.gen

(* Variant: the generation follows head.json only.                         *)
IsNextGenOfHead(g) == g = HeadGen + 1


IsNextGen(g) ==
    /\ g > HeadGen
    /\ \A s \in snapshots : g > s.gen
    /\ g = HeadGen + 1 \/ \E s \in snapshots : g = s.gen + 1

(* Variant: backup without the import-needs-unlock check.                  *)
CmdBackupIgnoringMarker(p) ==
    /\ Enter(p, "load")
    /\ keyfile # None
    /\ UNCHANGED <<disk, aside, keyring, remote, locals, nextSerial, ghosts>>


CmdBackup(p) ==
    /\ Enter(p, "load")
    /\ keyfile # None
    /\ ~marker
    /\ UNCHANGED <<disk, aside, keyring, remote, locals, nextSerial, ghosts>>

(* secret-tool looks the master key up; the backup ends if there is none.  *)
LoadKey(p) ==
    /\ At(p, "load")
    /\ \/ /\ keyring # None
          /\ nextSerial <= MaxSerial
          /\ \E g \in 1..MaxGen :
               /\ IsNextGen(g)
               /\ snap' = [snap EXCEPT ![p] =
                              [gen |-> g, key |-> keyring, serial |-> nextSerial]]
          /\ nextSerial' = nextSerial + 1
          /\ Goto(p, "link")
          /\ UNCHANGED <<lock, masterKey, kit>>
       \/ Exit(p) /\ UNCHANGED nextSerial
    /\ UNCHANGED <<disk, aside, keyring, remote, ghosts>>

LinkSnapshot(p) ==
    /\ Step(p, "link", "head")
    /\ snapshots' = snapshots \cup {snap[p]}
    /\ UNCHANGED <<keyfile, head, marker, aside, keyring, remote,
                   nextSerial, ghosts>>

SaveHead(p) ==
    /\ Step(p, "head", "rotate")
    /\ head' = snap[p]
    /\ UNCHANGED <<keyfile, snapshots, marker, aside, keyring, remote,
                   nextSerial, ghosts>>

(* Writing the archive, the link or head.json failed.                      *)
BackupFail(p) ==
    /\ pc[p] \in {"link", "head"}
    /\ Exit(p)
    /\ UNCHANGED <<disk, aside, keyring, remote, nextSerial, ghosts>>

(* Variant: the id list sorted newest first.                               *)
Newest(s) == \A t \in snapshots : t.gen <= s.gen


Oldest(s) == \A t \in snapshots : s.gen <= t.gen

RotateOldest(p) ==
    /\ At(p, "rotate")
    /\ Cardinality(snapshots) > Keep
    /\ \E s \in snapshots : Oldest(s) /\ snapshots' = snapshots \ {s}
    /\ UNCHANGED <<keyfile, head, marker, aside, keyring, remote, lock, pc,
                   locals, nextSerial, ghosts>>

(* The loop ends when few enough are left, or at a removal that fails,     *)
(* which is only logged.  Without CLOUD_REMOTE the backup is then done.    *)
FinishRotation(p) ==
    /\ Step(p, "rotate", "stage") \/ (At(p, "rotate") /\ Exit(p))
    /\ UNCHANGED <<disk, aside, keyring, remote, nextSerial, ghosts>>

(* buildRecoveryKit: only the snapshot that head.json authenticates.       *)
StageKit(p) ==
    /\ \/ /\ At(p, "stage") /\ Goto(p, "push") /\ UNCHANGED <<lock, masterKey, snap>>
          /\ head = snap[p]
          /\ snap[p] \in snapshots
          /\ kit' = [kit EXCEPT ![p] = [keyfile |-> keyfile, snap |-> snap[p]]]
       \/ Step(p, "stage", "record_fail")
    /\ UNCHANGED <<disk, aside, keyring, remote, nextSerial, ghosts>>

(* The transport makes the manifest visible, and with it the kit.          *)
Publish(p) ==
    /\ At(p, "push")
    /\ kits' = kits \cup {kit[p]}
    /\ UNCHANGED <<disk, aside, keyring, status, orphans, lock, pc, locals,
                   nextSerial, ghosts>>

(* Variants: success reported without the verification after the upload; a *)
(* failed push staged and tried again without limit.                       *)
PushKitUnverified(p) ==
    /\ Step(p, "push", "record_ok")
    /\ UNCHANGED <<disk, aside, keyring, remote, nextSerial, ghosts>>

PushKitRetrying(p) ==
    /\ \/ Step(p, "push", "record_ok") /\ kit[p] \in kits
       \/ Step(p, "push", "stage")
    /\ UNCHANGED <<disk, aside, keyring, remote, nextSerial, ghosts>>

(* The end of the push as the helper sees it; RemotePush shows its steps.  *)
(* It may be reported as failed although the manifest did become visible.  *)
PushKit(p) ==
    /\ \/ Step(p, "push", "record_ok") /\ kit[p] \in kits
       \/ Step(p, "push", "record_fail")
    /\ UNCHANGED <<disk, aside, keyring, remote, nextSerial, ghosts>>

RecordAttempt(p) ==
    /\ pc[p] \in {"record_ok", "record_fail"}
    /\ status' \in {status,
                    IF At(p, "record_ok")
                    THEN [attempt |-> snap[p], success |-> snap[p], error |-> FALSE]
                    ELSE [status EXCEPT !.attempt = snap[p], !.error = TRUE]}
    /\ Exit(p)
    /\ UNCHANGED <<disk, aside, keyring, kits, orphans, nextSerial, ghosts>>

-----------------------------------------------------------------------------
(* import: the old set is moved aside item by item, then the kit's set is  *)
(* renamed in item by item, then the marker is written.                    *)

StateHasRecoveryData ==
    keyfile # None \/ head # None \/ marker \/ snapshots # {}

(* Among equal generations the id's timestamp decides.                     *)
Latest(k) ==
    \A j \in kits : \/ j.snap.gen < k.snap.gen
                    \/ j.snap.gen = k.snap.gen /\ j.snap.serial <= k.snap.serial

(* With a recovery set in place the user passes --force.                   *)
(* Variant: `latest` resolved to any complete kit.                         *)
CmdImportAny(p) ==
    /\ Enter(p, IF StateHasRecoveryData THEN "keep_keyfile" ELSE "put_snapshots")
    /\ imports < MaxImports
    /\ \E k \in kits : kit' = [kit EXCEPT ![p] = k]
    /\ imports' = imports + 1
    /\ overtaken' = overtaken \cup orphans
    /\ UNCHANGED <<disk, aside, keyring, remote, masterKey, snap, nextSerial,
                   usedKeys, torn, undoFailed>>


CmdImport(p) ==
    /\ Enter(p, IF StateHasRecoveryData THEN "keep_keyfile" ELSE "put_snapshots")
    /\ imports < MaxImports
    /\ \E k \in kits :
         /\ ImportById \/ Latest(k)
         /\ kit' = [kit EXCEPT ![p] = k]
    /\ imports' = imports + 1
    /\ overtaken' = overtaken \cup orphans
    /\ UNCHANGED <<disk, aside, keyring, remote, masterKey, snap, nextSerial,
                   usedKeys, torn, undoFailed>>

KeepKeyfile(p) ==
    /\ Step(p, "keep_keyfile", "keep_head")
    /\ kept' = [kept EXCEPT !.keyfile = keyfile]
    /\ keyfile' = None
    /\ UNCHANGED <<head, snapshots, marker, preserved, keyring, remote,
                   nextSerial, ghosts>>

KeepHead(p) ==
    /\ Step(p, "keep_head", "keep_snapshots")
    /\ kept' = [kept EXCEPT !.head = head]
    /\ head' = None
    /\ UNCHANGED <<keyfile, snapshots, marker, preserved, keyring, remote,
                   nextSerial, ghosts>>

KeepSnapshots(p) ==
    /\ Step(p, "keep_snapshots", "keep_marker")
    /\ kept' = [kept EXCEPT !.snapshots = snapshots]
    /\ snapshots' = {}
    /\ UNCHANGED <<keyfile, head, marker, preserved, keyring, remote,
                   nextSerial, ghosts>>

KeepMarker(p) ==
    /\ Step(p, "keep_marker", "put_snapshots")
    /\ kept' = [kept EXCEPT !.marker = marker]
    /\ marker' = FALSE
    /\ UNCHANGED <<keyfile, head, snapshots, preserved, keyring, remote,
                   nextSerial, ghosts>>

(* Variant: the full rollback also when preserving the old set failed.     *)
KeepFailRollsBack(p) ==
    /\ pc[p] \in KeepPC
    /\ Goto(p, "rollback")
    /\ UNCHANGED <<disk, aside, keyring, remote, lock, locals, nextSerial, ghosts>>


KeepFail(p) ==
    /\ pc[p] \in KeepPC
    /\ Goto(p, "undo_snapshots")
    /\ UNCHANGED <<disk, aside, keyring, remote, lock, locals, nextSerial, ghosts>>

PutSnapshots(p) ==
    /\ Step(p, "put_snapshots", "put_keyfile")
    /\ snapshots' = {kit[p].snap}
    /\ UNCHANGED <<keyfile, head, marker, aside, keyring, remote,
                   nextSerial, ghosts>>

PutKeyfile(p) ==
    /\ Step(p, "put_keyfile", "put_head")
    /\ keyfile' = kit[p].keyfile
    /\ UNCHANGED <<head, snapshots, marker, aside, keyring, remote,
                   nextSerial, ghosts>>

PutHead(p) ==
    /\ Step(p, "put_head", "put_marker")
    /\ head' = kit[p].snap
    /\ UNCHANGED <<keyfile, snapshots, marker, aside, keyring, remote,
                   nextSerial, ghosts>>

PutMarker(p) ==
    /\ Step(p, "put_marker", "forget")
    /\ marker' = TRUE
    /\ UNCHANGED <<keyfile, head, snapshots, aside, keyring, remote,
                   nextSerial, ghosts>>

PutFail(p) ==
    /\ pc[p] \in PutPC
    /\ Goto(p, "rollback")
    /\ UNCHANGED <<disk, aside, keyring, remote, lock, locals, nextSerial, ghosts>>

Rollback(p) ==
    /\ Step(p, "rollback", "undo_snapshots")
    /\ keyfile' = None
    /\ head' = None
    /\ marker' = FALSE
    /\ snapshots' = {}
    /\ UNCHANGED <<aside, keyring, remote, nextSerial, ghosts>>

(* The rollback ignores the error of a rename back.                        *)
UndoRenameFails ==
    /\ torn' = TRUE
    /\ undoFailed' = TRUE
    /\ UNCHANGED <<disk, kept>>

UndoSnapshots(p) ==
    /\ Step(p, "undo_snapshots", "undo_keyfile")
    /\ \/ /\ snapshots' = IF kept.snapshots = {} THEN snapshots ELSE kept.snapshots
          /\ kept' = [kept EXCEPT !.snapshots = {}]
          /\ UNCHANGED <<keyfile, head, marker, torn, undoFailed>>
       \/ kept.snapshots # {} /\ UndoRenameFails
    /\ UNCHANGED <<preserved, keyring, remote, nextSerial, usedKeys, imports,
                   overtaken>>

UndoKeyfile(p) ==
    /\ Step(p, "undo_keyfile", "undo_head")
    /\ \/ /\ keyfile' = IF kept.keyfile = None THEN keyfile ELSE kept.keyfile
          /\ kept' = [kept EXCEPT !.keyfile = None]
          /\ UNCHANGED <<head, snapshots, marker, torn, undoFailed>>
       \/ kept.keyfile # None /\ UndoRenameFails
    /\ UNCHANGED <<preserved, keyring, remote, nextSerial, usedKeys, imports,
                   overtaken>>

UndoHead(p) ==
    /\ Step(p, "undo_head", "undo_marker")
    /\ \/ /\ head' = IF kept.head = None THEN head ELSE kept.head
          /\ kept' = [kept EXCEPT !.head = None]
          /\ UNCHANGED <<keyfile, snapshots, marker, torn, undoFailed>>
       \/ kept.head # None /\ UndoRenameFails
    /\ UNCHANGED <<preserved, keyring, remote, nextSerial, usedKeys, imports,
                   overtaken>>

UndoMarker(p) ==
    /\ At(p, "undo_marker")
    /\ Exit(p)
    /\ \/ /\ marker' = (marker \/ kept.marker)
          /\ preserved' = LET left == [kept EXCEPT !.marker = FALSE]
                          IN IF left = EmptyDir THEN preserved ELSE preserved \cup {left}
          /\ UNCHANGED <<torn, undoFailed>>
       \/ /\ kept.marker
          /\ torn' = TRUE
          /\ undoFailed' = TRUE
          /\ preserved' = preserved \cup {kept}
          /\ UNCHANGED marker
    /\ kept' = EmptyDir
    /\ UNCHANGED <<keyfile, head, snapshots, keyring, remote, nextSerial,
                   usedKeys, imports, overtaken>>

(* KeyringDelete; when it fails the import is reported as failed although  *)
(* the state is installed and the marker stands.                           *)
ForgetKey(p) ==
    /\ At(p, "forget")
    /\ keyring' \in {None, keyring}
    /\ Exit(p)
    /\ LeaveKept
    /\ UNCHANGED <<disk, remote, nextSerial, ghosts>>

-----------------------------------------------------------------------------
(* Environment: a process is killed (the kernel drops its flock), what its *)
(* transport does afterwards, or the user empties the keyring.             *)

(* The transport a push has started is not killed with it: until the kit   *)
(* is complete on the remote, it may become so at any time from now on.    *)
Crash(p) ==
    /\ pc[p] # "idle"
    /\ Exit(p)
    /\ LeaveKept
    /\ torn' = (torn \/ pc[p] \in ImportWindow)
    /\ orphans' = IF At(p, "push") /\ kit[p] \notin kits
                  THEN orphans \cup {kit[p]} ELSE orphans
    /\ UNCHANGED <<disk, keyring, kits, status, nextSerial, usedKeys, imports,
                   undoFailed, overtaken>>

(* Whoever holds the lock by then, if anyone.  A transport that ends with  *)
(* an error is one that never takes this step.                             *)
OrphanPublishes ==
    /\ \E k \in orphans :
         /\ orphans' = orphans \ {k}
         /\ kits' = kits \cup {k}
    /\ UNCHANGED <<disk, aside, keyring, status, lock, pc, locals, nextSerial, ghosts>>

KeyringCleared ==
    /\ keyring # None
    /\ keyring' = None
    /\ UNCHANGED <<disk, aside, remote, lock, pc, locals, nextSerial, ghosts>>

BackupStep(p) ==
    \/ LinkSnapshot(p) \/ SaveHead(p) \/ BackupFail(p)
    \/ RotateOldest(p) \/ FinishRotation(p)
    \/ StageKit(p) \/ Publish(p) \/ PushKit(p) \/ RecordAttempt(p)

ImportStep(p) ==
    \/ KeepKeyfile(p) \/ KeepHead(p) \/ KeepSnapshots(p) \/ KeepMarker(p) \/ KeepFail(p)
    \/ PutSnapshots(p) \/ PutKeyfile(p) \/ PutHead(p) \/ PutMarker(p) \/ PutFail(p)
    \/ Rollback(p)
    \/ UndoSnapshots(p) \/ UndoKeyfile(p) \/ UndoHead(p) \/ UndoMarker(p)
    \/ ForgetKey(p)

Command(p) ==
    \/ CmdInit(p) \/ CmdRotatePassphrase(p) \/ CmdUnlock(p)
    \/ CmdBackup(p) \/ CmdImport(p)

KeyStep(p) == LoadKey(p) \/ CacheKey(p) \/ UnlockStore(p) \/ UnlockClear(p)

Next ==
    \/ \E p \in Procs : Command(p) \/ KeyStep(p) \/ BackupStep(p) \/ ImportStep(p) \/ Crash(p)
    \/ OrphanPublishes
    \/ KeyringCleared

Spec == Init /\ [][Next]_vars

-----------------------------------------------------------------------------
(* Properties.                                                             *)

(* head.json never names a snapshot that is not in snapshots/, so `restore *)
(* latest` always finds a snapshot at least as new as the rollback guard's *)
(* generation: through rotation, through every point at which a backup or  *)
(* an import may be killed, and through a rollback (unless the rollback's  *)
(* own renames fail, whose errors installRecoveryKit ignores).             *)
HeadOnDisk == head # None /\ ~undoFailed => head \in snapshots

(* Two snapshots on disk never share a generation, also after a backup was *)
(* killed between linking its snapshot and saving head.json.               *)
GenerationsUnique ==
    \A s, t \in snapshots : s.gen = t.gen => s = t

(* Whatever a backup leaves can be opened.  Every kit on the remote opens  *)
(* with the keyfile it carries, the head's snapshot with the keyfile in    *)
(* place, and a backup under way encrypts under the key of that keyfile:   *)
(* never under a cached key it does not wrap.  Excepted are histories in   *)
(* which an import was cut short between its renames: installRecoveryKit   *)
(* writes the marker after the keyfile, and the old key is cached still.   *)
KitsOpen == ~torn => \A k \in kits : k.keyfile = k.snap.key

HeadOpens == ~torn /\ keyfile # None /\ head # None => head.key = keyfile

BackupUsesOwnKey ==
    ~torn => \A p \in Procs : pc[p] \in BackupPC => snap[p].key = keyfile

BackupsOpen == KitsOpen /\ HeadOpens /\ BackupUsesOwnKey

(* What `status` reports as the last success did reach the remote, and no  *)
(* recorded error means that the last attempt is that success.             *)
StatusHonest ==
    /\ status.success # None => \E k \in kits : k.snap = status.success
    /\ ~status.error => status.attempt = status.success

(* `import --force` never loses a key: every master key init generated is  *)
(* still wrapped by a keyfile in the state directory or in a pre-import-*  *)
(* directory, whatever was killed or failed on the way.                    *)
KeysPreserved ==
    \A k \in usedKeys : \/ keyfile = k
                        \/ kept.keyfile = k
                        \/ \E d \in preserved : d.keyfile = k

LocalSnapshots ==
    snapshots \cup kept.snapshots \cup UNION {d.snapshots : d \in preserved}

(* A snapshot disappears from the machine only by rotation, which takes the *)
(* oldest and never the head, or as the imported copy of a remote kit.     *)
SnapshotsPreserved ==
    [][\A s \in LocalSnapshots \ LocalSnapshots' :
          \/ \E k \in kits : k.snap = s
          \/ \E p \in Procs : At(p, "rotate") /\ Oldest(s) /\ s # head]_vars

(* `latest` on the remote is the kit pushed last, although generations are *)
(* compared and not times: on a remote that only this installation uses,   *)
(* as long as imports take the latest kit and none is cut short.  (An      *)
(* import of an older kit, or an init over another installation's kits,    *)
(* restarts the numbering below the kits already there.)  And it is the    *)
(* kit made last whichever order killed helpers' transports finish in,     *)
(* unless one of them publishes its kit after an import that took the      *)
(* latest kit without it: the next backups are then numbered below it.     *)
LatestKitIsNewest ==
    ~ImportById /\ ForeignKits = {} /\ ~torn /\ overtaken \cap kits = {} =>
        \A j, k \in kits : Latest(k) => j.snap.serial <= k.snap.serial

(* Once the key is loaded a backup does not hold the lock for ever: its    *)
(* steps end, the remote commands by their timeout (runRemoteCommand,      *)
(* rcloneCatToFile); that reading a local file or a mounted remote ends is *)
(* assumed.  Of LoadKey nothing is assumed: secret-tool has no timeout,    *)
(* and may wait for the user to unlock the keyring.                        *)
BackupFairness == \A p \in Procs : WF_vars(BackupStep(p))

FairSpec == Spec /\ BackupFairness

BackupReleasesLock ==
    \A p \in Procs : pc[p] \in BackupPC ~> lock # p
=============================================================================
