# TLA+ models of XNote and its backup helper

XNote is a GTK sticky-note program (`src/src/*.c`) with a separate helper,
`xnote-cloud-backup` (`src/cloud-helper/*.go`), that keeps encrypted snapshots
of the notes and pushes recovery kits to an rclone or rsync remote. The modules
here model the parts of the two in which several steps, processes or failures
have to fit together, and state what those parts promise.

Paths below are relative to the repository: `src/src/xpad-pad.c` is the file of
the C program, `src/cloud-helper/commands.go` that of the helper.

## 1. The system

### Parts, their state and their operations

| Part | Source | State | Operations |
|---|---|---|---|
| Helper commands and recovery state | `commands.go`, `recovery.go`, `snapshot.go`, `lock.go`, `status.go`, `keyfile.go` | `keyfile.json`, `head.json`, `snapshots/`, `import-needs-unlock`, `remote-status.json`, `pre-import-*`, `backup.lock` | `init`, `unlock`, `rotate-passphrase`, `backup`, `import`, `restore`, `list`, `remote-list`, `status` |
| Remote transport | `remote.go` | one directory per snapshot id: snapshot, keyfile, head, manifest | stage, push payload, verify, push manifest, verify; list, fetch, validate |
| Keyring | `keyring.go` | one cached master key | store, load, delete through `secret-tool` |
| Encryption | `crypto.go`, `keyfile.go` | none between runs | wrap and unwrap the key, encrypt and decrypt a chunked stream |
| Archive | `archive.go` | none between runs | walk the configuration directory, extract into a staging directory |
| Note persistence | `xpad-pad.c`, `xpad-periodic.c`, `xpad-pad-group.c`, `fio.c`, `xpad-backup.c`, parts of `xpad-app.c` | per pad: buffer, `unsaved_content`, `unsaved_info`, names, `content_load_failed`; the timer's slots; `info-*` and `content-*` files; the 45-second backup timer | edit, tick, save, error dialog, reload, delete, close, show, quit, start |
| Text of a note | `xpad-text-buffer.c`, `xpad-text-view.c`, `xpad-pad.c` | characters and their tags, undo and redo history, the edit lock; the markup in the content file | type, erase, paste, format, clear, undo, redo, save, load, lock and unlock |
| Style of a note | `xpad-text-view.c`, `xpad-pad-properties.c`, `xpad-preferences.c`, `xpad-pad.c` | default font and colours; per pad: whether it follows them, its own, what it shows; the Layout dialog | Preferences, Layout dialog, palette, save, load |
| Toolbar | `xpad-toolbar.c`, `xpad-pad.c`, `xpad-settings.c` | `has-toolbar`, `autohide-toolbar`, the list of buttons, their file; per pad: revealed, countdown, open popovers | pointer enters and leaves, countdown ends, popovers open and close, settings, buttons added and removed |
| Tray | `xpad-tray.c` | owner and watch ids, generation, registration, menu items and their ids | start, stop, five D-Bus callbacks, `GetLayout`, `AboutToShow`, clicks, activation |
| Windows and second launch | `xpad-app.c`, `xpad-pad-group.c`, `xpad-pad.c` | which pads are on screen, whether the first idle check is due | start, first idle check, close, show, toggle, delete, a command line handed over |
| Single instance | `xpad-app.c` | the server socket | start, hand arguments to a running XNote |
| Restore | `commands.go` (`cmdRestore`), `archive.go` | the configuration directory, `.restore-tmp`, `.restore-old`, `pre-restore-*` | safety copy, extraction, swap, rollback |
| Migration | `xpad-app.c` (`make_config_dir`) | the configuration directory, Xpad's | rename, or copy and delete, at start |
| Settings | `xpad-settings.c`, `xpad-preferences.c` | one object of properties, `default-style` | property writes, load, save |
| Presentation | `xpad-search-bar.c`, `help.c`, `xpad-grip-tool-item.c`, `xpad-styling-helpers.c` | widgets | drawing |

### How they interact

* A change of a pad sets a flag and asks the periodic timer for a slot. Every
  four seconds the tick saves what the slots name, first the content file, then
  the info file that points to it. Each committed file write restarts the
  45-second timer of `xpad-backup.c`, and when that fires (or when XNote quits)
  it starts `xnote-cloud-backup sync`.
* Helper processes exclude each other by an `flock` on `backup.lock`; the lock
  goes with the process, everything else stays as a kill leaves it.
* A backup archives the configuration directory, encrypts it under the cached
  key, links the snapshot, saves `head.json`, rotates, stages a kit of
  snapshot, keyfile and head, and hands it to the transport. `import` fetches a
  kit and puts it where the state directory's set was.
* `restore` swaps the configuration directory that XNote works in. It looks once
  whether anybody answers on the `server` socket in it; a starting XNote uses
  the same socket to find out whether another serves, and binds its own there.
* The transport is a process of its own: it can hang, be killed by a timeout,
  or go on copying after the helper that started it is gone.
* The settings are one object that announces each change to every pad, to the
  tray and to the dialogs; a pad's answer to one signal may set off another.
* The tray answers two questions of the rest of the program (is there an icon,
  is that known yet); closing the last note and the first idle check depend on
  them. The desktop's side of the tray is another process with a copy of the
  menu, and what it has to say is queued in the main loop.

### What is hard

Kills between two renames; rollbacks whose own renames can fail; a cached key
that belongs to another keyfile; generations that restart; two machines with
one device name; orphaned transports; modal dialogs that run the main loop in
the middle of a tick; a slot table of fixed size whose overflow ends the
program; flags set before the timer exists; failed writes that are retried only
by the next edit; a quit with half of everything pending; callbacks of a tray
that was stopped; clicks on a menu that has been rebuilt; text that holds the
markup's own delimiter; handlers that are blocked more often than unblocked.
`PROJECT.json` lists each at its line under `hazards`, with the property that
watches it or the reason why none does.

### What makes each part correct

* Recovery state: the head is on disk and opens with the keyfile in place, no
  generation is used twice, keys and snapshots are never lost by an import or a
  failed one, the status file never claims more than is true.
* Transport: a manifest means a complete kit; success means published; a reader
  sees one kit; what is published stays; every push ends.
* Note persistence: no text goes backwards, no deleted note comes back, no flag
  is forgotten, an edit reaches the disk, a quit saves everything and backs it
  up.
* Text: what is saved reads back as it was, and undo never goes past the text
  that was loaded.
* Style and toolbar: a note shows what it is set to and shows it again after a
  restart; a toolbar that hides by itself goes away, and its countdown never
  outlives its note.
* Tray and windows: an icon is claimed when there is one, a click does what its
  row said, and nothing leaves XNote running out of reach.
* Configuration directory: a migration or a restore, failed or killed anywhere,
  loses no note; a start finds the notes the last save or restore left; whoever
  serves the directory can be reached at its socket.

## 2. The modules

```
                KitStore               TrayStatus           (abstract)
                   |                       |
 BackupState   RemotePush                 Tray              (the code)
     |             |                       |
     |             |                    Desktop (EXTENDS Tray)
 ...Proofs     ...Proofs               ...Proofs

 PadSave    ConfigDir    PadToolbar    PadStyle    PadText  (the code)
    |           |            |            |           |
...Proofs   ...Proofs    ...Proofs    ...Proofs   ...Proofs
```

Each has an `MC` module and one or more `.cfg` files for TLC. `KitStore` and
`TrayStatus` are what other parts rely on; that the detailed modules implement
them is checked as a property and proved as well.

### KitStore

What the header comment of `remote.go` promises its readers: a set of complete
kits that grows one kit at a time, in which a kit never changes. `RemotePush`
(the directories that have a manifest) is shown to implement it by instantiating
it and checking, and proving, its specification as a property. `BackupState`
takes it for granted: its `kits` change by the appearance of a kit and in no
other way.

### BackupState

One installation's state directory, keyring and remote. Each step is one
file-system operation of one helper process; a process is killed by `Crash(p)`
before any of them, which releases the lock and leaves the disk as it is.

* `keyfile` is the master key the file wraps; a rotation of the passphrase
  changes the wrapping, so it changes nothing here but takes the lock and
  caches the key. `head` is the snapshot `head.json` names. A snapshot is its
  generation, the key it was encrypted under, and a serial number that stands
  for its ciphertext hash.
* `backup` is `CmdBackup` (the lock and the checks), `LoadKey` (the lookup by
  `secret-tool`, which has no timeout and runs under the lock, then the archive
  and the encryption, which write only temporary files), `LinkSnapshot`,
  `SaveHead`, `RotateOldest` repeated, `FinishRotation`, `StageKit`, `Publish`
  (the manifest becomes visible, if it ever does), `PushKit` (what the helper
  makes of it) and `RecordAttempt`. The commands inside a push are `RemotePush`.
* A helper killed while it pushes leaves its transport running: its kit is then
  one of the `orphans`, which `OrphanPublishes` may publish at any time, whoever
  holds the lock by then, or never.
* `import` is `CmdImport` (lock, refusal without `--force`, fetch and check),
  the four renames that set the old set aside (`Keep...`), the four steps that
  install the new one (`Put...`), the rollback of `installRecoveryKit` with the
  renames it undoes (`Undo...`, each of which may fail unnoticed), and
  `ForgetKey`. The `pre-import-*` directory being filled is `kept`; those left
  behind are `preserved`.
* `unlock` is `CmdUnlock`, `UnlockStore`, `UnlockClear`. `KeyringCleared` is
  the user or the desktop emptying the keyring at any time.
* History variables that the code does not have: `usedKeys`, `imports`, `torn`
  (an import was cut short between its renames), `undoFailed`, and `overtaken`
  (the orphans there were when an import chose its kit).

### RemotePush

The inside of a push and of a fetch, file by file, for several installations
that may use the same id. `job[p]` is the transport command of push `p`: it
outlives its helper (`HelperKilled`, then `CopyFile` still enabled until
`OrphanEnds`), or is killed by its timeout (`CommandFails`). Neither transport
replaces a file: rsync skips it (`--ignore-existing`), rclone refuses a
different one (`--immutable`). Readers list, choose `latest` or an id, and fetch
the manifest and then each file by a command of its own.

### PadSave

The running XNote and the files of its notes. The program has one thread, so a
handler is one step, except where it runs the main loop again (the two modal
dialogs) and where a kill can be seen on disk (between two files).

* `Start` reads the directory, `FirstIdle` is `first_idle_check`.
  `TextChanged`, `InfoChanged`, `NewPad`, `ShowPad`, `ShowPads`, `ClosePad`,
  `ClosePads`, `ReloadRead`, `ReloadFails`, `DeleteAtOnce`, `AskDelete`,
  `ConfirmDelete`, `CancelDelete` and `QuitRequested` are the handlers.
* `Fire` starts a tick or goes on with it: one step per slot, because each save
  writes files and may open a dialog. `Dismiss` closes the dialog of a failed
  write. `Flush`, `DismissInFlush` and `Quit` are the same for a quit, which
  walks the pads of the group.
* The actions named `Killed...` are kills between two files of one handler;
  `Kill` is a kill anywhere else. `SlotsFull` is the `exit` of
  `xpad_periodic_signal` on a full table.
* `asking` is the pad whose deletion is being confirmed: the dialog is modal,
  so that pads take no input, but ticks fire, and the tray, a second xnote and
  signals still get through (`Looping`).
* A text is the number of edits it took; its content file's name is one of
  `Names`, and a content file that no info file names is forgotten (`Named`),
  since nothing ever opens it. Several operations over all pads happen in the
  group's order, which the model leaves open (`Orders`).
* History variables: `failed`, `early` (flagged before the timer existed),
  `stale` (something committed that no backup has followed).

### ConfigDir

The configuration directory as a whole, under four names: `live`
(`~/.config/xnote`), `xpad`, `tmp` (`.restore-tmp`) and `aside`
(`.restore-old`). A directory has its notes, each given by a version, and the
`server` entry in it, which a rename carries along.

* A start is `Launch`, then `make_config_dir`: `LookForDir`, `MakeDir`,
  `RenameXpad`, or `RenameFails` followed by `CopyNote` for each note,
  `CopyFails`, `CopyEnds`, and `DropXpad` or `UndoCopy`; then `PassArgs`
  (connect to whoever serves), `OpenProcFile` (unlink and bind), `LoadPads` or
  `NothingToLoad`. Each is a step of its own because other processes act on the
  same names in between.
* A running XNote does `Save`, by path name, and `Quit` or `Kill`. Both leave
  the socket's file: the name `xpad_app_quit` unlinks has been cleared.
* A restore is `RestoreSnapshot` (the look for a running XNote, which `--force`
  skips, and the decryption), `SafetyCopy`, `Extract` or `ExtractFails`,
  `DropOld`, `MoveAside` or `MoveAsideFails`, `Install` or `InstallFails` with
  `RollBack`, and `Finish`. `RestoreKilled` is a kill before any of them. One
  restore runs at a time, under `backup.lock`.
* `keeps` stands for the `pre-restore-*` copies by what the property asks of
  them: which notes' newest version is in one. Nothing reads them back.
* History variables: `saved` (newest versions), `current` (what the last save
  or restore left), `met` (a start began while another was under way or a
  restore ran, or a restore began during a start or was forced beside a running
  XNote), `raced` (something was written between a safety copy and its swap, or
  beside a migration's copy), `torn` (a migration's copy or a swap was cut
  short).

### TrayStatus, Tray and Desktop

`TrayStatus` is the promise behind `xpad_tray_has_indicator` and
`xpad_tray_ready`: arm, learn, disarm. `Tray` is the D-Bus part of
`xpad-tray.c`: `RuntimeStart` and `RuntimeStop`, the callbacks `BusAcquired`,
`NameAcquired`, `NameLost`, `WatcherAppeared` and `WatcherVanished`, each queued
with the generation that asked for it (`ownQueue`, `watchQueue`), the menu
(`items`, an id for each row, `PadsChanged` when the group changes), and the
desktop's side: `layout` is the menu it has read, `fetch` that it has been told
to read again, `open` that the menu is on screen, `click` the event on its way.

`Desktop` extends it with the program around: `Start` (`xpad_app_init` as far
as windows go), `IdleWaits`, `FirstIdle` and `IdleQuits` (the first idle
check), `Enable` and `Disable` (the setting), `Close`, `NewKey`, `ShowAllKey`,
`ShowKey`, `CloseAllKey`, `Delete`, `QuitAsked`, `Event` and `Activate` (a
click on a row or on the icon), and `SecondLaunch` (`process_remote_args` for
each command line of at most `MaxOptions` options). Notes on disk, files and
dialogs are `PadSave`'s; here a start finds any number of notes, hidden or not.

### PadText

A text is a sequence of characters with the set of their tags. `Encode` is
`xpad_text_buffer_get_text_with_tags`, `Escape` its escaping of the delimiter
`U+E000` and the escape character `U+E001`; `Decode` is
`xpad_text_buffer_set_text_with_tags`, whose loops are the functions `read` with
`Cutting`, `ReadToken` and `Unescaped` for a round. `Type` and `Erase` need an editable
note, the menus' `PasteMenu` and `CutMenu` do not, as in the code; `Toggle` is
the formatting of a selection; `Clear`, `Undo`, `Redo`, `Save`, `Reload`,
`ReloadFails`, `ToggleLock`, `Unlock` and `FocusLeave` are the handlers. The
delimiter itself comes into a text as old files bring it (`Legacy`).

The buffer is GTK's: text put between two characters takes the tags both have,
the history records text and not tags, an irreversible action ends by
forgetting the history. These are assumptions about GTK, named in the module.

### PadToolbar

The settings are shared by all pads; each pad has `timer`, the id it keeps, and
`sources`, what the main loop has, so that losing track of a source can be
seen. `Enter`, `Leave`, `ToolbarTimeout`, `PopUp`/`CloseMenu` (click menu, key
menu, highlight, palette), `ToggleHas`, `ToggleAutohide`, `AddButton`,
`RemoveLast`, `RemoveAll`, `NewPad`, `DeletePad` and `Restart` are the
handlers; `file` is what `default-style` holds. `menus` is the pad's counter,
`popped` what is on screen: the two part where a key pops up the menu that is
up already, which `again` remembers.

### PadStyle

One note's `view` (follows font, follows colours, own, shown, how often its font
handler is blocked), its open Layout `dialog`, its `info` file and whether it is
marked `unsaved`. The handlers are those of Preferences (`ChangeFontCheck`,
`ChangeColorCheck`, `ChangeFontFace`, `ChangeColor`), of the dialog
(`OpenProperties`, `PropNotifyFont`, `PropNotifyColors`, `CloseProperties`), the
palette (`SetBackColor`), and `SaveInfo`, `Touch`, `NewPad`, `DeletePad` and
`Restart`. An answer to a notification is part of the action that notifies.

Definitions preceded by the words "A mutation" or "Variant" are forms of an operation with a
plausible slip in it. No action uses them; `PROJECT.json` pairs each with the
property it breaks, which shows that the property says something about the code.

## 3. What is checked

| Run | Instance | What it shows |
|---|---|---|
| `backup_state` | 2 processes, keys `k1`, `k2` for `init` and `kf` of one foreign kit, `Keep` 1, generations to 3, 2 own snapshots, 2 imports | The state directory's invariants through every command, kill and failure, an import over what a killed or rolled back import left included. |
| `backup_latest` | 1 process, no foreign kits, 1 import, of `latest`, generations to 3, 4 own snapshots, `FairSpec` | The highest generation on the remote is the kit made last, whenever the transports of killed helpers end; a backup that has its key lets go of the lock. |
| `remote_push` | two pushes of one installation, by rsync and by rclone, one of another by rsync under the id of the second; one reader; `FairSpec` | Manifest, success and reading are sound; the refinement; every push ends. |
| `pad_one` | 1 note, 2 content names, 3 edits, up to 2 failed entries, failing deletions, unreadable contents, tray and helper; `FairSpec` | What happens to one note's text in every order of edits, ticks, dialogs, reloads, deletion, quits and kills; what is edited reaches the disk. |
| `pad_two` | 2 notes, 3 slots, 1 edit, 1 failed entry, no tray | The notes share the timer and the quit: no flag forgotten, with the table too small for all four events, and the quit saves all. |
| `config_dir` | 1 note, 2 XNotes that start one after the other or at once, 1 snapshot, two saves | Notes survive every migration and restore, a start finds the current ones, whoever serves can be reached. |
| `desktop` | 2 pads, 2 starts of the tray, 12 item ids, 2 callbacks queued per source, 1 wait, 2 options | Tray, menu and windows against a bus that answers late or never and a shell that restarts; `Tray` implements `TrayStatus`. |
| `pad_text` | 2 characters, 2 tags, the escape character typed, 7 contents XNote never wrote, 2 history entries | Text, markup, undo and lock in every order. |
| `pad_toolbar` | 2 pads, 3 buttons, lists of 2, up to 4 menus counted | Pointer, popovers, countdown, settings, buttons, deletion, restarts. |
| `pad_style` | 2 fonts, 3 colours, 4 blocks | Preferences, dialog, palette, saves, restarts, old locked files. |
| `pad_crash` | 1 note, 1 edit | Finding 1. |
| `restore_socket` | as `config_dir` | Finding 2. |

Deadlock is checked in `desktop`, `pad_text`, `pad_toolbar` and `pad_style`,
where something can always happen. It is off in the others: the helper's
processes go idle for good when their bounds are used up, pushes end, XNote
quits.

### Properties

`BackupState`

* `HeadOnDisk`: the head's snapshot exists, unless a rename of a rollback failed.
* `GenerationsUnique`: two snapshots on disk never share a generation.
* `BackupsOpen`: every kit, the head's snapshot and a running backup agree with
  the keyfile beside them, unless an import was cut short between its renames
  (what happens then is under the known divergences).
* `StatusHonest`: a reported success is on the remote.
* `KeysPreserved`, `SnapshotsPreserved`: `import --force` loses no key, and a
  snapshot leaves the machine only by rotation or as a copy of a kit.
* `LatestKitIsNewest`: `latest` is the newest kit, for an installation alone on
  its remote that only imports `latest`, unless an import was cut short or an
  orphan has published a kit that an import did not wait for (see the known
  divergences).
* `BackupReleasesLock`: liveness, of a backup that has loaded its key.

`RemotePush`

* `ManifestMeansComplete`, `SuccessMeansPublished`, `KitsAppendOnly`: what a
  visible manifest and a reported success are worth.
* `ImportSeesOneKit`: four fetches give files of one kit.
* `LatestNotStale`: an import of `latest` is no older than what was there when
  it looked.
* `PushEnds`: liveness.

`PadSave`

* `TextNeverLost`: what a restart would show of a note never goes back.
* `DeletedStaysDeleted`: nothing recreates a deleted note's info file.
* `EditsAreScheduled`: every flag has a slot, but for failed writes and flags
  set before the timer existed.
* `CleanMeansSaved`: a cleared flag means the text is in the file.
* `QuitSavesEverything`, `QuitBacksUp`: what a quit leaves behind.
* `EditsReachDisk`: liveness; a table without room, which ends the program with
  everything unsaved, is not accepted as a reason.

`ConfigDir`

* `NotesKept`: the newest version of every note is live, set aside, in a
  pre-restore copy or in Xpad's directory, unless something was written between
  a safety copy and its swap (`raced`; the code has no protection there).
* `LoadsCurrentNotes`: an XNote opens with what the last save or restore left,
  unless a copy or a swap was cut short, or starts and restores met.
* `ServerReachable`: whoever serves the directory is found at its socket, on
  which the refusal of a restore and the single instance rest.

`Tray` and `Desktop`

* `NoMisdispatch`: a click does what its row said or nothing, however old the
  menu is that was clicked.
* `IndicatorIsShown`: with no callback outstanding, the program believes in an
  icon exactly when the desktop has one.
* `OpenMenuWorks`: the open menu's ids are the program's.
* `KeepsStatus`: `Tray` implements `TrayStatus`.
* `NeverStranded`: no step but the loss of the icon, or of the last note to
  deletion, leaves XNote running with neither a note on screen nor an icon.

`PadText`

* `CleanReadsBack`: a note that does not count as unsaved reads back from its
  file with every character and its formatting.
* `UndoEndsAtLoad`: undoing all there is gives the text as it was loaded.

`PadToolbar`

* `ToolbarGoesAway`: a toolbar that hides by itself, is shown and held by
  neither pointer nor menu has its countdown running, but on a pad that popped
  up a menu over itself (see the known divergences).
* `MenuHoldsToolbar`: under an open menu no countdown takes the toolbar away,
  with several menus open over one another and closed in any order.
* `TimerOwned`: the main loop has no countdown its pad does not know of.
* `ToolbarSurvives`: a restart brings back the toolbar on screen, but for the
  two exceptions under the known divergences.

`PadStyle`

* `ShowsItsStyle`: note, defaults and open dialog agree on font and colours.
* `LooksSurvive`: a note not marked for saving looks the same after a restart.

Each module has one type invariant, `TypeOK`. Those of `BackupState`,
`RemotePush`, `ConfigDir`, `PadToolbar` and `PadStyle` are proved for all
constants and not part of a run; the others are.

### Bounds and why they are enough

* Two helper processes: the lock admits one at a time, so what matters is one
  running command and what earlier ones left; a second process supplies the
  refusals. `backup_latest` has one: a process keeps nothing from one command to
  the next, and the transports of killed helpers go on beside it all the same.
  Its four snapshots are one pushed, one that fails after its link, one whose
  transport is orphaned and one made after the import, the fewest with which an
  orphan can upset the order.
* Keys: two that `init` can make and one foreign are enough to tell "the cached
  key", "the keyfile's key" and "the imported key" apart.
* `Keep` 1, so that every backup rotates, and an import or a killed backup
  leaves several snapshots to remove. The code's default is larger; the theorems
  hold for every `Keep >= 1`. Two imports, so that the second meets what a
  killed or rolled back first one left behind.
* `MaxGen`, `MaxSerial` and `MaxImports` are guards on `LoadKey`, which may also
  end the backup, and on `CmdImport` only, so no bound cuts a command in half.
* `RemotePush` needs two pushes with one id (collision) and two of one owner
  with different ids (order); a third push repeats one of these. One of the
  three uses the other transport, so that both kinds meet in one directory; the
  theorems hold for every assignment of transports and keyfiles.
* `PadSave`: `MaxEdits` 3 distinguishes saved, pending and lost; `MaxFailed`
  bounds how many entries are in the failed state at once, and 0 means that no
  write fails. `Names` has a spare name for a content file made while an old
  one exists. `pad_two` has one slot less than its events can need, so that the
  exit on a full table happens; the code has 200 slots for two events a note.
* `ConfigDir` has one note: that a copy or an extraction stops half-way shows as
  the note being there or not while the operation has failed. Four versions tell
  the snapshot's, Xpad's and two saved notes apart. Two XNotes are what a
  collision and a hand-over need. `MCConfigDir` does not go on from states in
  which starts and restores have met and something was written in between
  (`StillPromised`): the histories only grow, so that none of the three
  properties says anything of such a state or of any after it.
* `Desktop`: with two pads one can go while a click names the other; two starts
  of the tray give a first and a second generation; twelve ids let the menu be
  rebuilt several times; an action that would exceed a bound is not taken. The
  first idle check waits once instead of thirty times, since only "again" and
  "no more" differ. Command lines have up to two options, in which every
  pair that is treated together occurs.
* `PadText`: two characters and two tags give every nesting and every edge of a
  tag; `Typed` is the escape character, the one typed symbol the markup treats
  specially, and the delimiter comes in through a legacy content.
* `PadToolbar`: two pads share settings and pointer; lists of two buttons tell
  empty, the old default and others apart; `MaxMenus` 4 lets all three popovers
  that can be up together be counted, and one of them twice. `PadStyle`: two fonts and three
  colours tell the theme's, the default and a chosen one apart, four blocks are
  two more than any single handler adds.
* Symmetry is used over processes, the installation's own keys, pads and content
  names, only in runs without liveness properties.

### Fairness

* `BackupFairness`: weak fairness of a backup's steps from `LinkSnapshot` on.
  They are local file operations, and the remote commands run under a timeout
  (`runRemoteCommand`, `rcloneCatToFile`). The verification of a remote that is
  a path reads its files in the helper itself, under no timeout: that such reads
  end, like local ones, is assumed. Nothing is assumed of what waits for a
  passphrase or for `secret-tool`, which have no timeout either: a backup whose
  `LoadKey` never ends keeps `backup.lock` for ever, and so it does in the code.
* `RemotePush!FairSpec`: weak fairness of `CommandFails` (the timeout), `Verify`
  and `Readback`. Copying itself is not fair: a transport may hang.
* `PadSave!FairSpec`: weak fairness of `Fire` (a GLib timeout in the main loop)
  and `Dismiss` (the user closes an error dialog some day). No other action of
  the user is assumed.
* The other modules assume none: their properties hold however long the bus,
  the user or the timers take.

## 4. What is proved

`tlapm` checks every proof; the constants are arbitrary, under the assumptions
named in the modules (`ConstantsAssumption`, `NoneAssumption`,
`RemoteAssumption`, ...), and the bounds of the runs are constants like any
other.

### BackupStateProofs

| Theorem | States |
|---|---|
| `TypeCorrect`, `TypeInvCorrect` | `[]TypeOK`, and with it mutual exclusion by the lock |
| `HeadAlwaysOnDisk` | `[]HeadOnDisk` |
| `GenerationsAlwaysUnique` | `[]GenerationsUnique` |
| `BackupsAlwaysOpen` | `[]BackupsOpen` |
| `StatusAlwaysHonest` | `[]StatusHonest` |
| `KeysAlwaysPreserved` | `[]KeysPreserved` |
| `SnapshotsAlwaysPreserved` | `SnapshotsPreserved` |
| `LatestAlwaysNewest` | `[]LatestKitIsNewest` |

The argument has layers, each inductive given those before it.

1. `TypeInv` is `TypeOK`, `LockHeld` (whoever is not idle holds the lock) and
   `LocalsSet` (what a process has unwrapped, made or fetched by its step). It
   gives `OthersIdle`: at most one process is anywhere but idle, on which every
   later step rests.
2. `SnapInv` says where the head's snapshot is at each step of an import
   (in place, set aside, or being put back), that a snapshot about to be
   linked is newer than all on disk, and that nothing is set aside between
   imports. `HeadOnDisk` is not inductive without it: a rollback puts back what
   was set aside, so what was set aside must have been a good set.
   `GenerationsUnique` needs "newer than all on disk" because a snapshot linked
   by a killed backup has no head.
3. `KeyInv` says, as long as no import was cut short, which key opens the old
   set and the new set at each step of an import, and that a cached key is the
   keyfile's unless the marker stands. `BackupsOpen` is not inductive without
   it: the kit is made from the keyfile in place and a snapshot encrypted
   earlier.
4. `StatusInv` says that the result a push hands to `RecordAttempt` is on the
   remote already. `KeysHeld` and `SnapsHeld` say that what the state directory
   held is in place, aside or preserved; `AsideAt` and `MovedAt` at which steps
   of an import something is aside, so that no `pre-import` directory is
   begun over one that holds something.
5. `LatestInv` says, where only this installation uses the remote, that the kits
   are in order (a later backup has a higher generation), that the head, or at
   each step of an import the set that is in place or will be put back, is at
   least as new as every kit (`CoverAt`), and that a snapshot not pushed yet is
   newer than all of them (`FreshAt`). All this is said of the kits that are
   there and of those that orphans may add, less the ones an import has
   overtaken (`Live`). `LatestKitIsNewest` is only about two kits: it is not inductive, since a backup numbers its snapshot from the head and the
   snapshots on disk and never looks at the remote.

Each layer has one step per action and, under it, one per part of the invariant
that the action can disturb; `...Control` lemmas say once what entering, moving
through and leaving a command does to the program counters.

### RemotePushProofs

| Theorem | States |
|---|---|
| `TypeCorrect` | `[]TypeOK` |
| `ManifestIsCompletionMarker` | `[]ManifestMeansComplete` |
| `SuccessIsPublication` | `[]SuccessMeansPublished` |
| `KitsAreAppendOnly` | `Spec => RemoteStore!Spec` |
| `ImportAlwaysSeesOneKit` | `[]ImportSeesOneKit` |
| `LatestIsNeverStale` | `[]LatestNotStale` |

`PushInv` adds to the manifest's completeness that a push whose manifest command
runs, or has run, has its own payload in place. `NothingReplaced` (no step
changes a file that exists) then keeps both. `SuccessIsPublication` further
needs that a snapshot body identifies its push. `ReadInv` says of each reader
that what it has fetched is still what its directory holds, and that its
directory is no older than what it saw: inductive because nothing is replaced,
and because a push that reported success is listed.

### ConfigDirProofs

| Theorem | States |
|---|---|
| `TypeCorrect` | `[]TypeOK` |
| `ServerAlwaysReachable` | `[]ServerReachable` |
| `NotesAlwaysKept` | `[]NotesKept` |
| `CurrentNotesAlwaysLoaded` | `[]LoadsCurrentNotes` |

`ReachInv` adds to `ServerReachable` that, as long as nothing has met, at most
one start is under way and no restore runs beside an XNote, and what the steps
of a start know of the directory since they looked. `NoteInv` says for each step
of a migration and of a restore which of the four directories and the copies
holds the newest versions: a step that removes one needs another that has them.
`CurrentInv` names the one place where what the last save or restore left is
at each step.

### PadToolbarProofs and PadStyleProofs

| Theorem | States |
|---|---|
| `PadToolbarProofs!TypeCorrect` | `[]TypeOK` |
| `ToolbarAlwaysGoesAway` | `[]ToolbarGoesAway` |
| `TimerAlwaysOwned` | `[]TimerOwned` |
| `MenuAlwaysHoldsToolbar` | `MenuHoldsToolbar` |
| `ToolbarAlwaysSurvives` | `[]ToolbarSurvives` |
| `PadStyleProofs!TypeCorrect` | `[]TypeOK` |
| `AlwaysShowsItsStyle` | `[]ShowsItsStyle` |
| `LooksAlwaysSurvive` | `[]LooksSurvive` |

The toolbar's timer properties need each other, and `MenusCounted`: the counter
a pad keeps of its open menus is that of the popovers on screen, or the toolbar
would be held by a menu that is gone, and never less, or it could go under one
that is there. It is more only on a pad in `again`. `ShowsItsStyle` is inductive with
`DialogHasNote` (no dialog outlives its note); `LooksSurvive` needs `Kept`, what
the info file of a note without unsaved changes has in common with it.
### PadSaveProofs

| Theorem | States |
|---|---|
| `TypeCorrect` | `[]TypeOK` |
| `CleanAlwaysSaved` | `[]CleanMeansSaved` |
| `DeletedNeverBack` | `DeletedStaysDeleted` |
| `TextOnlyGrows` | `TextNeverLost`, while info files can be read |
| `QuitSaves` | `QuitSavesEverything` |
| `QuitAlwaysBacksUp` | `[]QuitBacksUp` |
| `AlwaysScheduled` | `[]EditsAreScheduled` |

`PadSaveProofs` first shows (`Steps`) that every step is one of ten kinds as far
as pads, flags and files go: typing, a new pad, the two outcomes of a reload,
marking, a save, a deletion, an end, a start. Each invariant then has one case per kind.

1. `Files`: flags and windows are the open pads' only, and no two notes have a
   content file in common, in memory or on disk (`FilesApart`). Without it a
   save of one note could be a change of another's text.
2. `Current`: the content file of a pad that could be read holds its text, or an
   older one that is flagged. `CleanMeansSaved` is half of it; the other half
   makes it inductive for `TextNeverLost`, where a save must not be a step back.
3. `Linked`: an open pad writes to the content file its info file names. It
   needs that info files can be read, which is why `TextOnlyGrows` assumes
   `"info" \notin ReadFaults`: what happens otherwise is among the hazards.
4. `InfosCurrent` and `FlushCovers`, for the quit: a pad without the flag of its
   info file is found again by the next start, and what is flagged while the
   program quits is still to be looked at or has failed.

The second half of the module is about the slots. `ScheduleAllGrows` is an induction over the
queue of entries a handler schedules: where there is room for all of them, each
gets a slot and none loses one. The library's induction theorems take an
operator as a parameter; the induction here goes by the least counterexample
(`Least`, from the well-foundedness of `<`), and `RunExists` shows in the same
way that the recursive function of `ScheduleAll` is defined. `Timer` adds to
`EditsAreScheduled` that the entry whose dialog is open has failed: the slot it
keeps is cleared when the dialog closes, whatever was scheduled meanwhile.

### DesktopProofs

| Theorem | States |
|---|---|
| `TypeCorrect` | `[]TypeOK` |
| `ClicksAreUnderstood` | `[]NoMisdispatch` |
| `OpenMenuIsCurrent` | `[]OpenMenuWorks` |
| `IndicatorIsRight` | `[]IndicatorIsShown` |
| `TrayKeepsStatus` | `KeepsStatus` (the tray implements `TrayStatus`) |
| `StaysInReach` | `NeverStranded` |

`NextIsGood` shows that the steps of `Desktop` change the tray's variables in few
ways (`TrayStep`): the process ends, the tray starts or stops, a pad comes or goes
with a new menu or without one, or the bus or the desktop acts. The two halves
of the invariant are then shown for those.

1. `BusInv` says what the callbacks still in the queues will say. Those of an
   earlier tray have a smaller generation and come first (`InOrder`); the name has
   one answer, which is the last callback in its queue (`OwnAnswer`); the last
   callback about the watcher is right, and if none is waiting `present` is
   (`WatchAnswer`); the icon is there unless a callback that registers it is on
   its way (`IconFollows`). `IndicatorIsShown` is what is left of it when the
   queues are empty.
2. `MenuInv` adds to `NoMisdispatch` that the desktop's copy agrees with the
   program's menu wherever an id is still there (`LayoutAgrees`), which `Rebuild`
   keeps because its ids are fresh; and that the menu printed last under an open
   one was of the pads there are (`OpenIsPrinted`), so that a pad which comes or
   goes changes the fingerprint.

`NeverStranded` needs little of it: each handler that can hide the last note asks
for the indicator or quits, and a tray that does not run claims none.

### PadTextProofs

| Theorem | States |
|---|---|
| `MarkupReadsBack` | `Decode(Encode(t)) = t` for every text `t` |
| `Invariant` | `[]IInv` |
| `TypeCorrect` | `[]TypeOK` |
| `UndoAlwaysEndsAtLoad` | `[]UndoEndsAtLoad` |
| `CleanAlwaysReadsBack` | `[]CleanReadsBack` |

`TextAssumption` is all that is assumed: the tags are finitely many and none is
a symbol of the markup, as in `create_tag_table`. Texts, files, tags and the
history are of any length.

1. The round trip. `UnescapeEnds`, `SplitIs`, `DecodeIs` and `FlattenRounds` turn
   the recursions into loops (`Halfway`, `CutUp`, `ReadAll`) of which a round
   can be stated: what is read of a longer string, from what was read before.
   `Marked(str, u, G)` then says where the reader is after `str`: in a token of
   text, not behind an escape character, with exactly the tags of `G` open and
   `u` read. A character in its escaped form reads as itself (`EscapeReads`,
   `MarkedChar`), an opening mark adds a tag and a closing one takes it away
   (`MarkedOpen`, `MarkedClose`), so that the part written for a position leads
   from the tags before it to those at it (`MarkedPart`), in whatever
   order `SetToSeq` lists them. The reader keeps a list of open tags and removes
   by name, so that tags which overlap without nesting read back too.
2. The history. `UndoEndsAtLoad` is not inductive: redoing takes an entry from a
   stack the property does not look at. `IInv` adds `History`: there is a chain
   of character sequences, one for each entry that was done or undone, that
   begins with the text as it was loaded, has the text on screen between the two
   stacks, and in which each entry fits the sequence before it and leads to the
   next. An entry that fits is taken back by its inverse (`CutUndoesPut`,
   `PutUndoesCut`). `TypeOK` needs the chain as well: without it an undo could
   delete past the end of the text. TLC checked the chain on the instance of
   `pad_text` before it was proved.
3. `CleanReadsBack` needs the round trip for `Save`; every edit flags the note
   (`EditStep`), and a load starts from what the file reads as.

The induction over a loop is one over the numbers up to its length (`UpTo`),
again by the least counterexample; `Rounds` shows in the same way that the loop
is defined.

### Only model-checked

Every invariant and every action property of the runs is stated by a theorem.
What TLC alone checks are the liveness properties (`BackupReleasesLock`,
`PushEnds`, `EditsReachDisk`), which rest on fairness and so on `ENABLED`, outside
what the proof system's backends handle; and the two statements of the documents
that the code does not keep, which TLC refutes (section 5).


## 5. Findings and known divergences

1. `pad_crash`: pads are made and loaded before the timer is set up
   (`xpad-app.c:230`), so the info flag of a new note is set but not scheduled.
   Its content file is written on the first tick after an edit; its info file
   only when something else about the pad changes, or at a quit. A kill in
   between loses the note, however much later it comes, where `README.md` says
   that "a crash never costs more than the last few seconds".
2. `restore_socket`: after XNote, or an Xpad that was migrated, has run, its
   socket's file stays, at a crash and at a normal quit alike, because
   `xpad_app_quit` unlinks a name that `xpad_app_init` has freed and cleared
   (`xpad-app.c:245`, 383). `restore` rightly does not count it as a running
   XNote, and then refuses it as a non-regular entry of its safety copy
   (`commands.go:782`), with `--force` too. The user guide says that a stale
   socket "does not count", the changelog that XNote removes it when it quits.
   `RemoveStaleSocket` is what a user has to do by hand.

What else was met while modelling. The models contain these as they are, and the
properties say what holds besides.

* Recovery. `installRecoveryKit` renames the imported keyfile into place
  (`recovery.go:439`) before it writes `import-needs-unlock` (448), and the
  cached key is deleted later still (`commands.go:549`): a helper killed in
  between lets the next backup make a kit that its own keyfile does not open
  (`doc/xnote-cloud-backup.1:51` says that an import blocks backups).
* `latest`. A helper killed while it pushes releases `backup.lock`, but its
  rsync or rclone goes on (`remote.go:257`, 275). If a user then imports
  `latest`, an older kit, and unlocks it, and the orphan publishes its kit
  afterwards, the next backups are numbered from the imported head, below or
  beside the orphan's generation, and `latest` (`remote.go:358-373`) goes on
  naming the orphan's kit although newer ones are there. `overtaken` marks these
  histories.
* The lock. A backup waits for `secret-tool` (`commands.go:127`,
  `keyring.go:66-91`), which may wait for the user to unlock the keyring, without
  a timeout and under `backup.lock`.
* Migration. Of two XNotes started at once with an Xpad directory, the second to
  rename finds its source gone, fails to copy it, and deletes the "partial
  destination" (`xpad-app.c:618`), which is the directory the first has just
  moved there.
* Closing the last note without a tray hides it and quits, and the quit saves
  its info file, if that is flagged, as hidden (`xpad-pad.c:923-928`).
* Second launch. A plain launch is swallowed by a startup display other than
  "restore" (`xpad-app.c:1196-1205`, 1234; `docs/user-guide.md:297`). `--new
  --hide`, `--toggle`, or a new note at start with `--hide`, on a cold start,
  end the program before the tray is set up (`xpad-app.c:207`, 1188).
* Deleting the last visible note without an icon leaves XNote running with
  nothing on screen (`xpad-pad.c:984-1044`); a watcher that is only late at login
  counts as none.
* The Notes submenu finds its pads by their place in the list
  (`xpad-pad.c:1816-1826`, 1921-1950), which may have changed since the menu was
  opened; `LayoutUpdated` is left out for some changes (`xpad-tray.c:558`), which
  the desktop makes up for by `AboutToShow`.
* The edit lock is passed by the menus and the toolbar
  (`xpad-pad.c:1709-1812`; `docs/user-guide.md:148-149`).
* The Preferences radio buttons cannot choose the theme's font or colours again
  (`xpad-preferences.c:160-202`; `docs/user-guide.md:115`, 183, 550).
* New pads, and pads that had a font of their own, follow the default font only
  from the next start on, since their handler is blocked more often than
  unblocked.
* A pad that an old version locked under the theme's colours shows the theme and
  saves the default; the palette's swatch shows the default where the defaults
  are the theme's.
* Menu or Shift+F10 over the pad's own open menu (`xpad-pad.c:449-450`,
  1286-1292) calls `menu_popup` again (2062-2088): `menus_open` is 2, the menu
  closes once, and the countdown that `menu_popdown` means to restart "once the
  last menu is gone" (2056) never starts again on that pad: its toolbar no
  longer hides by itself until XNote restarts.
* Remove All toolbar buttons is not saved (`xpad-settings.c:323-341`;
  `docs/user-guide.md:101-102`), and a list that spells the default of before
  1.4 is replaced when read (702-708).
* A file opened as a new note is read as markup where it holds `U+E000`
  (`xpad-pad.c:212-244`); undo does not bring formatting back.
* Saving the settings ignores a failed write.

## 6. What is left out (not modelled)

* Contents: titles, positions, the format of info and settings files,
  ciphertexts, hashes (serial numbers stand for them), times.
* Power loss. A kill stops a process; the files it renamed are there. The code
  calls no `fsync`, so what survives a power loss is the file system's matter.
* Other programs writing to the directories, and users removing files by hand.
* In `PadSave`: unreadable info files (`ReadFaults` has contents only; an
  unreadable info file detaches the note from its content, see the hazard at
  `xpad-pad.c:1538`), commands and ticks during the error dialog of a quit,
  `--hide` and `--toggle` (these are `Desktop`'s), the Layout dialog of a pad
  that is deleted (`PadStyle`'s). `mkstemp` never returns a name that is still in
  use or named by an info file. A backup timer that every save restarts, and so
  puts off without end, has no bound in the code (`xpad-backup.c:97`).
* In `ConfigDir`: the choice and the checks of the snapshot (one that head.json
  does not name is not compared with its hash), the migration of `~/.xpad`, a
  safety copy's name used twice in one second, `--remote` starts without a
  display, an Xpad that is started again, and a second server in the moment
  between the unlink and the bind of the first. A safety copy and a recursive
  deletion are one step each: a note written during the copy is in it or counts
  as written after it, and a deletion cut short leaves what a copy cut short
  leaves.
* In `BackupState`: `restore`, which does not write the recovery state;
  `list`, `remote-list` and `status`, which only read; the recovery code, which
  an `init` killed before it prints it never shows; the next try of a push that
  failed, of which there is none: a later backup pushes its own snapshot.
* In `RemotePush`: the checks of names and paths (a precondition), the device
  name.
* In `Desktop` and `Tray`: D-Bus itself (it delivers each watch's callbacks in
  order, an assumption about GDBus), GTK's menus and windows, the notes' keys
  that change nothing here.
* In `PadText`: the limit GtkTextBuffer sets on its undo levels, which drops the
  oldest entries of a long history: undoing all there is then stops later than
  at the loaded text. `Record` is bounded instead.
* In `PadText`, `PadToolbar`, `PadStyle`: what cut, copy, paste and the single
  toolbar buttons are greyed out by, line numbers, scrollbar, decorations, sizes
  and the autostart launcher; Preferences rows that are two-way bindings of one
  setting.
* The archive against notes that are being saved and deleted: an archive may hold
  an info file of one moment and a content file of another, and no document
  promises otherwise.
* Parts with no module, each with its reason in `PROJECT.json`: the archive's
  format, encryption and key wrapping, the helper's configuration and terminal,
  search bar, help, grip and styling helpers, packaging, vendored libraries.

## 7. Plan

The order is by what is at stake: first what holds the keys and the snapshots,
then what carries them, then the notes themselves, then what the user sees.
Next:

1. Restore and recovery state together: `ConfigDir` composed with
   `BackupState`'s snapshots, for the rollback guard and the hash check against
   the head (`commands.go:354-378`).
2. The hand-over of arguments: a server that ends before it has answered
   (`xpad_app_pass_args`, `xpad_app_read_from_proc_file`).
3. The archive against `PadSave`.
4. `StreamFrames`: the chunk framing of `crypto.go` with truncation, reordering
   and the final flag, against a reference definition.

## 8. Running

```
tlc -workers 2 -config MCBackupState.cfg MCBackupState.tla
tlc -workers 2 -config MCPadOne.cfg MCPadSave.tla
tlapm BackupStateProofs.tla
```

`MCBackup*.cfg` belong to `MCBackupState`, `MCPadOne.cfg`, `MCPadTwo.cfg` and
`MCPadCrash.cfg` to `MCPadSave`, `MCConfigDir.cfg` and `MCRestoreSocket.cfg` to
`MCConfigDir`; the other `.cfg` files have the name of their module.
